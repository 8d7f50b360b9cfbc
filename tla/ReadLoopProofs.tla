--------------------------- MODULE ReadLoopProofs ---------------------------
(***************************************************************************)
(* Theorems about ReadLoop: which line of its buffer a query ends on, and  *)
(* how long it may take.                                                   *)
(*                                                                         *)
(* What the controller sends is a stream of whole lines.  A port that is   *)
(* closed loses a part of it, but always its front: what is in the reader  *)
(* and on the wire begins anywhere and ends with the end of a line.  So    *)
(* does the buffer of a query with what is still to come behind it; the    *)
(* buffer alone lacks at most the end of its last line.                    *)
(***************************************************************************)
EXTENDS ReadLoop, FiniteSetTheorems, SequenceTheorems, WellFoundedInduction, TLAPS

----------------------------------------------------------------------------
(* Streams *)

Values(s, a, b) == {j \in a..b : s[j] = "v"}

\* The line that begins at k is whole and ends before e.
LineFrom(s, k, e) ==
  /\ s[e] = "end" /\ \A j \in k..(e - 1) : s[j] # "end"
  /\ Cardinality(Values(s, k, e - 1)) >= Count[s[k]]

WholeAt(s, k) ==
  /\ s[k] = "v" => k < Len(s) /\ s[k + 1] \in {"w", "w779"}
  /\ s[k] \in Command => \E e \in (k + 1)..Len(s) : LineFrom(s, k, e)

\* Whole lines, of which the last one may not have an end yet.
BegunLines(s) ==
  \A k \in DOMAIN s :
    /\ s[k] = "v" /\ k < Len(s) => s[k + 1] \in {"w", "w779"}
    /\ s[k] \in Command =>
         \/ \E e \in (k + 1)..Len(s) : LineFrom(s, k, e)
         \/ \A j \in k..Len(s) : s[j] # "end"

\* t repeats the stretch a..b of s, n places further on.
Repeats(t, s, n, a, b) == \A j \in a..b : t[j + n] = s[j]

LEMMA Joins ==
  ASSUME NEW s \in Seq(Token), NEW t \in Seq(Token)
  PROVE  s \o t \in Seq(Token)
OBVIOUS

LEMMA Rejoins ==
  ASSUME NEW s \in Seq(Token), NEW t \in Seq(Token), NEW u \in Seq(Token)
  PROVE  (s \o t) \o u = s \o (t \o u)
BY ConcatAssociative

LEMMA WholePoint ==
  ASSUME NEW s
  PROVE  WholeLines(s) <=> \A k \in DOMAIN s : WholeAt(s, k)
BY DEF WholeLines, WholeAt, LineFrom, Values

\* A stretch of a sequence has as many values as its copy elsewhere.
LEMMA CopyCount ==
  ASSUME NEW s, NEW t, NEW n \in Int, NEW a \in Int, NEW b \in Int,
         Repeats(t, s, n, a, b)
  PROVE  Cardinality(Values(t, a + n, b + n)) = Cardinality(Values(s, a, b))
<1> DEFINE S == {j \in a..b : s[j] = "v"}
           T == {j \in (a + n)..(b + n) : t[j] = "v"}
           f == [j \in S |-> j + n]
<1>1. IsFiniteSet(S)
  <2>1. IsFiniteSet(a..b)
    BY FS_Interval
  <2> QED BY <2>1, FS_Subset, S \subseteq a..b
<1>2. f \in Injection(S, T)
  <2>1. \A j \in S : j + n \in T
    BY DEF Repeats
  <2>2. \A i, j \in S : i + n = j + n => i = j
    OBVIOUS
  <2> QED BY <2>1, <2>2 DEF Injection, IsInjective
<1>3. \A j \in T : \E i \in S : f[i] = j
  <2> TAKE j \in T
  <2>1. j - n \in a..b /\ (j - n) + n = j
    OBVIOUS
  <2>2. t[(j - n) + n] = s[j - n]
    BY <2>1 DEF Repeats
  <2>3. j - n \in S
    BY <2>1, <2>2
  <2> QED BY <2>1, <2>3
<1>4. f \in Bijection(S, T)
  BY <1>2, <1>3 DEF Bijection, Surjection, Injection
<1>5. Cardinality(T) = Cardinality(S)
  BY <1>1, <1>4, FS_Bijection DEF ExistsBijection
<1> QED BY <1>5 DEF Values

\* A place is whole in every sequence that repeats what follows it.
LEMMA CopyWhole ==
  ASSUME NEW s \in Seq(Token), NEW t \in Seq(Token), NEW n \in Int,
         NEW k \in DOMAIN s, k + n \in DOMAIN t, Len(s) + n <= Len(t),
         \A j \in k..Len(s) : t[j + n] = s[j], WholeAt(s, k)
  PROVE  WholeAt(t, k + n)
<1>1. /\ Len(s) \in Nat /\ Len(t) \in Nat
      /\ k \in 1..Len(s) /\ k + n \in 1..Len(t) /\ t[k + n] = s[k]
  OBVIOUS
<1>2. ASSUME t[k + n] = "v"
      PROVE  k + n < Len(t) /\ t[(k + n) + 1] \in {"w", "w779"}
  <2>1. k < Len(s) /\ s[k + 1] \in {"w", "w779"}
    BY <1>1, <1>2 DEF WholeAt
  <2>2. k + 1 \in k..Len(s) /\ (k + n) + 1 = (k + 1) + n
    BY <1>1, <2>1
  <2>3. t[(k + 1) + n] = s[k + 1]
    BY <2>2
  <2> QED BY <1>1, <2>1, <2>2, <2>3
<1>3. ASSUME t[k + n] \in Command
      PROVE  \E e \in ((k + n) + 1)..Len(t) : LineFrom(t, k + n, e)
  <2>1. PICK e \in (k + 1)..Len(s) : LineFrom(s, k, e)
    BY <1>1, <1>3 DEF WholeAt
  <2>2. /\ e \in k..Len(s) /\ e + n \in ((k + n) + 1)..Len(t)
        /\ e - 1 \in Int /\ (e + n) - 1 = (e - 1) + n
    BY <1>1, <2>1
  <2>3. t[e + n] = "end"
    BY <2>1, <2>2 DEF LineFrom
  <2>4. ASSUME NEW j \in (k + n)..((e + n) - 1)
        PROVE  t[j] # "end"
    <3>1. /\ j - n \in k..(e - 1) /\ j - n \in k..Len(s)
          /\ (j - n) + n = j
      BY <1>1, <2>2
    <3>2. t[(j - n) + n] = s[j - n]
      BY <3>1
    <3> QED BY <2>1, <3>1, <3>2 DEF LineFrom
  <2>5. Cardinality(Values(t, k + n, (e - 1) + n)) = Cardinality(Values(s, k, e - 1))
    <3> DEFINE b == e - 1
    <3>1. n \in Int /\ k \in Int /\ b \in Int
      BY <1>1, <2>2
    <3>3. Repeats(t, s, n, k, b)
      <4>1. k..b \subseteq k..Len(s)
        BY <1>1, <2>2
      <4> QED BY <4>1 DEF Repeats
    <3> HIDE DEF b
    <3>2. Cardinality(Values(t, k + n, b + n)) = Cardinality(Values(s, k, b))
      BY <3>1, <3>3, CopyCount
    <3> QED BY <3>2 DEF b
  <2>6. Cardinality(Values(t, k + n, (e + n) - 1)) >= Count[t[k + n]]
    <3>1. (e + n) - 1 = (e - 1) + n
      BY <1>1, <2>2
    <3> QED BY <1>1, <2>1, <2>5, <3>1 DEF LineFrom
  <2> QED BY <2>2, <2>3, <2>4, <2>6 DEF LineFrom
<1> QED BY <1>2, <1>3 DEF WholeAt

\* One reply behind the other.
LEMMA ConcatWhole ==
  ASSUME NEW s \in Seq(Token), NEW t \in Seq(Token), WholeLines(s), WholeLines(t)
  PROVE  WholeLines(s \o t)
<1>1. /\ s \o t \in Seq(Token) /\ Len(s \o t) = Len(s) + Len(t)
      /\ Len(s) \in Nat /\ Len(t) \in Nat
      /\ DOMAIN s = 1..Len(s) /\ DOMAIN t = 1..Len(t)
      /\ DOMAIN (s \o t) = 1..(Len(s) + Len(t))
  OBVIOUS
<1>2. \A j \in 1..Len(s) : (s \o t)[j] = s[j]
  OBVIOUS
<1>3. \A j \in 1..Len(t) : (s \o t)[j + Len(s)] = t[j]
  OBVIOUS
<1> SUFFICES ASSUME NEW k \in DOMAIN (s \o t) PROVE WholeAt(s \o t, k)
  BY WholePoint
<1>4. CASE k <= Len(s)
  <2>1. k \in DOMAIN s /\ WholeAt(s, k)
    BY <1>1, <1>4, WholePoint
  <2> DEFINE n == 0
  <2>2. n \in Int /\ k + n = k /\ Len(s) + n <= Len(s \o t)
    BY <1>1
  <2>3. \A j \in k..Len(s) : (s \o t)[j + n] = s[j]
    <3> TAKE j \in k..Len(s)
    <3>1. j \in 1..Len(s) /\ j + n = j
      BY <1>1, <2>1
    <3> QED BY <1>2, <3>1
  <2> HIDE DEF n
  <2>4. WholeAt(s \o t, k + n)
    BY <1>1, <2>1, <2>2, <2>3, CopyWhole
  <2> QED BY <2>2, <2>4
<1>5. CASE k > Len(s)
  <2> DEFINE n == Len(s)
             i == k - n
  <2>1. n \in Int /\ i \in DOMAIN t /\ i + n = k /\ Len(t) + n <= Len(s \o t)
    BY <1>1, <1>5
  <2>2. WholeAt(t, i)
    BY <2>1, WholePoint
  <2>3. \A j \in i..Len(t) : (s \o t)[j + n] = t[j]
    BY <1>1, <1>3, <2>1
  <2> HIDE DEF i, n
  <2>4. WholeAt(s \o t, i + n)
    BY <1>1, <2>1, <2>2, <2>3, CopyWhole
  <2> QED BY <2>1, <2>4
<1> QED BY <1>1, <1>4, <1>5

\* What is lost in front of a stream leaves whole lines, but for the first.
LEMMA DropWhole ==
  ASSUME NEW s \in Seq(Token), NEW t \in Seq(Token), WholeLines(s \o t)
  PROVE  WholeLines(t)
<1>1. /\ s \o t \in Seq(Token) /\ Len(s \o t) = Len(s) + Len(t)
      /\ Len(s) \in Nat /\ Len(t) \in Nat /\ DOMAIN t = 1..Len(t)
      /\ DOMAIN (s \o t) = 1..(Len(s) + Len(t))
      /\ \A j \in 1..Len(t) : (s \o t)[j + Len(s)] = t[j]
  OBVIOUS
<1> SUFFICES ASSUME NEW k \in DOMAIN t PROVE WholeAt(t, k)
  BY WholePoint
<1> DEFINE i == k + Len(s)
           n == -Len(s)
<1>2. /\ n \in Int /\ i \in DOMAIN (s \o t) /\ i + n = k
      /\ Len(s \o t) + n <= Len(t)
  BY <1>1
<1>3. WholeAt(s \o t, i)
  BY <1>2, WholePoint
<1>4. \A j \in i..Len(s \o t) : t[j + n] = (s \o t)[j]
  <2> TAKE j \in i..Len(s \o t)
  <2>1. j + n \in 1..Len(t) /\ (j + n) + Len(s) = j
    BY <1>1
  <2> QED BY <1>1, <2>1
<1> HIDE DEF i, n
<1>5. WholeAt(t, i + n)
  BY <1>1, <1>2, <1>3, <1>4, CopyWhole
<1> QED BY <1>2, <1>5

\* What has arrived of a stream.
LEMMA FrontBegun ==
  ASSUME NEW s \in Seq(Token), NEW t \in Seq(Token), WholeLines(s \o t)
  PROVE  BegunLines(s)
<1> DEFINE st == s \o t
<1>1. /\ Len(s) \in Nat /\ DOMAIN s = 1..Len(s) /\ Len(s) <= Len(st)
      /\ Len(st) \in Nat
      /\ \A j \in 1..Len(s) : j \in DOMAIN st /\ st[j] = s[j]
  OBVIOUS
<1>2. \A k \in DOMAIN s : WholeAt(st, k)
  BY <1>1, WholePoint
<1> HIDE DEF st
<1> SUFFICES ASSUME NEW k \in DOMAIN s
             PROVE  /\ s[k] = "v" /\ k < Len(s) => s[k + 1] \in {"w", "w779"}
                    /\ s[k] \in Command =>
                         \/ \E e \in (k + 1)..Len(s) : LineFrom(s, k, e)
                         \/ \A j \in k..Len(s) : s[j] # "end"
  BY DEF BegunLines
<1>3. k \in 1..Len(s) /\ st[k] = s[k] /\ WholeAt(st, k)
  BY <1>1, <1>2
<1>4. s[k] = "v" /\ k < Len(s) => s[k + 1] \in {"w", "w779"}
  <2> HAVE s[k] = "v" /\ k < Len(s)
  <2>1. k + 1 \in 1..Len(s)
    BY <1>1, <1>3
  <2> QED BY <1>1, <1>3, <2>1 DEF WholeAt
<1>5. ASSUME s[k] \in Command
      PROVE  \/ \E e \in (k + 1)..Len(s) : LineFrom(s, k, e)
             \/ \A j \in k..Len(s) : s[j] # "end"
  <2>1. PICK e \in (k + 1)..Len(st) : LineFrom(st, k, e)
    BY <1>3, <1>5 DEF WholeAt
  <2>2. CASE e <= Len(s)
    <3>1. e \in (k + 1)..Len(s) /\ e \in 1..Len(s) /\ k..(e - 1) \subseteq 1..Len(s)
      BY <1>1, <1>3, <2>1, <2>2
    <3>2. \A j \in k..(e - 1) : st[j] = s[j]
      BY <1>1, <3>1
    <3>3. Values(s, k, e - 1) = Values(st, k, e - 1)
      BY <3>2 DEF Values
    <3>4. st[e] = s[e]
      BY <1>1, <3>1
    <3>5. LineFrom(s, k, e)
      BY <1>3, <2>1, <3>2, <3>3, <3>4 DEF LineFrom
    <3> QED BY <3>1, <3>5
  <2>3. CASE e > Len(s)
    <3>1. \A j \in k..Len(s) : j \in 1..Len(s) /\ j \in k..(e - 1)
      BY <1>1, <1>3, <2>1, <2>3
    <3> QED BY <1>1, <2>1, <3>1 DEF LineFrom
  <2> QED BY <1>1, <2>1, <2>2, <2>3
<1> QED BY <1>4, <1>5

\* An error line or the answer to an abort has no value and no command.
LEMMA NoticeWhole ==
  /\ <<"779", "end">> \in Seq(Token) /\ WholeLines(<<"779", "end">>)
  /\ <<"993", "end">> \in Seq(Token) /\ WholeLines(<<"993", "end">>)
<1>1. {"779", "993", "end"} \subseteq Token
  BY DEF Token
<1>2. \A x \in {"779", "993"} :
        <<x, "end">> \in Seq(Token) /\ WholeLines(<<x, "end">>)
  <2> TAKE x \in {"779", "993"}
  <2> DEFINE s == <<x, "end">>
  <2>1. s \in Seq(Token)
    BY <1>1
  <2>2. DOMAIN s = 1..2 /\ s[1] = x /\ s[2] = "end"
    OBVIOUS
  <2> HIDE DEF s
  <2>3. ASSUME NEW k \in DOMAIN s
        PROVE  s[k] # "v" /\ s[k] \notin Command
    <3>1. s[k] \in {"779", "993", "end"}
      BY <2>2, <2>3
    <3> QED BY <3>1, CommandAssumption
  <2>4. \A k \in DOMAIN s : WholeAt(s, k)
    BY <2>3 DEF WholeAt
  <2> QED BY <2>1, <2>4, WholePoint DEF s
<1> QED BY <1>2

----------------------------------------------------------------------------
(* Lines *)

LEMMA LeastNumber ==
  ASSUME NEW T, T \subseteq Nat, T # {}
  PROVE  \E x \in T : \A y \in T : x <= y
<1>1. PICK x \in T : \A y \in T : <<y, x>> \notin OpToRel(<, Nat)
  BY NatLessThanWellFounded, WFMin
<1>2. ASSUME NEW y \in T PROVE ~(y < x)
  BY <1>1, x \in Nat, y \in Nat DEF OpToRel
<1> QED BY <1>2

\* Two places on one line, the first of its places and the last.
LEMMA LineBounds ==
  ASSUME NEW buf \in Seq(Token), NEW l \in Lines(buf)
  PROVE  /\ l[1] \in DOMAIN buf /\ l[2] \in DOMAIN buf
         /\ l[1] \in Nat /\ l[2] \in Nat /\ l[1] <= l[2] /\ l[2] <= Len(buf)
         /\ l = <<l[1], l[2]>>
         /\ \A k \in l[1]..l[2] : buf[k] # "end" /\ k \in DOMAIN buf
         /\ l[1] = 1 \/ buf[l[1] - 1] = "end"
         /\ l[2] = Len(buf) \/ buf[l[2] + 1] = "end"
<1>1. /\ l \in (DOMAIN buf) \X (DOMAIN buf) /\ l[1] <= l[2]
      /\ \A k \in l[1]..l[2] : buf[k] # "end"
      /\ l[1] = 1 \/ buf[l[1] - 1] = "end"
      /\ l[2] = Len(buf) \/ buf[l[2] + 1] = "end"
  BY DEF Lines
<1>2. DOMAIN buf = 1..Len(buf) /\ Len(buf) \in Nat
  OBVIOUS
<1>3. l[1] \in DOMAIN buf /\ l[2] \in DOMAIN buf /\ l = <<l[1], l[2]>>
  BY <1>1
<1> QED BY <1>1, <1>2, <1>3

\* In whole lines the first line with the right command has enough values, if
\* any line has: whatever is not complete ends the buffer.
LEMMA FirstIsComplete ==
  ASSUME NEW buf \in Seq(Token), NEW c \in Command, BegunLines(buf),
         Complete(buf, c) # {}
  PROVE  Decoded(buf, c) # {} /\ Decoded(buf, c) \subseteq Complete(buf, c)
<1> DEFINE Own == {l \in Lines(buf) : IsOwn(buf, l, c)}
           T == {l[1] : l \in Own}
<1>1. PICK l \in Complete(buf, c) : TRUE
  OBVIOUS
<1>2. l \in Own /\ l \in Lines(buf) /\ NumValues(buf, l) >= Count[c]
  BY DEF Complete
<1>3. Decoded(buf, c) # {}
  <2>1. T \subseteq Nat /\ T # {}
    BY <1>2, LineBounds
  <2>2. PICK x \in T : \A y \in T : x <= y
    BY <2>1, LeastNumber
  <2>3. PICK d \in Own : d[1] = x
    OBVIOUS
  <2>4. \A m \in Lines(buf) : IsOwn(buf, m, c) => d[1] <= m[1]
    BY <2>2, <2>3
  <2> QED BY <2>3, <2>4 DEF Decoded
<1>4. ASSUME NEW d \in Decoded(buf, c)
      PROVE  NumValues(buf, d) >= Count[c]
  <2>1. d \in Lines(buf) /\ IsOwn(buf, d, c) /\ d[1] <= l[1]
    BY <1>2 DEF Decoded
  <2>2. buf[d[1]] = c
    BY <2>1 DEF IsOwn
  <2>3. CASE \E e \in (d[1] + 1)..Len(buf) : LineFrom(buf, d[1], e)
    <3>1. PICK e \in (d[1] + 1)..Len(buf) : LineFrom(buf, d[1], e)
      BY <2>3
    <3>2. /\ buf[e] = "end" /\ \A j \in d[1]..(e - 1) : buf[j] # "end"
          /\ Cardinality(Values(buf, d[1], e - 1)) >= Count[c]
      BY <2>2, <3>1 DEF LineFrom
    <3>3. d[2] = e - 1
      <4>1. d[2] < e
        BY <2>1, <3>1, <3>2, LineBounds
      <4>2. ~(d[2] < e - 1)
        <5> SUFFICES ASSUME d[2] < e - 1 PROVE FALSE
          OBVIOUS
        <5>1. d[2] # Len(buf) /\ d[2] + 1 \in d[1]..(e - 1)
          BY <2>1, <3>1, LineBounds
        <5> QED BY <2>1, <3>2, <5>1, LineBounds
      <4> QED BY <2>1, <3>1, <4>1, <4>2, LineBounds
    <3> QED BY <3>2, <3>3 DEF NumValues, Values
  <2>4. CASE \A j \in d[1]..Len(buf) : buf[j] # "end"
    <3>1. d[2] = Len(buf)
      <4> SUFFICES ASSUME d[2] # Len(buf) PROVE FALSE
        OBVIOUS
      <4>1. d[2] + 1 \in d[1]..Len(buf) /\ buf[d[2] + 1] = "end"
        BY <2>1, LineBounds
      <4> QED BY <2>4, <4>1
    <3>2. l[1] = d[1]
      <4> SUFFICES ASSUME l[1] # d[1] PROVE FALSE
        OBVIOUS
      <4>1. l[1] - 1 \in d[1]..Len(buf) /\ l[1] # 1
        BY <1>2, <2>1, LineBounds
      <4>2. buf[l[1] - 1] = "end"
        BY <1>2, <4>1, LineBounds
      <4> QED BY <2>4, <4>1, <4>2
    <3>3. l[2] = Len(buf)
      <4> SUFFICES ASSUME l[2] # Len(buf) PROVE FALSE
        OBVIOUS
      <4>1. l[2] + 1 \in d[1]..Len(buf)
        BY <1>2, <2>1, <3>2, LineBounds
      <4>2. buf[l[2] + 1] = "end"
        BY <1>2, LineBounds
      <4> QED BY <2>4, <4>1, <4>2
    <3> QED BY <1>2, <3>1, <3>2, <3>3 DEF NumValues
  <2>5. d[1] \in DOMAIN buf
    BY <2>1, LineBounds
  <2> QED BY <2>2, <2>3, <2>4, <2>5 DEF BegunLines
<1>5. Decoded(buf, c) \subseteq Complete(buf, c)
  BY <1>4 DEF Decoded, Complete
<1> QED BY <1>3, <1>5

----------------------------------------------------------------------------
(* The invariant *)

Stream == inbox \o wire

\* The reader belongs to an open port; a query runs on one.
PortInv ==
  /\ open \/ inbox = <<>>
  /\ reading => open /\ pos > 0
  /\ errors <= faults

\* The time and the data of a query that runs and of one that has ended.
LimitInv ==
  /\ elapsed < ReadTimeout + WaitTimeout /\ waitEnd < ReadTimeout + WaitTimeout
  /\ chunks <= MaxChunks + 1
  /\ reading => elapsed <= waitEnd /\ chunks <= MaxChunks

\* What has been read is followed by the stream as long as the query runs.
StreamInv ==
  /\ WholeLines(Stream)
  /\ reading => WholeLines(buffer \o Stream)
  /\ BegunLines(buffer)

AcceptedInv == Accepted => Complete(buffer, Running) # {}

LEMMA InitInv == Init => TypeOK /\ PortInv /\ LimitInv /\ StreamInv /\ AcceptedInv
<1> SUFFICES ASSUME Init PROVE TypeOK /\ PortInv /\ LimitInv /\ StreamInv /\ AcceptedInv
  OBVIOUS
<1> USE ScriptAssumption, LimitAssumption DEF Init
<1>1. TypeOK
  <2>1. Len(Script) \in Nat
    OBVIOUS
  <2>2. pos \in 0..Len(Script)
    BY <2>1
  <2>7. reading \in BOOLEAN /\ open \in BOOLEAN
    OBVIOUS
  <2>3. elapsed \in Nat /\ waitEnd \in Nat /\ chunks \in Nat
    OBVIOUS
  <2>4. buffer \in Seq(Token) /\ inbox \in Seq(Token) /\ wire \in Seq(Token)
    OBVIOUS
  <2>5. result \in [DOMAIN Script -> {"none", "ok", "desync", "incomplete", "failed"}]
    OBVIOUS
  <2>6. faults \in 0..MaxFaults /\ errors \in 0..MaxFaults
    OBVIOUS
  <2> QED BY <2>2, <2>3, <2>4, <2>5, <2>6, <2>7 DEF TypeOK
<1>2. WholeLines(Stream) /\ BegunLines(buffer)
  <2>1. Stream = <<>> /\ buffer = <<>>
    BY DEF Stream
  <2> QED BY <2>1 DEF WholeLines, BegunLines
<1> QED BY <1>1, <1>2 DEF PortInv, LimitInv, StreamInv, AcceptedInv, Accepted

\* A reply behind what is on its way.
LEMMA SendWhole ==
  ASSUME TypeOK, WholeLines(Stream), NEW t \in Seq(Token), WholeLines(t)
  PROVE  /\ WholeLines(inbox \o (wire \o t)) /\ WholeLines(wire \o t)
         /\ wire \o t \in Seq(Token)
<1>1. inbox \in Seq(Token) /\ wire \in Seq(Token) /\ Stream \in Seq(Token)
  BY DEF TypeOK, Stream
<1>2. inbox \o (wire \o t) = Stream \o t
  <2>1. (inbox \o wire) \o t = inbox \o (wire \o t)
    BY <1>1, Rejoins
  <2> QED BY <2>1 DEF Stream
<1>3. WholeLines(Stream \o t)
  BY <1>1, ConcatWhole
<1>4. WholeLines(wire)
  BY <1>1, DropWhole DEF Stream
<1> QED BY <1>1, <1>2, <1>3, <1>4, ConcatWhole

LEMMA TypeStep == TypeOK /\ PortInv /\ [Next]_vars => TypeOK' /\ PortInv'
<1> SUFFICES ASSUME TypeOK, PortInv, [Next]_vars PROVE TypeOK' /\ PortInv'
  OBVIOUS
<1> USE ScriptAssumption, AnswerAssumption, LimitAssumption
<1>0. /\ <<"779", "end">> \in Seq(Token) /\ <<"993", "end">> \in Seq(Token)
      /\ Len(Script) \in Nat /\ pos \in Nat
      /\ wire \in Seq(Token) /\ buffer \in Seq(Token) /\ inbox \in Seq(Token)
  BY NoticeWhole DEF TypeOK
<1>1. CASE Query
  <2>1. pos' \in 1..Len(Script)
    <3>1. pos' = pos + 1 /\ pos < Len(Script)
      BY <1>1 DEF Query
    <3> QED BY <1>0, <3>1
  <2>2. Answer[Script[pos']] \in Seq(Token)
    BY <2>1
  <2>3. wire' \in Seq(Token)
    <3>1. PICK t \in Seq(Token) : wire' = wire \o t
      BY <1>0, <1>1, <2>2 DEF Query
    <3> QED BY <1>0, <3>1
  <2>4. faults' \in 0..MaxFaults /\ errors' \in 0..MaxFaults /\ errors' <= faults'
    <3>1. \/ UNCHANGED <<faults, errors>>
          \/ faults < MaxFaults /\ faults' = faults + 1 /\ errors' = errors + 1
      BY <1>1 DEF Query
    <3>2. faults \in 0..MaxFaults /\ errors \in 0..MaxFaults /\ errors <= faults
      BY DEF TypeOK, PortInv
    <3> QED BY <3>1, <3>2
  <2>5. pos' \in 0..Len(Script) /\ pos' > 0
    BY <1>0, <2>1
  <2> QED BY <1>1, <2>3, <2>4, <2>5 DEF TypeOK, PortInv, Query
<1>2. ASSUME NEW r \in {"ok", "desync", "incomplete", "failed"}, CloseAndRaise(r)
      PROVE  /\ reading' = FALSE /\ open' = FALSE /\ inbox' = <<>>
             /\ result' \in [DOMAIN Script ->
                   {"none", "ok", "desync", "incomplete", "failed"}]
  BY <1>2 DEF TypeOK, CloseAndRaise
<1>3. CASE Chunk
  <2>1. wire' \in Seq(Token)
    <3>1. wire' = wire \/ \E t \in Seq(Token) : wire' = wire \o t
      BY <1>0, <1>3 DEF Chunk
    <3> QED BY <1>0, <3>1, Joins
  <2>2. buffer' \in Seq(Token) /\ chunks' \in Nat
    BY <1>3 DEF TypeOK, Chunk
  <2>3. \/ CloseAndRaise("desync") /\ UNCHANGED waitEnd
        \/ CloseAndRaise("incomplete") /\ UNCHANGED waitEnd
        \/ /\ waitEnd' = elapsed + WaitTimeout /\ inbox' = <<>>
           /\ UNCHANGED <<reading, open, result>>
        \/ /\ reading' = FALSE /\ result' = [result EXCEPT ![pos] = "ok"]
           /\ inbox' = <<>> /\ UNCHANGED <<open, waitEnd>>
    BY <1>3 DEF Chunk
  <2>4. /\ inbox' = <<>> /\ open' \in BOOLEAN /\ reading' \in BOOLEAN
        /\ (reading' => open')
        /\ result' \in [DOMAIN Script ->
                {"none", "ok", "desync", "incomplete", "failed"}]
    <3>1. /\ open \in BOOLEAN /\ reading \in BOOLEAN /\ (reading => open)
          /\ result \in [DOMAIN Script ->
                {"none", "ok", "desync", "incomplete", "failed"}]
      BY DEF TypeOK, PortInv
    <3>2. CASE CloseAndRaise("desync")
      BY <1>2, <3>2
    <3>3. CASE CloseAndRaise("incomplete")
      BY <1>2, <3>3
    <3>4. CASE /\ inbox' = <<>>
               /\ UNCHANGED <<reading, open, result>>
      BY <3>1, <3>4
    <3>5. CASE /\ reading' = FALSE /\ result' = [result EXCEPT ![pos] = "ok"]
               /\ inbox' = <<>> /\ UNCHANGED open
      BY <3>1, <3>5
    <3> QED BY <2>3, <3>2, <3>3, <3>4, <3>5
  <2>8. waitEnd' \in Nat
    <3>1. elapsed \in Nat /\ waitEnd \in Nat
      BY DEF TypeOK
    <3>2. waitEnd' = waitEnd \/ waitEnd' = elapsed + WaitTimeout
      BY <2>3
    <3> QED BY <3>1, <3>2
  <2>5. /\ pos' = pos /\ elapsed' = elapsed /\ faults' = faults /\ errors' = errors
        /\ reading
    BY <1>3 DEF Chunk
  <2>6. <<>> \in Seq(Token)
    OBVIOUS
  <2>7. TypeOK'
    BY <2>1, <2>2, <2>4, <2>5, <2>6, <2>8 DEF TypeOK
  <2> QED BY <2>4, <2>5, <2>7 DEF PortInv
<1>4. CASE Timeout
  <2>1. /\ UNCHANGED <<pos, elapsed, chunks, buffer, wire, faults, errors>>
        /\ \/ CloseAndRaise("incomplete") /\ UNCHANGED waitEnd
           \/ waitEnd' = elapsed + WaitTimeout /\ UNCHANGED <<reading, open, inbox, result>>
    BY <1>4 DEF Timeout, Await
  <2>2. waitEnd' \in Nat
    <3>1. elapsed \in Nat /\ waitEnd \in Nat
      BY DEF TypeOK
    <3>2. waitEnd' = waitEnd \/ waitEnd' = elapsed + WaitTimeout
      BY <2>1
    <3> QED BY <3>1, <3>2
  <2>3. \/ UNCHANGED <<reading, open, inbox, result>>
        \/ /\ reading' = FALSE /\ open' = FALSE /\ inbox' = <<>>
           /\ result' \in [DOMAIN Script ->
                   {"none", "ok", "desync", "incomplete", "failed"}]
    BY <1>2, <2>1
  <2>4. <<>> \in Seq(Token)
    OBVIOUS
  <2>5. TypeOK'
    BY <2>1, <2>2, <2>3, <2>4 DEF TypeOK
  <2>6. PortInv'
    BY <2>1, <2>3 DEF PortInv
  <2> QED BY <2>5, <2>6
<1>5. CASE LinkFails
  BY <1>2, <1>5 DEF TypeOK, PortInv, LinkFails
<1>6. CASE Tick
  BY <1>6 DEF TypeOK, PortInv, Tick
<1>7. CASE Arrive
  <2>1. PICK n \in 1..Len(wire) :
          /\ inbox' = IF open THEN inbox \o SubSeq(wire, 1, n) ELSE inbox
          /\ wire' = SubSeq(wire, n + 1, Len(wire))
    BY <1>7 DEF Arrive
  <2>2. inbox' \in Seq(Token) /\ wire' \in Seq(Token)
    BY <2>1 DEF TypeOK
  <2>3. open' \/ inbox' = <<>>
    BY <1>7, <2>1 DEF PortInv, Arrive
  <2> QED BY <1>7, <2>2, <2>3 DEF TypeOK, PortInv, Arrive
<1>8. CASE UNCHANGED vars
  BY <1>8 DEF TypeOK, PortInv, vars
<1> QED BY <1>1, <1>3, <1>4, <1>5, <1>6, <1>7, <1>8 DEF Next

LEMMA LimitStep == TypeOK /\ LimitInv /\ [Next]_vars => LimitInv'
<1> SUFFICES ASSUME TypeOK, LimitInv, [Next]_vars PROVE LimitInv'
  OBVIOUS
<1> USE LimitAssumption DEF TypeOK, LimitInv
<1>1. CASE Query
  BY <1>1 DEF Query
<1>2. CASE Chunk
  <2>1. chunks' = chunks + 1 /\ elapsed' = elapsed /\ reading
    BY <1>2 DEF Chunk
  <2>2. \/ reading' = FALSE /\ waitEnd' = waitEnd
        \/ /\ ~TooManyChunks(chunks') /\ NextRound
           /\ waitEnd' = elapsed + WaitTimeout
    BY <1>2 DEF Chunk, CloseAndRaise
  <2> QED BY <2>1, <2>2 DEF TooManyChunks, NextRound
<1>3. CASE Timeout
  <2>1. chunks' = chunks /\ elapsed' = elapsed /\ reading
    BY <1>3 DEF Timeout
  <2>2. \/ reading' = FALSE /\ waitEnd' = waitEnd
        \/ NextRound /\ waitEnd' = elapsed + WaitTimeout
    BY <1>3 DEF Timeout, Await, CloseAndRaise
  <2> QED BY <2>1, <2>2 DEF NextRound
<1>4. CASE LinkFails
  BY <1>4 DEF LinkFails, CloseAndRaise
<1>5. CASE Tick
  BY <1>5 DEF Tick
<1>6. CASE Arrive
  BY <1>6 DEF Arrive
<1>7. CASE UNCHANGED vars
  BY <1>7 DEF vars
<1> QED BY <1>1, <1>2, <1>3, <1>4, <1>5, <1>6, <1>7 DEF Next

LEMMA StreamStep ==
  TypeOK /\ PortInv /\ StreamInv /\ [Next]_vars => StreamInv'
<1> SUFFICES ASSUME TypeOK, PortInv, StreamInv, [Next]_vars PROVE StreamInv'
  OBVIOUS
<1>0. /\ inbox \in Seq(Token) /\ wire \in Seq(Token) /\ buffer \in Seq(Token)
      /\ Stream \in Seq(Token) /\ WholeLines(Stream) /\ WholeLines(wire)
  <2>1. inbox \in Seq(Token) /\ wire \in Seq(Token) /\ buffer \in Seq(Token)
    BY DEF TypeOK
  <2> QED BY <2>1, DropWhole DEF StreamInv, Stream
<1>1. CASE Query
  <2>1. pos' \in 1..Len(Script) /\ Script[pos'] \in Command
    BY <1>1, ScriptAssumption DEF TypeOK, Query
  <2>2. PICK t \in Seq(Token) : WholeLines(t) /\ wire' = wire \o t
    <3>1. Answer[Script[pos']] \in Seq(Token) /\ WholeLines(Answer[Script[pos']])
      BY <2>1, AnswerAssumption, ReplyAssumption
    <3> QED BY <1>1, <3>1, NoticeWhole DEF Query
  <2>3. WholeLines(inbox \o wire') /\ inbox \o wire' \in Seq(Token)
    BY <1>0, <2>2, SendWhole
  <2>4. inbox' = inbox /\ buffer' = <<>> /\ Stream' = inbox \o wire'
    BY <1>1 DEF Query, Stream
  <2>5. buffer' \o Stream' = Stream'
    BY <2>3, <2>4
  <2>6. BegunLines(<<>>)
    BY DEF BegunLines
  <2> QED BY <2>3, <2>4, <2>5, <2>6 DEF StreamInv
<1>2. CASE Chunk
  <2>1. /\ inbox' = <<>> /\ reading /\ buffer' = buffer \o inbox
        /\ \/ wire' = wire
           \/ reading' = FALSE /\ wire' = wire \o <<"993", "end">>
    BY <1>2 DEF Chunk, CloseAndRaise
  <2>2. (buffer \o inbox) \o wire = buffer \o Stream
    BY <1>0, Rejoins DEF Stream
  <2>3. buffer' \in Seq(Token) /\ WholeLines(buffer' \o wire)
    BY <1>0, <2>1, <2>2 DEF StreamInv
  <2>4. BegunLines(buffer')
    BY <1>0, <2>3, FrontBegun
  <2>5. wire' \in Seq(Token) /\ Stream' = wire'
    <3>1. wire' \in Seq(Token)
      <4>1. wire' = wire \/ \E t \in Seq(Token) : wire' = wire \o t
        BY <2>1, NoticeWhole
      <4> QED BY <1>0, <4>1, Joins
    <3>2. Stream' = <<>> \o wire'
      BY <2>1 DEF Stream
    <3> QED BY <3>1, <3>2
  <2>6. WholeLines(wire')
    BY <1>0, <2>1, ConcatWhole, NoticeWhole
  <2>7. reading' => WholeLines(buffer' \o Stream')
    BY <2>1, <2>3, <2>5
  <2> QED BY <2>4, <2>5, <2>6, <2>7 DEF StreamInv
<1>3. ASSUME UNCHANGED <<wire, buffer>>, inbox' \in {inbox, <<>>},
             reading' => reading /\ inbox' = inbox
      PROVE  StreamInv'
  <2>1. \/ Stream' = Stream
        \/ Stream' = wire /\ ~reading'
    <3>1. CASE inbox' = inbox
      BY <1>3, <3>1 DEF Stream
    <3>2. CASE inbox' = <<>>
      <4>1. Stream' = <<>> \o wire
        BY <1>3, <3>2 DEF Stream
      <4>2. Stream' = wire
        BY <1>0, <4>1
      <4>3. reading' => Stream' = Stream
        BY <1>3 DEF Stream
      <4> QED BY <4>2, <4>3
    <3> QED BY <1>3, <3>1, <3>2
  <2>2. reading' => Stream' = Stream /\ reading
    BY <1>3 DEF Stream
  <2> QED BY <1>0, <1>3, <2>1, <2>2 DEF StreamInv
<1>4. CASE Timeout
  BY <1>3, <1>4 DEF Timeout, Await, CloseAndRaise
<1>5. CASE LinkFails
  BY <1>3, <1>5 DEF LinkFails, CloseAndRaise
<1>6. CASE Tick
  BY <1>3, <1>6 DEF Tick
<1>7. CASE Arrive
  <2>1. PICK a \in Seq(Token), b \in Seq(Token) :
          /\ a \o b = wire /\ wire' = b
          /\ inbox' = IF open THEN inbox \o a ELSE inbox
    <3>1. PICK n \in 1..Len(wire) :
            /\ inbox' = IF open THEN inbox \o SubSeq(wire, 1, n) ELSE inbox
            /\ wire' = SubSeq(wire, n + 1, Len(wire))
      BY <1>7 DEF Arrive
    <3>2. /\ SubSeq(wire, 1, n) \in Seq(Token)
          /\ SubSeq(wire, n + 1, Len(wire)) \in Seq(Token)
          /\ SubSeq(wire, 1, n) \o SubSeq(wire, n + 1, Len(wire)) = wire
      BY <1>0
    <3> QED BY <3>1, <3>2, Zenon
  <2>3. WholeLines(b)
    BY <1>0, <2>1, DropWhole
  <2>4. CASE open
    <3>1. inbox' = inbox \o a /\ wire' = b
      BY <2>1, <2>4
    <3>2. Stream' = Stream
      <4>1. Stream' = (inbox \o a) \o b
        BY <3>1 DEF Stream
      <4>2. (inbox \o a) \o b = inbox \o (a \o b)
        <5>1. inbox \in Seq(Token)
          BY <1>0
        <5> QED BY <5>1, Rejoins
      <4> QED BY <2>1, <4>1, <4>2 DEF Stream
    <3> QED BY <1>7, <3>2 DEF StreamInv, Arrive
  <2>5. CASE ~open
    <3>1. inbox' = <<>> /\ wire' = b
      BY <2>1, <2>5 DEF PortInv
    <3>2. Stream' = b
      BY <3>1 DEF Stream
    <3>3. ~reading'
      BY <1>7, <2>5 DEF PortInv, Arrive
    <3> QED BY <1>7, <2>3, <3>2, <3>3 DEF StreamInv, Arrive
  <2> QED BY <2>4, <2>5
<1>8. CASE UNCHANGED vars
  BY <1>3, <1>8 DEF vars
<1> QED BY <1>1, <1>2, <1>4, <1>5, <1>6, <1>7, <1>8 DEF Next

\* A query ends well only on a complete line, and keeps its buffer.
LEMMA AcceptedStep ==
  TypeOK /\ PortInv /\ AcceptedInv /\ [Next]_vars => AcceptedInv'
<1> SUFFICES ASSUME TypeOK, PortInv, AcceptedInv, [Next]_vars PROVE AcceptedInv'
  OBVIOUS
<1>1. CASE Query
  BY <1>1 DEF AcceptedInv, Accepted, Query
<1>2. ASSUME reading, pos' = pos, NEW r \in {"desync", "incomplete", "failed"},
             CloseAndRaise(r)
      PROVE  ~Accepted'
  <2>1. pos \in DOMAIN result
    BY <1>2, ScriptAssumption DEF TypeOK, PortInv
  <2> QED BY <1>2, <2>1 DEF Accepted, CloseAndRaise
<1>3. CASE Chunk
  <2>1. reading /\ pos' = pos
    BY <1>3 DEF Chunk
  <2>2. \/ CloseAndRaise("desync") \/ CloseAndRaise("incomplete")
        \/ reading' = reading \/ Complete(buffer', Running) # {}
    BY <1>3 DEF Chunk
  <2> QED BY <1>2, <2>1, <2>2 DEF AcceptedInv, Accepted, Running
<1>4. CASE Timeout
  BY <1>2, <1>4 DEF AcceptedInv, Accepted, Timeout, Await
<1>5. CASE LinkFails
  BY <1>2, <1>5 DEF AcceptedInv, LinkFails
<1>6. CASE Tick
  BY <1>6 DEF AcceptedInv, Accepted, Tick
<1>7. CASE Arrive
  BY <1>7 DEF AcceptedInv, Accepted, Running, Arrive
<1>8. CASE UNCHANGED vars
  BY <1>8 DEF AcceptedInv, Accepted, Running, vars
<1> QED BY <1>1, <1>3, <1>4, <1>5, <1>6, <1>7, <1>8 DEF Next

----------------------------------------------------------------------------
(* Theorems *)

LEMMA Invariant == Spec => [](TypeOK /\ PortInv /\ LimitInv /\ StreamInv /\ AcceptedInv)
<1> DEFINE Inv == TypeOK /\ PortInv /\ LimitInv /\ StreamInv /\ AcceptedInv
<1>1. Init => Inv
  BY InitInv
<1>2. Inv /\ [Next]_vars => Inv'
  BY TypeStep, LimitStep, StreamStep, AcceptedStep
<1> HIDE DEF Inv
<1>3. Spec => []Inv
  BY <1>1, <1>2, PTL DEF Spec
<1> QED BY <1>3 DEF Inv

\* Every variable of a query has its type.
THEOREM ReadLoopTyped == Spec => []TypeOK
<1>1. TypeOK /\ PortInv /\ LimitInv /\ StreamInv /\ AcceptedInv => TypeOK
  OBVIOUS
<1> QED BY <1>1, Invariant, PTL

\* The line that the client decodes after the transport has accepted a reply
\* is a line that the transport judged complete, whatever earlier queries
\* have left in front of it (transport.py:214-226, client.py:243-260).
THEOREM ClientDecodesWhatWasComplete == Spec => []DecodesCompleteLine
<1>1. TypeOK /\ StreamInv /\ AcceptedInv => DecodesCompleteLine
  <2> SUFFICES ASSUME TypeOK, StreamInv, AcceptedInv, Accepted
               PROVE  /\ Decoded(buffer, Running) # {}
                      /\ Decoded(buffer, Running) \subseteq Complete(buffer, Running)
    BY DEF DecodesCompleteLine
  <2>1. Running \in Command
    BY ScriptAssumption DEF TypeOK, Accepted, Running
  <2>2. /\ buffer \in Seq(Token) /\ BegunLines(buffer)
        /\ Complete(buffer, Running) # {}
    BY DEF TypeOK, StreamInv, AcceptedInv
  <2> QED BY <2>1, <2>2, FirstIsComplete
<1> QED BY <1>1, Invariant, PTL

\* The digits of an accepted line follow each other as the controller sent
\* them, but for the last ones of the buffer, which may be missing: no line is
\* put together from two replies (transport.py:188-231).
THEOREM AcceptedLineIsOneReply == Spec => []LineIsOneReply
<1>1. TypeOK /\ StreamInv => LineIsOneReply
  <2> SUFFICES ASSUME TypeOK, StreamInv,
                      NEW l \in Complete(buffer, Running), NEW k \in l[1]..l[2],
                      buffer[k] = "v", k < Len(buffer)
               PROVE  buffer[k + 1] \in {"w", "w779"}
    BY DEF LineIsOneReply
  <2>1. buffer \in Seq(Token) /\ l \in Lines(buffer)
    BY DEF TypeOK, Complete
  <2>2. k \in DOMAIN buffer
    BY <2>1, LineBounds
  <2> QED BY <2>2 DEF StreamInv, BegunLines
<1> QED BY <1>1, Invariant, PTL

\* A query that waits on ends less than one wait after READ_TIMEOUT_S
\* (transport.py:188-198).
THEOREM QueryEndsInTime == Spec => []EndsSoonAfterDeadline
<1>1. LimitInv => EndsSoonAfterDeadline
  BY DEF LimitInv, EndsSoonAfterDeadline
<1> QED BY <1>1, Invariant, PTL

\* A query reads at most one chunk more than MAX_CHUNKS (transport.py:230).
THEOREM ChunksAreFew == Spec => []FewChunks
<1>1. LimitInv => FewChunks
  BY DEF LimitInv, FewChunks
<1> QED BY <1>1, Invariant, PTL
=============================================================================

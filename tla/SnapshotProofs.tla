--------------------------- MODULE SnapshotProofs ---------------------------
(***************************************************************************)
(* Theorems about Snapshot: from which reply each part of a published      *)
(* snapshot comes, for every cut of the replies, any number of polls, and  *)
(* any failures, writes and other queries between them.                    *)
(*                                                                         *)
(* What is on its way, in the reader and in the buffer of a query is one   *)
(* stretch of the stream: every line is followed by the next of its reply, *)
(* or the first of a later one.  Only its front is ever lost.              *)
(***************************************************************************)
EXTENDS Snapshot, SequenceTheorems, WellFoundedInduction, TLAPS

----------------------------------------------------------------------------
(* Pieces of lines *)

Blocks == {"3405", "3505", "2100", "3400", "3200"}

\* The query whose reply a line is from.
Turn ==
  [c \in Blocks |->
     CASE c = "3405" -> 2 [] c = "3505" -> 3 [] c = "2100" -> 4 [] c = "3400" -> 5
       [] c = "3200" -> 6]

WellFormed(p) ==
  /\ p \in Piece /\ p.from < p.to
  /\ p.line \in Blocks => p.slot = 1
  /\ p.line \notin Blocks => p.line = OverviewReply[p.slot]
  /\ p.to = 3 => p.line \notin OneDigit

Same(a, b) == a.line = b.line /\ a.slot = b.slot /\ a.poll = b.poll

\* The place of a line among all that are ever sent.
Place(p) == 27 * p.poll + (IF p.line \in Blocks THEN 21 + Turn[p.line] ELSE p.slot)

\* The line of b is the one after that of a in the stream.
Next1(a, b) ==
  \/ /\ a.line \notin Blocks /\ b.line \notin Blocks
     /\ a.poll = b.poll /\ b.slot = a.slot + 1
  \/ /\ a.line \in Blocks \/ a.slot = 22
     /\ b.slot = 1 /\ Place(a) < Place(b)

\* A stretch of the stream: only its first line may lack its beginning, and
\* only its last its end.
Stretch(s) ==
  /\ s \in Seq(Piece) /\ \A i \in 1..Len(s) : WellFormed(s[i])
  /\ \A i \in 1..(Len(s) - 1) : s[i].to = Full /\ s[i + 1].from = 0 /\ Next1(s[i], s[i + 1])

\* b goes on where a ends.
Fit(a, b) ==
  \/ a.to = Full /\ b.from = 0 /\ Next1(a, b)
  \/ a.to # Full /\ a.to = b.from /\ Same(a, b)
Meets(s, t) == s # <<>> /\ t # <<>> => Fit(s[Len(s)], t[1])

\* Nothing is still to come behind s.
Finished(s) ==
  s # <<>> => s[Len(s)].to = Full /\ (s[Len(s)].line \in Blocks \/ s[Len(s)].slot = 22)

\* x is (a part of) a line of s, and has no beginning that it has not there.
Kin(x, s) == \E i \in 1..Len(s) : Same(x, s[i]) /\ (x.from = 0 => s[i].from = 0)

LEMMA LineNames ==
  /\ OverviewReply[1] = "1800" /\ OverviewReply[2] = "1800" /\ OverviewReply[3] = "1100"
  /\ OverviewReply[4] = "1200" /\ OverviewReply[5] = "1300" /\ OverviewReply[6] = "1400"
  /\ OverviewReply[7] = "1600" /\ OverviewReply[8] = "pad" /\ OverviewReply[22] = "2900"
  /\ \A i \in 9..13 : OverviewReply[i] = "err"
  /\ \A i \in 16..20 : OverviewReply[i] = "shut"
  /\ OverviewReply[14] = "pad" /\ OverviewReply[15] = "pad" /\ OverviewReply[21] = "pad"
  /\ DOMAIN OverviewReply = 1..22 /\ Len(OverviewReply) = 22
  /\ Script[1] = "1800" /\ Script[2] = "3405" /\ Script[3] = "3505" /\ Script[4] = "2100"
  /\ Script[5] = "3400" /\ Script[6] = "3200" /\ DOMAIN Script = 1..6 /\ Len(Script) = 6
BY DEF OverviewReply, Script

LEMMA Lines14 ==
  /\ Line = {"1800", "1100", "1200", "1300", "1400", "1600", "pad", "err", "shut", "2900",
             "3405", "3505", "2100", "3400", "3200"}
  /\ \A i \in 1..22 : OverviewReply[i] \in Line \ Blocks
  /\ \A q \in 2..6 : Script[q] \in Blocks /\ Turn[Script[q]] = q
  /\ \A c \in Blocks : Turn[c] \in 2..6 /\ c = Script[Turn[c]]
<1>1. \A i \in 1..22 : OverviewReply[i] \in
        {"1800", "1100", "1200", "1300", "1400", "1600", "pad", "err", "shut", "2900"}
  <2> TAKE i \in 1..22
  <2>1. i \in 1..8 \/ i \in 9..13 \/ i \in {14, 15} \/ i \in 16..20 \/ i \in {21, 22}
    OBVIOUS
  <2> QED
    BY <2>1, LineNames
<1>2. {OverviewReply[i] : i \in 1..22} =
        {"1800", "1100", "1200", "1300", "1400", "1600", "pad", "err", "shut", "2900"}
  <2>1. {OverviewReply[1], OverviewReply[3], OverviewReply[4], OverviewReply[5],
         OverviewReply[6], OverviewReply[7], OverviewReply[8], OverviewReply[9],
         OverviewReply[16], OverviewReply[22]} \subseteq {OverviewReply[i] : i \in 1..22}
    OBVIOUS
  <2>2. OverviewReply[9] = "err" /\ OverviewReply[16] = "shut"
    BY LineNames
  <2> QED
    BY <1>1, <2>1, <2>2, LineNames
<1>3. {Script[i] : i \in 1..6} = {"1800", "3405", "3505", "2100", "3400", "3200"}
  <2>1. \A i \in 1..6 : i = 1 \/ i = 2 \/ i = 3 \/ i = 4 \/ i = 5 \/ i = 6
    OBVIOUS
  <2> QED
    BY <2>1, LineNames
<1>4. Line = {OverviewReply[i] : i \in 1..22} \cup {Script[i] : i \in 1..6}
  BY LineNames DEF Line
<1>5. /\ Line = {"1800", "1100", "1200", "1300", "1400", "1600", "pad", "err", "shut", "2900",
                 "3405", "3505", "2100", "3400", "3200"}
      /\ \A i \in 1..22 : OverviewReply[i] \in Line \ Blocks
  BY <1>1, <1>2, <1>3, <1>4 DEF Blocks
<1>6. /\ Turn["3405"] = 2 /\ Turn["3505"] = 3 /\ Turn["2100"] = 4 /\ Turn["3400"] = 5
      /\ Turn["3200"] = 6
  BY DEF Turn, Blocks
<1>7. \A q \in 2..6 : q = 2 \/ q = 3 \/ q = 4 \/ q = 5 \/ q = 6
  OBVIOUS
<1>8. \A q \in 2..6 : Script[q] \in Blocks /\ Turn[Script[q]] = q
  BY <1>6, <1>7, LineNames DEF Blocks
<1>9. \A c \in Blocks : Turn[c] \in 2..6 /\ c = Script[Turn[c]]
  BY <1>6, LineNames DEF Blocks
<1> QED
  BY <1>5, <1>8, <1>9

LEMMA CountOfLines ==
  /\ \A l \in Line : Count[l] \in Nat /\ (Count[l] >= 29 => l = "1400")
  /\ \A c \in Blocks \cup {"1800"} : Count[c] >= 1
<1>1. /\ Count["1800"] = 1 /\ Count["1100"] = 12 /\ Count["1200"] = 6 /\ Count["1300"] = 13
      /\ Count["1400"] = 29 /\ Count["1600"] = 9 /\ Count["pad"] = 0 /\ Count["err"] = 6
      /\ Count["shut"] = 6 /\ Count["2900"] = 4 /\ Count["3405"] = 1 /\ Count["3505"] = 1
      /\ Count["2100"] = 16 /\ Count["3400"] = 9 /\ Count["3200"] = 8
  BY Lines14 DEF Count
<1> QED
  BY <1>1, Lines14 DEF Blocks

----------------------------------------------------------------------------
(* Cutting and joining *)

LEMMA CutPiece ==
  ASSUME NEW p, WellFormed(p), NEW m \in Marks(p.line), p.from < m, m < p.to
  PROVE  /\ WellFormed([p EXCEPT !.to = m]) /\ WellFormed([p EXCEPT !.from = m])
         /\ m \in 1..4
<1>1. m \in 1..4 /\ (m = 3 => p.line \notin OneDigit)
  BY DEF Marks
<1>2. p.to \in 1..5 /\ p.from \in 0..4
  BY DEF WellFormed, Piece, Full
<1> QED
  BY <1>1, <1>2 DEF WellFormed, Piece, Full

LEMMA JoinPieces ==
  ASSUME NEW a, NEW b, WellFormed(a), WellFormed(b), Same(a, b), a.to = b.from
  PROVE  WellFormed([a EXCEPT !.to = b.to])
<1>1. a.to \in 1..5 /\ a.from \in 0..4 /\ b.to \in 1..5 /\ b.from \in 0..4 /\ a.from < b.to
  BY DEF WellFormed, Piece, Full
<1> QED
  BY <1>1 DEF WellFormed, Piece, Full, Same

\* The two sides of a cut, line by line.
LEMMA Sides ==
  ASSUME NEW s, Stretch(s), NEW p \in Places(s)
  PROVE  LET n == p[1]  m == p[2]  A == Before(s, p)  B == Behind(s, p)
         IN  /\ n \in 0..Len(s) /\ A \in Seq(Piece) /\ B \in Seq(Piece)
             /\ Len(B) = Len(s) - n
             /\ \A j \in 2..Len(B) : B[j] = s[n + j]
             /\ n < Len(s) => WellFormed(B[1]) /\ B[1] = [s[n + 1] EXCEPT !.from = m]
             /\ \A i \in 1..n : A[i] = s[i]
             /\ \/ Len(A) = n /\ (n < Len(s) => B[1] = s[n + 1])
                \/ /\ Len(A) = n + 1 /\ n < Len(s) /\ m \in 1..4
                   /\ WellFormed(A[n + 1]) /\ A[n + 1] = [s[n + 1] EXCEPT !.to = m]
<1> DEFINE n == p[1]
           m == p[2]
           A == Before(s, p)
           B == Behind(s, p)
           k == Len(s)
<1>1. s \in Seq(Piece) /\ k \in Nat /\ DOMAIN s = 1..k /\ \A i \in 1..k : WellFormed(s[i]) /\ s[i] \in Piece
  BY DEF Stretch, WellFormed
<1>2. \/ n = k
      \/ /\ n \in 0..(k - 1)
         /\ m = s[n + 1].from
            \/ (m \in Marks(s[n + 1].line) /\ s[n + 1].from < m /\ m < s[n + 1].to)
  BY DEF Places
<1> HIDE DEF k, n, m
<1>3. /\ A = SubSeq(s, 1, n) \o (IF n = k \/ m = s[n + 1].from THEN <<>>
                                 ELSE <<[s[n + 1] EXCEPT !.to = m]>>)
      /\ B = IF n = k THEN <<>>
             ELSE <<[s[n + 1] EXCEPT !.from = m]>> \o SubSeq(s, n + 2, k)
  BY DEF Before, Behind, n, m, k
<1>4. /\ n \in 0..k /\ SubSeq(s, 1, n) \in Seq(Piece) /\ Len(SubSeq(s, 1, n)) = n
      /\ \A i \in 1..n : SubSeq(s, 1, n)[i] = s[i]
  BY <1>1, <1>2 DEF k
<1>5. CASE n = k
  <2>1. A = SubSeq(s, 1, n) /\ B = <<>>
    BY <1>3, <1>4, <1>5, ConcatEmptySeq
  <2> QED
    BY <1>1, <1>4, <1>5, <2>1 DEF n, k
<1>6. CASE n # k
  <2>1. /\ n \in 0..(k - 1) /\ n + 1 \in 1..k
        /\ SubSeq(s, n + 2, k) \in Seq(Piece) /\ Len(SubSeq(s, n + 2, k)) = k - n - 1
        /\ \A j \in 1..(k - n - 1) : SubSeq(s, n + 2, k)[j] = s[n + 1 + j]
    <3>1. n \in 0..(k - 1) /\ n + 1 \in 1..k
      BY <1>1, <1>2, <1>6
    <3>2. \A t \in Seq(Piece) : n + 2 \in 1..(Len(t) + 1) =>
            /\ SubSeq(t, n + 2, Len(t)) \in Seq(Piece) /\ Len(SubSeq(t, n + 2, Len(t))) = Len(t) - n - 1
            /\ \A j \in 1..(Len(t) - n - 1) : SubSeq(t, n + 2, Len(t))[j] = t[n + 1 + j]
      BY <1>1, <3>1
    <3>3. n + 2 \in 1..(k + 1)
      BY <1>1, <3>1
    <3> QED
      BY <1>1, <3>1, <3>2, <3>3 DEF k
  <2>2. WellFormed(s[n + 1])
    BY <1>1, <2>1
  <2> DEFINE b == [s[n + 1] EXCEPT !.from = m]
             a == [s[n + 1] EXCEPT !.to = m]
             rest == SubSeq(s, n + 2, k)
  <2>3. /\ WellFormed(b)
        /\ \/ m = s[n + 1].from /\ b = s[n + 1]
           \/ m # s[n + 1].from /\ m \in 1..4 /\ WellFormed(a)
    <3>1. CASE m = s[n + 1].from
      BY <2>2, <3>1 DEF WellFormed, Piece
    <3>2. CASE m # s[n + 1].from
      BY <1>2, <1>6, <2>2, <3>2, CutPiece
    <3> QED
      BY <3>1, <3>2
  <2>4. /\ B \in Seq(Piece) /\ Len(B) = k - n /\ B[1] = b
        /\ \A j \in 2..(k - n) : B[j] = s[n + j]
    <3>1. B = <<b>> \o rest /\ b \in Piece /\ rest \in Seq(Piece) /\ Len(rest) = k - n - 1
          /\ \A j \in 1..(k - n - 1) : rest[j] = s[n + 1 + j]
      BY <1>3, <1>6, <2>1, <2>3 DEF WellFormed
    <3> HIDE DEF b, rest
    <3>2. <<b>> \in Seq(Piece) /\ Len(<<b>>) = 1 /\ <<b>>[1] = b
      BY <3>1
    <3>3. B \in Seq(Piece) /\ Len(B) = 1 + Len(rest)
          /\ \A j \in 1..(1 + Len(rest)) : B[j] = IF j <= 1 THEN <<b>>[j] ELSE rest[j - 1]
      BY ONLY <3>1, <3>2, ConcatProperties
    <3>4. k \in Nat /\ n \in 0..(k - 1)
      BY <1>1, <2>1
    <3>5. \A j \in 2..(k - n) : B[j] = s[n + j]
      <4> TAKE j \in 2..(k - n)
      <4>1. j - 1 \in 1..(k - n - 1) /\ j \in 1..(1 + Len(rest)) /\ ~(j <= 1) /\ n + 1 + (j - 1) = n + j
        BY <3>1, <3>4
      <4>2. B[j] = rest[j - 1]
        BY <3>3, <4>1
      <4>3. rest[j - 1] = s[n + 1 + (j - 1)]
        BY <3>1, <4>1
      <4> QED
        BY <4>1, <4>2, <4>3
    <3> QED
      BY <3>1, <3>2, <3>3, <3>4, <3>5
  <2>5. /\ A \in Seq(Piece) /\ \A i \in 1..n : A[i] = s[i]
        /\ \/ Len(A) = n /\ m = s[n + 1].from
           \/ Len(A) = n + 1 /\ m # s[n + 1].from /\ A[n + 1] = a
    <3>1. CASE m = s[n + 1].from
      <4>1. A = SubSeq(s, 1, n)
        BY <1>3, <1>4, <3>1, ConcatEmptySeq
      <4> QED
        BY <1>4, <3>1, <4>1
    <3>2. CASE m # s[n + 1].from
      <4> DEFINE front == SubSeq(s, 1, n)
      <4>1. A = front \o <<a>> /\ a \in Piece /\ front \in Seq(Piece) /\ Len(front) = n
            /\ n \in Nat /\ \A i \in 1..n : front[i] = s[i]
        <5>1. A = front \o <<a>>
          BY <1>3, <1>6, <3>2
        <5>2. a \in Piece
          BY <2>3, <3>2 DEF WellFormed
        <5> QED
          BY <1>4, <2>1, <5>1, <5>2
      <4> HIDE DEF a, front
      <4>2. A = Append(front, a)
        BY <4>1
      <4> QED
        BY <3>2, <4>1, <4>2
    <3> QED
      BY <3>1, <3>2
  <2> QED
    BY <1>1, <1>4, <1>6, <2>1, <2>3, <2>4, <2>5, SMTT(30) DEF n, k, m
<1> QED
  BY <1>5, <1>6

\* What is cut off a stretch, in front and behind.
LEMMA CutStretch ==
  ASSUME NEW s, Stretch(s), NEW p \in Places(s)
  PROVE  LET A == Before(s, p)  B == Behind(s, p)
         IN  /\ Stretch(A) /\ Stretch(B) /\ Meets(A, B)
             /\ \A i \in 1..Len(A) : Kin(A[i], s)
             /\ \A i \in 1..Len(B) : Kin(B[i], s)
             /\ \A r : Meets(r, s) => Meets(r, A) /\ (A = <<>> => Meets(r, B))
             /\ \A u : Meets(s, u) => Meets(B, u) /\ (B = <<>> => Meets(A, u))
             /\ Finished(s) => Finished(B) /\ (B = <<>> => Finished(A))
             /\ s # <<>> => A # <<>> \/ B # <<>>
<1> DEFINE n == p[1]
           m == p[2]
           A == Before(s, p)
           B == Behind(s, p)
           k == Len(s)
<1>1. /\ s \in Seq(Piece) /\ k \in Nat /\ \A i \in 1..k : WellFormed(s[i])
      /\ \A i \in 1..(k - 1) : s[i].to = Full /\ s[i + 1].from = 0 /\ Next1(s[i], s[i + 1])
  BY DEF Stretch
<1>2. /\ n \in 0..k /\ A \in Seq(Piece) /\ B \in Seq(Piece)
      /\ Len(B) = k - n
      /\ \A j \in 2..Len(B) : B[j] = s[n + j]
      /\ n < k => WellFormed(B[1]) /\ B[1] = [s[n + 1] EXCEPT !.from = m]
      /\ \A i \in 1..n : A[i] = s[i]
      /\ \/ Len(A) = n /\ (n < k => B[1] = s[n + 1])
         \/ /\ Len(A) = n + 1 /\ n < k /\ m \in 1..4
            /\ WellFormed(A[n + 1]) /\ A[n + 1] = [s[n + 1] EXCEPT !.to = m]
  BY Sides
<1>3. /\ s # <<>> <=> k > 0
      /\ A # <<>> <=> Len(A) > 0
      /\ B # <<>> <=> Len(B) > 0
  <2>1. k \in Nat /\ Len(A) \in Nat /\ Len(B) \in Nat
    BY <1>1, <1>2
  <2> QED
    BY <1>1, <1>2, <2>1, EmptySeq
<1> HIDE DEF A, B, k, n, m
<1>20. k \in Nat /\ n \in Nat /\ n <= k /\ Len(B) = k - n
       /\ (Len(A) = n \/ (Len(A) = n + 1 /\ n < k))
  BY <1>1, <1>2
\* The pieces at the cut.
<1>4. n < k => /\ n + 1 \in 1..k /\ Same(B[1], s[n + 1]) /\ B[1].to = s[n + 1].to
               /\ B[1].from = m /\ s[n + 1] \in Piece
  <2> SUFFICES ASSUME n < k PROVE n + 1 \in 1..k /\ Same(B[1], s[n + 1]) /\ B[1].to = s[n + 1].to
               /\ B[1].from = m /\ s[n + 1] \in Piece
    OBVIOUS
  <2>1. n + 1 \in 1..k
    BY <1>1, <1>2
  <2>2. s[n + 1] \in Piece
    BY <1>1, <2>1 DEF WellFormed
  <2> QED
    BY <1>2, <2>1, <2>2 DEF Piece, Same
<1>5. Len(A) = n + 1 => /\ n < k /\ m \in 1..4 /\ Same(A[n + 1], s[n + 1]) /\ A[n + 1].to = m
                       /\ A[n + 1].from = s[n + 1].from
  BY <1>2, <1>4, SMTT(30) DEF Piece, Same
<1>6. Stretch(A)
  <2>1. \A i \in 1..Len(A) : WellFormed(A[i])
    BY <1>1, <1>2
  <2>2. ASSUME NEW i \in 1..(Len(A) - 1)
        PROVE  A[i].to = Full /\ A[i + 1].from = 0 /\ Next1(A[i], A[i + 1])
    <3>1. i \in 1..n /\ i \in 1..(k - 1) /\ A[i] = s[i]
      BY <1>1, <1>2
    <3>2. CASE i + 1 \in 1..n
      BY <1>1, <1>2, <3>1, <3>2
    <3>3. CASE i + 1 \notin 1..n
      <4>1. i = n /\ Len(A) = n + 1
        BY <1>1, <1>2, <3>1, <3>3, SMTT(30)
      <4> QED
        BY <1>1, <1>5, <3>1, <4>1 DEF Next1, Same, Place
    <3> QED
      BY <3>2, <3>3
  <2> QED
    BY <1>2, <2>1, <2>2 DEF Stretch
<1>7. Stretch(B)
  <2>1. ASSUME NEW j \in 1..Len(B)
        PROVE  /\ WellFormed(B[j]) /\ n + j \in 1..k /\ Same(B[j], s[n + j])
               /\ B[j].to = s[n + j].to /\ (j # 1 => B[j].from = s[n + j].from)
    <3>1. n + j \in 1..k /\ n < k
      BY <1>1, <1>2
    <3>2. CASE j = 1
      BY <1>2, <1>4, <3>1, <3>2
    <3>3. CASE j # 1
      <4>1. j \in 2..Len(B)
        BY <1>1, <1>20, <3>3
      <4>2. B[j] = s[n + j] /\ WellFormed(s[n + j])
        BY <1>1, <1>2, <3>1, <4>1
      <4> QED
        BY <3>1, <3>3, <4>2 DEF Same
    <3> QED
      BY <3>2, <3>3
  <2>2. ASSUME NEW j \in 1..(Len(B) - 1)
        PROVE  B[j].to = Full /\ B[j + 1].from = 0 /\ Next1(B[j], B[j + 1])
    <3>1. /\ n + j \in 1..(k - 1) /\ j \in 1..Len(B) /\ j + 1 \in 1..Len(B)
          /\ n + (j + 1) = (n + j) + 1 /\ j + 1 # 1
      BY <1>20
    <3>2. s[n + j].to = Full /\ s[(n + j) + 1].from = 0 /\ Next1(s[n + j], s[(n + j) + 1])
      BY <1>1, <3>1
    <3> QED
      BY <2>1, <3>1, <3>2 DEF Next1, Same, Place
  <2> QED
    BY <1>2, <2>1, <2>2 DEF Stretch
<1>8. Meets(A, B)
  <2> SUFFICES ASSUME A # <<>>, B # <<>> PROVE Fit(A[Len(A)], B[1])
    BY DEF Meets
  <2>1. n < k /\ Len(A) > 0
    BY <1>1, <1>2, <1>3
  <2>2. CASE Len(A) = n
    <3>1. n \in 1..(k - 1) /\ A[n] = s[n] /\ B[1] = s[n + 1]
      BY <1>1, <1>2, <2>1, <2>2
    <3> QED
      BY <1>1, <2>2, <3>1 DEF Fit
  <2>3. CASE Len(A) = n + 1
    BY <1>4, <1>5, <2>1, <2>3 DEF Fit, Same, Full
  <2> QED
    BY <1>2, <2>2, <2>3
<1>9. ASSUME NEW i \in 1..Len(A) PROVE Kin(A[i], s)
  <2>1. i \in 1..k
    BY <1>1, <1>2
  <2>2. CASE i \in 1..n
    BY <1>2, <2>1, <2>2 DEF Kin, Same, k
  <2>3. CASE i \notin 1..n
    <3>1. i = n + 1 /\ Len(A) = n + 1
      BY <1>1, <1>2, <2>3
    <3> QED
      BY <1>5, <2>1, <3>1 DEF Kin, k
  <2> QED
    BY <2>2, <2>3
<1>10. ASSUME NEW j \in 1..Len(B) PROVE Kin(B[j], s)
  <2>1. n + j \in 1..k /\ n < k
    BY <1>1, <1>2
  <2>2. CASE j = 1
    <3>1. m = 0 => s[n + 1].from = 0
      BY <1>2, <1>4, <2>1
    <3> QED
      BY <1>4, <2>1, <2>2, <3>1 DEF Kin, k
  <2>3. CASE j # 1
    <3>1. j \in 2..Len(B)
      BY <1>20, <2>3
    <3>2. B[j] = s[n + j]
      BY <1>2, <3>1
    <3> QED
      BY <2>1, <3>2 DEF Kin, Same, k
  <2> QED
    BY <2>2, <2>3
<1>11. ASSUME NEW r, Meets(r, s) PROVE Meets(r, A) /\ (A = <<>> => Meets(r, B))
  <2>1. A # <<>> => s # <<>> /\ Same(A[1], s[1]) /\ A[1].from = s[1].from
    <3> SUFFICES ASSUME A # <<>> PROVE s # <<>> /\ Same(A[1], s[1]) /\ A[1].from = s[1].from
      OBVIOUS
    <3>1. CASE n >= 1
      <4>1. 1 \in 1..n /\ k > 0
        BY <1>20, <3>1
      <4>2. A[1] = s[1]
        BY <1>2, <4>1
      <4> QED
        BY <1>3, <4>1, <4>2 DEF Same
    <3>2. CASE n = 0
      BY <1>2, <1>3, <1>5, <3>2
    <3> QED
      BY <1>2, <3>1, <3>2
  <2>2. A = <<>> /\ B # <<>> => s # <<>> /\ B[1] = s[1]
    BY <1>1, <1>2, <1>3
  <2> QED
    BY <1>11, <2>1, <2>2 DEF Meets, Fit, Next1, Same, Place
<1>12. /\ B # <<>> => s # <<>> /\ Same(B[Len(B)], s[k]) /\ B[Len(B)].to = s[k].to
       /\ B = <<>> /\ A # <<>> => s # <<>> /\ A[Len(A)] = s[k]
  <2>1. B # <<>> => s # <<>> /\ Same(B[Len(B)], s[k]) /\ B[Len(B)].to = s[k].to
    <3> SUFFICES ASSUME B # <<>> PROVE s # <<>> /\ Same(B[Len(B)], s[k]) /\ B[Len(B)].to = s[k].to
      OBVIOUS
    <3>1. Len(B) = k - n /\ Len(B) >= 1 /\ n + Len(B) = k /\ k > 0 /\ n < k
      BY <1>1, <1>2, <1>3
    <3>2. CASE Len(B) = 1
      BY <1>3, <1>4, <3>1, <3>2
    <3>3. CASE Len(B) # 1
      <4>1. Len(B) \in 2..Len(B)
        BY <1>1, <1>2, <3>1, <3>3
      <4>2. B[Len(B)] = s[k]
        BY <1>2, <3>1, <4>1
      <4> QED
        BY <1>3, <3>1, <4>2 DEF Same
    <3> QED
      BY <3>2, <3>3
  <2>2. B = <<>> /\ A # <<>> => s # <<>> /\ A[Len(A)] = s[k]
    BY <1>1, <1>2, <1>3
  <2> QED
    BY <2>1, <2>2
<1>13. ASSUME NEW u, Meets(s, u) PROVE Meets(B, u) /\ (B = <<>> => Meets(A, u))
  BY <1>12, <1>13 DEF Meets, Fit, Next1, Same, Place, k
<1>14. ASSUME Finished(s) PROVE Finished(B) /\ (B = <<>> => Finished(A))
  BY <1>12, <1>14 DEF Finished, Same, k
<1>15. s # <<>> => A # <<>> \/ B # <<>>
  BY <1>3, <1>20
<1> QED
  BY <1>6, <1>7, <1>8, <1>9, <1>10, <1>11, <1>13, <1>14, <1>15 DEF A, B

LEMMA FrontOf ==
  ASSUME NEW s \in Seq(Piece), Len(s) > 0
  PROVE  LET f == SubSeq(s, 1, Len(s) - 1)
         IN  f \in Seq(Piece) /\ Len(f) = Len(s) - 1 /\ \A i \in 1..(Len(s) - 1) : f[i] = s[i]
<1> DEFINE n == Len(s) - 1
<1>1. n \in Nat /\ n <= Len(s)
  OBVIOUS
<1> HIDE DEF n
<1>2. SubSeq(s, 1, n) \in Seq(Piece) /\ Len(SubSeq(s, 1, n)) = n /\ \A i \in 1..n : SubSeq(s, 1, n)[i] = s[i]
  BY <1>1
<1> QED
  BY <1>2 DEF n

\* Two stretches joined, line by line.
LEMMA JoinSides ==
  ASSUME NEW s, NEW t, Stretch(s), Stretch(t), Meets(s, t), s # <<>>, t # <<>>
  PROVE  LET J == Joined(s, t)  n == Len(s)  k == Len(t)
         IN  /\ J \in Seq(Piece)
             /\ \/ /\ s[n].to = Full /\ Len(J) = n + k
                   /\ \A i \in 1..n : J[i] = s[i]
                   /\ \A j \in 1..k : J[n + j] = t[j]
                \/ /\ s[n].to # Full /\ Len(J) = n + k - 1
                   /\ \A i \in 1..(n - 1) : J[i] = s[i]
                   /\ WellFormed(J[n]) /\ J[n] = [s[n] EXCEPT !.to = t[1].to]
                   /\ \A j \in 2..k : J[n + j - 1] = t[j]
<1> DEFINE J == Joined(s, t)
           n == Len(s)
           k == Len(t)
<1>1. /\ s \in Seq(Piece) /\ t \in Seq(Piece) /\ n \in Nat \ {0} /\ k \in Nat \ {0}
      /\ WellFormed(s[n]) /\ WellFormed(t[1])
  BY EmptySeq DEF Stretch
<1>2. CASE s[n].to = Full
  <2>1. J = s \o t
    BY <1>2 DEF Joined
  <2>2. J \in Seq(Piece) /\ Len(J) = n + k
        /\ \A i \in 1..(n + k) : J[i] = IF i <= n THEN s[i] ELSE t[i - n]
    BY <1>1, <2>1, ConcatProperties
  <2> HIDE DEF J, n, k
  <2>3. /\ \A i \in 1..n : J[i] = s[i]
        /\ \A j \in 1..k : J[n + j] = t[j]
    BY <1>1, <2>2
  <2> QED
    BY <1>2, <2>2, <2>3 DEF J, n, k
<1>3. CASE s[n].to # Full
  <2> DEFINE a == [s[n] EXCEPT !.to = t[1].to]
             front == SubSeq(s, 1, n - 1)
             rest == Tail(t)
             fronta == front \o <<a>>
  <2>1. J = fronta \o rest
    BY <1>3 DEF Joined
  <2>2. WellFormed(a) /\ a \in Piece
    <3>1. Same(s[n], t[1]) /\ s[n].to = t[1].from
      BY <1>3 DEF Meets, Fit
    <3>2. WellFormed(a)
      BY <1>1, <3>1, JoinPieces
    <3> QED
      BY <3>2 DEF WellFormed
  <2>3. front \in Seq(Piece) /\ Len(front) = n - 1 /\ \A i \in 1..(n - 1) : front[i] = s[i]
    BY <1>1, FrontOf
  <2>4. rest \in Seq(Piece) /\ Len(rest) = k - 1 /\ \A j \in 1..(k - 1) : rest[j] = t[j + 1]
    BY <1>1, HeadTailProperties
  <2>5. /\ fronta \in Seq(Piece) /\ Len(fronta) = n /\ fronta[n] = a
        /\ \A i \in 1..(n - 1) : fronta[i] = s[i]
    <3> HIDE DEF a, front, n
    <3>1. fronta = Append(front, a)
      BY <2>2, <2>3
    <3> QED
      BY <1>1, <2>2, <2>3, <3>1
  <2> HIDE DEF fronta, rest, J
  <2>6. J \in Seq(Piece) /\ Len(J) = n + (k - 1)
        /\ \A i \in 1..(n + (k - 1)) : J[i] = IF i <= n THEN fronta[i] ELSE rest[i - n]
    BY <2>1, <2>4, <2>5, ConcatProperties
  <2> HIDE DEF a, front, n, k
  <2>7. /\ \A i \in 1..(n - 1) : J[i] = s[i]
        /\ J[n] = a
    BY <1>1, <2>5, <2>6
  <2>8. \A j \in 2..k : J[n + j - 1] = t[j]
    <3> TAKE j \in 2..k
    <3>1. n + j - 1 \in 1..(n + (k - 1)) /\ ~(n + j - 1 <= n) /\ (n + j - 1) - n = j - 1
          /\ j - 1 \in 1..(k - 1) /\ (j - 1) + 1 = j
      BY <1>1
    <3> QED
      BY <2>4, <2>6, <3>1
  <2>9. Len(J) = n + k - 1
    BY <1>1, <2>6
  <2> QED
    BY <1>3, <2>2, <2>6, <2>7, <2>8, <2>9 DEF J, a, n, k
<1> QED
  BY <1>2, <1>3

LEMMA JoinStretch ==
  ASSUME NEW s, NEW t, Stretch(s), Stretch(t), Meets(s, t)
  PROVE  LET J == Joined(s, t)
         IN  /\ Stretch(J)
             /\ Len(s) <= Len(J) /\ \A i \in 1..Len(s) : Same(J[i], s[i])
             /\ \A i \in 1..Len(J) : Kin(J[i], s) \/ Kin(J[i], t)
             /\ \A i \in 1..Len(J) : i <= Len(s) \/ \E j \in 1..Len(t) : Same(J[i], t[j])
             /\ \A r : Meets(r, s) /\ (s = <<>> => Meets(r, t)) => Meets(r, J)
             /\ \A u : Meets(t, u) /\ (t = <<>> => Meets(s, u)) => Meets(J, u)
             /\ Finished(t) /\ (t = <<>> => Finished(s)) => Finished(J)
             /\ J = <<>> => s = <<>> /\ t = <<>>
<1> DEFINE J == Joined(s, t)
           n == Len(s)
           k == Len(t)
<1>1. /\ s \in Seq(Piece) /\ t \in Seq(Piece) /\ n \in Nat /\ k \in Nat
      /\ \A i \in 1..n : WellFormed(s[i]) /\ s[i] \in Piece
      /\ \A i \in 1..(n - 1) : s[i].to = Full /\ s[i + 1].from = 0 /\ Next1(s[i], s[i + 1])
      /\ \A i \in 1..k : WellFormed(t[i]) /\ t[i] \in Piece
      /\ \A i \in 1..(k - 1) : t[i].to = Full /\ t[i + 1].from = 0 /\ Next1(t[i], t[i + 1])
  <2>1. \A x : WellFormed(x) => x \in Piece
    BY DEF WellFormed
  <2>2. /\ s \in Seq(Piece) /\ n \in Nat /\ \A i \in 1..n : WellFormed(s[i])
        /\ \A i \in 1..(n - 1) : s[i].to = Full /\ s[i + 1].from = 0 /\ Next1(s[i], s[i + 1])
    BY DEF Stretch
  <2>3. /\ t \in Seq(Piece) /\ k \in Nat /\ \A i \in 1..k : WellFormed(t[i])
        /\ \A i \in 1..(k - 1) : t[i].to = Full /\ t[i + 1].from = 0 /\ Next1(t[i], t[i + 1])
    BY DEF Stretch
  <2> QED
    BY <2>1, <2>2, <2>3
<1>2. CASE s = <<>>
  <2>1. J = t /\ n = 0
    BY <1>1, <1>2, ConcatEmptySeq DEF Joined
  <2>2. \A i \in 1..k : Kin(t[i], t)
    BY DEF Kin, Same
  <2> QED
    BY <1>1, <1>2, <2>1, <2>2 DEF Meets, Same
<1>3. CASE s # <<>> /\ t = <<>>
  <2>1. J = s
    BY <1>1, <1>3, ConcatEmptySeq DEF Joined
  <2>2. \A i \in 1..n : Kin(s[i], s)
    BY DEF Kin, Same
  <2> QED
    BY <1>1, <1>3, <2>1, <2>2 DEF Meets, Same
<1>4. CASE s # <<>> /\ t # <<>>
  <2> DEFINE o == Len(J) - k
  <2>1. /\ J \in Seq(Piece)
        /\ \/ /\ s[n].to = Full /\ Len(J) = n + k
              /\ \A i \in 1..n : J[i] = s[i]
              /\ \A j \in 1..k : J[n + j] = t[j]
           \/ /\ s[n].to # Full /\ Len(J) = n + k - 1
              /\ \A i \in 1..(n - 1) : J[i] = s[i]
              /\ WellFormed(J[n]) /\ J[n] = [s[n] EXCEPT !.to = t[1].to]
              /\ \A j \in 2..k : J[n + j - 1] = t[j]
    BY <1>4, JoinSides
  <2>2. n >= 1 /\ k >= 1 /\ Fit(s[n], t[1])
    BY <1>1, <1>4, EmptySeq DEF Meets
  <2> HIDE DEF J, n, k
  \* As long as the lines of s go, J has them, its last one perhaps with more of it.
  <2>3. /\ Len(J) \in Nat /\ o \in {n - 1, n} /\ Len(J) >= n
        /\ \A i \in 1..n : /\ WellFormed(J[i]) /\ Same(J[i], s[i]) /\ J[i].from = s[i].from
                           /\ i < n => J[i].to = s[i].to
    <3>1. CASE s[n].to = Full
      BY <1>1, <2>1, <2>2, <3>1 DEF Same
    <3>2. CASE s[n].to # Full
      <4>1. Same(J[n], s[n]) /\ J[n].from = s[n].from /\ WellFormed(J[n])
        <5>1. n \in 1..n /\ s[n] \in Piece /\ J[n] = [s[n] EXCEPT !.to = t[1].to]
          BY <1>1, <2>1, <2>2, <3>2
        <5> QED
          BY <2>1, <3>2, <5>1 DEF Piece, Same
      <4>2. \A i \in 1..(n - 1) : WellFormed(J[i]) /\ J[i] = s[i]
        <5>1. \A i \in 1..(n - 1) : i \in 1..n
          BY <1>1
        <5>2. \A i \in 1..(n - 1) : J[i] = s[i]
          BY <2>1, <3>2
        <5>3. \A i \in 1..n : WellFormed(s[i])
          BY <1>1
        <5> QED
          BY <5>1, <5>2, <5>3
      <4>3. \A i \in 1..n : i \in 1..(n - 1) \/ i = n
        BY <1>1
      <4>4. Len(J) = n + k - 1
        BY <2>1, <3>2
      <4> QED
        BY <1>1, <2>2, <4>1, <4>2, <4>3, <4>4 DEF Same
    <3> QED
      BY <3>1, <3>2
  \* And then those of t.
  <2>4. \A j \in 1..k : /\ WellFormed(J[o + j]) /\ Same(J[o + j], t[j]) /\ J[o + j].to = t[j].to
                        /\ o + j > n => J[o + j].from = t[j].from
                        /\ o + j = n => J[o + j].from = s[n].from
    <3> TAKE j \in 1..k
    <3>1. CASE s[n].to = Full
      <4>1. o = n /\ J[n + j] = t[j]
        BY <1>1, <2>1, <3>1
      <4>2. o + j = n + j /\ o + j > n /\ WellFormed(t[j])
        <5>1. WellFormed(t[j])
          BY <1>1
        <5>2. n \in Nat /\ o \in Nat /\ o = n /\ j \in Nat /\ j > 0
          BY <1>1, <4>1
        <5> HIDE DEF o
        <5> QED
          BY <5>1, <5>2
      <4>3. J[o + j] = t[j]
        BY <4>1, <4>2
      <4> HIDE DEF o
      <4>4. o + j # n
        BY <1>1, <4>1
      <4> QED
        BY <4>2, <4>3, <4>4 DEF Same
    <3>2. CASE s[n].to # Full
      <4>1. o = n - 1
        BY <1>1, <2>1, <3>2, SMTT(30)
      <4>2. CASE j = 1
        <5>1. o + j = n /\ n \in 1..n /\ s[n] \in Piece /\ J[n] = [s[n] EXCEPT !.to = t[1].to]
          <6>1. o + j = n /\ n \in 1..n
            BY <1>1, <2>2, <4>1, <4>2
          <6>2. J[n] = [s[n] EXCEPT !.to = t[1].to]
            BY <2>1, <3>2
          <6> QED
            BY <1>1, <6>1, <6>2
        <5>2. Same(s[n], t[1])
          BY <2>2, <3>2 DEF Fit
        <5> QED
          BY <2>1, <3>2, <4>2, <5>1, <5>2, SMTT(30) DEF Piece, Same
      <4>3. CASE j # 1
        <5>1. o + j = n + j - 1 /\ j \in 2..k /\ o + j > n /\ o + j # n
          <6>1. n \in Nat /\ o \in Int /\ o = n - 1 /\ k \in Nat /\ j \in 1..k /\ j # 1
            BY <1>1, <4>1, <4>3
          <6> HIDE DEF o
          <6> QED
            BY <6>1
        <5>2. J[n + j - 1] = t[j]
          BY <2>1, <3>2, <5>1
        <5>3. WellFormed(t[j])
          BY <1>1
        <5> HIDE DEF o
        <5>4. J[o + j] = t[j]
          BY <5>1, <5>2
        <5> QED
          BY <5>1, <5>3, <5>4 DEF Same
      <4> QED
        BY <4>2, <4>3
    <3> QED
      BY <3>1, <3>2
  <2>5. o + k = Len(J) /\ Len(J) \in Nat /\ o \in {n - 1, n} /\ o \in Int
    BY <1>1, <2>3
  <2> HIDE DEF o
  <2>6. \A i \in 1..Len(J) : i \in 1..n \/ (i - o \in 1..k /\ o + (i - o) = i /\ i > n)
    BY <1>1, <2>5
  <2>7. Stretch(J)
    <3>1. \A i \in 1..Len(J) : WellFormed(J[i])
      BY <2>3, <2>4, <2>6
    <3>2. ASSUME NEW i \in 1..(Len(J) - 1)
          PROVE  J[i].to = Full /\ J[i + 1].from = 0 /\ Next1(J[i], J[i + 1])
      <4>1. CASE i < n
        <5>1. i \in 1..(n - 1) /\ i \in 1..n /\ i + 1 \in 1..n
          BY <1>1, <4>1
        <5> QED
          BY <1>1, <2>3, <4>1, <5>1, ZenonT(40) DEF Next1, Same, Place
      <4>2. CASE i >= n
        <5>1. CASE i = n /\ o = n
          <6>1. s[n].to = Full /\ J[n] = s[n] /\ n \in 1..n /\ 1 \in 1..k
            BY <1>1, <2>1, <2>2, <2>5, <5>1
          <6>2. Same(J[n + 1], t[1]) /\ J[n + 1].from = t[1].from
            BY <1>1, <2>4, <5>1, <6>1
          <6> QED
            BY <2>2, <5>1, <6>1, <6>2 DEF Fit, Next1, Same, Place
        <5>2. CASE ~(i = n /\ o = n)
          <6>1. i - o \in 1..(k - 1) /\ (i - o) + 1 \in 1..k /\ i - o \in 1..k
                /\ o + (i - o) = i /\ o + ((i - o) + 1) = i + 1 /\ i + 1 > n
            BY <1>1, <2>5, <4>2, <5>2
          <6>2. /\ Same(J[i], t[i - o]) /\ J[i].to = t[i - o].to
                /\ Same(J[i + 1], t[(i - o) + 1]) /\ J[i + 1].from = t[(i - o) + 1].from
            BY <2>4, <6>1
          <6> QED
            BY <1>1, <6>1, <6>2, ZenonT(40) DEF Next1, Same, Place
        <5> QED
          BY <5>1, <5>2
      <4> QED
        BY <1>1, <4>1, <4>2
    <3> QED
      BY <2>1, <3>1, <3>2 DEF Stretch
  <2>8. \A i \in 1..Len(J) : Kin(J[i], s) \/ Kin(J[i], t)
    <3> TAKE i \in 1..Len(J)
    <3>1. CASE i \in 1..n
      BY <2>3, <3>1 DEF Kin, n
    <3>2. CASE i - o \in 1..k /\ o + (i - o) = i /\ i > n
      BY <2>4, <3>2 DEF Kin, k
    <3> QED
      BY <2>6, <3>1, <3>2
  <2>9. \A i \in 1..Len(J) : i <= n \/ \E j \in 1..k : Same(J[i], t[j])
    BY <2>4, <2>6
  <2>10. J # <<>> /\ 1 \in 1..n /\ k \in 1..k /\ o + k = Len(J)
    BY <1>1, <2>1, <2>2, <2>5, EmptySeq
  <2>11. /\ Same(J[1], s[1]) /\ J[1].from = s[1].from
         /\ Same(J[Len(J)], t[k]) /\ J[Len(J)].to = t[k].to
    BY <2>3, <2>4, <2>10
  <2>12. \A r : Meets(r, s) => Meets(r, J)
    BY <1>4, <2>10, <2>11 DEF Meets, Fit, Next1, Same, Place
  <2>13. \A u : Meets(t, u) => Meets(J, u)
    BY <1>4, <2>10, <2>11 DEF Meets, Fit, Next1, Same, Place, k
  <2>14. Finished(t) => Finished(J)
    BY <1>4, <2>10, <2>11 DEF Finished, Same, k
  <2> QED
    BY <1>4, <2>3, <2>7, <2>8, <2>9, <2>10, <2>12, <2>13, <2>14 DEF J, n, k
<1> QED
  BY <1>2, <1>3, <1>4

----------------------------------------------------------------------------
(* The order of a stretch *)

LEMMA LeastNumber ==
  ASSUME NEW T, T \subseteq Nat, T # {}
  PROVE  \E x \in T : \A y \in T : x <= y
<1>1. PICK x \in T : \A y \in T : <<y, x>> \notin OpToRel(<, Nat)
  BY NatLessThanWellFounded, WFMin
<1>2. ASSUME NEW y \in T PROVE ~(y < x)
  BY <1>1, x \in Nat, y \in Nat DEF OpToRel
<1> QED
  BY <1>2

LEMMA Fields ==
  ASSUME NEW x, WellFormed(x)
  PROVE  /\ x.slot \in 1..22 /\ x.poll \in Nat \ {0} /\ x.poll <= MaxPolls
         /\ x.from \in 0..4 /\ x.to \in 1..5
         /\ x.line \in Line /\ Place(x) \in Nat
         /\ 27 * x.poll + 1 <= Place(x) /\ Place(x) <= 27 * x.poll + 27
         /\ x.line \in Blocks => Place(x) = 27 * x.poll + 21 + Turn[x.line] /\ Turn[x.line] \in 2..6
         /\ x.line \notin Blocks => Place(x) = 27 * x.poll + x.slot /\ x.line = OverviewReply[x.slot]
<1>1. /\ x.slot \in 1..22 /\ x.poll \in Nat \ {0} /\ x.poll <= MaxPolls
      /\ x.from \in 0..4 /\ x.to \in 1..5 /\ x.line \in Line
  BY BoundAssumption DEF WellFormed, Piece, Full
<1>2. x.line \in Blocks => Turn[x.line] \in 2..6
  BY Lines14
<1>3. CASE x.line \in Blocks
  BY <1>1, <1>2, <1>3 DEF Place
<1>4. CASE x.line \notin Blocks
  BY <1>1, <1>4 DEF Place, WellFormed
<1> QED
  BY <1>1, <1>3, <1>4

LEMMA NextPlace ==
  ASSUME NEW a, NEW b, WellFormed(a), WellFormed(b), Next1(a, b)
  PROVE  Place(a) < Place(b)
BY Fields DEF Next1

\* The lines of a stretch are in the order in which they were sent.
LEMMA Ordered ==
  ASSUME NEW s, Stretch(s), NEW i \in 1..Len(s), NEW j \in 1..Len(s), i < j
  PROVE  Place(s[i]) < Place(s[j])
<1> DEFINE k == Len(s)
           T == {d \in 1..k : i < d /\ ~(Place(s[i]) < Place(s[d]))}
<1>1. /\ k \in Nat /\ \A d \in 1..k : WellFormed(s[d]) /\ Place(s[d]) \in Nat
      /\ \A d \in 1..(k - 1) : Next1(s[d], s[d + 1])
  <2>1. k \in Nat /\ \A d \in 1..k : WellFormed(s[d])
    BY DEF Stretch
  <2>2. \A d \in 1..(k - 1) : Next1(s[d], s[d + 1])
    BY DEF Stretch
  <2> QED
    BY <2>1, <2>2, Fields
<1> HIDE DEF k
<1>2. SUFFICES ASSUME T # {} PROVE FALSE
  BY DEF k
<1>3. PICK x \in T : \A y \in T : x <= y
  <2>1. T \subseteq Nat
    BY <1>1
  <2> HIDE DEF T
  <2> QED
    BY <1>2, <2>1, LeastNumber
<1>4. x \in 1..k /\ i \in 1..k /\ i < x /\ ~(Place(s[i]) < Place(s[x]))
  BY DEF k
<1>5. x - 1 \in 1..(k - 1) /\ x - 1 \in 1..k /\ (x - 1) + 1 = x /\ ~(x <= x - 1)
  BY <1>1, <1>4
<1>6. Place(s[x - 1]) < Place(s[x])
  BY <1>1, <1>4, <1>5, NextPlace
<1>7. Place(s[i]) <= Place(s[x - 1])
  <2>1. x - 1 \notin T
    BY <1>3, <1>5
  <2>2. CASE i = x - 1
    BY <1>1, <1>4, <2>2
  <2>3. CASE i # x - 1
    <3>1. i < x - 1
      BY <1>1, <1>4, <2>3
    <3> QED
      BY <1>1, <1>4, <1>5, <2>1, <3>1
  <2> QED
    BY <2>2, <2>3
<1> QED
  BY <1>1, <1>4, <1>5, <1>6, <1>7

\* What follows a stretch comes later, but for the rest of its last line.
LEMMA Across ==
  ASSUME NEW s, NEW t, Stretch(s), Stretch(t), Meets(s, t),
         NEW i \in 1..Len(s), NEW j \in 1..Len(t)
  PROVE  /\ Place(s[i]) <= Place(t[j])
         /\ t[j].from = 0 => Place(s[i]) < Place(t[j])
<1> DEFINE n == Len(s)
           k == Len(t)
<1>1. /\ n \in Nat /\ k \in Nat /\ s # <<>> /\ t # <<>> /\ n \in 1..n /\ 1 \in 1..k
      /\ \A d \in 1..n : WellFormed(s[d]) /\ Place(s[d]) \in Nat
      /\ \A d \in 1..k : WellFormed(t[d]) /\ Place(t[d]) \in Nat
  <2>1. n \in Nat /\ k \in Nat
    BY DEF Stretch
  <2>2. s # <<>> /\ t # <<>> /\ n \in 1..n /\ 1 \in 1..k
    BY <2>1
  <2> QED
    BY <2>1, <2>2, Fields DEF Stretch
<1>2. Fit(s[n], t[1])
  BY <1>1 DEF Meets
<1> HIDE DEF n, k
<1>3. Place(s[n]) < Place(t[1]) \/ (Place(s[n]) = Place(t[1]) /\ t[1].from # 0)
  <2>1. CASE s[n].to = Full /\ t[1].from = 0 /\ Next1(s[n], t[1])
    BY <1>1, <2>1, NextPlace
  <2>2. CASE s[n].to # Full /\ s[n].to = t[1].from /\ Same(s[n], t[1])
    <3>1. s[n].to \in 1..5
      BY <1>1, Fields
    <3> QED
      BY <2>2, <3>1 DEF Same, Place
  <2> QED
    BY <1>2, <2>1, <2>2 DEF Fit
<1>4. Place(s[i]) <= Place(s[n])
  <2>1. CASE i = n
    BY <1>1, <2>1
  <2>2. CASE i # n
    <3>1. i < n /\ i \in 1..n
      BY <1>1, <2>2 DEF n
    <3>2. Place(s[i]) < Place(s[n])
      BY <1>1, <3>1, Ordered DEF n
    <3> QED
      BY <1>1, <3>1, <3>2
  <2> QED
    BY <2>1, <2>2
<1>5. i \in 1..n /\ j \in 1..k
  BY DEF n, k
<1>6. CASE j = 1
  BY <1>1, <1>3, <1>4, <1>5, <1>6
<1>7. CASE j # 1
  <2>1. 1 < j
    BY <1>1, <1>5, <1>7
  <2>2. Place(t[1]) < Place(t[j])
    BY <1>1, <1>5, <2>1, Ordered DEF k
  <2> QED
    BY <1>1, <1>3, <1>4, <1>5, <2>2
<1> QED
  BY <1>6, <1>7

\* A line that stands where it does in its reply has those in front of it and
\* behind it there too.
LEMMA InPlace ==
  ASSUME NEW s, Stretch(s), NEW i \in 1..Len(s), s[i].line \notin Blocks, s[i].slot = i
  PROVE  \A j \in 1..Len(s) : j <= 22 =>
           s[j].line \notin Blocks /\ s[j].slot = j /\ s[j].poll = s[i].poll
<1> DEFINE k == Len(s)
           Good(d) == s[d].line \notin Blocks /\ s[d].slot = d /\ s[d].poll = s[i].poll
           T == {d \in 1..k : i < d /\ d <= 22 /\ ~Good(d)}
           U == {e \in Nat : e < i /\ ~Good(i - e)}
<1>1. /\ k \in Nat /\ \A d \in 1..k : s[d].slot \in 1..22
      /\ \A d \in 1..(k - 1) : Next1(s[d], s[d + 1])
  <2>1. k \in Nat /\ \A d \in 1..k : WellFormed(s[d])
    BY DEF Stretch
  <2>2. \A d \in 1..(k - 1) : Next1(s[d], s[d + 1])
    BY DEF Stretch
  <2> QED
    BY <2>1, <2>2, Fields
<1> HIDE DEF k
<1>2. i \in 1..k /\ Good(i)
  BY DEF k
<1> HIDE DEF Good
<1>3. \A d \in 1..(k - 1) : (Good(d) /\ d < 22 => Good(d + 1)) /\ (Good(d + 1) /\ 1 <= d => Good(d))
  <2> TAKE d \in 1..(k - 1)
  <2>1. Next1(s[d], s[d + 1]) /\ d \in Nat /\ d >= 1 /\ s[d].slot \in 1..22 /\ s[d + 1].slot \in 1..22
    <3>1. d \in 1..k /\ d + 1 \in 1..k /\ d \in Nat /\ d >= 1
      BY <1>1
    <3>2. s[d].slot \in 1..22 /\ s[d + 1].slot \in 1..22
      BY <1>1, <3>1
    <3>3. Next1(s[d], s[d + 1])
      BY <1>1
    <3> QED
      BY <3>1, <3>2, <3>3
  <2>2. ASSUME Good(d), d < 22 PROVE Good(d + 1)
    <3>1. s[d].slot # 22
      BY <2>1, <2>2 DEF Good
    <3> QED
      BY <2>1, <2>2, <3>1 DEF Next1, Good
  <2>3. ASSUME Good(d + 1) PROVE Good(d)
    <3>1. s[d + 1].slot = d + 1 /\ d + 1 # 1
      BY <2>1, <2>3 DEF Good
    <3>2. /\ s[d].line \notin Blocks /\ s[d].poll = s[d + 1].poll
          /\ s[d + 1].slot = s[d].slot + 1
      BY <2>1, <3>1 DEF Next1
    <3>3. \A u \in 1..22 : u + 1 = d + 1 => u = d
      BY <2>1
    <3>4. s[d].slot = d
      BY <2>1, <3>1, <3>2, <3>3
    <3> QED
      BY <2>3, <3>2, <3>4 DEF Good
  <2> QED
    BY <2>2, <2>3
<1>4. T = {}
  <2>1. SUFFICES ASSUME T # {} PROVE FALSE
    OBVIOUS
  <2>2. PICK x \in T : \A y \in T : x <= y
    <3>1. T \subseteq Nat
      BY <1>1
    <3> HIDE DEF T
    <3> QED
      BY <2>1, <3>1, LeastNumber
  <2>3. x \in 1..k /\ i < x /\ x <= 22 /\ ~Good(x)
    OBVIOUS
  <2>4. x - 1 \in 1..(k - 1) /\ x - 1 \in 1..k /\ (x - 1) + 1 = x /\ ~(x <= x - 1) /\ x - 1 < 22
    BY <1>1, <1>2, <2>3
  <2>5. ~Good(x - 1)
    BY <1>3, <2>3, <2>4
  <2>6. x - 1 \notin T
    BY <2>2, <2>4
  <2>7. i < x - 1
    BY <1>1, <1>2, <2>3, <2>4, <2>5
  <2> QED
    BY <2>4, <2>5, <2>6, <2>7
<1>5. U = {}
  <2>1. SUFFICES ASSUME U # {} PROVE FALSE
    OBVIOUS
  <2>2. PICK x \in U : \A y \in U : x <= y
    <3>1. U \subseteq Nat
      OBVIOUS
    <3> HIDE DEF U
    <3> QED
      BY <2>1, <3>1, LeastNumber
  <2>3. x \in Nat /\ x < i /\ ~Good(i - x)
    OBVIOUS
  <2>4. x # 0
    <3>1. i - 0 = i
      BY <1>1, <1>2
    <3> QED
      BY <1>2, <2>3, <3>1
  <2>5. x - 1 \in Nat /\ x - 1 < i /\ ~(x <= x - 1)
        /\ i - x \in 1..(k - 1) /\ i - (x - 1) = (i - x) + 1 /\ 1 <= i - x
    BY <1>1, <1>2, <2>3, <2>4
  <2>6. ~Good((i - x) + 1)
    BY <1>3, <2>3, <2>5
  <2>7. x - 1 \in U
    BY <2>5, <2>6
  <2> QED
    BY <2>2, <2>5, <2>7
<1>6. ASSUME NEW j \in 1..k, j <= 22 PROVE Good(j)
  <2>1. CASE i < j
    BY <1>4, <1>6, <2>1
  <2>2. CASE i = j
    BY <1>2, <2>2
  <2>3. CASE j < i
    <3>1. i - j \in Nat /\ i - j < i /\ i - (i - j) = j
      BY <1>1, <1>2, <2>3
    <3> QED
      BY <1>5, <3>1
  <2> QED
    BY <1>1, <1>2, <2>1, <2>2, <2>3
<1> QED
  BY <1>6 DEF Good, k

\* What is left of one poll, when none of its blocks is to come, is no longer
\* than an overview.
LEMMA LeftShort ==
  ASSUME NEW s, Stretch(s), NEW n,
         \A i \in 1..Len(s) : s[i].poll = n /\ ~(s[i].from = 0 /\ s[i].line \in Blocks)
  PROVE  Len(s) <= 22
<1> DEFINE k == Len(s)
           T == {d \in 1..k : ~(s[d].slot >= d)}
<1>1. /\ k \in Nat /\ \A d \in 1..k : WellFormed(s[d]) /\ s[d].slot \in 1..22
      /\ \A d \in 1..(k - 1) : Next1(s[d], s[d + 1]) /\ s[d + 1].from = 0
      /\ \A d \in 1..k : s[d].poll = n /\ ~(s[d].from = 0 /\ s[d].line \in Blocks)
  <2>1. k \in Nat /\ \A d \in 1..k : WellFormed(s[d])
    BY DEF Stretch
  <2>2. \A d \in 1..(k - 1) : Next1(s[d], s[d + 1]) /\ s[d + 1].from = 0
    BY DEF Stretch
  <2>3. \A d \in 1..k : s[d].slot \in 1..22
    BY <2>1, Fields
  <2> QED
    BY <2>1, <2>2, <2>3
<1> HIDE DEF k
<1>2. \A d \in 1..(k - 1) : s[d + 1].slot = s[d].slot + 1
  <2> TAKE d \in 1..(k - 1)
  <2>1. d \in 1..k /\ d + 1 \in 1..k
    BY <1>1
  <2>2. s[d + 1].line \notin Blocks /\ s[d].poll = n /\ s[d + 1].poll = n /\ Next1(s[d], s[d + 1])
    BY <1>1, <2>1
  <2>3. Place(s[d]) < Place(s[d + 1])
    BY <1>1, <2>1, <2>2, NextPlace
  <2>4. ~(s[d + 1].slot = 1 /\ (s[d].line \in Blocks \/ s[d].slot = 22))
    <3>1. /\ Place(s[d + 1]) = 27 * n + s[d + 1].slot
          /\ s[d].line \in Blocks => Place(s[d]) = 27 * n + 21 + Turn[s[d].line] /\ Turn[s[d].line] \in 2..6
          /\ s[d].line \notin Blocks => Place(s[d]) = 27 * n + s[d].slot
          /\ n \in Nat
      <4>1. WellFormed(s[d]) /\ WellFormed(s[d + 1])
        BY <1>1, <2>1
      <4> QED
        BY <2>2, <4>1, Fields
    <3>2. ASSUME s[d + 1].slot = 1, s[d].line \in Blocks PROVE FALSE
      BY <2>3, <3>1, <3>2
    <3>3. ASSUME s[d + 1].slot = 1, s[d].line \notin Blocks, s[d].slot = 22 PROVE FALSE
      BY <2>3, <3>1, <3>3
    <3> QED
      BY <3>2, <3>3
  <2> QED
    BY <2>2, <2>4 DEF Next1
<1>3. T = {}
  <2>1. SUFFICES ASSUME T # {} PROVE FALSE
    OBVIOUS
  <2>2. PICK x \in T : \A y \in T : x <= y
    <3>1. T \subseteq Nat
      BY <1>1
    <3> HIDE DEF T
    <3> QED
      BY <2>1, <3>1, LeastNumber
  <2>3. x \in 1..k /\ ~(s[x].slot >= x) /\ s[x].slot \in 1..22
    BY <1>1
  <2>4. x # 1
    BY <2>3, SMTT(30)
  <2>5. x - 1 \in 1..(k - 1) /\ x - 1 \in 1..k /\ (x - 1) + 1 = x /\ ~(x <= x - 1)
    BY <1>1, <2>3, <2>4
  <2>6. s[x - 1].slot >= x - 1 /\ s[x].slot = s[x - 1].slot + 1 /\ s[x - 1].slot \in 1..22
    <3>1. x - 1 \notin T
      BY <2>2, <2>5
    <3>2. s[(x - 1) + 1].slot = s[x - 1].slot + 1
      BY <1>2, <2>5
    <3> QED
      BY <1>1, <2>5, <3>1, <3>2
  <2>7. \A u \in 1..22 : u >= x - 1 => u + 1 >= x
    BY <2>5
  <2> QED
    BY <2>3, <2>6, <2>7
<1>4. CASE k = 0
  BY <1>4 DEF k
<1>5. CASE k # 0
  <2>1. k \in 1..k
    BY <1>1, <1>5
  <2>2. s[k].slot >= k /\ s[k].slot \in 1..22
    BY <1>1, <1>3, <2>1
  <2> QED
    BY <1>1, <2>2, SMTT(30) DEF k
<1> QED
  BY <1>4, <1>5

----------------------------------------------------------------------------
(* Overviews *)

LEMMA JoinNames ==
  ASSUME NEW S, NEW a \in Seq(S), NEW b \in Seq(S), Len(b) > 0
  PROVE  /\ a \o b \in Seq(S) /\ Len(a \o b) = Len(a) + Len(b)
         /\ (a \o b)[Len(a) + Len(b)] = b[Len(b)]
<1> DEFINE m == Len(a)
           n == Len(b)
<1>1. /\ a \o b \in Seq(S) /\ Len(a \o b) = m + n /\ m \in Nat /\ n \in Nat /\ n > 0
      /\ \A i \in 1..(m + n) : (a \o b)[i] = IF i <= m THEN a[i] ELSE b[i - m]
  BY ConcatProperties
<1> HIDE DEF m, n
<1>2. m + n \in 1..(m + n) /\ ~(m + n <= m) /\ (m + n) - m = n
  BY <1>1
<1>3. (a \o b)[m + n] = b[n]
  BY <1>1, <1>2
<1> QED
  BY <1>1, <1>3 DEF m, n

LEMMA MoreNames ==
  ASSUME NEW S, NEW a \in Seq(S), NEW f \in S
  PROVE  /\ a \o Hms(f) \in Seq(S) /\ Len(a \o Hms(f)) = Len(a) + 3
         /\ (a \o Hms(f))[Len(a) + 3] = f
         /\ a \o Ms(f) \in Seq(S) /\ Len(a \o Ms(f)) = Len(a) + 2
         /\ a \o <<f>> \in Seq(S) /\ Len(a \o <<f>>) = Len(a) + 1
<1> DEFINE m == Len(a)
           h == <<f, f, f>>
           g == <<f, f>>
           e == <<f>>
<1>1. /\ h \in Seq(S) /\ Len(h) = 3 /\ h[3] = f
      /\ g \in Seq(S) /\ Len(g) = 2
      /\ e \in Seq(S) /\ Len(e) = 1
  OBVIOUS
<1>2. m \in Nat /\ Len(a) = m
  OBVIOUS
<1> HIDE DEF h, g, e, m
<1>3. a \o h \in Seq(S) /\ Len(a \o h) = m + 3 /\ (a \o h)[m + 3] = f
  <2>1. Len(h) > 0
    BY <1>1
  <2>2. a \o h \in Seq(S) /\ Len(a \o h) = m + Len(h) /\ (a \o h)[m + Len(h)] = h[Len(h)]
    BY <1>1, <1>2, <2>1, JoinNames
  <2> QED
    BY <1>1, <1>2, <2>2
<1>4. a \o g \in Seq(S) /\ Len(a \o g) = m + 2
  <2>1. Len(g) > 0
    BY <1>1
  <2>2. a \o g \in Seq(S) /\ Len(a \o g) = m + Len(g)
    BY <1>1, <1>2, <2>1, JoinNames
  <2> QED
    BY <1>1, <1>2, <2>2
<1>5. a \o e \in Seq(S) /\ Len(a \o e) = m + 1
  <2>1. Len(e) > 0
    BY <1>1
  <2>2. a \o e \in Seq(S) /\ Len(a \o e) = m + Len(e)
    BY <1>1, <1>2, <2>1, JoinNames
  <2> QED
    BY <1>1, <1>2, <2>2
<1> QED
  BY <1>2, <1>3, <1>4, <1>5 DEF h, g, e, Hms, Ms

\* The number of the fields that each class reads, and the last of them.
LEMMA Layouts ==
  /\ Part = {"temperatures", "inputs", "outputs", "runtimes", "hours", "status"}
  /\ Mandatory = {"temperatures", "inputs", "outputs", "runtimes", "hours"}
  /\ Layout.temperatures = Temperatures /\ Layout.inputs = DigitalInputs
  /\ Layout.outputs = DigitalOutputs /\ Layout.runtimes = Runtimes
  /\ Layout.hours = OperatingHours /\ Layout.status = SystemStatus
  /\ Len(Temperatures) = 12 /\ Temperatures[12] = "return_secondary"
  /\ Len(DigitalInputs) = 6 /\ DigitalInputs[6] = "pex"
  /\ Len(DigitalOutputs) = 13 /\ DigitalOutputs[13] = "backup_generator_2_fault"
  /\ Len(Runtimes) = 29 /\ Runtimes[29] = "bw_lock_seconds"
  /\ Len(OperatingHours) = 9 /\ OperatingHours[9] = "heat_pump_total"
  /\ Len(SystemStatus) = 4 /\ SystemStatus[4] = "anl_status"
<1>1. /\ Part = {"temperatures", "inputs", "outputs", "runtimes", "hours", "status"}
      /\ Mandatory = {"temperatures", "inputs", "outputs", "runtimes", "hours"}
  BY DEF Part, Mandatory, Position
<1>2. /\ Layout.temperatures = Temperatures /\ Layout.inputs = DigitalInputs
      /\ Layout.outputs = DigitalOutputs /\ Layout.runtimes = Runtimes
      /\ Layout.hours = OperatingHours /\ Layout.status = SystemStatus
  BY DEF Layout
<1>3. /\ Len(Temperatures) = 12 /\ Temperatures[12] = "return_secondary"
      /\ Len(DigitalInputs) = 6 /\ DigitalInputs[6] = "pex"
      /\ Len(DigitalOutputs) = 13 /\ DigitalOutputs[13] = "backup_generator_2_fault"
      /\ Len(OperatingHours) = 9 /\ OperatingHours[9] = "heat_pump_total"
      /\ Len(SystemStatus) = 4 /\ SystemStatus[4] = "anl_status"
  BY DEF Temperatures, DigitalInputs, DigitalOutputs, OperatingHours, SystemStatus
<1>4. Len(Runtimes) = 29 /\ Runtimes[29] = "bw_lock_seconds"
  <2> DEFINE S == {"wp_seconds", "zwe1_seconds", "zwe2_seconds", "netzeinv", "ssp_stand_seconds",
                   "ssp_verz_seconds", "vd_stand_seconds", "hrm_seconds", "hrw_seconds",
                   "tdi_seconds", "bw_lock_seconds"}
  <2>1. /\ Hms("wp_seconds") \in Seq(S) /\ Len(Hms("wp_seconds")) = 3
    BY DEF Hms
  <2> DEFINE a2 == Hms("wp_seconds") \o Hms("zwe1_seconds")
             a3 == a2 \o Hms("zwe2_seconds")
             a4 == a3 \o <<"netzeinv">>
             a5 == a4 \o Ms("ssp_stand_seconds")
             a6 == a5 \o Ms("ssp_verz_seconds")
             a7 == a6 \o Hms("vd_stand_seconds")
             a8 == a7 \o Hms("hrm_seconds")
             a9 == a8 \o Hms("hrw_seconds")
             a10 == a9 \o Hms("tdi_seconds")
             a11 == a10 \o Hms("bw_lock_seconds")
  <2>0. Runtimes = a11
    BY DEF Runtimes
  <2>12. /\ "wp_seconds" \in S /\ "zwe1_seconds" \in S /\ "zwe2_seconds" \in S
         /\ "netzeinv" \in S /\ "ssp_stand_seconds" \in S /\ "ssp_verz_seconds" \in S
         /\ "vd_stand_seconds" \in S /\ "hrm_seconds" \in S /\ "hrw_seconds" \in S
         /\ "tdi_seconds" \in S /\ "bw_lock_seconds" \in S
    OBVIOUS
  <2> HIDE DEF S
  <2>2. a2 \in Seq(S) /\ Len(a2) = 6
    <3>1. a2 \in Seq(S) /\ Len(a2) = Len(Hms("wp_seconds")) + 3
      BY <2>1, <2>12, MoreNames
    <3> QED
      BY <2>1, <3>1
  <2> HIDE DEF a2
  <2>3. a3 \in Seq(S) /\ Len(a3) = 9
    <3>1. a3 \in Seq(S) /\ Len(a3) = Len(a2) + 3
      BY <2>2, <2>12, MoreNames, ZenonT(40)
    <3> QED
      BY <2>2, <3>1
  <2> HIDE DEF a3
  <2>4. a4 \in Seq(S) /\ Len(a4) = 10
    <3>1. a4 \in Seq(S) /\ Len(a4) = Len(a3) + 1
      BY <2>3, <2>12, MoreNames
    <3> QED
      BY <2>3, <3>1
  <2> HIDE DEF a4
  <2>5. a5 \in Seq(S) /\ Len(a5) = 12
    <3>1. a5 \in Seq(S) /\ Len(a5) = Len(a4) + 2
      BY <2>4, <2>12, MoreNames, ZenonT(40)
    <3> QED
      BY <2>4, <3>1
  <2> HIDE DEF a5
  <2>6. a6 \in Seq(S) /\ Len(a6) = 14
    <3>1. a6 \in Seq(S) /\ Len(a6) = Len(a5) + 2
      BY <2>5, <2>12, MoreNames, ZenonT(40)
    <3> QED
      BY <2>5, <3>1
  <2> HIDE DEF a6
  <2>7. a7 \in Seq(S) /\ Len(a7) = 17
    <3>1. a7 \in Seq(S) /\ Len(a7) = Len(a6) + 3
      BY <2>6, <2>12, MoreNames
    <3> QED
      BY <2>6, <3>1
  <2> HIDE DEF a7
  <2>8. a8 \in Seq(S) /\ Len(a8) = 20
    <3>1. a8 \in Seq(S) /\ Len(a8) = Len(a7) + 3
      BY <2>7, <2>12, MoreNames, ZenonT(40)
    <3> QED
      BY <2>7, <3>1
  <2> HIDE DEF a8
  <2>9. a9 \in Seq(S) /\ Len(a9) = 23
    <3>1. a9 \in Seq(S) /\ Len(a9) = Len(a8) + 3
      BY <2>8, <2>12, MoreNames, ZenonT(40)
    <3> QED
      BY <2>8, <3>1
  <2> HIDE DEF a9
  <2>10. a10 \in Seq(S) /\ Len(a10) = 26
    <3>1. a10 \in Seq(S) /\ Len(a10) = Len(a9) + 3
      BY <2>9, <2>12, MoreNames, ZenonT(40)
    <3> QED
      BY <2>9, <3>1
  <2> HIDE DEF a10
  <2>11. Len(a11) = 29 /\ a11[29] = "bw_lock_seconds"
    <3> DEFINE f == "bw_lock_seconds"
               l == Len(a10) + 3
    <3>1. f \in S
      BY <2>12
    <3> HIDE DEF f
    <3>2. a10 \o Hms(f) \in Seq(S) /\ Len(a10 \o Hms(f)) = l /\ (a10 \o Hms(f))[l] = f
      BY <2>10, <3>1, MoreNames, ZenonT(40)
    <3>3. l = 29
      BY <2>10
    <3> HIDE DEF l
    <3> QED
      BY <3>2, <3>3 DEF f
  <2> QED
    BY <2>0, <2>11
<1> QED
  BY <1>1, <1>2, <1>3, <1>4

LEMMA Lengths ==
  /\ \A p \in Part : Len(Layout[p]) \in Nat \ {0} /\ Position[p] \in 2..21
                     /\ OverviewReply[Position[p] + 1] = LineOf[p]
  /\ Position.runtimes = 5 /\ Len(Layout.runtimes) = 29 /\ Position.temperatures = 2
  /\ Position.status = 21
<1>1. /\ Position.temperatures = 2 /\ Position.inputs = 3 /\ Position.outputs = 4
      /\ Position.runtimes = 5 /\ Position.hours = 6 /\ Position.status = 21
  BY DEF Position
<1>2. /\ LineOf.temperatures = "1100" /\ LineOf.inputs = "1200" /\ LineOf.outputs = "1300"
      /\ LineOf.runtimes = "1400" /\ LineOf.hours = "1600" /\ LineOf.status = "2900"
  BY DEF LineOf
<1>3. /\ Part = {"temperatures", "inputs", "outputs", "runtimes", "hours", "status"}
      /\ Len(Layout.temperatures) = 12 /\ Len(Layout.inputs) = 6 /\ Len(Layout.outputs) = 13
      /\ Len(Layout.runtimes) = 29 /\ Len(Layout.hours) = 9 /\ Len(Layout.status) = 4
  BY Layouts
<1>4. /\ OverviewReply[3] = "1100" /\ OverviewReply[4] = "1200" /\ OverviewReply[5] = "1300"
      /\ OverviewReply[6] = "1400" /\ OverviewReply[7] = "1600" /\ OverviewReply[22] = "2900"
  BY LineNames
<1>5. \A p \in Part : Len(Layout[p]) \in Nat \ {0}
  <2>1. \A p \in Part : Len(Layout[p]) \in {4, 6, 9, 12, 13, 29}
    BY <1>3
  <2> QED
    BY <2>1, SMTT(30)
<1>6. \A p \in Part : Position[p] \in 2..21
  BY <1>1, <1>3
<1>7. \A p \in Part : OverviewReply[Position[p] + 1] = LineOf[p]
  BY <1>1, <1>2, <1>3, <1>4
<1> QED
  BY <1>1, <1>3, <1>5, <1>6, <1>7

LEMMA NumValuesBound ==
  ASSUME NEW x, WellFormed(x)
  PROVE  NumValues(x) \in Int /\ NumValues(x) <= Count[x.line]
<1>1. x.to \in 1..5 /\ Count[x.line] \in Nat
  BY Fields, CountOfLines
<1>2. CASE x.to = 1
  BY <1>1, <1>2 DEF NumValues
<1>3. CASE x.to = 2
  BY <1>1, <1>3 DEF NumValues
<1>4. CASE x.to > 2
  BY <1>1, <1>4 DEF NumValues
<1> QED
  BY <1>1, <1>2, <1>3, <1>4

LEMMA SlotOf1400 ==
  ASSUME NEW i \in 1..22, OverviewReply[i] = "1400"
  PROVE  i = 6
<1>1. \/ i = 6 \/ i \in {1, 2, 3, 4, 5, 7, 8, 22} \/ i \in 9..13 \/ i \in 16..20
      \/ i \in {14, 15, 21}
  OBVIOUS
<1> QED
  BY <1>1, LineNames

\* An overview whose parts come from the lines of one reply that are meant for them.
Overviews == [parts : [Part -> Piece \cup {Default}], errors : SUBSET Piece, shutdowns : SUBSET Piece]

IsOverview(o) ==
  /\ o \in Overviews
  /\ \A p \in Part : o.parts[p] # Default =>
       /\ WellFormed(o.parts[p]) /\ o.parts[p].line = LineOf[p]
       /\ o.parts[p].poll = o.parts.temperatures.poll
  /\ \A l \in o.errors : l.line = "err" /\ l.poll = o.parts.temperatures.poll
  /\ \A l \in o.shutdowns : l.line = "shut" /\ l.poll = o.parts.temperatures.poll

\* The run times are the only line of 29 values: where they are found, every
\* line is at its place.
LEMMA OneReply ==
  ASSUME NEW s, Stretch(s), ~Raises(s)
  PROVE  /\ IsOverview(FromLines(s))
         /\ \E i \in 1..Len(s) : FromLines(s).parts.temperatures.poll = s[i].poll
<1> DEFINE k == Len(s)
           o == FromLines(s)
<1>1. k \in Nat /\ \A i \in 1..k : WellFormed(s[i])
  BY DEF Stretch
<1>2. /\ \A p \in Mandatory : ValuesAt(s, Position[p]) >= Len(Layout[p])
      /\ "runtimes" \in Mandatory /\ "temperatures" \in Mandatory
      /\ "temperatures" \in Part /\ Mandatory \subseteq Part
  BY Layouts DEF Raises, LongEnough, Mandatory
<1>3. /\ ValuesAt(s, 5) >= 29 /\ ValuesAt(s, 2) # 0
  <2>1. ValuesAt(s, 5) >= 29
    BY <1>2, Lengths
  <2>2. ValuesAt(s, 2) >= Len(Layout.temperatures) /\ Len(Layout.temperatures) = 12
    BY <1>2, Lengths, Layouts
  <2> QED
    BY <2>1, <2>2
<1>4. 6 \in 1..k /\ NumValues(s[6]) >= 29
  <2>1. 5 < k
    BY <1>3 DEF ValuesAt
  <2> QED
    BY <1>1, <1>3, <2>1 DEF ValuesAt
<1>5. s[6].slot = 6 /\ s[6].line \notin Blocks
  <2>1. WellFormed(s[6])
    BY <1>1, <1>4
  <2>2. s[6].line = "1400"
    <3>1. Count[s[6].line] \in Nat /\ s[6].line \in Line
      BY <2>1, Fields, CountOfLines
    <3>2. Count[s[6].line] >= 29
      BY <1>4, <2>1, <3>1, NumValuesBound
    <3> QED
      BY <3>1, <3>2, CountOfLines
  <2>3. s[6].line \notin Blocks
    BY <2>2 DEF Blocks
  <2>4. s[6].slot \in 1..22 /\ OverviewReply[s[6].slot] = "1400"
    BY <2>1, <2>2, <2>3, Fields
  <2> QED
    BY <2>3, <2>4, SlotOf1400
<1>6. \A j \in 1..k : j <= 22 =>
        /\ WellFormed(s[j]) /\ s[j] \in Piece
        /\ s[j].line = OverviewReply[j] /\ s[j].poll = s[6].poll
  <2> TAKE j \in 1..k
  <2> HAVE j <= 22
  <2>1. s[j].line \notin Blocks /\ s[j].slot = j /\ s[j].poll = s[6].poll
    BY <1>4, <1>5, InPlace
  <2> QED
    BY <1>1, <2>1 DEF WellFormed
<1>7. 3 \in 1..k /\ 3 <= 22
  BY <1>1, <1>4
<1> HIDE DEF k
<1>8. /\ o.parts = Overview(s) /\ o.errors = Faults(s, 8..12) /\ o.shutdowns = Faults(s, 15..19)
      /\ o = [parts |-> Overview(s), errors |-> Faults(s, 8..12), shutdowns |-> Faults(s, 15..19)]
  BY DEF FromLines
<1>9. Overview(s)["temperatures"] = s[3]
  BY <1>2, <1>3, Lengths DEF Overview
<1> HIDE DEF o
<1>10. ASSUME NEW p \in Part, Overview(s)[p] # Default
       PROVE  /\ Overview(s)[p] \in Piece /\ WellFormed(Overview(s)[p])
              /\ Overview(s)[p].line = LineOf[p] /\ Overview(s)[p].poll = s[6].poll
  <2> DEFINE q == Position[p]
  <2>1. q \in 2..21 /\ OverviewReply[q + 1] = LineOf[p]
    BY Lengths
  <2>2. Overview(s)[p] = IF ValuesAt(s, q) = 0 THEN Default ELSE s[q + 1]
    BY DEF Overview
  <2> HIDE DEF q
  <2>3. ValuesAt(s, q) # 0 /\ Overview(s)[p] = s[q + 1]
    BY <1>10, <2>2
  <2>4. q < k
    BY <2>3 DEF ValuesAt, k
  <2>5. q + 1 \in 1..k /\ q + 1 <= 22
    BY <1>1, <2>1, <2>4 DEF k
  <2> QED
    BY <1>6, <2>1, <2>3, <2>5
<1>11. Overview(s) \in [Part -> Piece \cup {Default}]
  <2>1. \A p \in Part : Overview(s)[p] \in Piece \cup {Default}
    BY <1>10
  <2>2. Overview(s) = [p \in Part |-> Overview(s)[p]]
    BY DEF Overview
  <2> QED
    BY <2>1, <2>2
<1>12. ASSUME NEW I, I \subseteq 0..21, NEW l \in Faults(s, I)
       PROVE  \E j \in I : l = s[j + 1] /\ j + 1 \in 1..k /\ j + 1 <= 22
  <2>1. PICK j \in I : l = s[j + 1] /\ ValuesAt(s, j) >= 6
    BY DEF Faults
  <2>2. j < k
    BY <2>1 DEF ValuesAt, k
  <2>3. j \in 0..21
    BY <1>12
  <2>4. j + 1 \in 1..k /\ j + 1 <= 22
    BY <1>1, <2>2, <2>3 DEF k
  <2> QED
    BY <2>1, <2>4
<1>13. \A l \in Faults(s, 8..12) : l \in Piece /\ l.line = "err" /\ l.poll = s[6].poll
  <2> TAKE l \in Faults(s, 8..12)
  <2>1. PICK j \in 8..12 : l = s[j + 1] /\ j + 1 \in 1..k /\ j + 1 <= 22
    <3> DEFINE I == 8..12
    <3>1. I \subseteq 0..21 /\ l \in Faults(s, I)
      OBVIOUS
    <3> HIDE DEF I
    <3>2. \E j \in I : l = s[j + 1] /\ j + 1 \in 1..k /\ j + 1 <= 22
      BY <1>12, <3>1
    <3> QED
      BY <3>2 DEF I
  <2>2. j + 1 \in 9..13
    OBVIOUS
  <2>3. OverviewReply[j + 1] = "err"
    BY <2>2, LineNames
  <2> QED
    BY <1>6, <2>1, <2>3
<1>14. \A l \in Faults(s, 15..19) : l \in Piece /\ l.line = "shut" /\ l.poll = s[6].poll
  <2> TAKE l \in Faults(s, 15..19)
  <2>1. PICK j \in 15..19 : l = s[j + 1] /\ j + 1 \in 1..k /\ j + 1 <= 22
    <3> DEFINE I == 15..19
    <3>1. I \subseteq 0..21 /\ l \in Faults(s, I)
      OBVIOUS
    <3> HIDE DEF I
    <3>2. \E j \in I : l = s[j + 1] /\ j + 1 \in 1..k /\ j + 1 <= 22
      BY <1>12, <3>1
    <3> QED
      BY <3>2 DEF I
  <2>2. j + 1 \in 16..20
    OBVIOUS
  <2>3. OverviewReply[j + 1] = "shut"
    BY <2>2, LineNames
  <2> QED
    BY <1>6, <2>1, <2>3
<1>15. o.parts.temperatures.poll = s[6].poll
  BY <1>6, <1>7, <1>8, <1>9
<1>16. o \in Overviews
  <2>1. Faults(s, 8..12) \subseteq Piece /\ Faults(s, 15..19) \subseteq Piece
    BY <1>13, <1>14
  <2> QED
    BY <1>8, <1>11, <2>1 DEF Overviews
<1>17. IsOverview(o)
  BY <1>8, <1>10, <1>13, <1>14, <1>15, <1>16 DEF IsOverview
<1> QED
  BY <1>4, <1>15, <1>17 DEF o, k

----------------------------------------------------------------------------
(* Replies, and the lines of a buffer *)

LEMMA SplitStretch ==
  ASSUME NEW s, Stretch(s)
  PROVE  /\ Stretch(Split(s))
         /\ \A i \in 1..Len(Split(s)) : \E j \in 1..Len(s) : Split(s)[i] = s[j]
<1> DEFINE k == Len(s)
<1>1. /\ s \in Seq(Piece) /\ k \in Nat /\ \A i \in 1..k : WellFormed(s[i])
      /\ \A i \in 1..(k - 1) : s[i].to = Full /\ s[i + 1].from = 0 /\ Next1(s[i], s[i + 1])
  BY DEF Stretch
<1>2. CASE s # <<>> /\ s[1].from = 4
  <2> DEFINE t == Tail(s)
  <2>1. /\ t \in Seq(Piece) /\ Len(t) = k - 1 /\ k >= 1
        /\ \A i \in 1..(k - 1) : t[i] = s[i + 1]
    BY <1>1, <1>2, HeadTailProperties
  <2>2. Split(s) = t
    BY <1>2 DEF Split
  <2> HIDE DEF t, k
  <2>3. \A i \in 1..(k - 1) : i + 1 \in 1..k /\ i \in 1..k
    BY <1>1
  <2>4. \A i \in 1..((k - 1) - 1) : i \in 1..(k - 1) /\ i + 1 \in 1..(k - 1)
    BY <1>1
  <2>5. Stretch(t)
    <3>1. \A i \in 1..(k - 1) : WellFormed(t[i])
      BY <1>1, <2>1, <2>3
    <3>2. ASSUME NEW i \in 1..((k - 1) - 1)
          PROVE  t[i].to = Full /\ t[i + 1].from = 0 /\ Next1(t[i], t[i + 1])
      <4>1. t[i] = s[i + 1] /\ t[i + 1] = s[(i + 1) + 1] /\ i + 1 \in 1..(k - 1)
        BY <2>1, <2>4
      <4> QED
        BY <1>1, <4>1
    <3> QED
      BY <2>1, <3>1, <3>2 DEF Stretch
  <2>6. \A i \in 1..Len(t) : i + 1 \in 1..k /\ t[i] = s[i + 1]
    BY <2>1, <2>3
  <2> QED
    BY <2>2, <2>5, <2>6 DEF k
<1>3. CASE ~(s # <<>> /\ s[1].from = 4)
  BY <1>1, <1>3 DEF Split
<1> QED
  BY <1>2, <1>3

LEMMA DecodedIsOwn ==
  ASSUME NEW s, Stretch(s), NEW c, Complete(s, c)
  PROVE  \E i \in 1..Len(s) : Decoded(s, c) = s[i] /\ s[i].from = 0 /\ s[i].line = c
<1> DEFINE k == Len(s)
           own == {i \in DOMAIN s : s[i].from = 0 /\ s[i].line = c}
<1>1. s \in Seq(Piece) /\ k \in Nat /\ DOMAIN s = 1..k
  BY DEF Stretch
<1>2. own # {} /\ own \subseteq Nat
  BY <1>1 DEF Complete, IsComplete
<1>3. Decoded(s, c) = s[CHOOSE i \in own : \A j \in own : i <= j]
  BY DEF Decoded
<1> HIDE DEF own
<1>4. \E i \in own : \A j \in own : i <= j
  BY <1>2, LeastNumber
<1>5. (CHOOSE i \in own : \A j \in own : i <= j) \in own
  BY <1>4
<1> QED
  BY <1>1, <1>3, <1>5 DEF own

LEMMA FunctionIsSeq ==
  ASSUME NEW S, NEW n \in Nat, NEW r \in [1..n -> S]
  PROVE  r \in Seq(S) /\ Len(r) = n
<1>1. r \in Seq(S)
  BY SeqDef
<1>2. Len(r) \in Nat /\ DOMAIN r = 1..Len(r) /\ DOMAIN r = 1..n
  BY <1>1, LenProperties
<1> DEFINE m == Len(r)
<1>3. m \in Nat /\ 1..m = 1..n
  BY <1>2
<1> HIDE DEF m
<1>4. m = n
  <2>1. ~(m < n)
    <3> SUFFICES ASSUME m < n PROVE FALSE
      OBVIOUS
    <3>1. n \in 1..n /\ n \notin 1..m
      BY <1>3
    <3> QED
      BY <1>3, <3>1
  <2>2. ~(n < m)
    <3> SUFFICES ASSUME n < m PROVE FALSE
      OBVIOUS
    <3>1. m \in 1..m /\ m \notin 1..n
      BY <1>3
    <3> QED
      BY <1>3, <3>1
  <2> QED
    BY <1>3, <2>1, <2>2
<1> QED
  BY <1>1, <1>4 DEF m

\* A reply is a stretch, and begins with the beginning of its first line.
LEMMA ReplyStretch ==
  ASSUME NEW c \in Blocks \cup {"1800"}, NEW n \in 1..MaxPolls
  PROVE  LET r == Reply(c, n)
         IN  /\ Stretch(r) /\ Finished(r) /\ r # <<>>
             /\ r[1].from = 0 /\ r[1].slot = 1
             /\ \A i \in 1..Len(r) :
                  /\ r[i].poll = n /\ r[i].from = 0
                  /\ IF c = "1800" THEN r[i].line \notin Blocks /\ Place(r[i]) = 27 * n + i /\ i <= 22
                                   ELSE r[i].line = c /\ Place(r[i]) = 27 * n + 21 + Turn[c]
             /\ IF c = "1800" THEN Len(r) = 22 /\ \A i \in 1..22 : r[i].slot = i /\ r[i].to = Full
                              ELSE Len(r) = 1
<1> DEFINE r == Reply(c, n)
<1>1. n \in Nat \ {0} /\ n <= MaxPolls
  BY BoundAssumption
<1>2. CASE c = "1800"
  <2>1. r = [i \in 1..22 |-> [line |-> OverviewReply[i], slot |-> i, poll |-> n, from |-> 0, to |-> 5]]
    BY <1>2, LineNames DEF Reply, Lines, Full
  <2>2. \A i \in 1..22 : /\ r[i].line = OverviewReply[i] /\ r[i].slot = i /\ r[i].poll = n
                         /\ r[i].from = 0 /\ r[i].to = 5 /\ r[i] \in Piece
    BY <2>1, Lines14 DEF Piece, Full
  <2>3. \A i \in 1..22 : r[i].line \notin Blocks
    BY <2>2, Lines14
  <2>4. r \in Seq(Piece) /\ Len(r) = 22 /\ r # <<>>
    <3>1. r \in [1..22 -> Piece]
      BY <2>1, <2>2
    <3> HIDE DEF r
    <3> DEFINE n22 == 22
    <3>3. n22 \in Nat /\ r \in [1..n22 -> Piece]
      BY <3>1
    <3> HIDE DEF n22
    <3>2. r \in Seq(Piece) /\ Len(r) = n22
      BY <3>3, FunctionIsSeq
    <3>4. Len(r) = 22
      BY <3>2 DEF n22
    <3>5. r # <<>>
      BY <3>4
    <3> QED
      BY <3>2, <3>4, <3>5
  <2> HIDE DEF r
  <2>5. \A i \in 1..22 : WellFormed(r[i]) /\ Place(r[i]) = 27 * n + i
    BY <2>2, <2>3 DEF WellFormed, Place
  <2>6. \A i \in 1..21 : Next1(r[i], r[i + 1])
    <3> TAKE i \in 1..21
    <3>1. i \in 1..22 /\ i + 1 \in 1..22
      OBVIOUS
    <3> QED
      BY <2>2, <2>3, <3>1 DEF Next1
  <2>7. \A i \in 1..21 : r[i].to = Full /\ r[i + 1].from = 0
    <3> TAKE i \in 1..21
    <3>1. i \in 1..22 /\ i + 1 \in 1..22
      OBVIOUS
    <3> QED
      BY <2>2, <3>1 DEF Full
  <2>8. Stretch(r)
    BY <2>4, <2>5, <2>6, <2>7 DEF Stretch
  <2>9. Finished(r)
    BY <2>2, <2>4 DEF Finished, Full
  <2>10. 1 \in 1..22
    OBVIOUS
  <2>11. r[1].from = 0 /\ r[1].slot = 1
    BY <2>2, <2>10
  <2>12. \A i \in 1..22 : /\ r[i].poll = n /\ r[i].from = 0 /\ r[i].line \notin Blocks
                          /\ Place(r[i]) = 27 * n + i /\ i <= 22
    BY <2>2, <2>3, <2>5
  <2>13. \A i \in 1..22 : r[i].slot = i /\ r[i].to = Full
    BY <2>2 DEF Full
  <2> QED
    BY <1>2, <2>4, <2>8, <2>9, <2>11, <2>12, <2>13 DEF r
<1>3. CASE c # "1800"
  <2>1. c \in Blocks /\ c \in Line
    BY <1>3, Lines14 DEF Blocks
  <2>2. r = [i \in 1..1 |-> [line |-> c, slot |-> 1, poll |-> n, from |-> 0, to |-> 5]]
    <3>1. Lines(c) = <<c>> /\ DOMAIN <<c>> = 1..1 /\ <<c>>[1] = c
      BY <1>3 DEF Lines
    <3>2. \A i \in 1..1 : i = 1
      OBVIOUS
    <3> QED
      BY <3>1, <3>2 DEF Reply, Full
  <2>3. /\ r[1].line = c /\ r[1].slot = 1 /\ r[1].poll = n
        /\ r[1].from = 0 /\ r[1].to = 5 /\ r[1] \in Piece
    BY <1>1, <2>1, <2>2 DEF Piece, Full
  <2>4. r \in Seq(Piece) /\ Len(r) = 1 /\ r # <<>>
    <3>1. r \in [1..1 -> Piece]
      BY <2>2, <2>3
    <3> HIDE DEF r
    <3>2. r \in Seq(Piece) /\ Len(r) = 1
      BY <3>1, FunctionIsSeq
    <3>5. r # <<>>
      <4>1. 1 \in DOMAIN r /\ DOMAIN <<>> = 1..0
        BY <3>1
      <4> QED
        BY <4>1
    <3> QED
      BY <3>2, <3>5
  <2> HIDE DEF r
  <2>5. WellFormed(r[1]) /\ Place(r[1]) = 27 * n + 21 + Turn[c]
    <3>2. Turn[c] \in 2..6
      BY <2>1, Lines14
    <3>3. Place(r[1]) = 27 * n + (21 + Turn[c])
      BY <2>1, <2>3 DEF Place
    <3> QED
      BY <1>1, <2>1, <2>3, <3>2, <3>3 DEF WellFormed
  <2>6. Stretch(r) /\ Finished(r)
    BY <2>1, <2>3, <2>4, <2>5 DEF Stretch, Finished, Full
  <2> QED
    BY <1>3, <2>3, <2>4, <2>5, <2>6 DEF r
<1> QED
  BY <1>2, <1>3

----------------------------------------------------------------------------
(* The inductive invariant *)

Counters ==
  /\ poll \in 0..MaxPolls /\ query \in 0..6 /\ reading \in BOOLEAN
  /\ buffer \in Seq(Piece) /\ success \in BOOLEAN
  /\ trouble \in 0..MaxTrouble /\ calm \in 0..poll
  /\ reading => query # 0
  /\ query # 0 => poll # 0

\* The place of the last line that has been sent, in query q of poll n.
Sent(n, q) == 27 * n + (IF q = 0 THEN 27 ELSE 21 + q)

\* Only the block that a query waits for may still be there with its beginning.
Allowed(x, n, q, r) ==
  /\ Place(x) <= Sent(n, q)
  /\ (x.from = 0 /\ x.line \in Blocks) => r /\ q >= 2 /\ x.line = Script[q] /\ x.poll = n
AllAllowed(s, n, q, r) == \A i \in 1..Len(s) : Allowed(s[i], n, q, r)

StreamInv ==
  /\ Stretch(inbox) /\ Stretch(wire) /\ Meets(inbox, wire)
  /\ Finished(wire) /\ (wire = <<>> => Finished(inbox))
  /\ AllAllowed(inbox, poll, query, reading) /\ AllAllowed(wire, poll, query, reading)

BufferInv ==
  reading => /\ Stretch(buffer) /\ Meets(buffer, inbox) /\ (inbox = <<>> => Meets(buffer, wire))
             /\ AllAllowed(buffer, poll, query, reading)

\* What a poll has got: an overview, and then its own answers.
Result == Piece \cup Overviews

ReadInv ==
  /\ read \in Seq(Result)
  /\ query = 0 => Len(read) <= 5
  /\ query # 0 => /\ Len(read) = IF reading THEN query - 1 ELSE query
                  /\ Len(read) <= 5
                  /\ Len(read) > 0 => IsOverview(read[1])
                  /\ \A i \in 2..Len(read) : read[i].poll = poll /\ read[i].line = Script[i]

DataInv ==
  \/ data = NoData
  \/ /\ data.poll \in 1..poll /\ data.blocks \in Seq(Result) /\ IsOverview(data.overview)
     /\ \A i \in DOMAIN data.blocks :
          i \in 1..5 /\ data.blocks[i].poll = data.poll /\ data.blocks[i].line = Script[i + 1]

IInv == Counters /\ StreamInv /\ BufferInv /\ ReadInv /\ DataInv

\* The lines of an older poll: only of the one before, and only until its overview
\* has been asked for and the first read of the query.
Old(x) == x.poll # poll
AgeInv ==
  /\ \A i \in 1..Len(wire) : ~Old(wire[i])
  /\ \A i \in 1..Len(inbox) : Old(inbox[i]) =>
       reading /\ query = 1 /\ buffer = <<>> /\ i <= 22 /\ inbox[i].poll + 1 = poll
  /\ reading /\ query = 1 => \A i \in 1..Len(buffer) : buffer[i].poll + 1 >= poll
  /\ query # 0 /\ Len(read) > 0 => read[1].parts.temperatures.poll + 1 >= poll
  /\ OverviewLateness

LEMMA KinAllowed ==
  ASSUME NEW s, NEW n, NEW q, NEW r, AllAllowed(s, n, q, r), NEW x, Kin(x, s)
  PROVE  Allowed(x, n, q, r)
<1>1. PICK i \in 1..Len(s) : Same(x, s[i]) /\ (x.from = 0 => s[i].from = 0)
  BY DEF Kin
<1>2. Allowed(s[i], n, q, r)
  BY DEF AllAllowed
<1> QED
  BY <1>1, <1>2 DEF Same, Allowed, Place

LEMMA CutAllowed ==
  ASSUME NEW s, Stretch(s), NEW p \in Places(s), NEW n, NEW q, NEW r, AllAllowed(s, n, q, r)
  PROVE  AllAllowed(Before(s, p), n, q, r) /\ AllAllowed(Behind(s, p), n, q, r)
<1>1. /\ \A i \in 1..Len(Before(s, p)) : Kin(Before(s, p)[i], s)
      /\ \A i \in 1..Len(Behind(s, p)) : Kin(Behind(s, p)[i], s)
  BY CutStretch
<1> QED
  BY <1>1, KinAllowed DEF AllAllowed

LEMMA JoinAllowed ==
  ASSUME NEW s, NEW t, Stretch(s), Stretch(t), Meets(s, t),
         NEW n, NEW q, NEW r, AllAllowed(s, n, q, r), AllAllowed(t, n, q, r)
  PROVE  AllAllowed(Joined(s, t), n, q, r)
<1>1. \A i \in 1..Len(Joined(s, t)) : Kin(Joined(s, t)[i], s) \/ Kin(Joined(s, t)[i], t)
  BY JoinStretch
<1> QED
  BY <1>1, KinAllowed DEF AllAllowed

\* When a query has its answer, or gives up, nothing is left that a block begins with.
LEMMA LaterAllowed ==
  ASSUME NEW s, Stretch(s), NEW n \in Nat, NEW q \in 0..6, NEW r \in BOOLEAN,
         AllAllowed(s, n, q, r),
         \A i \in 1..Len(s) : ~(s[i].from = 0 /\ s[i].line \in Blocks),
         NEW m \in Nat, NEW k \in 0..6, NEW u,
         Sent(n, q) <= Sent(m, k)
  PROVE  AllAllowed(s, m, k, u)
<1> SUFFICES ASSUME NEW i \in 1..Len(s) PROVE Allowed(s[i], m, k, u)
  BY DEF AllAllowed
<1>1. Place(s[i]) \in Nat
  BY Fields DEF Stretch
<1>2. Sent(n, q) \in Nat /\ Sent(m, k) \in Nat
  BY DEF Sent
<1>3. Allowed(s[i], n, q, r) /\ ~(s[i].from = 0 /\ s[i].line \in Blocks)
  BY DEF AllAllowed
<1> QED
  BY <1>1, <1>2, <1>3 DEF Allowed

LEMMA NotReadingNoBlock ==
  ASSUME NEW s, NEW n, NEW q, NEW r, AllAllowed(s, n, q, r), ~(r /\ q >= 2)
  PROVE  \A i \in 1..Len(s) : ~(s[i].from = 0 /\ s[i].line \in Blocks)
BY DEF AllAllowed, Allowed

\* A reply goes on where all that was sent before it ends.
LEMMA MeetsReply ==
  ASSUME NEW s, Stretch(s), Finished(s), NEW t, t # <<>>, t[1].from = 0, t[1].slot = 1,
         NEW m \in Nat, Place(t[1]) \in Nat, m < Place(t[1]),
         \A i \in 1..Len(s) : Place(s[i]) <= m
  PROVE  Meets(s, t) /\ Joined(s, t) = s \o t
<1>1. CASE s = <<>>
  BY <1>1 DEF Meets, Joined
<1>2. CASE s # <<>>
  <2> DEFINE k == Len(s)
  <2>1. k \in Nat /\ k \in 1..k
    BY <1>2 DEF Stretch
  <2> HIDE DEF k
  <2>2. /\ s[k].to = Full /\ (s[k].line \in Blocks \/ s[k].slot = 22)
    BY <1>2 DEF Finished, k
  <2>3. Place(s[k]) \in Nat /\ Place(s[k]) <= m
    BY <2>1, Fields DEF Stretch, k
  <2>4. Place(s[k]) < Place(t[1])
    BY <2>3
  <2> QED
    BY <1>2, <2>2, <2>4 DEF Meets, Joined, Fit, Next1, k
<1> QED
  BY <1>1, <1>2

LEMMA SentBounds ==
  /\ \A n \in Nat, q \in 0..6 : Sent(n, q) \in Nat /\ Sent(n, q) <= Sent(n, 0)
  /\ \A n \in Nat, q \in 1..5 : Sent(n, q) < Sent(n, q + 1)
  /\ \A n \in Nat, q \in 1..6 : Sent(n, q) = 27 * n + (21 + q)
  /\ \A n \in Nat : Sent(n, 0) < 27 * (n + 1) + 1 /\ Sent(n, 0) < Sent(n + 1, 1)
BY DEF Sent

----------------------------------------------------------------------------
(* The steps *)

LEMMA ScriptOf ==
  /\ \A q \in 1..6 : Script[q] \in Blocks \cup {"1800"}
  /\ Script[1] = "1800" /\ Len(Script) = 6
  /\ \A q \in 2..6 : Script[q] \in Blocks /\ Script[q] # "1800" /\ Turn[Script[q]] = q
<1>1. \A q \in 2..6 : Script[q] \in Blocks /\ Turn[Script[q]] = q
  BY Lines14
<1>2. "1800" \notin Blocks
  BY DEF Blocks
<1>3. \A q \in 1..6 : q = 1 \/ q \in 2..6
  OBVIOUS
<1> QED
  BY <1>1, <1>2, <1>3, LineNames

LEMMA QueryFacts ==
  ASSUME IInv, Query
  PROVE  /\ ~reading /\ reading' /\ query \in 0..5 /\ query' = query + 1 /\ query' \in 1..6
         /\ poll \in Nat /\ poll' \in 1..MaxPolls /\ poll' \in Nat
         /\ (query = 0 => poll' = poll + 1 /\ read' = <<>> /\ wire = <<>> /\ calm' = calm + 1)
         /\ (query # 0 => poll' = poll /\ read' = read /\ calm' = calm)
         /\ wire' = wire \o Reply(Script[query'], poll') /\ inbox' = inbox /\ buffer' = <<>>
         /\ Sent(poll, query) < Sent(poll', query')
         /\ UNCHANGED <<inbox, data, success, trouble>>
<1>1. /\ ~reading /\ reading' /\ query' = query + 1 /\ UNCHANGED <<inbox, data, success, trouble>>
      /\ (query = 0 => poll' = poll + 1 /\ read' = <<>> /\ wire = <<>> /\ poll < MaxPolls /\ calm' = calm + 1)
      /\ (query # 0 => poll' = poll /\ read' = read /\ calm' = calm)
      /\ wire' = wire \o Reply(Script[query + 1], poll') /\ buffer' = <<>>
  BY DEF Query
<1>2. poll \in 0..MaxPolls /\ query \in 0..6 /\ poll \in Nat /\ (query # 0 => poll # 0)
  BY BoundAssumption DEF IInv, Counters
<1>3. query \in 0..5
  <2>1. query # 6
    <3>1. query # 0 => Len(read) = query /\ Len(read) <= 5
      BY <1>1 DEF IInv, ReadInv
    <3> QED
      BY <3>1
  <2> QED
    BY <1>2, <2>1
<1>4. poll' \in 1..MaxPolls /\ poll' \in Nat
  BY <1>1, <1>2, BoundAssumption
<1>5. Sent(poll, query) < Sent(poll', query')
  <2>1. CASE query = 0
    <3>1. Sent(poll, 0) < Sent(poll + 1, 1)
      BY <1>2, SentBounds
    <3> QED
      BY <1>1, <1>2, <2>1, <3>1
  <2>2. CASE query # 0
    <3>1. query \in 1..5
      BY <1>3, <2>2
    <3> QED
      BY <1>1, <1>2, <2>2, <3>1, SentBounds
  <2> QED
    BY <2>1, <2>2
<1> QED
  BY <1>1, <1>2, <1>3, <1>4, <1>5

LEMMA QueryStream ==
  ASSUME IInv, Query
  PROVE  StreamInv' /\ BufferInv'
<1> DEFINE c == Script[query']
           r == Reply(c, poll')
           old == Sent(poll, query)
<1>1. /\ ~reading /\ reading' /\ query \in 0..5 /\ query' = query + 1 /\ query' \in 1..6
      /\ poll \in Nat /\ poll' \in 1..MaxPolls /\ poll' \in Nat
      /\ (query = 0 => poll' = poll + 1) /\ (query # 0 => poll' = poll)
      /\ wire' = wire \o r /\ inbox' = inbox /\ buffer' = <<>>
      /\ old < Sent(poll', query')
  BY QueryFacts
<1>2. /\ Stretch(inbox) /\ Stretch(wire) /\ Meets(inbox, wire)
      /\ Finished(wire) /\ (wire = <<>> => Finished(inbox))
      /\ AllAllowed(inbox, poll, query, reading) /\ AllAllowed(wire, poll, query, reading)
  BY DEF IInv, StreamInv
<1>3. c \in Blocks \cup {"1800"} /\ (query' = 1 => c = "1800")
      /\ (query' # 1 => query' \in 2..6 /\ c \in Blocks /\ c # "1800" /\ Turn[c] = query')
  BY <1>1, ScriptOf
<1>4. old \in Nat /\ Sent(poll', query') \in Nat /\ Sent(poll', query') = 27 * poll' + (21 + query')
  <2>1. query \in 0..6 /\ query' \in 0..6
    BY <1>1
  <2> QED
    BY <1>1, <2>1, SentBounds
<1> HIDE DEF c, r, old
<1>5. /\ Stretch(r) /\ Finished(r) /\ r # <<>> /\ r[1].from = 0 /\ r[1].slot = 1
      /\ \A i \in 1..Len(r) :
           /\ r[i].poll = poll' /\ r[i].from = 0
           /\ IF c = "1800" THEN r[i].line \notin Blocks /\ Place(r[i]) = 27 * poll' + i /\ i <= 22
                            ELSE r[i].line = c /\ Place(r[i]) = 27 * poll' + 21 + Turn[c]
  BY <1>1, <1>3, ReplyStretch DEF r
<1>6. 1 \in 1..Len(r) /\ Len(r) \in Nat
  BY <1>5, EmptySeq DEF Stretch
<1>7. Place(r[1]) \in Nat /\ old < Place(r[1])
  <2>1. Place(r[1]) \in Nat
    BY <1>5, <1>6, Fields DEF Stretch
  <2>2. CASE query = 0
    <3>1. Place(r[1]) = 27 * (poll + 1) + 1
      BY <1>1, <1>3, <1>5, <1>6, <2>2
    <3>2. old < 27 * (poll + 1) + 1
      BY <1>1, <2>2, SentBounds DEF old
    <3> QED
      BY <2>1, <3>1, <3>2
  <2>3. CASE query # 0
    <3>1. query' # 1 /\ poll' = poll
      BY <1>1, <2>3
    <3>2. Place(r[1]) = 27 * poll' + 21 + query'
      BY <1>3, <1>5, <1>6, <3>1
    <3>3. Place(r[1]) = Sent(poll', query')
      BY <1>1, <1>4, <3>2
    <3> QED
      BY <1>1, <2>1, <3>3
  <2> QED
    BY <2>2, <2>3
<1>8. AllAllowed(r, poll', query', reading')
  <2> SUFFICES ASSUME NEW i \in 1..Len(r) PROVE Allowed(r[i], poll', query', reading')
    BY DEF AllAllowed
  <2>1. CASE query' = 1
    <3>1. r[i].line \notin Blocks /\ Place(r[i]) = 27 * poll' + i /\ i <= 22
      BY <1>3, <1>5, <2>1
    <3>2. Place(r[i]) <= Sent(poll', query')
      <4>1. Sent(poll', query') = 27 * poll' + 22 /\ poll' \in Nat /\ i \in Nat /\ i <= 22
        BY <1>1, <1>4, <2>1, <3>1
      <4>2. \A a \in Nat, b \in Nat : b <= 22 => 27 * a + b <= 27 * a + 22
        OBVIOUS
      <4>3. 27 * poll' + i <= 27 * poll' + 22
        BY <4>1, <4>2
      <4> QED
        BY <3>1, <4>1, <4>3
    <3> QED
      BY <1>4, <3>1, <3>2 DEF Allowed
  <2>2. CASE query' # 1
    <3>1. r[i].line = c /\ Place(r[i]) = 27 * poll' + 21 + query' /\ r[i].poll = poll' /\ query' >= 2
      BY <1>3, <1>5, <2>2
    <3>2. Place(r[i]) = Sent(poll', query')
      <4>1. 27 * poll' + 21 + query' = Sent(poll', query')
        BY <1>1, <1>4
      <4> QED
        BY <3>1, <4>1
    <3> QED
      BY <1>1, <1>4, <3>1, <3>2 DEF Allowed, c
  <2> QED
    BY <2>1, <2>2
<1>9. /\ AllAllowed(inbox, poll', query', reading') /\ AllAllowed(wire, poll', query', reading')
  <2>1. old <= Sent(poll', query') /\ query \in 0..6 /\ query' \in 0..6 /\ reading \in BOOLEAN
    BY <1>1, <1>4 DEF IInv, Counters
  <2>2. /\ \A i \in 1..Len(inbox) : ~(inbox[i].from = 0 /\ inbox[i].line \in Blocks)
        /\ \A i \in 1..Len(wire) : ~(wire[i].from = 0 /\ wire[i].line \in Blocks)
    BY <1>1, <1>2, NotReadingNoBlock
  <2> QED
    BY <1>1, <1>2, <2>1, <2>2, LaterAllowed DEF old
<1>10. /\ Meets(wire, r) /\ Joined(wire, r) = wire \o r
       /\ (wire = <<>> => Meets(inbox, r))
  <2>1. /\ \A i \in 1..Len(inbox) : Place(inbox[i]) <= old
        /\ \A i \in 1..Len(wire) : Place(wire[i]) <= old
    BY <1>2 DEF AllAllowed, Allowed, old
  <2> QED
    BY <1>2, <1>4, <1>5, <1>7, <2>1, MeetsReply
<1>11. wire' = Joined(wire, r)
  BY <1>1, <1>10
<1>12. /\ Stretch(wire') /\ Meets(inbox, wire') /\ Finished(wire')
       /\ AllAllowed(wire', poll', query', reading')
  BY <1>2, <1>5, <1>8, <1>9, <1>10, <1>11, JoinStretch, JoinAllowed
<1>13. wire' # <<>>
  <2>1. Len(wire') = Len(wire) + Len(r)
    BY <1>1, <1>2, <1>5 DEF Stretch
  <2> QED
    BY <1>2, <1>6, <2>1 DEF Stretch
<1>14. StreamInv'
  BY <1>1, <1>2, <1>9, <1>12, <1>13 DEF StreamInv
<1>15. BufferInv'
  BY <1>1 DEF BufferInv, Stretch, Meets, AllAllowed
<1> QED
  BY <1>14, <1>15

LEMMA ArriveStream ==
  ASSUME IInv, Arrive
  PROVE  StreamInv' /\ BufferInv'
<1>1. PICK p \in Places(wire) :
        /\ Before(wire, p) # <<>>
        /\ inbox' = Joined(inbox, Before(wire, p)) /\ wire' = Behind(wire, p)
  BY DEF Arrive
<1>2. UNCHANGED <<poll, query, reading, buffer>>
  BY DEF Arrive
<1> DEFINE a == Before(wire, p)
           b == Behind(wire, p)
<1>3. /\ Stretch(inbox) /\ Stretch(wire) /\ Meets(inbox, wire) /\ Finished(wire)
      /\ AllAllowed(inbox, poll, query, reading) /\ AllAllowed(wire, poll, query, reading)
  BY DEF IInv, StreamInv
<1>4. /\ Stretch(a) /\ Stretch(b) /\ Meets(a, b) /\ Meets(inbox, a)
      /\ Finished(b) /\ (b = <<>> => Finished(a))
      /\ \A r : Meets(r, wire) => Meets(r, a)
      /\ AllAllowed(a, poll, query, reading) /\ AllAllowed(b, poll, query, reading)
  BY <1>3, CutStretch, CutAllowed
<1> HIDE DEF a, b
<1>5. a # <<>> /\ inbox' = Joined(inbox, a) /\ wire' = b
  BY <1>1 DEF a, b
<1>6. /\ Stretch(inbox') /\ inbox' # <<>> /\ Meets(inbox', b)
      /\ (b = <<>> => Finished(inbox'))
      /\ \A r : Meets(r, inbox) /\ (inbox = <<>> => Meets(r, a)) => Meets(r, inbox')
      /\ AllAllowed(inbox', poll, query, reading)
  BY <1>3, <1>4, <1>5, JoinStretch, JoinAllowed
<1>7. StreamInv'
  BY <1>2, <1>4, <1>5, <1>6 DEF StreamInv
<1>8. BufferInv'
  BY <1>2, <1>4, <1>5, <1>6 DEF IInv, BufferInv
<1> QED
  BY <1>7, <1>8

LEMMA WriteReadsStream ==
  ASSUME IInv, WriteReads
  PROVE  StreamInv' /\ BufferInv'
<1>1. PICK p \in Places(inbox) : inbox' = Behind(inbox, p)
  BY DEF WriteReads
<1>2. ~reading /\ UNCHANGED <<poll, query, reading, wire, buffer>>
  BY DEF WriteReads
<1>3. /\ Stretch(inbox) /\ Stretch(wire) /\ Meets(inbox, wire)
      /\ Finished(wire) /\ (wire = <<>> => Finished(inbox))
      /\ AllAllowed(inbox, poll, query, reading) /\ AllAllowed(wire, poll, query, reading)
  BY DEF IInv, StreamInv
<1>4. /\ Stretch(inbox') /\ Meets(inbox', wire) /\ (wire = <<>> => Finished(inbox'))
      /\ AllAllowed(inbox', poll, query, reading)
  BY <1>1, <1>3, CutStretch, CutAllowed
<1> QED
  BY <1>2, <1>3, <1>4 DEF StreamInv, BufferInv

\* The last line asked for is whole, of the poll, and behind all that has been sent.
LEMMA LastAskedFacts ==
  ASSUME IInv, ~reading, poll > 0
  PROVE  /\ WellFormed(LastAsked) /\ LastAsked.to = Full /\ LastAsked.poll = poll
         /\ LastAsked.line \in Blocks \/ LastAsked.slot = 22
         /\ Place(LastAsked) <= Sent(poll, query)
<1> DEFINE q == IF query = 0 THEN 6 ELSE query
           c == Script[q]
           r == Reply(c, poll)
<1>1. /\ query \in 0..6 /\ poll \in 1..MaxPolls /\ poll \in Nat /\ q \in 1..6
  BY BoundAssumption DEF IInv, Counters
<1>2. LastAsked = r[Len(r)]
  BY ScriptOf DEF LastAsked
<1>3. c \in Blocks \cup {"1800"} /\ (q = 1 => c = "1800")
      /\ (q # 1 => c \in Blocks /\ c # "1800" /\ Turn[c] = q)
  <2>1. q = 1 \/ q \in 2..6
    BY <1>1
  <2> QED BY <1>1, <2>1, ScriptOf
<1>4. Sent(poll, query) = 27 * poll + (21 + q)
  BY <1>1 DEF Sent
<1> HIDE DEF q, c, r
<1>5. /\ Stretch(r) /\ Finished(r) /\ r # <<>>
      /\ \A i \in 1..Len(r) :
           /\ r[i].poll = poll
           /\ IF c = "1800" THEN Place(r[i]) = 27 * poll + i /\ i <= 22
                            ELSE Place(r[i]) = 27 * poll + 21 + Turn[c]
      /\ c = "1800" => Len(r) = 22
  <2>1. /\ Stretch(r) /\ Finished(r) /\ r # <<>>
        /\ \A i \in 1..Len(r) :
             /\ r[i].poll = poll /\ r[i].from = 0
             /\ IF c = "1800" THEN r[i].line \notin Blocks /\ Place(r[i]) = 27 * poll + i /\ i <= 22
                              ELSE r[i].line = c /\ Place(r[i]) = 27 * poll + 21 + Turn[c]
    BY <1>1, <1>3, ReplyStretch DEF r
  <2>2. c = "1800" => Len(r) = 22
    BY <1>1, <1>3, ReplyStretch DEF r
  <2> QED BY <2>1, <2>2
<1>6. Len(r) \in 1..Len(r)
  BY <1>5, EmptySeq DEF Stretch
<1>7. Place(r[Len(r)]) <= Sent(poll, query)
  <2>1. CASE q = 1
    <3>1. Place(r[Len(r)]) = 27 * poll + 22
      BY <1>3, <1>5, <1>6, <2>1
    <3> QED BY <1>1, <1>4, <2>1, <3>1
  <2>2. CASE q # 1
    <3>1. Place(r[Len(r)]) = 27 * poll + 21 + q
      BY <1>3, <1>5, <1>6, <2>2
    <3> QED BY <1>1, <1>4, <3>1
  <2> QED BY <2>1, <2>2
<1> QED
  BY <1>2, <1>5, <1>6, <1>7 DEF Stretch, Finished

\* What a setter's query leaves is the end of a line, alone in the stream.
LEMMA SetterReadsStream ==
  ASSUME IInv, SetterReads
  PROVE  StreamInv' /\ BufferInv'
<1>1. /\ ~reading /\ ~reading' /\ poll > 0 /\ inbox' = <<>>
      /\ UNCHANGED <<poll, query, reading, buffer>>
  BY DEF SetterReads
<1>2. Stretch(<<>>) /\ Finished(<<>>) /\ \A s : Meets(<<>>, s)
  BY DEF Stretch, Meets, Finished
<1>3. \A n, q, r : AllAllowed(<<>>, n, q, r)
  BY DEF AllAllowed
<1>4. CASE wire' = <<>>
  BY <1>1, <1>2, <1>3, <1>4 DEF StreamInv, BufferInv
<1>5. ASSUME NEW m \in {3, 4}, wire' = <<[LastAsked EXCEPT !.from = m]>>
      PROVE  StreamInv' /\ BufferInv'
  <2> DEFINE x == [LastAsked EXCEPT !.from = m]
  <2>1. /\ WellFormed(LastAsked) /\ LastAsked.to = Full /\ LastAsked.poll = poll
        /\ LastAsked.line \in Blocks \/ LastAsked.slot = 22
        /\ Place(LastAsked) <= Sent(poll, query)
    BY <1>1, LastAskedFacts
  <2>2. LastAsked \in Piece
    BY <2>1 DEF WellFormed
  <2>3. /\ x \in Piece /\ x.from = m /\ x.to = Full /\ Same(x, LastAsked)
    BY <2>1, <2>2 DEF Piece, Same
  <2> HIDE DEF x
  <2>4. WellFormed(x) /\ Place(x) = Place(LastAsked)
    BY <2>1, <2>3 DEF WellFormed, Same, Place, Full
  <2>5. wire' = <<x>> /\ Len(<<x>>) = 1 /\ <<x>>[1] = x /\ <<x>> \in Seq(Piece)
    BY <1>5, <2>3 DEF x
  <2>6. Stretch(wire') /\ Finished(wire')
    BY <2>1, <2>3, <2>4, <2>5 DEF Stretch, Finished, Same
  <2>7. AllAllowed(wire', poll, query, reading)
    BY <2>1, <2>3, <2>4, <2>5 DEF AllAllowed, Allowed
  <2>8. wire' # <<>>
    BY <2>5
  <2> QED BY <1>1, <1>2, <1>3, <2>6, <2>7, <2>8 DEF StreamInv, BufferInv
<1> QED BY <1>4, <1>5 DEF SetterReads

LEMMA FailsStream ==
  ASSUME IInv, Fails
  PROVE  StreamInv' /\ BufferInv'
<1>1. wire' = <<>> /\ inbox' = <<>> /\ ~reading'
  BY DEF Fails
<1>2. Stretch(<<>>) /\ Meets(<<>>, <<>>) /\ Finished(<<>>)
  BY DEF Stretch, Meets, Finished
<1>3. \A n, q, r : AllAllowed(<<>>, n, q, r)
  BY DEF AllAllowed
<1> QED
  BY <1>1, <1>2, <1>3 DEF StreamInv, BufferInv

\* What a read hands over, and what it leaves.
LEMMA ChunkFacts ==
  ASSUME IInv, Chunk
  PROVE  /\ reading /\ query \in 1..6 /\ poll \in 1..MaxPolls /\ poll \in Nat
         /\ Stretch(buffer') /\ Stretch(inbox') /\ Meets(buffer', inbox')
         /\ (inbox' = <<>> => Meets(buffer', wire))
         /\ Meets(inbox', wire) /\ (wire = <<>> => Finished(inbox'))
         /\ AllAllowed(buffer', poll, query, reading) /\ AllAllowed(inbox', poll, query, reading)
         /\ UNCHANGED <<poll, wire, trouble, calm>>
<1>1. reading /\ inbox # <<>> /\ UNCHANGED <<poll, wire, trouble, calm>>
  BY DEF Chunk
<1>2. PICK p \in Places(inbox) :
        buffer' = Joined(buffer, Before(inbox, p)) /\ inbox' = Behind(inbox, p)
  <2>1. <<Len(inbox), 0>> \in Places(inbox)
    BY DEF Places
  <2> QED
    BY <2>1 DEF Chunk
<1> DEFINE a == Before(inbox, p)
           b == Behind(inbox, p)
<1>3. /\ Stretch(inbox) /\ Stretch(wire) /\ Meets(inbox, wire)
      /\ (wire = <<>> => Finished(inbox))
      /\ AllAllowed(inbox, poll, query, reading)
      /\ Stretch(buffer) /\ Meets(buffer, inbox) /\ AllAllowed(buffer, poll, query, reading)
  BY <1>1 DEF IInv, StreamInv, BufferInv
<1>4. /\ Stretch(a) /\ Stretch(b) /\ Meets(a, b) /\ Meets(buffer, a)
      /\ (a = <<>> => Meets(buffer, b)) /\ (a # <<>> \/ b # <<>>)
      /\ Meets(b, wire) /\ (b = <<>> => Meets(a, wire))
      /\ (Finished(inbox) => Finished(b))
      /\ AllAllowed(a, poll, query, reading) /\ AllAllowed(b, poll, query, reading)
  BY <1>1, <1>3, CutStretch, CutAllowed
<1> HIDE DEF a, b
<1>5. buffer' = Joined(buffer, a) /\ inbox' = b
  BY <1>2 DEF a, b
<1>6. /\ Stretch(buffer') /\ Meets(buffer', b) /\ AllAllowed(buffer', poll, query, reading)
      /\ \A u : Meets(a, u) /\ (a = <<>> => Meets(buffer, u)) => Meets(buffer', u)
  BY <1>3, <1>4, <1>5, JoinStretch, JoinAllowed
<1>7. inbox' = <<>> => Meets(buffer', wire)
  BY <1>4, <1>5, <1>6
<1>8. query \in 1..6 /\ poll \in 1..MaxPolls /\ poll \in Nat
  <2>1. poll \in 0..MaxPolls /\ query \in 0..6 /\ query # 0 /\ poll # 0
    BY <1>1 DEF IInv, Counters
  <2> QED
    BY <2>1, BoundAssumption
<1> QED
  BY <1>1, <1>3, <1>4, <1>5, <1>6, <1>7, <1>8

\* The answer to a query other than the first is a block of this poll, and all
\* that is left behind it is its own rest.
LEMMA BlockAnswer ==
  ASSUME IInv, Chunk, Complete(Split(buffer'), Asked), query # 1
  PROVE  LET d == Decoded(Split(buffer'), Asked)
         IN  /\ d \in Piece /\ d.poll = poll /\ d.line = Script[query]
             /\ \A i \in 1..Len(inbox') : inbox'[i].from # 0
             /\ \A i \in 1..Len(wire) : wire[i].from # 0
<1> DEFINE d == Decoded(Split(buffer'), Asked)
<1>1. /\ reading /\ query \in 1..6 /\ poll \in 1..MaxPolls /\ poll \in Nat
      /\ Stretch(buffer') /\ Stretch(inbox') /\ Meets(buffer', inbox')
      /\ (inbox' = <<>> => Meets(buffer', wire)) /\ Meets(inbox', wire)
      /\ AllAllowed(buffer', poll, query, reading) /\ AllAllowed(inbox', poll, query, reading)
  BY ChunkFacts
<1>2. Stretch(wire) /\ AllAllowed(wire, poll, query, reading)
  BY DEF IInv, StreamInv
<1>3. PICK i \in 1..Len(buffer') : d = buffer'[i] /\ buffer'[i].from = 0 /\ buffer'[i].line = Asked
  <2>1. PICK k \in 1..Len(Split(buffer')) :
          d = Split(buffer')[k] /\ Split(buffer')[k].from = 0 /\ Split(buffer')[k].line = Asked
    BY <1>1, SplitStretch, DecodedIsOwn
  <2>2. PICK j \in 1..Len(buffer') : Split(buffer')[k] = buffer'[j]
    BY <1>1, SplitStretch
  <2> QED
    BY <2>1, <2>2
<1> HIDE DEF d
<1>4. query \in 2..6 /\ Asked = Script[query] /\ Asked \in Blocks /\ Turn[Asked] = query
  BY <1>1, ScriptOf DEF Asked
<1>5. WellFormed(buffer'[i]) /\ Allowed(buffer'[i], poll, query, reading)
  BY <1>1 DEF Stretch, AllAllowed
<1>6. buffer'[i].poll = poll /\ d \in Piece /\ d.poll = poll /\ d.line = Script[query]
  BY <1>3, <1>4, <1>5 DEF Allowed, WellFormed
<1>7. Place(buffer'[i]) = Sent(poll, query) /\ Sent(poll, query) \in Nat
  <2>1. Place(buffer'[i]) = 27 * poll + 21 + query
    <3>1. /\ buffer'[i].line \in Blocks /\ Turn[buffer'[i].line] = query
          /\ buffer'[i].poll = poll
      BY <1>3, <1>4, <1>6
    <3>2. Place(buffer'[i]) = 27 * buffer'[i].poll + 21 + Turn[buffer'[i].line]
      BY <1>5, <3>1, Fields
    <3> QED
      BY <3>1, <3>2
  <2>2. Sent(poll, query) = 27 * poll + (21 + query)
    BY <1>1, SentBounds
  <2> QED
    BY <1>1, <2>1, <2>2
<1>8. ASSUME NEW j \in 1..Len(inbox') PROVE inbox'[j].from # 0
  <2>1. Place(inbox'[j]) \in Nat /\ Place(inbox'[j]) <= Sent(poll, query)
    BY <1>1, Fields DEF Stretch, AllAllowed, Allowed
  <2>2. inbox'[j].from = 0 => Place(buffer'[i]) < Place(inbox'[j])
    BY <1>1, Across
  <2> QED
    BY <1>7, <2>1, <2>2
<1>9. ASSUME NEW j \in 1..Len(wire) PROVE wire[j].from # 0
  <2>1. Place(wire[j]) \in Nat /\ Place(wire[j]) <= Sent(poll, query)
    BY <1>2, Fields DEF Stretch, AllAllowed, Allowed
  <2>2. CASE inbox' = <<>>
    <3>1. wire[j].from = 0 => Place(buffer'[i]) < Place(wire[j])
      BY <1>1, <1>2, <2>2, Across
    <3> QED
      BY <1>7, <2>1, <3>1
  <2>3. CASE inbox' # <<>>
    <3>1. 1 \in 1..Len(inbox')
      BY <1>1, <2>3, EmptySeq DEF Stretch
    <3>2. Place(inbox'[1]) \in Nat
      BY <1>1, <3>1, Fields DEF Stretch
    <3>3. Place(buffer'[i]) <= Place(inbox'[1])
      BY <1>1, <3>1, Across
    <3>4. wire[j].from = 0 => Place(inbox'[1]) < Place(wire[j])
      BY <1>1, <1>2, <3>1, Across
    <3> QED
      BY <1>7, <2>1, <3>2, <3>3, <3>4
  <2> QED
    BY <2>2, <2>3
<1> QED
  BY <1>6, <1>8, <1>9 DEF d

\* How a read can end.
LEMMA ChunkEnds ==
  ASSUME IInv, Chunk
  PROVE  LET lines == Split(buffer')
         IN  \/ UNCHANGED <<query, reading, read, data, success>>
             \/ /\ Complete(lines, Asked) /\ reading' = FALSE
                /\ IF query = 1 /\ Raises(lines) THEN FailPoll ELSE Take(lines)
<1>1. query \in 1..6
  BY ChunkFacts
<1>2. Asked = "1800" <=> query = 1
  <2>1. query = 1 \/ query \in 2..6
    BY <1>1
  <2> QED
    BY <2>1, ScriptOf DEF Asked
<1> QED
  BY <1>2 DEF Chunk

LEMMA ChunkStream ==
  ASSUME IInv, Chunk
  PROVE  StreamInv' /\ BufferInv'
<1>1. /\ reading /\ query \in 1..6 /\ poll \in Nat /\ poll' = poll /\ wire' = wire
      /\ Stretch(buffer') /\ Stretch(inbox') /\ Meets(buffer', inbox')
      /\ (inbox' = <<>> => Meets(buffer', wire))
      /\ Meets(inbox', wire) /\ (wire = <<>> => Finished(inbox'))
      /\ AllAllowed(buffer', poll, query, reading) /\ AllAllowed(inbox', poll, query, reading)
  BY ChunkFacts
<1>2. Stretch(wire) /\ Finished(wire) /\ AllAllowed(wire, poll, query, reading)
  BY DEF IInv, StreamInv
<1>3. CASE UNCHANGED <<query, reading, read, data, success>>
  BY <1>1, <1>2, <1>3 DEF StreamInv, BufferInv
<1>4. CASE /\ Complete(Split(buffer'), Asked) /\ reading' = FALSE
           /\ IF query = 1 /\ Raises(Split(buffer')) THEN FailPoll ELSE Take(Split(buffer'))
  <2>1. query' \in {0, query}
    BY <1>4 DEF FailPoll, Take
  <2>2. /\ \A i \in 1..Len(inbox') : ~(inbox'[i].from = 0 /\ inbox'[i].line \in Blocks)
        /\ \A i \in 1..Len(wire) : ~(wire[i].from = 0 /\ wire[i].line \in Blocks)
    <3>1. CASE query = 1
      <4>1. ~(reading /\ query >= 2)
        BY <3>1
      <4> QED
        BY <1>1, <1>2, <4>1, NotReadingNoBlock
    <3>2. CASE query # 1
      BY <1>4, <3>2, BlockAnswer
    <3> QED
      BY <3>1, <3>2
  <2>3. query \in 0..6 /\ query' \in 0..6 /\ reading \in BOOLEAN
    BY <1>1, <2>1
  <2>4. Sent(poll, query) <= Sent(poll, query')
    <3>1. Sent(poll, query) \in Nat /\ Sent(poll, query) <= Sent(poll, 0)
      BY <1>1, <2>3, SentBounds
    <3> QED
      BY <2>1, <3>1
  <2>5. AllAllowed(inbox', poll, query', reading') /\ AllAllowed(wire, poll, query', reading')
    BY <1>1, <1>2, <2>2, <2>3, <2>4, LaterAllowed
  <2> QED
    BY <1>1, <1>2, <1>4, <2>5 DEF StreamInv, BufferInv
<1> QED
  BY <1>3, <1>4, ChunkEnds

LEMMA GotResult ==
  ASSUME IInv, Chunk, Complete(Split(buffer'), Asked), ~(query = 1 /\ Raises(Split(buffer')))
  PROVE  LET v == Got(Split(buffer'))
         IN  /\ v \in Result
             /\ query = 1 => IsOverview(v)
             /\ query # 1 => v.poll = poll /\ v.line = Script[query]
<1> DEFINE lines == Split(buffer')
<1>1. query \in 1..6 /\ Stretch(lines)
  BY ChunkFacts, SplitStretch
<1>2. CASE query = 1
  <2>1. Asked = "1800"
    BY <1>2, ScriptOf DEF Asked
  <2>2. Got(lines) = FromLines(lines)
    BY <2>1 DEF Got
  <2> HIDE DEF lines
  <2>3. IsOverview(FromLines(lines))
    BY <1>1, <1>2, OneReply DEF lines
  <2> QED
    BY <1>2, <2>2, <2>3 DEF IsOverview, Result, lines
<1>3. CASE query # 1
  <2>1. query \in 2..6
    BY <1>1, <1>3
  <2>2. Asked # "1800"
    BY <2>1, ScriptOf DEF Asked
  <2>3. Got(lines) = Decoded(lines, Asked)
    BY <2>2 DEF Got
  <2> QED
    BY <1>3, <2>3, BlockAnswer DEF Result
<1> QED
  BY <1>2, <1>3

\* The end of a query that has its reply.
LEMMA TakeReads ==
  ASSUME IInv, Chunk, Complete(Split(buffer'), Asked), ~(query = 1 /\ Raises(Split(buffer'))),
         reading' = FALSE, Take(Split(buffer'))
  PROVE  ReadInv' /\ DataInv' /\ query' \in {0, query} /\ success' \in BOOLEAN
<1> DEFINE v == Got(Split(buffer'))
           all == Append(read, v)
<1>1. reading /\ query \in 1..6 /\ poll \in 1..MaxPolls /\ poll \in Nat /\ poll' = poll
  BY ChunkFacts
<1>2. /\ v \in Result /\ (query = 1 => IsOverview(v))
      /\ (query # 1 => v.poll = poll /\ v.line = Script[query])
  BY GotResult
<1>3. /\ read \in Seq(Result) /\ Len(read) = query - 1
      /\ Len(read) > 0 => IsOverview(read[1])
      /\ \A i \in 2..Len(read) : read[i].poll = poll /\ read[i].line = Script[i]
  BY <1>1 DEF IInv, ReadInv
<1>4. IF query = 6
      THEN /\ data' = [poll |-> poll, overview |-> all[1], blocks |-> Tail(all)]
           /\ success' = TRUE /\ query' = 0 /\ read' = <<>>
      ELSE read' = all /\ UNCHANGED <<query, data, success>>
  BY ScriptOf DEF Take
<1> HIDE DEF v
<1>5. /\ all \in Seq(Result) /\ Len(all) = query
      /\ \A i \in 1..(query - 1) : all[i] = read[i]
      /\ all[query] = v
  <2> DEFINE n == Len(read)
  <2>1. n \in Nat /\ n = query - 1 /\ n + 1 = query
    BY <1>1, <1>3
  <2>2. all \in Seq(Result) /\ Len(all) = n + 1 /\ all[n + 1] = v /\ \A i \in 1..n : all[i] = read[i]
    BY <1>2, <1>3
  <2> HIDE DEF n, all
  <2> QED
    BY <2>1, <2>2
<1> HIDE DEF all
<1>6. IsOverview(all[1])
  <2>1. CASE query = 1
    BY <1>2, <1>5, <2>1
  <2>2. CASE query # 1
    <3>1. 1 \in 1..(query - 1) /\ Len(read) > 0
      BY <1>1, <1>3, <2>2
    <3> QED
      BY <1>3, <1>5, <3>1
  <2> QED
    BY <2>1, <2>2
<1>7. \A i \in 2..query : all[i].poll = poll /\ all[i].line = Script[i]
  <2> TAKE i \in 2..query
  <2>1. CASE i = query
    <3>1. query # 1
      BY <2>1
    <3> QED
      BY <1>2, <1>5, <2>1, <3>1
  <2>2. CASE i # query
    <3>1. i \in 1..(query - 1) /\ i \in 2..Len(read)
      BY <1>1, <1>3, <2>2
    <3> QED
      BY <1>3, <1>5, <3>1
  <2> QED
    BY <2>1, <2>2
<1>8. CASE query # 6
  <2>1. query \in 1..5 /\ query' = query /\ read' = all /\ data' = data /\ success' = success
    BY <1>1, <1>4, <1>8
  <2>2. ReadInv'
    <3>1. read' \in Seq(Result) /\ Len(read') = query' /\ query' # 0 /\ Len(read') <= 5
      BY <1>5, <2>1
    <3>2. IsOverview(read'[1])
      BY <1>6, <2>1
    <3>3. \A i \in 2..Len(read') : read'[i].poll = poll' /\ read'[i].line = Script[i]
      BY <1>1, <1>7, <2>1, <3>1
    <3> QED
      BY <3>1, <3>2, <3>3 DEF ReadInv
  <2>3. DataInv' /\ success' \in BOOLEAN
    BY <1>1, <2>1 DEF IInv, DataInv, Counters
  <2> QED
    BY <2>1, <2>2, <2>3
<1>9. CASE query = 6
  <2>1. /\ data' = [poll |-> poll, overview |-> all[1], blocks |-> Tail(all)]
        /\ success' = TRUE /\ query' = 0 /\ read' = <<>>
    BY <1>4, <1>9
  <2>2. ReadInv'
    BY <2>1 DEF ReadInv
  <2>3. /\ Tail(all) \in Seq(Result) /\ DOMAIN Tail(all) = 1..5
        /\ \A i \in 1..5 : Tail(all)[i] = all[i + 1]
    <3>1. all # <<>>
      <4>1. Len(all) = 6
        BY <1>5, <1>9
      <4> QED
        BY <4>1, EmptySeq
    <3>2. Tail(all) \in Seq(Result) /\ Len(Tail(all)) = Len(all) - 1
          /\ \A i \in 1..Len(Tail(all)) : Tail(all)[i] = all[i + 1]
      BY <1>5, <3>1, HeadTailProperties
    <3>3. Len(Tail(all)) = 5
      BY <1>5, <1>9, <3>2
    <3>4. DOMAIN Tail(all) = 1..5
      BY <3>2, <3>3, LenProperties
    <3> QED
      BY <3>2, <3>3, <3>4
  <2>4. \A i \in 1..5 : Tail(all)[i].poll = poll /\ Tail(all)[i].line = Script[i + 1]
    <3> TAKE i \in 1..5
    <3>1. i + 1 \in 2..query
      BY <1>9
    <3> QED
      BY <1>7, <2>3, <3>1
  <2>5. data'.poll = poll /\ data'.overview = all[1] /\ data'.blocks = Tail(all)
    BY <2>1
  <2>6. poll \in 1..poll'
    BY <1>1
  <2>7. DataInv'
    BY <1>6, <2>3, <2>4, <2>5, <2>6 DEF DataInv
  <2> QED
    BY <2>1, <2>2, <2>7
<1> QED
  BY <1>8, <1>9

LEMMA FailReads ==
  ASSUME IInv, reading, FailPoll, poll' = poll
  PROVE  ReadInv' /\ DataInv' /\ query' = 0 /\ success' \in BOOLEAN
<1>1. query' = 0 /\ success' = FALSE /\ UNCHANGED <<read, data>>
  BY DEF FailPoll
<1>2. read \in Seq(Result) /\ Len(read) <= 5
  BY DEF IInv, Counters, ReadInv
<1> QED
  BY <1>1, <1>2 DEF IInv, ReadInv, DataInv

LEMMA IInvStep == IInv /\ [Next]_vars => IInv'
<1> SUFFICES ASSUME IInv, [Next]_vars PROVE IInv'
  OBVIOUS
<1> USE BoundAssumption
<1>0. /\ poll \in 0..MaxPolls /\ query \in 0..6 /\ reading \in BOOLEAN
      /\ buffer \in Seq(Piece) /\ success \in BOOLEAN
      /\ trouble \in 0..MaxTrouble /\ calm \in 0..poll
      /\ (reading => query # 0) /\ (query # 0 => poll # 0)
  BY DEF IInv, Counters
<1>1. CASE Query
  <2>1. /\ ~reading /\ reading' /\ query \in 0..5 /\ query' = query + 1 /\ query' \in 1..6
        /\ poll \in Nat /\ poll' \in 1..MaxPolls /\ poll' \in Nat
        /\ (query = 0 => poll' = poll + 1 /\ read' = <<>> /\ calm' = calm + 1)
        /\ (query # 0 => poll' = poll /\ read' = read /\ calm' = calm)
        /\ buffer' = <<>> /\ UNCHANGED <<inbox, data, success, trouble>>
    BY <1>1, QueryFacts
  <2>2. Counters'
    <3>1. calm' \in 0..poll'
      BY <1>0, <2>1
    <3>2. reading' \in BOOLEAN
      BY <1>1 DEF Query
    <3>3. poll' \in 0..MaxPolls /\ query' \in 0..6 /\ query' # 0 /\ poll' # 0
      BY <2>1
    <3>4. buffer' \in Seq(Piece)
      BY <2>1
    <3> QED
      BY <1>0, <2>1, <3>1, <3>2, <3>3, <3>4 DEF Counters
  <2>3. ReadInv'
    <3>1. CASE query = 0
      <4>1. read' = <<>> /\ query' = 1 /\ reading'
        BY <2>1, <3>1
      <4> QED
        BY <4>1 DEF ReadInv
    <3>2. CASE query # 0
      <4>1. /\ read \in Seq(Result) /\ Len(read) = query /\ Len(read) <= 5
            /\ Len(read) > 0 => IsOverview(read[1])
            /\ \A i \in 2..Len(read) : read[i].poll = poll /\ read[i].line = Script[i]
        BY <2>1, <3>2 DEF IInv, ReadInv
      <4>2. query = query' - 1
        BY <2>1
      <4>3. reading' /\ query' # 0 /\ read' = read /\ poll' = poll
        BY <2>1, <3>2
      <4> QED
        BY <4>1, <4>2, <4>3 DEF ReadInv
    <3> QED
      BY <3>1, <3>2
  <2>4. DataInv'
    <3>1. 1..poll \subseteq 1..poll'
      BY <2>1
    <3> QED
      BY <2>1, <3>1 DEF IInv, DataInv
  <2> QED
    BY <1>1, <2>2, <2>3, <2>4, QueryStream DEF IInv
<1>2. CASE Chunk
  <2>1. /\ reading /\ Stretch(buffer') /\ UNCHANGED <<poll, wire, trouble, calm>>
    BY <1>2, ChunkFacts
  <2>2. buffer' \in Seq(Piece)
    BY <2>1 DEF Stretch
  <2>3. CASE UNCHANGED <<query, reading, read, data, success>>
    <3>1. Counters'
      BY <1>0, <2>1, <2>2, <2>3 DEF Counters
    <3>2. ReadInv' /\ DataInv'
      BY <2>1, <2>3 DEF IInv, ReadInv, DataInv
    <3> QED
      BY <1>2, <3>1, <3>2, ChunkStream DEF IInv
  <2>4. CASE /\ Complete(Split(buffer'), Asked) /\ reading' = FALSE
             /\ IF query = 1 /\ Raises(Split(buffer')) THEN FailPoll ELSE Take(Split(buffer'))
    <3>1. ReadInv' /\ DataInv' /\ query' \in {0, query} /\ success' \in BOOLEAN
      <4>1. CASE query = 1 /\ Raises(Split(buffer'))
        BY <2>1, <2>4, <4>1, FailReads
      <4>2. CASE ~(query = 1 /\ Raises(Split(buffer')))
        BY <1>2, <2>4, <4>2, TakeReads
      <4> QED
        BY <4>1, <4>2
    <3>2. Counters'
      <4>1. query' \in 0..6 /\ (query' # 0 => poll' # 0) /\ calm' \in 0..poll'
            /\ poll' \in 0..MaxPolls /\ trouble' \in 0..MaxTrouble
        BY <1>0, <2>1, <3>1
      <4>2. reading' \in BOOLEAN /\ ~reading'
        BY <2>4
      <4> QED
        BY <2>2, <3>1, <4>1, <4>2 DEF Counters
    <3> QED
      BY <1>2, <3>1, <3>2, ChunkStream DEF IInv
  <2> QED
    BY <1>2, <2>3, <2>4, ChunkEnds
<1>3. CASE Fails
  <2>1. /\ reading /\ reading' = FALSE /\ FailPoll /\ UNCHANGED <<poll, buffer>>
        /\ trouble < MaxTrouble /\ trouble' = trouble + 1 /\ calm' = 0
    BY <1>3 DEF Fails, Disturb
  <2>2. ReadInv' /\ DataInv' /\ query' = 0 /\ success' \in BOOLEAN
    BY <2>1, FailReads
  <2>3. trouble' \in 0..MaxTrouble /\ calm' \in 0..poll'
    BY <1>0, <2>1
  <2>4. Counters'
    <3>1. query' \in 0..6 /\ query' = 0 /\ poll' \in 0..MaxPolls /\ buffer' \in Seq(Piece)
      BY <1>0, <2>1, <2>2
    <3>2. reading' \in BOOLEAN /\ ~reading'
      BY <2>1
    <3> QED
      BY <2>2, <2>3, <3>1, <3>2 DEF Counters
  <2> QED
    BY <1>3, <2>2, <2>4, FailsStream DEF IInv
<1>4. CASE WriteReads \/ SetterReads
  <2>1. /\ UNCHANGED <<poll, query, reading, buffer, read, data, success>>
        /\ trouble < MaxTrouble /\ trouble' = trouble + 1 /\ calm' = 0
    BY <1>4 DEF WriteReads, SetterReads, Disturb
  <2>2. trouble' \in 0..MaxTrouble /\ calm' \in 0..poll'
    BY <1>0, <2>1
  <2>3. Counters' /\ ReadInv' /\ DataInv'
    BY <1>0, <2>1, <2>2 DEF Counters, IInv, ReadInv, DataInv
  <2> QED
    BY <1>4, <2>3, WriteReadsStream, SetterReadsStream DEF IInv
<1>5. CASE Arrive
  <2>1. /\ UNCHANGED <<poll, query, reading, buffer, read, data, success>>
        /\ \/ UNCHANGED <<trouble, calm>>
           \/ trouble < MaxTrouble /\ trouble' = trouble + 1 /\ calm' = 0
    BY <1>5 DEF Arrive, Disturb
  <2>2. trouble' \in 0..MaxTrouble /\ calm' \in 0..poll'
    BY <1>0, <2>1
  <2>3. Counters' /\ ReadInv' /\ DataInv'
    BY <1>0, <2>1, <2>2 DEF Counters, IInv, ReadInv, DataInv
  <2> QED
    BY <1>5, <2>3, ArriveStream DEF IInv
<1>6. CASE UNCHANGED vars
  <2>1. UNCHANGED <<poll, query, reading, wire, inbox, buffer, read, data, success, trouble, calm>>
    BY <1>6 DEF vars
  <2>2. Counters' /\ ReadInv' /\ DataInv' /\ StreamInv' /\ BufferInv'
    BY <2>1 DEF IInv, Counters, ReadInv, DataInv, StreamInv, BufferInv
  <2> QED
    BY <2>2 DEF IInv
<1> QED
  BY <1>1, <1>2, <1>3, <1>4, <1>5, <1>6 DEF Next

LEMMA InitIInv == Init => IInv
<1> SUFFICES ASSUME Init PROVE IInv
  OBVIOUS
<1> USE BoundAssumption DEF Init
<1>1. Counters
  <2>1. /\ poll \in 0..MaxPolls /\ query \in 0..6 /\ buffer \in Seq(Piece)
        /\ trouble \in 0..MaxTrouble /\ calm \in 0..poll /\ query = 0
    OBVIOUS
  <2>2. reading \in BOOLEAN /\ success \in BOOLEAN /\ ~reading
    OBVIOUS
  <2> QED
    BY <2>1, <2>2 DEF Counters
<1>3. ReadInv /\ DataInv /\ BufferInv
  BY DEF ReadInv, DataInv, BufferInv
<1>2. StreamInv
  BY DEF StreamInv, Stretch, Meets, Finished, AllAllowed
<1> QED
  BY <1>1, <1>2, <1>3 DEF IInv

LEMMA Inductive == Spec => []IInv
BY InitIInv, IInvStep, PTL DEF Spec

----------------------------------------------------------------------------
(* How old an overview can be *)

LEMMA QueryAge ==
  ASSUME IInv, AgeInv, Query
  PROVE  AgeInv'
<1>1. /\ ~reading /\ reading' /\ query \in 0..5 /\ query' = query + 1
      /\ poll \in Nat /\ poll' \in 1..MaxPolls /\ poll' \in Nat /\ query' \in 1..6
      /\ (query = 0 => poll' = poll + 1 /\ read' = <<>> /\ wire = <<>>)
      /\ (query # 0 => poll' = poll /\ read' = read)
      /\ wire' = wire \o Reply(Script[query'], poll') /\ buffer' = <<>>
      /\ inbox' = inbox /\ data' = data
  BY QueryFacts
<1> DEFINE r == Reply(Script[query'], poll')
<1>2. r \in Seq(Piece) /\ \A i \in 1..Len(r) : r[i].poll = poll'
  <2>1. Script[query'] \in Blocks \cup {"1800"}
    BY <1>1, ScriptOf
  <2>2. Stretch(r) /\ \A i \in 1..Len(r) : r[i].poll = poll'
    BY <1>1, <2>1, ReplyStretch, ZenonT(40)
  <2> QED
    BY <2>2 DEF Stretch
<1> HIDE DEF r
<1>3. /\ Stretch(inbox) /\ inbox \in Seq(Piece) /\ wire \in Seq(Piece)
      /\ AllAllowed(inbox, poll, query, reading)
  BY DEF IInv, StreamInv, Stretch
<1>4. /\ \A i \in 1..Len(inbox) : inbox[i].poll = poll
      /\ \A i \in 1..Len(wire) : wire[i].poll = poll
  BY <1>1 DEF AgeInv, Old
<1>5. \A i \in 1..Len(wire') : wire'[i].poll = poll'
  <2>1. wire' = wire \o r
    BY <1>1 DEF r
  <2>2. /\ Len(wire') = Len(wire) + Len(r)
        /\ \A i \in 1..(Len(wire) + Len(r)) : wire'[i] = IF i <= Len(wire) THEN wire[i] ELSE r[i - Len(wire)]
    BY <1>2, <1>3, <2>1, ConcatProperties
  <2> TAKE i \in 1..Len(wire')
  <2>3. CASE i <= Len(wire)
    <3>1. wire'[i] = wire[i] /\ i \in 1..Len(wire)
      BY <1>3, <2>2, <2>3
    <3>2. query # 0
      <4>1. Len(wire) # 0
        BY <1>3, <3>1
      <4> QED
        BY <1>1, <4>1
    <3> QED
      BY <1>1, <1>4, <3>1, <3>2
  <2>4. CASE ~(i <= Len(wire))
    <3> DEFINE m == Len(wire)
               k == Len(r)
    <3>1. m \in Nat /\ k \in Nat /\ i \in 1..(m + k) /\ ~(i <= m)
      BY <1>2, <1>3, <2>2, <2>4
    <3>2. wire'[i] = r[i - m]
      BY <2>2, <2>4, <3>1
    <3> HIDE DEF m, k
    <3>3. i - m \in 1..k
      BY <3>1
    <3> QED
      BY <1>2, <3>2, <3>3 DEF k
  <2> QED
    BY <2>3, <2>4
<1>6. \A i \in 1..Len(inbox') : inbox'[i].poll # poll' =>
        reading' /\ query' = 1 /\ buffer' = <<>> /\ i <= 22 /\ inbox'[i].poll + 1 = poll'
  <2>1. CASE query = 0
    <3>1. \A i \in 1..Len(inbox) : ~(inbox[i].from = 0 /\ inbox[i].line \in Blocks)
      BY <1>1, <1>3, NotReadingNoBlock
    <3>2. Len(inbox) <= 22
      BY <1>3, <1>4, <3>1, LeftShort
    <3>3. \A i \in 1..Len(inbox) : i <= 22
      BY <1>3, <3>2
    <3> QED
      BY <1>1, <1>4, <2>1, <3>3
  <2>2. CASE query # 0
    BY <1>1, <1>4, <2>2
  <2> QED
    BY <2>1, <2>2
<1>7. query' # 0 /\ Len(read') > 0 => read'[1].parts.temperatures.poll + 1 >= poll'
  <2>1. CASE query = 0
    BY <1>1, <2>1
  <2>2. CASE query # 0
    BY <1>1, <2>2 DEF AgeInv
  <2> QED
    BY <2>1, <2>2
<1>8. \A i \in 1..Len(buffer') : buffer'[i].poll + 1 >= poll'
  BY <1>1
<1>9. OverviewLateness'
  BY <1>1 DEF AgeInv, OverviewLateness
<1> QED
  BY <1>5, <1>6, <1>7, <1>8, <1>9 DEF AgeInv, Old

LEMMA ArriveAge ==
  ASSUME IInv, AgeInv, Arrive
  PROVE  AgeInv'
<1>1. PICK p \in Places(wire) :
        inbox' = Joined(inbox, Before(wire, p)) /\ wire' = Behind(wire, p)
  BY DEF Arrive
<1>2. UNCHANGED <<poll, query, reading, buffer, read, data>>
  BY DEF Arrive
<1> DEFINE a == Before(wire, p)
           b == Behind(wire, p)
<1>3. Stretch(inbox) /\ Stretch(wire) /\ Meets(inbox, wire)
  BY DEF IInv, StreamInv
<1>4. /\ Stretch(a) /\ Meets(inbox, a)
      /\ \A i \in 1..Len(a) : Kin(a[i], wire)
      /\ \A i \in 1..Len(b) : Kin(b[i], wire)
  BY <1>3, CutStretch
<1> HIDE DEF a, b
<1>5. inbox' = Joined(inbox, a) /\ wire' = b
  BY <1>1 DEF a, b
<1>6. /\ \A i \in 1..Len(a) : a[i].poll = poll
      /\ \A i \in 1..Len(b) : b[i].poll = poll
  BY <1>4 DEF Kin, Same, AgeInv, Old
<1>7. /\ \A i \in 1..Len(inbox) : Same(inbox'[i], inbox[i])
      /\ \A i \in 1..Len(inbox') : i <= Len(inbox) \/ \E j \in 1..Len(a) : Same(inbox'[i], a[j])
  BY <1>3, <1>4, <1>5, JoinStretch
<1>8. ASSUME NEW i \in 1..Len(inbox'), inbox'[i].poll # poll
      PROVE  reading /\ query = 1 /\ buffer = <<>> /\ i <= 22 /\ inbox'[i].poll + 1 = poll
  <2>1. ~\E j \in 1..Len(a) : Same(inbox'[i], a[j])
    BY <1>6, <1>8 DEF Same
  <2>2. i \in 1..Len(inbox)
    BY <1>3, <1>7, <2>1 DEF Stretch
  <2>3. inbox'[i].poll = inbox[i].poll
    BY <1>7, <2>2 DEF Same
  <2> QED
    BY <1>8, <2>2, <2>3 DEF AgeInv, Old
<1> QED
  BY <1>2, <1>5, <1>6, <1>8 DEF AgeInv, Old, OverviewLateness

LEMMA WriteReadsAge ==
  ASSUME IInv, AgeInv, WriteReads
  PROVE  AgeInv'
<1>1. PICK p \in Places(inbox) : inbox' = Behind(inbox, p)
  BY DEF WriteReads
<1>2. ~reading /\ UNCHANGED <<poll, query, reading, wire, buffer, read, data>>
  BY DEF WriteReads
<1>3. \A i \in 1..Len(inbox') : Kin(inbox'[i], inbox)
  BY <1>1, CutStretch DEF IInv, StreamInv
<1>4. \A i \in 1..Len(inbox') : inbox'[i].poll = poll
  BY <1>2, <1>3 DEF Kin, Same, AgeInv, Old
<1> QED
  BY <1>2, <1>4 DEF AgeInv, Old, OverviewLateness

LEMMA SetterReadsAge ==
  ASSUME IInv, AgeInv, SetterReads
  PROVE  AgeInv'
<1>1. /\ ~reading /\ poll > 0 /\ inbox' = <<>>
      /\ UNCHANGED <<poll, query, reading, buffer, read, data>>
  BY DEF SetterReads
<1>2. ASSUME NEW m \in {3, 4}, wire' = <<[LastAsked EXCEPT !.from = m]>>
      PROVE  \A i \in 1..Len(wire') : wire'[i].poll = poll
  <2>1. LastAsked \in Piece /\ LastAsked.poll = poll
    BY <1>1, LastAskedFacts DEF WellFormed
  <2> DEFINE x == [LastAsked EXCEPT !.from = m]
  <2>2. x.poll = poll /\ wire' = <<x>>
    BY <1>2, <2>1 DEF Piece
  <2> HIDE DEF x
  <2> QED BY <2>2
<1>3. \A i \in 1..Len(wire') : wire'[i].poll = poll
  BY <1>2 DEF SetterReads
<1> QED
  BY <1>1, <1>3 DEF AgeInv, Old, OverviewLateness

LEMMA FailsAge ==
  ASSUME AgeInv, Fails
  PROVE  AgeInv'
<1>1. wire' = <<>> /\ inbox' = <<>> /\ reading' = FALSE /\ query' = 0 /\ data' = data
  BY DEF Fails, FailPoll
<1> QED
  BY <1>1 DEF AgeInv, OverviewLateness

\* A read is longer than what can be left of an overview.
LEMMA ChunkAges ==
  ASSUME ReadLines >= 22, IInv, AgeInv, Chunk
  PROVE  /\ \A i \in 1..Len(inbox') : inbox'[i].poll = poll
         /\ query = 1 => \A i \in 1..Len(buffer') : buffer'[i].poll + 1 >= poll
<1>1. PICK p \in Places(inbox) :
        /\ p[1] = Len(inbox) \/ p[1] >= ReadLines
        /\ buffer' = Joined(buffer, Before(inbox, p)) /\ inbox' = Behind(inbox, p)
  <2>1. <<Len(inbox), 0>> \in Places(inbox)
    BY DEF Places
  <2> QED
    BY <2>1 DEF Chunk
<1>2. reading
  BY DEF Chunk
<1> DEFINE a == Before(inbox, p)
           b == Behind(inbox, p)
           n == p[1]
<1>3. /\ Stretch(inbox) /\ Stretch(buffer) /\ Meets(buffer, inbox)
      /\ poll \in Nat /\ inbox \in Seq(Piece)
  BY <1>2, BoundAssumption DEF IInv, StreamInv, BufferInv, Counters, Stretch
<1>4. /\ n \in 0..Len(inbox) /\ Len(b) = Len(inbox) - n
      /\ \A j \in 2..Len(b) : b[j] = inbox[n + j]
      /\ n < Len(inbox) => b[1] = [inbox[n + 1] EXCEPT !.from = p[2]]
  BY <1>3, Sides, ZenonT(40)
<1>5. /\ Stretch(a) /\ Meets(buffer, a)
      /\ \A i \in 1..Len(a) : Kin(a[i], inbox)
  BY <1>3, CutStretch
<1> HIDE DEF a, b, n
<1>6. buffer' = Joined(buffer, a) /\ inbox' = b /\ (n = Len(inbox) \/ n >= ReadLines)
  BY <1>1 DEF a, b, n
<1>7. \A i \in 1..Len(inbox) : inbox[i].poll # poll => i <= 22 /\ query = 1 /\ inbox[i].poll + 1 = poll
  BY DEF AgeInv, Old
<1>8. ASSUME NEW j \in 1..Len(b) PROVE b[j].poll = poll
  <2> DEFINE k == Len(inbox)
  <2>1. k \in Nat /\ n \in 0..k /\ Len(b) = k - n /\ (n = k \/ n >= ReadLines)
    BY <1>3, <1>4, <1>6
  <2> HIDE DEF k
  <2>2. n >= ReadLines /\ n \in Nat /\ n < k /\ n + j \in 1..k
    BY <2>1
  <2>3. n >= 22
    BY <2>2, ReadAssumption
  <2>4. n + j > 22
    BY <2>2, <2>3
  <2>5. inbox[n + j].poll = poll
    BY <1>7, <2>2, <2>4 DEF k
  <2>6. CASE j = 1
    <3>1. inbox[n + 1] \in Piece
      BY <1>3, <2>2, <2>6 DEF k
    <3>2. b[1] = [inbox[n + 1] EXCEPT !.from = p[2]]
      BY <1>4, <2>2 DEF k
    <3> QED
      BY <2>5, <2>6, <3>1, <3>2 DEF Piece
  <2>7. CASE j # 1
    <3>1. j \in 2..Len(b)
      BY <2>1, <2>7
    <3> QED
      BY <1>4, <2>5, <3>1
  <2> QED
    BY <2>6, <2>7
<1>9. ASSUME query = 1, NEW i \in 1..Len(buffer') PROVE buffer'[i].poll + 1 >= poll
  <2>1. \A j \in 1..Len(inbox) : inbox[j].poll + 1 >= poll
    <3> TAKE j \in 1..Len(inbox)
    <3>1. CASE inbox[j].poll = poll
      BY <1>3, <3>1
    <3>2. CASE inbox[j].poll # poll
      BY <1>3, <1>7, <3>2
    <3> QED
      BY <3>1, <3>2
  <2>2. \A j \in 1..Len(buffer) : buffer[j].poll + 1 >= poll
    BY <1>2, <1>9 DEF AgeInv
  <2>3. \A x : Kin(x, inbox) => x.poll + 1 >= poll
    BY <2>1 DEF Kin, Same
  <2>4. \A x : Kin(x, a) => x.poll + 1 >= poll
    BY <1>5, <2>3 DEF Kin, Same
  <2>5. \A x : Kin(x, buffer) => x.poll + 1 >= poll
    BY <2>2 DEF Kin, Same
  <2>6. Kin(buffer'[i], buffer) \/ Kin(buffer'[i], a)
    BY <1>3, <1>5, <1>6, JoinStretch
  <2> QED
    BY <2>4, <2>5, <2>6
<1> QED
  BY <1>6, <1>8, <1>9

LEMMA ChunkAge ==
  ASSUME ReadLines >= 22, IInv, AgeInv, Chunk
  PROVE  AgeInv'
<1>1. /\ \A i \in 1..Len(inbox') : inbox'[i].poll = poll
      /\ query = 1 => \A i \in 1..Len(buffer') : buffer'[i].poll + 1 >= poll
  BY ChunkAges
<1>2. /\ reading /\ query \in 1..6 /\ poll \in Nat /\ Stretch(buffer') /\ UNCHANGED <<poll, wire>>
  BY ChunkFacts
<1>3. \A i \in 1..Len(wire) : wire[i].poll = poll
  BY DEF AgeInv, Old
<1>4. SUFFICES /\ reading' /\ query' = 1 => \A i \in 1..Len(buffer') : buffer'[i].poll + 1 >= poll
               /\ query' # 0 /\ Len(read') > 0 => read'[1].parts.temperatures.poll + 1 >= poll
               /\ OverviewLateness'
  BY <1>1, <1>2, <1>3 DEF AgeInv, Old
<1>5. CASE UNCHANGED <<query, reading, read, data, success>>
  BY <1>1, <1>2, <1>5 DEF AgeInv, OverviewLateness
<1>6. CASE query = 1 /\ reading' = FALSE /\ FailPoll
  BY <1>6 DEF FailPoll, AgeInv, OverviewLateness
<1>7. CASE /\ Complete(Split(buffer'), Asked) /\ reading' = FALSE
           /\ ~(query = 1 /\ Raises(Split(buffer'))) /\ Take(Split(buffer'))
  <2> DEFINE v == Got(Split(buffer'))
             all == Append(read, v)
  <2>1. read \in Seq(Result) /\ Len(read) = query - 1
    BY <1>2 DEF IInv, ReadInv
  <2>2. v \in Result
    BY <1>7, GotResult
  <2>3. IF query = 6
        THEN data' = [poll |-> poll, overview |-> all[1], blocks |-> Tail(all)] /\ query' = 0
        ELSE read' = all /\ query' = query /\ data' = data
    BY <1>7, ScriptOf DEF Take
  <2>4. all[1].parts.temperatures.poll + 1 >= poll
    <3>1. CASE query = 1
      <4>1. Asked = "1800"
        BY <3>1, ScriptOf DEF Asked
      <4>2. v = FromLines(Split(buffer'))
        BY <4>1 DEF Got
      <4>3. PICK i \in 1..Len(Split(buffer')) : v.parts.temperatures.poll = Split(buffer')[i].poll
        <5>1. Stretch(Split(buffer')) /\ ~Raises(Split(buffer'))
          BY <1>2, <1>7, <3>1, SplitStretch
        <5> QED
          BY <4>2, <5>1, OneReply
      <4>4. PICK j \in 1..Len(buffer') : Split(buffer')[i] = buffer'[j]
        BY <1>2, SplitStretch
      <4>5. v.parts.temperatures.poll + 1 >= poll
        BY <1>1, <3>1, <4>3, <4>4
      <4> HIDE DEF v
      <4>6. all[1] = v
        BY <2>1, <2>2, <3>1
      <4> QED
        BY <4>5, <4>6
    <3>2. CASE query # 1
      <4> HIDE DEF v
      <4>1. Len(read) > 0 /\ query # 0
        BY <1>2, <2>1, <3>2
      <4>2. all[1] = read[1]
        BY <2>1, <2>2, <4>1
      <4> QED
        BY <4>1, <4>2 DEF AgeInv
    <3> QED
      BY <3>1, <3>2
  <2> HIDE DEF all
  <2>5. OverviewLateness'
    <3>1. CASE query = 6
      <4>1. data'.poll = poll /\ data'.overview = all[1]
        BY <2>3, <3>1
      <4> QED
        BY <2>4, <4>1 DEF OverviewLateness
    <3>2. CASE query # 6
      BY <2>3, <3>2 DEF AgeInv, OverviewLateness
    <3> QED
      BY <3>1, <3>2
  <2> QED
    BY <1>7, <2>3, <2>4, <2>5
<1> QED
  BY <1>5, <1>6, <1>7, ChunkEnds

----------------------------------------------------------------------------
(* The sensors *)

\* What the sensors show of the lines that can be torn inside a value.
LEMMA LastShown ==
  ASSUME NEW s \in AllSensors
  PROVE  /\ s.part \in Part
         /\ s.part = "temperatures" => "return_secondary" \notin s.fields
         /\ s.part = "runtimes" => "bw_lock_seconds" \notin s.fields
         /\ s.part = "hours" /\ "heat_pump_total" \in s.fields => s = Sensor.heat_pump_total_hours
<1> DEFINE Right(t) ==
             /\ t.part \in {"temperatures", "inputs", "outputs", "runtimes", "hours", "status"}
             /\ t.part = "temperatures" => "return_secondary" \notin t.fields
             /\ t.part = "runtimes" => "bw_lock_seconds" \notin t.fields
             /\ t.part = "hours" /\ "heat_pump_total" \in t.fields => t = Of("hours", {"heat_pump_total"})
<1>1. \A k \in DOMAIN Sensor : Right(Sensor[k])
  <2>1. DOMAIN Sensor =
            {"outdoor_temperature", "flow_temperature", "return_temperature", "return_setpoint",
             "hot_gas_temperature", "dhw_temperature", "source_in_temperature", "source_out_temperature",
             "mix1_flow_actual", "mix1_flow_setpoint", "dhw_setpoint", "operating_state",
             "heat_pump_total_hours", "compressor_1_hours", "compressor_2_hours", "compressor_starts",
             "software_version", "heat_pump_type", "bivalent_stage", "runtime_wp_current"}
    BY DEF Sensor
  <2>2. Right(Sensor.outdoor_temperature) /\ Right(Sensor.flow_temperature)
         /\ Right(Sensor.return_temperature) /\ Right(Sensor.return_setpoint) /\ Right(Sensor.hot_gas_temperature)
    BY DEF Sensor, Of
  <2>3. Right(Sensor.dhw_temperature) /\ Right(Sensor.source_in_temperature)
         /\ Right(Sensor.source_out_temperature) /\ Right(Sensor.mix1_flow_actual) /\ Right(Sensor.mix1_flow_setpoint)
    BY DEF Sensor, Of
  <2>4. Right(Sensor.dhw_setpoint) /\ Right(Sensor.operating_state)
         /\ Right(Sensor.heat_pump_total_hours) /\ Right(Sensor.compressor_1_hours) /\ Right(Sensor.compressor_2_hours)
    BY DEF Sensor, Of
  <2>5. Right(Sensor.compressor_starts) /\ Right(Sensor.software_version)
         /\ Right(Sensor.heat_pump_type) /\ Right(Sensor.bivalent_stage) /\ Right(Sensor.runtime_wp_current)
    BY DEF Sensor, Of
  <2> HIDE DEF Right
  <2> QED
    BY <2>1, <2>2, <2>3, <2>4, <2>5
<1>2. \A k \in DOMAIN BinarySensor : Right(BinarySensor[k])
  BY DEF BinarySensor, Of
<1>3. Sensor.heat_pump_total_hours = Of("hours", {"heat_pump_total"})
  BY DEF Sensor
<1> HIDE DEF Right
<1>4. Right(s)
  BY <1>1, <1>2 DEF AllSensors
<1> QED
  BY <1>3, <1>4, Layouts DEF Right

----------------------------------------------------------------------------
(* Theorems *)

\* Every variable has its type.
THEOREM TypeCorrect == Spec => []TypeOK
<1>1. IInv => TypeOK
  <2> SUFFICES ASSUME IInv PROVE TypeOK
    OBVIOUS
  <2> USE BoundAssumption
  <2>1. /\ poll \in 0..MaxPolls /\ query \in 0..6 /\ reading \in BOOLEAN
        /\ buffer \in Seq(Piece) /\ success \in BOOLEAN
        /\ trouble \in 0..MaxTrouble /\ calm \in 0..poll
    BY DEF IInv, Counters
  <2>2. wire \in Seq(Piece) /\ inbox \in Seq(Piece)
    BY DEF IInv, StreamInv, Stretch
  <2>3. Len(read) < 6
    <3>1. read \in Seq(Result) /\ Len(read) <= 5
      BY DEF IInv, ReadInv
    <3> QED
      BY <3>1
  <2>4. data.poll \in 0..poll
    <3>1. CASE data = NoData
      BY <2>1, <3>1 DEF NoData
    <3>2. CASE data # NoData
      BY <2>1, <3>2 DEF IInv, DataInv
    <3> QED
      BY <3>1, <3>2
  <2>5. calm \in 0..MaxPolls
    BY <2>1
  <2> QED
    BY <2>1, <2>2, <2>3, <2>4, <2>5, ScriptOf DEF TypeOK
<1> QED
  BY <1>1, Inductive, PTL

\* A published overview comes from one reply, each of its parts from the line
\* that is meant for it, however the replies are cut and whatever is left in
\* front of them.
THEOREM OverviewComesFromOneReply == Spec => []OverviewOfOneReply
<1>1. IInv => OverviewOfOneReply
  BY DEF IInv, DataInv, IsOverview, OverviewOfOneReply
<1> QED
  BY <1>1, Inductive, PTL

\* The modes and blocks of a published snapshot are the answers to its own poll.
THEOREM BlocksComeFromOwnPoll == Spec => []BlocksAreOwn
<1>1. IInv => BlocksAreOwn
  BY DEF IInv, DataInv, BlocksAreOwn
<1> QED
  BY <1>1, Inductive, PTL

\* The total of hours is the only value shown that a cut inside it can change.
THEOREM OnlyTotalIsTorn == Spec => []OnlyTotalTorn
<1>1. IInv => OnlyTotalTorn
  <2> SUFFICES ASSUME IInv, data # NoData, NEW s \in AllSensors,
                      data.overview.parts[s.part].to = 3, ShowsLast(s)
               PROVE  s = Sensor.heat_pump_total_hours
    BY DEF OnlyTotalTorn
  <2> DEFINE x == data.overview.parts[s.part]
  <2>1. s.part \in Part
    BY LastShown
  <2>2. x # Default
    BY DEF Default
  <2>3. WellFormed(x) /\ x.line = LineOf[s.part] /\ x.to = 3
    BY <2>1, <2>2 DEF IInv, DataInv, IsOverview
  <2> HIDE DEF x
  <2>4. LineOf[s.part] \notin OneDigit
    BY <2>3 DEF WellFormed
  <2>5. s.part \in {"temperatures", "runtimes", "hours"}
    <3>1. s.part \in {"temperatures", "inputs", "outputs", "runtimes", "hours", "status"}
      BY <2>1, Layouts
    <3>2. LineOf.inputs = "1200" /\ LineOf.outputs = "1300" /\ LineOf.status = "2900"
      BY DEF LineOf
    <3> QED
      BY <2>4, <3>1, <3>2 DEF OneDigit
  <2>6. CASE s.part = "temperatures"
    <3>1. "return_secondary" \in s.fields
      BY <2>6, Layouts DEF ShowsLast
    <3> QED
      BY <2>6, <3>1, LastShown
  <2>7. CASE s.part = "runtimes"
    <3>1. "bw_lock_seconds" \in s.fields
      BY <2>7, Layouts DEF ShowsLast
    <3> QED
      BY <2>7, <3>1, LastShown
  <2>8. CASE s.part = "hours"
    <3>1. "heat_pump_total" \in s.fields
      BY <2>8, Layouts DEF ShowsLast
    <3> QED
      BY <2>8, <3>1, LastShown
  <2> QED
    BY <2>5, <2>6, <2>7, <2>8
<1> QED
  BY <1>1, Inductive, PTL

LEMMA Aging ==
  ASSUME ReadLines >= 22
  PROVE  Spec => []AgeInv
<1>1. Init => AgeInv
  BY DEF Init, AgeInv, OverviewLateness
<1>2. IInv /\ AgeInv /\ [Next]_vars => AgeInv'
  <2> SUFFICES ASSUME IInv, AgeInv, [Next]_vars PROVE AgeInv'
    OBVIOUS
  <2>1. CASE UNCHANGED vars
    BY <2>1 DEF vars, AgeInv, Old, OverviewLateness
  <2> QED
    BY <2>1, QueryAge, ChunkAge, FailsAge, WriteReadsAge, SetterReadsAge, ArriveAge DEF Next
<1> QED
  BY <1>1, <1>2, Inductive, PTL DEF Spec

\* When a read holds an overview, a published one is never older than the poll
\* before the one that publishes it.
THEOREM OverviewIsNotLate ==
  ASSUME ReadLines >= 22
  PROVE  Spec => []OverviewLateness
<1>1. AgeInv => OverviewLateness
  BY DEF AgeInv
<1> QED
  BY <1>1, Aging, PTL

----------------------------------------------------------------------------
(* How the polls heal *)

\* The overview of a poll, and a block of this one.
Whole(n) == Reply("1800", n)
Block(q) == Reply(Script[q], poll)

\* What the k-th poll without trouble leaves: less each time, or its overview.
Rest(k) == CASE k = 0 -> 22 [] k = 1 -> 14 [] k = 2 -> 6 [] k >= 3 -> 0
Left(s, k, n) == Len(s) <= Rest(k) \/ (k = 1 /\ s = Whole(n))

BetweenPolls ==
  /\ \/ wire = <<>> /\ Left(inbox, calm, poll)
     \/ calm = 1 /\ wire = Whole(poll) /\ inbox = <<>>
  /\ calm >= 4 => Fresh

\* Before its first read an overview is awaited behind what is left; after it, what
\* has not been read fits into the next read.
InOverview ==
  \/ /\ buffer = <<>>
     /\ \E L \in Seq(Piece) :
          /\ Left(L, calm - 1, poll - 1)
          /\ \/ inbox = L /\ wire = Whole(poll)
             \/ inbox = L \o Whole(poll) /\ wire = <<>>
  \/ /\ buffer # <<>>
     /\ \/ calm <= 3 /\ wire = Whole(poll) /\ inbox = <<>>
        \/ wire = <<>> /\ Len(inbox) <= 22 /\ (calm >= 4 => inbox = <<>>)

AfterOverview ==
  \/ wire = Whole(poll) /\ inbox = <<>>
  \/ wire = <<>> /\ Len(inbox) <= 22

InBlock ==
  \/ query = 2 /\ wire = Whole(poll) \o Block(query) /\ inbox = <<>>
  \/ wire = Block(query) /\ Len(inbox) <= 22
  \/ wire = <<>> /\ Len(inbox) <= 23

HealInv ==
  calm >= 1 =>
    /\ query = 0 => BetweenPolls
    /\ query = 1 => IF reading THEN InOverview ELSE AfterOverview
    /\ query >= 2 => IF reading THEN InBlock ELSE wire = <<>> /\ inbox = <<>>
    /\ (calm >= 4 /\ query >= 1 /\ Len(read) >= 1) =>
         read[1] = FromLines(Split(Whole(poll)))

\* What a reply is joined to ends with the end of one.
LEMMA EndsBefore ==
  ASSUME NEW s, Stretch(s), NEW t, Meets(s, t), t # <<>>, t[1].from = 0, t[1].slot = 1
  PROVE  Finished(s) /\ Joined(s, t) = s \o t
<1>1. CASE s = <<>>
  BY <1>1 DEF Finished, Joined
<1>2. CASE s # <<>>
  <2> DEFINE k == Len(s)
  <2>1. k \in 1..Len(s)
    BY <1>2 DEF Stretch
  <2>2. s[k].to \in 1..5 /\ s[k].slot \in 1..22
    BY <2>1, Fields DEF Stretch
  <2>3. Fit(s[k], t[1])
    BY <1>2 DEF Meets
  <2> HIDE DEF k
  <2>4. s[k].to = Full /\ Next1(s[k], t[1])
    BY <2>2, <2>3 DEF Fit
  <2>5. s[k].line \in Blocks \/ s[k].slot = 22
    BY <2>2, <2>4, SMTT(30) DEF Next1
  <2> QED
    BY <1>2, <2>4, <2>5 DEF Finished, Joined, k
<1> QED
  BY <1>1, <1>2

LEMMA JoinLength ==
  ASSUME NEW s, NEW t, Stretch(s), Stretch(t), Meets(s, t)
  PROVE  Len(Joined(s, t)) <= Len(s) + Len(t)
<1> DEFINE J == Joined(s, t)
           n == Len(s)
           k == Len(t)
<1>1. s \in Seq(Piece) /\ t \in Seq(Piece) /\ n \in Nat /\ k \in Nat
  BY DEF Stretch
<1>2. CASE s = <<>> \/ t = <<>>
  <2>1. J = s \o t
    BY <1>2 DEF Joined
  <2> QED
    BY <1>1, <2>1
<1>3. CASE s # <<>> /\ t # <<>>
  <2>1. Len(J) = n + k \/ Len(J) = n + k - 1
    BY <1>3, JoinSides
  <2> HIDE DEF J, n, k
  <2> QED
    BY <1>1, <2>1 DEF J, n, k
<1> QED
  BY <1>2, <1>3

\* An overview that is whole in front of a stretch passes all length tests.
LEMMA WholeIsNoError ==
  ASSUME NEW s, Stretch(s), Len(s) >= 22, s[1].line \notin Blocks, s[1].slot = 1,
         s[1].from = 0, s[22].to = Full
  PROVE  Split(s) = s /\ ~Raises(s)
<1> DEFINE k == Len(s)
<1>1. /\ k \in Nat /\ k >= 22 /\ \A i \in 1..k : WellFormed(s[i])
      /\ \A i \in 1..(k - 1) : s[i].to = Full
  BY DEF Stretch
<1> HIDE DEF k
<1>2. Split(s) = s
  BY DEF Split
<1>3. \A i \in 1..22 : i \in 1..k /\ (i # 22 => i \in 1..(k - 1))
  BY <1>1
<1>4. \A i \in 1..22 : s[i].line \notin Blocks /\ s[i].slot = i
  <2> DEFINE first == 1
  <2>1. first \in 1..Len(s) /\ s[first].line \notin Blocks /\ s[first].slot = first
    BY <1>3 DEF k
  <2> HIDE DEF first
  <2>2. \A j \in 1..Len(s) : j <= 22 => s[j].line \notin Blocks /\ s[j].slot = j
    BY <2>1, InPlace
  <2>3. \A i \in 1..22 : i \in 1..Len(s) /\ i <= 22
    BY <1>3 DEF k
  <2> QED
    BY ONLY <2>2, <2>3
<1>5. \A i \in 1..22 : s[i].to = Full /\ s[i].line = OverviewReply[i]
  BY <1>1, <1>3, <1>4 DEF WellFormed
<1>6. \A p \in Part : ValuesAt(s, Position[p]) = Count[LineOf[p]]
  <2> TAKE p \in Part
  <2>1. Position[p] \in 2..21 /\ OverviewReply[Position[p] + 1] = LineOf[p]
    BY Lengths
  <2>2. \A a \in 2..21 : a < k /\ a + 1 \in 1..22
    BY <1>1
  <2>3. ValuesAt(s, Position[p]) = NumValues(s[Position[p] + 1])
    BY <2>1, <2>2 DEF ValuesAt, k
  <2>4. \A x : x.to = Full => NumValues(x) = Count[x.line]
    BY DEF NumValues, Full
  <2>5. Position[p] + 1 \in 1..22
    BY <2>1, <2>2
  <2>6. s[Position[p] + 1].to = Full /\ s[Position[p] + 1].line = LineOf[p]
    BY <1>5, <2>1, <2>5
  <2> QED
    BY <2>3, <2>4, <2>6
<1>7. \A p \in Part : Count[LineOf[p]] = Len(Layout[p])
  <2>1. /\ LineOf.temperatures = "1100" /\ LineOf.inputs = "1200" /\ LineOf.outputs = "1300"
        /\ LineOf.runtimes = "1400" /\ LineOf.hours = "1600" /\ LineOf.status = "2900"
    BY DEF LineOf
  <2>2. /\ Count["1100"] = 12 /\ Count["1200"] = 6 /\ Count["1300"] = 13
        /\ Count["1400"] = 29 /\ Count["1600"] = 9 /\ Count["2900"] = 4
    BY Lines14 DEF Count
  <2>3. /\ Part = {"temperatures", "inputs", "outputs", "runtimes", "hours", "status"}
        /\ Len(Layout.temperatures) = 12 /\ Len(Layout.inputs) = 6 /\ Len(Layout.outputs) = 13
        /\ Len(Layout.runtimes) = 29 /\ Len(Layout.hours) = 9 /\ Len(Layout.status) = 4
    BY Layouts
  <2> QED
    BY <2>1, <2>2, <2>3, ZenonT(40)
<1>8. \A p \in Part : LongEnough(ValuesAt(s, Position[p]), p)
  BY <1>6, <1>7, Lengths DEF LongEnough
<1>9. Mandatory \subseteq Part /\ "status" \in Part
  BY Layouts
<1> QED
  BY <1>2, <1>8, <1>9 DEF Raises

\* What is left of an overview, with fewer lines than are behind the second of it,
\* answers no query.
LEMMA RestIsNoAnswer ==
  ASSUME NEW s, Stretch(s), Finished(s), Len(s) <= 14,
         \A i \in 1..Len(s) : ~(s[i].from = 0 /\ s[i].line \in Blocks)
  PROVE  ~Complete(Split(s), "1800")
<1> SUFFICES ASSUME Complete(Split(s), "1800") PROVE FALSE
  OBVIOUS
<1> DEFINE k == Len(s)
<1>1. /\ k \in Nat /\ k <= 14 /\ \A i \in 1..k : WellFormed(s[i])
      /\ \A i \in 1..(k - 1) : s[i + 1].from = 0 /\ Next1(s[i], s[i + 1])
  BY DEF Stretch
<1>2. PICK j \in 1..k : s[j].from = 0 /\ s[j].line = "1800"
  <2>1. Stretch(Split(s))
    BY SplitStretch
  <2>2. DOMAIN Split(s) = 1..Len(Split(s))
    BY <2>1 DEF Stretch
  <2> QED
    BY <2>2, SplitStretch DEF Complete, IsComplete
<1> HIDE DEF k
<1>3. s[j].line \notin Blocks /\ s[j].slot \in {1, 2}
  <2>1. s[j].line \notin Blocks
    BY <1>2 DEF Blocks
  <2>2. s[j].slot \in 1..22 /\ OverviewReply[s[j].slot] = "1800"
    BY <1>1, <1>2, <2>1, Fields
  <2>3. \A i \in 1..22 : i \in {1, 2} \/ i \in {3, 4, 5, 6, 7, 8, 14, 15, 21, 22}
                         \/ i \in 9..13 \/ i \in 16..20
    OBVIOUS
  <2>4. \A i \in 1..22 : OverviewReply[i] = "1800" => i \in {1, 2}
    BY <2>3, LineNames
  <2> QED
    BY <2>1, <2>2, <2>4
<1> DEFINE Good(d) == s[d].line \notin Blocks /\ s[d].slot = s[j].slot + (d - j)
           T == {d \in 1..k : j <= d /\ ~Good(d)}
<1>4. Good(j)
  BY <1>1, <1>3
<1>5. \A d \in 1..(k - 1) : j <= d /\ Good(d) => Good(d + 1)
  <2> SUFFICES ASSUME NEW d \in 1..(k - 1), j <= d, Good(d) PROVE Good(d + 1)
    OBVIOUS
  <2>1. d + 1 \in 1..k /\ d - j \in 0..12 /\ (d + 1) - j = (d - j) + 1
    BY <1>1
  <2>2. s[d].slot # 22
    BY <1>3, <2>1
  <2>3. s[d + 1].slot = s[d].slot + 1
    BY <1>1, <2>2 DEF Next1
  <2>4. s[d + 1].line \notin Blocks
    BY <1>1, <2>1 DEF k
  <2> QED
    BY <1>3, <2>1, <2>3, <2>4
<1> HIDE DEF Good
<1>6. T = {}
  <2>1. SUFFICES ASSUME T # {} PROVE FALSE
    OBVIOUS
  <2>2. PICK x \in T : \A y \in T : x <= y
    <3>1. T \subseteq Nat
      BY <1>1
    <3> HIDE DEF T
    <3> QED
      BY <2>1, <3>1, LeastNumber
  <2>3. x \in 1..k /\ j <= x /\ ~Good(x) /\ x # j
    BY <1>4
  <2>4. x - 1 \in 1..(k - 1) /\ x - 1 \in 1..k /\ (x - 1) + 1 = x /\ ~(x <= x - 1) /\ j <= x - 1
    BY <1>1, <1>2, <2>3
  <2>5. ~Good(x - 1)
    BY <1>5, <2>3, <2>4
  <2> QED
    BY <2>2, <2>4, <2>5
<1>7. k \in 1..k /\ j <= k /\ k - j \in 0..13
  BY <1>1, <1>2
<1>8. s[k].line \notin Blocks /\ s[k].slot # 22
  <2>1. Good(k)
    BY <1>6, <1>7
  <2> QED
    BY <1>3, <1>7, <2>1, SMTT(30) DEF Good
<1>9. s # <<>>
  BY <1>7 DEF k
<1> QED
  BY <1>8, <1>9 DEF Finished, k

\* A read hands over something; all that is there, if it fits.
LEMMA ReadsSome ==
  ASSUME IInv, Chunk
  PROVE  /\ buffer' # <<>>
         /\ Len(inbox) <= ReadLines => inbox' = <<>> /\ (buffer = <<>> => buffer' = inbox)
         /\ Len(inbox) > ReadLines =>
              /\ Len(inbox') + ReadLines <= Len(inbox)
              /\ buffer = <<>> => Len(buffer') >= ReadLines
                                  /\ \A i \in 1..ReadLines : buffer'[i] = inbox[i]
<1> DEFINE k == Len(inbox)
<1>1. /\ reading /\ inbox # <<>> /\ Stretch(inbox) /\ Stretch(buffer) /\ Meets(buffer, inbox)
      /\ inbox \in Seq(Piece) /\ k \in Nat /\ k > 0
  <2>1. reading /\ inbox # <<>>
    BY DEF Chunk
  <2>2. Stretch(inbox) /\ Stretch(buffer) /\ Meets(buffer, inbox)
    BY <2>1 DEF IInv, StreamInv, BufferInv
  <2>3. inbox \in Seq(Piece) /\ k \in Nat
    BY <2>2 DEF Stretch
  <2> QED
    BY <2>1, <2>2, <2>3, EmptySeq
<1>2. PICK p \in Places(inbox) :
        /\ IF Len(inbox) <= ReadLines THEN p = <<Len(inbox), 0>> ELSE p[1] >= ReadLines
        /\ buffer' = Joined(buffer, Before(inbox, p)) /\ inbox' = Behind(inbox, p)
  <2>1. <<Len(inbox), 0>> \in Places(inbox)
    BY DEF Places
  <2> QED
    BY <2>1 DEF Chunk
<1> DEFINE a == Before(inbox, p)
           n == p[1]
<1>3. /\ n \in 0..k /\ a \in Seq(Piece) /\ Behind(inbox, p) \in Seq(Piece)
      /\ Len(Behind(inbox, p)) = k - n
      /\ \A i \in 1..n : a[i] = inbox[i]
      /\ Len(a) = n \/ (Len(a) = n + 1 /\ n < k)
  BY <1>1, Sides, ZenonT(40)
<1>4. Stretch(a) /\ Meets(buffer, a)
  BY <1>1, CutStretch
<1>5. IF k <= ReadLines THEN n = k ELSE n >= ReadLines
  BY <1>2
<1> HIDE DEF a, n, k
<1>6. n >= 1
  <2>1. ReadLines \in Nat /\ ReadLines >= 1
    BY ReadAssumption
  <2> QED
    BY <1>1, <1>3, <1>5, <2>1
<1>7. a # <<>> /\ buffer' = Joined(buffer, a) /\ (buffer = <<>> => buffer' = a)
  <2>1. a # <<>>
    BY <1>3, <1>6
  <2>2. buffer' = Joined(buffer, a)
    BY <1>2 DEF a
  <2> QED
    BY <1>3, <2>1, <2>2 DEF Joined
<1>8. buffer' # <<>>
  BY <1>1, <1>4, <1>7, JoinStretch
<1>9. ASSUME k <= ReadLines PROVE inbox' = <<>> /\ (buffer = <<>> => buffer' = inbox)
  <2>1. n = k
    BY <1>5, <1>9
  <2>2. Len(Behind(inbox, p)) = 0 /\ Len(a) = k
    BY <1>1, <1>3, <2>1
  <2>3. inbox' = <<>>
    BY <1>2, <1>3, <2>2, EmptySeq
  <2>4. a = inbox
    BY <1>1, <1>3, <2>1, <2>2, SeqEqual DEF k
  <2> QED
    BY <1>7, <2>3, <2>4
<1>10. ASSUME k > ReadLines
       PROVE  /\ Len(inbox') + ReadLines <= k
              /\ buffer = <<>> => Len(buffer') >= ReadLines
                                  /\ \A i \in 1..ReadLines : buffer'[i] = inbox[i]
  <2>1. n >= ReadLines
    BY <1>1, <1>5, <1>10, ReadAssumption
  <2>2. Len(inbox') = k - n
    BY <1>2, <1>3
  <2>3. n \in Nat /\ ReadLines \in Nat
    BY <1>3, ReadAssumption
  <2>4. \A i \in 1..ReadLines : i \in 1..n
    BY <2>1, <2>3
  <2>5. Len(a) >= ReadLines
    BY <1>3, <2>1, <2>3
  <2>6. Len(inbox') + ReadLines <= k
    BY <1>1, <2>1, <2>2, <2>3
  <2> QED
    BY <1>3, <1>7, <2>4, <2>5, <2>6
<1> QED
  BY <1>8, <1>9, <1>10, <1>1, ReadAssumption DEF k

\* What arrives uncut is some of the replies on the wire.
LEMMA ArrivesUncut ==
  ASSUME IInv, Arrive, calm' >= 1
  PROVE  \E n \in 1..Len(wire), a \in Seq(Piece) :
           /\ Stretch(a) /\ Meets(inbox, a) /\ inbox' = Joined(inbox, a) /\ a # <<>>
           /\ Len(a) = n /\ \A i \in 1..n : a[i] = wire[i]
           /\ wire' \in Seq(Piece) /\ Len(wire') = Len(wire) - n
           /\ \A j \in 1..Len(wire') : wire'[j] = wire[n + j]
           /\ n < Len(wire) => wire[n + 1].slot = 1
<1> DEFINE k == Len(wire)
<1>1. PICK p \in Places(wire) :
        /\ Before(wire, p) # <<>>
        /\ inbox' = Joined(inbox, Before(wire, p)) /\ wire' = Behind(wire, p)
        /\ wire' = <<>> \/ (wire'[1].slot = 1 /\ wire'[1].from = 0)
  BY DEF Arrive, Disturb
<1>2. /\ Stretch(inbox) /\ Stretch(wire) /\ Meets(inbox, wire)
      /\ wire \in Seq(Piece) /\ k \in Nat
  BY DEF IInv, StreamInv, Stretch
<1> DEFINE a == Before(wire, p)
           b == Behind(wire, p)
           n == p[1]
           m == p[2]
<1>3. /\ n \in 0..k /\ a \in Seq(Piece) /\ b \in Seq(Piece) /\ Len(b) = k - n
      /\ \A j \in 2..Len(b) : b[j] = wire[n + j]
      /\ n < k => WellFormed(b[1]) /\ b[1] = [wire[n + 1] EXCEPT !.from = m]
      /\ \A i \in 1..n : a[i] = wire[i]
      /\ \/ Len(a) = n /\ (n < k => b[1] = wire[n + 1])
         \/ Len(a) = n + 1 /\ n < k /\ m \in 1..4
  BY <1>2, Sides, ZenonT(40)
<1>4. Stretch(a) /\ Meets(inbox, a)
  BY <1>2, CutStretch
<1> HIDE DEF a, b, n, m, k
<1>5. a # <<>> /\ inbox' = Joined(inbox, a) /\ wire' = b
      /\ (b = <<>> \/ (b[1].slot = 1 /\ b[1].from = 0))
  BY <1>1 DEF a, b
<1>6. n < k => b[1].from = m /\ n + 1 \in 1..k /\ b # <<>>
  <2> SUFFICES ASSUME n < k PROVE b[1].from = m /\ n + 1 \in 1..k /\ b # <<>>
    OBVIOUS
  <2>1. n + 1 \in 1..k /\ Len(b) # 0
    BY <1>2, <1>3
  <2>2. wire[n + 1] \in Piece
    BY <1>2, <2>1 DEF k
  <2> QED
    BY <1>3, <2>1, <2>2 DEF Piece
<1>7. Len(a) = n /\ (n < k => b[1] = wire[n + 1])
  <2>1. n < k => m = 0
    BY <1>5, <1>6
  <2> QED
    BY <1>3, <2>1
<1>8. n < k => wire[n + 1].slot = 1
  BY <1>5, <1>6, <1>7
<1>9. n \in 1..k
  <2>1. n # 0
    BY <1>3, <1>5, <1>7, EmptySeq
  <2> QED
    BY <1>2, <1>3, <2>1
<1>10. \A j \in 1..Len(b) : b[j] = wire[n + j]
  <2> TAKE j \in 1..Len(b)
  <2>1. CASE j = 1
    <3>1. n < k
      BY <1>2, <1>3
    <3> QED
      BY <1>7, <2>1, <3>1
  <2>2. CASE j # 1
    <3>1. j \in 2..Len(b)
      BY <1>2, <1>3, <2>2
    <3> QED
      BY <1>3, <3>1
  <2> QED
    BY <2>1, <2>2
<1> QED
  BY <1>3, <1>4, <1>5, <1>7, <1>8, <1>9, <1>10 DEF k

LEMMA WholeReply ==
  ASSUME NEW n \in 1..MaxPolls
  PROVE  LET w == Whole(n)
         IN  /\ Stretch(w) /\ Finished(w) /\ w \in Seq(Piece) /\ Len(w) = 22 /\ w # <<>>
             /\ \A i \in 1..Len(w) : w[i].slot = i /\ w[i].to = Full
             /\ w[1].slot = 1 /\ w[1].from = 0 /\ w[1].line \notin Blocks
<1> DEFINE w == Whole(n)
<1>1. "1800" \in Blocks \cup {"1800"}
  OBVIOUS
<1>2. /\ Stretch(w) /\ Finished(w) /\ w # <<>> /\ w[1].slot = 1 /\ w[1].from = 0
      /\ Len(w) = 22 /\ \A i \in 1..22 : w[i].slot = i /\ w[i].to = Full
      /\ \A i \in 1..Len(w) : w[i].line \notin Blocks
  BY <1>1, ReplyStretch, ZenonT(40) DEF Whole
<1>3. 1 \in 1..Len(w)
  BY <1>2
<1> QED
  BY <1>2, <1>3 DEF Stretch

LEMMA BlockReply ==
  ASSUME poll \in 1..MaxPolls, NEW q \in 2..6
  PROVE  LET b == Block(q)
         IN  /\ Stretch(b) /\ b \in Seq(Piece) /\ Len(b) = 1 /\ b # <<>>
             /\ b[1].slot = 1 /\ b[1].from = 0
<1>1. Script[q] \in Blocks \cup {"1800"} /\ Script[q] # "1800"
  BY ScriptOf
<1> QED
  BY <1>1, ReplyStretch DEF Block, Stretch

LEMMA OverviewArrives ==
  ASSUME IInv, Arrive, calm' >= 1, poll \in 1..MaxPolls, wire = Whole(poll)
  PROVE  wire' = <<>> /\ inbox' = inbox \o Whole(poll)
<1> DEFINE k == Len(wire)
<1>1. /\ wire \in Seq(Piece) /\ k \in Nat /\ \A i \in 1..k : wire[i].slot = i
      /\ wire # <<>> /\ wire[1].slot = 1 /\ wire[1].from = 0
  BY WholeReply
<1>2. PICK n \in 1..k, a \in Seq(Piece) :
        /\ inbox' = Joined(inbox, a) /\ Len(a) = n /\ \A i \in 1..n : a[i] = wire[i]
        /\ wire' \in Seq(Piece) /\ Len(wire') = k - n
        /\ n < k => wire[n + 1].slot = 1
  BY ArrivesUncut
<1> HIDE DEF k
<1>3. n = k
  <2>1. n < k => n + 1 \in 1..k /\ n + 1 # 1
    BY <1>1
  <2> QED
    BY <1>1, <1>2, <2>1
<1>4. a = wire
  BY <1>1, <1>2, <1>3, SeqEqual DEF k
<1>5. wire' = <<>>
  <2>1. Len(wire') = 0
    BY <1>1, <1>2, <1>3
  <2> QED
    BY <1>2, <2>1, EmptySeq
<1>6. Joined(inbox, wire) = inbox \o wire
  <2>1. Stretch(inbox) /\ Meets(inbox, wire)
    BY DEF IInv, StreamInv
  <2> QED
    BY <1>1, <2>1, EndsBefore
<1> QED
  BY <1>2, <1>4, <1>5, <1>6

LEMMA BlockArrives ==
  ASSUME IInv, Arrive, calm' >= 1, poll \in 1..MaxPolls, query \in 2..6, wire = Block(query)
  PROVE  wire' = <<>> /\ Len(inbox') <= Len(inbox) + 1
<1>1. Len(wire) = 1
  BY BlockReply
<1>2. PICK n \in 1..Len(wire), a \in Seq(Piece) :
        /\ Stretch(a) /\ Meets(inbox, a) /\ inbox' = Joined(inbox, a) /\ Len(a) = n
        /\ wire' \in Seq(Piece) /\ Len(wire') = Len(wire) - n
  BY ArrivesUncut
<1>3. n = 1 /\ Len(wire') = 0
  BY <1>1, <1>2
<1>4. Stretch(inbox)
  BY DEF IInv, StreamInv
<1> QED
  BY <1>2, <1>3, <1>4, EmptySeq, JoinLength

LEMMA BothArrive ==
  ASSUME IInv, Arrive, calm' >= 1, poll \in 1..MaxPolls, query \in 2..6, inbox = <<>>,
         wire = Whole(poll) \o Block(query)
  PROVE  \/ wire' = Block(query) /\ Len(inbox') <= 22
         \/ wire' = <<>> /\ Len(inbox') <= 23
<1> DEFINE w == Whole(poll)
           b == Block(query)
           k == Len(w)
<1>1. /\ w \in Seq(Piece) /\ k = 22 /\ \A i \in 1..k : w[i].slot = i
      /\ b \in Seq(Piece) /\ Len(b) = 1
  BY WholeReply, BlockReply
<1> HIDE DEF w, b
<1>2. /\ Len(wire) = k + 1 /\ \A i \in 1..(k + 1) : wire[i] = IF i <= k THEN w[i] ELSE b[i - k]
  <2>1. Len(wire) = Len(w) + Len(b)
        /\ \A i \in 1..(Len(w) + Len(b)) : wire[i] = IF i <= Len(w) THEN w[i] ELSE b[i - Len(w)]
    BY <1>1, ConcatProperties DEF w, b
  <2> QED
    BY <1>1, <2>1
<1>3. PICK n \in 1..Len(wire), a \in Seq(Piece) :
        /\ inbox' = Joined(inbox, a) /\ Len(a) = n
        /\ wire' \in Seq(Piece) /\ Len(wire') = Len(wire) - n
        /\ \A j \in 1..Len(wire') : wire'[j] = wire[n + j]
        /\ n < Len(wire) => wire[n + 1].slot = 1
  BY ArrivesUncut
<1>4. Len(inbox') = n
  BY <1>3 DEF Joined
<1>10. k \in Nat /\ n \in 1..(k + 1)
  BY <1>1, <1>2, <1>3
<1> HIDE DEF k
<1>5. n = k \/ n = k + 1
  <2>1. n < k => n + 1 \in 1..k /\ n + 1 \in 1..(k + 1) /\ n + 1 # 1 /\ n + 1 <= k /\ n < k + 1
    BY <1>10
  <2>2. ~(n < k)
    BY <1>1, <1>2, <1>3, <2>1
  <2> QED
    BY <1>10, <2>2
<1>6. CASE n = k
  <2>1. Len(wire') = 1
    BY <1>2, <1>3, <1>6, <1>10
  <2>2. wire'[1] = b[1]
    <3>1. wire'[1] = wire[n + 1]
      <4>1. 1 \in 1..Len(wire')
        BY <2>1
      <4> QED
        BY <1>3, <4>1
    <3>2. n + 1 \in 1..(k + 1) /\ ~(n + 1 <= k) /\ (n + 1) - k = 1
      BY <1>6, <1>10
    <3> QED
      BY <1>2, <3>1, <3>2
  <2>3. wire' = b
    <3>1. \A i \in 1..Len(wire') : i = 1
      BY <2>1
    <3> QED
      BY <1>1, <1>3, <2>1, <2>2, <3>1, SeqEqual
  <2> QED
    BY <1>1, <1>4, <1>6, <2>3 DEF b
<1>7. CASE n = k + 1
  <2>1. Len(wire') = 0
    BY <1>2, <1>3, <1>7, <1>10
  <2>2. Len(inbox') <= 23
    BY <1>1, <1>4, <1>7
  <2>3. wire' = <<>>
    BY <1>3, <2>1, EmptySeq
  <2> QED
    BY <2>2, <2>3
<1> QED
  BY <1>5, <1>6, <1>7

LEMMA Rests ==
  /\ Rest(0) = 22 /\ Rest(1) = 14 /\ Rest(2) = 6
  /\ \A k \in Nat : Rest(k) \in 0..22 /\ (k >= 3 => Rest(k) = 0)
<1>1. Rest(0) = 22 /\ Rest(1) = 14 /\ Rest(2) = 6 /\ \A k \in Nat : k >= 3 => Rest(k) = 0
  BY DEF Rest
<1>2. \A k \in Nat : k = 0 \/ k = 1 \/ k = 2 \/ k >= 3
  OBVIOUS
<1> QED
  BY <1>1, <1>2

\* A poll begins behind what the one before it has left.
LEMMA QueryHeal ==
  ASSUME IInv, AgeInv, HealInv, Query
  PROVE  HealInv'
<1>1. /\ ~reading /\ reading' /\ query \in 0..5 /\ query' = query + 1 /\ query' \in 1..6
      /\ poll \in Nat /\ poll' \in 1..MaxPolls /\ poll' \in Nat
      /\ (query = 0 => poll' = poll + 1 /\ read' = <<>> /\ wire = <<>> /\ calm' = calm + 1)
      /\ (query # 0 => poll' = poll /\ read' = read /\ calm' = calm)
      /\ wire' = wire \o Reply(Script[query'], poll') /\ inbox' = inbox /\ buffer' = <<>>
  BY QueryFacts
<1>2. Stretch(inbox) /\ inbox \in Seq(Piece) /\ AllAllowed(inbox, poll, query, reading) /\ calm \in Nat
  BY <1>1 DEF IInv, StreamInv, Stretch, Counters
<1> SUFFICES ASSUME calm' >= 1
             PROVE  /\ query' = 1 => InOverview'
                    /\ query' >= 2 => InBlock'
                    /\ (calm' >= 4 /\ Len(read') >= 1) => read'[1] = FromLines(Split(Whole(poll')))
  BY <1>1 DEF HealInv
<1>3. CASE query = 0
  <2>1. /\ query' = 1 /\ poll' = poll + 1 /\ calm' = calm + 1 /\ read' = <<>>
        /\ poll' - 1 = poll /\ calm' - 1 = calm
    BY <1>1, <1>2, <1>3
  <2>2. wire' = Whole(poll')
    <3>1. Reply(Script[query'], poll') = Whole(poll')
      BY <2>1, ScriptOf DEF Whole
    <3>2. Whole(poll') \in Seq(Piece)
      BY <1>1, WholeReply
    <3> QED
      BY <1>1, <1>3, <3>1, <3>2, ConcatEmptySeq
  <2>3. Left(inbox, calm, poll)
    <3>1. CASE calm = 0
      <4>1. \A i \in 1..Len(inbox) : inbox[i].poll = poll
        BY <1>1 DEF AgeInv, Old
      <4>2. \A i \in 1..Len(inbox) : ~(inbox[i].from = 0 /\ inbox[i].line \in Blocks)
        BY <1>1, <1>2, NotReadingNoBlock
      <4>3. Len(inbox) <= 22
        BY <1>2, <4>1, <4>2, LeftShort
      <4> QED
        BY <3>1, <4>3, Rests DEF Left
    <3>2. CASE calm # 0
      <4>1. BetweenPolls
        BY <1>2, <1>3, <3>2 DEF HealInv
      <4>2. Whole(poll) # <<>> \/ poll = 0
        <5>1. poll # 0 => poll \in 1..MaxPolls
          BY <1>1 DEF IInv, Counters
        <5> QED
          BY <5>1, WholeReply
      <4>3. poll # 0
        BY <1>2, <3>2 DEF IInv, Counters
      <4> QED
        BY <1>1, <1>3, <4>1, <4>2, <4>3 DEF BetweenPolls
    <3> QED
      BY <3>1, <3>2
  <2>4. InOverview'
    <3>1. /\ inbox \in Seq(Piece) /\ Left(inbox, calm' - 1, poll' - 1)
          /\ inbox' = inbox /\ wire' = Whole(poll') /\ buffer' = <<>>
      BY <1>1, <1>2, <2>1, <2>2, <2>3
    <3> QED
      BY <3>1 DEF InOverview, Whole
  <2> QED
    BY <2>1, <2>4
<1>4. CASE query # 0
  <2>1. /\ query \in 1..5 /\ query' \in 2..6 /\ poll' = poll /\ calm' = calm /\ calm >= 1
        /\ read' = read /\ wire' = wire \o Block(query') /\ poll \in 1..MaxPolls
        /\ Block(query') = Block(query)'
    BY <1>1, <1>4 DEF Block
  <2>2. Block(query') \in Seq(Piece)
    BY <2>1, BlockReply
  <2>3. wire = <<>> => wire' = Block(query')
    BY <2>1, <2>2, ConcatEmptySeq
  <2>4. InBlock'
    <3>1. CASE query = 1
      <4>1. AfterOverview
        BY <1>1, <2>1, <3>1 DEF HealInv
      <4>2. query' = 2 /\ Whole(poll') = Whole(poll)
        BY <1>1, <2>1, <3>1
      <4> QED
        BY <1>1, <2>1, <2>3, <4>1, <4>2 DEF AfterOverview, InBlock
    <3>2. CASE query # 1
      <4>1. wire = <<>> /\ inbox = <<>>
        BY <1>1, <2>1, <3>2 DEF HealInv
      <4>2. wire' = Block(query') /\ Len(inbox') <= 22
        BY <1>1, <2>3, <4>1
      <4> QED
        BY <2>1, <4>2 DEF InBlock
    <3> QED
      BY <3>1, <3>2
  <2>5. (calm' >= 4 /\ Len(read') >= 1) => read'[1] = FromLines(Split(Whole(poll')))
    BY <2>1 DEF HealInv
  <2> QED
    BY <2>1, <2>4, <2>5
<1> QED
  BY <1>3, <1>4

LEMMA ArriveHeal ==
  ASSUME IInv, HealInv, Arrive
  PROVE  HealInv'
<1>1. /\ UNCHANGED <<poll, query, reading, buffer, read, data, success>> /\ wire # <<>>
      /\ calm' = calm \/ calm' = 0
  BY DEF Arrive, Disturb
<1> SUFFICES ASSUME calm' >= 1 PROVE HealInv'
  BY DEF HealInv
<1>2. /\ calm' = calm /\ calm >= 1 /\ query \in 0..6 /\ poll \in 1..MaxPolls
      /\ inbox \in Seq(Piece) /\ wire \in Seq(Piece) /\ calm \in Nat
      /\ Whole(poll)' = Whole(poll) /\ Block(query)' = Block(query) /\ Len(inbox) \in Nat
  BY <1>1, BoundAssumption DEF IInv, Counters, StreamInv, Stretch, Whole, Block
<1>3. Whole(poll) \in Seq(Piece) /\ Len(Whole(poll)) = 22
  BY <1>2, WholeReply
<1>4. wire = Whole(poll) => wire' = <<>> /\ inbox' = inbox \o Whole(poll)
  BY <1>2, OverviewArrives
<1>5. wire = Whole(poll) /\ inbox = <<>> => wire' = <<>> /\ inbox' = Whole(poll) /\ Len(inbox') <= 22
  <2>1. <<>> \o Whole(poll) = Whole(poll)
    BY <1>3, ConcatEmptySeq
  <2>2. Len(Whole(poll)) <= 22
    BY <1>3
  <2> QED
    BY <1>4, <2>1, <2>2
<1>6. query = 0 => BetweenPolls'
  <2> SUFFICES ASSUME query = 0 PROVE BetweenPolls'
    OBVIOUS
  <2>1. calm = 1 /\ wire = Whole(poll) /\ inbox = <<>>
    BY <1>1, <1>2 DEF HealInv, BetweenPolls
  <2> QED
    BY <1>1, <1>2, <1>5, <2>1 DEF BetweenPolls, Left
<1>7. query = 1 => IF reading THEN InOverview' ELSE AfterOverview'
  <2>1. ASSUME query = 1, ~reading PROVE AfterOverview'
    <3>1. wire = Whole(poll) /\ inbox = <<>>
      BY <1>1, <1>2, <2>1 DEF HealInv, AfterOverview
    <3> QED
      BY <1>5, <3>1 DEF AfterOverview
  <2>2. ASSUME query = 1, reading, buffer = <<>> PROVE InOverview'
    <3>1. PICK L \in Seq(Piece) : Left(L, calm - 1, poll - 1) /\ inbox = L /\ wire = Whole(poll)
      BY <1>1, <1>2, <2>2 DEF HealInv, InOverview
    <3>2. /\ Left(L, calm' - 1, poll' - 1) /\ inbox' = L \o Whole(poll') /\ wire' = <<>>
          /\ buffer' = <<>>
      BY <1>1, <1>2, <1>4, <2>2, <3>1
    <3> QED
      BY <3>2 DEF InOverview, Whole
  <2>3. ASSUME query = 1, reading, buffer # <<>> PROVE InOverview'
    <3>1. calm <= 3 /\ wire = Whole(poll) /\ inbox = <<>>
      BY <1>1, <1>2, <2>3 DEF HealInv, InOverview
    <3>2. ~(calm' >= 4)
      BY <1>2, <3>1
    <3> QED
      BY <1>1, <1>5, <2>3, <3>1, <3>2 DEF InOverview
  <2> QED
    BY <2>1, <2>2, <2>3
<1>8. query >= 2 => reading /\ InBlock'
  <2> SUFFICES ASSUME query >= 2 PROVE reading /\ InBlock'
    OBVIOUS
  <2>1. reading /\ InBlock /\ query \in 2..6
    BY <1>1, <1>2 DEF HealInv
  <2>2. CASE wire = Whole(poll) \o Block(query) /\ inbox = <<>>
    <3>1. \/ wire' = Block(query) /\ Len(inbox') <= 22
          \/ wire' = <<>> /\ Len(inbox') <= 23
      BY <1>2, <2>1, <2>2, BothArrive
    <3> QED
      BY <1>2, <2>1, <3>1 DEF InBlock
  <2>3. CASE wire = Block(query) /\ Len(inbox) <= 22
    <3>1. wire' = <<>> /\ Len(inbox') <= Len(inbox) + 1
      BY <1>2, <2>1, <2>3, BlockArrives
    <3>2. inbox' \in Seq(Piece)
      BY ArriveStream DEF StreamInv, Stretch
    <3>3. Len(inbox') <= 23
      BY <1>2, <2>3, <3>1, <3>2
    <3> QED
      BY <2>1, <3>1, <3>3 DEF InBlock
  <2> QED
    BY <1>1, <2>1, <2>2, <2>3 DEF InBlock
<1> QED
  BY <1>1, <1>2, <1>6, <1>7, <1>8 DEF HealInv

\* The reads of a mode or a block.
LEMMA BlockHeal ==
  ASSUME ReadLines >= 30, IInv, HealInv, Chunk, query # 1
  PROVE  HealInv'
<1>1. /\ reading /\ query \in 1..6 /\ poll \in 1..MaxPolls /\ UNCHANGED <<poll, wire, calm>>
      /\ inbox # <<>>
  BY ChunkFacts DEF Chunk
<1>2. query \in 2..6 /\ calm \in Nat /\ inbox \in Seq(Piece) /\ ReadLines \in Nat
  BY <1>1, ReadAssumption DEF IInv, Counters, StreamInv, Stretch
<1> SUFFICES ASSUME calm >= 1 PROVE HealInv'
  BY <1>1 DEF HealInv
<1>3. (wire = Block(query) \/ wire = <<>>) /\ Len(inbox) <= 23
  <2>1. InBlock
    BY <1>1, <1>2 DEF HealInv
  <2> QED
    BY <1>1, <1>2, <2>1 DEF InBlock
<1>4. inbox' = <<>> /\ Len(inbox') = 0
  <2>1. Len(inbox) <= ReadLines
    BY <1>2, <1>3
  <2> QED
    BY <2>1, ReadsSome
<1>5. read \in Seq(Result) /\ Len(read) = query - 1 /\ Len(read) >= 1
  <2>1. read \in Seq(Result) /\ Len(read) = query - 1
    BY <1>1 DEF IInv, ReadInv
  <2> QED
    BY <1>2, <2>1
<1>6. calm >= 4 => read[1] = FromLines(Split(Whole(poll)))
  BY <1>2, <1>5 DEF HealInv
<1>7. Whole(poll)' = Whole(poll) /\ (query' = query => Block(query)' = Block(query))
  BY <1>1 DEF Whole, Block
<1>8. CASE UNCHANGED <<query, reading, read, data, success>>
  <2>1. InBlock'
    BY <1>1, <1>3, <1>4, <1>7, <1>8 DEF InBlock
  <2> QED
    BY <1>1, <1>2, <1>6, <1>7, <1>8, <2>1 DEF HealInv
<1>9. CASE Complete(Split(buffer'), Asked) /\ reading' = FALSE /\ Take(Split(buffer'))
  <2> DEFINE v == Got(Split(buffer'))
             all == Append(read, v)
  <2>1. wire = <<>>
    <3>1. ASSUME wire = Block(query) PROVE FALSE
      <4>1. Len(wire) = 1 /\ wire[1].from = 0
        BY <1>1, <1>2, <3>1, BlockReply
      <4>2. 1 \in 1..Len(wire)
        BY <4>1
      <4> QED
        BY <1>9, <4>1, <4>2, BlockAnswer
    <3> QED
      BY <1>3, <3>1
  <2>2. v \in Result
    BY <1>9, GotResult
  <2>3. IF query = 6
        THEN /\ data' = [poll |-> poll, overview |-> all[1], blocks |-> Tail(all)]
             /\ success' = TRUE /\ query' = 0
        ELSE read' = all /\ query' = query
    BY <1>9, ScriptOf DEF Take
  <2> HIDE DEF v
  <2>4. all[1] = read[1]
    BY <1>5, <2>2
  <2> HIDE DEF all
  <2>5. CASE query = 6
    <3>1. data'.poll = poll' /\ data'.overview = read[1] /\ success' /\ query' = 0
      BY <1>1, <2>3, <2>4, <2>5
    <3>2. Left(inbox', calm', poll')
      BY <1>1, <1>2, <1>4, Rests DEF Left
    <3>3. calm' >= 4 => Fresh'
      BY <1>1, <1>6, <1>7, <3>1 DEF Fresh, Whole
    <3>4. BetweenPolls'
      BY <1>1, <2>1, <3>2, <3>3 DEF BetweenPolls
    <3> QED
      BY <3>1, <3>4 DEF HealInv
  <2>6. CASE query # 6
    <3>1. query' = query /\ read'[1] = read[1]
      BY <2>3, <2>4, <2>6
    <3>2. /\ query' # 0 /\ query' # 1 /\ ~reading' /\ wire' = <<>> /\ inbox' = <<>>
          /\ (calm' >= 4 => read'[1] = FromLines(Split(Whole(poll)')))
      BY <1>1, <1>2, <1>4, <1>6, <1>7, <1>9, <2>1, <3>1
    <3> QED
      BY <3>2 DEF HealInv
  <2> QED
    BY <2>5, <2>6
<1> QED
  BY <1>8, <1>9, ChunkEnds

\* What a read of an overview leaves, and when its length tests can fail.
LEMMA OverviewReads ==
  ASSUME ReadLines >= 30, IInv, HealInv, Chunk, query = 1, calm >= 1
  PROVE  LET lines == Split(buffer')
         IN  /\ \/ wire = Whole(poll) /\ inbox' = <<>> /\ calm <= 3
                \/ wire = <<>> /\ Len(inbox') <= 22 /\ (calm >= 4 => inbox' = <<>>)
             /\ calm >= 4 => buffer' = Whole(poll)
             /\ Complete(lines, "1800") /\ Raises(lines) =>
                  \/ calm = 1 /\ wire = Whole(poll) /\ inbox' = <<>>
                  \/ wire = <<>> /\ Len(inbox') <= Rest(calm)
<1> DEFINE lines == Split(buffer')
<1>1. /\ reading /\ inbox # <<>> /\ poll \in 1..MaxPolls /\ Stretch(buffer')
      /\ AllAllowed(buffer', poll, query, reading)
  BY ChunkFacts DEF Chunk
<1>2. /\ inbox \in Seq(Piece) /\ Len(inbox) \in Nat /\ inbox' \in Seq(Piece) /\ Len(inbox') \in Nat
      /\ calm \in Nat /\ ReadLines \in Nat /\ calm <= poll /\ poll \in Nat /\ MaxPolls \in Nat
      /\ Meets(inbox, wire) /\ Stretch(inbox)
  BY ReadAssumption, BoundAssumption, ChunkFacts DEF IInv, Counters, StreamInv, Stretch
<1>3. InOverview
  BY <1>1 DEF HealInv
<1>4. Len(inbox) <= ReadLines => inbox' = <<>> /\ Len(inbox') = 0 /\ (buffer = <<>> => buffer' = inbox)
  BY ReadsSome
<1>5. Rest(calm) \in 0..22 /\ Rest(calm - 1) \in 0..22
  <2>1. calm - 1 \in Nat
    BY <1>2
  <2> QED
    BY <1>2, <2>1, Rests
<1>6. CASE buffer # <<>>
  <2>1. wire = <<>> /\ Len(inbox) <= 22 /\ ~(calm >= 4)
    BY <1>1, <1>3, <1>6 DEF InOverview
  <2>2. Len(inbox) <= ReadLines
    BY <1>2, <2>1
  <2> QED
    BY <1>4, <1>5, <2>1, <2>2, SMTT(30)
<1>7. CASE buffer = <<>>
  <2>1. PICK L \in Seq(Piece) :
          /\ Left(L, calm - 1, poll - 1)
          /\ \/ inbox = L /\ wire = Whole(poll)
             \/ inbox = L \o Whole(poll) /\ wire = <<>>
    BY <1>3, <1>7 DEF InOverview
  <2>2. Whole(poll) \in Seq(Piece) /\ Len(Whole(poll)) = 22
    BY <1>1, WholeReply
  \* All of the overview before is left only to the second poll.
  <2>3. Len(L) <= Rest(calm - 1)
        \/ /\ calm = 2 /\ L = Whole(poll - 1) /\ Len(L) = 22
           /\ L[1].slot = 1 /\ L[1].from = 0 /\ L[1].line \notin Blocks /\ L[Len(L)].to = Full
    <3>1. CASE Len(L) <= Rest(calm - 1)
      BY <3>1
    <3>2. CASE calm - 1 = 1 /\ L = Whole(poll - 1)
      <4>1. calm = 2 /\ poll - 1 \in 1..MaxPolls
        BY <1>1, <1>2, <3>2
      <4>2. Len(L) \in 1..Len(L)
        BY <3>2, <4>1, WholeReply
      <4> QED
        BY <3>2, <4>1, <4>2, WholeReply
    <3> QED
      BY <2>1, <3>1, <3>2 DEF Left
  <2>4. Len(L) \in Nat /\ Len(L) <= 22
    <3>1. \A a \in 0..22, b \in Nat : b <= a => b <= 22
      OBVIOUS
    <3>2. Len(L) \in Nat
      BY <2>1
    <3> QED
      BY <1>5, <2>3, <3>1, <3>2, SMTT(30)
  <2>5. calm >= 4 => L = <<>>
    <3> SUFFICES ASSUME calm >= 4 PROVE L = <<>>
      OBVIOUS
    <3>1. calm - 1 \in Nat /\ calm - 1 >= 3
      BY <1>2
    <3>2. Rest(calm - 1) = 0 /\ calm # 2
      BY <1>2, <3>1, Rests
    <3> QED
      BY <2>1, <2>3, <2>4, <3>2, EmptySeq
  \* An overview that is whole at the front raises no error.
  <2>6. (L = Whole(poll - 1) /\ calm = 2 /\ Len(buffer') >= 22 /\ Len(L) = 22
         /\ L[1].slot = 1 /\ L[1].from = 0 /\ L[1].line \notin Blocks /\ L[22].to = Full
         /\ buffer'[1] = L[1] /\ buffer'[22] = L[22]) => ~Raises(lines)
    BY <1>1, WholeIsNoError
  <2>7. CASE inbox = L /\ wire = Whole(poll)
    <3>1. inbox' = <<>> /\ buffer' = L
      BY <1>2, <1>4, <1>7, <2>4, <2>7
    <3>2. calm <= 3
      BY <1>1, <1>2, <2>5, <2>7
    <3>3. ASSUME Complete(lines, "1800"), Raises(lines) PROVE calm = 1
      <4>1. ~(calm = 2 /\ Len(L) = 22 /\ L = Whole(poll - 1) /\ L[1].slot = 1 /\ L[1].from = 0
              /\ L[1].line \notin Blocks /\ L[Len(L)].to = Full)
        <5> SUFFICES ASSUME calm = 2, Len(L) = 22, L = Whole(poll - 1), L[1].slot = 1, L[1].from = 0,
                            L[1].line \notin Blocks, L[Len(L)].to = Full
                     PROVE  FALSE
          OBVIOUS
        <5>1. Len(buffer') >= 22 /\ buffer'[1] = L[1] /\ buffer'[22] = L[22]
          BY <3>1
        <5>2. L[22].to = Full
          OBVIOUS
        <5> QED
          BY <2>6, <3>3, <5>1, <5>2
      <4>2. Len(L) <= Rest(calm - 1)
        BY <2>3, <4>1
      <4>3. ~(Len(L) <= 14)
        <5>1. wire # <<>> /\ wire[1].from = 0 /\ wire[1].slot = 1
          BY <1>1, <2>7, WholeReply
        <5>2. Finished(L)
          BY <1>2, <2>7, <5>1, EndsBefore
        <5>3. \A i \in 1..Len(L) : ~(L[i].from = 0 /\ L[i].line \in Blocks)
          <6>1. ~(reading /\ query >= 2)
            OBVIOUS
          <6> QED
            BY <1>1, <3>1, <6>1, NotReadingNoBlock
        <5> QED
          BY <1>1, <3>1, <3>3, <5>2, <5>3, RestIsNoAnswer
      <4>4. ~(calm = 2)
        BY <4>2, <4>3, Rests
      <4>5. ~(calm = 3)
        BY <2>4, <4>2, <4>3, Rests
      <4> QED
        BY <1>2, <3>2, <4>4, <4>5
    <3> QED
      BY <1>2, <2>7, <3>1, <3>2, <3>3
  <2>8. CASE inbox = L \o Whole(poll) /\ wire = <<>>
    <3>1. /\ Len(inbox) = Len(L) + 22
          /\ \A i \in 1..Len(L) : inbox[i] = L[i]
      <4> DEFINE w == Whole(poll)
      <4>1. w \in Seq(Piece) /\ Len(w) = 22 /\ inbox = L \o w
        BY <2>2, <2>8
      <4> HIDE DEF w
      <4>2. /\ Len(inbox) = Len(L) + Len(w)
            /\ \A i \in 1..(Len(L) + Len(w)) : inbox[i] = IF i <= Len(L) THEN L[i] ELSE w[i - Len(L)]
        BY <2>1, <4>1, ConcatProperties
      <4> QED
        BY <2>4, <4>1, <4>2
    <3>2. CASE Len(inbox) <= ReadLines
      <4>1. inbox' = <<>> /\ Len(inbox') = 0 /\ buffer' = inbox
        BY <1>4, <1>7, <3>2
      <4>2. calm >= 4 => inbox = Whole(poll)
        BY <2>2, <2>5, <2>8, ConcatEmptySeq
      <4> QED
        BY <1>5, <2>8, <4>1, <4>2, SMTT(30)
    <3>3. CASE Len(inbox) > ReadLines
      <4>1. /\ Len(inbox') + ReadLines <= Len(inbox) /\ Len(buffer') >= ReadLines
            /\ \A i \in 1..ReadLines : buffer'[i] = inbox[i]
        BY <1>7, <3>3, ReadsSome
      <4>2. Len(inbox') + 8 <= Len(L) /\ Len(L) >= 9
        BY <1>2, <2>4, <3>1, <3>3, <4>1
      <4>3. ~(calm >= 4) /\ Len(inbox') <= 14
        BY <1>2, <2>4, <2>5, <4>2
      <4>4. ASSUME Raises(lines) PROVE Len(inbox') <= Rest(calm)
        <5>1. ~(calm = 2 /\ Len(L) = 22 /\ L = Whole(poll - 1) /\ L[1].slot = 1 /\ L[1].from = 0
                /\ L[1].line \notin Blocks /\ L[Len(L)].to = Full)
          <6>1. \A i \in 1..22 : i \in 1..ReadLines
            BY <1>2
          <6>2. ASSUME Len(L) = 22 PROVE buffer'[1] = L[1] /\ buffer'[22] = L[22]
            <7>1. \A i \in 1..22 : inbox[i] = L[i] /\ buffer'[i] = inbox[i]
              BY <3>1, <4>1, <6>1, <6>2
            <7>2. \A i \in 1..22 : buffer'[i] = L[i]
              BY <7>1
            <7> HIDE <7>1
            <7> QED
              BY <7>2
          <6>3. Len(buffer') >= 22
            <7>1. Len(buffer') \in Nat
              BY <1>1 DEF Stretch
            <7> QED
              BY <1>2, <4>1, <7>1
          <6> QED
            BY <2>6, <4>4, <6>2, <6>3
        <5>2. Len(L) <= Rest(calm - 1)
          BY <2>3, <5>1
        <5>3. CASE calm = 1
          BY <4>3, <5>3, Rests
        <5>4. CASE calm = 2
          <6>1. Len(L) <= 14
            BY <5>2, <5>4, Rests
          <6> QED
            BY <1>2, <2>4, <4>2, <5>4, <6>1, Rests
        <5>5. CASE calm >= 3
          <6>1. calm = 3
            BY <1>2, <4>3, <5>5
          <6>2. Len(L) <= 6
            BY <5>2, <6>1, Rests
          <6> QED
            BY <2>4, <4>2, <6>2
        <5> QED
          BY <1>2, <5>3, <5>4, <5>5
      <4>5. Len(inbox') <= 22
        BY <1>2, <4>3
      <4> QED
        BY <2>8, <4>3, <4>4, <4>5
    <3> QED
      BY <1>2, <3>2, <3>3
  <2> QED
    BY <2>1, <2>7, <2>8
<1> QED
  BY <1>6, <1>7

LEMMA OverviewHeal ==
  ASSUME ReadLines >= 30, IInv, HealInv, Chunk, query = 1
  PROVE  HealInv'
<1> DEFINE lines == Split(buffer')
<1>1. reading /\ poll \in 1..MaxPolls /\ Stretch(buffer') /\ UNCHANGED <<poll, wire, calm>>
  BY ChunkFacts
<1> SUFFICES ASSUME calm >= 1 PROVE HealInv'
  BY <1>1 DEF HealInv
<1>2. /\ \/ wire = Whole(poll) /\ inbox' = <<>> /\ calm <= 3
         \/ wire = <<>> /\ Len(inbox') <= 22 /\ (calm >= 4 => inbox' = <<>>)
      /\ calm >= 4 => buffer' = Whole(poll)
      /\ Complete(lines, "1800") /\ Raises(lines) =>
           \/ calm = 1 /\ wire = Whole(poll) /\ inbox' = <<>>
           \/ wire = <<>> /\ Len(inbox') <= Rest(calm)
  BY OverviewReads
<1>3. /\ calm \in Nat /\ read \in Seq(Result) /\ Len(read) = 0 /\ buffer' # <<>>
      /\ Whole(poll)' = Whole(poll)
  BY <1>1, ReadsSome DEF IInv, Counters, ReadInv, Whole
<1>4. calm >= 4 => ~Raises(lines) /\ lines = Split(Whole(poll))
  <2> SUFFICES ASSUME calm >= 4 PROVE ~Raises(lines) /\ lines = Split(Whole(poll))
    OBVIOUS
  <2>1. buffer' = Whole(poll)
    BY <1>2
  <2>2. /\ Len(buffer') = 22 /\ buffer'[1].slot = 1 /\ buffer'[1].from = 0
        /\ buffer'[1].line \notin Blocks /\ buffer'[Len(buffer')].to = Full
    <3>1. Len(Whole(poll)) \in 1..Len(Whole(poll))
      BY <1>1, WholeReply
    <3> QED
      BY <1>1, <2>1, <3>1, WholeReply
  <2>3. buffer'[22].to = Full /\ Len(buffer') >= 22
    BY <2>2
  <2> QED
    BY <1>1, <2>1, <2>2, <2>3, WholeIsNoError
<1> HIDE DEF lines
<1>5. CASE UNCHANGED <<query, reading, read, data, success>>
  <2>1. InOverview'
    BY <1>1, <1>2, <1>3 DEF InOverview
  <2> QED
    BY <1>1, <1>3, <1>5, <2>1 DEF HealInv
<1>6. CASE Complete(lines, Asked) /\ Raises(lines) /\ FailPoll
  <2>1. Asked = "1800" /\ query' = 0
    BY <1>6, ScriptOf DEF Asked, FailPoll
  <2>2. \/ calm = 1 /\ wire = Whole(poll) /\ inbox' = <<>>
        \/ wire = <<>> /\ Len(inbox') <= Rest(calm)
    BY <1>2, <1>6, <2>1
  <2>3. ~(calm >= 4)
    BY <1>4, <1>6
  <2>4. BetweenPolls'
    BY <1>1, <1>3, <2>2, <2>3 DEF BetweenPolls, Left
  <2> QED
    BY <2>1, <2>4 DEF HealInv
<1>7. CASE Complete(lines, Asked) /\ ~Raises(lines) /\ reading' = FALSE /\ Take(lines)
  <2> DEFINE v == Got(lines)
             all == Append(read, v)
  <2>1. query' = 1 /\ read' = all
    BY <1>7, ScriptOf DEF Take
  <2>2. v = FromLines(lines)
    BY ScriptOf DEF Got, Asked
  <2>3. v \in Result
    BY <1>7, GotResult DEF lines
  <2> HIDE DEF v
  <2>4. all[1] = v
    BY <1>3, <2>3
  <2>5. calm' >= 4 => read'[1] = FromLines(Split(Whole(poll)'))
    BY <1>1, <1>3, <1>4, <2>1, <2>2, <2>4
  <2>6. AfterOverview'
    BY <1>1, <1>2, <1>3 DEF AfterOverview
  <2> QED
    BY <1>7, <2>1, <2>5, <2>6 DEF HealInv
<1>8. \/ UNCHANGED <<query, reading, read, data, success>>
      \/ /\ Complete(lines, Asked) /\ reading' = FALSE
         /\ IF query = 1 /\ Raises(lines) THEN FailPoll ELSE Take(lines)
  BY ChunkEnds DEF lines
<1> QED
  BY <1>5, <1>6, <1>7, <1>8

\* When a read holds thirty lines, whatever cuts, failed queries and writes have
\* left in the stream is used up by the fourth poll that begins after them: it
\* publishes its own overview, whole.
THEOREM HealsByFourthPoll ==
  ASSUME ReadLines >= 30
  PROVE  Spec => []HealsInFourPolls
<1>1. Init => HealInv
  BY DEF Init, HealInv
<1>2. IInv /\ AgeInv /\ HealInv /\ [Next]_vars => HealInv'
  <2> SUFFICES ASSUME IInv, AgeInv, HealInv, [Next]_vars PROVE HealInv'
    OBVIOUS
  <2>1. CASE UNCHANGED vars
    BY <2>1 DEF vars, HealInv, BetweenPolls, InOverview, AfterOverview, InBlock, Left, Whole,
                Block, Fresh
  <2>2. CASE Fails \/ WriteReads \/ SetterReads
    BY <2>2 DEF Fails, WriteReads, SetterReads, Disturb, HealInv
  <2> QED
    BY <2>1, <2>2, QueryHeal, BlockHeal, OverviewHeal, ArriveHeal DEF Next
<1>3. IInv /\ HealInv => HealsInFourPolls
  <2> SUFFICES ASSUME IInv, HealInv, query = 0, calm >= 4 PROVE Fresh
    BY DEF HealsInFourPolls
  <2>1. calm >= 1
    BY DEF IInv, Counters
  <2> QED
    BY <2>1 DEF HealInv, BetweenPolls
<1>4. ReadLines >= 22
  BY ReadAssumption
<1> QED
  BY <1>1, <1>2, <1>3, <1>4, Inductive, Aging, PTL DEF Spec

=============================================================================

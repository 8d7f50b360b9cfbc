-------------------------- MODULE TransportProofs --------------------------
(* Theorems about Transport, for every number of tasks, blocks and calls,  *)
(* and that it implements SerialLine.                                      *)
EXTENDS Transport, SequenceTheorems, TLAPS

----------------------------------------------------------------------------
(* The lock.  Every step of a task either keeps the lock (Goto) or gives it *)
(* back (Release); Acquire, Leave and these two are all that touch it.      *)

LockTypeOK ==
  /\ holder \in Task \cup {NoTask} /\ waiters \in Seq(Task)
  /\ pc \in [Task -> {"idle", "waiting"} \cup Holding]

LockIInv == LockTypeOK /\ LockInv

\* What the three lock variables keep when t takes a step of its own.
LEMMA GotoKeepsLock ==
  ASSUME LockIInv, NEW t \in Task, pc[t] \in Holding, NEW p \in Holding,
         pc' = [pc EXCEPT ![t] = p], UNCHANGED lockVars
  PROVE  LockIInv'
BY DEF LockIInv, LockTypeOK, LockInv, Holding, lockVars

\* A release hands the lock to the first waiter, if there is one.
LEMMA ReleaseKeepsLock ==
  ASSUME LockIInv, NEW t \in Task, pc[t] \in Holding, Release(t)
  PROVE  LockIInv'
<1>1. CASE waiters = <<>>
  BY <1>1, NullAssumption DEF Release, LockIInv, LockTypeOK, LockInv, Holding
<1>2. CASE waiters # <<>>
  <2>1. /\ Head(waiters) \in Task /\ pc[Head(waiters)] = "waiting"
        /\ Head(waiters) # t
    BY <1>2 DEF LockIInv, LockTypeOK, LockInv, Holding
  <2>2. /\ Tail(waiters) \in Seq(Task) /\ Len(Tail(waiters)) = Len(waiters) - 1
        /\ \A i \in DOMAIN Tail(waiters) :
             i + 1 \in DOMAIN waiters /\ Tail(waiters)[i] = waiters[i + 1]
    BY <1>2 DEF LockIInv, LockTypeOK
  <2>3. /\ holder' = Head(waiters) /\ waiters' = Tail(waiters)
        /\ pc' = [pc EXCEPT ![t] = "idle", ![Head(waiters)] = "ready"]
    BY <1>2 DEF Release
  <2>4. LockTypeOK'
    BY <2>1, <2>2, <2>3 DEF LockIInv, LockTypeOK, Holding
  <2>5. \A u \in Task : (pc[u] \in Holding <=> holder = u)'
    BY <2>1, <2>3 DEF LockIInv, LockTypeOK, LockInv, Holding
  <2>6. \A i, j \in DOMAIN waiters' : waiters'[i] = waiters'[j] => i = j
    BY <2>2, <2>3 DEF LockIInv, LockTypeOK, LockInv
  <2>7. \A u \in Task :
          (pc[u] = "waiting" <=> \E i \in DOMAIN waiters : waiters[i] = u)'
    <3> SUFFICES ASSUME NEW u \in Task
                 PROVE  pc'[u] = "waiting"
                          <=> \E i \in DOMAIN waiters' : waiters'[i] = u
      OBVIOUS
    <3>1. pc'[u] = "waiting" <=> pc[u] = "waiting" /\ u # Head(waiters)
      BY <2>1, <2>3 DEF LockIInv, LockTypeOK, Holding, LockInv
    <3>2. pc[u] = "waiting" <=> \E i \in DOMAIN waiters : waiters[i] = u
      BY DEF LockIInv, LockInv
    <3>3. ASSUME NEW i \in DOMAIN waiters', waiters'[i] = u
          PROVE  u # Head(waiters) /\ \E k \in DOMAIN waiters : waiters[k] = u
      <4>1. i + 1 \in DOMAIN waiters /\ waiters[i + 1] = u /\ i \in 1..Len(Tail(waiters))
        BY <2>2, <2>3, <3>3
      <4>2. 1 \in DOMAIN waiters /\ Head(waiters) = waiters[1]
        BY <1>2 DEF LockIInv, LockTypeOK
      <4> QED
        BY <4>1, <4>2, <2>2 DEF LockIInv, LockInv
    <3>4. ASSUME NEW k \in DOMAIN waiters, waiters[k] = u, u # Head(waiters)
          PROVE  \E i \in DOMAIN waiters' : waiters'[i] = u
      <4>1. k \in 1..Len(waiters) /\ k # 1
        BY <3>4, <1>2 DEF LockIInv, LockTypeOK
      <4>2. k - 1 \in DOMAIN Tail(waiters) /\ Tail(waiters)[k - 1] = waiters[k]
        BY <4>1, <1>2 DEF LockIInv, LockTypeOK
      <4> QED
        BY <4>2, <2>3, <3>4
    <3> QED
      BY <3>1, <3>2, <3>3, <3>4
  <2>8. holder' # NoTask
    BY <2>1, <2>3, NullAssumption
  <2> QED
    BY <2>4, <2>5, <2>6, <2>7, <2>8 DEF LockIInv, LockInv
<1> QED
  BY <1>1, <1>2

\* acquire appends to the queue, or takes the free lock.
LEMMA AcquireKeepsLock ==
  ASSUME LockIInv, NEW t \in Task, pc[t] = "idle", Acquire(t)
  PROVE  LockIInv'
<1>1. CASE holder = NoTask
  BY <1>1, NullAssumption DEF Acquire, LockIInv, LockTypeOK, LockInv, Holding
<1>2. CASE holder # NoTask
  <2>1. /\ holder' = holder /\ waiters' = Append(waiters, t)
        /\ pc' = [pc EXCEPT ![t] = "waiting"]
    BY <1>2 DEF Acquire
  <2>2. /\ waiters' \in Seq(Task) /\ Len(waiters') = Len(waiters) + 1
        /\ DOMAIN waiters' = 1..(Len(waiters) + 1)
        /\ \A i \in DOMAIN waiters : waiters'[i] = waiters[i]
        /\ waiters'[Len(waiters) + 1] = t
        /\ DOMAIN waiters = 1..Len(waiters) /\ Len(waiters) \in Nat
    BY <2>1 DEF LockIInv, LockTypeOK
  <2>3. \A i \in DOMAIN waiters : waiters[i] # t
    BY DEF LockIInv, LockInv
  <2>4. LockTypeOK'
    BY <2>1, <2>2 DEF LockIInv, LockTypeOK
  <2>5. \A u \in Task : (pc[u] \in Holding <=> holder = u)'
    BY <2>1 DEF LockIInv, LockTypeOK, LockInv, Holding
  <2>6. \A i, j \in DOMAIN waiters' : waiters'[i] = waiters'[j] => i = j
    BY <2>2, <2>3 DEF LockIInv, LockInv
  <2>7. \A u \in Task :
          (pc[u] = "waiting" <=> \E i \in DOMAIN waiters : waiters[i] = u)'
    <3> SUFFICES ASSUME NEW u \in Task
                 PROVE  pc'[u] = "waiting"
                          <=> \E i \in DOMAIN waiters' : waiters'[i] = u
      OBVIOUS
    <3>1. pc'[u] = "waiting" <=> u = t \/ pc[u] = "waiting"
      BY <2>1 DEF LockIInv, LockTypeOK
    <3>2. (\E i \in DOMAIN waiters' : waiters'[i] = u)
            <=> u = t \/ \E i \in DOMAIN waiters : waiters[i] = u
      BY <2>2
    <3> QED
      BY <3>1, <3>2 DEF LockIInv, LockInv
  <2> QED
    BY <1>2, <2>1, <2>4, <2>5, <2>6, <2>7 DEF LockIInv, LockInv
<1> QED
  BY <1>1, <1>2

\* A sequence without its element at k: the ones behind it move up.
Without(s, k) == SubSeq(s, 1, k - 1) \o SubSeq(s, k + 1, Len(s))

LEMMA DropOne ==
  ASSUME NEW S, NEW s \in Seq(S), NEW k \in 1..Len(s)
  PROVE  /\ Without(s, k) \in Seq(S) /\ Len(Without(s, k)) = Len(s) - 1
         /\ DOMAIN Without(s, k) = 1..(Len(s) - 1)
         /\ \A i \in 1..(Len(s) - 1) : Without(s, k)[i] = s[IF i < k THEN i ELSE i + 1]
<1> DEFINE n == Len(s)
           r == Without(s, k)
           front == SubSeq(s, 1, k - 1)
           rest == SubSeq(s, k + 1, n)
<1>1. n \in Nat /\ k \in 1..n
  OBVIOUS
<1>2. /\ front \in Seq(S) /\ Len(front) = k - 1
      /\ \A i \in 1..(k - 1) : front[i] = s[i]
  BY <1>1
<1>3. /\ rest \in Seq(S) /\ Len(rest) = n - k
      /\ \A i \in 1..(n - k) : rest[i] = s[k + i]
  BY <1>1
<1> HIDE DEF front, rest, n, r
<1>4. /\ front \o rest \in Seq(S) /\ Len(front \o rest) = Len(front) + Len(rest)
      /\ \A i \in 1..(Len(front) + Len(rest)) :
           (front \o rest)[i] = IF i <= Len(front) THEN front[i] ELSE rest[i - Len(front)]
  <2>1. front \in Seq(S) /\ rest \in Seq(S)
    BY <1>2, <1>3
  <2> QED
    BY ONLY <2>1, ConcatProperties, Zenon
<1>5. Len(front) + Len(rest) = n - 1 /\ r = front \o rest
  <2>1. Len(front) + Len(rest) = n - 1
    BY <1>1, <1>2, <1>3
  <2>2. r = front \o rest
    BY DEF front, rest, n, r, Without
  <2> QED
    BY <2>1, <2>2
<1>6. r \in Seq(S) /\ Len(r) = n - 1 /\ DOMAIN r = 1..(n - 1)
  <2>1. r \in Seq(S) /\ Len(r) = n - 1
    BY <1>4, <1>5
  <2> QED
    BY <2>1, LenProperties
<1>7. ASSUME NEW i \in 1..(n - 1), i < k
      PROVE  r[i] = s[i]
  <2>1. i \in 1..(k - 1) /\ i <= k - 1
    BY <1>1, <1>7
  <2>2. r[i] = front[i]
    BY <1>2, <1>4, <1>5, <2>1
  <2> QED
    BY <1>2, <2>1, <2>2
<1>8. ASSUME NEW i \in 1..(n - 1), ~(i < k)
      PROVE  r[i] = s[i + 1]
  <2>1. i - (k - 1) \in 1..(n - k) /\ k + (i - (k - 1)) = i + 1 /\ ~(i <= k - 1)
    BY <1>1, <1>8
  <2>2. rest[i - (k - 1)] = s[i + 1]
    BY <1>3, <2>1
  <2>3. r[i] = rest[i - (k - 1)]
    BY <1>2, <1>4, <1>5, <2>1
  <2> QED
    BY <2>2, <2>3
<1> QED
  BY <1>6, <1>7, <1>8 DEF n, r

\* A cancelled waiter leaves the queue; the others keep their order.
LEMMA LeaveKeepsLock ==
  ASSUME LockIInv, NEW t \in Task, pc[t] = "waiting", NEW k \in DOMAIN waiters,
         waiters[k] = t, waiters' = WithoutWaiter(k),
         pc' = [pc EXCEPT ![t] = "idle"], holder' = holder
  PROVE  LockIInv'
<1> DEFINE n == Len(waiters)
           old(i) == IF i < k THEN i ELSE i + 1
<1>1. n \in Nat /\ DOMAIN waiters = 1..n /\ k \in 1..n
  BY DEF LockIInv, LockTypeOK
<1>2. /\ waiters' \in Seq(Task) /\ DOMAIN waiters' = 1..(n - 1)
      /\ \A i \in 1..(n - 1) : waiters'[i] = waiters[old(i)]
  <2>1. waiters \in Seq(Task)
    BY DEF LockIInv, LockTypeOK
  <2> QED
    BY <1>1, <2>1, DropOne DEF WithoutWaiter, Without
<1>3. \A i \in 1..(n - 1) : old(i) \in 1..n /\ old(i) # k
  BY <1>1
<1>4. \A i, j \in 1..(n - 1) : old(i) = old(j) => i = j
  BY <1>1
<1>5. \A j \in 1..n : j # k => \E i \in 1..(n - 1) : old(i) = j
  <2> SUFFICES ASSUME NEW j \in 1..n, j # k
               PROVE  \E i \in 1..(n - 1) : old(i) = j
    OBVIOUS
  <2>1. CASE j < k
    <3>1. j \in 1..(n - 1)
      BY <1>1, <2>1
    <3>2. old(j) = j
      BY <2>1
    <3> QED
      BY <3>1, <3>2
  <2>2. CASE j > k
    <3>1. j - 1 \in 1..(n - 1)
      BY <1>1, <2>2
    <3>2. old(j - 1) = j
      BY <1>1, <2>2
    <3> QED
      BY <3>1, <3>2
  <2> QED
    BY <1>1, <2>1, <2>2
<1> HIDE DEF old, n
<1>6. LockTypeOK'
  BY <1>2 DEF LockIInv, LockTypeOK
<1>7. \A u \in Task : (pc[u] \in Holding <=> holder = u)'
  BY DEF LockIInv, LockTypeOK, LockInv, Holding
<1>8. \A i, j \in DOMAIN waiters' : waiters'[i] = waiters'[j] => i = j
  BY <1>1, <1>2, <1>3, <1>4 DEF LockIInv, LockInv
<1>9. \A u \in Task :
        (pc[u] = "waiting" <=> \E i \in DOMAIN waiters : waiters[i] = u)'
  <2> SUFFICES ASSUME NEW u \in Task
               PROVE  pc'[u] = "waiting" <=> \E i \in DOMAIN waiters' : waiters'[i] = u
    OBVIOUS
  <2>1. pc'[u] = "waiting" <=> u # t /\ \E j \in 1..n : waiters[j] = u
    BY <1>1 DEF LockIInv, LockTypeOK, LockInv
  <2>2. (\E i \in DOMAIN waiters' : waiters'[i] = u)
          <=> \E j \in 1..n : j # k /\ waiters[j] = u
    BY <1>2, <1>3, <1>5
  <2>3. \A j \in 1..n : waiters[j] = t <=> j = k
    BY <1>1 DEF LockIInv, LockInv
  <2> QED
    BY <2>1, <2>2, <2>3
<1>10. holder' # NoTask
  BY <1>1, EmptySeq DEF LockIInv, LockInv, LockTypeOK
<1> QED
  BY <1>6, <1>7, <1>8, <1>9, <1>10 DEF LockIInv, LockInv

----------------------------------------------------------------------------
(* Types.  TypeOK is the types of the lock and those of everything else,    *)
(* grouped by the operators that change them together.                      *)

EndTypeOK ==
  /\ res \in [Task -> Outcomes] /\ outcome \in [CallId -> Outcomes]
  /\ lastEnded \in Calls
PortTypeOK ==
  /\ writer \in {"none", "open", "closed", "failed"} /\ connected \in BOOLEAN
  /\ rx \in Seq(Replies)
SentTypeOK == tx \in Seq(Frames) /\ last \in Frames
CtrlTypeOK == session \in Sessions /\ applied \subseteq CallId
CallTypeOK ==
  /\ work \in [Task -> Calls] /\ token \in [Task -> BOOLEAN]
  /\ calls \in 0..MaxOps
HistTypeOK ==
  /\ got \in [CallId -> 0..MaxOps] /\ saw779 \subseteq CallId
  /\ committed \subseteq CallId
FaultTypeOK ==
  faults \in [cancel : 0..MaxCancels, desync : 0..MaxDesyncs, drop : 0..MaxDrops]

\* The type invariant is the conjunction of its parts, now and after a step.
LEMMA TypeParts ==
  /\ TypeOK <=> /\ LockTypeOK /\ EndTypeOK /\ PortTypeOK /\ SentTypeOK
                /\ CtrlTypeOK /\ CallTypeOK /\ HistTypeOK /\ FaultTypeOK
  /\ TypeOK' <=> /\ LockTypeOK' /\ EndTypeOK' /\ PortTypeOK' /\ SentTypeOK'
                 /\ CtrlTypeOK' /\ CallTypeOK' /\ HistTypeOK' /\ FaultTypeOK'
BY DEF TypeOK, LockTypeOK, EndTypeOK, PortTypeOK, SentTypeOK, CtrlTypeOK,
       CallTypeOK, HistTypeOK, FaultTypeOK

\* A task that is in a call has a number; a task in a handshake is in a write,
\* a task that awaits a reply or recovers is in a read.
CallInv ==
  \A t \in Task :
    /\ pc[t] # "idle" => work[t].id \in CallId
    /\ pc[t] \in {"opened", "paid", "committing", "aborting"} => work[t].kind = "write"
    /\ pc[t] \in {"reading", "recovering"} => work[t].kind = "read"

Base == TypeOK /\ LockInv /\ CallInv

\* What a call sends is a frame.
LEMMA FrameType ==
  ASSUME TypeOK, NEW t \in Task, NEW c \in Commands, NEW r \in Reg \cup {AnyReg}
  PROVE  Frame(t, c, r) \in Frames
BY DEF TypeOK, Frame, Frames, Calls

\* Sending a frame keeps the types of the line.
LEMMA SendType ==
  ASSUME TypeOK, NEW f \in Frames, Send(f)
  PROVE  SentTypeOK'
BY DEF TypeOK, SentTypeOK, Send

\* So does sending nothing.
LEMMA SilentType ==
  ASSUME TypeOK, Silent
  PROVE  SentTypeOK'
BY DEF TypeOK, SentTypeOK, Silent

\* A call that ends keeps the types of results and outcomes.
LEMMA FinishType ==
  ASSUME TypeOK, NEW t \in Task, NEW r \in Outcomes, Finish(t, r), res' = res
  PROVE  EndTypeOK'
BY DEF TypeOK, EndTypeOK, Finish, Release

\* So does one that goes on, with or without a result noted.
LEMMA GotoType ==
  ASSUME TypeOK, NEW t \in Task, NEW p \in Holding, NEW r \in Outcomes, Goto(t, p),
         res' = res \/ res' = [res EXCEPT ![t] = r]
  PROVE  EndTypeOK'
BY DEF TypeOK, EndTypeOK, Goto

\* _close_locked keeps the types of the port and of results.
LEMMA CloseThenType ==
  ASSUME TypeOK, NEW t \in Task, NEW r \in Outcomes, CloseThen(t, r)
  PROVE  EndTypeOK' /\ PortTypeOK'
<1>1. EndTypeOK'
  <2>1. CASE writer = "open"
    <3>1. Goto(t, "closing") /\ res' = [res EXCEPT ![t] = r] /\ "closing" \in Holding
      BY <2>1 DEF CloseThen, Holding
    <3> QED
      BY <3>1, GotoType
  <2>2. CASE writer # "open"
    BY <2>2, FinishType DEF CloseThen
  <2> QED
    BY <2>1, <2>2
<1>2. rx' \in Seq(Replies)
  BY DEF CloseThen
<1>3. writer' \in {"none", "closed"} /\ connected' \in {connected, FALSE}
  BY DEF CloseThen
<1>4. connected \in BOOLEAN
  BY DEF TypeOK
<1> QED
  BY <1>1, <1>2, <1>3, <1>4 DEF PortTypeOK

\* _abort_locked up to its pause keeps the types of the line and of results.
LEMMA AbortThenType ==
  ASSUME TypeOK, NEW t \in Task, NEW r \in Outcomes, AbortThen(t, r),
         work[t].reg \in Reg \cup {AnyReg}
  PROVE  EndTypeOK' /\ SentTypeOK'
<1>1. CASE writer = "open"
  <2>1. /\ Goto(t, "aborting") /\ res' = [res EXCEPT ![t] = r]
        /\ "aborting" \in Holding /\ Send(Frame(t, "cancel", work[t].reg))
    BY <1>1 DEF AbortThen, Holding
  <2>2. Frame(t, "cancel", work[t].reg) \in Frames
    BY FrameType DEF Commands
  <2> QED
    BY <2>1, <2>2, GotoType, SendType
<1>2. CASE writer # "open"
  BY <1>2, FinishType, SilentType DEF AbortThen
<1> QED
  BY <1>1, <1>2

\* The 999 of an abort keeps the types of the line.
LEMMA Final999Type ==
  ASSUME TypeOK, NEW t \in Task, SendFinal999(t)
  PROVE  SentTypeOK'
<1>1. Frame(t, "commit", AnyReg) \in Frames
  BY FrameType DEF Commands
<1> QED
  BY <1>1, SendType, SilentType DEF SendFinal999

\* Only calls see a 779.
LEMMA SawType ==
  ASSUME Base, NEW t \in Task, pc[t] # "idle", NEW chunk, Saw(t, chunk)
  PROVE  saw779' \subseteq CallId
BY DEF Base, TypeOK, CallInv, Saw

\* What a peek leaves in the buffer are replies.
LEMMA Rest256Type ==
  ASSUME TypeOK
  PROVE  Rest256 \in Seq(Replies)
<1>1. /\ rx \in Seq(Replies) /\ Len(rx) \in Nat /\ PeekItems \in Nat
  BY BoundAssumption DEF TypeOK
<1>2. ASSUME NEW k \in 0..Len(rx)
      PROVE  SubSeq(rx, Len(SubSeq(rx, 1, k)) + 1, Len(rx)) \in Seq(Replies)
  <2>1. \A i \in 1..Len(rx) : rx[i] \in Replies
    BY <1>1
  <2>2. Len(SubSeq(rx, 1, k)) = k
    BY <1>1, <2>1
  <2>3. \A i \in (k + 1)..Len(rx) : rx[i] \in Replies
    BY <1>1, <2>1
  <2>4. SubSeq(rx, k + 1, Len(rx)) \in Seq(Replies)
    BY <1>1, <2>3, SubSeqProperties
  <2> QED
    BY <2>2, <2>4
<1>3. (IF Len(rx) < PeekItems THEN Len(rx) ELSE PeekItems) \in 0..Len(rx)
  BY <1>1
<1> QED
  BY <1>2, <1>3 DEF Rest256, Chunk256

----------------------------------------------------------------------------
(* What a step of a task is to the lock: it is taken by the holder, which   *)
(* goes on to another suspension point or leaves.                           *)

Moves(t) == \E p \in Holding : Goto(t, p) /\ p \in {"closing"} \cup Sending
Leaves(t) == \E r \in Outcomes : Finish(t, r)

\* _close_locked either keeps the lock or gives it back.
LEMMA CloseThenShape ==
  ASSUME NEW t \in Task, NEW r \in Outcomes, CloseThen(t, r)
  PROVE  Moves(t) \/ Leaves(t)
BY DEF CloseThen, Moves, Leaves, Holding

\* So does _abort_locked.
LEMMA AbortThenShape ==
  ASSUME NEW t \in Task, NEW r \in Outcomes, AbortThen(t, r)
  PROVE  Moves(t) \/ Leaves(t)
BY DEF AbortThen, Moves, Leaves, Holding, LastSent, Sending

\* Every step of a call that has the lock keeps it or gives it back, and touches
\* neither the calls nor their tokens.
LEMMA StepShape ==
  ASSUME TypeOK, NEW t \in Task, Step(t) \/ FirstSendFails(t)
  PROVE  /\ pc[t] \in Holding /\ UNCHANGED <<work, token, calls>>
         /\ Moves(t) \/ Leaves(t)
<1>1. res[t] \in Outcomes /\ {"ok", "acked", "aborted", "error"} \subseteq Outcomes
  BY DEF TypeOK, Outcomes
<1>2. CASE Connect(t)
  BY <1>1, <1>2 DEF Connect, Leaves, Holding, histVars
<1>3. CASE Close(t)
  BY <1>1, <1>3, CloseThenShape DEF Close, Holding, histVars
<1>4. CASE Closed(t)
  BY <1>1, <1>4 DEF Closed, Leaves, Holding, histVars
<1>5. CASE Start(t)
  BY <1>5 DEF Start, Moves, Holding, LastSent, Sending, histVars
<1>6. CASE OpenFails(t) \/ FirstSendFails(t)
  BY <1>1, <1>6 DEF OpenFails, FirstSendFails, Leaves, Holding, histVars
<1>7. CASE ReadChunk(t)
  <2>1. pc[t] \in Holding /\ UNCHANGED <<work, token, calls>>
    BY <1>7 DEF ReadChunk, Holding
  <2>2. \/ CloseThen(t, "error") \/ Finish(t, "ok")
        \/ Goto(t, "recovering") \/ Goto(t, "reading")
    BY <1>7 DEF ReadChunk, Recover
  <2> QED
    BY <1>1, <2>1, <2>2, CloseThenShape DEF Moves, Leaves, Holding, LastSent, Sending
<1>8. CASE ReadFails(t) \/ Recovered(t) \/ AwaitRaises(t)
  BY <1>1, <1>8, CloseThenShape
     DEF ReadFails, Recovered, AwaitRaises, Holding, histVars
<1>9. CASE PauseEndsAborted(t) \/ PeekSees779(t) \/ AwaitAborted(t)
  BY <1>1, <1>9, AbortThenShape
     DEF PauseEndsAborted, PeekSees779, AwaitAborted, Holding, histVars
<1>10. CASE PeekRaises(t) \/ AwaitEnds(t) \/ Aborted(t)
  BY <1>1, <1>10 DEF PeekRaises, AwaitEnds, Aborted, Leaves, Holding, histVars
<1>11. CASE SendNext(t)
  <2>1. pc[t] \in Holding /\ UNCHANGED <<work, token, calls>>
    BY <1>11 DEF SendNext, Holding
  <2>2. CloseThen(t, "error") \/ Goto(t, NextPc(t))
    BY <1>11 DEF SendNext
  <2>3. NextPc(t) \in {"paid", "committing"}
    BY DEF NextPc
  <2> QED
    BY <1>1, <2>1, <2>2, <2>3, CloseThenShape DEF Moves, Holding, LastSent, Sending
<1>12. CASE AwaitChunk(t)
  BY <1>1, <1>12 DEF AwaitChunk, Moves, Leaves, Holding, LastSent, Sending
<1> QED
  BY <1>2, <1>3, <1>4, <1>5, <1>6, <1>7, <1>8, <1>9, <1>10, <1>11, <1>12 DEF Step

\* The lock and the calls that are in progress, under such a step.
LEMMA ShapeKeepsLock ==
  ASSUME TypeOK, LockInv, NEW t \in Task, pc[t] \in Holding, Moves(t) \/ Leaves(t)
  PROVE  /\ LockTypeOK' /\ LockInv'
         /\ \A u \in Task : u # t /\ pc'[u] # pc[u] => pc[u] = "waiting" /\ pc'[u] = "ready"
<1>1. LockIInv
  BY TypeParts DEF LockIInv
<1>2. CASE Moves(t)
  <2>1. LockIInv'
    BY <1>1, <1>2, GotoKeepsLock DEF Moves, Goto, lockVars
  <2> QED
    BY <1>2, <2>1 DEF LockIInv, LockTypeOK, Moves, Goto
<1>3. CASE Leaves(t)
  <2>1. LockIInv'
    BY <1>1, <1>3, ReleaseKeepsLock DEF Leaves, Finish
  <2>2. waiters # <<>> => Head(waiters) \in Task /\ pc[Head(waiters)] = "waiting"
    BY <1>1 DEF LockIInv, LockTypeOK, LockInv
  <2> QED
    BY <1>1, <1>3, <2>1, <2>2 DEF LockIInv, LockTypeOK, Leaves, Finish, Release
<1> QED
  BY <1>2, <1>3

\* A task that leaves is idle, not its own successor.
LEMMA FinishIdles ==
  ASSUME TypeOK, LockInv, NEW t \in Task, pc[t] \in Holding,
         NEW r \in Outcomes, Finish(t, r)
  PROVE  pc'[t] = "idle"
<1>1. LockTypeOK
  BY TypeParts
<1>2. waiters # <<>> => Head(waiters) # t
  BY <1>1 DEF LockTypeOK, LockInv, Holding
<1> QED
  BY <1>1, <1>2 DEF Finish, Release, LockTypeOK

\* What is left alone keeps its type.
LEMMA UnchangedTypes ==
  ASSUME TypeOK
  PROVE  /\ UNCHANGED <<portVars, rx>> => PortTypeOK'
         /\ UNCHANGED ctrlVars => CtrlTypeOK'
         /\ UNCHANGED histVars => HistTypeOK' /\ calls' = calls
         /\ UNCHANGED <<work, token, calls>> => CallTypeOK'
         /\ UNCHANGED faults => FaultTypeOK'
         /\ UNCHANGED <<outcome, lastEnded, res>> => EndTypeOK'
         /\ Silent => SentTypeOK'
BY DEF TypeOK, PortTypeOK, CtrlTypeOK, HistTypeOK, CallTypeOK, FaultTypeOK, EndTypeOK,
       SentTypeOK, portVars, ctrlVars, histVars, Silent

\* Counting a fault that the bound still allows.
LEMMA CountFault ==
  ASSUME TypeOK
  PROVE  /\ (faults.cancel < MaxCancels /\ faults' = [faults EXCEPT !.cancel = @ + 1])
              => FaultTypeOK'
         /\ (faults.desync < MaxDesyncs /\ faults' = [faults EXCEPT !.desync = @ + 1])
              => FaultTypeOK'
         /\ (faults.drop < MaxDrops /\ faults' = [faults EXCEPT !.drop = @ + 1])
              => FaultTypeOK'
<1>1. /\ faults \in [cancel : 0..MaxCancels, desync : 0..MaxDesyncs, drop : 0..MaxDrops]
      /\ MaxCancels \in Nat /\ MaxDesyncs \in Nat /\ MaxDrops \in Nat
  BY BoundAssumption DEF TypeOK
<1>2. /\ faults.cancel < MaxCancels => faults.cancel + 1 \in 0..MaxCancels
      /\ faults.desync < MaxDesyncs => faults.desync + 1 \in 0..MaxDesyncs
      /\ faults.drop < MaxDrops => faults.drop + 1 \in 0..MaxDrops
  BY <1>1
<1> QED
  BY <1>1, <1>2 DEF FaultTypeOK

\* Every step of a call keeps the types.
LEMMA StepKeepsTypes ==
  ASSUME Base, NEW t \in Task, Step(t) \/ FirstSendFails(t)
  PROVE  TypeOK'
<1>1. TypeOK /\ LockInv
  BY DEF Base
<1>2. pc[t] \in Holding /\ UNCHANGED <<work, token, calls>> /\ LockTypeOK' /\ CallTypeOK'
  BY <1>1, StepShape, ShapeKeepsLock, UnchangedTypes
<1>3. res[t] \in Outcomes /\ {"ok", "acked", "aborted", "error"} \subseteq Outcomes
  BY <1>1 DEF TypeOK, Outcomes
<1>4. work[t].reg \in Reg \cup {AnyReg} /\ work[t].id \in CallId /\ work[t].first \in Commands
  BY <1>1, <1>2 DEF Base, TypeOK, Calls, CallInv, Holding
<1>5. \A c \in Commands, r \in Reg \cup {AnyReg} : Frame(t, c, r) \in Frames
  BY <1>1, FrameType
<1>6. <<>> \in Seq(Replies) /\ Rest256 \in Seq(Replies)
  BY <1>1, Rest256Type
<1> DEFINE Rest == /\ EndTypeOK' /\ PortTypeOK' /\ SentTypeOK'
                   /\ CtrlTypeOK' /\ HistTypeOK' /\ FaultTypeOK'
<1> SUFFICES Rest
  BY <1>2, TypeParts
<1>7. CASE Connect(t)
  <2>1. Silent /\ UNCHANGED <<res, ctrlVars, histVars, faults>>
    BY <1>7 DEF Connect
  <2>2. Finish(t, "ok") \/ Finish(t, "error")
    BY <1>7 DEF Connect
  <2>3. PortTypeOK'
    BY <1>1, <1>6, <1>7 DEF Connect, TypeOK, PortTypeOK, portVars
  <2> QED
    BY <1>1, <1>3, <2>1, <2>2, <2>3, FinishType, UnchangedTypes
<1>8. CASE Close(t) \/ ReadFails(t) \/ AwaitRaises(t)
  <2>1. Silent /\ UNCHANGED <<ctrlVars, histVars, faults>>
    BY <1>8 DEF Close, ReadFails, AwaitRaises
  <2>2. CloseThen(t, "ok") \/ CloseThen(t, "error")
    BY <1>8 DEF Close, ReadFails, AwaitRaises
  <2> QED
    BY <1>1, <1>3, <2>1, <2>2, CloseThenType, UnchangedTypes
<1>9. CASE Closed(t)
  <2>1. Silent /\ UNCHANGED <<res, ctrlVars, histVars, faults>> /\ Finish(t, res[t])
    BY <1>9 DEF Closed
  <2>2. PortTypeOK'
    BY <1>6, <1>9 DEF Closed, PortTypeOK
  <2> QED
    BY <1>1, <1>3, <2>1, <2>2, FinishType, UnchangedTypes
<1>10. CASE Start(t)
  <2>1. UNCHANGED <<res, ctrlVars, histVars, faults>> /\ EnsureOpen
    BY <1>10 DEF Start
  <2>2. PortTypeOK'
    BY <1>1, <1>6, <2>1 DEF EnsureOpen, TypeOK, PortTypeOK
  <2>3. /\ Goto(t, "reading") \/ Goto(t, "opened")
        /\ \/ Send(Frame(t, work[t].first, work[t].reg))
           \/ Send(Frame(t, "open", work[t].reg))
    BY <1>10 DEF Start
  <2>4. SentTypeOK'
    BY <1>1, <1>4, <1>5, <2>3, SendType DEF Commands
  <2>5. EndTypeOK'
    BY <1>1, <1>3, <2>1, <2>3, GotoType DEF Holding
  <2> QED
    BY <1>1, <2>1, <2>2, <2>4, <2>5, UnchangedTypes
<1>11. CASE OpenFails(t)
  <2>1. Silent /\ UNCHANGED <<res, ctrlVars, histVars, faults>> /\ Finish(t, "error")
    BY <1>11 DEF OpenFails
  <2>2. PortTypeOK'
    BY <1>6, <1>11 DEF OpenFails, PortTypeOK
  <2> QED
    BY <1>1, <1>3, <2>1, <2>2, FinishType, UnchangedTypes
<1>12. CASE FirstSendFails(t)
  <2>1. Silent /\ UNCHANGED <<res, ctrlVars, histVars>> /\ Finish(t, "error")
    BY <1>12 DEF FirstSendFails
  <2>2. PortTypeOK'
    BY <1>6, <1>12 DEF FirstSendFails, PortTypeOK
  <2>3. FaultTypeOK'
    BY <1>1, <1>12, CountFault DEF FirstSendFails
  <2> QED
    BY <1>1, <1>3, <2>1, <2>2, <2>3, FinishType, UnchangedTypes
<1>13. CASE ReadChunk(t)
  <2>1. UNCHANGED <<ctrlVars, calls, committed, faults>> /\ Saw(t, rx)
    BY <1>13 DEF ReadChunk
  <2>2. saw779' \subseteq CallId
    BY <1>2, <2>1, SawType DEF Holding
  <2>3. \/ CloseThen(t, "error") /\ Silent
        \/ Finish(t, "ok") /\ Silent /\ UNCHANGED res /\ rx' = <<>> /\ UNCHANGED portVars
        \/ /\ Goto(t, "recovering") /\ Send(Frame(t, "cancel", AnyReg))
           /\ UNCHANGED res /\ rx' = <<>> /\ UNCHANGED portVars
        \/ Goto(t, "reading") /\ Silent /\ UNCHANGED res /\ rx' = <<>> /\ UNCHANGED portVars
    BY <1>13 DEF ReadChunk, Recover
  <2>4. rx' = <<>> /\ UNCHANGED portVars => PortTypeOK'
    BY <1>1, <1>6 DEF TypeOK, PortTypeOK, portVars
  <2>5. EndTypeOK' /\ PortTypeOK'
    BY <1>1, <1>3, <2>3, <2>4, CloseThenType, FinishType, GotoType DEF Holding
  <2>6. SentTypeOK'
    BY <1>1, <1>5, <2>3, SendType, SilentType DEF Commands
  <2>7. got' \in [CallId -> 0..MaxOps]
    <3>1. \A i \in DOMAIN rx : rx[i].id \in 0..MaxOps
      <4>1. rx \in Seq(Replies)
        BY <1>1 DEF TypeOK
      <4>2. \A i \in DOMAIN rx : rx[i] \in Replies
        BY <4>1
      <4> QED
        BY <4>2 DEF Replies
    <3>2. CASE got' = got
      BY <1>1, <3>2 DEF TypeOK
    <3>3. CASE \E i \in Matches(t, rx) : got' = [got EXCEPT ![work[t].id] = rx[i].id]
      <4>1. PICK i \in Matches(t, rx) : got' = [got EXCEPT ![work[t].id] = rx[i].id]
        BY <3>3
      <4>2. rx[i].id \in 0..MaxOps
        BY <3>1 DEF Matches
      <4> QED
        BY <1>1, <4>1, <4>2 DEF TypeOK
    <3>4. got' = got \/ \E i \in Matches(t, rx) : got' = [got EXCEPT ![work[t].id] = rx[i].id]
      BY <1>13 DEF ReadChunk
    <3> QED
      BY <3>2, <3>3, <3>4
  <2>8. HistTypeOK'
    BY <1>1, <2>1, <2>2, <2>7 DEF TypeOK, HistTypeOK
  <2> QED
    BY <1>1, <2>1, <2>5, <2>6, <2>8, UnchangedTypes
<1>14. CASE Recovered(t)
  <2>1. UNCHANGED <<ctrlVars, histVars, faults>> /\ SendFinal999(t) /\ CloseThen(t, "error")
    BY <1>14 DEF Recovered
  <2> QED
    BY <1>1, <1>3, <2>1, CloseThenType, Final999Type, UnchangedTypes
<1>15. CASE PauseEndsAborted(t) \/ AwaitAborted(t)
  <2>1. /\ UNCHANGED <<rx, ctrlVars, histVars, faults>>
        /\ AbortThen(t, "aborted") \/ AbortThen(t, "error")
    BY <1>15 DEF PauseEndsAborted, AwaitAborted
  <2>2. UNCHANGED portVars
    BY <2>1 DEF AbortThen
  <2> QED
    BY <1>1, <1>3, <1>4, <2>1, <2>2, AbortThenType, UnchangedTypes
<1>16. CASE PeekRaises(t) \/ AwaitEnds(t)
  <2>1. /\ Silent /\ UNCHANGED <<res, portVars, rx, ctrlVars, histVars, faults>>
        /\ Finish(t, "error") \/ Finish(t, "ok")
    BY <1>16 DEF PeekRaises, AwaitEnds
  <2> QED
    BY <1>1, <1>3, <2>1, FinishType, UnchangedTypes
<1>17. CASE PeekSees779(t)
  <2>1. /\ UNCHANGED <<ctrlVars, calls, got, committed, faults>>
        /\ Saw(t, Chunk256) /\ rx' = Rest256 /\ AbortThen(t, "error")
    BY <1>17 DEF PeekSees779
  <2>2. HistTypeOK'
    BY <1>1, <1>2, <2>1, SawType DEF Holding, TypeOK, HistTypeOK
  <2>3. PortTypeOK'
    BY <1>1, <1>6, <2>1 DEF AbortThen, TypeOK, PortTypeOK, portVars
  <2> QED
    BY <1>1, <1>3, <1>4, <2>1, <2>2, <2>3, AbortThenType, UnchangedTypes
<1>18. CASE SendNext(t)
  <2>1. UNCHANGED <<ctrlVars, calls, got, saw779, faults>>
    BY <1>18 DEF SendNext
  <2>2. \/ /\ rx' = Rest256 /\ Send(NextFrame(t)) /\ Commits(t)
           /\ Goto(t, NextPc(t)) /\ UNCHANGED <<res, portVars>>
        \/ CloseThen(t, "error") /\ Silent /\ UNCHANGED committed
    BY <1>18 DEF SendNext
  <2>3. NextPc(t) \in Holding /\ NextFrame(t) \in Frames
    BY <1>4, <1>5 DEF NextPc, NextFrame, Holding, Commands
  <2>4. HistTypeOK'
    BY <1>1, <1>4, <2>1, <2>2 DEF TypeOK, HistTypeOK, Commits
  <2>5. rx' = Rest256 /\ UNCHANGED portVars => PortTypeOK'
    BY <1>1, <1>6 DEF TypeOK, PortTypeOK, portVars
  <2>6. EndTypeOK' /\ PortTypeOK' /\ SentTypeOK'
    BY <1>1, <1>3, <2>2, <2>3, <2>5, CloseThenType, GotoType, SendType, SilentType
  <2> QED
    BY <1>1, <2>1, <2>4, <2>6, UnchangedTypes
<1>19. CASE AwaitChunk(t)
  <2>1. /\ Silent /\ UNCHANGED <<res, portVars, ctrlVars, calls, got, committed, faults>>
        /\ Saw(t, Chunk256) /\ rx' = Rest256
        /\ Finish(t, "acked") \/ Goto(t, "committing")
    BY <1>19 DEF AwaitChunk
  <2>2. HistTypeOK'
    BY <1>1, <1>2, <2>1, SawType DEF Holding, TypeOK, HistTypeOK
  <2>3. PortTypeOK'
    BY <1>1, <1>6, <2>1 DEF TypeOK, PortTypeOK, portVars
  <2>4. EndTypeOK'
    BY <1>1, <1>3, <2>1, FinishType, GotoType DEF Holding
  <2> QED
    BY <1>1, <2>1, <2>2, <2>3, <2>4, UnchangedTypes
<1>20. CASE Aborted(t)
  <2>1. /\ UNCHANGED <<res, portVars, rx, ctrlVars, histVars, faults>>
        /\ SendFinal999(t) /\ Finish(t, res[t])
    BY <1>20 DEF Aborted
  <2> QED
    BY <1>1, <1>3, <2>1, FinishType, Final999Type, UnchangedTypes
<1> QED
  BY <1>7, <1>8, <1>9, <1>10, <1>11, <1>12, <1>13, <1>14, <1>15, <1>16, <1>17,
     <1>18, <1>19, <1>20 DEF Step

----------------------------------------------------------------------------
(* The other actions *)

\* A new call keeps the types, the lock and the call of each task.
LEMMA InvokeKeeps ==
  ASSUME Base, NEW t \in Task, Invoke(t)
  PROVE  TypeOK' /\ LockInv' /\ CallInv'
<1>1. TypeOK /\ LockInv /\ CallInv /\ pc[t] = "idle"
  BY DEF Base, Invoke
<1>2. LockTypeOK' /\ LockInv'
  BY <1>1, AcquireKeepsLock, TypeParts DEF Invoke, LockIInv
<1>3. calls' = calls + 1 /\ calls' \in CallId
  BY <1>1, BoundAssumption DEF Invoke, TypeOK, CallId
<1>4. PICK c \in Calls : work' = [work EXCEPT ![t] = c] /\ c.id = calls'
  <2>1. \E k \in Kinds : \E c \in Firsts(k) : \E r \in Reg \cup {AnyReg} :
          work' = [work EXCEPT ![t] = [kind |-> k, first |-> c, reg |-> r, id |-> calls']]
    BY DEF Invoke
  <2>2. \A k \in Kinds : Firsts(k) \subseteq Commands
    BY KindsAssumption DEF Firsts, Commands
  <2>3. \A k \in Kinds, c \in Commands, r \in Reg \cup {AnyReg} :
          [kind |-> k, first |-> c, reg |-> r, id |-> calls'] \in Calls
    BY <1>3, BoundAssumption, KindsAssumption DEF Calls, CallId
  <2> QED
    BY <2>1, <2>2, <2>3
<1>5. CallTypeOK'
  BY <1>1, <1>3, <1>4 DEF Invoke, TypeOK, CallTypeOK, CallId
<1>6. /\ UNCHANGED <<res, portVars, tx, rx, ctrlVars, outcome, got, saw779,
                  committed, last, lastEnded>>
      /\ FaultTypeOK'
  BY <1>1, CountFault, UnchangedTypes DEF Invoke
<1>7. HistTypeOK'
  BY <1>1, <1>6 DEF TypeOK, HistTypeOK
<1>8. SentTypeOK'
  BY <1>1, <1>6 DEF TypeOK, SentTypeOK
<1>9. TypeOK'
  BY <1>1, <1>2, <1>5, <1>6, <1>7, <1>8, UnchangedTypes, TypeParts
<1>10. CallInv'
  <2>1. \A u \in Task : u # t => pc'[u] = pc[u] /\ work'[u] = work[u]
    BY <1>1, <1>4 DEF TypeOK, Invoke, Acquire
  <2>2. pc'[t] \in {"ready", "waiting"} /\ work'[t].id \in CallId
    BY <1>1, <1>3, <1>4 DEF TypeOK, Invoke, Acquire
  <2> QED
    BY <1>1, <2>1, <2>2 DEF CallInv
<1> QED
  BY <1>2, <1>9, <1>10

\* So does an abort token.
LEMMA SetTokenKeeps ==
  ASSUME Base, NEW t \in Task, SetToken(t)
  PROVE  TypeOK' /\ LockInv' /\ CallInv'
<1>1. TypeOK /\ LockInv /\ CallInv
  BY DEF Base
<1>2. /\ UNCHANGED <<lockVars, pc, work, res, portVars, tx, rx, ctrlVars,
                     histVars, outcome, last, lastEnded, faults>>
      /\ token' = [token EXCEPT ![t] = TRUE]
  BY DEF SetToken
<1>3. CallTypeOK'
  BY <1>1, <1>2 DEF TypeOK, CallTypeOK, histVars
<1>4. LockTypeOK' /\ LockInv'
  BY <1>1, <1>2 DEF TypeOK, LockTypeOK, LockInv, lockVars
<1>5. TypeOK'
  BY <1>1, <1>2, <1>3, <1>4, UnchangedTypes, TypeParts DEF Silent
<1> QED
  BY <1>1, <1>2, <1>4, <1>5 DEF CallInv

\* So does a cancellation, of a waiter or of the holder.
LEMMA CancelKeeps ==
  ASSUME Base, NEW t \in Task, Cancel(t)
  PROVE  TypeOK' /\ LockInv' /\ CallInv'
<1>1. TypeOK /\ LockInv /\ CallInv /\ LockIInv
  BY TypeParts DEF Base, LockIInv
<1>2. /\ Silent /\ UNCHANGED <<work, res, token, portVars, rx, ctrlVars, histVars>>
      /\ faults.cancel < MaxCancels /\ faults' = [faults EXCEPT !.cancel = @ + 1]
  BY DEF Cancel
<1>3. LockIInv' /\ EndTypeOK' /\ (\A u \in Task : pc'[u] # pc[u] =>
         pc'[u] = "idle" \/ (pc[u] = "waiting" /\ pc'[u] = "ready"))
  <2>1. CASE pc[t] = "waiting"
    <3>1. /\ \E k \in DOMAIN waiters : waiters[k] = t /\ waiters' = WithoutWaiter(k)
          /\ pc' = [pc EXCEPT ![t] = "idle"] /\ holder' = holder
          /\ outcome' = [outcome EXCEPT ![work[t].id] = "cancelled"]
          /\ lastEnded' = lastEnded
      BY <2>1 DEF Cancel
    <3>2. LockIInv'
      BY <1>1, <2>1, <3>1, LeaveKeepsLock
    <3>3. EndTypeOK'
      BY <1>1, <1>2, <3>1 DEF TypeOK, EndTypeOK, Outcomes
    <3> QED
      BY <1>1, <3>1, <3>2, <3>3 DEF TypeOK
  <2>2. CASE pc[t] # "waiting"
    <3>1. pc[t] \in Holding /\ Finish(t, "cancelled") /\ "cancelled" \in Outcomes
      BY <1>1, <2>2 DEF Cancel, TypeOK, Outcomes
    <3>2. LockIInv' /\ \A u \in Task :
            u # t /\ pc'[u] # pc[u] => pc[u] = "waiting" /\ pc'[u] = "ready"
      BY <1>1, <3>1, ShapeKeepsLock DEF Leaves, LockIInv
    <3>3. pc'[t] = "idle"
      BY <1>1, <3>1, FinishIdles
    <3>4. EndTypeOK'
      BY <1>1, <1>2, <3>1, FinishType
    <3> QED
      BY <3>2, <3>3, <3>4
  <2> QED
    BY <2>1, <2>2
<1>4. FaultTypeOK' /\ CallTypeOK' /\ HistTypeOK'
  BY <1>1, <1>2, CountFault, UnchangedTypes
<1>5. TypeOK'
  BY <1>1, <1>2, <1>3, <1>4, UnchangedTypes, TypeParts DEF LockIInv
<1>6. CallInv'
  BY <1>1, <1>2, <1>3 DEF CallInv, TypeOK
<1> QED
  BY <1>3, <1>5, <1>6 DEF LockIInv

\* So does whatever happens on the line or in the controller.
LEMMA LineKeeps ==
  ASSUME Base, LinkLost \/ Controller \/ Garbled
  PROVE  TypeOK' /\ LockInv' /\ CallInv'
<1>1. TypeOK /\ LockInv /\ CallInv
  BY DEF Base
<1>2. UNCHANGED <<lockVars, pc, work, res, token, connected, histVars, outcome,
                  last, lastEnded>>
  BY DEF LinkLost, Controller, Garbled, portVars
<1>3. LockTypeOK' /\ LockInv' /\ CallInv' /\ EndTypeOK' /\ CallTypeOK' /\ HistTypeOK'
  <2>1. LockTypeOK' /\ LockInv'
    BY <1>1, <1>2 DEF TypeOK, LockTypeOK, LockInv, lockVars
  <2>2. CallInv'
    BY <1>1, <1>2 DEF CallInv
  <2> QED
    BY <1>1, <1>2, <2>1, <2>2, UnchangedTypes
<1>4. FaultTypeOK'
  BY <1>1, CountFault, UnchangedTypes DEF LinkLost, Controller, Garbled
<1>5. tx' \in Seq(Frames)
  <2>1. CASE LinkLost
    <3>1. PICK n \in 0..Len(tx) : tx' = SubSeq(tx, 1, n)
      BY <2>1 DEF LinkLost
    <3>2. tx \in Seq(Frames)
      BY <1>1 DEF TypeOK
    <3> QED
      BY <3>1, <3>2
  <2>2. CASE Controller \/ Garbled
    <3>1. tx \in Seq(Frames)
      BY <1>1 DEF TypeOK
    <3>2. tx # <<>> /\ tx' = Tail(tx)
      BY <2>2 DEF Controller, Garbled
    <3> QED
      BY <3>1, <3>2, HeadTailProperties
  <2> QED
    BY <2>1, <2>2
<1>6. SentTypeOK'
  BY <1>1, <1>2, <1>5 DEF TypeOK, SentTypeOK
<1>7. tx # <<>> => Head(tx) \in Frames
  BY <1>1 DEF TypeOK
<1>8. PortTypeOK' /\ CtrlTypeOK'
  <2>1. CASE LinkLost
    BY <1>1, <2>1 DEF LinkLost, TypeOK, PortTypeOK, CtrlTypeOK, ctrlVars
  <2>2. \A m \in Replies : Reply(m) /\ UNCHANGED portVars => PortTypeOK'
    BY <1>1 DEF Reply, TypeOK, PortTypeOK, portVars
  <2>3. CASE Garbled
    <3>1. Error779 \in Replies
      BY BoundAssumption DEF Error779, Replies
    <3> QED
      BY <1>1, <2>2, <2>3, <3>1, UnchangedTypes DEF Garbled
  <2>4. CASE Controller
    <3> DEFINE f == Head(tx)
    <3>1. f \in Frames /\ Obey(f) /\ UNCHANGED portVars
      BY <1>7, <2>4 DEF Controller
    <3> HIDE DEF f
    <3>2. f.reg \in Reg \cup {AnyReg} /\ f.id \in 0..MaxOps
      BY <3>1 DEF Frames
    <3>3. /\ [kind |-> "line", reg |-> f.reg, id |-> f.id] \in Replies
          /\ [kind |-> "ack", reg |-> AnyReg, id |-> f.id] \in Replies
          /\ Error779 \in Replies
      BY <3>2, BoundAssumption DEF Error779, Replies
    <3>4. Quiet \/ \E m \in Replies : Reply(m)
      BY <3>1, <3>3 DEF Obey
    <3>5. PortTypeOK'
      BY <1>1, <2>2, <3>1, <3>4, UnchangedTypes DEF Quiet
    <3>6. NoSession \in Sessions /\ session \in Sessions
      BY <1>1, BoundAssumption DEF TypeOK, NoSession, Sessions
    <3>7. /\ [reg |-> f.reg, id |-> f.id, staged |-> 0] \in Sessions
          /\ [session EXCEPT !.staged = f.id] \in Sessions
      BY <3>2, <3>6, BoundAssumption DEF Sessions
    <3>8. session' \in Sessions
      BY <3>1, <3>6, <3>7 DEF Obey, ctrlVars
    <3>9. ({session.staged} \ {0}) \subseteq CallId
      BY <3>6, BoundAssumption DEF Sessions, CallId
    <3>10. applied' \subseteq CallId
      BY <1>1, <3>1, <3>9 DEF Obey, ctrlVars, TypeOK
    <3> QED
      BY <3>5, <3>8, <3>10 DEF CtrlTypeOK
  <2> QED
    BY <2>1, <2>3, <2>4
<1>9. TypeOK'
  BY <1>3, <1>4, <1>6, <1>8, TypeParts
<1> QED
  BY <1>3, <1>9

----------------------------------------------------------------------------
(* The handshake *)

\* Where a step of t leads t, and the frame it has sent by then.
LEMMA StepSends ==
  ASSUME Base, UnbrokenHandshake, NEW t \in Task, Step(t) \/ FirstSendFails(t),
         pc'[t] \in Sending
  PROVE  last'.id = work[t].id /\ last'.cmd = LastCmd(t)'
<1>1. TypeOK /\ LockInv /\ pc[t] \in Holding /\ work' = work
  BY StepShape DEF Base
<1>2. ASSUME NEW r \in Outcomes, Finish(t, r)
      PROVE  pc'[t] = "idle"
  BY <1>1, <1>2, FinishIdles
<1>3. /\ Sending = {"reading", "opened", "paid", "committing", "aborting", "recovering"}
      /\ "closing" \notin Sending /\ "idle" \notin Sending
  BY DEF LastSent, Sending, LastCmd
<1>4. ~ \E r \in Outcomes : Finish(t, r)
  BY <1>2, <1>3
<1>5. ASSUME NEW p \in Holding, Goto(t, p)
      PROVE  pc'[t] = p
  BY <1>1, <1>5 DEF Goto, TypeOK
<1>6. ASSUME NEW r \in Outcomes
      PROVE  ~ CloseThen(t, r)
  BY <1>3, <1>4, <1>5 DEF CloseThen, Holding
<1>7. ASSUME NEW r \in Outcomes, AbortThen(t, r)
      PROVE  pc'[t] = "aborting" /\ Send(Frame(t, "cancel", work[t].reg))
  BY <1>4, <1>5, <1>7 DEF AbortThen, Holding
<1>8. res[t] \in Outcomes /\ {"ok", "acked", "aborted", "error"} \subseteq Outcomes
  BY <1>1 DEF TypeOK, Outcomes
<1>9. CASE Connect(t) \/ Closed(t) \/ OpenFails(t) \/ FirstSendFails(t) \/ PeekRaises(t)
           \/ AwaitEnds(t) \/ Aborted(t)
  BY <1>4, <1>8, <1>9
     DEF Connect, Closed, OpenFails, FirstSendFails, PeekRaises, AwaitEnds, Aborted
<1>10. CASE Close(t) \/ ReadFails(t) \/ Recovered(t) \/ AwaitRaises(t)
  BY <1>6, <1>8, <1>10 DEF Close, ReadFails, Recovered, AwaitRaises
<1>11. CASE Start(t)
  <2>1. \/ Send(Frame(t, work[t].first, work[t].reg)) /\ pc'[t] = "reading"
        \/ Send(Frame(t, "open", work[t].reg)) /\ pc'[t] = "opened"
    BY <1>5, <1>11 DEF Start, Holding
  <2> QED
    BY <1>1, <2>1 DEF Send, Frame, LastSent, Sending, LastCmd
<1>12. CASE ReadChunk(t)
  <2>1. \/ Goto(t, "recovering") /\ Send(Frame(t, "cancel", AnyReg))
        \/ pc[t] = "reading" /\ Goto(t, "reading") /\ Silent
    BY <1>4, <1>6, <1>8, <1>12 DEF ReadChunk, Recover
  <2>2. CASE Goto(t, "recovering") /\ Send(Frame(t, "cancel", AnyReg))
    BY <1>5, <2>2 DEF Send, Frame, LastSent, Sending, LastCmd, Holding
  <2>3. CASE pc[t] = "reading" /\ Goto(t, "reading") /\ Silent
    BY <1>1, <1>5, <2>3 DEF UnbrokenHandshake, Silent, LastSent, Sending, LastCmd, Holding
  <2> QED
    BY <2>1, <2>2, <2>3
<1>13. CASE PauseEndsAborted(t) \/ PeekSees779(t) \/ AwaitAborted(t)
  <2>1. AbortThen(t, "aborted") \/ AbortThen(t, "error")
    BY <1>13 DEF PauseEndsAborted, PeekSees779, AwaitAborted
  <2>2. pc'[t] = "aborting" /\ Send(Frame(t, "cancel", work[t].reg))
    BY <1>7, <1>8, <2>1
  <2> QED
    BY <2>2 DEF Send, Frame, LastSent, Sending, LastCmd
<1>14. CASE SendNext(t)
  <2>1. Send(NextFrame(t)) /\ Goto(t, NextPc(t)) /\ pc[t] \in {"opened", "paid"}
    BY <1>6, <1>8, <1>14 DEF SendNext
  <2>2. CASE pc[t] = "opened"
    BY <1>5, <2>1, <2>2 DEF NextPc, NextFrame, Send, Frame, LastSent, Sending, LastCmd, Holding
  <2>3. CASE pc[t] = "paid"
    BY <1>5, <2>1, <2>3 DEF NextPc, NextFrame, Send, Frame, LastSent, Sending, LastCmd, Holding
  <2> QED
    BY <2>1, <2>2, <2>3
<1>15. CASE AwaitChunk(t)
  <2>1. pc[t] = "committing" /\ Goto(t, "committing") /\ Silent
    BY <1>4, <1>8, <1>15 DEF AwaitChunk
  <2> QED
    BY <1>5, <2>1 DEF UnbrokenHandshake, Silent, LastSent, Sending, LastCmd, Holding
<1> QED
  BY <1>9, <1>10, <1>11, <1>12, <1>13, <1>14, <1>15 DEF Step

\* A step of t leads no other task into a handshake.
LEMMA OthersStay ==
  ASSUME Base, NEW t \in Task, Step(t) \/ FirstSendFails(t),
         NEW u \in Task, u # t, pc'[u] \in Holding
  PROVE  pc'[u] = "ready"
<1>1. TypeOK /\ LockInv /\ pc[t] \in Holding /\ (Moves(t) \/ Leaves(t))
  BY StepShape DEF Base
<1>2. pc[u] \notin Holding
  BY <1>1 DEF LockInv
<1>3. pc'[u] # pc[u] => pc'[u] = "ready"
  BY <1>1, ShapeKeepsLock
<1> QED
  BY <1>2, <1>3

\* Every step of a call keeps the call of each task.
LEMMA StepKeepsCalls ==
  ASSUME Base, NEW t \in Task, Step(t) \/ FirstSendFails(t)
  PROVE  CallInv'
<1>1. TypeOK /\ LockInv /\ CallInv
  BY DEF Base
<1>2. /\ pc[t] \in Holding /\ work' = work
      /\ \A u \in Task : u # t /\ pc'[u] # pc[u] => pc[u] = "waiting" /\ pc'[u] = "ready"
  BY <1>1, StepShape, ShapeKeepsLock
<1>3. ASSUME NEW u \in Task, u # t
      PROVE  /\ pc'[u] # "idle" => work'[u].id \in CallId
             /\ pc'[u] \in {"opened", "paid", "committing", "aborting"} => work'[u].kind = "write"
             /\ pc'[u] \in {"reading", "recovering"} => work'[u].kind = "read"
  BY <1>1, <1>2, <1>3 DEF CallInv
<1>4. work'[t].id \in CallId
  BY <1>1, <1>2 DEF CallInv, Holding
<1>5. /\ pc'[t] \in {"opened", "paid", "committing", "aborting"} => work[t].kind = "write"
      /\ pc'[t] \in {"reading", "recovering"} => work[t].kind = "read"
  <2>1. ASSUME NEW r \in Outcomes, Finish(t, r)
        PROVE  pc'[t] = "idle"
    BY <1>1, <1>2, <2>1, FinishIdles
  <2>2. CASE Leaves(t)
    BY <2>1, <2>2 DEF Leaves
  <2>3. ASSUME NEW p \in Holding, Goto(t, p)
        PROVE  pc'[t] = p
    BY <1>1, <2>3 DEF Goto, TypeOK
  <2>4. ASSUME NEW r \in Outcomes, CloseThen(t, r)
        PROVE  pc'[t] \in {"closing", "idle"}
    BY <2>1, <2>3, <2>4 DEF CloseThen, Holding
  <2>5. ASSUME NEW r \in Outcomes, AbortThen(t, r)
        PROVE  pc'[t] \in {"aborting", "idle"}
    BY <2>1, <2>3, <2>5 DEF AbortThen, Holding
  <2>6. {"ok", "acked", "aborted", "error"} \subseteq Outcomes /\ res[t] \in Outcomes
    BY <1>1 DEF TypeOK, Outcomes
  <2>7. CASE Connect(t) \/ Closed(t) \/ OpenFails(t) \/ FirstSendFails(t) \/ PeekRaises(t)
             \/ AwaitEnds(t) \/ Aborted(t)
    BY <2>1, <2>6, <2>7
       DEF Connect, Closed, OpenFails, FirstSendFails, PeekRaises, AwaitEnds, Aborted
  <2>8. CASE Close(t) \/ ReadFails(t) \/ Recovered(t) \/ AwaitRaises(t)
    BY <2>4, <2>6, <2>8 DEF Close, ReadFails, Recovered, AwaitRaises
  <2>9. CASE Start(t)
    BY <2>3, <2>9 DEF Start, Holding
  <2>10. CASE ReadChunk(t)
    BY <1>1, <2>1, <2>3, <2>4, <2>6, <2>10 DEF ReadChunk, Recover, Holding, CallInv
  <2>11. CASE PauseEndsAborted(t) \/ PeekSees779(t) \/ AwaitAborted(t)
    BY <1>1, <2>5, <2>6, <2>11
       DEF PauseEndsAborted, PeekSees779, AwaitAborted, CallInv
  <2>12. CASE SendNext(t)
    BY <1>1, <2>3, <2>4, <2>6, <2>12 DEF SendNext, NextPc, Holding, CallInv
  <2>13. CASE AwaitChunk(t)
    BY <1>1, <2>1, <2>3, <2>6, <2>13 DEF AwaitChunk, Holding, CallInv
  <2> QED
    BY <2>7, <2>8, <2>9, <2>10, <2>11, <2>12, <2>13 DEF Step
<1> QED
  BY <1>2, <1>3, <1>4, <1>5 DEF CallInv

IInv == Base /\ UnbrokenHandshake

\* The inductive invariant holds at first.
LEMMA InitIInv ==
  Init => IInv
<1> SUFFICES ASSUME Init PROVE IInv
  OBVIOUS
<1>1. TypeOK
  <2>1. NoCall \in Calls /\ NoFrame \in Frames /\ NoSession \in Sessions /\ "none" \in Outcomes
    BY BoundAssumption DEF Calls, Frames, Sessions, NoCall, NoFrame, NoSession, Outcomes, Commands
  <2>2. FaultTypeOK /\ HistTypeOK /\ CtrlTypeOK
    BY <2>1, BoundAssumption DEF Init, FaultTypeOK, HistTypeOK, CtrlTypeOK
  <2>3. LockTypeOK /\ EndTypeOK
    BY <2>1 DEF Init, LockTypeOK, EndTypeOK
  <2>4. PortTypeOK /\ SentTypeOK
    <3>1. writer = "none" /\ connected = FALSE /\ tx = <<>> /\ rx = <<>> /\ last = NoFrame
      BY DEF Init
    <3>2. <<>> \in Seq(Frames) /\ <<>> \in Seq(Replies)
      BY EmptySeq
    <3> QED
      BY <2>1, <3>1, <3>2 DEF PortTypeOK, SentTypeOK
  <2>5. CallTypeOK
    BY <2>1, BoundAssumption DEF Init, CallTypeOK
  <2> QED
    BY <2>2, <2>3, <2>4, <2>5, TypeParts
<1>2. LockInv /\ CallInv
  BY NullAssumption DEF Init, LockInv, CallInv, Holding
<1>3. UnbrokenHandshake
  BY DEF Init, UnbrokenHandshake, LastSent, Sending, LastCmd
<1> QED
  BY <1>1, <1>2, <1>3 DEF IInv, Base

\* Every step keeps the inductive invariant.
LEMMA NextIInv ==
  IInv /\ [Next]_vars => IInv'
<1> SUFFICES ASSUME IInv, [Next]_vars PROVE IInv'
  OBVIOUS
<1>1. Base /\ UnbrokenHandshake /\ TypeOK /\ LockInv /\ CallInv
  BY DEF IInv, Base
<1>2. ASSUME NEW t \in Task, Step(t) \/ FirstSendFails(t)
      PROVE  IInv'
  <2>1. TypeOK' /\ LockInv' /\ CallInv'
    BY <1>1, <1>2, StepShape, ShapeKeepsLock, StepKeepsTypes, StepKeepsCalls
  <2>2. UnbrokenHandshake'
    <3> SUFFICES ASSUME NEW u \in Task, pc'[u] \in Sending
                 PROVE  last'.id = work'[u].id /\ last'.cmd = LastCmd(u)'
      BY DEF UnbrokenHandshake, LastSent, Sending, LastCmd
    <3>1. work' = work
      BY <1>1, <1>2, StepShape
    <3>2. CASE u = t
      BY <1>1, <1>2, <3>1, <3>2, StepSends
    <3>3. CASE u # t
      <4>1. pc'[u] \in Holding /\ pc'[u] # "ready"
        BY DEF LastSent, Sending, LastCmd, Holding
      <4> QED
        BY <1>1, <1>2, <3>3, <4>1, OthersStay
    <3> QED
      BY <3>2, <3>3
  <2> QED
    BY <2>1, <2>2 DEF IInv, Base
<1>3. ASSUME NEW t \in Task, Invoke(t) \/ SetToken(t) \/ Cancel(t)
      PROVE  IInv'
  <2>1. TypeOK' /\ LockInv' /\ CallInv'
    BY <1>1, <1>3, InvokeKeeps, SetTokenKeeps, CancelKeeps
  <2>2. /\ last' = last
        /\ \A u \in Task : pc'[u] \in Sending => pc'[u] = pc[u] /\ work'[u] = work[u]
    <3>1. CASE Invoke(t)
      BY <1>1, <3>1 DEF Invoke, Acquire, LastSent, Sending, LastCmd, TypeOK
    <3>2. CASE SetToken(t)
      BY <3>2 DEF SetToken
    <3>3. CASE Cancel(t)
      BY <1>1, <3>3 DEF Cancel, Silent, Finish, Release, LastSent, Sending, LastCmd, TypeOK
    <3> QED
      BY <1>3, <3>1, <3>2, <3>3
  <2> QED
    BY <1>1, <2>1, <2>2 DEF IInv, Base, UnbrokenHandshake, LastCmd, Sending
<1>4. CASE LinkLost \/ Controller \/ Garbled
  <2>1. TypeOK' /\ LockInv' /\ CallInv'
    BY <1>1, <1>4, LineKeeps
  <2>2. UNCHANGED <<pc, work, last>>
    BY <1>4 DEF LinkLost, Controller, Garbled
  <2> QED
    BY <1>1, <2>1, <2>2 DEF IInv, Base, UnbrokenHandshake, LastCmd, Sending
<1>5. CASE UNCHANGED vars
  BY <1>1, <1>5 DEF IInv, Base, TypeOK, LockInv, CallInv, UnbrokenHandshake, LastCmd, Sending, vars
<1> QED
  BY <1>2, <1>3, <1>4, <1>5 DEF Next

\* Every variable keeps its type, the lock is held by exactly the task that is
\* between acquire and release and lends itself to the waiters in turn, and no
\* frame of another call comes between the frames of a handshake.
THEOREM Invariance == Spec => []IInv
BY InitIInv, NextIInv, PTL DEF Spec

\* TypeOK, for every number of tasks, blocks and calls.
THEOREM TypeCorrect == Spec => []TypeOK
BY Invariance, PTL DEF IInv, Base

\* asyncio.Lock as transport.py uses it: mutual exclusion and no lost waiter,
\* also when waiting or holding tasks are cancelled.
THEOREM LockCorrect == Spec => []LockInv
BY Invariance, PTL DEF IInv, Base

\* query and execute_write own the line from their first frame to their last.
THEOREM HandshakeUnbroken == Spec => []UnbrokenHandshake
BY Invariance, PTL DEF IInv

----------------------------------------------------------------------------
(* The port after a failed query *)

\* A query that leaves with an error has closed the port.
LEMMA FailedReadLeaves ==
  ASSUME Base, NEW t \in Task, Step(t) \/ FirstSendFails(t),
         pc'[t] = "idle", work[t].kind = "read", outcome'[work[t].id] = "error"
  PROVE  writer' = "none" /\ ~connected'
<1>1. TypeOK /\ LockInv /\ CallInv /\ pc[t] \in Holding
  BY StepShape DEF Base
<1>2. work[t].id \in CallId
  BY <1>1 DEF CallInv, Holding
<1>3. ASSUME NEW p \in Holding, Goto(t, p)
      PROVE  FALSE
  BY <1>1, <1>3 DEF Goto, TypeOK, Holding
<1>4. ASSUME NEW r \in Outcomes, r # "error", Finish(t, r)
      PROVE  FALSE
  BY <1>1, <1>2, <1>4 DEF Finish, TypeOK
<1>5. ASSUME NEW r \in Outcomes, CloseThen(t, r)
      PROVE  writer' = "none" /\ ~connected'
  BY <1>3, <1>5 DEF CloseThen, Holding
<1>6. {"ok", "acked", "aborted", "error"} \subseteq Outcomes
  BY DEF Outcomes
<1>7. ~(pc[t] \in {"opened", "paid", "committing", "aborting"})
  BY <1>1 DEF CallInv
<1>8. CASE Connect(t) \/ Close(t)
  BY <1>8 DEF Connect, Close
<1>9. CASE Closed(t) \/ OpenFails(t) \/ FirstSendFails(t)
  BY <1>9 DEF Closed, OpenFails, FirstSendFails
<1>10. CASE Start(t)
  BY <1>3, <1>10 DEF Start, Holding
<1>11. CASE ReadChunk(t)
  <2>1. \/ CloseThen(t, "error") \/ Finish(t, "ok")
        \/ Goto(t, "recovering") \/ Goto(t, "reading")
    BY <1>11 DEF ReadChunk, Recover
  <2> QED
    BY <1>3, <1>4, <1>5, <1>6, <2>1 DEF Holding
<1>12. CASE ReadFails(t) \/ Recovered(t)
  BY <1>5, <1>6, <1>12 DEF ReadFails, Recovered
<1>13. CASE \/ PauseEndsAborted(t) \/ PeekRaises(t) \/ PeekSees779(t) \/ SendNext(t)
           \/ AwaitChunk(t) \/ AwaitEnds(t) \/ AwaitRaises(t) \/ AwaitAborted(t)
           \/ Aborted(t)
  BY <1>7, <1>13 DEF PauseEndsAborted, PeekRaises, PeekSees779, SendNext, AwaitChunk,
     AwaitEnds, AwaitRaises, AwaitAborted, Aborted
<1> QED
  BY <1>8, <1>9, <1>10, <1>11, <1>12, <1>13 DEF Step

\* FailedReadClosesPort is inductive relative to IInv.
LEMMA NextFailedRead ==
  IInv /\ FailedReadClosesPort /\ [Next]_vars => FailedReadClosesPort'
<1> DEFINE Rest == \A u \in Task : pc[u] \in {"idle", "waiting", "ready"}
           Failed == lastEnded.kind = "read" /\ outcome[lastEnded.id] = "error"
<1> SUFFICES ASSUME IInv, FailedReadClosesPort, [Next]_vars, Rest', Failed'
             PROVE  writer' = "none" /\ ~connected'
  BY DEF FailedReadClosesPort
<1>1. Base /\ TypeOK /\ LockInv /\ CallInv
  BY DEF IInv, Base
<1>2. Rest /\ Failed => writer = "none" /\ ~connected
  BY DEF FailedReadClosesPort
<1>3. ASSUME NEW t \in Task, Step(t) \/ FirstSendFails(t)
      PROVE  writer' = "none" /\ ~connected'
  <2>1. pc[t] \in Holding /\ work' = work /\ (Moves(t) \/ Leaves(t))
    BY <1>1, <1>3, StepShape
  <2>2. CASE Moves(t)
    BY <1>1, <2>2 DEF Moves, Goto, TypeOK, LastSent, Sending
  <2>3. CASE Leaves(t)
    <3>1. pc'[t] = "idle" /\ lastEnded' = work[t]
      BY <1>1, <2>1, <2>3, FinishIdles DEF Leaves, Finish, Release
    <3> QED
      BY <1>1, <1>3, <3>1, FailedReadLeaves
  <2> QED
    BY <2>1, <2>2, <2>3
<1>4. ASSUME NEW t \in Task, Invoke(t)
      PROVE  writer' = "none" /\ ~connected'
  BY <1>1, <1>2, <1>4 DEF Invoke, Acquire, TypeOK, portVars
<1>5. ASSUME NEW t \in Task, SetToken(t)
      PROVE  writer' = "none" /\ ~connected'
  BY <1>2, <1>5 DEF SetToken, portVars
<1>6. ASSUME NEW t \in Task, Cancel(t)
      PROVE  writer' = "none" /\ ~connected'
  <2>1. work[t].id \in CallId /\ pc[t] # "idle"
    BY <1>1, <1>6 DEF CallInv, Cancel
  <2>2. CASE pc[t] = "waiting"
    <3>1. /\ pc' = [pc EXCEPT ![t] = "idle"] /\ lastEnded' = lastEnded
          /\ outcome' = [outcome EXCEPT ![work[t].id] = "cancelled"]
          /\ UNCHANGED portVars
      BY <1>6, <2>2 DEF Cancel
    <3>2. Rest
      BY <1>1, <2>2, <3>1 DEF TypeOK
    <3>3. Failed
      BY <1>1, <3>1 DEF TypeOK
    <3> QED
      BY <1>2, <3>1, <3>2, <3>3 DEF portVars
  <2>3. CASE pc[t] # "waiting"
    <3>1. lastEnded' = work[t] /\ outcome' = [outcome EXCEPT ![work[t].id] = "cancelled"]
      BY <1>6, <2>3 DEF Cancel, Finish, Release
    <3> QED
      BY <1>1, <2>1, <3>1 DEF TypeOK
  <2> QED
    BY <2>2, <2>3
<1>7. CASE LinkLost \/ Controller \/ Garbled
  BY <1>2, <1>7 DEF LinkLost, Controller, Garbled, portVars
<1>8. CASE UNCHANGED vars
  BY <1>2, <1>8 DEF vars
<1> QED
  BY <1>3, <1>4, <1>5, <1>6, <1>7, <1>8 DEF Next

\* "A read timeout triggers reconnect": whatever way a query fails, the next
\* call finds the port closed and opens a new connection.
THEOREM FailedReadReconnects == Spec => []FailedReadClosesPort
<1>1. Init => FailedReadClosesPort
  BY DEF Init, FailedReadClosesPort, NoCall
<1> QED
  BY <1>1, Invariance, NextFailedRead, PTL DEF Spec

----------------------------------------------------------------------------
(* What the refinement needs besides the inductive invariant of Transport. *)

\* A call in progress has a number of its own and no result yet.
OneTaskEach ==
  /\ \A t \in Task : pc[t] # "idle" => work[t].id \in 1..calls /\ outcome[work[t].id] = "none"
  /\ \A t, u \in Task : pc[t] # "idle" /\ pc[u] # "idle" /\ work[t].id = work[u].id => t = u
  /\ \A i \in CallId : i > calls => outcome[i] = "none"

\* A call that cleans up knows how it will end.
KnowsResult == \A t \in Task : pc[t] \in {"aborting", "closing"} => res[t] # "none"

Results == Outcomes \ {"none"}

\* A step of a call that ends it, or else goes on; and then who has sent.
Ends(t) == \E r \in Results : Finish(t, r)
Proceeds(t) ==
  /\ Moves(t) \/ Ends(t)
  /\ pc'[t] \in {"aborting", "closing"} => res'[t] # "none"
  /\ \A u \in Task : u # t => res'[u] = res[u]
  /\ last'.id \in {last.id, work[t].id}

\* What the holder of the lock sends has its number.
LEMMA SendsOwn ==
  ASSUME NEW t, NEW c, NEW r
  PROVE  /\ Send(Frame(t, c, r)) => last'.id = work[t].id
         /\ Silent => last' = last
         /\ SendFinal999(t) => last'.id \in {last.id, work[t].id}
BY DEF Send, Frame, Silent, SendFinal999

\* A call that ends is neither aborting nor closing.
LEMMA EndProceeds ==
  ASSUME Base, NEW t \in Task, pc[t] \in Holding, NEW r \in Results, Finish(t, r),
         res' = res, last'.id \in {last.id, work[t].id}
  PROVE  Proceeds(t)
<1>1. TypeOK /\ LockInv /\ r \in Outcomes
  BY DEF Base, Results
<1>2. pc'[t] = "idle"
  BY <1>1, FinishIdles
<1> QED
  BY <1>2 DEF Proceeds, Ends

\* A call that goes on, knowing its result if it needs one.
LEMMA GotoProceeds ==
  ASSUME Base, NEW t \in Task, NEW p \in Holding, Goto(t, p), p \in {"closing"} \cup Sending,
         last'.id \in {last.id, work[t].id},
         \/ res' = res /\ p \notin {"aborting", "closing"}
         \/ \E r \in Results : res' = [res EXCEPT ![t] = r]
  PROVE  Proceeds(t)
<1>1. pc \in [Task -> {"idle", "waiting"} \cup Holding] /\ res \in [Task -> Outcomes]
  BY DEF Base, TypeOK
<1>2. pc'[t] = p
  BY <1>1 DEF Goto
<1>3. Moves(t)
  BY DEF Moves
<1> QED
  BY <1>1, <1>2, <1>3 DEF Proceeds, Results

\* _close_locked proceeds.
LEMMA CloseProceeds ==
  ASSUME Base, NEW t \in Task, pc[t] \in Holding, NEW r \in Results, CloseThen(t, r),
         last'.id \in {last.id, work[t].id}
  PROVE  Proceeds(t)
<1>1. CASE writer = "open"
  <2>1. Goto(t, "closing") /\ res' = [res EXCEPT ![t] = r] /\ "closing" \in Holding
    BY <1>1 DEF CloseThen, Holding
  <2> QED
    BY <2>1, GotoProceeds
<1>2. CASE writer # "open"
  BY <1>2, EndProceeds DEF CloseThen
<1> QED
  BY <1>1, <1>2

\* So does _abort_locked.
LEMMA AbortProceeds ==
  ASSUME Base, NEW t \in Task, pc[t] \in Holding, NEW r \in Results, AbortThen(t, r)
  PROVE  Proceeds(t)
<1>1. CASE writer = "open"
  <2>1. /\ Goto(t, "aborting") /\ res' = [res EXCEPT ![t] = r]
        /\ "aborting" \in Holding /\ "aborting" \in Sending
        /\ Send(Frame(t, "cancel", work[t].reg))
    BY <1>1 DEF AbortThen, Holding, Sending, LastSent
  <2>2. last'.id = work[t].id
    BY <2>1, SendsOwn
  <2> QED
    BY <2>1, <2>2, GotoProceeds
<1>2. CASE writer # "open"
  BY <1>2, EndProceeds, SendsOwn DEF AbortThen
<1> QED
  BY <1>1, <1>2

\* Every step of a call proceeds.
LEMMA StepProceeds ==
  ASSUME Base, KnowsResult, NEW t \in Task, Step(t) \/ FirstSendFails(t)
  PROVE  Proceeds(t)
<1>1. TypeOK /\ pc[t] \in Holding
  BY StepShape DEF Base
<1>2. {"ok", "acked", "aborted", "error"} \subseteq Results
  BY DEF Results, Outcomes
<1>3. pc[t] \in {"aborting", "closing"} => res[t] \in Results
  BY <1>1 DEF KnowsResult, TypeOK, Results
<1>4. /\ {"reading", "opened", "paid", "committing", "aborting", "recovering"} = Sending
      /\ Sending \subseteq Holding
  BY DEF Sending, LastSent, Holding
<1>5. CASE Connect(t) \/ OpenFails(t) \/ FirstSendFails(t) \/ PeekRaises(t) \/ AwaitEnds(t)
  <2>1. Silent /\ res' = res /\ (Finish(t, "ok") \/ Finish(t, "error"))
    BY <1>5 DEF Connect, OpenFails, FirstSendFails, PeekRaises, AwaitEnds
  <2> QED
    BY <1>1, <1>2, <2>1, EndProceeds, SendsOwn
<1>6. CASE Close(t) \/ ReadFails(t) \/ AwaitRaises(t)
  <2>1. Silent /\ (CloseThen(t, "ok") \/ CloseThen(t, "error"))
    BY <1>6 DEF Close, ReadFails, AwaitRaises
  <2> QED
    BY <1>1, <1>2, <2>1, CloseProceeds, SendsOwn
<1>7. CASE Closed(t)
  <2>1. Silent /\ res' = res /\ Finish(t, res[t]) /\ pc[t] = "closing"
    BY <1>7 DEF Closed
  <2>2. \A r \in Results : Finish(t, r) => Proceeds(t)
    BY <1>1, <2>1, EndProceeds, SendsOwn
  <2> QED
    BY <1>3, <2>1, <2>2
<1>8. CASE Aborted(t)
  <2>1. SendFinal999(t) /\ res' = res /\ Finish(t, res[t]) /\ pc[t] = "aborting"
    BY <1>8 DEF Aborted
  <2>2. last'.id \in {last.id, work[t].id}
    BY <2>1, SendsOwn
  <2>3. \A r \in Results : Finish(t, r) => Proceeds(t)
    BY <1>1, <2>1, <2>2, EndProceeds
  <2> QED
    BY <1>3, <2>1, <2>3
<1>9. CASE Recovered(t)
  <2>1. SendFinal999(t) /\ CloseThen(t, "error")
    BY <1>9 DEF Recovered
  <2>2. last'.id \in {last.id, work[t].id}
    BY <2>1, SendsOwn
  <2> QED
    BY <1>1, <1>2, <2>1, <2>2, CloseProceeds
<1>10. CASE Start(t)
  <2>1. /\ res' = res
        /\ \/ Send(Frame(t, work[t].first, work[t].reg)) /\ Goto(t, "reading")
           \/ Send(Frame(t, "open", work[t].reg)) /\ Goto(t, "opened")
    BY <1>10 DEF Start
  <2>2. last'.id = work[t].id
    BY <2>1, SendsOwn
  <2> QED
    BY <1>4, <2>1, <2>2, GotoProceeds
<1>11. CASE ReadChunk(t)
  <2>1. \/ CloseThen(t, "error") /\ Silent
        \/ Finish(t, "ok") /\ Silent /\ res' = res
        \/ Goto(t, "recovering") /\ Send(Frame(t, "cancel", AnyReg)) /\ res' = res
        \/ Goto(t, "reading") /\ Silent /\ res' = res
    BY <1>11 DEF ReadChunk, Recover
  <2>2. last'.id \in {last.id, work[t].id}
    BY <2>1, SendsOwn
  <2> QED
    BY <1>1, <1>2, <1>4, <2>1, <2>2, CloseProceeds, EndProceeds, GotoProceeds
<1>12. CASE PauseEndsAborted(t) \/ PeekSees779(t) \/ AwaitAborted(t)
  <2>1. AbortThen(t, "aborted") \/ AbortThen(t, "error")
    BY <1>12 DEF PauseEndsAborted, PeekSees779, AwaitAborted
  <2> QED
    BY <1>1, <1>2, <2>1, AbortProceeds
<1>13. CASE SendNext(t)
  <2>1. \/ Send(NextFrame(t)) /\ Goto(t, NextPc(t)) /\ res' = res
        \/ CloseThen(t, "error") /\ Silent
    BY <1>13 DEF SendNext
  <2>2. NextPc(t) \in {"paid", "committing"}
    BY DEF NextPc
  <2>3. last'.id \in {last.id, work[t].id}
    BY <2>1, SendsOwn DEF NextFrame
  <2> QED
    BY <1>1, <1>2, <1>4, <2>1, <2>2, <2>3, CloseProceeds, GotoProceeds
<1>14. CASE AwaitChunk(t)
  <2>1. Silent /\ res' = res /\ (Finish(t, "acked") \/ Goto(t, "committing"))
    BY <1>14 DEF AwaitChunk
  <2>2. last'.id \in {last.id, work[t].id}
    BY <2>1, SendsOwn
  <2> QED
    BY <1>1, <1>2, <1>4, <2>1, <2>2, EndProceeds, GotoProceeds
<1> QED
  BY <1>5, <1>6, <1>7, <1>8, <1>9, <1>10, <1>11, <1>12, <1>13, <1>14 DEF Step

----------------------------------------------------------------------------
(* These facts are kept by every step. *)

LInv == IInv /\ OneTaskEach /\ KnowsResult

\* Every step of a call keeps them.
LEMMA StepKeepsOwn ==
  ASSUME Base, OneTaskEach, KnowsResult, NEW t \in Task, Step(t) \/ FirstSendFails(t)
  PROVE  OneTaskEach' /\ KnowsResult'
<1>1. TypeOK /\ LockInv /\ pc[t] \in Holding /\ UNCHANGED <<work, calls>> /\ Proceeds(t)
  BY StepShape, StepProceeds DEF Base
<1>2. \A u \in Task : u # t /\ pc'[u] # pc[u] => pc[u] = "waiting" /\ pc'[u] = "ready"
  BY <1>1, StepShape, ShapeKeepsLock DEF Base
<1>3. KnowsResult'
  BY <1>1, <1>2 DEF KnowsResult, Proceeds
<1>4. pc[t] # "idle" /\ \A u \in Task : pc'[u] # "idle" => pc[u] # "idle"
  BY <1>1, <1>2 DEF Holding
<1>5. CASE Moves(t)
  <2>1. outcome' = outcome
    BY <1>5 DEF Moves, Goto
  <2> QED
    BY <1>1, <1>3, <1>4, <2>1 DEF OneTaskEach
<1>6. CASE Ends(t)
  <2>1. PICK r \in Results : Finish(t, r)
    BY <1>6 DEF Ends
  <2>2. pc'[t] = "idle" /\ outcome' = [outcome EXCEPT ![work[t].id] = r]
    BY <1>1, <2>1, FinishIdles DEF Results, Finish
  <2>3. \A i \in CallId : i # work[t].id => outcome'[i] = outcome[i]
    BY <1>1, <2>2 DEF TypeOK
  <2>4. \A u \in Task : pc'[u] # "idle" =>
          work[u].id \in CallId /\ work[u].id # work[t].id
    BY <1>4, <2>2 DEF OneTaskEach, Base, CallInv
  <2>5. work[t].id <= calls
    BY <1>1, <1>4 DEF OneTaskEach, TypeOK
  <2>6. calls \in Nat
    BY <1>1 DEF TypeOK
  <2> QED
    BY <1>1, <1>3, <1>4, <2>3, <2>4, <2>5, <2>6 DEF OneTaskEach, CallId
<1> QED
  BY <1>1, <1>5, <1>6 DEF Proceeds

\* So does a new call.
LEMMA InvokeKeepsOwn ==
  ASSUME Base, OneTaskEach, KnowsResult, NEW t \in Task, Invoke(t)
  PROVE  OneTaskEach' /\ KnowsResult'
<1>1. /\ TypeOK /\ pc[t] = "idle" /\ calls < MaxOps /\ calls' = calls + 1
      /\ outcome' = outcome /\ res' = res
  BY DEF Base, Invoke
<1>2. calls \in Nat /\ MaxOps \in Nat /\ calls' \in CallId
  BY <1>1, BoundAssumption DEF TypeOK, CallId
<1>3. /\ \A u \in Task : u # t => pc'[u] = pc[u] /\ work'[u] = work[u]
      /\ pc'[t] \in {"ready", "waiting"} /\ work'[t].id = calls'
  BY <1>1 DEF TypeOK, Invoke, Acquire
<1>4. \A u \in Task : u # t /\ pc'[u] # "idle" => work[u].id \in 1..calls
  BY <1>3 DEF OneTaskEach
<1>5. \A u \in Task : pc'[u] # "idle" =>
        work'[u].id \in 1..calls' /\ outcome'[work'[u].id] = "none"
  BY <1>1, <1>2, <1>3, <1>4 DEF OneTaskEach
<1>6. \A u, v \in Task : pc'[u] # "idle" /\ pc'[v] # "idle" /\ work'[u].id = work'[v].id
        => u = v
  BY <1>1, <1>2, <1>3, <1>4 DEF OneTaskEach
<1>7. \A i \in CallId : i > calls' => outcome'[i] = "none"
  BY <1>1, <1>2 DEF OneTaskEach, CallId
<1>8. KnowsResult'
  BY <1>1, <1>3 DEF KnowsResult
<1> QED
  BY <1>5, <1>6, <1>7, <1>8 DEF OneTaskEach

\* So does a cancellation.
LEMMA CancelKeepsOwn ==
  ASSUME Base, OneTaskEach, KnowsResult, NEW t \in Task, Cancel(t)
  PROVE  OneTaskEach' /\ KnowsResult'
<1>1. /\ TypeOK /\ LockInv /\ pc[t] # "idle" /\ UNCHANGED <<work, calls, res>>
      /\ outcome' = [outcome EXCEPT ![work[t].id] = "cancelled"]
  BY DEF Base, Cancel, Finish, histVars
<1>2. pc'[t] = "idle" /\ \A u \in Task : u # t /\ pc'[u] # pc[u] =>
         pc[u] = "waiting" /\ pc'[u] = "ready"
  <2>1. CASE pc[t] = "waiting"
    BY <1>1, <2>1 DEF Cancel, TypeOK
  <2>2. CASE pc[t] # "waiting"
    <3>1. pc[t] \in Holding /\ Finish(t, "cancelled") /\ "cancelled" \in Outcomes
      BY <1>1, <2>2 DEF Cancel, TypeOK, Outcomes
    <3> QED
      BY <1>1, <3>1, FinishIdles, ShapeKeepsLock DEF Leaves
  <2> QED
    BY <2>1, <2>2
<1>3. KnowsResult'
  BY <1>1, <1>2 DEF KnowsResult
<1>4. \A i \in CallId : i # work[t].id => outcome'[i] = outcome[i]
  BY <1>1 DEF TypeOK
<1>5. \A u \in Task : pc'[u] # "idle" =>
        pc[u] # "idle" /\ work[u].id \in CallId /\ work[u].id # work[t].id
  BY <1>1, <1>2 DEF OneTaskEach, Base, CallInv
<1>6. work[t].id <= calls /\ calls \in Nat
  BY <1>1 DEF OneTaskEach, TypeOK
<1> QED
  BY <1>1, <1>3, <1>4, <1>5, <1>6 DEF OneTaskEach, CallId

\* They hold at first and are kept.
LEMMA InitLInv == Init => LInv
BY InitIInv, BoundAssumption DEF Init, LInv, OneTaskEach, KnowsResult, CallId

LEMMA NextLInv == LInv /\ [Next]_vars => LInv'
<1> SUFFICES ASSUME LInv, [Next]_vars PROVE LInv'
  OBVIOUS
<1>1. Base /\ IInv' /\ OneTaskEach /\ KnowsResult
  BY NextIInv DEF LInv, IInv
<1>2. ASSUME NEW t \in Task, Step(t) \/ FirstSendFails(t) \/ Invoke(t) \/ Cancel(t)
      PROVE  OneTaskEach' /\ KnowsResult'
  BY <1>1, <1>2, StepKeepsOwn, InvokeKeepsOwn, CancelKeepsOwn
<1>3. ASSUME \/ LinkLost \/ Controller \/ Garbled \/ UNCHANGED vars
             \/ \E t \in Task : SetToken(t)
      PROVE  OneTaskEach' /\ KnowsResult'
  <2>1. UNCHANGED <<pc, work, res, calls, outcome>>
    BY <1>3 DEF LinkLost, Controller, Garbled, SetToken, histVars, vars
  <2> QED
    BY <1>1, <2>1 DEF OneTaskEach, KnowsResult
<1> QED
  BY <1>1, <1>2, <1>3 DEF Next, LInv

----------------------------------------------------------------------------
(* The queue of calls is the image of the queue of tasks. *)

\* Tasks and the calls they are in, in the same order.
LEMMA Mapped ==
  ASSUME NEW w \in Seq(Task), NEW f, \A i \in DOMAIN w : f[w[i]].id \in CallId,
         NEW q, q = [i \in DOMAIN w |-> f[w[i]].id]
  PROVE  /\ q \in Seq(CallId) /\ Len(q) = Len(w) /\ DOMAIN q = 1..Len(w)
         /\ \A i \in 1..Len(w) : q[i] = f[w[i]].id
<1>1. Len(w) \in Nat /\ DOMAIN w = 1..Len(w)
  OBVIOUS
<1>2. q \in [1..Len(w) -> CallId]
  BY <1>1
<1>3. q \in Seq(CallId) /\ DOMAIN q = 1..Len(w)
  BY <1>1, <1>2, SeqDef
<1> QED
  BY <1>1, <1>2, <1>3, LenProperties

\* What Queue and Current are in terms of the lock.
LEMMA QueueIs ==
  ASSUME Base
  PROVE  /\ waiters \in Seq(Task) /\ Queue \in Seq(CallId) /\ Len(Queue) = Len(waiters)
         /\ DOMAIN Queue = 1..Len(waiters) /\ DOMAIN waiters = 1..Len(waiters)
         /\ \A i \in 1..Len(waiters) :
              waiters[i] \in Task /\ pc[waiters[i]] = "waiting" /\ Queue[i] = work[waiters[i]].id
         /\ \A t \in Task : pc[t] \in Holding => Current = work[t].id /\ Current \in CallId
<1>1. /\ waiters \in Seq(Task) /\ LockInv /\ CallInv
      /\ DOMAIN waiters = 1..Len(waiters) /\ Len(waiters) \in Nat
  BY DEF Base, TypeOK
<1>2. \A i \in 1..Len(waiters) : waiters[i] \in Task /\ pc[waiters[i]] = "waiting"
  BY <1>1 DEF LockInv
<1>3. \A i \in DOMAIN waiters : work[waiters[i]].id \in CallId
  BY <1>1, <1>2 DEF CallInv
<1>4. \A t \in Task : pc[t] \in Holding => Current = work[t].id /\ Current \in CallId
  BY <1>1, NullAssumption DEF LockInv, CallInv, Current, Holding
<1> QED
  BY <1>1, <1>2, <1>3, <1>4, Mapped DEF Queue

\* A call that ends gives the port to the next in the queue.
LEMMA FinishEndsCall ==
  ASSUME Base, OneTaskEach, NEW t \in Task, pc[t] \in Holding, NEW r \in Results,
         Finish(t, r), work' = work, last'.id \in {last.id, work[t].id}
  PROVE  Line!Next
<1>1. /\ TypeOK /\ LockInv /\ Current = work[t].id /\ Current \in CallId /\ Current # 0
      /\ outcome[Current] = "none"
  BY QueueIs DEF Base, OneTaskEach, Holding, CallId
<1>2. outcome' = [outcome EXCEPT ![Current] = r] /\ Release(t)
  BY <1>1 DEF Finish
<1>3. CASE waiters = <<>>
  <2>1. Queue = <<>>
    BY <1>3, QueueIs
  <2>2. Current' = 0 /\ Queue' = Queue
    BY <1>1, <1>2, <1>3 DEF Release, Current, Queue
  <2> QED
    BY <1>1, <1>2, <2>1, <2>2 DEF Line!Next, Line!End, Results
<1>4. CASE waiters # <<>>
  <2>1. holder' = Head(waiters) /\ waiters' = Tail(waiters)
    BY <1>2, <1>4 DEF Release
  <2>2. waiters \in Seq(Task) /\ Queue \in Seq(CallId) /\ Queue # <<>>
    BY <1>4, QueueIs
  <2>3. /\ Head(waiters) = waiters[1] /\ Head(Queue) = Queue[1] /\ 1 \in 1..Len(waiters)
    BY <1>4, <2>2, QueueIs
  <2>4. Current' = Head(Queue)
    <3>1. Head(waiters) # NoTask /\ Queue[1] = work[Head(waiters)].id
      BY <2>3, QueueIs, NullAssumption
    <3> QED
      BY <1>1, <2>1, <2>3, <3>1 DEF Current
  <2>5. Queue' = Tail(Queue)
    <3>1. /\ Tail(waiters) \in Seq(Task) /\ Len(Tail(waiters)) = Len(waiters) - 1
          /\ \A i \in 1..(Len(waiters) - 1) : Tail(waiters)[i] = waiters[i + 1]
      BY <1>4, <2>2, HeadTailProperties
    <3>2. /\ Tail(Queue) \in Seq(CallId) /\ Len(Tail(Queue)) = Len(waiters) - 1
          /\ \A i \in 1..(Len(waiters) - 1) : Tail(Queue)[i] = Queue[i + 1]
      BY <2>2, QueueIs, HeadTailProperties
    <3>3. \A i \in 1..(Len(waiters) - 1) :
            /\ i + 1 \in 1..Len(waiters)
            /\ work[Tail(waiters)[i]].id = Queue[i + 1] /\ Queue[i + 1] \in CallId
      BY <2>2, <3>1, QueueIs
    <3>4. Queue' = [i \in DOMAIN Tail(waiters) |-> work[Tail(waiters)[i]].id]
      BY <1>1, <2>1 DEF Queue
    <3>5. \A i \in DOMAIN Tail(waiters) : work[Tail(waiters)[i]].id \in CallId
      BY <3>1, <3>3
    <3>6. /\ Queue' \in Seq(CallId) /\ Len(Queue') = Len(Tail(waiters))
          /\ \A i \in 1..Len(Tail(waiters)) : Queue'[i] = work[Tail(waiters)[i]].id
      BY <3>1, <3>4, <3>5, Mapped
    <3>7. \A i \in 1..(Len(waiters) - 1) : Queue'[i] = Queue[i + 1]
      BY <3>1, <3>3, <3>6
    <3> QED
      BY <3>1, <3>2, <3>6, <3>7, SeqEqual
  <2> QED
    BY <1>1, <1>2, <2>2, <2>4, <2>5 DEF Line!Next, Line!End, Results
<1> QED
  BY <1>3, <1>4

\* A step of a call is a frame of the call that is served, its end, or nothing
\* that the callers see.
LEMMA StepRefines ==
  ASSUME Base, OneTaskEach, KnowsResult, NEW t \in Task, Step(t) \/ FirstSendFails(t)
  PROVE  Line!Next \/ UNCHANGED Line!vars
<1>1. TypeOK /\ LockInv /\ pc[t] \in Holding /\ work' = work /\ Proceeds(t)
  BY StepShape, StepProceeds DEF Base
<1>2. /\ Current = work[t].id /\ Current \in CallId /\ Current # 0
      /\ outcome[Current] = "none" /\ last'.id \in {last.id, Current}
  BY <1>1, QueueIs DEF OneTaskEach, Proceeds, Holding, CallId
<1>3. CASE Moves(t)
  <2>1. UNCHANGED <<holder, waiters, outcome>>
    BY <1>3 DEF Moves, Goto, lockVars
  <2>2. UNCHANGED <<Queue, Current, outcome>>
    BY <1>1, <2>1 DEF Queue, Current
  <2>3. CASE last'.id = Current
    BY <1>2, <2>2, <2>3 DEF Line!Next, Line!Speak
  <2>4. CASE last'.id = last.id
    BY <2>2, <2>4 DEF Line!vars
  <2> QED
    BY <1>2, <2>3, <2>4
<1>4. CASE Ends(t)
  BY <1>1, <1>2, <1>4, FinishEndsCall DEF Ends
<1> QED
  BY <1>1, <1>3, <1>4 DEF Proceeds

\* A new call is submitted.
LEMMA InvokeRefines ==
  ASSUME Base, OneTaskEach, NEW t \in Task, Invoke(t)
  PROVE  Line!Next
<1> DEFINE c == calls'
<1>1. /\ TypeOK /\ LockInv /\ pc[t] = "idle" /\ c = calls + 1 /\ calls < MaxOps /\ Acquire(t)
      /\ UNCHANGED <<outcome, last>>
  BY DEF Base, Invoke
<1>2. c \in CallId /\ calls \in Nat /\ c # 0 /\ c \notin 1..calls
  BY <1>1, BoundAssumption DEF TypeOK, CallId
<1>3. work'[t].id = c /\ \A u \in Task : u # t => work'[u] = work[u]
  BY <1>1 DEF TypeOK, Invoke
<1> HIDE DEF c
<1>4. outcome[c] = "none"
  <2>1. c > calls
    BY <1>1, <1>2
  <2> QED
    BY <1>2, <2>1 DEF OneTaskEach
<1>5. /\ \A u \in Task : pc[u] # "idle" => work[u].id # c
      /\ \A i \in DOMAIN Queue : Queue[i] # c
  <2>1. \A u \in Task : pc[u] # "idle" => work[u].id # c
    BY <1>2 DEF OneTaskEach
  <2> QED
    BY <2>1, QueueIs
<1>6. Current # c
  BY <1>1, <1>2, <1>5 DEF Current, LockInv, TypeOK, Holding
<1>7. CASE holder = NoTask
  <2>1. waiters = <<>> /\ waiters' = waiters /\ holder' = t
    BY <1>1, <1>7 DEF Acquire, LockInv
  <2>2. Current = 0 /\ Current' = c
    BY <1>3, <1>7, <2>1, NullAssumption DEF Current
  <2>3. Queue' = Queue
    BY <2>1 DEF Queue
  <2> QED
    BY <1>1, <1>2, <1>4, <1>5, <1>6, <2>2, <2>3 DEF Line!Next, Line!Submit, Line!Waiting
<1>8. CASE holder # NoTask
  <2>1. waiters' = Append(waiters, t) /\ holder' = holder /\ holder \in Task
    BY <1>1, <1>8 DEF Acquire, TypeOK
  <2>2. pc[holder] \in Holding /\ holder # t
    BY <1>1, <2>1 DEF LockInv, Holding
  <2>3. Current' = Current /\ Current # 0
    <3>1. Current = work[holder].id /\ Current \in CallId
      BY <2>1, <2>2, QueueIs
    <3> QED
      BY <1>3, <1>8, <2>1, <2>2, <3>1 DEF Current, CallId
  <2>4. Queue' = Append(Queue, c)
    <3>1. /\ waiters' \in Seq(Task) /\ Len(waiters') = Len(waiters) + 1
          /\ DOMAIN waiters' = 1..(Len(waiters) + 1) /\ Len(waiters) \in Nat
          /\ waiters'[Len(waiters) + 1] = t
          /\ \A i \in 1..Len(waiters) : waiters'[i] = waiters[i]
      BY <2>1, QueueIs
    <3>2. /\ Append(Queue, c) \in Seq(CallId) /\ Len(Append(Queue, c)) = Len(waiters) + 1
          /\ Append(Queue, c)[Len(waiters) + 1] = c
          /\ \A i \in 1..Len(waiters) : Append(Queue, c)[i] = Queue[i]
      BY <1>2, QueueIs
    <3>3. \A i \in 1..Len(waiters) : work'[waiters'[i]].id = Queue[i] /\ Queue[i] \in CallId
      BY <1>1, <1>3, <3>1, QueueIs
    <3>4. \A i \in DOMAIN waiters' :
            /\ work'[waiters'[i]].id = Append(Queue, c)[i]
            /\ work'[waiters'[i]].id \in CallId
      BY <1>2, <1>3, <3>1, <3>2, <3>3
    <3>5. Queue' = [i \in DOMAIN waiters' |-> work'[waiters'[i]].id]
      BY DEF Queue
    <3>6. /\ Queue' \in Seq(CallId) /\ Len(Queue') = Len(waiters) + 1
          /\ \A i \in 1..(Len(waiters) + 1) : Queue'[i] = work'[waiters'[i]].id
      BY <3>1, <3>4, <3>5, Mapped
    <3> QED
      BY <3>1, <3>2, <3>4, <3>6, SeqEqual
  <2> QED
    BY <1>1, <1>2, <1>4, <1>5, <1>6, <2>3, <2>4 DEF Line!Next, Line!Submit, Line!Waiting
<1> QED
  BY <1>7, <1>8

\* A waiter that is cancelled gives up, the holder ends.
LEMMA CancelRefines ==
  ASSUME Base, OneTaskEach, KnowsResult, NEW t \in Task, Cancel(t)
  PROVE  Line!Next
<1>1. /\ TypeOK /\ LockInv /\ pc[t] # "idle" /\ UNCHANGED <<work, last, res>>
      /\ work[t].id \in CallId /\ outcome[work[t].id] = "none"
  BY DEF Base, CallInv, OneTaskEach, Cancel, Silent
<1>2. CASE pc[t] = "waiting"
  <2>1. PICK k \in DOMAIN waiters : waiters[k] = t /\ waiters' = WithoutWaiter(k)
    BY <1>2 DEF Cancel
  <2>2. holder' = holder /\ outcome' = [outcome EXCEPT ![work[t].id] = "cancelled"]
    BY <1>2 DEF Cancel
  <2>3. Current' = Current
    BY <1>1, <2>2 DEF Current
  <2> DEFINE rest == Without(Queue, k)
  <2>4. k \in 1..Len(waiters) /\ k \in 1..Len(Queue) /\ k \in DOMAIN Queue /\ Queue[k] = work[t].id
    BY <2>1, QueueIs
  <2>5. /\ waiters' \in Seq(Task) /\ Len(waiters') = Len(waiters) - 1
        /\ DOMAIN waiters' = 1..(Len(waiters) - 1)
        /\ \A i \in 1..(Len(waiters) - 1) : waiters'[i] = waiters[IF i < k THEN i ELSE i + 1]
    <3>1. waiters' = Without(waiters, k)
      BY <2>1 DEF WithoutWaiter, Without
    <3>2. waiters \in Seq(Task) /\ k \in 1..Len(waiters)
      BY <2>4, QueueIs
    <3> QED
      BY <3>1, <3>2, DropOne
  <2>6. /\ rest \in Seq(CallId) /\ Len(rest) = Len(waiters) - 1
        /\ \A i \in 1..(Len(waiters) - 1) : rest[i] = Queue[IF i < k THEN i ELSE i + 1]
    <3>1. Queue \in Seq(CallId) /\ k \in 1..Len(Queue) /\ Len(Queue) = Len(waiters)
      BY <2>4, QueueIs
    <3>2. /\ rest \in Seq(CallId) /\ Len(rest) = Len(Queue) - 1
          /\ \A i \in 1..(Len(Queue) - 1) : rest[i] = Queue[IF i < k THEN i ELSE i + 1]
      BY <3>1, DropOne DEF rest
    <3> QED
      BY <3>1, <3>2
  <2> HIDE DEF rest
  <2>7. \A i \in 1..(Len(waiters) - 1) :
          work[waiters'[i]].id = rest[i] /\ rest[i] \in CallId
    <3> SUFFICES ASSUME NEW i \in 1..(Len(waiters) - 1)
                 PROVE  work[waiters'[i]].id = rest[i] /\ rest[i] \in CallId
      OBVIOUS
    <3> DEFINE j == IF i < k THEN i ELSE i + 1
    <3>1. j \in 1..Len(waiters)
      BY <2>4, QueueIs
    <3>2. waiters'[i] = waiters[j] /\ rest[i] = Queue[j]
      BY <2>5, <2>6
    <3> HIDE DEF j
    <3> QED
      BY <3>1, <3>2, QueueIs
  <2>8. Queue' = [i \in DOMAIN waiters' |-> work[waiters'[i]].id]
    BY <1>1 DEF Queue
  <2>9. /\ Queue' \in Seq(CallId) /\ Len(Queue') = Len(waiters) - 1
        /\ \A i \in 1..(Len(waiters) - 1) : Queue'[i] = work[waiters'[i]].id
    BY <2>5, <2>7, <2>8, Mapped
  <2>10. Queue' = rest
    BY <2>6, <2>7, <2>9, SeqEqual
  <2> QED
    BY <1>1, <2>2, <2>3, <2>4, <2>10 DEF Line!Next, Line!GiveUp, rest, Without
<1>3. CASE pc[t] # "waiting"
  <2>1. pc[t] \in Holding /\ Finish(t, "cancelled") /\ "cancelled" \in Results
    BY <1>1, <1>3 DEF Cancel, TypeOK, Results, Outcomes
  <2> QED
    BY <1>1, <2>1, FinishEndsCall
<1> QED
  BY <1>2, <1>3

\* Nothing else is seen by the callers.
LEMMA OthersRefine ==
  ASSUME \/ LinkLost \/ Controller \/ Garbled \/ UNCHANGED vars
         \/ \E t \in Task : SetToken(t)
  PROVE  UNCHANGED Line!vars
<1>1. UNCHANGED <<holder, waiters, work, outcome, last>>
  BY DEF LinkLost, Controller, Garbled, SetToken, lockVars, vars
<1> QED
  BY <1>1 DEF Line!vars, Queue, Current

\* The port serves its callers one by one and in their order, whatever happens
\* behind it: Transport implements SerialLine.
THEOREM TransportServesInOrder == Spec => ServesInOrder
<1>1. Init => Line!Init
  BY DEF Init, Line!Init, Queue, Current, NoFrame
<1>2. LInv /\ [Next]_vars => [Line!Next]_(Line!vars)
  <2> SUFFICES ASSUME LInv, [Next]_vars
               PROVE  Line!Next \/ UNCHANGED Line!vars
    OBVIOUS
  <2>1. Base /\ OneTaskEach /\ KnowsResult
    BY DEF LInv, IInv
  <2> QED
    BY <2>1, StepRefines, InvokeRefines, CancelRefines, OthersRefine DEF Next
<1> QED
  BY <1>1, <1>2, InitLInv, NextLInv, PTL DEF Spec, ServesInOrder, Line!Spec
=============================================================================

---------------------------- MODULE SessionProofs ----------------------------
(* The write sessions of the controller, for every number of tasks, blocks *)
(* and calls: no write leaves one open, a query's recovery ends one, what  *)
(* is acknowledged has been applied and nothing else is.                   *)
EXTENDS TransportProofs

----------------------------------------------------------------------------
(* The port as its holder sees it.  Whatever is running on the line is     *)
(* running for the call that has the lock.                                 *)

Stage == IF holder = NoTask THEN "idle" ELSE pc[holder]
Own == IF holder = NoTask THEN NoCall ELSE work[holder]
Result == IF holder = NoTask THEN "none" ELSE res[holder]

\* A frame of the holder.
OwnFrame(c, r) == [cmd |-> c, reg |-> r, id |-> Own.id]

\* The holder goes on to p, or ends with r.
Stay(p) == Stage' = p /\ UNCHANGED <<holder, Own, lastEnded, outcome>>
Leave(r) ==
  /\ Stage' \in {"idle", "ready"} /\ (Stage' = "idle" <=> holder' = NoTask)
  /\ lastEnded' = Own /\ outcome' = [outcome EXCEPT ![Own.id] = r]

\* How a call may end without another frame.
MayQuit(r) ==
  /\ r = "acked" => Stage = "committing" /\ Has(rx, "ack")
  /\ r = "aborted" => \/ Stage \in {"opened", "paid"}
                      \/ Stage \in {"aborting", "closing"} /\ Result = "aborted"
  /\ \/ r = "cancelled" \/ Stage \in {"ready", "closing", "committing"}
     \/ Stage = "reading" /\ r = "ok"
     \/ writer # "open"

\* What the holder's next step can be: its frames, and nothing but its frames,
\* go out in the order of the handshake.
Quits ==
  /\ Silent /\ UNCHANGED committed
  /\ writer' = writer \/ (writer' = "none" /\ rx' = <<>>)
       \/ (Stage = "ready" /\ writer' = "open" /\ rx' = <<>>)
  /\ Stage \in {"ready", "closing"} => UNCHANGED saw779
  /\ \E r \in Outcomes : MayQuit(r) /\ Leave(r)
Begins ==
  /\ Stage = "ready" /\ writer' = "open" /\ UNCHANGED <<committed, saw779>>
  /\ \/ Own.kind = "read" /\ Stay("reading") /\ Send(OwnFrame(Own.first, Own.reg))
     \/ Own.kind = "write" /\ Stay("opened") /\ Send(OwnFrame("open", Own.reg))
Waits ==
  /\ Stage \in {"reading", "committing"} /\ Stay(Stage)
  /\ Silent /\ UNCHANGED <<writer, committed>>
  /\ Stage = "reading" => UNCHANGED saw779
  /\ Has(rx, "ack")' => Has(rx, "ack")
Shuts ==
  /\ Stage \in {"ready", "reading"} /\ Stay("closing")
  /\ Silent /\ writer' = "closed" /\ UNCHANGED <<committed, saw779>>
  /\ Result' # "aborted"
Resumes ==
  /\ Stage \in {"opened", "paid"} /\ InTime /\ ~Has(Chunk256, "779")
  /\ writer = "open" /\ rx' = Rest256 /\ UNCHANGED <<writer, saw779>>
  /\ \/ /\ Stage = "opened" /\ Stay("paid")
        /\ Send(OwnFrame("payload", Own.reg)) /\ UNCHANGED committed
     \/ /\ Stage = "paid" /\ Stay("committing")
        /\ Send(OwnFrame("commit", AnyReg)) /\ committed' = committed \cup {Own.id}
Aborts ==
  /\ Stage \in {"opened", "paid", "committing"} /\ Stay("aborting")
  /\ writer = "open" /\ UNCHANGED <<writer, committed>>
  /\ Send(OwnFrame("cancel", Own.reg))
  /\ Result' = "aborted" => Stage \in {"opened", "paid"}
EndsAbort ==
  /\ Stage = "aborting" /\ writer = "open" /\ UNCHANGED <<writer, committed, saw779>>
  /\ Send(OwnFrame("commit", AnyReg)) /\ Leave(Result)
Recovers ==
  /\ Stage = "reading" /\ Stay("recovering")
  /\ writer = "open" /\ UNCHANGED <<writer, committed>>
  /\ Send(OwnFrame("cancel", AnyReg))
EndsRecovery ==
  /\ Stage = "recovering" /\ Stay("closing")
  /\ writer = "open" /\ writer' = "closed" /\ UNCHANGED <<committed, saw779>>
  /\ Send(OwnFrame("commit", AnyReg)) /\ Result' # "aborted"

HolderSteps ==
  /\ UNCHANGED <<session, applied>> /\ Stage \in Holding
  /\ saw779' \in {saw779, saw779 \cup {Own.id}}
  /\ faults'.desync = faults.desync /\ (faults'.drop = 0 => faults.drop = 0)
  /\ \/ Quits \/ Begins \/ Waits \/ Shuts \/ Resumes \/ Aborts \/ EndsAbort
     \/ Recovers \/ EndsRecovery

\* What the other tasks do: a call is made or is cancelled while it waits.
OthersStep ==
  /\ UNCHANGED <<tx, rx, writer, session, applied, committed, saw779, lastEnded>>
  /\ faults'.drop = faults.drop /\ faults'.desync >= faults.desync
  /\ \/ UNCHANGED <<holder, Stage, Own, Result>>
     \/ Stage = "idle" /\ Stage' = "ready" /\ holder' # NoTask
  /\ \/ outcome' = outcome
     \/ \E t \in Task : pc[t] = "waiting" /\ outcome' = [outcome EXCEPT ![work[t].id] = "cancelled"]

\* What happens on the line and in the controller.
LineSteps ==
  /\ LinkLost \/ Controller \/ Garbled
  /\ UNCHANGED <<holder, Stage, Own, Result, lastEnded, outcome, committed, saw779>>

\* No call keeps "acked" for the end of its clean-up: a write that has seen 993/999
\* ends at once.
NeverKeepsAck == \A t \in Task : res[t] # "acked"

\* A read of 256 bytes gets all that is in the buffer.
PeekSeesAll == Len(rx) <= PeekItems

----------------------------------------------------------------------------
(* These are all the steps. *)

\* What a peek returns and what it leaves is from the buffer; a peek that sees all
\* leaves nothing.
LEMMA PeekSplits ==
  ASSUME TypeOK
  PROVE  /\ \A k : Has(Chunk256, k) \/ Has(Rest256, k) => Has(rx, k)
         /\ PeekSeesAll => Rest256 = <<>> /\ \A k : Has(rx, k) => Has(Chunk256, k)
<1> DEFINE n == Len(rx)
           m == IF n < PeekItems THEN n ELSE PeekItems
<1>1. /\ rx \in Seq(Replies) /\ n \in Nat /\ PeekItems \in Nat /\ m \in 0..n
      /\ DOMAIN rx = 1..n /\ n = Len(rx)
  <2>1. rx \in Seq(Replies) /\ n \in Nat /\ PeekItems \in Nat /\ DOMAIN rx = 1..n /\ n = Len(rx)
    BY BoundAssumption DEF TypeOK
  <2> HIDE DEF n
  <2> QED
    BY <2>1
<1>2. Chunk256 = SubSeq(rx, 1, m) /\ Rest256 = SubSeq(rx, Len(Chunk256) + 1, n)
  BY DEF Chunk256, Rest256
<1>3. PeekSeesAll => m = n
  <2>1. PeekSeesAll <=> n <= PeekItems
    BY DEF PeekSeesAll
  <2>2. n \in Nat /\ PeekItems \in Nat
    BY <1>1
  <2> HIDE DEF n
  <2>3. CASE n < PeekItems
    BY <2>3
  <2>4. CASE ~(n < PeekItems)
    <3>1. n <= PeekItems => n = PeekItems
      BY <2>2, <2>4
    <3> QED
      BY <2>1, <2>4, <3>1
  <2> QED
    BY <2>3, <2>4
<1> HIDE DEF n, m
<1>4. DOMAIN Chunk256 = 1..m /\ Len(Chunk256) = m /\ \A i \in 1..m : Chunk256[i] = rx[i]
  <2>1. \A i \in 1..m : rx[i] \in Replies
    BY <1>1
  <2> QED
    BY <1>1, <1>2, <2>1
<1>5. Rest256 = SubSeq(rx, m + 1, n)
  BY <1>2, <1>4
<1>6. /\ DOMAIN Rest256 = 1..(n - m)
      /\ \A i \in 1..(n - m) : Rest256[i] = rx[m + i]
  BY <1>1, <1>5
<1>7. ASSUME NEW k, Has(Chunk256, k) \/ Has(Rest256, k)
      PROVE  Has(rx, k)
  <2>1. CASE Has(Chunk256, k)
    BY <1>1, <1>4, <2>1 DEF Has
  <2>2. CASE Has(Rest256, k)
    <3>1. PICK i \in 1..(n - m) : rx[m + i].kind = k
      BY <1>6, <2>2 DEF Has
    <3>2. m + i \in DOMAIN rx
      BY <1>1
    <3> QED
      BY <3>1, <3>2 DEF Has
  <2> QED
    BY <1>7, <2>1, <2>2
<1>8. ASSUME PeekSeesAll
      PROVE  Rest256 = <<>> /\ \A k : Has(rx, k) => Has(Chunk256, k)
  <2>1. m = n
    BY <1>3, <1>8
  <2>2. Rest256 = <<>>
    BY <1>1, <1>5, <2>1
  <2> QED
    BY <1>1, <1>4, <2>1, <2>2 DEF Has
<1> QED
  BY <1>7, <1>8

\* Who has the lock is the holder.
LEMMA HolderIs ==
  ASSUME Base, NEW t \in Task, pc[t] \in Holding
  PROVE  /\ holder = t /\ holder # NoTask
         /\ Stage = pc[t] /\ Own = work[t] /\ Result = res[t]
BY NullAssumption DEF Base, LockInv, Stage, Own, Result

\* Going on, for the holder.
LEMMA GotoStays ==
  ASSUME Base, NEW t \in Task, pc[t] \in Holding, NEW p \in Holding, Goto(t, p), work' = work
  PROVE  Stay(p) /\ Result' = res'[t]
<1>1. holder = t /\ holder # NoTask /\ holder' = holder /\ pc'[t] = p
  BY HolderIs DEF Goto, lockVars, Base, TypeOK
<1> QED
  BY <1>1 DEF Stay, Stage, Own, Result, Goto

\* Ending, for the holder.
LEMMA FinishLeaves ==
  ASSUME Base, NEW t \in Task, pc[t] \in Holding, NEW r \in Outcomes, Finish(t, r)
  PROVE  Leave(r)
<1>1. TypeOK /\ LockInv /\ Own = work[t]
  BY HolderIs DEF Base
<1>2. lastEnded' = Own /\ outcome' = [outcome EXCEPT ![Own.id] = r]
  BY <1>1 DEF Finish, Release
<1>3. CASE waiters = <<>>
  <2>1. holder' = NoTask
    BY <1>3 DEF Finish, Release
  <2> QED
    BY <1>2, <2>1 DEF Leave, Stage
<1>4. CASE waiters # <<>>
  <2>1. Head(waiters) \in Task /\ Head(waiters) # NoTask
    BY <1>1, <1>4, NullAssumption DEF TypeOK
  <2>2. holder' = Head(waiters) /\ pc'[Head(waiters)] = "ready"
    BY <1>1, <1>4, <2>1 DEF Finish, Release, TypeOK
  <2> QED
    BY <1>2, <2>1, <2>2 DEF Leave, Stage
<1> QED
  BY <1>3, <1>4

\* _close_locked, for the holder.
LEMMA CloseThenView ==
  ASSUME Base, NEW t \in Task, pc[t] \in Holding, NEW r \in Outcomes, CloseThen(t, r),
         work' = work
  PROVE  \/ writer = "open" /\ writer' = "closed" /\ Stay("closing") /\ Result' = r
         \/ writer # "open" /\ writer' = "none" /\ rx' = <<>> /\ Leave(r)
<1>1. CASE writer = "open"
  <2>1. /\ Goto(t, "closing") /\ writer' = "closed" /\ res' = [res EXCEPT ![t] = r]
        /\ "closing" \in Holding
    BY <1>1 DEF CloseThen, Holding
  <2>2. res'[t] = r
    BY <2>1 DEF Base, TypeOK
  <2> QED
    BY <1>1, <2>1, <2>2, GotoStays
<1>2. CASE writer # "open"
  BY <1>2, FinishLeaves DEF CloseThen
<1> QED
  BY <1>1, <1>2

\* _abort_locked, for the holder.
LEMMA AbortThenView ==
  ASSUME Base, NEW t \in Task, pc[t] \in Holding, NEW r \in Outcomes, AbortThen(t, r),
         work' = work
  PROVE  /\ writer' = writer
         /\ \/ /\ writer = "open" /\ Stay("aborting") /\ Result' = r
               /\ Send(OwnFrame("cancel", Own.reg))
            \/ writer # "open" /\ Silent /\ Leave(r)
<1>1. Own = work[t] /\ writer' = writer
  BY HolderIs DEF AbortThen, portVars
<1>2. CASE writer = "open"
  <2>1. /\ Goto(t, "aborting") /\ res' = [res EXCEPT ![t] = r] /\ "aborting" \in Holding
        /\ Send(Frame(t, "cancel", work[t].reg))
    BY <1>2 DEF AbortThen, Holding
  <2>2. res'[t] = r
    BY <2>1 DEF Base, TypeOK
  <2>3. Send(OwnFrame("cancel", Own.reg))
    BY <1>1, <2>1 DEF Frame, OwnFrame
  <2> QED
    BY <1>1, <1>2, <2>1, <2>2, <2>3, GotoStays
<1>3. CASE writer # "open"
  BY <1>1, <1>3, FinishLeaves DEF AbortThen
<1> QED
  BY <1>2, <1>3

\* Every step of the task that has the lock, its cancellation included.
LEMMA HolderView ==
  ASSUME Base, NeverKeepsAck, NEW t \in Task,
         Step(t) \/ FirstSendFails(t) \/ (Cancel(t) /\ pc[t] # "waiting")
  PROVE  HolderSteps
<1>1. TypeOK /\ LockInv
  BY DEF Base
<1>2. pc[t] \in Holding /\ work' = work
  BY <1>1, StepShape DEF Cancel, TypeOK
<1>3. Stage = pc[t] /\ Own = work[t] /\ Result = res[t] /\ Stage \in Holding
  BY <1>2, HolderIs
<1>4. {"ok", "acked", "aborted", "error", "cancelled"} \subseteq Outcomes /\ res[t] \in Outcomes
  BY <1>1 DEF Outcomes, TypeOK
<1>5. \A p \in Holding : Goto(t, p) => Stay(p) /\ Result' = res'[t]
  BY <1>2, GotoStays
<1>6. \A r \in Outcomes : Finish(t, r) => Leave(r)
  BY <1>2, FinishLeaves
<1>7. \A r \in Outcomes : CloseThen(t, r) =>
        \/ writer = "open" /\ writer' = "closed" /\ Stay("closing") /\ Result' = r
        \/ writer # "open" /\ writer' = "none" /\ rx' = <<>> /\ Leave(r)
  BY <1>2, CloseThenView
<1>8. \A r \in Outcomes : AbortThen(t, r) =>
        /\ writer' = writer
        /\ \/ /\ writer = "open" /\ Stay("aborting") /\ Result' = r
              /\ Send(OwnFrame("cancel", Own.reg))
           \/ writer # "open" /\ Silent /\ Leave(r)
  BY <1>2, AbortThenView
<1>9. \A c, r : Frame(t, c, r) = OwnFrame(c, r)
  BY <1>3 DEF Frame, OwnFrame
<1>10. \A chunk : Saw(t, chunk) => saw779' \in {saw779, saw779 \cup {Own.id}}
  BY <1>3 DEF Saw
<1> DEFINE Quiet779 == UNCHANGED <<session, applied, saw779, faults>>
<1>11. ASSUME Quiet779, Quits \/ Begins \/ Shuts \/ EndsAbort \/ EndsRecovery \/ Waits
                          \/ Resumes \/ Aborts
       PROVE  HolderSteps
  BY <1>3, <1>11 DEF HolderSteps
<1>12. CASE Connect(t)
  <2>1. Quiet779 /\ Silent /\ UNCHANGED committed /\ Stage = "ready"
    BY <1>3, <1>12 DEF Connect, ctrlVars, histVars
  <2>2. writer' = writer \/ (writer' = "open" /\ rx' = <<>>)
    BY <1>12 DEF Connect, portVars
  <2>3. Leave("ok") \/ Leave("error")
    BY <1>4, <1>6, <1>12 DEF Connect
  <2>4. Quits
    BY <1>4, <2>1, <2>2, <2>3 DEF Quits, MayQuit
  <2> QED
    BY <1>11, <2>1, <2>4
<1>13. CASE Close(t) \/ ReadFails(t) \/ AwaitRaises(t)
  <2>1. /\ Quiet779 /\ Silent /\ UNCHANGED committed /\ Stage \in {"ready", "reading", "committing"}
        /\ Stage = "committing" => writer # "open"
    BY <1>3, <1>13 DEF Close, ReadFails, AwaitRaises, ctrlVars, histVars
  <2>2. \E r \in {"ok", "error"} : CloseThen(t, r)
    BY <1>13 DEF Close, ReadFails, AwaitRaises
  <2>3. Quits \/ Shuts
    BY <1>4, <1>7, <2>1, <2>2 DEF Quits, MayQuit, Shuts
  <2> QED
    BY <1>11, <2>1, <2>3
<1>14. CASE Closed(t)
  <2>1. Quiet779 /\ Silent /\ UNCHANGED committed /\ Stage = "closing"
    BY <1>3, <1>14 DEF Closed, ctrlVars, histVars
  <2>2. Leave(Result) /\ writer' = "none" /\ rx' = <<>> /\ Result # "acked"
    BY <1>3, <1>4, <1>6, <1>14 DEF Closed, NeverKeepsAck
  <2>3. Quits
    BY <1>3, <1>4, <2>1, <2>2 DEF Quits, MayQuit
  <2> QED
    BY <1>11, <2>1, <2>3
<1>15. CASE Start(t)
  <2>1. Quiet779 /\ UNCHANGED committed /\ Stage = "ready" /\ writer' = "open"
    BY <1>3, <1>15 DEF Start, EnsureOpen, ctrlVars, histVars
  <2>2. \/ Own.kind = "read" /\ Send(OwnFrame(Own.first, Own.reg)) /\ Stay("reading")
        \/ Own.kind = "write" /\ Send(OwnFrame("open", Own.reg)) /\ Stay("opened")
    BY <1>3, <1>5, <1>9, <1>15 DEF Start, Holding
  <2>3. Begins
    BY <2>1, <2>2 DEF Begins
  <2> QED
    BY <1>11, <2>1, <2>3
<1>16. CASE OpenFails(t)
  <2>1. Quiet779 /\ Silent /\ UNCHANGED committed /\ Stage = "ready"
    BY <1>3, <1>16 DEF OpenFails, ctrlVars, histVars
  <2>2. Leave("error") /\ writer' = "none" /\ rx' = <<>>
    BY <1>4, <1>6, <1>16 DEF OpenFails
  <2>3. Quits
    BY <1>4, <2>1, <2>2 DEF Quits, MayQuit
  <2> QED
    BY <1>11, <2>1, <2>3
<1>17. CASE FirstSendFails(t)
  <2>1. UNCHANGED <<session, applied, saw779>> /\ Silent /\ UNCHANGED committed /\ Stage = "ready"
    BY <1>3, <1>17 DEF FirstSendFails, ctrlVars, histVars
  <2>2. Leave("error") /\ writer' = "none" /\ rx' = <<>>
    BY <1>4, <1>6, <1>17 DEF FirstSendFails
  <2>3. faults'.desync = faults.desync /\ faults'.drop = faults.drop + 1 /\ faults.drop \in Nat
    BY <1>1, <1>17, BoundAssumption DEF FirstSendFails, TypeOK
  <2>4. Quits
    BY <1>4, <2>1, <2>2 DEF Quits, MayQuit
  <2> QED
    BY <1>3, <2>1, <2>3, <2>4 DEF HolderSteps
<1>18. CASE ReadChunk(t)
  <2>1. /\ UNCHANGED <<session, applied, faults, committed>> /\ Stage = "reading"
        /\ saw779' \in {saw779, saw779 \cup {Own.id}}
    BY <1>3, <1>10, <1>18 DEF ReadChunk, ctrlVars
  <2>2. CASE Has(rx, "779") /\ Recover(t) /\ writer = "open"
    <3>1. UNCHANGED writer /\ Send(OwnFrame("cancel", AnyReg)) /\ Stay("recovering")
      BY <1>5, <1>9, <2>2 DEF Recover, portVars, Holding
    <3> QED
      BY <2>1, <2>2, <3>1, <1>3 DEF Recovers, HolderSteps
  <2>3. CASE Has(rx, "779") /\ Recover(t) /\ writer # "open"
    <3>1. Silent /\ CloseThen(t, "error")
      BY <2>3 DEF Recover
    <3>2. writer' = "none" /\ rx' = <<>> /\ Leave("error")
      BY <1>4, <1>7, <2>3, <3>1
    <3>3. Quits
      BY <1>4, <2>1, <2>3, <3>1, <3>2 DEF Quits, MayQuit
    <3> QED
      BY <1>3, <2>1, <3>3 DEF HolderSteps
  <2>4. CASE ~Has(rx, "779")
    <3>1. /\ Silent /\ rx' = <<>> /\ UNCHANGED writer /\ saw779' = saw779
          /\ Finish(t, "ok") \/ Goto(t, "reading")
      BY <1>18, <2>4 DEF ReadChunk, Saw, portVars
    <3>2. Leave("ok") \/ Stay("reading")
      BY <1>4, <1>5, <1>6, <3>1 DEF Holding
    <3>3. ~Has(rx, "ack")'
      BY <3>1 DEF Has
    <3>4. Quits \/ Waits
      BY <1>4, <2>1, <3>1, <3>2, <3>3 DEF Quits, MayQuit, Waits
    <3> QED
      BY <1>3, <2>1, <3>4 DEF HolderSteps
  <2> QED
    BY <1>18, <2>2, <2>3, <2>4 DEF ReadChunk
<1>19. CASE Recovered(t)
  <2>1. Quiet779 /\ UNCHANGED committed /\ Stage = "recovering" /\ CloseThen(t, "error")
    BY <1>3, <1>19 DEF Recovered, ctrlVars, histVars
  <2>2. (writer = "open" /\ Send(OwnFrame("commit", AnyReg))) \/ (writer # "open" /\ Silent)
    BY <1>9, <1>19 DEF Recovered, SendFinal999
  <2>3. Quits \/ EndsRecovery
    BY <1>4, <1>7, <2>1, <2>2 DEF Quits, MayQuit, EndsRecovery
  <2> QED
    BY <1>11, <2>1, <2>3
<1>20. CASE PauseEndsAborted(t) \/ AwaitAborted(t)
  <2>1. /\ Quiet779 /\ UNCHANGED committed
        /\ \/ Stage \in {"opened", "paid"} /\ AbortThen(t, "aborted")
           \/ Stage = "committing" /\ AbortThen(t, "error")
    BY <1>3, <1>20 DEF PauseEndsAborted, AwaitAborted, ctrlVars, histVars
  <2>2. Quits \/ Aborts
    BY <1>4, <1>8, <2>1 DEF Quits, MayQuit, Aborts
  <2> QED
    BY <1>11, <2>1, <2>2
<1>21. CASE PeekRaises(t) \/ AwaitEnds(t)
  <2>1. Quiet779 /\ Silent /\ UNCHANGED <<committed, writer>>
    BY <1>3, <1>21 DEF PeekRaises, AwaitEnds, ctrlVars, histVars, portVars
  <2>2. \/ Stage \in {"opened", "paid"} /\ writer = "failed" /\ Leave("error")
        \/ Stage = "committing" /\ Leave("ok")
    BY <1>3, <1>4, <1>6, <1>21 DEF PeekRaises, AwaitEnds
  <2>3. Quits
    BY <1>4, <2>1, <2>2 DEF Quits, MayQuit
  <2> QED
    BY <1>11, <2>1, <2>3
<1>22. CASE PeekSees779(t)
  <2>1. /\ UNCHANGED <<session, applied, faults, committed>> /\ Stage \in {"opened", "paid"}
        /\ saw779' \in {saw779, saw779 \cup {Own.id}} /\ AbortThen(t, "error")
    BY <1>3, <1>10, <1>22 DEF PeekSees779, ctrlVars
  <2>2. Quits \/ Aborts
    BY <1>4, <1>8, <2>1 DEF Quits, MayQuit, Aborts
  <2> QED
    BY <1>3, <2>1, <2>2 DEF HolderSteps
<1>23. CASE SendNext(t)
  <2>1. Quiet779 /\ Stage \in {"opened", "paid"} /\ InTime /\ ~Has(Chunk256, "779")
    BY <1>3, <1>23 DEF SendNext, ctrlVars
  <2>2. CASE writer = "open"
    <3>1. /\ rx' = Rest256 /\ UNCHANGED writer /\ Send(NextFrame(t)) /\ Commits(t)
          /\ Goto(t, NextPc(t))
      BY <1>23, <2>2 DEF SendNext, portVars
    <3>2. CASE Stage = "opened"
      <4>1. Stay("paid") /\ Send(OwnFrame("payload", Own.reg)) /\ UNCHANGED committed
        BY <1>3, <1>5, <1>9, <3>1, <3>2 DEF NextFrame, NextPc, Commits, Holding
      <4> QED
        BY <1>11, <2>1, <2>2, <3>1, <3>2, <4>1 DEF Resumes
    <3>3. CASE Stage = "paid"
      <4>1. /\ Stay("committing") /\ Send(OwnFrame("commit", AnyReg))
            /\ committed' = committed \cup {Own.id}
        BY <1>3, <1>5, <1>9, <3>1, <3>3 DEF NextFrame, NextPc, Commits, Holding
      <4> QED
        BY <1>11, <2>1, <2>2, <3>1, <3>3, <4>1 DEF Resumes
    <3> QED
      BY <2>1, <3>2, <3>3
  <2>3. CASE writer # "open"
    <3>1. CloseThen(t, "error") /\ Silent /\ UNCHANGED committed
      BY <1>23, <2>3 DEF SendNext
    <3>2. Quits
      BY <1>4, <1>7, <2>1, <2>3, <3>1 DEF Quits, MayQuit
    <3> QED
      BY <1>11, <2>1, <3>2
  <2> QED
    BY <2>2, <2>3
<1>24. CASE AwaitChunk(t)
  <2>1. /\ UNCHANGED <<session, applied, faults, committed, writer>> /\ Silent
        /\ Stage = "committing" /\ saw779' \in {saw779, saw779 \cup {Own.id}}
    BY <1>3, <1>10, <1>24 DEF AwaitChunk, ctrlVars, portVars
  <2>2. Has(Chunk256, "ack") => Has(rx, "ack")
    BY <1>1, PeekSplits
  <2>3. Has(rx, "ack")' => Has(rx, "ack")
    <3>1. rx' = Rest256
      BY <1>24 DEF AwaitChunk
    <3>2. Has(rx, "ack")' => Has(Rest256, "ack")
      BY <3>1 DEF Has
    <3> QED
      BY <1>1, <3>2, PeekSplits
  <2>4. \/ Has(Chunk256, "ack") /\ Leave("acked")
        \/ Stay("committing")
    BY <1>4, <1>5, <1>6, <1>24 DEF AwaitChunk, Holding
  <2>5. Quits \/ Waits
    BY <1>4, <2>1, <2>2, <2>3, <2>4 DEF Quits, MayQuit, Waits
  <2> QED
    BY <1>3, <2>1, <2>5 DEF HolderSteps
<1>25. CASE Aborted(t)
  <2>1. Quiet779 /\ UNCHANGED <<committed, writer>> /\ Stage = "aborting" /\ Leave(Result)
    BY <1>3, <1>4, <1>6, <1>25 DEF Aborted, ctrlVars, histVars, portVars
  <2>2. (writer = "open" /\ Send(OwnFrame("commit", AnyReg))) \/ (writer # "open" /\ Silent)
    BY <1>9, <1>25 DEF Aborted, SendFinal999
  <2>3. Result \in Outcomes /\ Result # "acked"
    BY <1>3, <1>4 DEF NeverKeepsAck
  <2>4. Quits \/ EndsAbort
    BY <2>1, <2>2, <2>3 DEF Quits, MayQuit, EndsAbort
  <2> QED
    BY <1>11, <2>1, <2>4
<1>26. CASE Cancel(t) /\ pc[t] # "waiting"
  <2>1. UNCHANGED <<session, applied, saw779, committed, writer>> /\ Silent /\ Finish(t, "cancelled")
    BY <1>26 DEF Cancel, ctrlVars, histVars, portVars
  <2>2. faults'.desync = faults.desync /\ faults'.drop = faults.drop
    BY <1>1, <1>26 DEF Cancel, TypeOK
  <2>3. Leave("cancelled")
    BY <1>4, <1>6, <2>1
  <2>4. Quits
    BY <1>4, <2>1, <2>3 DEF Quits, MayQuit
  <2> QED
    BY <1>3, <2>1, <2>2, <2>4 DEF HolderSteps
<1> QED
  BY <1>12, <1>13, <1>14, <1>15, <1>16, <1>17, <1>18, <1>19, <1>20, <1>21, <1>22, <1>23,
     <1>24, <1>25, <1>26 DEF Step

\* A call is made, an abort token is set, or a call is cancelled while it waits.
LEMMA OthersView ==
  ASSUME Base, NEW t \in Task, Invoke(t) \/ SetToken(t) \/ (Cancel(t) /\ pc[t] = "waiting")
  PROVE  OthersStep
<1>1. TypeOK /\ LockInv
  BY DEF Base
<1>2. UNCHANGED <<tx, rx, writer, session, applied, committed, saw779, lastEnded>>
  BY DEF Invoke, SetToken, Cancel, Silent, portVars, ctrlVars, histVars
<1>3. faults'.drop = faults.drop /\ faults'.desync >= faults.desync
  <2>1. faults \in [cancel : 0..MaxCancels, desync : 0..MaxDesyncs, drop : 0..MaxDrops]
    BY <1>1 DEF TypeOK
  <2>2. /\ \/ faults' = faults
           \/ faults' = [faults EXCEPT !.cancel = @ + 1]
           \/ faults' = [faults EXCEPT !.desync = @ + 1]
        /\ MaxDesyncs \in Nat
    BY BoundAssumption DEF Invoke, SetToken, Cancel
  <2> QED
    BY <2>1, <2>2
<1>4. ASSUME UNCHANGED holder, holder # NoTask =>
               pc'[holder] = pc[holder] /\ work'[holder] = work[holder] /\ res'[holder] = res[holder]
      PROVE  UNCHANGED <<holder, Stage, Own, Result>>
  BY <1>4 DEF Stage, Own, Result
<1>5. CASE Invoke(t)
  <2>1. /\ pc[t] = "idle" /\ res' = res /\ outcome' = outcome /\ Acquire(t)
        /\ \A u \in Task : u # t => work'[u] = work[u]
    BY <1>1, <1>5 DEF Invoke, TypeOK
  <2>2. CASE holder = NoTask
    <3>1. holder' = t /\ holder' # NoTask /\ pc'[t] = "ready"
      BY <1>1, <2>1, <2>2, NullAssumption DEF Acquire, TypeOK
    <3> QED
      BY <1>2, <1>3, <2>1, <2>2, <3>1 DEF OthersStep, Stage
  <2>3. CASE holder # NoTask
    <3>1. holder \in Task /\ holder # t
      BY <1>1, <2>1, <2>3 DEF TypeOK, LockInv, Holding
    <3>2. holder' = holder /\ pc'[holder] = pc[holder] /\ work'[holder] = work[holder]
      BY <1>1, <2>1, <2>3, <3>1 DEF Acquire, TypeOK
    <3> QED
      BY <1>2, <1>3, <1>4, <2>1, <3>2 DEF OthersStep
  <2> QED
    BY <2>2, <2>3
<1>6. CASE SetToken(t)
  BY <1>2, <1>3, <1>4, <1>6 DEF SetToken, lockVars, OthersStep
<1>7. CASE Cancel(t) /\ pc[t] = "waiting"
  <2>1. /\ holder' = holder /\ pc' = [pc EXCEPT ![t] = "idle"] /\ UNCHANGED <<work, res>>
        /\ outcome' = [outcome EXCEPT ![work[t].id] = "cancelled"]
    BY <1>7 DEF Cancel
  <2>2. holder # NoTask => holder # t /\ holder \in Task
    BY <1>1, <1>7 DEF LockInv, TypeOK, Holding
  <2>3. holder # NoTask => pc'[holder] = pc[holder]
    BY <1>1, <2>1, <2>2 DEF TypeOK
  <2> QED
    BY <1>2, <1>3, <1>4, <1>7, <2>1, <2>3 DEF OthersStep
<1> QED
  BY <1>5, <1>6, <1>7

\* What happens on the line is not a step of a task.
LEMMA LineView ==
  ASSUME LinkLost \/ Controller \/ Garbled
  PROVE  LineSteps
<1>1. UNCHANGED <<holder, pc, work, res, lastEnded, outcome, committed, saw779>>
  BY DEF LinkLost, Controller, Garbled, lockVars, histVars
<1> QED
  BY <1>1 DEF LineSteps, Stage, Own, Result

\* Every step is one of these.
LEMMA NextView ==
  ASSUME Base, NeverKeepsAck, [Next]_vars
  PROVE  HolderSteps \/ OthersStep \/ LineSteps
<1>1. CASE UNCHANGED vars
  <2>1. UNCHANGED <<tx, rx, writer, session, applied, committed, saw779, lastEnded, faults,
                    holder, pc, work, res, outcome>>
    BY <1>1 DEF vars
  <2>2. faults.desync \in Nat
    BY BoundAssumption DEF Base, TypeOK
  <2> QED
    BY <2>1, <2>2 DEF OthersStep, Stage, Own, Result
<1>2. CASE Next
  BY <1>2, HolderView, OthersView, LineView DEF Next
<1> QED
  BY <1>1, <1>2

----------------------------------------------------------------------------
(* What every call knows and leaves behind. *)

\* A call that has not sent its first frame has neither read a 779 nor sent a 999,
\* and a query goes on reading only without a 779.
Untouched ==
  /\ saw779 \cup committed \subseteq 1..calls
  /\ \A t \in Task :
       /\ pc[t] \in {"waiting", "ready"} => work[t].id \notin saw779 \cup committed
       /\ pc[t] = "reading" => work[t].id \notin saw779

\* Reads and writes are about a block; raw commands are counted as desyncs.
CallsKnown ==
  \A t \in Task :
    /\ work[t].kind \in {"read", "write"} => work[t].reg \in Reg
    /\ work[t].kind = "read" => work[t].first = "read" \/ MaxDesyncs > 0

\* Without a loss of the link the port is open while a call has frames on it.
PortOpen ==
  faults.drop = 0 => writer # "failed" /\ (Stage \in Sending => writer = "open")

SInv == LInv /\ NeverKeepsAck /\ Untouched /\ CallsKnown /\ PortOpen

\* They hold at first.
LEMMA InitSInv == Init => SInv
<1> SUFFICES ASSUME Init PROVE SInv
  OBVIOUS
<1>1. NeverKeepsAck /\ Untouched /\ CallsKnown
  BY DEF Init, NeverKeepsAck, Untouched, CallsKnown, NoCall
<1>2. PortOpen
  BY DEF Init, PortOpen, Stage, Sending, LastSent
<1> QED
  BY <1>1, <1>2, InitLInv DEF SInv

\* The result that a step notes for the end of a call.
LEMMA NextNeverKeepsAck ==
  ASSUME Base, NeverKeepsAck, [Next]_vars
  PROVE  NeverKeepsAck'
<1>1. res \in [Task -> Outcomes]
  BY DEF Base, TypeOK
<1>2. ASSUME NEW t \in Task, NEW r \in {"ok", "error", "aborted"},
             CloseThen(t, r) \/ AbortThen(t, r)
      PROVE  NeverKeepsAck'
  BY <1>1, <1>2 DEF CloseThen, AbortThen, NeverKeepsAck
<1>3. ASSUME res' = res
      PROVE  NeverKeepsAck'
  BY <1>3 DEF NeverKeepsAck
<1>4. ASSUME NEW t \in Task, Step(t)
      PROVE  NeverKeepsAck'
  <2>1. CASE \/ Connect(t) \/ Closed(t) \/ Start(t) \/ OpenFails(t) \/ PeekRaises(t)
             \/ AwaitChunk(t) \/ AwaitEnds(t) \/ Aborted(t)
    BY <1>3, <2>1
       DEF Connect, Closed, Start, OpenFails, PeekRaises, AwaitChunk, AwaitEnds, Aborted
  <2>2. CASE Close(t) \/ ReadFails(t) \/ Recovered(t) \/ AwaitRaises(t)
    BY <1>2, <2>2 DEF Close, ReadFails, Recovered, AwaitRaises
  <2>3. CASE PauseEndsAborted(t) \/ PeekSees779(t) \/ AwaitAborted(t)
    BY <1>2, <2>3 DEF PauseEndsAborted, PeekSees779, AwaitAborted
  <2>4. CASE ReadChunk(t) \/ SendNext(t)
    BY <1>2, <1>3, <2>4 DEF ReadChunk, Recover, SendNext
  <2> QED
    BY <1>4, <2>1, <2>2, <2>3, <2>4 DEF Step
<1>5. ASSUME NEW t \in Task, FirstSendFails(t) \/ Invoke(t) \/ SetToken(t) \/ Cancel(t)
      PROVE  NeverKeepsAck'
  BY <1>3, <1>5 DEF FirstSendFails, Invoke, SetToken, Cancel
<1>6. CASE LinkLost \/ Controller \/ Garbled \/ UNCHANGED vars
  BY <1>3, <1>6 DEF LinkLost, Controller, Garbled, vars
<1> QED
  BY <1>4, <1>5, <1>6 DEF Next

\* Only a new call changes what the calls are.
LEMMA NextCallsKnown ==
  ASSUME Base, CallsKnown, [Next]_vars
  PROVE  CallsKnown'
<1>1. TypeOK
  BY DEF Base
<1>2. ASSUME NEW t \in Task, Invoke(t)
      PROVE  CallsKnown'
  <2>1. PICK k, c, r :
          /\ c \in Firsts(k) /\ (k \in {"read", "write"} => r \in Reg)
          /\ work' = [work EXCEPT ![t] = [kind |-> k, first |-> c, reg |-> r, id |-> calls']]
          /\ c \in RawCommands => faults.desync < MaxDesyncs
    <3>1. \E k \in Kinds : \E c \in Firsts(k) :
            /\ \E r \in (IF k \in {"read", "write"} THEN Reg ELSE {AnyReg}) :
                 work' = [work EXCEPT ![t] = [kind |-> k, first |-> c, reg |-> r, id |-> calls']]
            /\ c \in RawCommands => faults.desync < MaxDesyncs
      BY <1>2 DEF Invoke
    <3> QED
      BY <3>1
  <2>2. k = "read" => c = "read" \/ MaxDesyncs > 0
    <3>1. faults.desync \in Nat /\ MaxDesyncs \in Nat
      BY <1>1, BoundAssumption DEF TypeOK
    <3>2. k = "read" => c = "read" \/ c \in RawCommands
      BY <2>1 DEF Firsts
    <3> QED
      BY <2>1, <3>1, <3>2
  <2>3. work'[t].kind = k /\ work'[t].first = c /\ work'[t].reg = r
    BY <1>1, <2>1 DEF TypeOK
  <2>4. \A u \in Task : u # t => work'[u] = work[u]
    BY <1>1, <2>1 DEF TypeOK
  <2> QED
    BY <2>1, <2>2, <2>3, <2>4 DEF CallsKnown
<1>3. ASSUME NEW t \in Task, Step(t) \/ FirstSendFails(t) \/ SetToken(t) \/ Cancel(t)
      PROVE  work' = work
  BY <1>1, <1>3, StepShape DEF SetToken, Cancel
<1>4. LinkLost \/ Controller \/ Garbled \/ UNCHANGED vars => work' = work
  BY DEF LinkLost, Controller, Garbled, vars
<1>5. work' = work => CallsKnown'
  BY DEF CallsKnown
<1> QED
  BY <1>2, <1>3, <1>4, <1>5 DEF Next

\* A call is untouched until it sends its first frame.
LEMMA NextUntouched ==
  ASSUME Base, OneTaskEach, NeverKeepsAck, Untouched, [Next]_vars
  PROVE  Untouched'
<1>1. TypeOK /\ LockInv
  BY DEF Base
<1>2. ASSUME NEW t \in Task,
             Step(t) \/ FirstSendFails(t) \/ (Cancel(t) /\ pc[t] # "waiting")
      PROVE  Untouched'
  <2>1. pc[t] \in Holding /\ UNCHANGED <<work, calls>> /\ (Moves(t) \/ Leaves(t))
    BY <1>1, <1>2, StepShape DEF Cancel, TypeOK, Leaves, Outcomes, histVars
  <2>2. /\ HolderSteps /\ Stage = pc[t] /\ Own = work[t] /\ holder = t /\ holder # NoTask
        /\ \A u \in Task : u # t /\ pc'[u] # pc[u] => pc[u] = "waiting" /\ pc'[u] = "ready"
    BY <1>1, <1>2, <2>1, HolderView, HolderIs, ShapeKeepsLock
  <2>3. /\ saw779' \in {saw779, saw779 \cup {work[t].id}}
        /\ committed' \in {committed, committed \cup {work[t].id}}
    BY <2>2 DEF HolderSteps, Quits, Begins, Waits, Shuts, Resumes, Aborts, EndsAbort,
                Recovers, EndsRecovery
  <2>4. work[t].id \in 1..calls
    BY <2>1 DEF OneTaskEach, Holding
  <2>5. ASSUME NEW u \in Task, u # t
        PROVE  /\ pc'[u] \in {"waiting", "ready"} => work'[u].id \notin saw779' \cup committed'
               /\ pc'[u] # "reading"
    <3>1. pc[u] \notin Holding
      BY <1>1, <2>1, <2>5 DEF LockInv
    <3>2. pc'[u] # "reading" /\ (pc'[u] \in {"waiting", "ready"} => pc[u] = "waiting")
      BY <2>2, <2>5, <3>1 DEF Holding
    <3>3. pc[u] = "waiting" => work[u].id # work[t].id
      BY <2>1, <2>5 DEF OneTaskEach, Holding
    <3> QED
      BY <2>1, <2>3, <3>2, <3>3 DEF Untouched
  <2>6. pc'[t] \notin {"waiting", "ready"}
    <3>1. CASE Moves(t)
      BY <1>1, <3>1 DEF Moves, Goto, TypeOK, Sending, LastSent
    <3>2. CASE Leaves(t)
      BY <1>1, <2>1, <3>2, FinishIdles DEF Leaves
    <3> QED
      BY <2>1, <3>1, <3>2
  <2>7. pc'[t] = "reading" => work'[t].id \notin saw779'
    <3>1. SUFFICES ASSUME pc'[t] = "reading"
                   PROVE  work'[t].id \notin saw779'
      OBVIOUS
    <3>2. Moves(t)
      BY <1>1, <2>1, <3>1, FinishIdles DEF Leaves
    <3>3. Stage' = "reading"
      BY <2>2, <3>1, <3>2 DEF Moves, Goto, lockVars, Stage
    <3>4. Stage \in {"ready", "reading"} /\ saw779' = saw779
      BY <2>2, <3>3 DEF HolderSteps, Quits, Begins, Waits, Shuts, Resumes, Aborts, EndsAbort,
                        Recovers, EndsRecovery, Stay, Leave
    <3> QED
      BY <2>1, <2>2, <3>4 DEF Untouched
  <2> QED
    BY <2>1, <2>3, <2>4, <2>5, <2>6, <2>7 DEF Untouched
<1>3. ASSUME NEW t \in Task, Invoke(t)
      PROVE  Untouched'
  <2>1. /\ UNCHANGED <<saw779, committed>> /\ calls' = calls + 1 /\ calls \in Nat
        /\ pc'[t] \in {"waiting", "ready"} /\ work'[t].id = calls'
        /\ \A u \in Task : u # t => pc'[u] = pc[u] /\ work'[u] = work[u]
    BY <1>1, <1>3, BoundAssumption DEF Invoke, Acquire, TypeOK
  <2>2. calls' \notin 1..calls /\ 1..calls \subseteq 1..calls'
    BY <2>1
  <2>3. work'[t].id \notin saw779' \cup committed'
    BY <2>1, <2>2 DEF Untouched
  <2>4. \A u \in Task : pc'[u] = "reading" => u # t
    BY <2>1
  <2> QED
    BY <2>1, <2>2, <2>3, <2>4 DEF Untouched
<1>4. ASSUME NEW t \in Task, SetToken(t) \/ (Cancel(t) /\ pc[t] = "waiting")
      PROVE  Untouched'
  <2>1. /\ UNCHANGED <<saw779, committed, calls, work>>
        /\ \A u \in Task : pc'[u] # "idle" => pc'[u] = pc[u]
    BY <1>1, <1>4 DEF SetToken, Cancel, histVars, TypeOK
  <2> QED
    BY <2>1 DEF Untouched
<1>5. CASE LinkLost \/ Controller \/ Garbled \/ UNCHANGED vars
  <2>1. UNCHANGED <<saw779, committed, calls, work, pc>>
    BY <1>5 DEF LinkLost, Controller, Garbled, histVars, vars
  <2> QED
    BY <2>1 DEF Untouched
<1> QED
  BY <1>2, <1>3, <1>4, <1>5 DEF Next

\* What that means for the holder.
LEMMA HolderUntouched ==
  ASSUME Base, OneTaskEach, Untouched, CallsKnown
  PROVE  /\ Stage \in {"ready", "reading"} => Own.id \notin saw779
         /\ Stage = "ready" => Own.id \notin committed
         /\ Stage \in Holding <=> holder # NoTask
         /\ Stage \in Holding => Own.id \in CallId /\ outcome[Own.id] = "none"
         /\ Stage \in {"opened", "paid", "committing", "aborting"} =>
              Own.kind = "write" /\ Own.reg \in Reg
         /\ Stage \in {"reading", "recovering"} => Own.kind = "read" /\ Own.reg \in Reg
         /\ Stage \notin Holding => Stage = "idle"
         /\ Own.kind = "read" => Own.first = "read" \/ MaxDesyncs > 0
<1>1. TypeOK /\ LockInv /\ CallInv
  BY DEF Base
<1>2. CASE holder = NoTask
  BY <1>2 DEF Stage, Own, NoCall, Holding
<1>3. CASE holder # NoTask
  <2>1. holder \in Task /\ Stage = pc[holder] /\ Own = work[holder] /\ pc[holder] \in Holding
    BY <1>1, <1>3 DEF TypeOK, LockInv, Stage, Own
  <2> QED
    BY <1>1, <1>3, <2>1 DEF Untouched, OneTaskEach, CallsKnown, CallInv, Holding
<1> QED
  BY <1>2, <1>3

\* The port is open while frames are sent.
LEMMA NextPortOpen ==
  ASSUME Base, NeverKeepsAck, PortOpen, [Next]_vars
  PROVE  PortOpen'
<1>1. /\ Sending = {"reading", "opened", "paid", "committing", "aborting", "recovering"}
      /\ TypeOK
  BY DEF Sending, LastSent, Base
<1> SUFFICES ASSUME faults'.drop = 0
             PROVE  writer' # "failed" /\ (Stage' \in Sending => writer' = "open")
  BY <1>1 DEF PortOpen
<1>2. CASE HolderSteps
  <2>1. writer # "failed" /\ (Stage \in Sending => writer = "open")
    BY <1>2 DEF HolderSteps, PortOpen
  <2> QED
    BY <1>1, <1>2, <2>1 DEF HolderSteps, Quits, Begins, Waits, Shuts, Resumes, Aborts,
       EndsAbort, Recovers, EndsRecovery, Stay, Leave
<1>3. CASE OthersStep
  BY <1>1, <1>3 DEF OthersStep, PortOpen
<1>4. CASE LineSteps
  <2>1. ~LinkLost
    <3>1. faults \in [cancel : 0..MaxCancels, desync : 0..MaxDesyncs, drop : 0..MaxDrops]
      BY <1>1 DEF TypeOK
    <3>2. LinkLost => faults'.drop = faults.drop + 1
      BY <3>1 DEF LinkLost
    <3>3. faults.drop \in Nat
      BY <3>1, BoundAssumption
    <3> QED
      BY <3>2, <3>3
  <2>2. writer' = writer /\ faults'.drop = faults.drop
    BY <1>1, <1>4, <2>1 DEF LineSteps, Controller, Garbled, portVars, TypeOK
  <2> QED
    BY <1>4, <2>2 DEF PortOpen, LineSteps
<1> QED
  BY <1>2, <1>3, <1>4, NextView

\* Every step keeps all of it.
LEMMA NextSInv == SInv /\ [Next]_vars => SInv'
<1> SUFFICES ASSUME SInv, [Next]_vars PROVE SInv'
  OBVIOUS
<1>1. /\ LInv /\ LInv' /\ Base /\ OneTaskEach /\ NeverKeepsAck /\ Untouched /\ CallsKnown
      /\ PortOpen
  BY NextLInv DEF SInv, LInv, IInv
<1> QED
  BY <1>1, NextNeverKeepsAck, NextCallsKnown, NextUntouched, NextPortOpen DEF SInv

----------------------------------------------------------------------------
(* The frames on the line: sent at the end, taken from the front. *)

\* What the holder sends is behind what was there.
LEMMA SentLast ==
  ASSUME tx \in Seq(Frames), NEW f, Send(f)
  PROVE  /\ Len(tx) \in Nat /\ Len(tx') = Len(tx) + 1 /\ tx' # <<>>
         /\ DOMAIN tx = 1..Len(tx) /\ DOMAIN tx' = 1..(Len(tx) + 1)
         /\ tx'[Len(tx) + 1] = f /\ \A k \in 1..Len(tx) : tx'[k] = tx[k]
<1>1. tx' = Append(tx, f)
  BY DEF Send
<1> QED
  BY <1>1

\* What the controller gets is the first, and the others move up.
LEMMA TakenFirst ==
  ASSUME tx \in Seq(Frames), tx # <<>>, tx' = Tail(tx)
  PROVE  /\ Len(tx) \in Nat \ {0} /\ Len(tx') = Len(tx) - 1 /\ Head(tx) = tx[1]
         /\ Head(tx) \in Frames /\ tx' \in Seq(Frames)
         /\ DOMAIN tx = 1..Len(tx) /\ DOMAIN tx' = 1..(Len(tx) - 1)
         /\ Len(tx) = 1 <=> tx' = <<>>
         /\ \A k \in 1..(Len(tx) - 1) : tx'[k] = tx[k + 1]
<1>1. /\ Len(tx) \in Nat \ {0} /\ Len(tx') = Len(tx) - 1 /\ Head(tx) = tx[1]
      /\ Head(tx) \in Frames /\ tx' \in Seq(Frames)
      /\ DOMAIN tx = 1..Len(tx) /\ DOMAIN tx' = 1..(Len(tx) - 1)
  <2>1. Len(tx) \in Nat \ {0} /\ Head(tx) = tx[1] /\ Head(tx) \in Frames /\ DOMAIN tx = 1..Len(tx)
    OBVIOUS
  <2>2. Tail(tx) \in Seq(Frames) /\ Len(Tail(tx)) = Len(tx) - 1
    BY HeadTailProperties
  <2> QED
    BY <2>1, <2>2
<1>2. \A k \in 1..(Len(tx) - 1) : tx'[k] = tx[k + 1]
  BY <1>1, HeadTailProperties
<1>3. Len(tx) = 1 <=> tx' = <<>>
  BY <1>1, EmptySeq
<1> QED
  BY <1>1, <1>2, <1>3

----------------------------------------------------------------------------
(* The recovery of a query ends the session. *)

\* The 0;0 of the recovery is on its way, or it has been obeyed, or it was the one
\* frame that was garbled; then its 999 has the same effect.
Dropping ==
  LET n == Len(tx) IN
  \/ n = 0 /\ (session = NoSession \/ faults.desync >= 1)
  \/ n >= 1 /\ tx[n].cmd = "cancel" /\ tx[n].reg = AnyReg
Dropped ==
  LET n == Len(tx) IN
  \/ n = 0 /\ session = NoSession
  \/ n = 1 /\ tx[1].cmd = "commit" /\ (session = NoSession \/ faults.desync >= 1)
  \/ n >= 2 /\ tx[n].cmd = "commit" /\ tx[n - 1].cmd = "cancel" /\ tx[n - 1].reg = AnyReg

\* A query that has met a 779 closes the port, or was the last to use it.
Recovered779 ==
  \/ Stage = "closing" /\ Own.kind = "read" /\ Own.id \in saw779
  \/ /\ holder = NoTask /\ lastEnded.kind = "read" /\ lastEnded.id \in saw779
     /\ outcome[lastEnded.id] = "error"

RecoveryInv ==
  faults.drop = 0 =>
    /\ Stage = "recovering" => Dropping
    /\ Recovered779 => Dropped

\* The two frames of the recovery go out in this order.
LEMMA RecoverySends ==
  ASSUME tx \in Seq(Frames), UNCHANGED session, faults'.desync = faults.desync
  PROVE  /\ Recovers => Dropping'
         /\ EndsRecovery /\ Dropping => Dropped'
<1> DEFINE n == Len(tx)
<1>1. \A f : Send(f) => n \in Nat /\ Len(tx') = n + 1 /\ tx'[n + 1] = f
                        /\ \A k \in 1..n : tx'[k] = tx[k]
  BY SentLast
<1> HIDE DEF n
<1>2. ASSUME Recovers PROVE Dropping'
  <2>1. n \in Nat /\ Len(tx') = n + 1 /\ tx'[n + 1].cmd = "cancel" /\ tx'[n + 1].reg = AnyReg
    BY <1>1, <1>2 DEF Recovers, OwnFrame
  <2> QED
    BY <2>1 DEF Dropping
<1>3. ASSUME EndsRecovery, Dropping PROVE Dropped'
  <2>1. /\ n \in Nat /\ Len(tx') = n + 1 /\ tx'[n + 1].cmd = "commit"
        /\ \A k \in 1..n : tx'[k] = tx[k]
    BY <1>1, <1>3 DEF EndsRecovery, OwnFrame
  <2>2. \/ n = 0 /\ (session = NoSession \/ faults.desync >= 1)
        \/ n >= 1 /\ tx[n].cmd = "cancel" /\ tx[n].reg = AnyReg
    BY <1>3 DEF Dropping, n
  <2>3. CASE n = 0
    BY <2>1, <2>2, <2>3 DEF Dropped
  <2>4. CASE n >= 1
    <3>1. n \in 1..n /\ (n + 1) - 1 = n /\ n + 1 >= 2
      BY <2>1, <2>4
    <3> QED
      BY <2>1, <2>2, <2>4, <3>1 DEF Dropped
  <2> QED
    BY <2>1, <2>3, <2>4
<1> QED
  BY <1>2, <1>3

\* The controller drops the session by either frame; one of them gets through.
LEMMA RecoveryArrives ==
  ASSUME Base, MaxDesyncs <= 1, Controller \/ Garbled
  PROVE  /\ Dropping => Dropping'
         /\ Dropped => Dropped'
<1> DEFINE n == Len(tx)
<1>1. /\ n \in Nat \ {0} /\ Len(tx') = n - 1 /\ Head(tx) = tx[1]
      /\ \A k \in 1..(n - 1) : tx'[k] = tx[k + 1]
  BY TakenFirst DEF Base, TypeOK, Controller, Garbled
<1>2. faults.desync \in Nat /\ MaxDesyncs \in Nat
  BY BoundAssumption DEF Base, TypeOK
<1>3. CASE Controller
  <2>1. /\ tx[1].cmd = "commit" => session' = NoSession
        /\ tx[1].cmd = "cancel" /\ tx[1].reg = AnyReg => session' = NoSession
        /\ faults' = faults
    BY <1>1, <1>3 DEF Controller, Obey
  <2> HIDE DEF n
  <2>2. ASSUME Dropping PROVE Dropping'
    <3>1. n >= 1 /\ tx[n].cmd = "cancel" /\ tx[n].reg = AnyReg
      BY <1>1, <2>2 DEF Dropping, n
    <3>2. CASE n = 1
      BY <1>1, <2>1, <3>1, <3>2 DEF Dropping
    <3>3. CASE n > 1
      <4>1. n - 1 \in 1..(n - 1) /\ (n - 1) + 1 = n /\ n - 1 >= 1
        BY <1>1, <3>3
      <4> QED
        BY <1>1, <3>1, <4>1 DEF Dropping
    <3> QED
      BY <1>1, <3>2, <3>3
  <2>3. ASSUME Dropped PROVE Dropped'
    <3>1. \/ n = 1 /\ tx[1].cmd = "commit"
          \/ n >= 2 /\ tx[n].cmd = "commit" /\ tx[n - 1].cmd = "cancel" /\ tx[n - 1].reg = AnyReg
      BY <1>1, <2>3 DEF Dropped, n
    <3>2. CASE n = 1
      BY <1>1, <2>1, <3>1, <3>2 DEF Dropped
    <3>3. CASE n = 2
      <4>1. 1 \in 1..(n - 1) /\ n - 1 = 1 /\ 1 + 1 = n
        BY <3>3
      <4> QED
        BY <1>1, <2>1, <3>1, <3>3, <4>1 DEF Dropped
    <3>4. CASE n > 2
      <4>1. /\ n - 1 \in 1..(n - 1) /\ (n - 1) + 1 = n /\ n - 1 >= 2
            /\ (n - 1) - 1 \in 1..(n - 1) /\ ((n - 1) - 1) + 1 = n - 1
        BY <1>1, <3>4
      <4>2. tx'[n - 1] = tx[n] /\ tx'[(n - 1) - 1] = tx[n - 1]
        BY <1>1, <4>1
      <4> QED
        BY <1>1, <3>1, <3>4, <4>1, <4>2 DEF Dropped
    <3> QED
      BY <1>1, <3>2, <3>3, <3>4
  <2> QED
    BY <2>2, <2>3
<1>4. CASE Garbled
  <2>1. /\ session' = session /\ faults'.desync = faults.desync + 1
        /\ faults.desync = 0
    BY <1>2, <1>4 DEF Garbled, ctrlVars, Base, TypeOK
  <2> HIDE DEF n
  <2>2. ASSUME Dropping PROVE Dropping'
    <3>1. n >= 1 /\ tx[n].cmd = "cancel" /\ tx[n].reg = AnyReg
      BY <1>1, <2>2 DEF Dropping, n
    <3>2. CASE n = 1
      BY <1>1, <2>1, <3>2 DEF Dropping
    <3>3. CASE n > 1
      <4>1. n - 1 \in 1..(n - 1) /\ (n - 1) + 1 = n /\ n - 1 >= 1
        BY <1>1, <3>3
      <4> QED
        BY <1>1, <3>1, <4>1 DEF Dropping
    <3> QED
      BY <1>1, <3>2, <3>3
  <2>3. ASSUME Dropped PROVE Dropped'
    <3>1. \/ n = 1 /\ tx[1].cmd = "commit" /\ session = NoSession
          \/ n >= 2 /\ tx[n].cmd = "commit" /\ tx[n - 1].cmd = "cancel" /\ tx[n - 1].reg = AnyReg
      BY <1>1, <2>1, <2>3 DEF Dropped, n
    <3>2. CASE n = 1
      BY <1>1, <2>1, <3>1, <3>2 DEF Dropped
    <3>3. CASE n = 2
      <4>1. 1 \in 1..(n - 1) /\ n - 1 = 1 /\ 1 + 1 = n
        BY <3>3
      <4> QED
        BY <1>1, <2>1, <3>1, <3>3, <4>1 DEF Dropped
    <3>4. CASE n > 2
      <4>1. /\ n - 1 \in 1..(n - 1) /\ (n - 1) + 1 = n /\ n - 1 >= 2
            /\ (n - 1) - 1 \in 1..(n - 1) /\ ((n - 1) - 1) + 1 = n - 1
        BY <1>1, <3>4
      <4>2. tx'[n - 1] = tx[n] /\ tx'[(n - 1) - 1] = tx[n - 1]
        BY <1>1, <4>1
      <4> QED
        BY <1>1, <3>1, <3>4, <4>1, <4>2 DEF Dropped
    <3> QED
      BY <1>1, <3>2, <3>3, <3>4
  <2> QED
    BY <2>2, <2>3
<1> QED
  BY <1>3, <1>4

\* The link is lost, and counted.
LEMMA LossCounts ==
  ASSUME TypeOK, LinkLost
  PROVE  faults'.drop # 0
<1>1. faults'.drop = faults.drop + 1 /\ faults.drop \in Nat
  BY BoundAssumption DEF TypeOK, LinkLost
<1> QED
  BY <1>1

\* Every step keeps the recovery on its way.
LEMMA NextRecoveryInv ==
  ASSUME MaxDesyncs <= 1
  PROVE  SInv /\ RecoveryInv /\ [Next]_vars => RecoveryInv'
<1> SUFFICES ASSUME SInv, RecoveryInv, [Next]_vars, faults'.drop = 0
             PROVE  /\ Stage' = "recovering" => Dropping'
                    /\ Recovered779' => Dropped'
  BY DEF RecoveryInv
<1>1. /\ Base /\ OneTaskEach /\ NeverKeepsAck /\ Untouched /\ CallsKnown /\ PortOpen
      /\ TypeOK /\ tx \in Seq(Frames)
  BY DEF SInv, LInv, IInv, Base, TypeOK
<1>2. CASE HolderSteps
  <2>1. /\ UNCHANGED session /\ faults'.desync = faults.desync /\ Stage \in Holding
        /\ holder # NoTask /\ Own.id \in CallId
        /\ Stage = "recovering" => Dropping
        /\ Recovered779 => Dropped
    BY <1>1, <1>2, HolderUntouched DEF HolderSteps, RecoveryInv
  <2>2. Recovers => Stage' = "recovering" /\ Dropping'
    BY <1>1, <2>1, RecoverySends DEF Recovers, Stay
  <2>3. EndsRecovery => Stage' = "closing" /\ Dropped'
    BY <1>1, <2>1, RecoverySends DEF EndsRecovery, Stay
  <2>4. Begins \/ Waits \/ Resumes \/ Aborts => Stage' # "recovering" /\ ~Recovered779'
    BY <2>1 DEF Begins, Waits, Resumes, Aborts, Stay, Recovered779
  <2>5. Shuts => Stage' = "closing" /\ ~Recovered779'
    <3> SUFFICES ASSUME Shuts PROVE Stage' = "closing" /\ ~Recovered779'
      OBVIOUS
    <3>1. Stage' = "closing" /\ holder' # NoTask /\ Own' = Own /\ saw779' = saw779
      BY <2>1 DEF Shuts, Stay
    <3>2. Own.id \notin saw779
      BY <1>1, HolderUntouched DEF Shuts
    <3> QED
      BY <3>1, <3>2 DEF Recovered779
  <2>6. ASSUME NEW r \in Outcomes, Leave(r), Recovered779'
        PROVE  Own.kind = "read" /\ Own.id \in saw779' /\ r = "error"
    BY <1>1, <2>1, <2>6 DEF Leave, Recovered779, TypeOK
  <2>7. EndsAbort => Stage' # "recovering" /\ ~Recovered779'
    <3> SUFFICES ASSUME EndsAbort PROVE Stage' # "recovering" /\ ~Recovered779'
      OBVIOUS
    <3>1. Leave(Result) /\ Stage = "aborting"
      BY DEF EndsAbort
    <3>2. Result \in Outcomes
      BY <1>1, <2>1 DEF Result, TypeOK
    <3>3. Own.kind = "write"
      BY <1>1, <3>1, HolderUntouched
    <3> QED
      BY <2>6, <3>1, <3>2, <3>3 DEF Leave
  <2>8. Quits => Stage' # "recovering" /\ (Recovered779' => Dropped')
    <3> SUFFICES ASSUME Quits PROVE Stage' # "recovering" /\ (Recovered779' => Dropped')
      OBVIOUS
    <3>1. PICK r \in Outcomes : MayQuit(r) /\ Leave(r)
      BY DEF Quits
    <3>2. Stage' # "recovering"
      BY <3>1 DEF Leave
    <3>3. ASSUME Recovered779' PROVE Dropped'
      <4>1. Own.kind = "read" /\ Own.id \in saw779' /\ r = "error"
        BY <2>6, <3>1, <3>3
      <4>2. Stage \in Sending => writer = "open"
        BY <1>2 DEF HolderSteps, PortOpen, SInv
      <4>3. Stage \in {"ready", "closing"}
        BY <1>1, <2>1, <3>1, <4>1, <4>2, HolderUntouched
           DEF MayQuit, Holding, Sending, LastSent
      <4>4. Own.id \in saw779
        BY <4>1, <4>3 DEF Quits
      <4>5. Recovered779
        BY <1>1, <4>1, <4>3, <4>4, HolderUntouched DEF Recovered779
      <4>6. tx' = tx
        BY DEF Quits, Silent
      <4> QED
        BY <2>1, <4>5, <4>6 DEF Dropped
    <3> QED
      BY <3>2, <3>3
  <2>9. Quits \/ Begins \/ Waits \/ Shuts \/ Resumes \/ Aborts \/ EndsAbort \/ Recovers
          \/ EndsRecovery
    BY <1>2 DEF HolderSteps
  <2>10. Recovers => ~Recovered779'
    BY <2>1 DEF Recovers, Stay, Recovered779
  <2> QED
    BY <2>2, <2>3, <2>4, <2>5, <2>7, <2>8, <2>9, <2>10
<1>3. CASE OthersStep
  <2>1. /\ UNCHANGED <<tx, session, saw779, lastEnded>> /\ faults.drop = 0
        /\ faults'.desync >= faults.desync
    BY <1>3 DEF OthersStep
  <2>2. faults.desync \in Nat /\ (faults'.desync \in Nat)
    <3>1. TypeOK'
      BY NextSInv DEF SInv, LInv, IInv, Base
    <3> QED
      BY <1>1, <3>1, BoundAssumption DEF TypeOK
  <2>3. (Dropping => Dropping') /\ (Dropped => Dropped')
    BY <2>1, <2>2 DEF Dropping, Dropped
  <2>4. Recovered779' => Recovered779
    <3>1. saw779 \subseteq CallId
      BY <1>1 DEF TypeOK
    <3>2. \A i \in CallId : outcome'[i] = "error" => outcome[i] = "error"
      BY <1>1, <1>3 DEF OthersStep, TypeOK
    <3> QED
      BY <1>3, <2>1, <3>1, <3>2 DEF OthersStep, Recovered779
  <2>5. Stage' = "recovering" => Stage = "recovering"
    BY <1>3 DEF OthersStep
  <2> QED
    BY <2>1, <2>3, <2>4, <2>5 DEF RecoveryInv
<1>4. CASE LineSteps
  <2>1. /\ Controller \/ Garbled
        /\ faults.drop = 0
        /\ UNCHANGED <<Stage, Own, holder, lastEnded, outcome, saw779>>
    BY <1>1, <1>4, LossCounts DEF LineSteps, Controller, Garbled, TypeOK
  <2>2. (Dropping => Dropping') /\ (Dropped => Dropped')
    BY <1>1, <2>1, RecoveryArrives
  <2>3. Recovered779' => Recovered779
    BY <2>1 DEF Recovered779
  <2> QED
    BY <2>1, <2>2, <2>3 DEF RecoveryInv
<1> QED
  BY <1>1, <1>2, <1>3, <1>4, NextView

\* RecoveryEndsSession, whoever left the session open and however long the
\* controller takes, as long as at most one frame is garbled: the recovery sends
\* two frames that end a session, and one of them arrives.
THEOREM RecoveryEndsIt ==
  ASSUME MaxDesyncs <= 1
  PROVE  Spec => []RecoveryEndsSession
<1>1. Init => SInv /\ RecoveryInv
  BY InitSInv DEF Init, RecoveryInv, Recovered779, Stage, NoCall
<1>2. SInv /\ RecoveryInv /\ [Next]_vars => SInv' /\ RecoveryInv'
  BY NextSInv, NextRecoveryInv
<1>3. SInv /\ RecoveryInv => RecoveryEndsSession
  <2> SUFFICES ASSUME RecoveryInv, holder = NoTask, tx = <<>>, faults.drop = 0,
                      lastEnded.kind = "read", lastEnded.id \in saw779,
                      outcome[lastEnded.id] = "error"
               PROVE  session = NoSession
    BY DEF RecoveryEndsSession
  <2>1. Dropped /\ Len(tx) = 0
    BY EmptySeq DEF RecoveryInv, Recovered779
  <2> QED
    BY <2>1 DEF Dropped
<1> QED
  BY <1>1, <1>2, <1>3, PTL DEF Spec

----------------------------------------------------------------------------
(* No session is stranded. *)

\* When the link is lost, so are some of the last frames.
LEMMA LostLast ==
  ASSUME tx \in Seq(Frames), LinkLost
  PROVE  \E m \in 0..Len(tx) : /\ Len(tx') = m /\ DOMAIN tx' = 1..m
                               /\ \A k \in 1..m : tx'[k] = tx[k]
<1>1. PICK m \in 0..Len(tx) : tx' = SubSeq(tx, 1, m)
  BY DEF LinkLost
<1>2. \A k \in 1..m : tx[k] \in Frames
  BY <1>1
<1>3. Len(tx') = m /\ DOMAIN tx' = 1..m /\ \A k \in 1..m : tx'[k] = tx[k]
  BY <1>1, <1>2
<1> QED
  BY <1>3

\* Without raw commands, what opens a session or fills it is about a block.
FramesKnown == \A k \in 1..Len(tx) : tx[k].cmd \in {"open", "payload"} => tx[k].reg \in Reg

LEMMA NextFramesKnown ==
  ASSUME MaxDesyncs = 0
  PROVE  SInv /\ FramesKnown /\ [Next]_vars => FramesKnown'
<1> SUFFICES ASSUME SInv, FramesKnown, [Next]_vars PROVE FramesKnown'
  OBVIOUS
<1>1. /\ Base /\ OneTaskEach /\ NeverKeepsAck /\ Untouched /\ CallsKnown
      /\ TypeOK /\ tx \in Seq(Frames)
  BY DEF SInv, LInv, IInv, Base, TypeOK
<1>2. ASSUME NEW f, Send(f), f.cmd \in {"open", "payload"} => f.reg \in Reg
      PROVE  FramesKnown'
  <2> DEFINE n == Len(tx)
  <2>1. /\ n \in Nat /\ Len(tx') = n + 1 /\ tx'[n + 1] = f
        /\ \A k \in 1..n : tx'[k] = tx[k]
    BY <1>1, <1>2, SentLast
  <2>2. \A k \in 1..n : tx[k].cmd \in {"open", "payload"} => tx[k].reg \in Reg
    BY DEF FramesKnown
  <2> HIDE DEF n
  <2>3. \A k \in 1..(n + 1) : k \in 1..n \/ k = n + 1
    BY <2>1
  <2> QED
    BY <1>2, <2>1, <2>2, <2>3 DEF FramesKnown
<1>3. tx' = tx => FramesKnown'
  BY DEF FramesKnown
<1>4. CASE HolderSteps
  <2>1. /\ Own.kind = "read" => Own.first = "read"
        /\ Stage \in {"ready", "opened"} /\ Own.kind = "write" => Own.reg \in Reg
        /\ Stage = "opened" => Own.kind = "write"
    <3>1. holder = NoTask \/ holder \in Task
      BY <1>1 DEF TypeOK
    <3> QED
      BY <1>1, <3>1, HolderUntouched DEF CallsKnown, Own, NoCall
  <2>2. CASE Quits \/ Waits \/ Shuts
    BY <1>3, <2>2 DEF Quits, Waits, Shuts, Silent
  <2>3. CASE Begins
    BY <1>2, <2>1, <2>3 DEF Begins, OwnFrame
  <2>4. CASE Resumes \/ Aborts \/ EndsAbort \/ Recovers \/ EndsRecovery
    BY <1>2, <2>1, <2>4 DEF Resumes, Aborts, EndsAbort, Recovers, EndsRecovery, OwnFrame
  <2> QED
    BY <1>4, <2>2, <2>3, <2>4 DEF HolderSteps
<1>5. CASE OthersStep
  BY <1>3, <1>5 DEF OthersStep
<1>6. CASE LineSteps
  <2>1. CASE LinkLost
    <3>1. PICK m \in 0..Len(tx) : Len(tx') = m /\ \A k \in 1..m : tx'[k] = tx[k]
      BY <1>1, <2>1, LostLast
    <3>2. \A k \in 1..m : k \in 1..Len(tx)
      BY <1>1
    <3> QED
      BY <3>1, <3>2 DEF FramesKnown
  <2>2. CASE Controller \/ Garbled
    <3> DEFINE n == Len(tx)
    <3>1. /\ n \in Nat /\ Len(tx') = n - 1
          /\ \A k \in 1..(n - 1) : tx'[k] = tx[k + 1]
      BY <1>1, <2>2, TakenFirst DEF Controller, Garbled
    <3>2. \A k \in 1..n : tx[k].cmd \in {"open", "payload"} => tx[k].reg \in Reg
      BY DEF FramesKnown
    <3> HIDE DEF n
    <3>3. \A k \in 1..(n - 1) : k + 1 \in 1..n
      BY <3>1
    <3> QED
      BY <3>1, <3>2, <3>3 DEF FramesKnown
  <2> QED
    BY <1>6, <2>1, <2>2 DEF LineSteps
<1> QED
  BY <1>1, <1>4, <1>5, <1>6, NextView

\* The calls whose session may stay open for now: one that is cancelled, and the one
\* that is in its handshake.
MayOpen ==
  {i \in CallId : \/ outcome[i] = "cancelled"
                  \/ i = Own.id /\ Stage \in {"opened", "paid", "aborting"}}

\* Every other session, open or about to be opened, will be met by a 999.
SessionEnds ==
  session # NoSession =>
    \/ session.id \in MayOpen
    \/ session.id \in CallId /\ \E j \in 1..Len(tx) : tx[j].cmd = "commit"
OpensEnd ==
  \A k \in 1..Len(tx) : tx[k].cmd = "open" =>
    \/ tx[k].id \in MayOpen
    \/ tx[k].id \in CallId /\ \E j \in 1..Len(tx) : j > k /\ tx[j].cmd = "commit"

StrandInv == faults.drop = 0 => SessionEnds /\ OpensEnd

\* A frame is sent that ends every session.
LEMMA CommitEnds ==
  ASSUME tx \in Seq(Frames), session \in Sessions, UNCHANGED session,
         SessionEnds, OpensEnd, NEW f, Send(f), f.cmd = "commit"
  PROVE  SessionEnds' /\ OpensEnd'
<1> DEFINE n == Len(tx)
<1>1. /\ n \in Nat /\ Len(tx') = n + 1 /\ tx'[n + 1] = f
      /\ \A k \in 1..n : tx'[k] = tx[k]
  BY SentLast
<1>2. /\ session # NoSession => session.id \in CallId
      /\ \A k \in 1..n : tx[k].cmd = "open" => tx[k].id \in CallId
  BY DEF SessionEnds, OpensEnd, MayOpen
<1> HIDE DEF n
<1>3. n + 1 \in 1..(n + 1) /\ \A k \in 1..(n + 1) : k = n + 1 \/ (k \in 1..n /\ n + 1 > k)
  BY <1>1
<1>4. SessionEnds'
  BY <1>1, <1>2, <1>3 DEF SessionEnds
<1>5. OpensEnd'
  <2> SUFFICES ASSUME NEW k \in 1..(n + 1), tx'[k].cmd = "open"
               PROVE  tx'[k].id \in CallId /\ \E j \in 1..(n + 1) : j > k /\ tx'[j].cmd = "commit"
    BY <1>1 DEF OpensEnd
  <2>1. k \in 1..n /\ n + 1 > k
    BY <1>1, <1>3
  <2> QED
    BY <1>1, <1>2, <1>3, <2>1
<1> QED
  BY <1>4, <1>5

\* Nothing, or another frame, is sent, and no session loses its excuse.
LEMMA OthersEnd ==
  ASSUME tx \in Seq(Frames), UNCHANGED session, SessionEnds, OpensEnd,
         MayOpen \subseteq MayOpen',
         tx' = tx \/ \E f : Send(f) /\ (f.cmd = "open" => f.id \in MayOpen')
  PROVE  SessionEnds' /\ OpensEnd'
<1>1. CASE tx' = tx
  BY <1>1 DEF SessionEnds, OpensEnd
<1>2. ASSUME NEW f, Send(f), f.cmd = "open" => f.id \in MayOpen'
      PROVE  SessionEnds' /\ OpensEnd'
  <2> DEFINE n == Len(tx)
  <2>1. /\ n \in Nat /\ Len(tx') = n + 1 /\ tx'[n + 1] = f
        /\ \A k \in 1..n : tx'[k] = tx[k]
    BY <1>2, SentLast
  <2>2. session # NoSession =>
          \/ session.id \in MayOpen
          \/ session.id \in CallId /\ \E j \in 1..n : tx[j].cmd = "commit"
    BY DEF SessionEnds
  <2>3. \A k \in 1..n : tx[k].cmd = "open" =>
          \/ tx[k].id \in MayOpen
          \/ tx[k].id \in CallId /\ \E j \in 1..n : j > k /\ tx[j].cmd = "commit"
    BY DEF OpensEnd
  <2> HIDE DEF n
  <2>4. 1..n \subseteq 1..(n + 1) /\ \A k \in 1..(n + 1) : k = n + 1 \/ k \in 1..n
    BY <2>1
  <2>5. SessionEnds'
    BY <2>1, <2>2, <2>4 DEF SessionEnds
  <2>6. OpensEnd'
    <3> SUFFICES ASSUME NEW k \in 1..(n + 1), tx'[k].cmd = "open"
                 PROVE  \/ tx'[k].id \in MayOpen'
                        \/ tx'[k].id \in CallId /\ \E j \in 1..(n + 1) : j > k /\ tx'[j].cmd = "commit"
      BY <2>1 DEF OpensEnd
    <3>1. CASE k = n + 1
      BY <1>2, <2>1, <3>1
    <3>2. CASE k \in 1..n
      BY <2>1, <2>3, <2>4, <3>2
    <3> QED
      BY <2>4, <3>1, <3>2
  <2> QED
    BY <2>5, <2>6
<1> QED
  BY <1>1, <1>2

\* The controller takes a frame: a session that is opened has its 999 behind it, and
\* the 999 ends the session.
LEMMA ControllerEnds ==
  ASSUME Base, FramesKnown, SessionEnds, OpensEnd, Controller, MayOpen' = MayOpen
  PROVE  SessionEnds' /\ OpensEnd'
<1> DEFINE n == Len(tx)
           f == Head(tx)
<1>1. /\ n \in Nat \ {0} /\ Len(tx') = n - 1 /\ f = tx[1] /\ Obey(f) /\ f \in Frames
      /\ \A k \in 1..(n - 1) : tx'[k] = tx[k + 1]
  BY TakenFirst DEF Base, TypeOK, Controller
<1>2. session # NoSession =>
        \/ session.id \in MayOpen
        \/ session.id \in CallId /\ \E j \in 1..n : tx[j].cmd = "commit"
  BY DEF SessionEnds
<1>3. \A k \in 1..n : tx[k].cmd = "open" =>
        \/ tx[k].id \in MayOpen
        \/ tx[k].id \in CallId /\ \E j \in 1..n : j > k /\ tx[j].cmd = "commit"
  BY DEF OpensEnd
<1>4. f.cmd = "payload" => f.reg \in Reg
  BY <1>1 DEF FramesKnown
<1>5. session \in Sessions
  BY DEF Base, TypeOK
<1> HIDE DEF n, f
<1>6. \/ session' = session /\ f.cmd # "commit"
      \/ session' = NoSession
      \/ f.cmd = "open" /\ session'.id = f.id
      \/ f.cmd = "payload" /\ session # NoSession /\ session'.id = session.id
  BY <1>1, <1>4, <1>5, NullAssumption DEF Obey, ctrlVars, Sessions, NoSession
<1>7. ASSUME NEW j \in 1..n, tx[j].cmd = "commit", j # 1
      PROVE  j - 1 \in 1..(n - 1) /\ tx'[j - 1].cmd = "commit"
  <2>1. j - 1 \in 1..(n - 1) /\ (j - 1) + 1 = j
    BY <1>1, <1>7
  <2> QED
    BY <1>1, <1>7, <2>1
<1>8. SessionEnds'
  <2> SUFFICES ASSUME session' # NoSession
               PROVE  \/ session'.id \in MayOpen
                      \/ session'.id \in CallId /\ \E j \in 1..(n - 1) : tx'[j].cmd = "commit"
    BY <1>1 DEF SessionEnds
  <2>1. CASE f.cmd = "open" /\ session'.id = f.id
    <3>1. 1 \in 1..n /\ \A j \in 1..n : j > 1 => j # 1
      BY <1>1
    <3> QED
      BY <1>1, <1>3, <1>7, <2>1, <3>1
  <2>2. CASE session # NoSession /\ session'.id = session.id /\ f.cmd # "commit"
    BY <1>1, <1>2, <1>7, <2>2
  <2> QED
    BY <1>6, <2>1, <2>2
<1>9. OpensEnd'
  <2> SUFFICES ASSUME NEW k \in 1..(n - 1), tx'[k].cmd = "open"
               PROVE  \/ tx'[k].id \in MayOpen
                      \/ tx'[k].id \in CallId /\ \E j \in 1..(n - 1) : j > k /\ tx'[j].cmd = "commit"
    BY <1>1 DEF OpensEnd
  <2>1. k + 1 \in 1..n /\ tx'[k] = tx[k + 1]
    BY <1>1
  <2>2. ASSUME NEW j \in 1..n, j > k + 1, tx[j].cmd = "commit"
        PROVE  \E i \in 1..(n - 1) : i > k /\ tx'[i].cmd = "commit"
    <3>1. j # 1 /\ j - 1 > k
      BY <1>1, <2>2
    <3> QED
      BY <1>7, <2>2, <3>1
  <2> QED
    BY <1>3, <2>1, <2>2
<1> QED
  BY <1>8, <1>9

\* Every step keeps a 999 behind every session.
LEMMA NextStrandInv ==
  ASSUME MaxDesyncs = 0
  PROVE  SInv /\ FramesKnown /\ StrandInv /\ [Next]_vars => StrandInv'
<1> SUFFICES ASSUME SInv, FramesKnown, StrandInv, [Next]_vars, faults'.drop = 0
             PROVE  SessionEnds' /\ OpensEnd'
  BY DEF StrandInv
<1>1. /\ Base /\ OneTaskEach /\ NeverKeepsAck /\ Untouched /\ CallsKnown /\ PortOpen
      /\ TypeOK /\ tx \in Seq(Frames) /\ session \in Sessions
      /\ outcome \in [CallId -> Outcomes]
  BY DEF SInv, LInv, IInv, Base, TypeOK
<1>2. CASE HolderSteps
  <2>1. /\ UNCHANGED session /\ SessionEnds /\ OpensEnd /\ Own.id \in CallId
        /\ outcome[Own.id] = "none" /\ holder # NoTask
        /\ Stage \in Sending => writer = "open"
        /\ Own.kind = "read" => Own.first = "read"
    BY <1>1, <1>2, HolderUntouched DEF HolderSteps, StrandInv, PortOpen
  <2>2. ASSUME NEW p, Stay(p), p \in {"opened", "paid", "aborting"}
                               \/ Stage \notin {"opened", "paid", "aborting"}
        PROVE  MayOpen \subseteq MayOpen'
    BY <2>2 DEF Stay, MayOpen
  <2>3. ASSUME NEW r \in Outcomes, Leave(r), r = "cancelled" \/ Stage \notin {"opened", "paid", "aborting"}
        PROVE  MayOpen \subseteq MayOpen'
    BY <1>1, <2>1, <2>3 DEF Leave, MayOpen
  <2>4. ASSUME NEW f, Send(f), f.cmd = "open" => f.id \in MayOpen', MayOpen \subseteq MayOpen'
        PROVE  SessionEnds' /\ OpensEnd'
    BY <1>1, <2>1, <2>4, OthersEnd
  <2>5. ASSUME tx' = tx, MayOpen \subseteq MayOpen'
        PROVE  SessionEnds' /\ OpensEnd'
    BY <1>1, <2>1, <2>5, OthersEnd
  <2>6. ASSUME NEW f, Send(f), f.cmd = "commit"
        PROVE  SessionEnds' /\ OpensEnd'
    BY <1>1, <2>1, <2>6, CommitEnds
  <2>7. CASE Quits
    <3>1. PICK r \in Outcomes : MayQuit(r) /\ Leave(r)
      BY <2>7 DEF Quits
    <3>2. r = "cancelled" \/ Stage \notin {"opened", "paid", "aborting"}
      BY <2>1, <3>1 DEF MayQuit, Sending, LastSent
    <3> QED
      BY <2>3, <2>5, <2>7, <3>1, <3>2 DEF Quits, Silent
  <2>8. CASE Begins
    <3>1. CASE Own.kind = "read"
      <4>1. Stay("reading") /\ Send(OwnFrame("read", Own.reg)) /\ Stage = "ready"
        BY <2>1, <2>8, <3>1 DEF Begins
      <4>2. OwnFrame("read", Own.reg).cmd # "open"
        BY DEF OwnFrame
      <4> QED
        BY <2>2, <2>4, <4>1, <4>2
    <3>2. CASE Own.kind # "read"
      <4>1. Stay("opened") /\ Send(OwnFrame("open", Own.reg))
        BY <2>8, <3>2 DEF Begins
      <4>2. OwnFrame("open", Own.reg).id \in MayOpen'
        BY <2>1, <4>1 DEF OwnFrame, MayOpen, Stay
      <4> QED
        BY <2>2, <2>4, <4>1, <4>2
    <3> QED
      BY <3>1, <3>2
  <2>9. CASE Waits \/ Shuts
    BY <2>2, <2>5, <2>9 DEF Waits, Shuts, Silent
  <2>10. CASE Resumes
    <3>1. CASE Stage = "opened"
      <4>1. Stay("paid") /\ Send(OwnFrame("payload", Own.reg))
        BY <2>10, <3>1 DEF Resumes
      <4>2. OwnFrame("payload", Own.reg).cmd # "open"
        BY DEF OwnFrame
      <4> QED
        BY <2>2, <2>4, <4>1, <4>2
    <3>2. CASE Stage = "paid"
      <4>1. Send(OwnFrame("commit", AnyReg)) /\ OwnFrame("commit", AnyReg).cmd = "commit"
        BY <2>10, <3>2 DEF Resumes, OwnFrame
      <4> QED
        BY <2>6, <4>1
    <3> QED
      BY <2>10, <3>1, <3>2 DEF Resumes
  <2>11. CASE Aborts \/ Recovers
    <3>1. PICK r : Send(OwnFrame("cancel", r))
      BY <2>11 DEF Aborts, Recovers
    <3>2. OwnFrame("cancel", r).cmd # "open"
      BY DEF OwnFrame
    <3>3. MayOpen \subseteq MayOpen'
      BY <2>2, <2>11 DEF Aborts, Recovers
    <3> QED
      BY <2>4, <3>1, <3>2, <3>3
  <2>12. CASE EndsAbort \/ EndsRecovery
    <3>1. Send(OwnFrame("commit", AnyReg)) /\ OwnFrame("commit", AnyReg).cmd = "commit"
      BY <2>12 DEF EndsAbort, EndsRecovery, OwnFrame
    <3> QED
      BY <2>6, <3>1
  <2> QED
    BY <1>2, <2>7, <2>8, <2>9, <2>10, <2>11, <2>12 DEF HolderSteps
<1>3. CASE OthersStep
  <2>1. UNCHANGED <<tx, session>> /\ SessionEnds /\ OpensEnd
    BY <1>3 DEF OthersStep, StrandInv
  <2>2. MayOpen \subseteq MayOpen'
    BY <1>1, <1>3 DEF OthersStep, MayOpen
  <2> QED
    BY <1>1, <2>1, <2>2, OthersEnd
<1>4. CASE LineSteps
  <2>1. MayOpen' = MayOpen
    BY <1>4 DEF LineSteps, MayOpen
  <2>2. ~LinkLost /\ ~Garbled
    <3>1. ~Garbled
      BY <1>1, BoundAssumption DEF Garbled, TypeOK
    <3> QED
      BY <1>1, <3>1, LossCounts
  <2>3. Controller /\ faults.drop = 0
    BY <1>4, <2>2 DEF LineSteps, Controller
  <2> QED
    BY <1>1, <2>1, <2>3, ControllerEnds DEF StrandInv
<1> QED
  BY <1>1, <1>2, <1>3, <1>4, NextView

\* NoStrandedSession: whatever is aborted, times out or raises, only a cancelled
\* write leaves its session open, as long as no frame is garbled.
THEOREM OnlyCancelledStrands ==
  ASSUME MaxDesyncs = 0
  PROVE  Spec => []NoStrandedSession
<1> DEFINE Inv == SInv /\ FramesKnown /\ StrandInv
<1>1. Init => Inv
  BY InitSInv, EmptySeq DEF Init, FramesKnown, StrandInv, SessionEnds, OpensEnd
<1>2. Inv /\ [Next]_vars => Inv'
  BY NextSInv, NextFramesKnown, NextStrandInv
<1>3. Inv => NoStrandedSession
  <2> SUFFICES ASSUME StrandInv, holder = NoTask, tx = <<>>, faults.drop = 0,
                      session # NoSession
               PROVE  outcome[session.id] \in {"cancelled", "ok"}
    BY DEF NoStrandedSession
  <2>1. Len(tx) = 0 /\ Stage = "idle"
    BY EmptySeq DEF Stage
  <2>2. session.id \in MayOpen
    BY <2>1 DEF StrandInv, SessionEnds
  <2> QED
    BY <2>1, <2>2 DEF MayOpen
<1> QED
  BY <1>1, <1>2, <1>3, PTL DEF Spec

----------------------------------------------------------------------------
(* What is acknowledged has been applied. *)

\* The session is the one the holder has opened, and is still empty.
Opened == session.reg = Own.reg /\ session.staged = 0

\* Before each frame of the handshake, the frame before has arrived or the 779 that
\* answers it is in the buffer, and before the reply to the 999 there is no other
\* acknowledgement in it.
OpenedInv ==
  (Stage = "opened" /\ writer = "open") =>
    \/ Len(tx) >= 1 /\ tx[Len(tx)] = OwnFrame("open", Own.reg)
    \/ Len(tx) = 0 /\ (Opened \/ Has(rx, "779"))
PaidInv ==
  (Stage = "paid" /\ writer = "open") =>
    \/ Has(rx, "779")
    \/ Len(tx) = 1 /\ tx[1] = OwnFrame("payload", Own.reg) /\ Opened
    \/ Len(tx) = 0 /\ session.staged = Own.id
CommittingInv ==
  Stage = "committing" =>
    \/ Own.id \in applied
    \/ ~Has(rx, "ack") /\ Len(tx) = 0
    \/ /\ ~Has(rx, "ack") /\ Len(tx) = 1 /\ tx[1] = OwnFrame("commit", AnyReg)
       /\ session.staged = Own.id

AckInv == OpenedInv /\ PaidInv /\ CommittingInv /\ AckedMeansApplied

\* A reply is behind what was in the buffer.
LEMMA ReplyArrives ==
  ASSUME rx \in Seq(Replies), NEW m \in Replies, Reply(m)
  PROVE  /\ \A k : Has(rx, k) => Has(rx', k)
         /\ \A k : Has(rx', k) => Has(rx, k) \/ k = m.kind
         /\ writer = "open" => Has(rx', m.kind)
<1>1. CASE writer # "open"
  BY <1>1 DEF Reply, Has
<1>2. CASE writer = "open"
  <2> DEFINE n == Len(rx)
  <2>1. /\ n \in Nat /\ DOMAIN rx = 1..n /\ DOMAIN rx' = 1..(n + 1) /\ rx'[n + 1] = m
        /\ \A k \in 1..n : rx'[k] = rx[k]
    BY <1>2 DEF Reply
  <2> HIDE DEF n
  <2>2. 1..n \subseteq 1..(n + 1) /\ n + 1 \in 1..(n + 1)
        /\ \A k \in 1..(n + 1) : k = n + 1 \/ k \in 1..n
    BY <2>1
  <2> QED
    BY <2>1, <2>2 DEF Has
<1> QED
  BY <1>1, <1>2

\* What a step of the controller does to the buffer.
LEMMA ControllerReplies ==
  ASSUME Base, Controller
  PROVE  /\ rx \in Seq(Replies) /\ rx' \in Seq(Replies) /\ writer' = writer
         /\ \A k : Has(rx, k) => Has(rx', k)
         /\ Head(tx).cmd # "commit" => \A k : Has(rx', k) => Has(rx, k) \/ k # "ack"
<1>1. rx \in Seq(Replies) /\ Obey(Head(tx)) /\ writer' = writer
  BY DEF Base, TypeOK, Controller, portVars
<1>2. rx' \in Seq(Replies)
  BY LineKeeps DEF TypeOK
<1>3. Head(tx) \in Frames
  BY TakenFirst DEF Base, TypeOK, Controller
<1> DEFINE f == Head(tx)
<1> HIDE DEF f
<1>4. /\ [kind |-> "line", reg |-> f.reg, id |-> f.id] \in Replies
      /\ [kind |-> "ack", reg |-> AnyReg, id |-> f.id] \in Replies /\ Error779 \in Replies
  BY <1>3, BoundAssumption DEF Error779, Replies, Frames, f
<1>5. \/ Quiet
      \/ \E m \in Replies : Reply(m) /\ (f.cmd # "commit" => m.kind # "ack")
  BY <1>1, <1>4 DEF Obey, Error779, f
<1>6. CASE Quiet
  BY <1>1, <1>2, <1>6 DEF Quiet
<1>7. ASSUME NEW m \in Replies, Reply(m), f.cmd # "commit" => m.kind # "ack"
      PROVE  /\ \A k : Has(rx, k) => Has(rx', k)
             /\ f.cmd # "commit" => \A k : Has(rx', k) => Has(rx, k) \/ k # "ack"
  BY <1>1, <1>7, ReplyArrives
<1> QED
  BY <1>1, <1>2, <1>5, <1>6, <1>7 DEF f

\* What the holder sends next is the right frame for the session there is.
LEMMA HolderAcks ==
  ASSUME Base, OneTaskEach, NeverKeepsAck, Untouched, CallsKnown, AckInv, TimelyController,
         PeekSeesAll, HolderSteps
  PROVE  AckInv'
<1>1. /\ TypeOK /\ tx \in Seq(Frames) /\ rx \in Seq(Replies)
      /\ outcome \in [CallId -> Outcomes]
      /\ Own.id \in CallId /\ outcome[Own.id] = "none" /\ holder # NoTask
      /\ UNCHANGED <<session, applied>>
  BY HolderUntouched DEF Base, TypeOK, HolderSteps
<1>2. ASSUME NEW r \in Outcomes, Leave(r), r = "acked" => Own.id \in applied
      PROVE  AckInv'
  <2>1. AckedMeansApplied'
    BY <1>1, <1>2 DEF Leave, AckInv, AckedMeansApplied
  <2>2. Stage' \in {"idle", "ready"}
    BY <1>2 DEF Leave
  <2> QED
    BY <2>1, <2>2 DEF AckInv, OpenedInv, PaidInv, CommittingInv
<1>3. ASSUME NEW p, Stay(p)
      PROVE  AckedMeansApplied' /\ Stage' = p /\ Own' = Own
  BY <1>1, <1>3 DEF Stay, AckInv, AckedMeansApplied
<1>4. ASSUME NEW p, Stay(p), p \notin {"opened", "paid", "committing"}
      PROVE  AckInv'
  BY <1>3, <1>4 DEF AckInv, OpenedInv, PaidInv, CommittingInv
<1>5. CASE Quits
  <2>1. PICK r \in Outcomes : MayQuit(r) /\ Leave(r)
    BY <1>5 DEF Quits
  <2>2. r = "acked" => Own.id \in applied
    BY <2>1 DEF MayQuit, AckInv, CommittingInv
  <2> QED
    BY <1>2, <2>1, <2>2
<1>6. CASE EndsAbort
  <2>1. Result \in Outcomes /\ Result # "acked"
    BY <1>1 DEF Result, TypeOK, NeverKeepsAck
  <2> QED
    BY <1>2, <1>6, <2>1 DEF EndsAbort
<1>7. CASE Begins
  <2>1. CASE Own.kind = "read"
    BY <1>4, <1>7, <2>1 DEF Begins
  <2>2. CASE Own.kind # "read"
    <3>1. Stay("opened") /\ Send(OwnFrame("open", Own.reg))
      BY <1>7, <2>2 DEF Begins
    <3>2. Stage' = "opened" /\ Own' = Own /\ AckedMeansApplied'
      BY <1>3, <3>1
    <3> DEFINE n == Len(tx)
    <3>3. n \in Nat /\ Len(tx') = n + 1 /\ tx'[n + 1] = OwnFrame("open", Own.reg)
      BY <1>1, <3>1, SentLast
    <3> HIDE DEF n
    <3>4. Len(tx') >= 1 /\ tx'[Len(tx')] = OwnFrame("open", Own.reg)'
      BY <3>2, <3>3 DEF OwnFrame
    <3> QED
      BY <3>2, <3>4 DEF AckInv, OpenedInv, PaidInv, CommittingInv
  <2> QED
    BY <2>1, <2>2
<1>8. CASE Waits
  <2>1. CASE Stage = "reading"
    BY <1>4, <1>8, <2>1 DEF Waits
  <2>2. CASE Stage = "committing"
    <3>1. /\ Stage' = Stage /\ Own' = Own /\ AckedMeansApplied' /\ tx' = tx
          /\ Has(rx', "ack") => Has(rx, "ack")
      BY <1>3, <1>8, <2>2 DEF Waits, Silent, Has
    <3>2. CommittingInv'
      BY <1>1, <3>1 DEF AckInv, CommittingInv, OwnFrame
    <3> QED
      BY <2>2, <3>1, <3>2 DEF AckInv, OpenedInv, PaidInv
  <2> QED
    BY <1>8, <2>1, <2>2 DEF Waits
<1>9. CASE Resumes
  <2>1. /\ tx = <<>> /\ Len(tx) = 0 /\ ~Has(rx, "779") /\ rx' = <<>> /\ writer = "open"
    BY <1>1, <1>9, PeekSplits, EmptySeq DEF Resumes, InTime
  <2>2. ~Has(rx', "ack")
    BY <2>1 DEF Has
  <2>3. \A f : Send(f) => Len(tx') = 1 /\ tx'[1] = f
    BY <1>1, <2>1, SentLast
  <2>4. CASE Stage = "opened"
    <3>1. Stay("paid") /\ Send(OwnFrame("payload", Own.reg)) /\ Opened
      BY <1>9, <2>1, <2>4 DEF Resumes, AckInv, OpenedInv
    <3>2. Stage' = "paid" /\ Own' = Own /\ AckedMeansApplied'
      BY <1>3, <3>1
    <3>3. PaidInv'
      BY <1>1, <2>3, <3>1, <3>2 DEF PaidInv, Opened, OwnFrame
    <3> QED
      BY <3>2, <3>3 DEF AckInv, OpenedInv, CommittingInv
  <2>5. CASE Stage = "paid"
    <3>1. Stay("committing") /\ Send(OwnFrame("commit", AnyReg)) /\ session.staged = Own.id
      BY <1>9, <2>1, <2>5 DEF Resumes, AckInv, PaidInv
    <3>2. Stage' = "committing" /\ Own' = Own /\ AckedMeansApplied'
      BY <1>3, <3>1
    <3>3. CommittingInv'
      BY <1>1, <2>2, <2>3, <3>1, <3>2 DEF CommittingInv, OwnFrame
    <3> QED
      BY <3>2, <3>3 DEF AckInv, OpenedInv, PaidInv
  <2> QED
    BY <1>9, <2>4, <2>5 DEF Resumes
<1>10. CASE Shuts \/ Aborts \/ Recovers \/ EndsRecovery
  BY <1>4, <1>10 DEF Shuts, Aborts, Recovers, EndsRecovery
<1>11. \/ Quits \/ Begins \/ Waits \/ Shuts \/ Resumes \/ Aborts \/ EndsAbort
       \/ Recovers \/ EndsRecovery
  BY DEF HolderSteps
<1> QED
  BY <1>5, <1>6, <1>7, <1>8, <1>9, <1>10, <1>11

\* What happens to a frame is known from the session or the buffer.
LEMMA LineAcks ==
  ASSUME Base, AckInv, LineSteps, holder # NoTask => Own.id \in CallId
  PROVE  AckInv'
<1> DEFINE n == Len(tx)
           f == Head(tx)
<1>1. /\ TypeOK /\ tx \in Seq(Frames) /\ rx \in Seq(Replies)
      /\ UNCHANGED <<Stage, Own, outcome>> /\ n \in Nat /\ applied \subseteq applied'
      /\ \A c, r : OwnFrame(c, r) = [cmd |-> c, reg |-> r, id |-> Own.id]
  <2>1. applied \subseteq applied'
    BY DEF LineSteps, LinkLost, Controller, Garbled, ctrlVars, Obey
  <2> QED
    BY <2>1 DEF Base, TypeOK, LineSteps, OwnFrame
<1>2. AckedMeansApplied'
  BY <1>1 DEF AckInv, AckedMeansApplied
<1>3. CASE LinkLost
  <2>1. /\ writer' # "open" /\ UNCHANGED <<rx, session, applied>>
    BY <1>3 DEF LinkLost, ctrlVars
  <2>2. PICK m \in 0..n : Len(tx') = m /\ \A k \in 1..m : tx'[k] = tx[k]
    BY <1>1, <1>3, LostLast
  <2> HIDE DEF n
  <2>3. CommittingInv'
    <3> SUFFICES ASSUME Stage = "committing", Own.id \notin applied
                 PROVE  /\ ~Has(rx, "ack")
                        /\ \/ m = 0
                           \/ m = 1 /\ tx'[1] = OwnFrame("commit", AnyReg) /\ session.staged = Own.id
      BY <1>1, <2>1, <2>2 DEF CommittingInv, Has, OwnFrame
    <3>1. /\ ~Has(rx, "ack")
          /\ \/ n = 0
             \/ n = 1 /\ tx[1] = OwnFrame("commit", AnyReg) /\ session.staged = Own.id
      BY DEF AckInv, CommittingInv, n
    <3>2. m = 0 \/ (n = 1 /\ m = 1)
      BY <1>1, <2>2, <3>1
    <3> QED
      BY <2>2, <3>1, <3>2
  <2> QED
    BY <1>2, <2>1, <2>3 DEF AckInv, OpenedInv, PaidInv
<1>4. CASE Controller \/ Garbled
  <2>1. /\ n \in Nat \ {0} /\ Len(tx') = n - 1 /\ f = tx[1] /\ f \in Frames
        /\ \A k \in 1..(n - 1) : tx'[k] = tx[k + 1]
        /\ writer' = writer
    BY <1>1, <1>4, TakenFirst DEF Controller, Garbled, portVars
  <2>2. \A k : Has(rx, k) => Has(rx', k)
    <3>1. Error779 \in Replies
      BY BoundAssumption DEF Error779, Replies
    <3> QED
      BY <1>1, <1>4, <3>1, ControllerReplies, ReplyArrives DEF Garbled
  <2>3. Garbled => UNCHANGED session /\ (writer = "open" => Has(rx', "779"))
                   /\ (Has(rx', "ack") => Has(rx, "ack"))
    <3>1. Error779 \in Replies /\ Error779.kind = "779"
      BY BoundAssumption DEF Error779, Replies
    <3> QED
      BY <1>1, <3>1, ReplyArrives DEF Garbled, ctrlVars
  <2>4. Controller => Obey(f) /\ session \in Sessions
                      /\ (Error779 \in Replies) /\ Error779.kind = "779"
    BY <1>1, BoundAssumption DEF Controller, TypeOK, Error779, Replies
  <2>5. Controller /\ f.cmd # "commit" => (Has(rx', "ack") => Has(rx, "ack"))
    BY ControllerReplies
  <2> HIDE DEF n, f
  <2>6. OpenedInv'
    <3> SUFFICES ASSUME Stage = "opened", writer = "open"
                 PROVE  \/ n - 1 >= 1 /\ tx'[n - 1] = OwnFrame("open", Own.reg)
                        \/ n - 1 = 0 /\ (Opened' \/ Has(rx', "779"))
      BY <1>1, <2>1 DEF OpenedInv, OwnFrame
    <3>1. n >= 1 /\ tx[n] = OwnFrame("open", Own.reg)
      BY <2>1 DEF AckInv, OpenedInv, n
    <3>2. CASE n = 1
      <4>1. f = [cmd |-> "open", reg |-> Own.reg, id |-> Own.id]
        BY <1>1, <2>1, <3>1, <3>2
      <4>2. CASE Garbled
        BY <2>3, <3>2, <4>2
      <4>3. CASE Controller
        <5>1. \/ session' = [reg |-> Own.reg, id |-> Own.id, staged |-> 0]
              \/ Reply(Error779)
          BY <2>4, <4>1, <4>3 DEF Obey
        <5>2. Reply(Error779) => Has(rx', "779")
          BY <1>1, <2>4, <4>3, ReplyArrives
        <5>3. session' = [reg |-> Own.reg, id |-> Own.id, staged |-> 0] => Opened'
          BY <1>1 DEF Opened
        <5> QED
          BY <3>2, <5>1, <5>2, <5>3
      <4> QED
        BY <1>4, <4>2, <4>3
    <3>3. CASE n > 1
      <4>1. n - 1 \in 1..(n - 1) /\ (n - 1) + 1 = n
        BY <2>1, <3>3
      <4> QED
        BY <2>1, <3>1, <3>3, <4>1
    <3> QED
      BY <2>1, <3>2, <3>3
  <2>7. PaidInv'
    <3> SUFFICES ASSUME Stage = "paid", writer = "open", ~Has(rx', "779")
                 PROVE  n - 1 = 0 /\ session'.staged = Own.id
      BY <1>1, <2>1 DEF PaidInv
    <3>1. n = 1 /\ f = [cmd |-> "payload", reg |-> Own.reg, id |-> Own.id] /\ Opened
      BY <1>1, <2>1, <2>2 DEF AckInv, PaidInv, n
    <3>2. Controller
      BY <1>4, <2>3
    <3>3. session' = [session EXCEPT !.staged = Own.id]
      BY <2>4, <3>1, <3>2 DEF Obey, Opened
    <3> QED
      BY <2>4, <3>1, <3>2, <3>3 DEF Sessions
  <2>8. CommittingInv'
    <3> SUFFICES ASSUME Stage = "committing", Own.id \notin applied'
                 PROVE  ~Has(rx', "ack") /\ n - 1 = 0
      BY <1>1, <2>1 DEF CommittingInv
    <3>1. /\ n = 1 /\ f = [cmd |-> "commit", reg |-> AnyReg, id |-> Own.id]
          /\ session.staged = Own.id /\ ~Has(rx, "ack")
      BY <1>1, <2>1 DEF AckInv, CommittingInv, n
    <3>2. ~Controller
      <4>1. Own.id \in CallId /\ Own.id # 0
        BY DEF Stage, CallId
      <4>2. Controller => Own.id \in applied'
        BY <2>4, <3>1, <4>1 DEF Obey
      <4> QED
        BY <4>2
    <3> QED
      BY <1>4, <2>3, <3>1, <3>2
  <2> QED
    BY <1>2, <2>6, <2>7, <2>8 DEF AckInv
<1> QED
  BY <1>3, <1>4 DEF LineSteps

\* Every step keeps this, if a peek sees all there is.
LEMMA NextAckInv ==
  ASSUME TimelyController
  PROVE  SInv /\ AckInv /\ PeekSeesAll /\ [Next]_vars => AckInv'
<1> SUFFICES ASSUME SInv, AckInv, PeekSeesAll, [Next]_vars PROVE AckInv'
  OBVIOUS
<1>1. /\ Base /\ OneTaskEach /\ NeverKeepsAck /\ Untouched /\ CallsKnown /\ TypeOK
      /\ outcome \in [CallId -> Outcomes]
  BY DEF SInv, LInv, IInv, Base, TypeOK
<1>2. CASE OthersStep
  <2>1. AckedMeansApplied'
    BY <1>1, <1>2 DEF OthersStep, AckInv, AckedMeansApplied
  <2>2. CASE UNCHANGED <<holder, Stage, Own, Result>>
    BY <1>2, <2>1, <2>2
       DEF OthersStep, AckInv, OpenedInv, PaidInv, CommittingInv, Opened, OwnFrame, Has
  <2>3. CASE Stage' = "ready"
    BY <2>1, <2>3 DEF AckInv, OpenedInv, PaidInv, CommittingInv
  <2> QED
    BY <1>2, <2>2, <2>3 DEF OthersStep
<1>3. holder # NoTask => Own.id \in CallId
  BY <1>1, HolderUntouched
<1> QED
  BY <1>1, <1>2, <1>3, HolderAcks, LineAcks, NextView

\* AckedMeansApplied: a write that has seen 993/999 has been applied, whatever was
\* cancelled, aborted, garbled or lost before it, if the controller answers within a
\* pause and 256 bytes hold all that it has sent by then.
THEOREM AckedIsApplied ==
  ASSUME TimelyController
  PROVE  Spec /\ []PeekSeesAll => []AckedMeansApplied
<1>1. Init => SInv /\ AckInv
  <2>1. Init => AckInv
    BY DEF Init, AckInv, OpenedInv, PaidInv, CommittingInv, AckedMeansApplied, Stage
  <2> QED
    BY <2>1, InitSInv
<1>2. SInv /\ AckInv /\ PeekSeesAll /\ [Next]_vars => SInv' /\ AckInv'
  BY NextSInv, NextAckInv
<1>3. SInv /\ AckInv => AckedMeansApplied
  BY DEF AckInv
<1> QED
  BY <1>1, <1>2, <1>3, PTL DEF Spec

----------------------------------------------------------------------------
(* Nothing is applied but by its own 999. *)

\* There is one block that is read and written.
OneBlock == \A r, s \in Reg : r = s

\* A 999 that is about to be obeyed finds nothing staged but what its own handshake has
\* staged: it is a write's own, or it follows a 0;0 that has emptied the session.
CommitsOwn == Len(tx) >= 1 /\ tx[1].cmd = "commit" => session.staged \in committed \cup {0}
CommitsBehindCancel == \A k \in 2..Len(tx) : tx[k].cmd = "commit" => tx[k - 1].cmd = "cancel"
CancelSent ==
  (Stage \in {"aborting", "recovering"} /\ writer = "open") =>
    \/ Len(tx) = 0 /\ session.staged = 0
    \/ Len(tx) >= 1 /\ tx[Len(tx)].cmd = "cancel"
NothingStaged == session.reg = AnyReg => session.staged = 0

OwnInv ==
  CommitsOwn /\ CommitsBehindCancel /\ CancelSent /\ NothingStaged /\ AppliedByOwnCommit

\* A frame is sent that is not a 999, or a 999 where one is due.
LEMMA SendKeepsOwn ==
  ASSUME tx \in Seq(Frames), UNCHANGED session, committed \subseteq committed',
         CommitsOwn, CommitsBehindCancel, NEW f, Send(f),
         f.cmd = "commit" =>
           \/ Len(tx) = 0 /\ session.staged \in committed' \cup {0}
           \/ Len(tx) >= 1 /\ tx[Len(tx)].cmd = "cancel"
  PROVE  /\ CommitsOwn' /\ CommitsBehindCancel'
         /\ Len(tx') >= 1 /\ tx'[Len(tx')] = f
<1> DEFINE n == Len(tx)
<1>1. /\ n \in Nat /\ Len(tx') = n + 1 /\ tx'[n + 1] = f
      /\ \A k \in 1..n : tx'[k] = tx[k]
  BY SentLast
<1>2. n >= 1 /\ tx[1].cmd = "commit" => session.staged \in committed \cup {0}
  BY DEF CommitsOwn
<1>3. \A k \in 2..n : tx[k].cmd = "commit" => tx[k - 1].cmd = "cancel"
  BY DEF CommitsBehindCancel
<1>4. f.cmd = "commit" => \/ n = 0 /\ session.staged \in committed' \cup {0}
                          \/ n >= 1 /\ tx[n].cmd = "cancel"
  OBVIOUS
<1> HIDE DEF n
<1>5. CommitsOwn'
  <2>1. CASE n = 0
    BY <1>1, <1>4, <2>1 DEF CommitsOwn
  <2>2. CASE n >= 1
    <3>1. tx'[1] = tx[1]
      BY <1>1, <2>2
    <3> QED
      BY <1>1, <1>2, <2>2, <3>1 DEF CommitsOwn
  <2> QED
    BY <1>1, <2>1, <2>2
<1>6. CommitsBehindCancel'
  <2> SUFFICES ASSUME NEW k \in 2..(n + 1), tx'[k].cmd = "commit"
               PROVE  tx'[k - 1].cmd = "cancel"
    BY <1>1 DEF CommitsBehindCancel
  <2>1. k - 1 \in 1..n /\ tx'[k - 1] = tx[k - 1]
    BY <1>1
  <2>2. CASE k = n + 1
    <3>1. n >= 1 /\ k - 1 = n
      BY <1>1, <2>2
    <3> QED
      BY <1>1, <1>4, <2>1, <2>2, <3>1
  <2>3. CASE k # n + 1
    <3>1. k \in 2..n /\ k \in 1..n
      BY <1>1, <2>3
    <3> QED
      BY <1>1, <1>3, <2>1, <3>1
  <2> QED
    BY <2>2, <2>3
<1> QED
  BY <1>1, <1>5, <1>6

\* The holder sends a 999 only where it is due.
LEMMA HolderKeepsOwn ==
  ASSUME Base, AckInv, OwnInv, TimelyController, PeekSeesAll, HolderSteps,
         Own.kind = "read" => Own.first = "read"
  PROVE  OwnInv'
<1>1. /\ tx \in Seq(Frames) /\ UNCHANGED <<session, applied>> /\ TypeOK
      /\ CommitsOwn /\ CommitsBehindCancel /\ NothingStaged /\ NothingStaged'
  BY DEF Base, TypeOK, HolderSteps, OwnInv, NothingStaged
<1>2. committed \subseteq committed'
  BY DEF HolderSteps, Quits, Begins, Waits, Shuts, Resumes, Aborts, EndsAbort, Recovers,
         EndsRecovery
<1>3. AppliedByOwnCommit'
  BY <1>1, <1>2 DEF OwnInv, AppliedByOwnCommit
<1>4. ASSUME tx' = tx, Stage' \notin {"aborting", "recovering"}
      PROVE  OwnInv'
  BY <1>1, <1>2, <1>3, <1>4 DEF OwnInv, CommitsOwn, CommitsBehindCancel, CancelSent
<1>5. ASSUME NEW f, Send(f), f.cmd # "commit",
             f.cmd = "cancel" \/ Stage' \notin {"aborting", "recovering"}
      PROVE  OwnInv'
  <2>1. /\ CommitsOwn' /\ CommitsBehindCancel' /\ Len(tx') >= 1 /\ tx'[Len(tx')] = f
    BY <1>1, <1>2, <1>5, SendKeepsOwn
  <2>2. CancelSent'
    BY <1>5, <2>1 DEF CancelSent
  <2> QED
    BY <1>1, <1>3, <2>1, <2>2 DEF OwnInv
<1>6. ASSUME NEW f, Send(f), Stage' \notin {"aborting", "recovering"},
             \/ Len(tx) = 0 /\ session.staged \in committed' \cup {0}
             \/ Len(tx) >= 1 /\ tx[Len(tx)].cmd = "cancel"
      PROVE  OwnInv'
  <2>1. CommitsOwn' /\ CommitsBehindCancel'
    BY <1>1, <1>2, <1>6, SendKeepsOwn
  <2>2. CancelSent'
    BY <1>6 DEF CancelSent
  <2> QED
    BY <1>1, <1>3, <2>1, <2>2 DEF OwnInv
<1>7. CASE Quits \/ Waits \/ Shuts
  BY <1>4, <1>7 DEF Quits, Waits, Shuts, Silent, Stay, Leave
<1>8. CASE Begins
  <2>1. PICK f : Send(f) /\ f.cmd \in {"read", "open"}
    BY <1>8 DEF Begins, OwnFrame
  <2>2. Stage' \in {"reading", "opened"}
    BY <1>8 DEF Begins, Stay
  <2> QED
    BY <1>5, <2>1, <2>2
<1>9. CASE Resumes
  <2>1. CASE Stage = "opened"
    <3>1. Stage' = "paid" /\ Send(OwnFrame("payload", Own.reg))
      BY <1>9, <2>1 DEF Resumes, Stay
    <3>2. OwnFrame("payload", Own.reg).cmd \notin {"commit", "cancel"}
      BY DEF OwnFrame
    <3> QED
      BY <1>5, <3>1, <3>2
  <2>2. CASE Stage = "paid"
    <3>1. /\ Stage' = "committing" /\ Send(OwnFrame("commit", AnyReg))
          /\ committed' = committed \cup {Own.id}
      BY <1>9, <2>2 DEF Resumes, Stay
    <3>2. tx = <<>> /\ Len(tx) = 0 /\ ~Has(rx, "779") /\ writer = "open"
      BY <1>1, <1>9, PeekSplits, EmptySeq DEF Resumes, InTime
    <3>3. session.staged = Own.id
      BY <2>2, <3>2 DEF AckInv, PaidInv
    <3> QED
      BY <1>6, <3>1, <3>2, <3>3
  <2> QED
    BY <1>9, <2>1, <2>2 DEF Resumes
<1>10. CASE Aborts \/ Recovers
  <2>1. PICK r : Send(OwnFrame("cancel", r))
    BY <1>10 DEF Aborts, Recovers
  <2>2. OwnFrame("cancel", r).cmd = "cancel"
    BY DEF OwnFrame
  <2> QED
    BY <1>5, <2>1, <2>2
<1>11. CASE EndsAbort \/ EndsRecovery
  <2>1. /\ Send(OwnFrame("commit", AnyReg)) /\ Stage' \in {"idle", "ready", "closing"}
        /\ Stage \in {"aborting", "recovering"} /\ writer = "open"
    BY <1>11 DEF EndsAbort, EndsRecovery, Stay, Leave
  <2>2. \/ Len(tx) = 0 /\ session.staged = 0
        \/ Len(tx) >= 1 /\ tx[Len(tx)].cmd = "cancel"
    BY <2>1 DEF OwnInv, CancelSent
  <2> QED
    BY <1>6, <2>1, <2>2
<1> QED
  BY <1>7, <1>8, <1>9, <1>10, <1>11 DEF HolderSteps

\* The controller takes a frame: a 0;0 empties the session, as there is only one block
\* it can be about, and a payload fills only a session that is open.
LEMMA ControllerKeepsOwn ==
  ASSUME Base, FramesKnown, OwnInv, OneBlock, Controller, UNCHANGED <<Stage, committed>>
  PROVE  OwnInv'
<1> DEFINE n == Len(tx)
           f == Head(tx)
<1>1. /\ n \in Nat \ {0} /\ Len(tx') = n - 1 /\ f = tx[1] /\ f \in Frames /\ Obey(f)
      /\ \A k \in 1..(n - 1) : tx'[k] = tx[k + 1]
      /\ writer' = writer /\ session \in Sessions
  BY TakenFirst DEF Base, TypeOK, Controller, portVars
<1>2. f.cmd = "payload" => f.reg \in Reg
  BY <1>1 DEF FramesKnown
<1>3. n >= 1 /\ tx[1].cmd = "commit" => session.staged \in committed \cup {0}
  BY DEF OwnInv, CommitsOwn
<1>4. \A k \in 2..n : tx[k].cmd = "commit" => tx[k - 1].cmd = "cancel"
  BY DEF OwnInv, CommitsBehindCancel
<1>5. (Stage \in {"aborting", "recovering"} /\ writer = "open") =>
        \/ n = 0 /\ session.staged = 0
        \/ n >= 1 /\ tx[n].cmd = "cancel"
  BY DEF OwnInv, CancelSent
<1>6. session.reg = AnyReg => session.staged = 0
  BY DEF OwnInv, NothingStaged
<1>7. AppliedByOwnCommit
  BY DEF OwnInv
<1> HIDE DEF n, f
<1>8. f.cmd = "cancel" => session'.staged = 0
  <2> SUFFICES ASSUME f.cmd = "cancel" PROVE session'.staged = 0
    OBVIOUS
  <2>1. session' = IF f.reg \in {session.reg, AnyReg} THEN NoSession ELSE session
    BY <1>1 DEF Obey
  <2>2. f.reg \in Reg \cup {AnyReg} /\ session.reg \in Reg \cup {AnyReg}
    BY <1>1 DEF Frames, Sessions
  <2>3. f.reg \in {session.reg, AnyReg} \/ session.reg = AnyReg
    BY <2>2 DEF OneBlock
  <2> QED
    BY <1>6, <2>1, <2>3 DEF NoSession
<1>9. CommitsOwn'
  <2> SUFFICES ASSUME n - 1 >= 1, tx'[1].cmd = "commit"
               PROVE  session'.staged \in committed \cup {0}
    BY <1>1 DEF CommitsOwn
  <2>1. 2 \in 2..n /\ 1 \in 1..(n - 1) /\ tx'[1] = tx[2] /\ 2 - 1 = 1
    BY <1>1
  <2>2. f.cmd = "cancel"
    BY <1>1, <1>4, <2>1
  <2> QED
    BY <1>8, <2>2
<1>10. CommitsBehindCancel'
  <2> SUFFICES ASSUME NEW k \in 2..(n - 1), tx'[k].cmd = "commit"
               PROVE  tx'[k - 1].cmd = "cancel"
    BY <1>1 DEF CommitsBehindCancel
  <2>1. /\ k \in 1..(n - 1) /\ k - 1 \in 1..(n - 1) /\ k + 1 \in 2..n
        /\ (k + 1) - 1 = k /\ (k - 1) + 1 = k
    BY <1>1
  <2>2. tx'[k] = tx[k + 1] /\ tx'[k - 1] = tx[k]
    BY <1>1, <2>1
  <2> QED
    BY <1>4, <2>1, <2>2
<1>11. CancelSent'
  <2> SUFFICES ASSUME Stage \in {"aborting", "recovering"}, writer = "open"
               PROVE  \/ n - 1 = 0 /\ session'.staged = 0
                      \/ n - 1 >= 1 /\ tx'[n - 1].cmd = "cancel"
    BY <1>1 DEF CancelSent
  <2>1. tx[n].cmd = "cancel"
    BY <1>1, <1>5
  <2>2. CASE n = 1
    BY <1>1, <1>8, <2>1, <2>2
  <2>3. CASE n > 1
    <3>1. n - 1 \in 1..(n - 1) /\ (n - 1) + 1 = n
      BY <1>1, <2>3
    <3> QED
      BY <1>1, <2>1, <2>3, <3>1
  <2> QED
    BY <1>1, <2>2, <2>3
<1>12. NothingStaged'
  <2>1. \/ session' = session \/ session' = NoSession
        \/ session'.staged = 0
        \/ session'.reg = session.reg /\ session.reg \in Reg
    BY <1>1, <1>2 DEF Obey, ctrlVars, Sessions
  <2> QED
    BY <1>6, <2>1, NullAssumption DEF NothingStaged, NoSession
<1>13. AppliedByOwnCommit'
  <2>1. applied' = applied \/ (f.cmd = "commit" /\ applied' = applied \cup ({session.staged} \ {0}))
    BY <1>1 DEF Obey, ctrlVars
  <2> QED
    BY <1>1, <1>3, <1>7, <2>1 DEF AppliedByOwnCommit
<1> QED
  BY <1>9, <1>10, <1>11, <1>12, <1>13 DEF OwnInv

\* When the link is lost, some of the last frames are.
LEMMA LossKeepsOwn ==
  ASSUME Base, OwnInv, LinkLost, UNCHANGED <<Stage, committed>>
  PROVE  OwnInv'
<1> DEFINE n == Len(tx)
<1>1. /\ n \in Nat /\ writer' # "open" /\ UNCHANGED <<session, applied>>
      /\ tx \in Seq(Frames)
  BY DEF Base, TypeOK, LinkLost, ctrlVars
<1>2. PICK m \in 0..n : Len(tx') = m /\ \A k \in 1..m : tx'[k] = tx[k]
  BY <1>1, LostLast
<1>3. n >= 1 /\ tx[1].cmd = "commit" => session.staged \in committed \cup {0}
  BY DEF OwnInv, CommitsOwn
<1>4. \A k \in 2..n : tx[k].cmd = "commit" => tx[k - 1].cmd = "cancel"
  BY DEF OwnInv, CommitsBehindCancel
<1> HIDE DEF n
<1>5. CommitsOwn'
  <2>1. m >= 1 => tx'[1] = tx[1] /\ n >= 1
    BY <1>1, <1>2
  <2> QED
    BY <1>1, <1>2, <1>3, <2>1 DEF CommitsOwn
<1>6. CommitsBehindCancel'
  <2> SUFFICES ASSUME NEW k \in 2..m, tx'[k].cmd = "commit"
               PROVE  tx'[k - 1].cmd = "cancel"
    BY <1>2 DEF CommitsBehindCancel
  <2>1. k \in 2..n /\ k \in 1..m /\ k - 1 \in 1..m
    BY <1>1, <1>2
  <2> QED
    BY <1>2, <1>4, <2>1
<1> QED
  BY <1>1, <1>5, <1>6 DEF OwnInv, CancelSent, NothingStaged, AppliedByOwnCommit

\* Every step keeps this.
LEMMA NextOwnInv ==
  ASSUME TimelyController, MaxDesyncs = 0, OneBlock
  PROVE  SInv /\ FramesKnown /\ AckInv /\ OwnInv /\ PeekSeesAll /\ [Next]_vars => OwnInv'
<1> SUFFICES ASSUME SInv, FramesKnown, AckInv, OwnInv, PeekSeesAll, [Next]_vars
             PROVE  OwnInv'
  OBVIOUS
<1>1. /\ Base /\ OneTaskEach /\ NeverKeepsAck /\ Untouched /\ CallsKnown /\ TypeOK
  BY DEF SInv, LInv, IInv, Base
<1>2. CASE HolderSteps
  <2>1. Own.kind = "read" => Own.first = "read"
    BY <1>1, HolderUntouched
  <2> QED
    BY <1>1, <1>2, <2>1, HolderKeepsOwn
<1>3. CASE OthersStep
  <2>1. /\ UNCHANGED <<tx, writer, session, applied, committed>>
        /\ Stage' = Stage \/ Stage' = "ready"
    BY <1>3 DEF OthersStep
  <2> QED
    BY <2>1 DEF OwnInv, CommitsOwn, CommitsBehindCancel, CancelSent, NothingStaged,
                AppliedByOwnCommit
<1>4. CASE LineSteps
  <2>1. ~Garbled
    BY <1>1, BoundAssumption DEF Garbled, TypeOK
  <2> QED
    BY <1>1, <1>4, <2>1, ControllerKeepsOwn, LossKeepsOwn DEF LineSteps
<1> QED
  BY <1>1, <1>2, <1>3, <1>4, NextView

\* AppliedByOwnCommit: the controller takes over only what was committed by the 999 of
\* its own handshake, whatever is cancelled, aborted or lost between the frames, if
\* there is one block; of two, a cancelled write to one is not dropped by the abort of
\* a write to the other.
THEOREM OnlyOwnCommits ==
  ASSUME TimelyController, MaxDesyncs = 0, OneBlock
  PROVE  Spec /\ []PeekSeesAll => []AppliedByOwnCommit
<1> DEFINE Inv == SInv /\ FramesKnown /\ AckInv /\ OwnInv
<1>1. Init => Inv
  <2>1. Init => AckInv
    BY DEF Init, AckInv, OpenedInv, PaidInv, CommittingInv, AckedMeansApplied, Stage
  <2>2. Init => FramesKnown /\ OwnInv
    BY EmptySeq DEF Init, FramesKnown, OwnInv, CommitsOwn, CommitsBehindCancel, CancelSent,
                    NothingStaged, AppliedByOwnCommit, Stage, NoSession
  <2> QED
    BY <2>1, <2>2, InitSInv
<1>2. Inv /\ PeekSeesAll /\ [Next]_vars => Inv'
  BY NextSInv, NextFramesKnown, NextAckInv, NextOwnInv
<1>3. Inv => AppliedByOwnCommit
  BY DEF OwnInv
<1> QED
  BY <1>1, <1>2, <1>3, PTL DEF Spec

----------------------------------------------------------------------------
(* A write that is given up in a pause is not applied. *)

\* Until its abort token stops it, and afterwards, it has sent no 999 of a handshake.
AbortInv ==
  /\ \A i \in CallId : outcome[i] = "aborted" => i \notin committed
  /\ Stage \in {"opened", "paid"} => Own.id \notin committed
  /\ Stage \in {"aborting", "closing"} /\ Result = "aborted" => Own.id \notin committed

LEMMA NextAbortInv ==
  SInv /\ AbortInv /\ [Next]_vars => AbortInv'
<1> SUFFICES ASSUME SInv, AbortInv, [Next]_vars PROVE AbortInv'
  OBVIOUS
<1>1. /\ Base /\ OneTaskEach /\ NeverKeepsAck /\ Untouched /\ CallsKnown /\ TypeOK
      /\ outcome \in [CallId -> Outcomes]
  BY DEF SInv, LInv, IInv, Base, TypeOK
<1>2. CASE HolderSteps
  <2>1. /\ Own.id \in CallId /\ outcome[Own.id] = "none"
        /\ Stage = "ready" => Own.id \notin committed
    BY <1>1, <1>2, HolderUntouched DEF HolderSteps
  <2>2. ASSUME NEW p, Stay(p), committed' \in {committed, committed \cup {Own.id}},
               p \in {"opened", "paid"} => Own.id \notin committed',
               p \in {"aborting", "closing"} /\ Result' = "aborted" => Own.id \notin committed'
        PROVE  AbortInv'
    BY <2>1, <2>2 DEF Stay, AbortInv
  <2>3. ASSUME NEW r \in Outcomes, Leave(r), committed' = committed,
               r = "aborted" => Own.id \notin committed
        PROVE  AbortInv'
    BY <1>1, <2>1, <2>3 DEF Leave, AbortInv
  <2>4. CASE Quits
    <3>1. PICK r \in Outcomes : MayQuit(r) /\ Leave(r)
      BY <2>4 DEF Quits
    <3>2. r = "aborted" => Own.id \notin committed
      BY <3>1 DEF MayQuit, AbortInv
    <3> QED
      BY <2>3, <2>4, <3>1, <3>2 DEF Quits
  <2>5. CASE EndsAbort
    <3>1. Result \in Outcomes
      BY <1>1 DEF Result, TypeOK, Outcomes
    <3>2. Result = "aborted" => Own.id \notin committed
      BY <2>5 DEF EndsAbort, AbortInv
    <3> QED
      BY <2>3, <2>5, <3>1, <3>2 DEF EndsAbort
  <2>6. CASE Begins \/ Waits \/ Shuts \/ Recovers \/ EndsRecovery
    BY <2>1, <2>2, <2>6 DEF Begins, Waits, Shuts, Recovers, EndsRecovery
  <2>7. CASE Resumes \/ Aborts
    BY <2>2, <2>7 DEF Resumes, Aborts, AbortInv
  <2> QED
    BY <1>2, <2>4, <2>5, <2>6, <2>7 DEF HolderSteps
<1>3. CASE OthersStep
  <2>1. \A i \in CallId : outcome'[i] = "aborted" => outcome[i] = "aborted"
    BY <1>1, <1>3 DEF OthersStep
  <2> QED
    BY <1>3, <2>1 DEF OthersStep, AbortInv
<1>4. CASE LineSteps
  BY <1>4 DEF LineSteps, AbortInv
<1> QED
  BY <1>1, <1>2, <1>3, <1>4, NextView

\* AbortedNeverApplied: a write that its abort token stopped in a pause has changed
\* nothing in the controller and never will.
THEOREM AbortedStaysUnapplied ==
  ASSUME TimelyController, MaxDesyncs = 0, OneBlock
  PROVE  Spec /\ []PeekSeesAll => []AbortedNeverApplied
<1>1. Init => SInv /\ AbortInv
  <2>1. Init => AbortInv
    BY DEF Init, AbortInv, Stage
  <2> QED
    BY <2>1, InitSInv
<1>2. SInv /\ AbortInv /\ [Next]_vars => SInv' /\ AbortInv'
  BY NextSInv, NextAbortInv
<1>3. AbortInv /\ AppliedByOwnCommit => AbortedNeverApplied
  BY DEF AbortInv, AppliedByOwnCommit, AbortedNeverApplied
<1> QED
  BY <1>1, <1>2, <1>3, OnlyOwnCommits, PTL DEF Spec

----------------------------------------------------------------------------
(* A query takes the reply to its own command. *)

\* A frame that is never answered with a line or 779.
Concludes(f) == f.cmd \in {"cancel", "commit"}

\* The 0;0 or the 999 of an abort is not understood.
GarblesAbort == Garbled /\ Concludes(Head(tx))

\* Only what the holder has sent last can be answered with a line or 779.
LastAnswers ==
  \A i \in DOMAIN tx :
    \/ Concludes(tx[i])
    \/ /\ i = Len(tx) /\ Stage \in {"reading", "opened", "paid"}
       /\ tx[i].cmd = "read" => Stage = "reading" /\ tx[i].id = Own.id

\* The line in the buffer is the answer to the query that runs; that or a 779 in
\* the buffer of a query means that its command has been dealt with.
LinesOwn ==
  /\ \A i \in DOMAIN rx : rx[i].kind = "line" => Stage = "reading" /\ rx[i].id = Own.id
  /\ Has(rx, "779") => Stage \in {"reading", "opened", "paid"}
  /\ Stage = "reading" /\ (Has(rx, "line") \/ Has(rx, "779")) => tx = <<>>

NoToken == \A t \in Task : token[t] = FALSE

ReadInv == LastAnswers /\ LinesOwn /\ NoToken /\ OwnReply

\* A buffer that has nothing for a query.
Bare(chunk) == ~Has(chunk, "line") /\ ~Has(chunk, "779")

\* Before the holder's next frame there is nothing on the line that could be
\* answered with a line or 779.
AllConclude == \A i \in DOMAIN tx : Concludes(tx[i])
Follows(f) ==
  \/ Concludes(f)
  \/ /\ Stage' \in {"reading", "opened", "paid"}
     /\ f.cmd = "read" => Stage' = "reading" /\ f.id = Own.id /\ Own' = Own

\* What a step of the holder does with replies.
ReadsOwn ==
  /\ got' = got \/ got' = [got EXCEPT ![Own.id] = Own.id]
  /\ Bare(rx')
  /\ \/ Stage = "reading" /\ Stay("reading") /\ tx' = tx
     \/ AllConclude /\ (Silent \/ \E f : Send(f) /\ Follows(f))

LEMMA StepReadsOwn ==
  ASSUME TimelyController, PeekSeesAll, SInv, ReadInv, faults.drop = 0,
         NEW t \in Task, Step(t)
  PROVE  ReadsOwn
<1>1. /\ Base /\ TypeOK /\ pc[t] \in Holding /\ work' = work /\ rx \in Seq(Replies)
      /\ got \in [CallId -> 0..MaxOps]
  BY StepShape DEF SInv, LInv, IInv, Base, TypeOK
<1>2. /\ holder = t /\ holder # NoTask /\ Stage = pc[t] /\ Own = work[t] /\ Result = res[t]
  BY <1>1, HolderIs
<1>3. /\ writer # "failed" /\ token[t] = FALSE
      /\ Stage \in {"reading", "opened", "paid", "committing", "aborting", "recovering"}
           => writer = "open"
  BY DEF SInv, PortOpen, Sending, LastSent, ReadInv, NoToken
<1>4. InTime => tx = <<>>
  BY DEF InTime
<1>5. Bare(<<>>)
  BY DEF Bare, Has
<1>6. \A c, r : Frame(t, c, r) = OwnFrame(c, r)
  BY <1>2 DEF Frame, OwnFrame
<1>7. tx = <<>> => AllConclude
  BY DEF AllConclude
<1>8. ASSUME Stage \notin {"reading", "opened", "paid"}
      PROVE  AllConclude /\ Bare(rx)
  <2>1. AllConclude
    BY <1>8 DEF AllConclude, ReadInv, LastAnswers
  <2>2. Bare(rx)
    BY <1>8 DEF Bare, Has, ReadInv, LinesOwn
  <2> QED
    BY <2>1, <2>2
<1>9. Rest256 = <<>>
  BY <1>1, PeekSplits
<1>10. \A r : Concludes(OwnFrame("cancel", r)) /\ Concludes(OwnFrame("commit", r))
  BY DEF Concludes, OwnFrame
<1>11. \A r : CloseThen(t, r) => rx' = <<>>
  BY DEF CloseThen
<1>12. \A r : AbortThen(t, r) => Silent \/ \E f : Send(f) /\ Concludes(f)
  BY <1>6, <1>10 DEF AbortThen
<1>13. SendFinal999(t) => Silent \/ \E f : Send(f) /\ Concludes(f)
  BY <1>6, <1>10 DEF SendFinal999
<1>14. ASSUME got' = got, rx' = <<>> \/ (rx' = rx /\ Stage \notin {"reading", "opened", "paid"}),
              AllConclude, Silent \/ \E f : Send(f) /\ Follows(f)
       PROVE  ReadsOwn
  BY <1>5, <1>8, <1>14 DEF ReadsOwn
<1>15. \A f : Concludes(f) => Follows(f)
  BY DEF Follows
<1>16. CASE Connect(t) \/ Close(t) \/ Closed(t) \/ OpenFails(t)
  <2>1. /\ got' = got /\ Silent /\ rx' \in {rx, <<>>}
        /\ Stage \in {"ready", "closing"}
    BY <1>2, <1>11, <1>16 DEF Connect, Close, Closed, OpenFails, histVars
  <2> QED
    BY <1>8, <1>14, <2>1
<1>17. CASE Start(t)
  <2>1. /\ got' = got /\ rx' \in {rx, <<>>} /\ Stage = "ready"
    BY <1>2, <1>17 DEF Start, EnsureOpen, histVars
  <2>2. \/ Send(Frame(t, work[t].first, work[t].reg)) /\ Goto(t, "reading")
        \/ Send(Frame(t, "open", work[t].reg)) /\ Goto(t, "opened")
    BY <1>17 DEF Start
  <2>3. \A p \in {"reading", "opened"} : Goto(t, p) => Stage' = p /\ Own' = Own
    <3>1. {"reading", "opened"} \subseteq Holding
      BY DEF Holding
    <3> QED
      BY <1>1, <3>1, GotoStays DEF Stay
  <2>4. \E f : Send(f) /\ Follows(f)
    BY <1>6, <2>2, <2>3 DEF Follows, OwnFrame
  <2> QED
    BY <1>8, <1>14, <2>1, <2>4
<1>18. CASE ReadChunk(t)
  <2>1. Stage = "reading" /\ rx' = <<>>
    BY <1>2, <1>11, <1>18 DEF ReadChunk, Recover
  <2>2. CASE Has(rx, "779")
    <3>1. tx = <<>> /\ got' = got /\ Recover(t)
      BY <1>18, <2>1, <2>2 DEF ReadChunk, ReadInv, LinesOwn
    <3>2. Silent \/ \E f : Send(f) /\ Follows(f)
      BY <1>6, <1>10, <1>15, <3>1 DEF Recover
    <3> QED
      BY <1>7, <1>14, <2>1, <3>1, <3>2
  <2>3. CASE ~Has(rx, "779") /\ Matches(t, rx) # {}
    <3>1. PICK i \in Matches(t, rx) : got' = [got EXCEPT ![work[t].id] = rx[i].id]
      BY <1>18, <2>3 DEF ReadChunk
    <3>2. i \in DOMAIN rx /\ rx[i].kind = "line"
      BY DEF Matches
    <3>3. rx[i].id = Own.id /\ tx = <<>>
      BY <2>1, <3>2 DEF Has, ReadInv, LinesOwn
    <3>4. Silent
      BY <1>18, <2>3 DEF ReadChunk
    <3> QED
      BY <1>2, <1>5, <1>7, <2>1, <3>1, <3>3, <3>4 DEF ReadsOwn
  <2>4. CASE ~Has(rx, "779") /\ Matches(t, rx) = {}
    <3>1. Goto(t, "reading") /\ Silent /\ got' = got
      BY <1>18, <2>4 DEF ReadChunk
    <3>2. Stay("reading")
      BY <1>1, <3>1, GotoStays DEF Holding
    <3> QED
      BY <1>5, <2>1, <3>1, <3>2 DEF ReadsOwn, Silent
  <2> QED
    BY <2>2, <2>3, <2>4
<1>19. CASE ReadFails(t)
  <2>1. InTime /\ got' = got /\ Silent /\ rx' = <<>>
    BY <1>2, <1>3, <1>11, <1>19 DEF ReadFails, histVars
  <2> QED
    BY <1>4, <1>7, <1>14, <2>1
<1>20. CASE Recovered(t)
  <2>1. Stage = "recovering" /\ got' = got /\ rx' = <<>> /\ SendFinal999(t)
    BY <1>2, <1>11, <1>20 DEF Recovered, histVars
  <2> QED
    BY <1>8, <1>13, <1>14, <1>15, <2>1
<1>21. CASE PauseEndsAborted(t) \/ AwaitAborted(t) \/ PeekRaises(t)
  BY <1>3, <1>21 DEF PauseEndsAborted, AwaitAborted, PeekRaises
<1>22. CASE PeekSees779(t)
  <2>1. InTime /\ got' = got /\ rx' = Rest256 /\ AbortThen(t, "error")
    BY <1>22 DEF PeekSees779
  <2> QED
    BY <1>4, <1>7, <1>9, <1>12, <1>14, <1>15, <2>1
<1>23. CASE SendNext(t)
  <2>1. /\ InTime /\ got' = got /\ writer = "open" /\ Stage \in {"opened", "paid"}
        /\ rx' = Rest256 /\ Send(NextFrame(t)) /\ Goto(t, NextPc(t))
    BY <1>2, <1>3, <1>23 DEF SendNext
  <2>2. Follows(NextFrame(t))
    <3>1. CASE Stage = "opened"
      <4>1. Goto(t, "paid") /\ NextFrame(t) = OwnFrame("payload", work[t].reg)
        BY <1>2, <1>6, <2>1, <3>1 DEF NextPc, NextFrame
      <4>2. Stage' = "paid"
        BY <1>1, <4>1, GotoStays DEF Stay, Holding
      <4> QED
        BY <4>1, <4>2 DEF Follows, OwnFrame
    <3>2. CASE Stage = "paid"
      BY <1>2, <1>6, <1>10, <1>15, <3>2 DEF NextFrame
    <3> QED
      BY <2>1, <3>1, <3>2
  <2> QED
    BY <1>4, <1>7, <1>9, <1>14, <2>1, <2>2
<1>24. CASE AwaitChunk(t) \/ AwaitEnds(t) \/ AwaitRaises(t)
  <2>1. Stage = "committing" /\ got' = got /\ Silent /\ rx' \in {rx, <<>>}
    BY <1>2, <1>9, <1>11, <1>24 DEF AwaitChunk, AwaitEnds, AwaitRaises, histVars
  <2> QED
    BY <1>8, <1>14, <2>1
<1>25. CASE Aborted(t)
  <2>1. Stage = "aborting" /\ got' = got /\ rx' = rx /\ SendFinal999(t)
    BY <1>2, <1>25 DEF Aborted, histVars
  <2> QED
    BY <1>8, <1>13, <1>14, <1>15, <2>1
<1> QED
  BY <1>16, <1>17, <1>18, <1>19, <1>20, <1>21, <1>22, <1>23, <1>24, <1>25 DEF Step

\* What the holder does keeps it.
LEMMA HolderReads ==
  ASSUME TimelyController, PeekSeesAll, SInv, ReadInv, faults.drop = 0,
         NEW t \in Task, Step(t)
  PROVE  ReadInv'
<1>1. /\ ReadsOwn /\ TypeOK /\ tx \in Seq(Frames) /\ got \in [CallId -> 0..MaxOps]
      /\ token' = token /\ Own.id \in CallId
  <2>1. Base /\ OneTaskEach /\ Untouched /\ CallsKnown /\ TypeOK
    BY DEF SInv, LInv, IInv, Base
  <2>2. pc[t] \in Holding /\ Stage = pc[t]
    BY <2>1, StepShape, HolderIs
  <2>3. token' = token
    BY DEF Step, Connect, Close, Closed, Start, OpenFails, ReadChunk, ReadFails, Recovered,
           PauseEndsAborted, PeekRaises, PeekSees779, SendNext, AwaitChunk, AwaitEnds,
           AwaitRaises, AwaitAborted, Aborted
  <2> QED
    BY <2>1, <2>2, <2>3, StepReadsOwn, HolderUntouched DEF TypeOK
<1>2. NoToken' /\ OwnReply'
  BY <1>1 DEF ReadsOwn, ReadInv, NoToken, OwnReply
<1>3. LinesOwn'
  BY <1>1 DEF ReadsOwn, Bare, LinesOwn, Has
<1>4. LastAnswers'
  <2>1. CASE Stage = "reading" /\ Stay("reading") /\ tx' = tx
    BY <2>1 DEF ReadInv, LastAnswers, Stay
  <2>2. CASE AllConclude /\ Silent
    BY <2>2 DEF AllConclude, Silent, LastAnswers
  <2>3. CASE AllConclude /\ \E f : Send(f) /\ Follows(f)
    <3>1. PICK f : Send(f) /\ Follows(f)
      BY <2>3
    <3> DEFINE n == Len(tx)
    <3>2. /\ n \in Nat /\ DOMAIN tx = 1..n /\ DOMAIN tx' = 1..(n + 1) /\ Len(tx') = n + 1
          /\ tx'[n + 1] = f /\ \A k \in 1..n : tx'[k] = tx[k]
      BY <1>1, <3>1, SentLast
    <3> HIDE DEF n
    <3>3. \A k \in DOMAIN tx' : k = n + 1 \/ k \in DOMAIN tx
      BY <3>2
    <3>4. \A k \in DOMAIN tx : Concludes(tx'[k])
      BY <2>3, <3>2 DEF AllConclude
    <3> QED
      BY <3>1, <3>2, <3>3, <3>4 DEF Follows, LastAnswers
  <2> QED
    BY <1>1, <2>1, <2>2, <2>3 DEF ReadsOwn
<1> QED
  BY <1>2, <1>3, <1>4 DEF ReadInv

\* A frame that arrives and is answered with a line or 779 was the last.
LEMMA ArrivalReads ==
  ASSUME SInv, ReadInv, Controller \/ Garbled, ~GarblesAbort
  PROVE  ReadInv'
<1> DEFINE n == Len(tx)
           f == Head(tx)
           r == Len(rx)
<1>1. /\ Base /\ TypeOK /\ tx \in Seq(Frames) /\ rx \in Seq(Replies)
      /\ UNCHANGED <<Stage, Own, token, got>>
  <2>1. UNCHANGED <<Stage, Own, token, got>>
    BY DEF Controller, Garbled, lockVars, histVars, Stage, Own
  <2> QED
    BY <2>1 DEF SInv, LInv, IInv, Base, TypeOK
<1>2. /\ n \in Nat \ {0} /\ Len(tx') = n - 1 /\ f = tx[1] /\ f \in Frames
      /\ DOMAIN tx = 1..n /\ DOMAIN tx' = 1..(n - 1)
      /\ n = 1 <=> tx' = <<>>
      /\ \A k \in 1..(n - 1) : tx'[k] = tx[k + 1]
  BY <1>1, TakenFirst DEF Controller, Garbled
<1>3. r \in Nat /\ DOMAIN rx = 1..r
  BY <1>1
<1>4. ASSUME NEW m, Reply(m)
      PROVE  \/ rx' = rx
             \/ /\ DOMAIN rx' = 1..(r + 1) /\ rx'[r + 1] = m
                /\ \A k \in 1..r : rx'[k] = rx[k]
  BY <1>1, <1>4 DEF Reply
<1> HIDE DEF n, r
<1>5. NoToken' /\ OwnReply'
  BY <1>1 DEF ReadInv, NoToken, OwnReply
<1>6. LastAnswers'
  <2> SUFFICES ASSUME NEW k \in DOMAIN tx', ~Concludes(tx'[k])
               PROVE  /\ k = Len(tx') /\ Stage \in {"reading", "opened", "paid"}
                      /\ tx'[k].cmd = "read" => Stage = "reading" /\ tx'[k].id = Own.id
    BY <1>1 DEF LastAnswers
  <2>1. k \in 1..(n - 1) /\ k + 1 \in DOMAIN tx /\ tx'[k] = tx[k + 1]
    BY <1>2
  <2>2. k + 1 = Len(tx) => k = Len(tx')
    BY <1>2, <2>1 DEF n
  <2> QED
    BY <2>1, <2>2 DEF ReadInv, LastAnswers
<1>7. ASSUME NEW m, Reply(m), m.kind \in {"line", "779"} =>
               /\ tx' = <<>> /\ Stage \in {"reading", "opened", "paid"}
               /\ m.kind = "line" => Stage = "reading" /\ m.id = Own.id
      PROVE  LinesOwn'
  <2>1. CASE rx' = rx
    <3>1. Stage = "reading" /\ (Has(rx, "line") \/ Has(rx, "779")) => FALSE
      BY <1>2, EmptySeq DEF ReadInv, LinesOwn, n
    <3> QED
      BY <1>1, <2>1, <3>1 DEF ReadInv, LinesOwn, Has
  <2>2. CASE /\ DOMAIN rx' = 1..(r + 1) /\ rx'[r + 1] = m
             /\ \A k \in 1..r : rx'[k] = rx[k]
    <3>1. \A k \in DOMAIN rx' : rx'[k] = m \/ (k \in DOMAIN rx /\ rx'[k] = rx[k])
      BY <1>3, <2>2
    <3>2. \A k : Has(rx', k) => Has(rx, k) \/ m.kind = k
      BY <3>1 DEF Has
    <3>3. ~(Stage = "reading" /\ (Has(rx, "line") \/ Has(rx, "779")))
      BY <1>2, EmptySeq DEF ReadInv, LinesOwn, n
    <3>4. \A i \in DOMAIN rx' : rx'[i].kind = "line" => Stage = "reading" /\ rx'[i].id = Own.id
      BY <1>7, <3>1 DEF ReadInv, LinesOwn
    <3>5. Has(rx', "779") => Stage \in {"reading", "opened", "paid"}
      BY <1>7, <3>2 DEF ReadInv, LinesOwn
    <3>6. Stage = "reading" /\ (Has(rx', "line") \/ Has(rx', "779")) => tx' = <<>>
      BY <1>7, <3>2, <3>3
    <3> QED
      BY <1>1, <3>4, <3>5, <3>6 DEF LinesOwn, Has
  <2> QED
    BY <1>4, <1>7, <2>1, <2>2
<1>8. ~Concludes(f) => /\ tx' = <<>> /\ Stage \in {"reading", "opened", "paid"}
                       /\ f.cmd = "read" => Stage = "reading" /\ f.id = Own.id
  <2> SUFFICES ASSUME ~Concludes(f)
               PROVE  /\ tx' = <<>> /\ Stage \in {"reading", "opened", "paid"}
                      /\ f.cmd = "read" => Stage = "reading" /\ f.id = Own.id
    OBVIOUS
  <2>1. 1 \in DOMAIN tx /\ tx[1] = f
    BY <1>2
  <2>2. /\ 1 = Len(tx) /\ Stage \in {"reading", "opened", "paid"}
        /\ f.cmd = "read" => Stage = "reading" /\ f.id = Own.id
    BY <2>1 DEF ReadInv, LastAnswers
  <2> QED
    BY <1>2, <2>2 DEF n
<1>9. LinesOwn'
  <2>1. CASE Garbled
    <3>1. Reply(Error779) /\ Error779.kind = "779" /\ ~Concludes(f)
      BY <2>1 DEF Garbled, GarblesAbort, Error779
    <3> QED
      BY <1>7, <1>8, <3>1
  <2>2. CASE Controller
    <3>1. Obey(f)
      BY <2>2 DEF Controller
    <3>2. CASE Quiet
      <4>1. Stage = "reading" /\ (Has(rx, "line") \/ Has(rx, "779")) => FALSE
        BY <1>2, EmptySeq DEF ReadInv, LinesOwn, n
      <4> QED
        BY <1>1, <3>2, <4>1 DEF Quiet, ReadInv, LinesOwn, Has
    <3>3. CASE f.cmd = "commit"
      <4>1. Reply([kind |-> "ack", reg |-> AnyReg, id |-> f.id])
        BY <3>1, <3>3 DEF Obey
      <4> QED
        BY <1>7, <4>1
    <3>4. CASE f.cmd = "read"
      <4>1. \/ Reply([kind |-> "line", reg |-> f.reg, id |-> f.id]) \/ Reply(Error779)
        BY <3>1, <3>4 DEF Obey
      <4>2. ~Concludes(f) /\ Error779.kind = "779"
        BY <3>4 DEF Concludes, Error779
      <4> QED
        BY <1>7, <1>8, <3>4, <4>1, <4>2
    <3>5. CASE f.cmd \in {"open", "payload"} /\ Reply(Error779)
      <4>1. ~Concludes(f) /\ Error779.kind = "779"
        BY <3>5 DEF Concludes, Error779
      <4> QED
        BY <1>7, <1>8, <3>5, <4>1
    <3> QED
      BY <3>1, <3>2, <3>3, <3>4, <3>5 DEF Obey
  <2> QED
    BY <2>1, <2>2
<1> QED
  BY <1>5, <1>6, <1>9 DEF ReadInv

LEMMA NextReadInv ==
  ASSUME TimelyController, ~UseAbortToken, MaxCancels = 0, MaxDrops = 0
  PROVE  SInv /\ ReadInv /\ PeekSeesAll /\ [Next]_vars /\ [~GarblesAbort]_vars => ReadInv'
<1> SUFFICES ASSUME SInv, ReadInv, PeekSeesAll, [Next]_vars, [~GarblesAbort]_vars
             PROVE  ReadInv'
  OBVIOUS
<1>1. /\ Base /\ NeverKeepsAck /\ TypeOK /\ token \in [Task -> BOOLEAN]
      /\ faults \in [cancel : 0..MaxCancels, desync : 0..MaxDesyncs, drop : 0..MaxDrops]
  BY DEF SInv, LInv, IInv, Base, TypeOK
<1>2. faults.drop = 0 /\ faults.cancel = 0
  BY <1>1
<1>3. ~LinkLost /\ \A t \in Task : ~Cancel(t) /\ ~FirstSendFails(t) /\ ~SetToken(t)
  BY <1>2 DEF LinkLost, Cancel, FirstSendFails, SetToken
<1>4. ASSUME UNCHANGED <<tx, rx, got>>, token' = token \/ \E t \in Task :
                token' = [token EXCEPT ![t] = FALSE],
             \/ UNCHANGED <<Stage, Own>>
             \/ Stage = "idle" /\ Stage' = "ready"
      PROVE  ReadInv'
  <2>1. NoToken' /\ OwnReply'
    BY <1>1, <1>4 DEF ReadInv, NoToken, OwnReply
  <2>2. CASE UNCHANGED <<Stage, Own>>
    BY <1>4, <2>1, <2>2 DEF ReadInv, LastAnswers, LinesOwn, Has
  <2>3. CASE Stage = "idle" /\ Stage' = "ready"
    BY <1>4, <2>1, <2>3 DEF ReadInv, LastAnswers, LinesOwn, Has
  <2> QED
    BY <1>4, <2>1, <2>2, <2>3
<1>5. ASSUME NEW t \in Task, Invoke(t)
      PROVE  ReadInv'
  <2>1. OthersStep
    BY <1>1, <1>5, OthersView
  <2>2. UNCHANGED <<tx, rx, got>> /\ token' = [token EXCEPT ![t] = FALSE]
    BY <1>5 DEF Invoke
  <2> QED
    BY <1>4, <2>1, <2>2 DEF OthersStep
<1>6. CASE UNCHANGED vars
  BY <1>4, <1>6 DEF vars, Stage, Own
<1>7. CASE (Controller \/ Garbled) /\ ~UNCHANGED vars
  BY <1>7, ArrivalReads
<1> QED
  BY <1>2, <1>3, <1>5, <1>6, <1>7, HolderReads DEF Next

\* OwnReply: a query returns the reply to its own command, not a late one to another,
\* if the controller answers before a deadline ends, no call is cut short, the link
\* holds and every abort gets through; writes, their aborts and the recoveries from a
\* 779 may come in between.
THEOREM QueryGetsOwnReply ==
  ASSUME TimelyController, ~UseAbortToken, MaxCancels = 0, MaxDrops = 0
  PROVE  Spec /\ []PeekSeesAll /\ [][~GarblesAbort]_vars => []OwnReply
<1>1. Init => SInv /\ ReadInv
  <2>1. Init => ReadInv
    BY DEF Init, ReadInv, LastAnswers, LinesOwn, NoToken, OwnReply, Has
  <2> QED
    BY <2>1, InitSInv
<1>2. /\ SInv /\ ReadInv /\ PeekSeesAll /\ [Next]_vars /\ [~GarblesAbort]_vars
      => SInv' /\ ReadInv'
  BY NextSInv, NextReadInv
<1>3. ReadInv => OwnReply
  BY DEF ReadInv
<1> QED
  BY <1>1, <1>2, <1>3, PTL DEF Spec
=============================================================================

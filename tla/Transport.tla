----------------------------- MODULE Transport -----------------------------
(***************************************************************************)
(* LuxtronikTransport (transport.py): one serial port, shared by every     *)
(* task of the event loop under an asyncio.Lock.  A query sends one        *)
(* command and reads until its reply is there; a write is a handshake of   *)
(* three frames (open, payload, 999) with pauses in between.               *)
(*                                                                         *)
(* One action is the code between two suspension points of a coroutine.    *)
(* The other end of the line, the heat pump's controller, is external: it  *)
(* follows the protocol described at the head of protocol.py.              *)
(*                                                                         *)
(* A frame and a reply are records; the bytes, the wording and the         *)
(* assembly of a reply from chunks are left to a module of their own.      *)
(***************************************************************************)
EXTENDS Naturals, Sequences

CONSTANTS
  Task,              \* tasks of the event loop that call the transport
  Reg,               \* controller blocks that are read and written
  NoTask, AnyReg,    \* null values
  Kinds,             \* which of the public operations are called
  RawCommands,       \* what else than the command of a read a query is given
  MaxOps,            \* bound: number of calls
  PeekItems,         \* replies that a read of 256 bytes can hold
  UseAbortToken,     \* callers of execute_write pass an abort_token
  TimelyController,  \* replies are there before a pause or a deadline ends
  MaxCancels,        \* bound: calls that are cancelled
  MaxDesyncs,        \* bound: frames received garbled, and RawCommands sent
  MaxDrops           \* bound: times the link is lost

ASSUME NullAssumption == NoTask \notin Task /\ AnyReg \notin Reg
ASSUME KindsAssumption ==
  /\ Kinds \subseteq {"read", "write", "connect", "close"}
  /\ RawCommands \subseteq {"open", "payload", "commit", "cancel"}
ASSUME BoundAssumption ==
  /\ MaxOps \in Nat /\ PeekItems \in Nat \ {0}
  /\ MaxCancels \in Nat /\ MaxDesyncs \in Nat /\ MaxDrops \in Nat
  /\ UseAbortToken \in BOOLEAN /\ TimelyController \in BOOLEAN

VARIABLES
  \* the program
  holder, waiters,   \* _lock: who holds it, who queues for it
  pc,                \* suspension point of each task
  work,              \* the call each task is in
  res,               \* how a call that is being cleaned up will end
  token,             \* abort_token.is_set()
  writer,            \* _writer: none, open, or is_closing() (closed, failed)
  connected,         \* _connected
  \* the line and the controller
  tx, rx,            \* frames on their way; bytes in the StreamReader
  session,           \* the write session the controller has open
  applied,           \* calls whose values the controller has taken over
  \* history
  calls,             \* number of calls so far
  outcome,           \* how each call ended
  got,               \* the call whose reply a query accepted
  saw779,            \* calls that read a 779
  committed,         \* writes that sent the 999 of their handshake
  last,              \* the last frame sent
  lastEnded,         \* the last call that gave the lock back
  faults             \* cancellations, desyncs and link losses so far

lockVars == <<holder, waiters>>
portVars == <<writer, connected>>
ctrlVars == <<session, applied>>
histVars == <<calls, got, saw779, committed>>
vars == <<holder, waiters, pc, work, res, token, writer, connected, tx, rx,
          session, applied, calls, outcome, got, saw779, committed, last,
          lastEnded, faults>>

----------------------------------------------------------------------------
CallId == 1..MaxOps

Commands == {"none", "read", "open", "payload", "commit", "cancel"}

Frames == [cmd : Commands, reg : Reg \cup {AnyReg}, id : 0..MaxOps]

Replies == [kind : {"line", "ack", "779"}, reg : Reg \cup {AnyReg}, id : 0..MaxOps]

\* id: the write that opened it; staged: the write whose payload it holds, or 0
Sessions == [reg : Reg \cup {AnyReg}, id : 0..MaxOps, staged : 0..MaxOps]

\* first: the command that a query sends
Calls == [kind : {"none", "read", "write", "connect", "close"}, first : Commands,
          reg : Reg \cup {AnyReg}, id : 0..MaxOps]

\* "acked" and "ok" both return normally; "acked" has seen 993/999.
\* "aborted" is the silent return after the abort token.
Outcomes == {"none", "ok", "acked", "aborted", "error", "cancelled"}

NoFrame == [cmd |-> "none", reg |-> AnyReg, id |-> 0]
NoSession == [reg |-> AnyReg, id |-> 0, staged |-> 0]
NoCall == [kind |-> "none", first |-> "none", reg |-> AnyReg, id |-> 0]
Error779 == [kind |-> "779", reg |-> AnyReg, id |-> 0]

\* Suspension points at which the task holds the lock.
Holding == {"ready", "reading", "opened", "paid", "committing",
            "aborting", "recovering", "closing"}

Init ==
  /\ holder = NoTask /\ waiters = <<>>
  /\ pc = [t \in Task |-> "idle"]
  /\ work = [t \in Task |-> NoCall]
  /\ res = [t \in Task |-> "none"]
  /\ token = [t \in Task |-> FALSE]
  /\ writer = "none" /\ connected = FALSE
  /\ tx = <<>> /\ rx = <<>>
  /\ session = NoSession /\ applied = {}
  /\ calls = 0
  /\ outcome = [i \in CallId |-> "none"]
  /\ got = [i \in CallId |-> 0]
  /\ saw779 = {} /\ committed = {}
  /\ last = NoFrame /\ lastEnded = NoCall
  /\ faults = [cancel |-> 0, desync |-> 0, drop |-> 0]

----------------------------------------------------------------------------
(* The lock: asyncio.Lock hands over to the first waiter on release. *)

\* Mutant: no lock is taken.
AcquireNothing(t) ==
  holder' = t /\ waiters' = waiters /\ pc' = [pc EXCEPT ![t] = "ready"]

\* acquire: take the free lock or queue for it.
Acquire(t) ==
  IF holder = NoTask
  THEN holder' = t /\ waiters' = waiters /\ pc' = [pc EXCEPT ![t] = "ready"]
  ELSE holder' = holder /\ waiters' = Append(waiters, t)
       /\ pc' = [pc EXCEPT ![t] = "waiting"]

\* async_send_raw hands any command to query.
Firsts(k) == IF k = "read" THEN {"read"} \cup RawCommands ELSE {"none"}

\* A caller starts one of the public operations.
Invoke(t) ==
  /\ pc[t] = "idle" /\ calls < MaxOps
  /\ calls' = calls + 1
  /\ \E k \in Kinds : \E c \in Firsts(k) :
       /\ \E r \in (IF k \in {"read", "write"} THEN Reg ELSE {AnyReg}) :
            work' = [work EXCEPT ![t] = [kind |-> k, first |-> c, reg |-> r, id |-> calls']]
       /\ IF c \in RawCommands
          THEN faults.desync < MaxDesyncs /\ faults' = [faults EXCEPT !.desync = @ + 1]
          ELSE faults' = faults
  /\ token' = [token EXCEPT ![t] = FALSE]
  /\ Acquire(t)
  /\ UNCHANGED <<res, portVars, tx, rx, ctrlVars, outcome, got, saw779,
                 committed, last, lastEnded>>

\* Mutant: the lock goes to the last waiter.
ReleaseToLast(t) ==
  /\ lastEnded' = work[t]
  /\ IF waiters = <<>>
     THEN holder' = NoTask /\ waiters' = waiters /\ pc' = [pc EXCEPT ![t] = "idle"]
     ELSE LET n == Len(waiters) IN
          /\ holder' = waiters[n] /\ waiters' = SubSeq(waiters, 1, n - 1)
          /\ pc' = [pc EXCEPT ![t] = "idle", ![waiters[n]] = "ready"]

\* Leaving "async with self._lock".
Release(t) ==
  /\ lastEnded' = work[t]
  /\ IF waiters = <<>>
     THEN holder' = NoTask /\ waiters' = waiters /\ pc' = [pc EXCEPT ![t] = "idle"]
     ELSE holder' = Head(waiters) /\ waiters' = Tail(waiters)
          /\ pc' = [pc EXCEPT ![t] = "idle", ![Head(waiters)] = "ready"]

\* Mutant: the call ends without leaving the lock.
FinishLocked(t, r) ==
  /\ lastEnded' = work[t] /\ UNCHANGED lockVars
  /\ pc' = [pc EXCEPT ![t] = "idle"]
  /\ outcome' = [outcome EXCEPT ![work[t].id] = r]

Finish(t, r) ==
  /\ Release(t)
  /\ outcome' = [outcome EXCEPT ![work[t].id] = r]

Goto(t, p) ==
  /\ pc' = [pc EXCEPT ![t] = p]
  /\ UNCHANGED <<lockVars, lastEnded, outcome>>

----------------------------------------------------------------------------
(* The port. *)

\* Mutant: the frame is numbered as if it were the next call's.
FrameOfNextCall(t, c, r) == [cmd |-> c, reg |-> r, id |-> calls + 1]

Frame(t, c, r) == [cmd |-> c, reg |-> r, id |-> work[t].id]

Send(f) == tx' = Append(tx, f) /\ last' = f

Silent == UNCHANGED <<tx, last>>

\* The test at the head of _ensure_locked.
Usable == connected /\ writer = "open"

\* _ensure_locked with an open_serial_connection that succeeds.
EnsureOpen ==
  /\ writer' = "open" /\ connected' = TRUE
  /\ rx' = IF Usable THEN rx ELSE <<>>

\* Mutant: an error path that forgets to close.
RaiseWithoutClosing(t, r) == Finish(t, r) /\ UNCHANGED <<portVars, rx, res>>

\* _close_locked, then end the call with r.  Only the close of an open
\* writer waits (wait_closed).
CloseThen(t, r) ==
  /\ rx' = <<>>
  /\ IF writer = "open"
     THEN /\ writer' = "closed" /\ connected' = connected
          /\ res' = [res EXCEPT ![t] = r]
          /\ Goto(t, "closing")
     ELSE /\ writer' = "none" /\ connected' = FALSE
          /\ res' = res
          /\ Finish(t, r)

Closed(t) ==
  /\ pc[t] = "closing"
  /\ writer' = "none" /\ connected' = FALSE /\ rx' = <<>>
  /\ Finish(t, res[t])
  /\ Silent
  /\ UNCHANGED <<work, res, token, ctrlVars, histVars, faults>>

\* Mutant: the abort goes straight to its 999.
AbortWithoutCancel(t, r) ==
  /\ UNCHANGED portVars /\ Silent
  /\ IF writer = "open"
     THEN res' = [res EXCEPT ![t] = r] /\ Goto(t, "aborting")
     ELSE res' = res /\ Finish(t, r)

\* Mutant: the write raises and leaves its session open.
AbortNothing(t, r) == UNCHANGED portVars /\ Silent /\ res' = res /\ Finish(t, r)

\* _abort_locked up to its pause, for a call that will end with r.
AbortThen(t, r) ==
  /\ UNCHANGED portVars
  /\ IF writer = "open"
     THEN /\ Send(Frame(t, "cancel", work[t].reg))
          /\ res' = [res EXCEPT ![t] = r]
          /\ Goto(t, "aborting")
     ELSE Silent /\ res' = res /\ Finish(t, r)

\* The rest of _abort_locked: 999, a failure of which is swallowed.
SendFinal999(t) ==
  IF writer = "open" THEN Send(Frame(t, "commit", AnyReg)) ELSE Silent

Aborted(t) ==
  /\ pc[t] = "aborting"
  /\ SendFinal999(t)
  /\ Finish(t, res[t])
  /\ UNCHANGED <<work, res, token, portVars, rx, ctrlVars, histVars, faults>>

----------------------------------------------------------------------------
(* async_connect and async_close *)

Connect(t) ==
  /\ pc[t] = "ready" /\ work[t].kind = "connect"
  /\ \/ connected /\ Finish(t, "ok") /\ UNCHANGED <<portVars, rx>>
     \/ /\ ~connected
        /\ writer' = "open" /\ connected' = TRUE /\ rx' = <<>>
        /\ Finish(t, "ok")
     \/ ~connected /\ Finish(t, "error") /\ UNCHANGED <<portVars, rx>>
  /\ Silent
  /\ UNCHANGED <<work, res, token, ctrlVars, histVars, faults>>

Close(t) ==
  /\ pc[t] = "ready" /\ work[t].kind = "close"
  /\ CloseThen(t, "ok")
  /\ Silent
  /\ UNCHANGED <<work, token, ctrlVars, histVars, faults>>

----------------------------------------------------------------------------
(* query and the first frame of execute_write *)

Start(t) ==
  /\ pc[t] = "ready"
  /\ EnsureOpen
  /\ \/ /\ work[t].kind = "read"
        /\ Send(Frame(t, work[t].first, work[t].reg))
        /\ Goto(t, "reading")
     \/ /\ work[t].kind = "write"
        /\ Send(Frame(t, "open", work[t].reg))
        /\ Goto(t, "opened")
  /\ UNCHANGED <<work, res, token, ctrlVars, histVars, faults>>

\* The port cannot be reopened.
OpenFails(t) ==
  /\ pc[t] = "ready" /\ work[t].kind \in {"read", "write"}
  /\ ~Usable
  /\ writer' = "none" /\ connected' = FALSE /\ rx' = <<>>
  /\ Finish(t, "error")
  /\ Silent
  /\ UNCHANGED <<work, res, token, ctrlVars, histVars, faults>>

\* The link is lost while the first frame is written: drain raises.
FirstSendFails(t) ==
  /\ pc[t] = "ready" /\ work[t].kind \in {"read", "write"}
  /\ faults.drop < MaxDrops
  /\ faults' = [faults EXCEPT !.drop = @ + 1]
  /\ writer' = "none" /\ connected' = FALSE /\ rx' = <<>>
  /\ Finish(t, "error")
  /\ Silent
  /\ UNCHANGED <<work, res, token, ctrlVars, histVars>>

Has(chunk, kind) == \E i \in DOMAIN chunk : chunk[i].kind = kind

Saw(t, chunk) ==
  saw779' = IF Has(chunk, "779") THEN saw779 \cup {work[t].id} ELSE saw779

\* The lines of a chunk that answer the query's command; no command of a write
\* is answered by a line.
Matches(t, chunk) ==
  {i \in DOMAIN chunk :
     work[t].first = "read" /\ chunk[i].kind = "line" /\ chunk[i].reg = work[t].reg}

\* Mutant: the port is closed without the abort.
CloseOnly(t) == CloseThen(t, "error") /\ Silent

\* _recover_from_desync_locked up to the pause of its abort.
Recover(t) ==
  \/ /\ writer = "open"
     /\ Send(Frame(t, "cancel", AnyReg))
     /\ Goto(t, "recovering")
     /\ rx' = <<>> /\ UNCHANGED <<res, portVars>>
  \/ /\ writer = "closed"
     /\ CloseThen(t, "error") /\ Silent

\* One round of _read_until_complete: 779 comes before completeness, and the
\* first line with the right command is the one the client decodes.
ReadChunk(t) ==
  /\ pc[t] = "reading" /\ writer \in {"open", "closed"} /\ rx # <<>>
  /\ Saw(t, rx)
  /\ \/ Has(rx, "779") /\ Recover(t) /\ UNCHANGED got
     \/ /\ ~Has(rx, "779") /\ Matches(t, rx) # {}
        /\ \E i \in Matches(t, rx) :
             /\ \A j \in Matches(t, rx) : i <= j
             /\ got' = [got EXCEPT ![work[t].id] = rx[i].id]
        /\ Finish(t, "ok")
        /\ Silent /\ rx' = <<>> /\ UNCHANGED <<res, portVars>>
     \/ /\ ~Has(rx, "779") /\ Matches(t, rx) = {}
        /\ Goto(t, "reading")
        /\ Silent /\ rx' = <<>> /\ UNCHANGED <<got, res, portVars>>
  /\ UNCHANGED <<work, token, ctrlVars, calls, committed, faults>>

\* A timely controller has dealt with everything sent before a timer fires.
InTime == TimelyController => tx = <<>>

\* Mutant: the read has no deadline.
ReadWaitsForever(t) ==
  /\ pc[t] = "reading"
  /\ writer = "failed" \/ (writer = "closed" /\ rx = <<>>)
  /\ CloseThen(t, "error")
  /\ Silent
  /\ UNCHANGED <<work, token, ctrlVars, histVars, faults>>

\* Read error, end of file, or no complete reply within the limits.
ReadFails(t) ==
  /\ pc[t] = "reading"
  /\ \/ writer = "failed"
     \/ writer = "closed" /\ rx = <<>>
     \/ InTime /\ (TimelyController => rx = <<>>)
  /\ CloseThen(t, "error")
  /\ Silent
  /\ UNCHANGED <<work, token, ctrlVars, histVars, faults>>

\* The rest of _recover_from_desync_locked: 999, then close.
Recovered(t) ==
  /\ pc[t] = "recovering"
  /\ SendFinal999(t)
  /\ CloseThen(t, "error")
  /\ UNCHANGED <<work, token, ctrlVars, histVars, faults>>

----------------------------------------------------------------------------
(* The rest of execute_write *)

Chunk256 == SubSeq(rx, 1, IF Len(rx) < PeekItems THEN Len(rx) ELSE PeekItems)

\* Mutant: the peek leaves what it has read in the buffer.
PeekConsumesNothing == rx

Rest256 == SubSeq(rx, Len(Chunk256) + 1, Len(rx))

\* The frame after a pause, and where it leads.
NextFrame(t) ==
  IF pc[t] = "opened" THEN Frame(t, "payload", work[t].reg)
                      ELSE Frame(t, "commit", AnyReg)
NextPc(t) == IF pc[t] = "opened" THEN "paid" ELSE "committing"
Commits(t) ==
  committed' = IF pc[t] = "paid" THEN committed \cup {work[t].id} ELSE committed

\* After the pause of 2 s: abort token, peek for 779, next frame.
PauseEndsAborted(t) ==
  /\ pc[t] \in {"opened", "paid"} /\ InTime
  /\ token[t]
  /\ AbortThen(t, "aborted")
  /\ UNCHANGED <<work, token, rx, ctrlVars, histVars, faults>>

\* read() raises in the peek: nothing catches it and the port is not closed.
PeekRaises(t) ==
  /\ pc[t] \in {"opened", "paid"} /\ InTime
  /\ ~token[t] /\ writer = "failed"
  /\ Finish(t, "error")
  /\ Silent
  /\ UNCHANGED <<work, res, token, portVars, rx, ctrlVars, histVars, faults>>

PeekSees779(t) ==
  /\ pc[t] \in {"opened", "paid"} /\ InTime
  /\ ~token[t] /\ writer # "failed" /\ Has(Chunk256, "779")
  /\ Saw(t, Chunk256) /\ rx' = Rest256
  /\ AbortThen(t, "error")
  /\ UNCHANGED <<work, token, ctrlVars, calls, got, committed, faults>>

SendNext(t) ==
  /\ pc[t] \in {"opened", "paid"} /\ InTime
  /\ ~token[t] /\ writer # "failed" /\ ~Has(Chunk256, "779")
  /\ \/ /\ writer = "open"
        /\ rx' = Rest256
        /\ Send(NextFrame(t)) /\ Commits(t)
        /\ Goto(t, NextPc(t))
        /\ UNCHANGED <<res, portVars>>
     \/ /\ writer # "open"
        /\ CloseThen(t, "error")
        /\ Silent /\ UNCHANGED committed
  /\ UNCHANGED <<work, token, ctrlVars, calls, got, saw779, faults>>

\* _await_commit reads on until 993/999; a 779 is not looked for.
AwaitChunk(t) ==
  /\ pc[t] = "committing" /\ writer \in {"open", "closed"} /\ rx # <<>>
  /\ Saw(t, Chunk256) /\ rx' = Rest256
  /\ IF Has(Chunk256, "ack") THEN Finish(t, "acked") ELSE Goto(t, "committing")
  /\ Silent
  /\ UNCHANGED <<work, res, token, portVars, ctrlVars, calls, got, committed, faults>>

\* End of file or the deadline of 5 s: the write counts as done.
AwaitEnds(t) ==
  /\ pc[t] = "committing"
  /\ \/ writer = "closed" /\ rx = <<>>
     \/ writer \in {"open", "closed"} /\ InTime /\ (TimelyController => rx = <<>>)
  /\ Finish(t, "ok")
  /\ Silent
  /\ UNCHANGED <<work, res, token, portVars, rx, ctrlVars, histVars, faults>>

\* A read error closes the port, so the abort that follows does nothing.
AwaitRaises(t) ==
  /\ pc[t] = "committing" /\ writer = "failed"
  /\ CloseThen(t, "error")
  /\ Silent
  /\ UNCHANGED <<work, token, ctrlVars, histVars, faults>>

AwaitAborted(t) ==
  /\ pc[t] = "committing" /\ token[t]
  /\ AbortThen(t, "error")
  /\ UNCHANGED <<work, token, rx, ctrlVars, histVars, faults>>

----------------------------------------------------------------------------
(* What the callers and the line do to a call. *)

SetToken(t) ==
  /\ UseAbortToken /\ pc[t] # "idle" /\ work[t].kind = "write" /\ ~token[t]
  /\ token' = [token EXCEPT ![t] = TRUE]
  /\ UNCHANGED <<lockVars, pc, work, res, portVars, tx, rx, ctrlVars,
                 histVars, outcome, last, lastEnded, faults>>

WithoutWaiter(i) == SubSeq(waiters, 1, i - 1) \o SubSeq(waiters, i + 1, Len(waiters))

\* CancelledError leaves the "async with" and is caught nowhere on the way.
Cancel(t) ==
  /\ pc[t] # "idle"
  /\ faults.cancel < MaxCancels
  /\ faults' = [faults EXCEPT !.cancel = @ + 1]
  /\ IF pc[t] = "waiting"
     THEN /\ \E i \in DOMAIN waiters :
               waiters[i] = t /\ waiters' = WithoutWaiter(i)
          /\ pc' = [pc EXCEPT ![t] = "idle"]
          /\ outcome' = [outcome EXCEPT ![work[t].id] = "cancelled"]
          /\ UNCHANGED <<holder, lastEnded>>
     ELSE Finish(t, "cancelled")
  /\ Silent
  /\ UNCHANGED <<work, res, token, portVars, rx, ctrlVars, histVars>>

\* The link is lost, with or without an exception for the reader; frames
\* that have not arrived may be lost with it.
LinkLost ==
  /\ writer = "open"
  /\ faults.drop < MaxDrops
  /\ faults' = [faults EXCEPT !.drop = @ + 1]
  /\ writer' \in {"closed", "failed"}
  /\ \E n \in 0..Len(tx) : tx' = SubSeq(tx, 1, n)
  /\ UNCHANGED <<lockVars, pc, work, res, token, connected, rx, ctrlVars,
                 histVars, outcome, last, lastEnded>>

----------------------------------------------------------------------------
(* The controller (external), as protocol.py describes it. *)

Reply(m) == rx' = IF writer = "open" THEN Append(rx, m) ELSE rx

Quiet == rx' = rx

\* A command that does not fit the session is answered with 779.
Obey(f) ==
  \/ /\ f.cmd = "read"
     /\ Reply(IF session = NoSession
              THEN [kind |-> "line", reg |-> f.reg, id |-> f.id] ELSE Error779)
     /\ UNCHANGED ctrlVars
  \/ /\ f.cmd = "open" /\ session = NoSession
     /\ session' = [reg |-> f.reg, id |-> f.id, staged |-> 0]
     /\ Quiet /\ UNCHANGED applied
  \/ /\ f.cmd = "open" /\ session # NoSession
     /\ Reply(Error779) /\ UNCHANGED ctrlVars
  \/ /\ f.cmd = "payload"
     /\ IF session.reg = f.reg /\ session.staged = 0
        THEN session' = [session EXCEPT !.staged = f.id] /\ Quiet
        ELSE session' = session /\ Reply(Error779)
     /\ UNCHANGED applied
  \/ /\ f.cmd = "cancel"
     /\ session' = IF f.reg \in {session.reg, AnyReg} THEN NoSession ELSE session
     /\ Quiet /\ UNCHANGED applied
  \/ /\ f.cmd = "commit"
     /\ applied' = applied \cup ({session.staged} \ {0})
     /\ session' = NoSession
     /\ Reply([kind |-> "ack", reg |-> AnyReg, id |-> f.id])

Controller ==
  /\ tx # <<>> /\ tx' = Tail(tx)
  /\ Obey(Head(tx))
  /\ UNCHANGED <<lockVars, pc, work, res, token, portVars, histVars, outcome,
                 last, lastEnded, faults>>

\* The controller cannot make sense of a frame.
Garbled ==
  /\ tx # <<>> /\ tx' = Tail(tx)
  /\ faults.desync < MaxDesyncs
  /\ faults' = [faults EXCEPT !.desync = @ + 1]
  /\ Reply(Error779)
  /\ UNCHANGED <<lockVars, pc, work, res, token, portVars, ctrlVars, histVars,
                 outcome, last, lastEnded>>

----------------------------------------------------------------------------
\* The steps the event loop owes a task that holds the lock.
Step(t) ==
  \/ Connect(t) \/ Close(t) \/ Closed(t)
  \/ Start(t) \/ OpenFails(t)
  \/ ReadChunk(t) \/ ReadFails(t) \/ Recovered(t)
  \/ PauseEndsAborted(t) \/ PeekRaises(t) \/ PeekSees779(t) \/ SendNext(t)
  \/ AwaitChunk(t) \/ AwaitEnds(t) \/ AwaitRaises(t) \/ AwaitAborted(t)
  \/ Aborted(t)

Next ==
  \/ \E t \in Task :
       Invoke(t) \/ Step(t) \/ FirstSendFails(t) \/ SetToken(t) \/ Cancel(t)
  \/ LinkLost \/ Controller \/ Garbled

Spec == Init /\ [][Next]_vars

\* Every await has a timeout and the loop runs what is ready.  Nothing is
\* asked of the controller.
FairSpec == Spec /\ \A t \in Task : WF_vars(Step(t))

----------------------------------------------------------------------------
(* Properties *)

\* Every variable has its type.
TypeOK ==
  /\ holder \in Task \cup {NoTask} /\ waiters \in Seq(Task)
  /\ pc \in [Task -> {"idle", "waiting"} \cup Holding]
  /\ work \in [Task -> Calls]
  /\ res \in [Task -> Outcomes]
  /\ token \in [Task -> BOOLEAN]
  /\ writer \in {"none", "open", "closed", "failed"} /\ connected \in BOOLEAN
  /\ tx \in Seq(Frames) /\ rx \in Seq(Replies)
  /\ session \in Sessions /\ applied \subseteq CallId
  /\ calls \in 0..MaxOps
  /\ outcome \in [CallId -> Outcomes]
  /\ got \in [CallId -> 0..MaxOps]
  /\ saw779 \subseteq CallId /\ committed \subseteq CallId
  /\ last \in Frames /\ lastEnded \in Calls
  /\ faults \in [cancel : 0..MaxCancels, desync : 0..MaxDesyncs, drop : 0..MaxDrops]

\* The lock: exactly the holder is between acquire and release, exactly the
\* waiting tasks are queued, each once, and nobody queues for a free lock.
LockInv ==
  /\ \A t \in Task : pc[t] \in Holding <=> holder = t
  /\ \A t \in Task : pc[t] = "waiting" <=> \E i \in DOMAIN waiters : waiters[i] = t
  /\ \A i, j \in DOMAIN waiters : waiters[i] = waiters[j] => i = j
  /\ holder = NoTask => waiters = <<>>

\* The frame a task at each suspension point has sent last.
LastSent ==
  [opened |-> "open", paid |-> "payload",
   committing |-> "commit", aborting |-> "cancel", recovering |-> "cancel"]
Sending == {"reading"} \cup DOMAIN LastSent
LastCmd(t) == IF pc[t] = "reading" THEN work[t].first ELSE LastSent[pc[t]]

\* No frame of another call gets between the frames of a handshake or between
\* a command and its reply, whatever is cancelled or lost on the way, and the
\* handshake's own frames go out in order (the lock around query and
\* execute_write).
UnbrokenHandshake ==
  \A t \in Task : pc[t] \in Sending =>
    last.id = work[t].id /\ last.cmd = LastCmd(t)

\* A write that has seen 993/999 has been applied, even if an abort of an
\* earlier call has left acknowledgements behind (the peeks empty the buffer).
AckedMeansApplied ==
  \A i \in CallId : outcome[i] = "acked" => i \in applied

\* The controller never takes over values by a 999 other than the one of
\* their own handshake: an abort drops what a broken-off write has staged.
AppliedByOwnCommit == applied \subseteq committed

\* A query returns the reply to its own command.
OwnReply == \A i \in CallId : got[i] \in {0, i}

\* A write that returned silently because of its abort token during a pause
\* changes nothing in the controller, then or later.
AbortedNeverApplied ==
  \A i \in CallId : outcome[i] = "aborted" => i \notin applied

\* While nothing is running or on the line, an open session belongs to a
\* write that was cancelled or whose 999 was not acknowledged: a write that
\* raised or was aborted has ended its session (unless the link was lost).
NoStrandedSession ==
  (holder = NoTask /\ tx = <<>> /\ faults.drop = 0 /\ session # NoSession)
    => outcome[session.id] \in {"cancelled", "ok"}

\* Whoever left a session open, a raw command or a write whose 999 was garbled: a
\* query that meets its 779 and raises has ended it, so the next call finds the
\* controller ready.
RecoveryEndsSession ==
  (holder = NoTask /\ tx = <<>> /\ faults.drop = 0
     /\ lastEnded.kind = "read" /\ lastEnded.id \in saw779
     /\ outcome[lastEnded.id] = "error")
    => session = NoSession

\* After a query that raised, the port stays closed until the next call has
\* the lock and reopens it: no error path of query leaves it open.
FailedReadClosesPort ==
  ((\A t \in Task : pc[t] \in {"idle", "waiting", "ready"})
     /\ lastEnded.kind = "read" /\ outcome[lastEnded.id] = "error")
    => writer = "none" /\ ~connected

\* The port as its callers see it: which calls wait, which is served, and whose
\* frame was the last.
Queue == [i \in DOMAIN waiters |-> work[waiters[i]].id]
Current == IF holder = NoTask THEN 0 ELSE work[holder].id

Line == INSTANCE SerialLine WITH
  Call <- CallId, Nobody <- 0, Result <- Outcomes \ {"none"},
  queue <- Queue, current <- Current, result <- outcome, speaker <- last.id

\* Calls are served one by one in the order in which they came, each ends once and
\* only the one that is served speaks to the controller, through every handshake,
\* recovery, cancellation and loss of the link.
ServesInOrder == Line!Spec

\* Every call ends, however the controller behaves and whatever is lost: no
\* cancellation or error path keeps the lock or loses a waiter.
EveryCallEnds == \A t \in Task : pc[t] # "idle" ~> pc[t] = "idle"

\* README, "Safety": a 779 is followed by the standard abort (0;0 and 999)
\* and a reconnect, so the port is closed when the call that saw it is over.
DesyncReconnects ==
  [][\A t \in Task :
       (pc[t] \in Holding /\ pc'[t] = "idle" /\ work[t].id \in saw779'
          /\ outcome'[work[t].id] # "cancelled")
         => writer' # "open"]_vars

\* CHANGELOG: a 779 surfaces as an error, so no call that has read one
\* reports success.
DesyncNeverSucceeds ==
  \A i \in saw779 : outcome[i] \notin {"ok", "acked"}

\* _peek_for_desync_locked: "Return True if the controller has signalled 779
\* in the read buffer", so a handshake only goes on without one.
PeekSeesBuffered779 ==
  [][\A t \in Task :
       (pc[t] = "opened" /\ pc'[t] = "paid") => ~Has(rx, "779")]_vars
=============================================================================

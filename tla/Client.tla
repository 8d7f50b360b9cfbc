------------------------------- MODULE Client -------------------------------
(***************************************************************************)
(* LuxtronikClient (client.py): writes are serialised by _write_lock and   *)
(* spaced by a cooldown; a setter of some fields of a block reads the      *)
(* block, changes it and writes it back.  Polls share the transport's lock *)
(* with them, but not the write lock.                                      *)
(*                                                                         *)
(* A query and a handshake of the transport are steps at the instants at   *)
(* which something happens on the line; module Transport has what happens  *)
(* in between.  Time is relative: timers run down, ages run up to the      *)
(* cooldown.                                                               *)
(***************************************************************************)
EXTENDS Naturals, Sequences

CONSTANTS
  Task, NoTask,   \* tasks of the event loop; null
  Field,          \* fields of the block that patches change
  Kinds,          \* which operations are called
  PollReads,      \* queries of one poll
  Cooldown,       \* WRITE_COOLDOWN
  Pause,          \* the pause after a frame of a handshake
  CommitWait,     \* the deadline of _await_commit
  ReadMax,        \* the longest that a query takes
  MaxOps,         \* bound: number of calls
  MaxFaults       \* bound: cancellations and link losses

ASSUME TaskAssumption == NoTask \notin Task
ASSUME KindsAssumption == Kinds \subseteq {"plain", "patch", "raw", "poll"}
ASSUME TimeAssumption ==
  /\ Cooldown \in Nat /\ Pause \in Nat /\ CommitWait \in Nat /\ ReadMax \in Nat
  /\ PollReads \in Nat \ {0} /\ MaxOps \in Nat /\ MaxFaults \in Nat

VARIABLES
  wl, pl,      \* the client's _write_lock and the transport's _lock
  pc, job,     \* of each task: where it is, and the call it is in
  ops,         \* the queries and handshakes its call has still to do
  left,        \* time until its timer fires
  snap,        \* the block as it has read it
  age,         \* time since _last_write, at most Cooldown
  openAge,     \* time since the last handshake began, at most Cooldown
  block,       \* the controller's block: the call each field comes from
  session,     \* the controller's write session
  calls, superseded, faults   \* history: calls, old values, faults so far

vars == <<wl, pl, pc, job, ops, left, snap, age, openAge, block, session,
          calls, superseded, faults>>

CallId == 1..MaxOps
Block == [Field -> 0..MaxOps]
Initial == [f \in Field |-> 0]

Free == [holder |-> NoTask, queue |-> <<>>]
NoJob == [kind |-> "none", want |-> {}, id |-> 0]
NoSession == [kind |-> "none", staged |-> FALSE, data |-> Initial]

Init ==
  /\ wl = Free /\ pl = Free
  /\ pc = [t \in Task |-> "idle"] /\ job = [t \in Task |-> NoJob]
  /\ ops = [t \in Task |-> <<>>] /\ left = [t \in Task |-> 0]
  /\ snap = [t \in Task |-> Initial]
  /\ age = Cooldown /\ openAge = Cooldown
  /\ block = Initial /\ session = NoSession
  /\ calls = 0 /\ superseded = {} /\ faults = 0

----------------------------------------------------------------------------
(* Locks: first come, first served. *)

\* Mutant: nobody waits for a lock.
NotAcquired(l, t) == [l EXCEPT !.holder = t]

Acquired(l, t) ==
  IF l.holder = NoTask THEN [l EXCEPT !.holder = t]
  ELSE [l EXCEPT !.queue = Append(@, t)]

Released(l) ==
  IF l.queue = <<>> THEN Free
  ELSE [holder |-> Head(l.queue), queue |-> Tail(l.queue)]

\* A queue without its k-th place, and without the place of t, if it has one.
Skip(q, k) == SubSeq(q, 1, k - 1) \o SubSeq(q, k + 1, Len(q))
NotIn(q, t) ==
  IF \E k \in DOMAIN q : q[k] = t THEN Skip(q, CHOOSE k \in DOMAIN q : q[k] = t) ELSE q

\* What is left of a lock when t gives up: as its holder, or in its queue.
Without(l, t) ==
  IF l.holder = t THEN Released(l) ELSE [l EXCEPT !.queue = NotIn(@, t)]

Forget(t) ==
  /\ pc' = [pc EXCEPT ![t] = "idle"] /\ job' = [job EXCEPT ![t] = NoJob]
  /\ ops' = [ops EXCEPT ![t] = <<>>] /\ left' = [left EXCEPT ![t] = 0]
  /\ snap' = [snap EXCEPT ![t] = Initial]

\* Mutant: a call that ends keeps the write lock.
LeaveLocked(t) == wl' = wl /\ pl' = Without(pl, t) /\ Forget(t)

\* The call of t is over, normally or not.
Leave(t) == wl' = Without(wl, t) /\ pl' = Without(pl, t) /\ Forget(t)

----------------------------------------------------------------------------
(* The client's methods *)

Steps(kind) ==
  CASE kind = "plain" -> <<"write">>
    [] kind = "patch" -> <<"read", "write">>
    [] kind = "raw"   -> <<"read">>
    [] kind = "poll"  -> [n \in 1..PollReads |-> "read"]

\* A task calls a setter, set_heating_curve or set_hysteresis,
\* async_send_raw, or the coordinator polls.
Invoke(t) ==
  /\ pc[t] = "idle" /\ calls < MaxOps
  /\ calls' = calls + 1
  /\ \E k \in Kinds, w \in SUBSET Field :
       /\ w # {} <=> k = "patch"
       /\ job' = [job EXCEPT ![t] = [kind |-> k, want |-> w, id |-> calls']]
       /\ ops' = [ops EXCEPT ![t] = Steps(k)]
       /\ IF k = "poll"
          THEN pc' = [pc EXCEPT ![t] = "wantPort"] /\ pl' = Acquired(pl, t) /\ wl' = wl
          ELSE pc' = [pc EXCEPT ![t] = "wantLock"] /\ wl' = Acquired(wl, t) /\ pl' = pl
  /\ UNCHANGED <<left, snap, age, openAge, block, session, superseded, faults>>

RequestPort(t) ==
  /\ pc' = [pc EXCEPT ![t] = "wantPort"]
  /\ pl' = Acquired(pl, t)

\* The end of _respect_cooldown: _last_write is now.
Reserve(t) == age' = 0 /\ RequestPort(t) /\ UNCHANGED left

\* The write lock is there: _respect_cooldown, except for async_send_raw.
Locked(t) ==
  /\ pc[t] = "wantLock" /\ wl.holder = t
  /\ \/ /\ job[t].kind = "raw"
        /\ RequestPort(t) /\ UNCHANGED <<left, age>>
     \/ /\ job[t].kind # "raw" /\ age < Cooldown
        /\ pc' = [pc EXCEPT ![t] = "cooling"]
        /\ left' = [left EXCEPT ![t] = Cooldown - age]
        /\ UNCHANGED <<pl, age>>
     \/ /\ job[t].kind # "raw" /\ age = Cooldown
        /\ Reserve(t)
  /\ UNCHANGED <<wl, job, ops, snap, openAge, block, session, calls, superseded, faults>>

Cooled(t) ==
  /\ pc[t] = "cooling" /\ left[t] = 0
  /\ Reserve(t)
  /\ UNCHANGED <<wl, job, ops, snap, openAge, block, session, calls, superseded, faults>>

----------------------------------------------------------------------------
(* The transport: a query, or the frames of a handshake *)

AtPort(t, op) == pc[t] = "wantPort" /\ pl.holder = t /\ Head(ops[t]) = op

Wait(t, p, d) ==
  /\ pc' = [pc EXCEPT ![t] = p] /\ left' = [left EXCEPT ![t] = d]

StartRead(t) ==
  /\ AtPort(t, "read") /\ session = NoSession
  /\ Wait(t, "reading", ReadMax)
  /\ UNCHANGED <<wl, pl, job, ops, snap, age, openAge, block, session, calls,
                 superseded, faults>>

\* An open session answers 779; 0;0 and 999 end it.
ReadDesynced(t) ==
  /\ AtPort(t, "read") /\ session # NoSession
  /\ session' = NoSession
  /\ Leave(t)
  /\ UNCHANGED <<age, openAge, block, calls, superseded, faults>>

\* The reply is there; the transport's lock is free for others before the
\* next query or handshake asks for it again.
ReadDone(t) ==
  /\ pc[t] = "reading"
  /\ IF Len(ops[t]) = 1 THEN Leave(t)
     ELSE /\ snap' = [snap EXCEPT ![t] = IF job[t].kind = "patch" THEN block ELSE @]
          /\ ops' = [ops EXCEPT ![t] = Tail(@)]
          /\ pl' = Acquired(Released(pl), t)
          /\ Wait(t, "wantPort", 0)
          /\ UNCHANGED <<wl, job>>
  /\ UNCHANGED <<age, openAge, block, session, calls, superseded, faults>>

\* No complete reply within the deadline.
ReadFails(t) ==
  /\ pc[t] = "reading" /\ left[t] = 0
  /\ Leave(t)
  /\ UNCHANGED <<age, openAge, block, session, calls,
                 superseded, faults>>

\* The first frame opens a session, or meets an open one.
Open(t) ==
  /\ AtPort(t, "write")
  /\ openAge' = 0
  /\ IF session = NoSession
     THEN session' = [NoSession EXCEPT !.kind = job[t].kind] /\ Wait(t, "opened", Pause)
     ELSE session' = session /\ Wait(t, "desynced", Pause)
  /\ UNCHANGED <<wl, pl, job, ops, snap, age, block, calls, superseded, faults>>

\* Mutant: the fields that are not asked for are not taken from the block.
PayloadAnew(t) == [f \in Field |-> IF f \in job[t].want THEN job[t].id ELSE 0]

\* The whole block: the fields asked for changed, the others as read.
Payload(t) == [f \in Field |-> IF f \in job[t].want THEN job[t].id ELSE snap[t][f]]

Pay(t) ==
  /\ pc[t] = "opened" /\ left[t] = 0
  /\ session' = [session EXCEPT !.staged = TRUE, !.data = Payload(t)]
  /\ Wait(t, "paid", Pause)
  /\ UNCHANGED <<wl, pl, job, ops, snap, age, openAge, block, calls, superseded, faults>>

\* The controller takes over what is staged and ends the session (external).
TakeOver ==
  /\ block' = IF session.staged /\ session.kind = "patch" THEN session.data ELSE block
  /\ superseded' = superseded \cup
       {<<f, block[f]>> : f \in {g \in Field : block'[g] # block[g]}}
  /\ session' = NoSession

Commit(t) ==
  /\ pc[t] = "paid" /\ left[t] = 0
  /\ TakeOver
  /\ Wait(t, "committing", CommitWait)
  /\ UNCHANGED <<wl, pl, job, ops, snap, age, openAge, calls, faults>>

\* 993/999, or the end of the wait for it.
Done(t) ==
  /\ pc[t] = "committing"
  /\ Leave(t)
  /\ UNCHANGED <<age, openAge, block, session, calls,
                 superseded, faults>>

\* The peek has found 779.  <CMD>;0 drops what the session of that command
\* has staged, but 999 takes over what that of another has.
Abort(t) ==
  /\ pc[t] = "desynced" /\ left[t] = 0
  /\ IF session.kind = job[t].kind
     THEN session' = NoSession /\ UNCHANGED <<block, superseded>>
     ELSE TakeOver
  /\ Leave(t)
  /\ UNCHANGED <<age, openAge, calls, faults>>

\* A cancellation, or a link loss that makes the call raise: a session that
\* has been opened stays open.
Fail(t) ==
  /\ pc[t] # "idle" /\ faults < MaxFaults
  /\ faults' = faults + 1
  /\ Leave(t)
  /\ UNCHANGED <<age, openAge, block, session, calls, superseded>>

----------------------------------------------------------------------------
\* Mutant: an age that is compared with != instead of <.
AlwaysOlder(a) == a + 1

Older(a) == IF a < Cooldown THEN a + 1 ELSE a

Timed == {"cooling", "reading", "opened", "desynced", "paid", "committing"}

\* Time passes while no task has something to do.
Tick ==
  /\ \A t \in Task :
       /\ pc[t] \in Timed => left[t] > 0
       /\ ~(pc[t] = "wantLock" /\ wl.holder = t)
       /\ ~(pc[t] = "wantPort" /\ pl.holder = t)
  /\ \/ \E t \in Task : pc[t] \in Timed
     \/ age < Cooldown
  /\ left' = [t \in Task |-> IF pc[t] \in Timed THEN left[t] - 1 ELSE left[t]]
  /\ age' = Older(age) /\ openAge' = Older(openAge)
  /\ UNCHANGED <<wl, pl, pc, job, ops, snap, block, session, calls, superseded, faults>>

Step(t) ==
  \/ Locked(t) \/ Cooled(t)
  \/ StartRead(t) \/ ReadDesynced(t) \/ ReadDone(t) \/ ReadFails(t)
  \/ Open(t) \/ Pay(t) \/ Commit(t) \/ Done(t) \/ Abort(t)

Next == (\E t \in Task : Invoke(t) \/ Step(t) \/ Fail(t)) \/ Tick

Spec == Init /\ [][Next]_vars

\* The event loop runs what is ready and time passes.
FairSpec == Spec /\ WF_vars(Tick) /\ \A t \in Task : WF_vars(Step(t))

----------------------------------------------------------------------------
(* Properties *)

Locks == [holder : Task \cup {NoTask}, queue : Seq(Task)]

\* Every variable has its type.
TypeOK ==
  /\ wl \in Locks /\ pl \in Locks
  /\ pc \in [Task -> {"idle", "wantLock", "wantPort"} \cup Timed]
  /\ job \in [Task -> [kind : Kinds \cup {"none"}, want : SUBSET Field, id : 0..MaxOps]]
  /\ ops \in [Task -> Seq({"read", "write"})]
  /\ left \in [Task -> Nat]
  /\ snap \in [Task -> Block]
  /\ age \in 0..Cooldown /\ openAge \in 0..Cooldown
  /\ block \in Block
  /\ session \in [kind : Kinds \cup {"none"}, staged : BOOLEAN, data : Block]
  /\ calls \in 0..MaxOps /\ superseded \subseteq Field \X (0..MaxOps)
  /\ faults \in 0..MaxFaults

\* No lost update: a field never goes back to a value that another call has
\* replaced, however polls, cancellations and broken-off writes fall between
\* the read and the write of set_heating_curve (client.py:6-8).
NoLostUpdate == \A f \in Field : <<f, block[f]>> \notin superseded

\* A write reserves the cooldown only when all of the last one's is over,
\* also when the call that reserved it failed, was cancelled, or slept at the
\* same time.
ReservationsApart ==
  [][\A t \in Task :
       (pc[t] \in {"wantLock", "cooling"} /\ pc'[t] = "wantPort" /\ job[t].kind # "raw")
         => age = Cooldown]_vars

\* What the call c may still change: what its task is at, or what it has left
\* staged in the session.
Pending(c) ==
  {f \in Field :
     \/ \E t \in Task : job[t].id = c /\ pc[t] # "committing" /\ f \in job[t].want
     \/ /\ session.staged /\ session.kind = "patch"
        /\ session.data[f] = c /\ block[f] # c}

Atomic == INSTANCE AtomicBlock WITH
  Call <- CallId, pending <- [c \in CallId |-> Pending(c)], called <- 1..calls

\* A query, a handshake of three frames, two locks and an abort that may take over
\* what a cancelled call has left staged are together an update of the asked fields
\* in one step: none that changes half of them, comes twice, or takes another
\* field back or along (client.py:178-198).
UpdatesAreAtomic == Atomic!Spec

\* Whoever waits for the write lock or the port has waited long enough some
\* day: every call ends.  No task holds the port while it waits for the
\* write lock.
EveryCallEnds == \A t \in Task : pc[t] # "idle" ~> pc[t] = "idle"

\* WRITE_COOLDOWN: "seconds between consecutive writes".
WritesApart ==
  [][\A t \in Task :
       (pc[t] = "wantPort" /\ pc'[t] = "opened") => openAge = Cooldown]_vars
=============================================================================

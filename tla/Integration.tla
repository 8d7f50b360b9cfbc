---------------------------- MODULE Integration ----------------------------
(***************************************************************************)
(* The life of the config entry: __init__.py sets it up and unloads it,    *)
(* coordinator.py polls, services.py, climate.py and water_heater.py call  *)
(* the client, config_flow.py tests a port and changes the options.        *)
(*                                                                         *)
(* Every set-up makes a new coordinator with a transport of its own; calls *)
(* that are under way keep the one they have found.  All transports open   *)
(* the same serial port.  Number 0 is the transport of the config flow.    *)
(*                                                                         *)
(* Modules Transport and Client have what happens within one transport: an *)
(* operation here has its lock, then the port, and ends.                   *)
(***************************************************************************)
EXTENDS Naturals, Sequences, FiniteSets

CONSTANTS
  Task,        \* tasks that poll, or run a service or an entity's method
  Loader,      \* Home Assistant, as it sets up and unloads the entry
  Flow,        \* the config flow's task
  Nobody,      \* null
  PollReads,   \* queries of a poll
  ShutsFailed, \* Home Assistant shuts the coordinator of a failed set-up down
  MaxGens,     \* bound: number of coordinators
  MaxOps,      \* bound: number of polls, calls and flows
  MaxCancels   \* bound: calls that are cancelled

Actor == Task \cup {Loader, Flow}
Gen == 1..MaxGens
Transports == 0..MaxGens

ASSUME ActorAssumption ==
  Loader \notin Task /\ Flow \notin Task /\ Loader # Flow /\ Nobody \notin Actor
ASSUME BoundAssumption ==
  /\ ShutsFailed \in BOOLEAN /\ PollReads \in Nat \ {0}
  /\ MaxGens \in Nat \ {0} /\ MaxOps \in Nat /\ MaxCancels \in Nat

VARIABLES
  entry,     \* none (not added yet), unloaded, setup, loaded or closing
  readOnly,  \* entry.options[read_only]
  changed,   \* options or data have changed since the entry was set up
  gen,       \* the coordinator that was made last
  flag,      \* the client's _read_only, of each coordinator
  port,      \* whether each transport has the port open
  lock,      \* each transport's _lock
  pc,        \* of each actor
  at,        \* the transport it uses
  job,       \* its operation
  reads,     \* the queries it has still to do
  flow,      \* what the config flow was given, and how it ended
  ops, cancels,
  barred,    \* tasks whose call came while the entry was loaded read-only
  late       \* coordinators that were in use when they were shut down

vars == <<entry, readOnly, changed, gen, flag, port, lock, pc, at, job, reads,
          flow, ops, cancels, barred, late>>
entryVars == <<entry, readOnly, changed, gen, flag>>
histVars == <<ops, cancels, barred, late>>

Free == [holder |-> Nobody, queue |-> <<>>]
NoFlow == [input |-> "none", result |-> "none"]

Init ==
  /\ entry \in {"none", "unloaded"} /\ readOnly = TRUE /\ changed = FALSE /\ gen = 0
  /\ flag = [g \in Transports |-> FALSE]
  /\ port = [g \in Transports |-> FALSE]
  /\ lock = [g \in Transports |-> Free]
  /\ pc = [a \in Actor |-> "idle"]
  /\ at = [a \in Actor |-> 0] /\ job = [a \in Actor |-> "none"]
  /\ reads = [a \in Actor |-> 0]
  /\ flow = NoFlow
  /\ ops = 0 /\ cancels = 0 /\ barred = {} /\ late = {}

----------------------------------------------------------------------------
(* A transport's lock and port *)

Acquired(l, a) ==
  IF l.holder = Nobody THEN [l EXCEPT !.holder = a]
  ELSE [l EXCEPT !.queue = Append(@, a)]

\* Mutant: leaving the lock does not let the next one in.
ReleasedToNobody(l) == [l EXCEPT !.holder = Nobody]

Released(l) ==
  IF l.queue = <<>> THEN Free ELSE [holder |-> Head(l.queue), queue |-> Tail(l.queue)]

\* Mutant: one query too many.
RequestMore(a, g, j, n) ==
  /\ pc' = [pc EXCEPT ![a] = "want"]
  /\ at' = [at EXCEPT ![a] = g]
  /\ job' = [job EXCEPT ![a] = j]
  /\ reads' = [reads EXCEPT ![a] = n + 1]
  /\ lock' = [lock EXCEPT ![g] = Acquired(@, a)]

\* a asks for transport g, to do n queries, a write or a close.
Request(a, g, j, n) ==
  /\ pc' = [pc EXCEPT ![a] = "want"]
  /\ at' = [at EXCEPT ![a] = g]
  /\ job' = [job EXCEPT ![a] = j]
  /\ reads' = [reads EXCEPT ![a] = n]
  /\ lock' = [lock EXCEPT ![g] = Acquired(@, a)]

HasLock(a) == lock[at[a]].holder = a

Unlock(a) == lock' = [lock EXCEPT ![at[a]] = Released(@)]

Idle(a) ==
  /\ pc' = [pc EXCEPT ![a] = "idle"] /\ at' = [at EXCEPT ![a] = 0]
  /\ job' = [job EXCEPT ![a] = "none"] /\ reads' = [reads EXCEPT ![a] = 0]

\* Mutant: the test of a connection does not close its port.
FlowEndsOpen(r) ==
  /\ lock' = [lock EXCEPT ![0] = Released(@)]
  /\ Idle(Flow) /\ flow' = [flow EXCEPT !.result = r]
  /\ UNCHANGED entryVars

\* "finally" of _async_test_connection.
FlowCloses(r) ==
  /\ lock' = [lock EXCEPT ![0] = Acquired(Released(@), Flow)]
  /\ pc' = [pc EXCEPT ![Flow] = "want"] /\ job' = [job EXCEPT ![Flow] = "close"]
  /\ flow' = [flow EXCEPT !.result = r]
  /\ UNCHANGED <<at, reads, entryVars>>

\* The operation of a is over; what its caller does then.
Ends(a, r) ==
  \/ /\ a = Flow
     /\ FlowCloses(r)
  \/ /\ a = Loader /\ r = "error" /\ ShutsFailed
     /\ lock' = [lock EXCEPT ![at[a]] = Acquired(Released(@), a)]
     /\ pc' = [pc EXCEPT ![a] = "want"] /\ job' = [job EXCEPT ![a] = "close"]
     /\ UNCHANGED <<entryVars, at, reads, flow>>
  \/ /\ a = Loader /\ ~(r = "error" /\ ShutsFailed)
     /\ entry' = IF r = "ok" THEN "loaded" ELSE "unloaded"
     /\ Idle(a) /\ Unlock(a)
     /\ UNCHANGED <<readOnly, changed, gen, flag, flow>>
  \/ /\ a \in Task
     /\ Idle(a) /\ Unlock(a)
     /\ UNCHANGED <<entryVars, flow>>

\* _ensure_locked: a closed port is opened, also after async_close.
Begin(a) ==
  /\ pc[a] = "want" /\ HasLock(a) /\ job[a] \in {"read", "write"}
  /\ port' = [port EXCEPT ![at[a]] = TRUE]
  /\ pc' = [pc EXCEPT ![a] = "busy"]
  /\ UNCHANGED <<entryVars, lock, at, job, reads, flow, histVars>>

OpenFails(a) ==
  /\ pc[a] = "want" /\ HasLock(a) /\ job[a] \in {"read", "write"}
  /\ ~port[at[a]]
  /\ Ends(a, "error")
  /\ UNCHANGED <<port, histVars>>

\* A query or a write has succeeded; a poll goes on with its next query.
Succeeds(a) ==
  /\ pc[a] = "busy"
  /\ IF reads[a] > 1
     THEN /\ reads' = [reads EXCEPT ![a] = @ - 1]
          /\ lock' = [lock EXCEPT ![at[a]] = Acquired(Released(@), a)]
          /\ pc' = [pc EXCEPT ![a] = "want"]
          /\ UNCHANGED <<entryVars, at, job, flow>>
     ELSE Ends(a, "ok")
  /\ UNCHANGED <<port, histVars>>

\* A query that fails closes the port, a write does not always.
Fails(a) ==
  /\ pc[a] = "busy"
  /\ \E open \in BOOLEAN :
       /\ open => job[a] = "write"
       /\ port' = [port EXCEPT ![at[a]] = open]
  /\ Ends(a, "error")
  /\ UNCHANGED histVars

\* The reply has come, but from_lines raises ValueError: that is no
\* LuxtronikConnectionError, and nobody closes the port.
Malformed(a) ==
  /\ pc[a] = "busy" /\ job[a] = "read"
  /\ Ends(a, "error")
  /\ UNCHANGED <<port, histVars>>

----------------------------------------------------------------------------
(* Set-up and unload *)

\* Mutant: the client is made without the option.
FlagDefault == FALSE

FlagOfOptions == readOnly

\* async_setup_entry up to the first refresh.
Setup ==
  /\ entry = "unloaded" /\ gen < MaxGens
  /\ pc[Loader] = "idle"
  /\ entry' = "setup" /\ gen' = gen + 1 /\ changed' = FALSE
  /\ flag' = [flag EXCEPT ![gen'] = FlagOfOptions]
  /\ Request(Loader, gen', "read", PollReads)
  /\ UNCHANGED <<readOnly, port, flow, histVars>>

\* async_unload_entry up to async_close, at the user's wish or after a
\* change of the options (OptionsFlowWithReload).
Unload ==
  /\ entry = "loaded" /\ gen < MaxGens
  /\ entry' = "closing"
  /\ Request(Loader, gen, "close", 0)
  /\ UNCHANGED <<readOnly, changed, gen, flag, port, flow, histVars>>

\* Mutant: the coordinator stops to poll but keeps its transport.
ShutdownOnly(g) == port

ShutPort(g) == [port EXCEPT ![g] = FALSE]

InUse(g) == \E t \in Task : pc[t] # "idle" /\ at[t] = g

\* A connection test that has succeeded adds the entry, or has it reloaded
\* with the new data (bound: not beyond the last coordinator).
Accepted ==
  /\ entry' = IF flow = [input |-> "new", result |-> "ok"] THEN "unloaded" ELSE entry
  /\ changed' = (changed \/ (flow = [input |-> "same", result |-> "ok"] /\ gen < MaxGens))

\* async_close has the lock.
Closed(a) ==
  /\ pc[a] = "want" /\ HasLock(a) /\ job[a] = "close"
  /\ port' = ShutPort(at[a])
  /\ Unlock(a) /\ Idle(a)
  /\ IF a = Flow THEN Accepted ELSE entry' = "unloaded" /\ UNCHANGED changed
  /\ late' = IF InUse(at[a]) THEN late \cup {at[a]} ELSE late
  /\ UNCHANGED <<readOnly, gen, flag, flow, ops, cancels, barred>>

\* The options flow saves a change: of read_only, or of the interval only.
SaveOptions ==
  /\ entry = "loaded" /\ ~changed /\ gen < MaxGens
  /\ readOnly' \in BOOLEAN /\ changed' = TRUE
  /\ UNCHANGED <<entry, gen, flag, port, lock, pc, at, job, reads, flow, histVars>>

----------------------------------------------------------------------------
(* Polls, services, entities *)

Counted == ops < MaxOps /\ ops' = ops + 1

\* _async_update_data
Poll(t) ==
  /\ pc[t] = "idle" /\ entry = "loaded" /\ Counted
  /\ Request(t, gen, "read", PollReads)
  /\ UNCHANGED <<entryVars, port, flow, cancels, barred, late>>

\* A setter of the client: it is refused in read-only mode, else it waits for
\* the write lock and the cooldown.
Write(t) ==
  /\ pc[t] = "idle" /\ entry \in {"loaded", "closing"} /\ Counted
  /\ \/ flag[gen] /\ UNCHANGED <<pc, at>>
     \/ /\ ~flag[gen]
        /\ pc' = [pc EXCEPT ![t] = "cooling"]
        /\ at' = [at EXCEPT ![t] = gen]
  /\ barred' = IF readOnly /\ entry = "loaded" /\ ~changed
               THEN barred \cup {t} ELSE barred \ {t}
  /\ UNCHANGED <<entryVars, port, lock, job, reads, flow, cancels, late>>

Cooled(t) ==
  /\ pc[t] = "cooling"
  /\ Request(t, at[t], "write", 0)
  /\ UNCHANGED <<entryVars, port, flow, histVars>>

\* A queue without its k-th place, and without the place of a, if it has one.
Skip(q, k) == SubSeq(q, 1, k - 1) \o SubSeq(q, k + 1, Len(q))
NotIn(q, a) ==
  IF \E k \in DOMAIN q : q[k] = a THEN Skip(q, CHOOSE k \in DOMAIN q : q[k] = a) ELSE q

WithoutWaiter(l, a) ==
  IF l.holder = a THEN Released(l) ELSE [l EXCEPT !.queue = NotIn(@, a)]

\* The call is cancelled; the config flow still runs its "finally".
Cancel(a) ==
  /\ a # Loader /\ pc[a] # "idle" /\ job[a] # "close"
  /\ cancels < MaxCancels /\ cancels' = cancels + 1
  /\ IF a = Flow
     THEN FlowCloses("error")
     ELSE /\ lock' = [lock EXCEPT ![at[a]] = WithoutWaiter(@, a)]
          /\ Idle(a) /\ UNCHANGED flow
  /\ UNCHANGED <<entryVars, port, ops, barred, late>>

----------------------------------------------------------------------------
(* The config flow *)

Tests(i) ==
  /\ flow' = [input |-> i, result |-> "none"]
  /\ Request(Flow, 0, "read", 1)

Refuses(i, r) ==
  /\ flow' = [input |-> i, result |-> r]
  /\ UNCHANGED <<lock, pc, at, job, reads>>

\* async_step_user: the port becomes the unique id of a new entry.  (Only one
\* port: an entry on a second one would share nothing with the first.)
AddEntry ==
  /\ pc[Flow] = "idle" /\ Counted
  /\ \/ entry = "none" /\ Tests("new")
     \/ entry # "none" /\ Refuses("new", "configured")
  /\ UNCHANGED <<entryVars, port, cancels, barred, late>>

\* async_step_reconfigure: the port of the entry, or another one, which the
\* unique id of the entry does not match.
Reconfigure ==
  /\ pc[Flow] = "idle" /\ entry # "none" /\ Counted
  /\ Tests("same") \/ Refuses("other", "mismatch")
  /\ UNCHANGED <<entryVars, port, cancels, barred, late>>

----------------------------------------------------------------------------
Step(a) ==
  Begin(a) \/ OpenFails(a) \/ Succeeds(a) \/ Fails(a) \/ Malformed(a) \/ Closed(a)

Next ==
  \/ \E a \in Actor : Step(a) \/ Cancel(a)
  \/ Setup \/ Unload \/ SaveOptions \/ AddEntry \/ Reconfigure
  \/ \E t \in Task : Poll(t) \/ Write(t) \/ Cooled(t)

Spec == Init /\ [][Next]_vars

\* Every operation of a transport ends, and Home Assistant reloads an entry
\* whose options or data have changed.
FairSpec ==
  /\ Spec
  /\ \A a \in Actor : WF_vars(Step(a))
  /\ WF_vars(changed /\ Unload) /\ WF_vars(Setup)

----------------------------------------------------------------------------
(* Properties *)

\* Every variable has its type.
TypeOK ==
  /\ entry \in {"none", "unloaded", "setup", "loaded", "closing"}
  /\ readOnly \in BOOLEAN /\ changed \in BOOLEAN
  /\ gen \in 0..MaxGens
  /\ flag \in [Transports -> BOOLEAN] /\ port \in [Transports -> BOOLEAN]
  /\ lock \in [Transports -> [holder : Actor \cup {Nobody}, queue : Seq(Actor)]]
  /\ pc \in [Actor -> {"idle", "cooling", "want", "busy"}]
  /\ at \in [Actor -> Transports]
  /\ job \in [Actor -> {"none", "read", "write", "close"}]
  /\ reads \in [Actor -> 0..PollReads]
  /\ flow \in [input : {"none", "new", "same", "other"},
               result : {"none", "ok", "error", "configured", "mismatch"}]
  /\ ops \in 0..MaxOps /\ cancels \in 0..MaxCancels
  /\ barred \subseteq Task /\ late \subseteq Transports

\* A write that was called while the entry was loaded read-only never gets
\* to the port, however the entry was reloaded before and after.
ReadOnlyCallsBarred == \A t \in barred : job[t] # "write"

\* A coordinator that was not in use when it was shut down leaves the port
\* closed for good, and so does one whose set-up has failed.
ShutdownReleasesPort ==
  \A g \in Gen \ late : (g < gen \/ (g = gen /\ entry = "unloaded")) => ~port[g]

\* The config flow never leaves the port open, whatever its test met.
FlowReleasesPort == pc[Flow] = "idle" => ~port[0]

\* Whatever polls, calls and flows there are, a change of the options or of the
\* connection gets through: the old coordinator is closed and a new one made.
ReloadGetsThrough == changed ~> ~changed

\* README, "Read-only mode": no command that could change the controller is
\* ever sent.
NoWriteWhileReadOnly ==
  (entry = "loaded" /\ readOnly /\ ~changed)
    => \A t \in Task : ~(job[t] = "write" /\ pc[t] = "busy")

\* README: the integration opens the port once and reuses the connection.
PortOpenedOnce == Cardinality({g \in Transports : port[g]}) <= 1

\* async_close: "Close the port and release resources."
UnloadedMeansClosed ==
  (entry = "unloaded" /\ \A a \in Actor : pc[a] = "idle")
    => \A g \in Transports : ~port[g]

\* strings.json, "reconfigure": update the serial port; the connection is
\* tested before saving.
OtherPortIsTested == flow.input = "other" => flow.result # "mismatch"
=============================================================================

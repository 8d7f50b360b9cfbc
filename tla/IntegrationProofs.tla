------------------------- MODULE IntegrationProofs -------------------------
(* Read-only mode and the release of the port through reloads, failed      *)
(* set-ups and config flows, for every number of tasks, coordinators and   *)
(* calls.  None of it needs the order in which a lock is given.            *)
EXTENDS Integration, TLAPS

----------------------------------------------------------------------------
(* The inductive invariant *)

Types ==
  /\ entry \in {"none", "unloaded", "setup", "loaded", "closing"}
  /\ readOnly \in BOOLEAN /\ changed \in BOOLEAN
  /\ gen \in 0..MaxGens
  /\ flag \in [Transports -> BOOLEAN] /\ port \in [Transports -> BOOLEAN]
  /\ pc \in [Actor -> {"idle", "cooling", "want", "busy"}]
  /\ at \in [Actor -> Transports]
  /\ job \in [Actor -> {"none", "read", "write", "close"}]
  /\ flow \in [input : {"none", "new", "same", "other"},
               result : {"none", "ok", "error", "configured", "mismatch"}]

\* The client was made with the option, and a change of it is remembered.
FlagInv == entry \in {"setup", "loaded"} /\ ~changed => flag[gen] = readOnly

\* A refused call has not even begun to wait.
BarredInv == \A t \in barred : job[t] # "write" /\ pc[t] # "cooling"

EntryInv ==
  /\ entry = "none" => gen = 0
  /\ entry \in {"setup", "loaded", "closing"} => gen \in Gen

\* A task uses a transport of a coordinator, and never closes it.
TaskInv ==
  \A t \in Task :
    /\ pc[t] # "idle" => at[t] \in 1..gen
    /\ pc[t] \in {"idle", "cooling"} => job[t] = "none"
    /\ job[t] # "close"

\* Set-up and unload use the transport of the coordinator they make or end.
LoaderInv ==
  pc[Loader] # "idle" =>
    /\ at[Loader] = gen
    /\ entry = "setup" \/ (entry = "closing" /\ job[Loader] = "close")
    /\ pc[Loader] = "busy" => job[Loader] # "close"

\* The flow uses a transport of its own; only the first entry is added.
FlowInv == pc[Flow] # "idle" => at[Flow] = 0 /\ (flow.input = "new" => entry = "none")

Inv ==
  Types /\ FlagInv /\ BarredInv /\ EntryInv /\ TaskInv /\ LoaderInv /\ FlowInv
    /\ FlowReleasesPort

\* A coordinator that is out of use, and was when it was shut down, has no
\* user and no open port.
Retired(g) == g < gen \/ (g = gen /\ entry = "unloaded")
UseInv == \A g \in Gen \ late : Retired(g) => ~port[g] /\ ~InUse(g)

----------------------------------------------------------------------------
(* Steps that several actions share *)

\* The end of an operation, which touches no other transport's port.
LEMMA EndsKeepsInv ==
  ASSUME Inv, NEW a \in Actor, pc[a] \in {"want", "busy"}, a = Loader => job[a] # "close",
         NEW r \in {"ok", "error"}, Ends(a, r),
         port' \in [Transports -> BOOLEAN],
         \A g \in Transports : g # at[a] => port'[g] = port[g],
         barred' = barred
  PROVE  Inv'
<1> USE ActorAssumption DEF Actor
<1>1. CASE a = Flow
  <2>1. /\ pc' = [pc EXCEPT ![Flow] = "want"] /\ job' = [job EXCEPT ![Flow] = "close"]
        /\ flow' = [flow EXCEPT !.result = r]
        /\ UNCHANGED <<at, entry, readOnly, changed, gen, flag>>
    BY <1>1 DEF Ends, FlowCloses, entryVars
  <2>2. Types' /\ FlagInv' /\ EntryInv'
    BY <2>1 DEF Inv, Types, FlagInv, EntryInv, Gen
  <2>3. BarredInv' /\ TaskInv' /\ LoaderInv'
    BY <2>1 DEF Inv, Types, BarredInv, TaskInv, LoaderInv
  <2>4. FlowInv' /\ FlowReleasesPort'
    BY <1>1, <2>1 DEF Inv, Types, FlowInv, FlowReleasesPort
  <2> QED
    BY <2>2, <2>3, <2>4 DEF Inv
<1>2. CASE a = Loader
  <2>1. at[Loader] = gen /\ gen \in Gen /\ 0 \in Transports /\ gen # 0
    BY <1>2, BoundAssumption DEF Inv, LoaderInv, EntryInv, Gen, Transports
  <2>2. port'[0] = port[0]
    BY <1>2, <2>1
  <2>3. UNCHANGED <<readOnly, changed, gen, flag, flow>>
    BY <1>2 DEF Ends, entryVars
  <2>4. CASE r = "error" /\ ShutsFailed
    <3>1. /\ pc' = [pc EXCEPT ![Loader] = "want"] /\ job' = [job EXCEPT ![Loader] = "close"]
          /\ UNCHANGED <<entry, at>>
      BY <1>2, <2>4 DEF Ends, entryVars
    <3>2. Types' /\ FlagInv' /\ EntryInv'
      BY <2>3, <3>1 DEF Inv, Types, FlagInv, EntryInv, Gen
    <3>3. BarredInv' /\ TaskInv' /\ LoaderInv'
      BY <1>2, <2>3, <3>1 DEF Inv, Types, BarredInv, TaskInv, LoaderInv
    <3>4. FlowInv' /\ FlowReleasesPort'
      BY <2>2, <2>3, <3>1 DEF Inv, Types, FlowInv, FlowReleasesPort
    <3> QED
      BY <3>2, <3>3, <3>4 DEF Inv
  <2>5. CASE ~(r = "error" /\ ShutsFailed)
    <3>1. /\ entry' = IF r = "ok" THEN "loaded" ELSE "unloaded"
          /\ pc' = [pc EXCEPT ![Loader] = "idle"] /\ at' = [at EXCEPT ![Loader] = 0]
          /\ job' = [job EXCEPT ![Loader] = "none"]
      BY <1>2, <2>5 DEF Ends, Idle
    <3>2. Types' /\ EntryInv'
      BY <2>1, <2>3, <3>1 DEF Inv, Types, EntryInv, Transports, Gen
    <3>3. BarredInv' /\ TaskInv' /\ LoaderInv'
      BY <2>3, <3>1 DEF Inv, Types, BarredInv, TaskInv, LoaderInv
    <3>4. FlowInv' /\ FlowReleasesPort'
      BY <1>2, <2>1, <2>2, <2>3, <3>1 DEF Inv, Types, FlowInv, FlowReleasesPort, EntryInv
    <3>5. FlagInv'
      BY <1>2, <2>3, <3>1 DEF Inv, Types, FlagInv, LoaderInv
    <3> QED
      BY <3>2, <3>3, <3>4, <3>5 DEF Inv
  <2> QED
    BY <2>4, <2>5
<1>3. CASE a \in Task
  <2>1. /\ pc' = [pc EXCEPT ![a] = "idle"] /\ at' = [at EXCEPT ![a] = 0]
        /\ job' = [job EXCEPT ![a] = "none"]
        /\ UNCHANGED <<entry, readOnly, changed, gen, flag, flow>>
    BY <1>3 DEF Ends, Idle, entryVars
  <2>2. port'[0] = port[0]
    BY <1>3, BoundAssumption DEF Inv, TaskInv, Types, Transports
  <2>3. Types' /\ FlagInv' /\ EntryInv'
    <3>1. 0 \in Transports
      BY BoundAssumption DEF Transports
    <3> QED
      BY <2>1, <3>1 DEF Inv, Types, FlagInv, EntryInv, Gen
  <2>4. BarredInv' /\ TaskInv' /\ LoaderInv'
    BY <1>3, <2>1 DEF Inv, Types, BarredInv, TaskInv, LoaderInv
  <2>5. FlowInv' /\ FlowReleasesPort'
    BY <1>3, <2>1, <2>2 DEF Inv, Types, FlowInv, FlowReleasesPort
  <2> QED
    BY <2>3, <2>4, <2>5 DEF Inv
<1> QED
  BY <1>1, <1>2, <1>3

----------------------------------------------------------------------------
(* One lemma per action, or for actions that are alike *)

LEMMA StepKeepsInv ==
  ASSUME Inv, NEW a \in Actor, Step(a)
  PROVE  Inv'
<1> USE ActorAssumption DEF Actor
<1>1. CASE Begin(a)
  <2>1. /\ pc' = [pc EXCEPT ![a] = "busy"] /\ port' = [port EXCEPT ![at[a]] = TRUE]
        /\ pc[a] = "want" /\ job[a] # "close"
        /\ UNCHANGED <<entry, readOnly, changed, gen, flag, at, job, flow, barred>>
    BY <1>1 DEF Begin, entryVars, histVars
  <2>2. Types' /\ FlagInv' /\ EntryInv'
    BY <2>1 DEF Inv, Types, FlagInv, EntryInv, Gen
  <2>3. BarredInv' /\ TaskInv' /\ LoaderInv' /\ FlowInv'
    BY <2>1 DEF Inv, Types, BarredInv, TaskInv, LoaderInv, FlowInv
  <2>4. FlowReleasesPort'
    <3>1. CASE a = Flow
      BY <2>1, <3>1 DEF Inv, Types, FlowReleasesPort
    <3>2. CASE a # Flow
      <4>1. at[a] # 0
        BY <2>1, <3>2 DEF Inv, Types, TaskInv, LoaderInv, EntryInv, Gen
      <4> QED
        BY <2>1, <3>2, <4>1 DEF Inv, Types, FlowReleasesPort
    <3> QED
      BY <3>1, <3>2
  <2> QED
    BY <2>2, <2>3, <2>4 DEF Inv
<1>2. CASE OpenFails(a)
  BY <1>2, EndsKeepsInv DEF OpenFails, histVars, Inv, Types
<1>3. CASE Succeeds(a)
  <2>1. a = Loader => job[a] # "close"
    BY <1>3 DEF Succeeds, Inv, LoaderInv
  <2>2. CASE reads[a] > 1
    <3>1. /\ pc' = [pc EXCEPT ![a] = "want"] /\ pc[a] = "busy"
          /\ UNCHANGED <<entry, readOnly, changed, gen, flag, at, job, flow, port, barred>>
      BY <1>3, <2>2 DEF Succeeds, entryVars, histVars
    <3>2. Types' /\ FlagInv' /\ EntryInv'
      BY <3>1 DEF Inv, Types, FlagInv, EntryInv, Gen
    <3> QED
      BY <3>1, <3>2 DEF Inv, Types, BarredInv, TaskInv, LoaderInv, FlowInv, FlowReleasesPort
  <2>3. CASE ~(reads[a] > 1)
    BY <1>3, <2>1, <2>3, EndsKeepsInv DEF Succeeds, histVars, Inv, Types
  <2> QED
    BY <2>2, <2>3
<1>4. CASE Fails(a)
  <2>1. a = Loader => job[a] # "close"
    BY <1>4 DEF Fails, Inv, LoaderInv
  <2>2. /\ port' \in [Transports -> BOOLEAN]
        /\ \A g \in Transports : g # at[a] => port'[g] = port[g]
    BY <1>4 DEF Fails, Inv, Types
  <2> QED
    BY <1>4, <2>1, <2>2, EndsKeepsInv DEF Fails, histVars
<1>5. CASE Malformed(a)
  BY <1>5, EndsKeepsInv DEF Malformed, histVars, Inv, Types
<1>6. CASE Closed(a)
  <2>1. /\ pc' = [pc EXCEPT ![a] = "idle"] /\ at' = [at EXCEPT ![a] = 0]
        /\ job' = [job EXCEPT ![a] = "none"] /\ port' = [port EXCEPT ![at[a]] = FALSE]
        /\ pc[a] = "want" /\ job[a] = "close" /\ a \in {Flow, Loader}
        /\ UNCHANGED <<readOnly, gen, flag, flow, barred>>
    BY <1>6 DEF Closed, Idle, ShutPort, Inv, TaskInv
  <2>2. 0 \in Transports
    BY BoundAssumption DEF Transports
  <2>3. CASE a = Flow
    <3>1. /\ entry' = IF flow = [input |-> "new", result |-> "ok"] THEN "unloaded" ELSE entry
          /\ changed' = (changed \/ (flow = [input |-> "same", result |-> "ok"] /\ gen < MaxGens))
      BY <1>6, <2>3 DEF Closed, Accepted
    <3>2. entry' \in {entry, "unloaded"} /\ (entry' # entry => entry = "none")
      BY <2>1, <2>3, <3>1 DEF Inv, FlowInv
    <3>3. Types' /\ FlagInv' /\ EntryInv'
      BY <2>1, <2>2, <3>1, <3>2 DEF Inv, Types, FlagInv, EntryInv, Gen
    <3>4. BarredInv' /\ TaskInv' /\ LoaderInv'
      BY <2>1, <2>3, <3>2 DEF Inv, Types, BarredInv, TaskInv, LoaderInv
    <3>5. FlowInv' /\ FlowReleasesPort'
      BY <2>1, <2>2, <2>3 DEF Inv, Types, FlowInv, FlowReleasesPort
    <3> QED
      BY <3>3, <3>4, <3>5 DEF Inv
  <2>4. CASE a = Loader
    <3>1. entry' = "unloaded" /\ UNCHANGED changed
      BY <1>6, <2>4 DEF Closed
    <3>2. at[a] # 0 /\ entry # "none"
      BY <2>1, <2>4 DEF Inv, LoaderInv, EntryInv, Gen
    <3>3. Types' /\ FlagInv' /\ EntryInv'
      BY <2>1, <2>2, <3>1 DEF Inv, Types, FlagInv, EntryInv
    <3>4. BarredInv' /\ TaskInv' /\ LoaderInv'
      BY <2>1, <2>4 DEF Inv, Types, BarredInv, TaskInv, LoaderInv
    <3>5. FlowInv' /\ FlowReleasesPort'
      BY <2>1, <2>2, <2>4, <3>2 DEF Inv, Types, FlowInv, FlowReleasesPort
    <3> QED
      BY <3>3, <3>4, <3>5 DEF Inv
  <2> QED
    BY <2>1, <2>3, <2>4
<1> QED
  BY <1>1, <1>2, <1>3, <1>4, <1>5, <1>6 DEF Step

LEMMA CancelKeepsInv ==
  ASSUME Inv, NEW a \in Actor, Cancel(a)
  PROVE  Inv'
<1> USE ActorAssumption DEF Actor
<1>1. a # Loader /\ pc[a] # "idle" /\ UNCHANGED <<entry, readOnly, changed, gen, flag, port, barred>>
  BY DEF Cancel, entryVars
<1>2. CASE a = Flow
  <2>1. /\ pc' = [pc EXCEPT ![Flow] = "want"] /\ job' = [job EXCEPT ![Flow] = "close"]
        /\ flow' = [flow EXCEPT !.result = "error"] /\ at' = at
    BY <1>2 DEF Cancel, FlowCloses
  <2>2. Types' /\ FlagInv' /\ EntryInv'
    BY <1>1, <2>1 DEF Inv, Types, FlagInv, EntryInv, Gen
  <2>3. BarredInv' /\ TaskInv' /\ LoaderInv'
    BY <1>1, <2>1 DEF Inv, Types, BarredInv, TaskInv, LoaderInv
  <2>4. FlowInv' /\ FlowReleasesPort'
    BY <1>1, <1>2, <2>1 DEF Inv, Types, FlowInv, FlowReleasesPort
  <2> QED
    BY <2>2, <2>3, <2>4 DEF Inv
<1>3. CASE a \in Task
  <2>1. /\ pc' = [pc EXCEPT ![a] = "idle"] /\ at' = [at EXCEPT ![a] = 0]
        /\ job' = [job EXCEPT ![a] = "none"] /\ flow' = flow
    BY <1>3 DEF Cancel, Idle
  <2>2. 0 \in Transports
    BY BoundAssumption DEF Transports
  <2>3. Types' /\ FlagInv' /\ EntryInv'
    BY <1>1, <2>1, <2>2 DEF Inv, Types, FlagInv, EntryInv, Gen
  <2>4. BarredInv' /\ TaskInv' /\ LoaderInv'
    BY <1>1, <1>3, <2>1 DEF Inv, Types, BarredInv, TaskInv, LoaderInv
  <2>5. FlowInv' /\ FlowReleasesPort'
    BY <1>1, <1>3, <2>1 DEF Inv, Types, FlowInv, FlowReleasesPort
  <2> QED
    BY <2>3, <2>4, <2>5 DEF Inv
<1> QED
  BY <1>1, <1>2, <1>3

LEMMA LoaderKeepsInv ==
  ASSUME Inv, Setup \/ Unload
  PROVE  Inv'
<1> USE ActorAssumption DEF Actor
<1>1. CASE Setup
  <2>1. /\ entry = "unloaded" /\ entry' = "setup" /\ gen' = gen + 1 /\ gen < MaxGens
        /\ changed' = FALSE /\ flag' = [flag EXCEPT ![gen'] = readOnly]
        /\ pc' = [pc EXCEPT ![Loader] = "want"] /\ at' = [at EXCEPT ![Loader] = gen']
        /\ job' = [job EXCEPT ![Loader] = "read"]
        /\ UNCHANGED <<readOnly, port, flow, barred>>
    BY <1>1 DEF Setup, Request, FlagOfOptions, histVars
  <2>2. gen' \in Gen /\ gen' \in Transports /\ gen \in Nat
    BY <2>1, BoundAssumption DEF Inv, Types, Gen, Transports
  <2>3. Types' /\ FlagInv' /\ EntryInv'
    <3>1. gen' \in 0..MaxGens
      BY <2>2 DEF Transports
    <3> QED
      BY <2>1, <2>2, <3>1 DEF Inv, Types, FlagInv, EntryInv
  <2>4. BarredInv' /\ TaskInv' /\ LoaderInv'
    BY <2>1, <2>2 DEF Inv, Types, BarredInv, TaskInv, LoaderInv
  <2>5. FlowInv' /\ FlowReleasesPort'
    BY <2>1 DEF Inv, Types, FlowInv, FlowReleasesPort
  <2> QED
    BY <2>3, <2>4, <2>5 DEF Inv
<1>2. CASE Unload
  <2>1. /\ entry = "loaded" /\ entry' = "closing"
        /\ pc' = [pc EXCEPT ![Loader] = "want"] /\ at' = [at EXCEPT ![Loader] = gen]
        /\ job' = [job EXCEPT ![Loader] = "close"]
        /\ UNCHANGED <<readOnly, changed, gen, flag, port, flow, barred>>
    BY <1>2 DEF Unload, Request, histVars
  <2>2. gen \in Gen /\ gen \in Transports
    BY <2>1 DEF Inv, Types, EntryInv, Transports
  <2>3. Types' /\ FlagInv' /\ EntryInv'
    BY <2>1, <2>2 DEF Inv, Types, FlagInv, EntryInv, Gen
  <2>4. BarredInv' /\ TaskInv' /\ LoaderInv'
    BY <2>1 DEF Inv, Types, BarredInv, TaskInv, LoaderInv
  <2>5. FlowInv' /\ FlowReleasesPort'
    BY <2>1 DEF Inv, Types, FlowInv, FlowReleasesPort
  <2> QED
    BY <2>3, <2>4, <2>5 DEF Inv
<1> QED
  BY <1>1, <1>2

LEMMA OptionsKeepInv ==
  ASSUME Inv, SaveOptions
  PROVE  Inv'
<1>1. /\ readOnly' \in BOOLEAN /\ changed' = TRUE /\ barred' = barred
      /\ UNCHANGED <<entry, gen, flag, port, pc, at, job, flow>>
  BY DEF SaveOptions, histVars
<1>2. Types' /\ FlagInv' /\ EntryInv'
  BY <1>1 DEF Inv, Types, FlagInv, EntryInv, Gen
<1>3. BarredInv' /\ TaskInv' /\ LoaderInv' /\ FlowInv' /\ FlowReleasesPort'
  BY <1>1 DEF Inv, BarredInv, TaskInv, LoaderInv, FlowInv, FlowReleasesPort
<1> QED
  BY <1>2, <1>3 DEF Inv

LEMMA FlowKeepsInv ==
  ASSUME Inv, AddEntry \/ Reconfigure
  PROVE  Inv'
<1> USE ActorAssumption DEF Actor
<1>1. pc[Flow] = "idle" /\ UNCHANGED <<entry, readOnly, changed, gen, flag, port, barred>>
  BY DEF AddEntry, Reconfigure, entryVars
<1>2. \/ \E i \in {"new", "same"} : Tests(i) /\ (i = "new" => entry = "none")
      \/ \E i \in {"new", "other"} : \E r \in {"configured", "mismatch"} : Refuses(i, r)
  BY DEF AddEntry, Reconfigure
<1>3. ASSUME NEW i \in {"new", "same"}, Tests(i), i = "new" => entry = "none"
      PROVE  Inv'
  <2>1. /\ flow' = [input |-> i, result |-> "none"]
        /\ pc' = [pc EXCEPT ![Flow] = "want"] /\ at' = [at EXCEPT ![Flow] = 0]
        /\ job' = [job EXCEPT ![Flow] = "read"]
    BY <1>3 DEF Tests, Request
  <2>2. 0 \in Transports
    BY BoundAssumption DEF Transports
  <2>3. Types' /\ FlagInv' /\ EntryInv'
    BY <1>1, <2>1, <2>2 DEF Inv, Types, FlagInv, EntryInv, Gen
  <2>4. BarredInv' /\ TaskInv' /\ LoaderInv'
    BY <1>1, <2>1 DEF Inv, Types, BarredInv, TaskInv, LoaderInv
  <2>5. FlowInv' /\ FlowReleasesPort'
    BY <1>1, <1>3, <2>1, <2>2 DEF Inv, Types, FlowInv, FlowReleasesPort
  <2> QED
    BY <2>3, <2>4, <2>5 DEF Inv
<1>4. ASSUME NEW i \in {"new", "other"}, NEW r \in {"configured", "mismatch"}, Refuses(i, r)
      PROVE  Inv'
  BY <1>1, <1>4 DEF Refuses, Inv, Types, FlagInv, BarredInv, EntryInv, TaskInv, LoaderInv,
                    FlowInv, FlowReleasesPort, Gen
<1> QED
  BY <1>2, <1>3, <1>4

\* Polls and calls begin, or a call has waited for the cooldown.
LEMMA TaskKeepsInv ==
  ASSUME Inv, NEW t \in Task, Poll(t) \/ Write(t) \/ Cooled(t)
  PROVE  Inv'
<1> USE ActorAssumption DEF Actor
<1>1. UNCHANGED <<entry, readOnly, changed, gen, flag, port, flow>>
  BY DEF Poll, Write, Cooled, entryVars
<1>2. CASE Poll(t)
  <2>1. /\ pc' = [pc EXCEPT ![t] = "want"] /\ at' = [at EXCEPT ![t] = gen]
        /\ job' = [job EXCEPT ![t] = "read"] /\ barred' = barred /\ entry = "loaded"
    BY <1>2 DEF Poll, Request
  <2>2. gen \in Transports /\ gen \in 1..gen
    BY <2>1 DEF Inv, Types, EntryInv, Gen, Transports
  <2>3. Types' /\ FlagInv' /\ EntryInv'
    BY <1>1, <2>1, <2>2 DEF Inv, Types, FlagInv, EntryInv, Gen
  <2>4. BarredInv' /\ TaskInv' /\ LoaderInv'
    BY <1>1, <2>1, <2>2 DEF Inv, Types, BarredInv, TaskInv, LoaderInv
  <2> QED
    BY <1>1, <2>1, <2>3, <2>4 DEF Inv, Types, FlowInv, FlowReleasesPort
<1>3. CASE Write(t)
  <2>1. /\ \/ flag[gen] /\ UNCHANGED <<pc, at>>
           \/ /\ ~flag[gen] /\ pc' = [pc EXCEPT ![t] = "cooling"]
              /\ at' = [at EXCEPT ![t] = gen]
        /\ barred' = IF readOnly /\ entry = "loaded" /\ ~changed
                     THEN barred \cup {t} ELSE barred \ {t}
        /\ job' = job /\ pc[t] = "idle" /\ entry \in {"loaded", "closing"}
    BY <1>3 DEF Write
  <2>2. gen \in Transports /\ gen \in 1..gen
    BY <2>1 DEF Inv, Types, EntryInv, Gen, Transports
  <2>3. Types' /\ FlagInv' /\ EntryInv'
    BY <1>1, <2>1, <2>2 DEF Inv, Types, FlagInv, EntryInv, Gen
  <2>4. TaskInv' /\ LoaderInv'
    BY <1>1, <2>1, <2>2 DEF Inv, Types, TaskInv, LoaderInv
  <2>5. BarredInv'
    <3>1. job[t] = "none" /\ pc[t] # "cooling"
      BY <2>1 DEF Inv, TaskInv
    <3>2. CASE flag[gen]
      <4>1. pc' = pc /\ barred' \subseteq barred \cup {t}
        BY <2>1, <3>2
      <4> QED
        BY <2>1, <3>1, <4>1 DEF Inv, BarredInv
    <3>3. CASE ~flag[gen]
      <4>1. ~(readOnly /\ entry = "loaded" /\ ~changed)
        BY <3>3 DEF Inv, FlagInv
      <4>2. barred' = barred \ {t} /\ pc' = [pc EXCEPT ![t] = "cooling"]
        BY <2>1, <3>3, <4>1
      <4> QED
        BY <2>1, <4>2 DEF Inv, Types, BarredInv
    <3> QED
      BY <3>2, <3>3
  <2> QED
    BY <1>1, <2>1, <2>3, <2>4, <2>5 DEF Inv, Types, FlowInv, FlowReleasesPort
<1>4. CASE Cooled(t)
  <2>1. /\ pc' = [pc EXCEPT ![t] = "want"] /\ at' = [at EXCEPT ![t] = at[t]]
        /\ job' = [job EXCEPT ![t] = "write"] /\ barred' = barred /\ pc[t] = "cooling"
    BY <1>4 DEF Cooled, Request, histVars
  <2>2. Types' /\ FlagInv' /\ EntryInv'
    BY <1>1, <2>1 DEF Inv, Types, FlagInv, EntryInv, Gen
  <2>3. BarredInv' /\ TaskInv' /\ LoaderInv'
    BY <1>1, <2>1 DEF Inv, Types, BarredInv, TaskInv, LoaderInv
  <2> QED
    BY <1>1, <2>1, <2>2, <2>3 DEF Inv, Types, FlowInv, FlowReleasesPort
<1> QED
  BY <1>2, <1>3, <1>4

----------------------------------------------------------------------------
(* Read-only mode and the port of the config flow *)

LEMMA InitInv == Init => Inv
<1> SUFFICES ASSUME Init PROVE Inv
  OBVIOUS
<1>1. 0 \in Transports /\ 0 \in 0..MaxGens
  BY BoundAssumption DEF Transports
<1>2. Types
  BY <1>1 DEF Init, NoFlow, Types
<1>3. FlagInv /\ BarredInv /\ EntryInv
  BY DEF Init, FlagInv, BarredInv, EntryInv
<1>4. TaskInv /\ LoaderInv /\ FlowInv /\ FlowReleasesPort
  BY <1>1 DEF Init, Actor, TaskInv, LoaderInv, FlowInv, FlowReleasesPort
<1> QED
  BY <1>2, <1>3, <1>4 DEF Inv

LEMMA NextKeepsInv ==
  ASSUME Inv, [Next]_vars
  PROVE  Inv'
<1>1. CASE Next
  BY <1>1, StepKeepsInv, CancelKeepsInv, LoaderKeepsInv, OptionsKeepInv, FlowKeepsInv,
     TaskKeepsInv DEF Next
<1>2. CASE UNCHANGED vars
  BY <1>2 DEF vars, Inv, Types, FlagInv, BarredInv, EntryInv, TaskInv, LoaderInv, FlowInv,
              FlowReleasesPort, Gen
<1> QED
  BY <1>1, <1>2

LEMMA Invariance == Spec => []Inv
<1>1. Init => Inv
  BY InitInv
<1>2. Inv /\ [Next]_vars => Inv'
  BY NextKeepsInv
<1> QED
  BY <1>1, <1>2, PTL DEF Spec

\* A call that was refused as read-only never writes, whatever reloads and changes of
\* the options come before and after it.
THEOREM ReadOnlyHolds == Spec => []ReadOnlyCallsBarred
<1>1. Inv => ReadOnlyCallsBarred
  BY DEF Inv, BarredInv, ReadOnlyCallsBarred
<1> QED
  BY <1>1, Invariance, PTL

\* Every way out of a connection test closes its port.
THEOREM FlowPortReleased == Spec => []FlowReleasesPort
<1>1. Inv => FlowReleasesPort
  BY DEF Inv
<1> QED
  BY <1>1, Invariance, PTL

----------------------------------------------------------------------------
(* The port of a coordinator that was shut down *)

\* Nobody uses a retired coordinator that was not in use when it was shut down.
LEMMA RetiredUnused ==
  ASSUME Inv, UseInv, NEW a \in Actor, pc[a] # "idle", NEW g \in Gen \ late, Retired(g)
  PROVE  at[a] # g
<1>1. CASE a \in Task
  BY <1>1 DEF UseInv, InUse
<1>2. CASE a = Loader
  BY <1>2 DEF Inv, Types, LoaderInv, Retired, Gen
<1>3. CASE a = Flow
  BY <1>3 DEF Inv, FlowInv, Gen
<1> QED
  BY <1>1, <1>2, <1>3 DEF Actor

\* A step that retires nobody, opens no port of a retired coordinator and
\* lets no task begin to use one.
LEMMA QuietKeepsUse ==
  ASSUME UseInv, late \subseteq late',
         \A g \in Gen \ late : Retired(g)' => Retired(g),
         \A g \in Gen \ late : Retired(g) => port'[g] = port[g],
         \A t \in Task : \A g \in Gen :
           (Retired(g)' /\ pc'[t] # "idle" /\ at'[t] = g) => (pc[t] # "idle" /\ at[t] = g)
  PROVE  UseInv'
<1> SUFFICES ASSUME NEW g \in Gen, g \notin late', Retired(g)'
             PROVE  ~port'[g] /\ ~InUse(g)'
  BY DEF UseInv, Gen
<1>1. g \in Gen \ late /\ Retired(g) /\ ~port[g] /\ ~InUse(g)
  BY DEF UseInv
<1>2. ~port'[g]
  BY <1>1
<1>3. ~InUse(g)'
  BY <1>1 DEF InUse
<1> QED
  BY <1>2, <1>3

\* Here Home Assistant has to shut down what it could not set up.
LEMMA EndsKeepsUse ==
  ASSUME ShutsFailed, Inv, UseInv, NEW a \in Actor, pc[a] # "idle",
         NEW r \in {"ok", "error"}, Ends(a, r), late' = late,
         \A g \in Transports : g # at[a] => port'[g] = port[g]
  PROVE  UseInv'
<1> USE ActorAssumption DEF Actor
<1>1. gen' = gen /\ (entry' = "unloaded" => entry = "unloaded")
  BY DEF Ends, FlowCloses, entryVars
<1>2. \A t \in Task : pc'[t] # "idle" => pc[t] # "idle" /\ at'[t] = at[t]
  BY DEF Ends, FlowCloses, Idle, Inv, Types
<1>3. \A g \in Gen \ late : Retired(g) => port'[g] = port[g]
  BY RetiredUnused DEF Gen, Transports
<1>4. \A g \in Gen : Retired(g)' => Retired(g)
  BY <1>1 DEF Retired
<1> QED
  BY <1>2, <1>3, <1>4, QuietKeepsUse

LEMMA StepKeepsUse ==
  ASSUME ShutsFailed, Inv, UseInv, NEW a \in Actor, Step(a)
  PROVE  UseInv'
<1> USE ActorAssumption DEF Actor
<1>1. CASE Begin(a)
  <2>1. /\ pc[a] = "want" /\ port' = [port EXCEPT ![at[a]] = TRUE]
        /\ pc' = [pc EXCEPT ![a] = "busy"] /\ UNCHANGED <<entry, gen, at, late>>
    BY <1>1 DEF Begin, entryVars, histVars
  <2>2. \A g \in Gen \ late : Retired(g) => port'[g] = port[g]
    <3>1. \A g \in Gen \ late : Retired(g) => at[a] # g
      BY <2>1, RetiredUnused
    <3> QED
      <4> SUFFICES ASSUME NEW g \in Gen \ late, Retired(g)
                   PROVE  port'[g] = port[g]
        OBVIOUS
      <4>1. g \in Transports /\ at[a] # g
        BY <3>1, BoundAssumption DEF Gen, Transports
      <4> QED
        BY <2>1, <4>1 DEF Inv, Types
  <2>3. \A t \in Task : pc'[t] # "idle" => pc[t] # "idle" /\ at'[t] = at[t]
    BY <2>1 DEF Inv, Types
  <2>4. \A g \in Gen : Retired(g)' => Retired(g)
    BY <2>1 DEF Retired
  <2> QED
    BY <2>1, <2>2, <2>3, <2>4, QuietKeepsUse
<1>2. CASE OpenFails(a)
  BY <1>2, EndsKeepsUse DEF OpenFails, histVars
<1>3. CASE Succeeds(a)
  <2>1. CASE reads[a] > 1
    <3>1. /\ pc[a] = "busy" /\ pc' = [pc EXCEPT ![a] = "want"]
          /\ UNCHANGED <<entry, gen, at, port, late>>
      BY <1>3, <2>1 DEF Succeeds, entryVars, histVars
    <3>2. \A t \in Task : pc'[t] # "idle" => pc[t] # "idle" /\ at'[t] = at[t]
      BY <3>1 DEF Inv, Types
    <3>3. \A g \in Gen : Retired(g)' => Retired(g)
      BY <3>1 DEF Retired
    <3> QED
      BY <3>1, <3>2, <3>3, QuietKeepsUse
  <2>2. CASE ~(reads[a] > 1)
    BY <1>3, <2>2, EndsKeepsUse DEF Succeeds, histVars
  <2> QED
    BY <2>1, <2>2
<1>4. CASE Fails(a)
  <2>1. \A g \in Transports : g # at[a] => port'[g] = port[g]
    BY <1>4 DEF Fails, Inv, Types
  <2> QED
    BY <1>4, <2>1, EndsKeepsUse DEF Fails, histVars
<1>5. CASE Malformed(a)
  BY <1>5, EndsKeepsUse DEF Malformed, histVars
<1>6. CASE Closed(a)
  <2>1. /\ pc' = [pc EXCEPT ![a] = "idle"] /\ at' = [at EXCEPT ![a] = 0]
        /\ port' = [port EXCEPT ![at[a]] = FALSE] /\ a \in {Flow, Loader} /\ pc[a] # "idle"
        /\ gen' = gen /\ late \subseteq late' /\ (InUse(at[a]) => at[a] \in late')
    BY <1>6 DEF Closed, Idle, ShutPort, Inv, TaskInv
  <2>2. \A t \in Task : pc'[t] = pc[t] /\ at'[t] = at[t]
    BY <2>1 DEF Inv, Types
  <2>3. CASE a = Flow
    <3>1. entry' = "unloaded" => entry = "unloaded" \/ gen = 0
      BY <1>6, <2>1, <2>3 DEF Closed, Accepted, Inv, FlowInv, EntryInv
    <3>2. \A g \in Gen : Retired(g)' => Retired(g)
      BY <2>1, <3>1 DEF Retired, Gen
    <3>3. \A g \in Gen \ late : Retired(g) => port'[g] = port[g]
      <4>1. \A g \in Gen \ late : Retired(g) => at[a] # g
        BY <2>1, RetiredUnused
      <4> QED
        <5> SUFFICES ASSUME NEW g \in Gen \ late, Retired(g)
                     PROVE  port'[g] = port[g]
          OBVIOUS
        <5>1. g \in Transports /\ at[a] # g
          BY <4>1, BoundAssumption DEF Gen, Transports
        <5> QED
          BY <2>1, <5>1 DEF Inv, Types
    <3> QED
      BY <2>1, <2>2, <3>2, <3>3, QuietKeepsUse
  <2>4. CASE a = Loader
    <3>1. at[a] = gen /\ gen \in Transports
      BY <2>1, <2>4 DEF Inv, Types, LoaderInv, Transports
    <3>2. ASSUME NEW g \in Gen, g \notin late', Retired(g)'
          PROVE  ~port'[g] /\ ~InUse(g)'
      <4>1. CASE g = gen
        BY <2>1, <2>2, <3>1, <3>2, <4>1 DEF Inv, Types, InUse
      <4>2. CASE g # gen
        <5>1. g \in Gen \ late /\ Retired(g) /\ port'[g] = port[g]
          BY <2>1, <3>1, <3>2, <4>2 DEF Retired, Inv, Types, Gen, Transports
        <5> QED
          BY <2>2, <5>1 DEF UseInv, InUse
      <4> QED
        BY <4>1, <4>2
    <3> QED
      BY <3>2 DEF UseInv, Gen
  <2> QED
    BY <2>1, <2>3, <2>4
<1> QED
  BY <1>1, <1>2, <1>3, <1>4, <1>5, <1>6 DEF Step

LEMMA CancelKeepsUse ==
  ASSUME Inv, UseInv, NEW a \in Actor, Cancel(a)
  PROVE  UseInv'
<1>1. UNCHANGED <<entry, gen, port, late>> /\ pc[a] # "idle"
  BY DEF Cancel, entryVars
<1>2. \A t \in Task : pc'[t] # "idle" => pc[t] # "idle" /\ at'[t] = at[t]
  BY ActorAssumption DEF Cancel, FlowCloses, Idle, Inv, Types, Actor
<1>3. \A g \in Gen : Retired(g)' => Retired(g)
  BY <1>1 DEF Retired
<1> QED
  BY <1>1, <1>2, <1>3, QuietKeepsUse

LEMMA LoaderKeepsUse ==
  ASSUME Inv, UseInv, Setup \/ Unload
  PROVE  UseInv'
<1>1. /\ UNCHANGED <<port, late>>
      /\ \/ entry = "unloaded" /\ entry' = "setup" /\ gen' = gen + 1
         \/ entry = "loaded" /\ entry' = "closing" /\ gen' = gen
  BY DEF Setup, Unload, histVars
<1>2. \A t \in Task : pc'[t] = pc[t] /\ at'[t] = at[t]
  BY ActorAssumption DEF Setup, Unload, Request, Inv, Types, Actor
<1>3. \A g \in Gen : Retired(g)' => Retired(g)
  BY <1>1 DEF Retired, Inv, Types, Gen
<1> QED
  BY <1>1, <1>2, <1>3, QuietKeepsUse

LEMMA TaskKeepsUse ==
  ASSUME Inv, UseInv, NEW t \in Task, Poll(t) \/ Write(t) \/ Cooled(t)
  PROVE  UseInv'
<1>1. UNCHANGED <<entry, gen, port, late>>
  BY DEF Poll, Write, Cooled, entryVars, histVars
<1>2. \A g \in Gen : Retired(g)' => Retired(g)
  BY <1>1 DEF Retired
<1>3. \A u \in Task : u # t => pc'[u] = pc[u] /\ at'[u] = at[u]
  BY DEF Poll, Write, Cooled, Request, Inv, Types, Actor
<1>4. pc'[t] # "idle" => (pc[t] # "idle" /\ at'[t] = at[t]) \/ (at'[t] = gen /\ entry \in {"loaded", "closing"})
  BY DEF Poll, Write, Cooled, Request, Inv, Types, Actor
<1>5. \A g \in Gen : Retired(g) /\ entry \in {"loaded", "closing"} => g # gen
  BY DEF Retired, Inv, Types, Gen
<1> QED
  BY <1>1, <1>2, <1>3, <1>4, <1>5, QuietKeepsUse

LEMMA OthersKeepUse ==
  ASSUME Inv, UseInv, SaveOptions \/ AddEntry \/ Reconfigure \/ UNCHANGED vars
  PROVE  UseInv'
<1>1. UNCHANGED <<entry, gen, port, late>>
  BY DEF SaveOptions, AddEntry, Reconfigure, vars, entryVars, histVars
<1>2. \A t \in Task : pc'[t] = pc[t] /\ at'[t] = at[t]
  BY ActorAssumption
     DEF SaveOptions, AddEntry, Reconfigure, Tests, Refuses, Request, vars, Inv, Types, Actor
<1>3. \A g \in Gen : Retired(g)' => Retired(g)
  BY <1>1 DEF Retired
<1> QED
  BY <1>1, <1>2, <1>3, QuietKeepsUse

\* If Home Assistant shuts down what it could not set up, a coordinator that was not in
\* use when it was shut down leaves the port closed for good.
THEOREM ShutdownPortReleased ==
  ASSUME ShutsFailed
  PROVE  Spec => []ShutdownReleasesPort
<1>1. Init => UseInv
  BY BoundAssumption DEF Init, UseInv, Retired, Gen
<1>2. Inv /\ UseInv /\ [Next]_vars => UseInv'
  BY StepKeepsUse, CancelKeepsUse, LoaderKeepsUse, TaskKeepsUse, OthersKeepUse DEF Next
<1>3. UseInv => ShutdownReleasesPort
  BY DEF UseInv, Retired, ShutdownReleasesPort
<1> QED
  BY <1>1, <1>2, <1>3, Invariance, PTL DEF Spec

----------------------------------------------------------------------------
(* The types that the above does without: who is in a lock, and the bounds *)

Locks == [holder : Actor \cup {Nobody}, queue : Seq(Actor)]

LEMMA QueueTyped ==
  ASSUME NEW q \in Seq(Actor), NEW a
  PROVE  NotIn(q, a) \in Seq(Actor)
<1>1. CASE \E k \in DOMAIN q : q[k] = a
  <2> DEFINE k == CHOOSE k \in DOMAIN q : q[k] = a
  <2>1. k \in 1..Len(q)
    BY <1>1
  <2> HIDE DEF k
  <2>2. SubSeq(q, 1, k - 1) \in Seq(Actor) /\ SubSeq(q, k + 1, Len(q)) \in Seq(Actor)
    BY <2>1
  <2>3. NotIn(q, a) = SubSeq(q, 1, k - 1) \o SubSeq(q, k + 1, Len(q))
    BY <1>1 DEF NotIn, Skip, k
  <2> QED
    BY <2>2, <2>3
<1>2. CASE ~\E k \in DOMAIN q : q[k] = a
  BY <1>2 DEF NotIn
<1> QED
  BY <1>1, <1>2

LEMMA LocksTyped ==
  ASSUME NEW l \in Locks, NEW a \in Actor
  PROVE  /\ Acquired(l, a) \in Locks /\ Released(l) \in Locks /\ WithoutWaiter(l, a) \in Locks
         /\ Acquired(Released(l), a) \in Locks
<1>1. \A m \in Locks : Released(m) \in Locks
  <2> SUFFICES ASSUME NEW m \in Locks PROVE Released(m) \in Locks
    OBVIOUS
  <2>1. CASE m.queue = <<>>
    BY <2>1 DEF Released, Free, Locks
  <2>2. CASE m.queue # <<>>
    <3>1. Head(m.queue) \in Actor /\ Tail(m.queue) \in Seq(Actor)
      BY <2>2 DEF Locks
    <3> QED
      BY <2>2, <3>1 DEF Released, Locks
  <2> QED
    BY <2>1, <2>2
<1>2. \A m \in Locks : Acquired(m, a) \in Locks
  <2> SUFFICES ASSUME NEW m \in Locks PROVE Acquired(m, a) \in Locks
    OBVIOUS
  <2>1. Append(m.queue, a) \in Seq(Actor)
    BY DEF Locks
  <2> QED
    BY <2>1 DEF Acquired, Locks
<1>3. WithoutWaiter(l, a) \in Locks
  BY <1>1, QueueTyped DEF WithoutWaiter, Locks
<1> QED
  BY <1>1, <1>2, <1>3

LockTypes == lock \in [Transports -> Locks]
CountTypes ==
  /\ reads \in [Actor -> 0..PollReads]
  /\ ops \in 0..MaxOps /\ cancels \in 0..MaxCancels
  /\ barred \subseteq Task /\ late \subseteq Transports

\* What a step may do to the locks.
LEMMA LockChanges ==
  ASSUME Types, [Next]_vars
  PROVE  \/ lock' = lock
         \/ \E a \in Actor, g \in Transports :
              \/ lock' = [lock EXCEPT ![g] = Acquired(@, a)]
              \/ lock' = [lock EXCEPT ![g] = Released(@)]
              \/ lock' = [lock EXCEPT ![g] = Acquired(Released(@), a)]
              \/ lock' = [lock EXCEPT ![g] = WithoutWaiter(@, a)]
<1>1. /\ Flow \in Actor /\ Loader \in Actor /\ Task \subseteq Actor
      /\ 0 \in Transports /\ \A a \in Actor : at[a] \in Transports
  BY BoundAssumption DEF Actor, Transports, Types
<1>2. ASSUME NEW a \in Actor, NEW r, Ends(a, r)
      PROVE  \E b \in Actor, g \in Transports :
               \/ lock' = [lock EXCEPT ![g] = Released(@)]
               \/ lock' = [lock EXCEPT ![g] = Acquired(Released(@), b)]
  BY <1>1, <1>2 DEF Ends, FlowCloses, Unlock
<1>3. ASSUME NEW a \in Actor, Step(a)
      PROVE  \/ lock' = lock \/ Ends(a, "ok") \/ Ends(a, "error")
             \/ lock' = [lock EXCEPT ![at[a]] = Released(@)]
             \/ lock' = [lock EXCEPT ![at[a]] = Acquired(Released(@), a)]
  BY <1>3 DEF Step, Begin, OpenFails, Succeeds, Fails, Malformed, Closed, Unlock
<1>4. ASSUME NEW a \in Actor, Cancel(a)
      PROVE  \/ lock' = [lock EXCEPT ![0] = Acquired(Released(@), Flow)]
             \/ lock' = [lock EXCEPT ![at[a]] = WithoutWaiter(@, a)]
  BY <1>4 DEF Cancel, FlowCloses
<1>5. CASE Setup \/ Unload
  <2>1. gen \in Transports /\ (Setup => gen + 1 \in Transports)
    BY BoundAssumption DEF Types, Transports, Setup
  <2> QED
    BY <1>1, <1>5, <2>1 DEF Setup, Unload, Request
<1>6. CASE SaveOptions \/ AddEntry \/ Reconfigure \/ UNCHANGED vars
  BY <1>1, <1>6 DEF SaveOptions, AddEntry, Reconfigure, Tests, Refuses, Request, vars
<1>7. ASSUME NEW t \in Task, Poll(t) \/ Write(t) \/ Cooled(t)
      PROVE  \/ lock' = lock
             \/ lock' = [lock EXCEPT ![gen] = Acquired(@, t)]
             \/ lock' = [lock EXCEPT ![at[t]] = Acquired(@, t)]
  BY <1>7 DEF Poll, Write, Cooled, Request
<1>8. gen \in Transports
  BY DEF Types, Transports
<1> QED
  BY <1>1, <1>2, <1>3, <1>4, <1>5, <1>6, <1>7, <1>8 DEF Next

LEMMA NextKeepsLockTypes ==
  ASSUME Types, LockTypes, [Next]_vars
  PROVE  LockTypes'
BY LockChanges, LocksTyped DEF LockTypes

LEMMA NextKeepsCounts ==
  ASSUME Types, CountTypes, [Next]_vars
  PROVE  CountTypes'
<1>1. /\ Flow \in Actor /\ Loader \in Actor /\ Task \subseteq Actor
      /\ 0 \in 0..PollReads /\ 1 \in 0..PollReads /\ PollReads \in 0..PollReads
  BY BoundAssumption DEF Actor
<1>2. reads' \in [Actor -> 0..PollReads]
  <2>1. \/ reads' = reads
        \/ \E a \in Actor : \/ \E n \in {0, 1, PollReads} : reads' = [reads EXCEPT ![a] = n]
                            \/ reads[a] > 1 /\ reads' = [reads EXCEPT ![a] = @ - 1]
    BY <1>1 DEF Next, Step, Begin, OpenFails, Succeeds, Fails, Malformed, Closed, Ends, Idle,
       FlowCloses, Cancel, Setup, Unload, SaveOptions, AddEntry, Reconfigure, Tests, Refuses,
       Request, Poll, Write, Cooled, vars
  <2>2. ASSUME NEW a \in Actor, reads[a] > 1, reads' = [reads EXCEPT ![a] = @ - 1]
        PROVE  reads' \in [Actor -> 0..PollReads]
    <3>1. reads[a] \in 0..PollReads /\ reads[a] - 1 \in 0..PollReads
      BY <2>2, BoundAssumption DEF CountTypes
    <3> QED
      BY <2>2, <3>1 DEF CountTypes
  <2> QED
    BY <1>1, <2>1, <2>2 DEF CountTypes
<1>3. ops' \in 0..MaxOps /\ cancels' \in 0..MaxCancels
  <2>1. ops' = ops \/ (ops < MaxOps /\ ops' = ops + 1)
    BY DEF Next, Step, Begin, OpenFails, Succeeds, Fails, Malformed, Closed, Cancel, Setup, Unload,
       SaveOptions, AddEntry, Reconfigure, Counted, Poll, Write, Cooled, histVars, vars
  <2>2. cancels' = cancels \/ (cancels < MaxCancels /\ cancels' = cancels + 1)
    BY DEF Next, Step, Begin, OpenFails, Succeeds, Fails, Malformed, Closed, Cancel, Setup, Unload,
       SaveOptions, AddEntry, Reconfigure, Poll, Write, Cooled, histVars, vars
  <2> QED
    BY <2>1, <2>2, BoundAssumption DEF CountTypes
<1>4. barred' \subseteq Task /\ late' \subseteq Transports
  <2>1. barred' = barred \/ \E t \in Task : barred' \subseteq barred \cup {t}
    BY DEF Next, Step, Begin, OpenFails, Succeeds, Fails, Malformed, Closed, Cancel, Setup, Unload,
       SaveOptions, AddEntry, Reconfigure, Poll, Write, Cooled, histVars, vars
  <2>2. late' = late \/ \E a \in Actor : late' = late \cup {at[a]}
    BY DEF Next, Step, Begin, OpenFails, Succeeds, Fails, Malformed, Closed, Cancel, Setup, Unload,
       SaveOptions, AddEntry, Reconfigure, Poll, Write, Cooled, histVars, vars
  <2> QED
    BY <2>1, <2>2 DEF CountTypes, Types
<1> QED
  BY <1>2, <1>3, <1>4 DEF CountTypes

\* Every reachable state is well typed.
THEOREM TypeCorrect == Spec => []TypeOK
<1>1. Init => LockTypes /\ CountTypes
  BY BoundAssumption DEF Init, LockTypes, CountTypes, Locks, Free
<1>2. Inv => Types
  BY DEF Inv
<1>3. Types /\ LockTypes /\ CountTypes => TypeOK
  BY DEF Types, LockTypes, CountTypes, Locks, TypeOK
<1> QED
  BY <1>1, <1>2, <1>3, Invariance, NextKeepsLockTypes, NextKeepsCounts, PTL DEF Spec
=============================================================================

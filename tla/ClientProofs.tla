---------------------------- MODULE ClientProofs ----------------------------
(* No update is lost, updates come in one step and reservations of the     *)
(* cooldown are apart, for every number of tasks, fields and calls, and    *)
(* for all times.                                                          *)
EXTENDS Client, TLAPS

----------------------------------------------------------------------------
(* The inductive invariant *)

IsLock(l) == l = [holder |-> l.holder, queue |-> l.queue]

Types ==
  /\ IsLock(wl) /\ IsLock(pl)
  /\ pc \in [Task -> {"idle", "wantLock", "wantPort"} \cup Timed]
  /\ job \in [Task -> [kind : Kinds \cup {"none"}, want : SUBSET Field, id : 0..MaxOps]]
  /\ ops \in [Task -> Seq({"read", "write"})]
  /\ left \in [Task -> Nat]
  /\ age \in 0..Cooldown
  /\ calls \in 0..MaxOps

DataTypes ==
  /\ snap \in [Task -> Block]
  /\ block \in Block
  /\ session \in [kind : Kinds \cup {"none"}, staged : BOOLEAN, data : Block]
  /\ superseded \subseteq Field \X (0..MaxOps)

AtLine == {"reading", "opened", "desynced", "paid", "committing"}

\* Whoever is past the write lock has it, except a poll, which does not ask for
\* it; whoever is on the line has the port.
HolderInv ==
  \A t \in Task :
    /\ pc[t] \in {"cooling", "wantPort"} \cup AtLine /\ job[t].kind # "poll" => wl.holder = t
    /\ pc[t] \in AtLine => pl.holder = t

\* A call in progress has a number of its own and still something to do;
\* a patch begins with its query, and a poll has nothing but queries.
JobInv ==
  /\ \A t \in Task : pc[t] # "idle" =>
       /\ job[t].id \in 1..calls
       /\ Len(ops[t]) > 0
       /\ pc[t] \in {"wantLock", "cooling"} =>
            job[t].kind # "poll" /\ (job[t].kind = "patch" => Head(ops[t]) = "read")
       /\ pc[t] \in {"opened", "desynced", "paid", "committing"} => job[t].kind # "poll"
       /\ job[t].kind = "poll" => ops[t] \in Seq({"read"})
  /\ \A t, u \in Task :
       pc[t] # "idle" /\ pc[u] # "idle" /\ job[t].id = job[u].id => t = u

\* Whoever cools down wakes up when the cooldown is over.
CoolInv == \A t \in Task : pc[t] = "cooling" => age + left[t] >= Cooldown

Control == Types /\ HolderInv /\ JobInv /\ CoolInv

\* The values that a field has, had, or may get.
Values ==
  {v \in 0..MaxOps : \E f \in Field :
     block[f] = v \/ session.data[f] = v \/ <<f, v>> \in superseded \/ \E t \in Task : snap[t][f] = v}

Unpaid == {"wantLock", "cooling", "wantPort", "reading", "opened", "desynced"}

\* Values are numbers of calls, and a call's own is used by nobody before its payload.
ValueInv ==
  /\ Values \subseteq 0..calls
  /\ \A t \in Task : pc[t] \in Unpaid => job[t].id \notin Values

Clean(b) == \A f \in Field : <<f, b[f]>> \notin superseded

\* A session is of the kind of the write that is at it, and what is staged in it is
\* not out of date.
SessionInv ==
  /\ session.staged /\ session.kind = "patch" => Clean(session.data)
  /\ \A t \in Task : pc[t] \in {"opened", "paid"} => session.kind = job[t].kind

\* Neither is what a patch has read and will write back.
SnapInv ==
  \A t \in Task :
    /\ job[t].kind = "patch"
    /\ pc[t] = "opened" \/ (pc[t] = "wantPort" /\ Head(ops[t]) = "write")
    => Clean(snap[t])

Data == DataTypes /\ ValueInv /\ SessionInv /\ SnapInv /\ NoLostUpdate

----------------------------------------------------------------------------
(* Locks and the end of a call *)

LEMMA LockOperations ==
  ASSUME NEW l, IsLock(l), NEW t \in Task
  PROVE  /\ IsLock(Acquired(l, t)) /\ IsLock(Released(l)) /\ IsLock(Without(l, t))
         /\ \A u \in Task : l.holder = u => Acquired(l, t).holder = u
         /\ \A u \in Task : u # t /\ l.holder = u => Without(l, t).holder = u
<1>1. IsLock(Released(l))
  BY DEF IsLock, Released, Free
<1>2. IsLock(Acquired(l, t)) /\ \A u \in Task : l.holder = u => Acquired(l, t).holder = u
  BY TaskAssumption DEF IsLock, Acquired
<1>3. IsLock(Without(l, t)) /\ \A u \in Task : u # t /\ l.holder = u => Without(l, t).holder = u
  <2>1. CASE l.holder = t
    BY <1>1, <2>1 DEF Without
  <2>2. CASE l.holder # t
    <3> DEFINE q == NotIn(l.queue, t)
    <3>1. Without(l, t) = [l EXCEPT !.queue = q]
      BY <2>2 DEF Without
    <3> HIDE DEF q
    <3> QED
      BY <3>1 DEF IsLock
  <2> QED
    BY <2>1, <2>2
<1> QED
  BY <1>1, <1>2, <1>3

LEMMA LeaveKeepsControl ==
  ASSUME Control, NEW t \in Task, Leave(t), age' = age, calls' = calls
  PROVE  Control'
<1>1. /\ pc' = [pc EXCEPT ![t] = "idle"] /\ job' = [job EXCEPT ![t] = NoJob]
      /\ ops' = [ops EXCEPT ![t] = <<>>] /\ left' = [left EXCEPT ![t] = 0]
  BY DEF Leave, Forget
<1>2. /\ IsLock(wl') /\ IsLock(pl')
      /\ \A u \in Task : u # t /\ wl.holder = u => wl'.holder = u
      /\ \A u \in Task : u # t /\ pl.holder = u => pl'.holder = u
  BY LockOperations DEF Leave, Control, Types
<1>3. Types'
  <2>1. NoJob \in [kind : Kinds \cup {"none"}, want : SUBSET Field, id : 0..MaxOps]
    BY TimeAssumption DEF NoJob
  <2>2. <<>> \in Seq({"read", "write"})
    OBVIOUS
  <2> QED
    BY <1>1, <1>2, <2>1, <2>2 DEF Control, Types
<1>4. HolderInv'
  BY <1>1, <1>2 DEF Control, Types, HolderInv, AtLine
<1>5. JobInv'
  BY <1>1 DEF Control, Types, JobInv
<1>6. CoolInv'
  BY <1>1 DEF Control, Types, CoolInv
<1> QED
  BY <1>3, <1>4, <1>5, <1>6 DEF Control

----------------------------------------------------------------------------
(* The control of each action *)

LEMMA InvokeKeepsControl ==
  ASSUME Control, NEW t \in Task, Invoke(t)
  PROVE  Control'
<1>1. PICK k \in Kinds, w \in SUBSET Field :
        /\ w # {} <=> k = "patch"
        /\ job' = [job EXCEPT ![t] = [kind |-> k, want |-> w, id |-> calls']]
        /\ ops' = [ops EXCEPT ![t] = Steps(k)]
        /\ IF k = "poll"
           THEN pc' = [pc EXCEPT ![t] = "wantPort"] /\ pl' = Acquired(pl, t) /\ wl' = wl
           ELSE pc' = [pc EXCEPT ![t] = "wantLock"] /\ wl' = Acquired(wl, t) /\ pl' = pl
  BY DEF Invoke
<1>2. pc[t] = "idle" /\ calls < MaxOps /\ calls' = calls + 1 /\ UNCHANGED <<left, age>>
  BY DEF Invoke
<1>3. /\ IsLock(wl') /\ IsLock(pl')
      /\ \A u \in Task : wl.holder = u => wl'.holder = u
      /\ \A u \in Task : pl.holder = u => pl'.holder = u
  <2>1. /\ IsLock(Acquired(pl, t)) /\ \A u \in Task : pl.holder = u => Acquired(pl, t).holder = u
        /\ IsLock(Acquired(wl, t)) /\ \A u \in Task : wl.holder = u => Acquired(wl, t).holder = u
    BY LockOperations DEF Control, Types
  <2>2. CASE k = "poll"
    BY <1>1, <2>1, <2>2 DEF Control, Types
  <2>3. CASE k # "poll"
    BY <1>1, <2>1, <2>3 DEF Control, Types
  <2> QED
    BY <2>2, <2>3
<1>4. calls' \in 1..MaxOps /\ calls \in Nat /\ calls' \in 0..MaxOps
  BY <1>2, TimeAssumption DEF Control, Types
<1>5. /\ Steps(k) \in Seq({"read", "write"}) /\ Len(Steps(k)) > 0
      /\ k = "patch" => Head(Steps(k)) = "read"
      /\ k = "poll" => Steps(k) \in Seq({"read"})
  <2>1. CASE k = "poll"
    <3>1. Steps(k) = [n \in 1..PollReads |-> "read"] /\ PollReads \in Nat \ {0}
      BY <2>1, TimeAssumption DEF Steps
    <3>2. Steps(k) \in Seq({"read"}) /\ Steps(k) \in Seq({"read", "write"})
      BY <3>1
    <3>3. Len(Steps(k)) = PollReads
      BY <3>1
    <3>4. PollReads > 0 /\ k # "patch"
      BY <2>1, <3>1
    <3>5. Len(Steps(k)) > 0
      BY <3>3, <3>4
    <3> QED
      BY <3>2, <3>4, <3>5, Zenon
  <2>2. CASE k # "poll"
    <3>1. k \in {"plain", "patch", "raw"}
      BY <2>2, KindsAssumption
    <3>2. CASE k = "plain"
      BY <3>2 DEF Steps
    <3>3. CASE k = "patch"
      BY <3>3 DEF Steps
    <3>4. CASE k = "raw"
      BY <3>4 DEF Steps
    <3> QED
      BY <3>1, <3>2, <3>3, <3>4
  <2> QED
    BY <2>1, <2>2
<1>6. Types'
  <2>1. [kind |-> k, want |-> w, id |-> calls'] \in
          [kind : Kinds \cup {"none"}, want : SUBSET Field, id : 0..MaxOps]
    BY <1>4
  <2> QED
    BY <1>1, <1>2, <1>3, <1>4, <1>5, <2>1 DEF Control, Types
<1>7. HolderInv'
  BY <1>1, <1>3 DEF Control, Types, HolderInv, AtLine
<1>8. JobInv'
  <2>1. \A u \in Task : u # t => pc'[u] = pc[u] /\ job'[u] = job[u] /\ ops'[u] = ops[u]
    BY <1>1 DEF Control, Types
  <2>2. /\ pc'[t] \in {"wantLock", "wantPort"} /\ (pc'[t] = "wantLock" => k # "poll")
        /\ job'[t].kind = k /\ job'[t].id = calls' /\ ops'[t] = Steps(k)
    BY <1>1 DEF Control, Types
  <2>3. \A u \in Task : pc[u] # "idle" => job[u].id \in 1..calls' /\ job[u].id # calls'
    BY <1>2, <1>4 DEF Control, JobInv
  <2>4. \A u \in Task : pc'[u] # "idle" =>
          /\ job'[u].id \in 1..calls'
          /\ Len(ops'[u]) > 0
          /\ pc'[u] \in {"wantLock", "cooling"} =>
               job'[u].kind # "poll" /\ (job'[u].kind = "patch" => Head(ops'[u]) = "read")
          /\ pc'[u] \in {"opened", "desynced", "paid", "committing"} => job'[u].kind # "poll"
          /\ job'[u].kind = "poll" => ops'[u] \in Seq({"read"})
    <3> SUFFICES ASSUME NEW u \in Task, pc'[u] # "idle"
                 PROVE  /\ job'[u].id \in 1..calls'
                        /\ Len(ops'[u]) > 0
                        /\ pc'[u] \in {"wantLock", "cooling"} =>
                             job'[u].kind # "poll" /\ (job'[u].kind = "patch" => Head(ops'[u]) = "read")
                        /\ pc'[u] \in {"opened", "desynced", "paid", "committing"} => job'[u].kind # "poll"
                        /\ job'[u].kind = "poll" => ops'[u] \in Seq({"read"})
      OBVIOUS
    <3>1. CASE u = t
      BY <1>4, <1>5, <2>2, <3>1
    <3>2. CASE u # t
      BY <2>1, <2>3, <3>2 DEF Control, JobInv
    <3> QED
      BY <3>1, <3>2
  <2>5. \A u, v \in Task :
          pc'[u] # "idle" /\ pc'[v] # "idle" /\ job'[u].id = job'[v].id => u = v
    BY <2>1, <2>2, <2>3 DEF Control, JobInv
  <2> QED
    BY <2>4, <2>5 DEF JobInv
<1>9. CoolInv'
  BY <1>1, <1>2 DEF Control, Types, CoolInv
<1> QED
  BY <1>6, <1>7, <1>8, <1>9 DEF Control

\* A call that goes on with the operation it is at.
LEMMA GoesOn ==
  ASSUME Control, NEW t \in Task, NEW p \in {"wantPort"} \cup Timed,
         pc' = [pc EXCEPT ![t] = p], UNCHANGED <<wl, job, ops, calls>>,
         pc[t] # "idle", IsLock(pl'), \A u \in Task : pl.holder = u => pl'.holder = u,
         left' \in [Task -> Nat], \A u \in Task : u # t => left'[u] = left[u],
         age' \in 0..Cooldown, \A u \in Task : u # t /\ pc[u] = "cooling" => age' = age,
         p \in {"cooling", "wantPort"} \cup AtLine /\ job[t].kind # "poll" => wl.holder = t,
         p \in AtLine => pl'.holder = t,
         p = "cooling" => pc[t] = "wantLock" /\ age' + left'[t] >= Cooldown,
         p \in {"opened", "desynced", "paid", "committing"} => job[t].kind # "poll"
  PROVE  Control'
<1>1. \A u \in Task : pc'[u] = IF u = t THEN p ELSE pc[u]
  BY DEF Control, Types
<1>2. Types'
  BY DEF Control, Types
<1>3. HolderInv'
  BY <1>1 DEF Control, HolderInv
<1>4. JobInv'
  <2>1. p # "wantLock" /\ p # "idle"
    BY DEF Timed
  <2> QED
    BY <1>1, <2>1 DEF Control, JobInv
<1>5. CoolInv'
  BY <1>1 DEF Control, CoolInv
<1> QED
  BY <1>2, <1>3, <1>4, <1>5 DEF Control

\* A call that asks for the port.
LEMMA AskingKeepsControl ==
  ASSUME Control, NEW t \in Task, RequestPort(t), UNCHANGED <<wl, job, ops, calls, left>>,
         pc[t] # "idle", job[t].kind # "poll" => wl.holder = t,
         age' \in 0..Cooldown, \A u \in Task : u # t /\ pc[u] = "cooling" => age' = age
  PROVE  Control'
<1>1. pc' = [pc EXCEPT ![t] = "wantPort"] /\ pl' = Acquired(pl, t)
  BY DEF RequestPort
<1>2. IsLock(pl') /\ \A u \in Task : pl.holder = u => pl'.holder = u
  BY <1>1, LockOperations DEF Control, Types
<1>3. left' \in [Task -> Nat] /\ \A u \in Task : u # t => left'[u] = left[u]
  BY DEF Control, Types
<1>4. "wantPort" \notin AtLine /\ "wantPort" \in {"wantPort"} \cup Timed
  BY DEF AtLine
<1> QED
  BY <1>1, <1>2, <1>3, <1>4, GoesOn

LEMMA LockedKeepsControl ==
  ASSUME Control, NEW t \in Task, Locked(t)
  PROVE  Control'
<1>1. /\ pc[t] = "wantLock" /\ wl.holder = t
      /\ UNCHANGED <<wl, job, ops, calls>>
  BY DEF Locked
<1>2. \A u \in Task : u # t => pc[u] # "cooling"
  BY <1>1 DEF Control, HolderInv, JobInv
<1>3. age \in 0..Cooldown /\ Cooldown \in Nat /\ 0 \in 0..Cooldown
  BY TimeAssumption DEF Control, Types
<1>4. CASE RequestPort(t) /\ UNCHANGED <<left, age>>
  BY <1>1, <1>2, <1>3, <1>4, AskingKeepsControl
<1>5. CASE Reserve(t)
  BY <1>1, <1>2, <1>3, <1>5, AskingKeepsControl DEF Reserve
<1>6. CASE /\ age < Cooldown
           /\ pc' = [pc EXCEPT ![t] = "cooling"]
           /\ left' = [left EXCEPT ![t] = Cooldown - age]
           /\ UNCHANGED <<pl, age>>
  <2>1. /\ Cooldown - age \in Nat
        /\ left' \in [Task -> Nat] /\ \A u \in Task : u # t => left'[u] = left[u]
        /\ age' + left'[t] >= Cooldown
    BY <1>3, <1>6 DEF Control, Types
  <2>2. "cooling" \in Timed /\ "cooling" \notin AtLine
    BY DEF Timed, AtLine
  <2>3. IsLock(pl')
    BY <1>6 DEF Control, Types, IsLock
  <2> QED
    BY <1>1, <1>2, <1>3, <1>6, <2>1, <2>2, <2>3, GoesOn
<1> QED
  BY <1>4, <1>5, <1>6 DEF Locked

LEMMA CooledKeepsControl ==
  ASSUME Control, NEW t \in Task, Cooled(t)
  PROVE  Control'
<1>1. /\ pc[t] = "cooling" /\ Reserve(t)
      /\ UNCHANGED <<wl, job, ops, calls>>
  BY DEF Cooled
<1>2. job[t].kind # "poll" /\ wl.holder = t
  BY <1>1 DEF Control, HolderInv, JobInv
<1>3. \A u \in Task : u # t => pc[u] # "cooling"
  BY <1>2 DEF Control, HolderInv, JobInv
<1>4. 0 \in 0..Cooldown
  BY TimeAssumption
<1> QED
  BY <1>1, <1>2, <1>3, <1>4, AskingKeepsControl DEF Reserve

\* A query or a frame of a handshake.
LEMMA LineKeepsControl ==
  ASSUME Control, NEW t \in Task, NEW p \in AtLine, NEW d \in Nat, Wait(t, p, d),
         UNCHANGED <<wl, pl, job, ops, calls, age>>,
         pc[t] \in {"wantPort"} \cup AtLine, pl.holder = t,
         p # "reading" => job[t].kind # "poll"
  PROVE  Control'
<1>1. pc' = [pc EXCEPT ![t] = p] /\ left' = [left EXCEPT ![t] = d]
  BY DEF Wait
<1>2. left' \in [Task -> Nat] /\ \A u \in Task : u # t => left'[u] = left[u]
  BY <1>1 DEF Control, Types
<1>3. job[t].kind # "poll" => wl.holder = t
  BY DEF Control, HolderInv
<1>4. p \in {"wantPort"} \cup Timed /\ p # "cooling" /\ pc[t] # "idle"
  BY DEF AtLine, Timed
<1>5. IsLock(pl') /\ age' \in 0..Cooldown
  BY DEF Control, Types, IsLock
<1> QED
  BY <1>1, <1>2, <1>3, <1>4, <1>5, GoesOn

LEMMA OpenerIsNoPoll ==
  ASSUME Control, NEW t \in Task, AtPort(t, "write")
  PROVE  job[t].kind # "poll"
<1> SUFFICES ASSUME job[t].kind = "poll" PROVE FALSE
  OBVIOUS
<1>1. ops[t] \in Seq({"read"}) /\ Len(ops[t]) > 0
  BY DEF Control, JobInv, AtPort
<1>2. Head(ops[t]) \in {"read"}
  BY <1>1
<1> QED
  BY <1>2 DEF AtPort

LEMMA StartReadKeepsControl ==
  ASSUME Control, NEW t \in Task, StartRead(t)
  PROVE  Control'
<1>1. ReadMax \in Nat /\ "reading" \in AtLine
  BY TimeAssumption DEF AtLine
<1> QED
  BY <1>1, LineKeepsControl DEF StartRead, AtPort

LEMMA OpenKeepsControl ==
  ASSUME Control, NEW t \in Task, Open(t)
  PROVE  Control'
<1>1. Pause \in Nat /\ "opened" \in AtLine /\ "desynced" \in AtLine
  BY TimeAssumption DEF AtLine
<1>2. job[t].kind # "poll"
  BY OpenerIsNoPoll DEF Open
<1>3. /\ UNCHANGED <<wl, pl, job, ops, calls, age>> /\ pc[t] = "wantPort" /\ pl.holder = t
      /\ Wait(t, "opened", Pause) \/ Wait(t, "desynced", Pause)
  BY DEF Open, AtPort
<1> QED
  BY <1>1, <1>2, <1>3, LineKeepsControl

LEMMA PayKeepsControl ==
  ASSUME Control, NEW t \in Task, Pay(t)
  PROVE  Control'
<1>1. Pause \in Nat /\ "opened" \in AtLine /\ "paid" \in AtLine
  BY TimeAssumption DEF AtLine
<1>2. job[t].kind # "poll" /\ pl.holder = t
  BY <1>1 DEF Pay, Control, JobInv, HolderInv
<1> QED
  BY <1>1, <1>2, LineKeepsControl DEF Pay

LEMMA CommitKeepsControl ==
  ASSUME Control, NEW t \in Task, Commit(t)
  PROVE  Control'
<1>1. CommitWait \in Nat /\ "paid" \in AtLine /\ "committing" \in AtLine
  BY TimeAssumption DEF AtLine
<1>2. job[t].kind # "poll" /\ pl.holder = t
  BY <1>1 DEF Commit, Control, JobInv, HolderInv
<1> QED
  BY <1>1, <1>2, LineKeepsControl DEF Commit

LEMMA ReadDoneKeepsControl ==
  ASSUME Control, NEW t \in Task, ReadDone(t)
  PROVE  Control'
<1>1. CASE Leave(t)
  BY <1>1, LeaveKeepsControl DEF ReadDone
<1>2. CASE ~Leave(t)
  <2>1. /\ pc[t] = "reading" /\ Len(ops[t]) # 1
        /\ ops' = [ops EXCEPT ![t] = Tail(@)]
        /\ pl' = Acquired(Released(pl), t)
        /\ pc' = [pc EXCEPT ![t] = "wantPort"] /\ left' = [left EXCEPT ![t] = 0]
        /\ UNCHANGED <<wl, job, age, calls>>
    BY <1>2 DEF ReadDone, Wait
  <2>2. IsLock(pl')
    BY <2>1, LockOperations DEF Control, Types
  <2>3. /\ pl.holder = t
        /\ job[t].kind # "poll" => wl.holder = t
        /\ \A u \in Task : u # t => pc[u] \notin AtLine
    BY <2>1 DEF Control, HolderInv, AtLine
  <2>4. /\ Tail(ops[t]) \in Seq({"read", "write"}) /\ Len(Tail(ops[t])) > 0
        /\ job[t].kind = "poll" => Tail(ops[t]) \in Seq({"read"})
    <3>1. ops[t] \in Seq({"read", "write"}) /\ Len(ops[t]) > 0
      BY <2>1 DEF Control, Types, JobInv
    <3>2. ops[t] # <<>> /\ Len(ops[t]) > 1
      <4>1. Len(ops[t]) \in Nat
        BY <3>1
      <4> DEFINE n == Len(ops[t])
      <4>2. n \in Nat /\ n > 0 /\ n # 1
        BY <2>1, <3>1, <4>1
      <4> HIDE DEF n
      <4>3. n > 1
        BY <4>2
      <4> QED
        BY <4>3 DEF n
    <3>3. Tail(ops[t]) \in Seq({"read", "write"}) /\ Len(Tail(ops[t])) > 0
      BY <3>1, <3>2
    <3>4. ASSUME job[t].kind = "poll" PROVE Tail(ops[t]) \in Seq({"read"})
      <4>1. ops[t] \in Seq({"read"})
        BY <2>1, <3>4 DEF Control, JobInv
      <4> QED
        BY <3>2, <4>1
    <3> QED
      BY <3>3, <3>4
  <2>5. \A u \in Task : u # t => pc'[u] = pc[u] /\ ops'[u] = ops[u]
    BY <2>1 DEF Control, Types
  <2>6. pc'[t] = "wantPort" /\ ops'[t] = Tail(ops[t]) /\ pc[t] # "idle"
    BY <2>1 DEF Control, Types
  <2>7. Types'
    BY <2>1, <2>2, <2>4 DEF Control, Types
  <2>8. HolderInv'
    BY <2>1, <2>3, <2>5, <2>6 DEF Control, HolderInv, AtLine
  <2>9. JobInv'
    BY <2>1, <2>4, <2>5, <2>6 DEF Control, JobInv
  <2>10. CoolInv'
    BY <2>1, <2>5, <2>6 DEF Control, Types, CoolInv
  <2> QED
    BY <2>7, <2>8, <2>9, <2>10 DEF Control
<1> QED
  BY <1>1, <1>2

LEMMA TickKeepsControl ==
  ASSUME Control, Tick
  PROVE  Control'
<1>1. /\ \A u \in Task : pc[u] \in Timed => left[u] > 0
      /\ left' = [u \in Task |-> IF pc[u] \in Timed THEN left[u] - 1 ELSE left[u]]
      /\ age' = Older(age)
      /\ UNCHANGED <<wl, pl, pc, job, ops, calls>>
  BY DEF Tick
<1>2. left' \in [Task -> Nat]
  BY <1>1 DEF Control, Types
<1>3. /\ age' \in 0..Cooldown
      /\ age' = Cooldown \/ age' = age + 1
  BY <1>1, TimeAssumption DEF Control, Types, Older
<1>4. Types'
  BY <1>1, <1>2, <1>3 DEF Control, Types, IsLock
<1>5. HolderInv'
  BY <1>1 DEF Control, HolderInv
<1>6. JobInv'
  BY <1>1 DEF Control, JobInv
<1>7. CoolInv'
  <2> SUFFICES ASSUME NEW u \in Task, pc[u] = "cooling"
               PROVE  age' + left'[u] >= Cooldown
    BY <1>1 DEF CoolInv
  <2>1. left'[u] = left[u] - 1 /\ left[u] \in Nat /\ left[u] > 0 /\ left'[u] \in Nat
    BY <1>1, <1>2 DEF Timed, Control, Types
  <2>2. age + left[u] >= Cooldown /\ age \in 0..Cooldown
    BY DEF Control, CoolInv, Types
  <2> QED
    BY <1>3, <2>1, <2>2, TimeAssumption
<1> QED
  BY <1>4, <1>5, <1>6, <1>7 DEF Control

LEMMA InitControl == Init => Control
<1> SUFFICES ASSUME Init PROVE Control
  OBVIOUS
<1>1. Types
  <2>1. NoJob \in [kind : Kinds \cup {"none"}, want : SUBSET Field, id : 0..MaxOps]
    BY TimeAssumption DEF NoJob
  <2>2. <<>> \in Seq({"read", "write"})
    OBVIOUS
  <2> QED
    BY <2>1, <2>2, TimeAssumption DEF Init, Types, IsLock, Free
<1>2. HolderInv /\ JobInv /\ CoolInv
  BY DEF Init, HolderInv, JobInv, CoolInv, AtLine
<1> QED
  BY <1>1, <1>2 DEF Control

LEMMA NextKeepsControl == Control /\ [Next]_vars => Control'
<1> SUFFICES ASSUME Control, [Next]_vars PROVE Control'
  OBVIOUS
<1>1. CASE UNCHANGED vars
  BY <1>1 DEF vars, Control, Types, IsLock, HolderInv, JobInv, CoolInv
<1>2. CASE Tick
  BY <1>2, TickKeepsControl
<1>3. ASSUME NEW t \in Task, Invoke(t) PROVE Control'
  BY <1>3, InvokeKeepsControl
<1>4. ASSUME NEW t \in Task, Locked(t) \/ Cooled(t) \/ StartRead(t) \/ ReadDone(t)
                               \/ Open(t) \/ Pay(t) \/ Commit(t)
      PROVE  Control'
  BY <1>4, LockedKeepsControl, CooledKeepsControl, StartReadKeepsControl, ReadDoneKeepsControl,
     OpenKeepsControl, PayKeepsControl, CommitKeepsControl
<1>5. ASSUME NEW t \in Task,
             ReadDesynced(t) \/ ReadFails(t) \/ Done(t) \/ Abort(t) \/ Fail(t)
      PROVE  Control'
  <2>1. Leave(t) /\ age' = age /\ calls' = calls
    BY <1>5 DEF ReadDesynced, ReadFails, Done, Abort, Fail
  <2> QED
    BY <2>1, LeaveKeepsControl
<1> QED
  BY <1>1, <1>2, <1>3, <1>4, <1>5 DEF Next, Step

\* A write reserves the cooldown only when all of the last one's is over, whoever
\* else waits, is cancelled or fails (_respect_cooldown, client.py).
THEOREM ReservationsAreApart == Spec => ReservationsApart
<1> DEFINE Reserved(t) ==
      pc[t] \in {"wantLock", "cooling"} /\ pc'[t] = "wantPort" /\ job[t].kind # "raw"
<1>1. ASSUME Control, [Next]_vars, NEW t \in Task, Reserved(t)
      PROVE  age = Cooldown
  <2>1. ~UNCHANGED vars /\ ~Tick
    BY <1>1 DEF vars, Tick
  <2>2. PICK u \in Task : Invoke(u) \/ Step(u) \/ Fail(u)
    BY <1>1, <2>1 DEF Next
  <2>3. CASE Invoke(u)
    <3>1. /\ pc[u] = "idle"
          /\ pc' = [pc EXCEPT ![u] = "wantPort"] \/ pc' = [pc EXCEPT ![u] = "wantLock"]
      BY <2>3 DEF Invoke
    <3>2. pc'[t] # pc[t] => t = u
      BY <1>1, <3>1 DEF Control, Types
    <3> QED
      BY <1>1, <3>1, <3>2
  <2>4. CASE Locked(u)
    <3>1. pc'[t] # pc[t] => t = u
      BY <1>1, <2>4 DEF Locked, Reserve, RequestPort, Control, Types
    <3>2. t = u
      BY <1>1, <3>1
    <3> QED
      BY <1>1, <2>4, <3>2 DEF Locked, Control, Types
  <2>5. CASE Cooled(u)
    <3>1. pc'[t] # pc[t] => t = u
      BY <1>1, <2>5 DEF Cooled, Reserve, RequestPort, Control, Types
    <3>2. pc[t] = "cooling" /\ left[t] = 0
      BY <1>1, <2>5, <3>1 DEF Cooled
    <3> QED
      BY <1>1, <3>2, TimeAssumption DEF Control, Types, CoolInv
  <2>6. CASE StartRead(u) \/ Open(u) \/ Pay(u) \/ Commit(u)
    BY <1>1, <2>6 DEF StartRead, Open, Pay, Commit, AtPort, Wait, Control, Types
  <2>7. CASE Leave(u)
    BY <1>1, <2>7 DEF Leave, Forget, Control, Types
  <2>8. CASE ReadDone(u) /\ ~Leave(u)
    <3>1. pc[u] = "reading" /\ (pc'[t] # pc[t] => t = u)
      <4>1. pc[u] = "reading" /\ pc' = [pc EXCEPT ![u] = "wantPort"]
        BY <2>8 DEF ReadDone, Wait
      <4> QED
        BY <1>1, <4>1 DEF Control, Types
    <3> QED
      BY <1>1, <3>1
  <2>9. CASE ReadDesynced(u) \/ ReadFails(u) \/ Done(u) \/ Abort(u) \/ Fail(u)
    BY <2>7, <2>9 DEF ReadDesynced, ReadFails, Done, Abort, Fail
  <2> QED
    BY <2>2, <2>3, <2>4, <2>5, <2>6, <2>7, <2>8, <2>9 DEF Step
<1>2. Control /\ [Next]_vars => [\A t \in Task : Reserved(t) => age = Cooldown]_vars
  BY <1>1
<1> QED
  BY <1>2, InitControl, NextKeepsControl, PTL DEF Spec, ReservationsApart

----------------------------------------------------------------------------
(* No lost update *)

\* Nobody else is on the line, and whoever else writes waits for the write lock.
LEMMA AloneOnLine ==
  ASSUME Control, NEW t \in Task, pl.holder = t
  PROVE  \A u \in Task : u # t => pc[u] \notin AtLine
BY DEF Control, HolderInv

LEMMA OnlyWriter ==
  ASSUME Control, NEW t \in Task, wl.holder = t
  PROVE  \A u \in Task : u # t /\ pc[u] \in {"wantPort"} \cup AtLine => job[u].kind = "poll"
BY DEF Control, HolderInv

\* The numbers of calls that have not paid stay their own.
LEMMA ValuesKept ==
  ASSUME Control', ValueInv, calls \in Nat, calls' = calls \/ calls' = calls + 1,
         Values' \subseteq Values \cup {0},
         \A u \in Task : pc'[u] \in Unpaid =>
           \/ pc[u] \in Unpaid /\ job'[u].id = job[u].id
           \/ calls' = calls + 1 /\ job'[u].id = calls'
  PROVE  ValueInv'
<1>1. Values \subseteq 0..calls /\ \A u \in Task : pc[u] \in Unpaid => job[u].id \notin Values
  BY DEF ValueInv
<1>2. Values' \subseteq 0..calls'
  BY <1>1
<1>3. ASSUME NEW u \in Task, pc'[u] \in Unpaid
      PROVE  job'[u].id \notin Values'
  <2>1. job'[u].id \in 1..calls'
    BY <1>3 DEF Control, JobInv, Unpaid
  <2>2. job'[u].id # 0
    BY <2>1
  <2>3. CASE pc[u] \in Unpaid /\ job'[u].id = job[u].id
    BY <1>1, <2>2, <2>3
  <2>4. CASE calls' = calls + 1 /\ job'[u].id = calls'
    <3>1. job'[u].id \notin 0..calls
      BY <2>4
    <3> QED
      BY <1>1, <2>2, <3>1
  <2> QED
    BY <1>3, <2>3, <2>4
<1> QED
  BY <1>2, <1>3 DEF ValueInv

\* No value comes from nowhere.
LEMMA ValuesOf ==
  ASSUME \A f \in Field : block'[f] = block[f] \/ block'[f] = session.data[f],
         \A f \in Field : session'.data[f] = session.data[f] \/ session'.data[f] = 0,
         \A u \in Task, f \in Field :
           snap'[u][f] = snap[u][f] \/ snap'[u][f] = block[f] \/ snap'[u][f] = 0,
         \A f \in Field, v \in 0..MaxOps :
           <<f, v>> \in superseded' => <<f, v>> \in superseded \/ v = block[f]
  PROVE  Values' \subseteq Values \cup {0}
<1> SUFFICES ASSUME NEW v \in 0..MaxOps, v \in Values', v # 0 PROVE v \in Values
  BY DEF Values
<1>1. PICK f \in Field :
        block'[f] = v \/ session'.data[f] = v \/ <<f, v>> \in superseded'
          \/ \E u \in Task : snap'[u][f] = v
  BY DEF Values
<1> QED
  BY <1>1 DEF Values

\* A step of a call that touches neither its block nor the controller.
LEMMA DataUntouched ==
  ASSUME Control', Control, Data, NEW t \in Task,
         UNCHANGED <<snap, block, session, superseded, job, ops, calls>>,
         \A u \in Task : u # t => pc'[u] = pc[u],
         pc'[t] \notin {"opened", "paid"}, pc'[t] \in Unpaid => pc[t] \in Unpaid,
         pc'[t] = "wantPort" /\ job[t].kind = "patch" => Head(ops[t]) # "write"
  PROVE  Data'
<1>1. DataTypes' /\ NoLostUpdate'
  BY DEF Data, DataTypes, NoLostUpdate
<1>2. ValueInv'
  <2>1. Values' = Values
    BY DEF Values
  <2>2. calls \in Nat
    BY TimeAssumption DEF Control, Types
  <2>3. \A u \in Task : pc'[u] \in Unpaid => pc[u] \in Unpaid /\ job'[u].id = job[u].id
    OBVIOUS
  <2> QED
    BY <2>1, <2>2, <2>3, ValuesKept DEF Data
<1>3. SessionInv'
  BY DEF Data, SessionInv, Clean
<1>4. SnapInv'
  BY DEF Data, SnapInv, Clean
<1> QED
  BY <1>1, <1>2, <1>3, <1>4 DEF Data

\* A call ends, and drops the session at most.
LEMMA LeaveKeepsData ==
  ASSUME Control', Control, Data, NEW t \in Task, Leave(t),
         UNCHANGED <<block, superseded, calls>>,
         session' = session \/ (session' = NoSession /\ pl.holder = t)
  PROVE  Data'
<1>1. /\ \A u \in Task : u # t => /\ pc'[u] = pc[u] /\ job'[u] = job[u] /\ ops'[u] = ops[u]
                                 /\ snap'[u] = snap[u]
      /\ pc'[t] = "idle" /\ snap'[t] = Initial
  BY DEF Leave, Forget, Control, Types, Data, DataTypes
<1>2. /\ Initial \in Block /\ \A f \in Field : Initial[f] = 0
      /\ NoSession \in [kind : Kinds \cup {"none"}, staged : BOOLEAN, data : Block]
      /\ NoSession.data = Initial /\ NoSession.staged = FALSE
  BY TimeAssumption DEF Initial, Block, NoSession
<1>3. DataTypes' /\ NoLostUpdate'
  <2>1. snap' \in [Task -> Block]
    BY <1>2 DEF Leave, Forget, Data, DataTypes
  <2> QED
    BY <1>2, <2>1 DEF Data, DataTypes, NoLostUpdate
<1>4. ValueInv'
  <2>1. Values' \subseteq Values \cup {0}
    BY <1>1, <1>2, ValuesOf
  <2>2. calls \in Nat
    BY TimeAssumption DEF Control, Types
  <2>3. \A u \in Task : pc'[u] \in Unpaid => pc[u] \in Unpaid /\ job'[u].id = job[u].id
    BY <1>1 DEF Unpaid
  <2> QED
    BY <2>1, <2>2, <2>3, ValuesKept DEF Data
<1>5. SessionInv'
  <2>1. pl.holder = t => \A u \in Task : u # t => pc[u] \notin {"opened", "paid"}
    BY AloneOnLine DEF AtLine
  <2> QED
    BY <1>1, <1>2, <2>1 DEF Data, SessionInv, Clean
<1>6. SnapInv'
  <2> SUFFICES ASSUME NEW u \in Task, u # t, job[u].kind = "patch",
                      pc[u] = "opened" \/ (pc[u] = "wantPort" /\ Head(ops[u]) = "write")
               PROVE  Clean(snap[u])'
    BY <1>1 DEF SnapInv
  <2>1. Clean(snap[u])
    BY DEF Data, SnapInv
  <2> QED
    BY <1>1, <2>1 DEF Clean
<1> QED
  BY <1>3, <1>4, <1>5, <1>6 DEF Data

\* The controller takes over what is staged: nothing of it is out of date, and
\* what it replaces nobody has read for a write.
LEMMA TakeOverKeepsData ==
  ASSUME Control', Control, Data, NEW t \in Task, TakeOver, pl.holder = t, wl.holder = t,
         calls' = calls, pc'[t] \in {"idle", "committing"},
         \A u \in Task : u # t => /\ pc'[u] = pc[u] /\ job'[u] = job[u] /\ ops'[u] = ops[u]
                                /\ snap'[u] = snap[u],
         snap' \in [Task -> Block],
         \A f \in Field : snap'[t][f] = snap[t][f] \/ snap'[t][f] = 0
  PROVE  Data'
<1>1. /\ block' = (IF session.staged /\ session.kind = "patch" THEN session.data ELSE block)
      /\ superseded' = superseded \cup
           {<<f, block[f]>> : f \in {g \in Field : block'[g] # block[g]}}
      /\ session' = NoSession
  BY DEF TakeOver
<1>2. /\ Initial \in Block /\ \A f \in Field : Initial[f] = 0
      /\ NoSession \in [kind : Kinds \cup {"none"}, staged : BOOLEAN, data : Block]
      /\ NoSession.data = Initial /\ NoSession.staged = FALSE
  BY TimeAssumption DEF Initial, Block, NoSession
<1>3. DataTypes'
  <2>1. block' \in Block /\ \A f \in Field : block[f] \in 0..MaxOps
    BY <1>1 DEF Data, DataTypes, Block
  <2>2. superseded' \subseteq Field \X (0..MaxOps)
    BY <1>1, <2>1 DEF Data, DataTypes
  <2> QED
    BY <1>1, <1>2, <2>1, <2>2 DEF DataTypes
<1>4. NoLostUpdate'
  <2> SUFFICES ASSUME NEW f \in Field
               PROVE  <<f, block'[f]>> \notin superseded'
    BY DEF NoLostUpdate
  <2>1. <<f, block'[f]>> \notin superseded
    BY <1>1 DEF Data, NoLostUpdate, SessionInv, Clean
  <2> QED
    BY <1>1, <2>1
<1>5. ValueInv'
  <2>1. \A f \in Field : block'[f] = block[f] \/ block'[f] = session.data[f]
    BY <1>1
  <2>2. \A f \in Field, v \in 0..MaxOps :
          <<f, v>> \in superseded' => <<f, v>> \in superseded \/ v = block[f]
    BY <1>1
  <2>3. Values' \subseteq Values \cup {0}
    BY <1>1, <1>2, <2>1, <2>2, ValuesOf
  <2>4. calls \in Nat
    BY TimeAssumption DEF Control, Types
  <2>5. \A u \in Task : pc'[u] \in Unpaid => pc[u] \in Unpaid /\ job'[u].id = job[u].id
    BY DEF Unpaid
  <2> QED
    BY <2>3, <2>4, <2>5, ValuesKept DEF Data
<1>6. SessionInv'
  <2>1. \A u \in Task : pc'[u] \notin {"opened", "paid"}
    BY AloneOnLine DEF AtLine
  <2> QED
    BY <1>1, <1>2, <2>1 DEF SessionInv
<1>7. SnapInv'
  <2>1. \A u \in Task : u # t /\ pc[u] \in {"opened", "wantPort"} => job[u].kind = "poll"
    BY OnlyWriter DEF AtLine
  <2> QED
    BY <2>1 DEF SnapInv
<1> QED
  BY <1>3, <1>4, <1>5, <1>6, <1>7 DEF Data

LEMMA InvokeKeepsData ==
  ASSUME Control', Control, Data, NEW t \in Task, Invoke(t)
  PROVE  Data'
<1>1. PICK k \in Kinds, w \in SUBSET Field :
        /\ job' = [job EXCEPT ![t] = [kind |-> k, want |-> w, id |-> calls']]
        /\ ops' = [ops EXCEPT ![t] = Steps(k)]
        /\ pc' = [pc EXCEPT ![t] = IF k = "poll" THEN "wantPort" ELSE "wantLock"]
  BY DEF Invoke
<1>2. /\ pc[t] = "idle" /\ calls' = calls + 1
      /\ UNCHANGED <<snap, block, session, superseded>>
  BY DEF Invoke
<1>3. /\ \A u \in Task : u # t => pc'[u] = pc[u] /\ job'[u] = job[u] /\ ops'[u] = ops[u]
      /\ job'[t].kind = k /\ job'[t].id = calls'
      /\ pc'[t] \in {"wantPort", "wantLock"} /\ (pc'[t] = "wantPort" => k = "poll")
  BY <1>1 DEF Control, Types
<1>4. DataTypes' /\ NoLostUpdate'
  BY <1>2 DEF Data, DataTypes, NoLostUpdate
<1>5. ValueInv'
  <2>1. Values' = Values
    BY <1>2 DEF Values
  <2>2. calls \in Nat
    BY TimeAssumption DEF Control, Types
  <2>3. \A u \in Task : pc'[u] \in Unpaid =>
          \/ pc[u] \in Unpaid /\ job'[u].id = job[u].id
          \/ calls' = calls + 1 /\ job'[u].id = calls'
    BY <1>2, <1>3
  <2> QED
    BY <1>2, <2>1, <2>2, <2>3, ValuesKept DEF Data
<1>6. SessionInv'
  BY <1>2, <1>3 DEF Data, SessionInv, Clean
<1>7. SnapInv'
  BY <1>2, <1>3 DEF Data, SnapInv, Clean
<1> QED
  BY <1>4, <1>5, <1>6, <1>7 DEF Data

\* What a patch reads is not out of date.
LEMMA ReadDoneKeepsData ==
  ASSUME Control', Control, Data, NEW t \in Task, ReadDone(t)
  PROVE  Data'
<1>1. CASE Leave(t)
  BY <1>1, LeaveKeepsData DEF ReadDone
<1>2. CASE ~Leave(t)
  <2>1. /\ pc[t] = "reading"
        /\ snap' = [snap EXCEPT ![t] = IF job[t].kind = "patch" THEN block ELSE @]
        /\ ops' = [ops EXCEPT ![t] = Tail(@)]
        /\ pc' = [pc EXCEPT ![t] = "wantPort"]
        /\ UNCHANGED <<job, block, session, superseded, calls>>
    BY <1>2 DEF ReadDone, Wait
  <2>2. /\ \A u \in Task : u # t => /\ pc'[u] = pc[u] /\ ops'[u] = ops[u]
                                   /\ snap'[u] = snap[u]
        /\ pc'[t] = "wantPort"
        /\ snap'[t] = IF job[t].kind = "patch" THEN block ELSE snap[t]
    BY <2>1 DEF Control, Types, Data, DataTypes
  <2>3. DataTypes' /\ NoLostUpdate'
    BY <2>1 DEF Data, DataTypes, NoLostUpdate
  <2>4. ValueInv'
    <3>1. Values' \subseteq Values \cup {0}
      BY <2>1, <2>2, ValuesOf
    <3>2. calls \in Nat
      BY TimeAssumption DEF Control, Types
    <3>3. \A u \in Task : pc'[u] \in Unpaid => pc[u] \in Unpaid /\ job'[u].id = job[u].id
      BY <2>1, <2>2 DEF Unpaid
    <3> QED
      BY <2>1, <3>1, <3>2, <3>3, ValuesKept DEF Data
  <2>5. SessionInv'
    BY <2>1, <2>2 DEF Data, SessionInv, Clean
  <2>6. SnapInv'
    <3> SUFFICES ASSUME NEW u \in Task, job[u].kind = "patch",
                        pc'[u] = "opened" \/ (pc'[u] = "wantPort" /\ Head(ops'[u]) = "write")
                 PROVE  Clean(snap[u])' 
      BY <2>1 DEF SnapInv
    <3>1. CASE u = t
      BY <2>1, <2>2, <3>1 DEF Data, NoLostUpdate, Clean
    <3>2. CASE u # t
      <4>1. Clean(snap[u])
        BY <2>2, <3>2 DEF Data, SnapInv
      <4> QED
        BY <2>1, <2>2, <3>2, <4>1 DEF Clean
    <3> QED
      BY <3>1, <3>2
  <2> QED
    BY <2>3, <2>4, <2>5, <2>6 DEF Data
<1> QED
  BY <1>1, <1>2

LEMMA OpenKeepsData ==
  ASSUME Control', Control, Data, NEW t \in Task, Open(t)
  PROVE  Data'
<1>1. /\ pc[t] = "wantPort" /\ pl.holder = t /\ Head(ops[t]) = "write"
      /\ UNCHANGED <<job, ops, snap, block, superseded, calls>>
      /\ \/ /\ pc' = [pc EXCEPT ![t] = "opened"]
            /\ session' = [NoSession EXCEPT !.kind = job[t].kind]
         \/ /\ pc' = [pc EXCEPT ![t] = "desynced"]
            /\ session' = session
  BY DEF Open, AtPort, Wait
<1>2. /\ \A u \in Task : u # t => pc'[u] = pc[u] /\ pc[u] \notin {"opened", "paid"}
      /\ pc'[t] = "opened" => session' = [NoSession EXCEPT !.kind = job[t].kind]
      /\ pc'[t] \in {"opened", "desynced"}
  BY <1>1, AloneOnLine DEF Control, Types, AtLine
<1>3. job[t].kind \in Kinds \cup {"none"}
  BY DEF Control, Types
<1>4. Initial \in Block /\ \A f \in Field : Initial[f] = 0
  BY TimeAssumption DEF Initial, Block
<1>5. \/ session' = session
      \/ session' = [kind |-> job[t].kind, staged |-> FALSE, data |-> Initial]
  BY <1>1 DEF NoSession
<1>6. session' \in [kind : Kinds \cup {"none"}, staged : BOOLEAN, data : Block]
  <2>1. CASE session' = session
    BY <2>1 DEF Data, DataTypes
  <2>2. CASE session' = [kind |-> job[t].kind, staged |-> FALSE, data |-> Initial]
    BY <1>3, <1>4, <2>2
  <2> QED
    BY <1>5, <2>1, <2>2
<1>7. DataTypes' /\ NoLostUpdate'
  BY <1>1, <1>6 DEF Data, DataTypes, NoLostUpdate
<1>8. ValueInv'
  <2>1. Values' \subseteq Values \cup {0}
    BY <1>1, <1>4, <1>5, ValuesOf
  <2>2. calls \in Nat
    BY TimeAssumption DEF Control, Types
  <2>3. \A u \in Task : pc'[u] \in Unpaid => pc[u] \in Unpaid /\ job'[u].id = job[u].id
    BY <1>1, <1>2 DEF Unpaid
  <2> QED
    BY <1>1, <2>1, <2>2, <2>3, ValuesKept DEF Data
<1>9. SessionInv'
  <2>1. pc'[t] = "opened" => session'.kind = job'[t].kind
    BY <1>1, <1>2 DEF NoSession
  <2> QED
    BY <1>1, <1>2, <1>5, <2>1 DEF Data, SessionInv, Clean
<1>10. SnapInv'
  BY <1>1, <1>2 DEF Data, SnapInv, Clean
<1> QED
  BY <1>7, <1>8, <1>9, <1>10 DEF Data

\* The payload has the number of the call, which is new, and what the call has read.
LEMMA PayKeepsData ==
  ASSUME Control', Control, Data, NEW t \in Task, Pay(t)
  PROVE  Data'
<1>1. /\ pc[t] = "opened" /\ pc' = [pc EXCEPT ![t] = "paid"]
      /\ session' = [session EXCEPT !.staged = TRUE, !.data = Payload(t)]
      /\ UNCHANGED <<job, ops, snap, block, superseded, calls>>
  BY DEF Pay, Wait
<1>2. \A u \in Task : pc'[u] = IF u = t THEN "paid" ELSE pc[u]
  BY <1>1 DEF Control, Types
<1>3. /\ job[t].id \in 0..MaxOps /\ job[t].id \in 1..calls /\ job[t].id \notin Values
      /\ calls \in Nat
  BY <1>1, TimeAssumption DEF Control, Types, JobInv, Data, ValueInv, Unpaid
<1>4. /\ Payload(t) \in Block
      /\ \A f \in Field : Payload(t)[f] = IF f \in job[t].want THEN job[t].id ELSE snap[t][f]
  BY <1>3 DEF Payload, Data, DataTypes, Block
<1>5. /\ session'.staged = TRUE /\ session'.data = Payload(t) /\ session'.kind = session.kind
      /\ session' \in [kind : Kinds \cup {"none"}, staged : BOOLEAN, data : Block]
  BY <1>1, <1>4 DEF Data, DataTypes
<1>6. DataTypes' /\ NoLostUpdate'
  BY <1>1, <1>5 DEF Data, DataTypes, NoLostUpdate
<1>7. ValueInv'
  <2>1. Values' \subseteq Values \cup {job[t].id}
    <3> SUFFICES ASSUME NEW v \in 0..MaxOps, v \in Values', v # job[t].id
                 PROVE  v \in Values
      BY DEF Values
    <3>1. PICK f \in Field :
            block[f] = v \/ Payload(t)[f] = v \/ <<f, v>> \in superseded
              \/ \E u \in Task : snap[u][f] = v
      BY <1>1, <1>5 DEF Values
    <3>2. Payload(t)[f] = v => snap[t][f] = v
      BY <1>4
    <3> QED
      BY <3>1, <3>2 DEF Values
  <2>2. Values' \subseteq 0..calls'
    BY <1>1, <1>3, <2>1 DEF Data, ValueInv
  <2>3. ASSUME NEW u \in Task, pc'[u] \in Unpaid
        PROVE  job'[u].id \notin Values'
    <3>1. u # t /\ pc[u] \in Unpaid
      BY <1>2, <2>3 DEF Unpaid
    <3>2. job[u].id # job[t].id
      BY <1>1, <3>1 DEF Control, JobInv, Unpaid
    <3> QED
      BY <1>1, <2>1, <3>1, <3>2 DEF Data, ValueInv
  <2> QED
    BY <2>2, <2>3 DEF ValueInv
<1>8. SessionInv'
  <2>1. session.kind = job[t].kind
    BY <1>1 DEF Data, SessionInv
  <2>2. ASSUME session.kind = "patch", NEW f \in Field
        PROVE  <<f, Payload(t)[f]>> \notin superseded
    <3>1. CASE f \in job[t].want
      BY <1>3, <1>4, <3>1 DEF Values
    <3>2. CASE f \notin job[t].want
      BY <1>1, <1>4, <2>1, <2>2, <3>2 DEF Data, SnapInv, Clean
    <3> QED
      BY <3>1, <3>2
  <2> QED
    BY <1>1, <1>2, <1>5, <2>1, <2>2 DEF Data, SessionInv, Clean
<1>9. SnapInv'
  BY <1>1, <1>2 DEF Data, SnapInv, Clean
<1> QED
  BY <1>6, <1>7, <1>8, <1>9 DEF Data

LEMMA CommitKeepsData ==
  ASSUME Control', Control, Data, NEW t \in Task, Commit(t)
  PROVE  Data'
<1>1. /\ pc[t] = "paid" /\ TakeOver /\ pc' = [pc EXCEPT ![t] = "committing"]
      /\ UNCHANGED <<job, ops, snap, calls>>
  BY DEF Commit, Wait
<1>2. pl.holder = t /\ wl.holder = t
  BY <1>1 DEF Control, HolderInv, JobInv, AtLine
<1>3. /\ \A u \in Task : u # t => pc'[u] = pc[u]
      /\ pc'[t] = "committing" /\ snap' \in [Task -> Block]
  BY <1>1 DEF Control, Types, Data, DataTypes
<1> QED
  BY <1>1, <1>2, <1>3, TakeOverKeepsData

LEMMA AbortKeepsData ==
  ASSUME Control', Control, Data, NEW t \in Task, Abort(t)
  PROVE  Data'
<1>1. pc[t] = "desynced" /\ Leave(t) /\ calls' = calls
  BY DEF Abort
<1>2. pl.holder = t /\ wl.holder = t
  BY <1>1 DEF Control, HolderInv, JobInv, AtLine
<1>3. CASE session' = NoSession /\ UNCHANGED <<block, superseded>>
  BY <1>1, <1>2, <1>3, LeaveKeepsData
<1>4. CASE TakeOver
  <2>1. /\ pc' = [pc EXCEPT ![t] = "idle"] /\ job' = [job EXCEPT ![t] = NoJob]
        /\ ops' = [ops EXCEPT ![t] = <<>>] /\ snap' = [snap EXCEPT ![t] = Initial]
    BY <1>1 DEF Leave, Forget
  <2>2. Initial \in Block /\ \A f \in Field : Initial[f] = 0
    BY TimeAssumption DEF Initial, Block
  <2>3. /\ \A u \in Task : u # t => /\ pc'[u] = pc[u] /\ job'[u] = job[u] /\ ops'[u] = ops[u]
                                   /\ snap'[u] = snap[u]
        /\ pc'[t] = "idle" /\ snap' \in [Task -> Block] /\ snap'[t] = Initial
    BY <2>1, <2>2 DEF Control, Types, Data, DataTypes
  <2> QED
    BY <1>1, <1>2, <1>4, <2>2, <2>3, TakeOverKeepsData
<1> QED
  BY <1>3, <1>4 DEF Abort

\* The steps that touch neither a block as read nor the controller.
LEMMA ControlKeepsData ==
  ASSUME Control', Control, Data, NEW t \in Task, Locked(t) \/ Cooled(t) \/ StartRead(t)
  PROVE  Data'
<1>1. UNCHANGED <<snap, block, session, superseded, job, ops, calls>>
  BY DEF Locked, Cooled, StartRead
<1>2. CASE Locked(t) \/ Cooled(t)
  <2>1. /\ pc[t] \in {"wantLock", "cooling"}
        /\ pc' = [pc EXCEPT ![t] = "wantPort"] \/ pc' = [pc EXCEPT ![t] = "cooling"]
    BY <1>2 DEF Locked, Cooled, Reserve, RequestPort
  <2>2. /\ \A u \in Task : u # t => pc'[u] = pc[u]
        /\ pc'[t] \in {"wantPort", "cooling"} /\ pc[t] \in Unpaid
    BY <2>1 DEF Control, Types, Unpaid
  <2>3. job[t].kind = "patch" => Head(ops[t]) # "write"
    BY <2>1 DEF Control, JobInv
  <2> QED
    BY <1>1, <2>2, <2>3, DataUntouched
<1>3. CASE StartRead(t)
  <2>1. pc[t] = "wantPort" /\ pc' = [pc EXCEPT ![t] = "reading"]
    BY <1>3 DEF StartRead, AtPort, Wait
  <2>2. /\ \A u \in Task : u # t => pc'[u] = pc[u]
        /\ pc'[t] = "reading" /\ pc[t] \in Unpaid
    BY <2>1 DEF Control, Types, Unpaid
  <2> QED
    BY <1>1, <2>2, DataUntouched
<1> QED
  BY <1>2, <1>3

LEMMA PassingKeepsData ==
  ASSUME Data, UNCHANGED <<pc, job, ops, snap, block, session, superseded, calls>>
  PROVE  Data'
BY DEF Data, DataTypes, ValueInv, Values, SessionInv, SnapInv, NoLostUpdate, Clean

LEMMA InitData == Init => Data
<1> SUFFICES ASSUME Init PROVE Data
  OBVIOUS
<1>1. /\ Initial \in Block /\ \A f \in Field : Initial[f] = 0
      /\ NoSession \in [kind : Kinds \cup {"none"}, staged : BOOLEAN, data : Block]
      /\ NoSession.staged = FALSE /\ NoSession.data = Initial
  BY TimeAssumption DEF Initial, Block, NoSession
<1>2. DataTypes /\ NoLostUpdate
  BY <1>1 DEF Init, DataTypes, NoLostUpdate
<1>3. ValueInv
  <2>1. Values \subseteq {0}
    BY <1>1 DEF Init, Values
  <2> QED
    BY <2>1 DEF Init, ValueInv, Unpaid
<1>4. SessionInv /\ SnapInv
  BY <1>1 DEF Init, SessionInv, SnapInv
<1> QED
  BY <1>2, <1>3, <1>4 DEF Data

LEMMA NextKeepsData == Control /\ Control' /\ Data /\ [Next]_vars => Data'
<1> SUFFICES ASSUME Control, Control', Data, [Next]_vars PROVE Data'
  OBVIOUS
<1>1. CASE UNCHANGED vars \/ Tick
  <2>1. UNCHANGED <<pc, job, ops, snap, block, session, superseded, calls>>
    BY <1>1 DEF vars, Tick
  <2> QED
    BY <2>1, PassingKeepsData
<1>2. ASSUME NEW t \in Task, Invoke(t) \/ Locked(t) \/ Cooled(t) \/ StartRead(t) \/ ReadDone(t)
                               \/ Open(t) \/ Pay(t) \/ Commit(t) \/ Abort(t)
      PROVE  Data'
  BY <1>2, InvokeKeepsData, ControlKeepsData, ReadDoneKeepsData, OpenKeepsData, PayKeepsData,
     CommitKeepsData, AbortKeepsData
<1>3. ASSUME NEW t \in Task, ReadDesynced(t) \/ ReadFails(t) \/ Done(t) \/ Fail(t)
      PROVE  Data'
  <2>1. /\ Leave(t) /\ UNCHANGED <<block, superseded, calls>>
        /\ session' = session \/ (session' = NoSession /\ pl.holder = t)
    BY <1>3 DEF ReadDesynced, ReadFails, Done, Fail, AtPort
  <2> QED
    BY <2>1, LeaveKeepsData
<1> QED
  BY <1>1, <1>2, <1>3 DEF Next, Step

\* No update of a block is lost, whatever polls, cancellations and failures fall
\* between the read and the write of set_heating_curve and set_hysteresis.
THEOREM NoUpdateIsLost == Spec => []NoLostUpdate
<1>1. Data => NoLostUpdate
  BY DEF Data
<1> QED
  BY <1>1, InitControl, InitData, NextKeepsControl, NextKeepsData, PTL DEF Spec

----------------------------------------------------------------------------
(* The client implements AtomicBlock: the inductive invariant *)

\* The session has staged the block with the fields w changed by the call c, which it
\* has nothing of so far.
Stages(c, w) ==
  /\ session.staged /\ session.kind = "patch"
  /\ session.data = [f \in Field |-> IF f \in w THEN c ELSE block[f]]
  /\ w # {} /\ \A f \in Field : block[f] # c

\* Patches change something, and nobody else does.
WantInv ==
  \A t \in Task :
    /\ pc[t] = "idle" => job[t] = NoJob
    /\ job[t].want # {} <=> job[t].kind = "patch"

\* What a patch has read is still the block when it writes it back.
ReadInv ==
  \A t \in Task :
    /\ job[t].kind = "patch"
    /\ pc[t] = "opened" \/ (pc[t] = "wantPort" /\ Head(ops[t]) = "write")
    => snap[t] = block

\* A staged block, also one that a cancelled call has left, is the present one but for
\* what one call changes; behind its own payload and before its 999, a call finds its own.
StagedInv ==
  /\ session.staged /\ session.kind = "patch" =>
       \E c \in CallId, w \in SUBSET Field : Stages(c, w)
  /\ \A t \in Task :
       /\ pc[t] \in {"opened", "committing"} => ~session.staged
       /\ pc[t] = "paid" =>
            session.staged /\ (job[t].kind = "patch" => Stages(job[t].id, job[t].want))

Updates == WantInv /\ ReadInv /\ StagedInv

\* A call that goes on without the controller taking over anything.
LEMMA GoingOnKeepsUpdates ==
  ASSUME Control, Updates, NEW t \in Task, pc[t] # "idle", pc'[t] \notin {"idle", "paid", "committing"},
         UNCHANGED <<job, block>>,
         \A u \in Task : u # t => pc'[u] = pc[u] /\ ops'[u] = ops[u] /\ snap'[u] = snap[u],
         job[t].kind = "patch" /\ (pc'[t] = "opened" \/ (pc'[t] = "wantPort" /\ Head(ops'[t]) = "write"))
           => snap'[t] = block,
         session' = session \/ (~session'.staged /\ pl.holder = t),
         pc'[t] = "opened" => ~session'.staged
  PROVE  Updates'
<1>1. WantInv'
  BY DEF Updates, WantInv
<1>2. ReadInv'
  BY DEF Updates, ReadInv
<1>3. StagedInv'
  <2>1. CASE session' = session
    BY <2>1 DEF Updates, StagedInv, Stages
  <2>2. CASE ~session'.staged /\ pl.holder = t
    <3>1. \A u \in Task : pc'[u] # "paid"
      BY <2>2, AloneOnLine DEF AtLine
    <3> QED
      BY <2>2, <3>1 DEF StagedInv
  <2> QED
    BY <2>1, <2>2
<1> QED
  BY <1>1, <1>2, <1>3 DEF Updates

\* A call that ends and drops the session at most.
LEMMA LeaveKeepsUpdates ==
  ASSUME Control, Data, Updates, NEW t \in Task, Leave(t), block' = block,
         session' = session \/ (session' = NoSession /\ pl.holder = t)
  PROVE  Updates'
<1>1. /\ \A u \in Task : u # t => /\ pc'[u] = pc[u] /\ job'[u] = job[u] /\ ops'[u] = ops[u]
                                 /\ snap'[u] = snap[u]
      /\ pc'[t] = "idle" /\ job'[t] = NoJob
  BY DEF Leave, Forget, Control, Types, Data, DataTypes
<1>2. NoJob.kind = "none" /\ NoJob.want = {} /\ ~NoSession.staged
  BY DEF NoJob, NoSession
<1>3. WantInv'
  <2> SUFFICES ASSUME NEW u \in Task
               PROVE  (pc'[u] = "idle" => job'[u] = NoJob) /\ (job'[u].want # {} <=> job'[u].kind = "patch")
    BY DEF WantInv
  <2>1. CASE u = t
    BY <1>1, <1>2, <2>1
  <2>2. CASE u # t
    BY <1>1, <2>2 DEF Updates, WantInv
  <2> QED
    BY <2>1, <2>2
<1>4. ReadInv'
  BY <1>1, <1>2 DEF Updates, ReadInv
<1>5. StagedInv'
  <2>1. CASE session' = session
    BY <1>1, <2>1 DEF Updates, StagedInv, Stages
  <2>2. CASE session' = NoSession /\ pl.holder = t
    <3>1. \A u \in Task : pc'[u] # "paid"
      BY <1>1, <2>2, AloneOnLine DEF AtLine
    <3> QED
      BY <1>2, <2>2, <3>1 DEF StagedInv
  <2> QED
    BY <2>1, <2>2
<1> QED
  BY <1>3, <1>4, <1>5 DEF Updates

\* The controller takes over what is staged, and the session is over.
LEMMA TakeOverKeepsUpdates ==
  ASSUME Control, Updates, WantInv', NEW t \in Task, TakeOver, pl.holder = t, wl.holder = t,
         pc'[t] \in {"idle", "committing"},
         \A u \in Task : u # t => pc'[u] = pc[u] /\ job'[u] = job[u] /\ ops'[u] = ops[u]
  PROVE  Updates'
<1>1. session' = NoSession /\ ~NoSession.staged
  BY DEF TakeOver, NoSession
<1>2. \A u \in Task : pc'[u] \notin {"opened", "paid"}
  BY AloneOnLine DEF AtLine
<1>3. ReadInv'
  <2>1. \A u \in Task : u # t /\ pc[u] = "wantPort" => job[u].kind = "poll"
    BY OnlyWriter
  <2> QED
    BY <1>2, <2>1 DEF ReadInv
<1>4. StagedInv'
  BY <1>1, <1>2 DEF StagedInv
<1> QED
  BY <1>3, <1>4 DEF Updates

LEMMA InvokeKeepsUpdates ==
  ASSUME Control, Updates, NEW t \in Task, Invoke(t)
  PROVE  Updates'
<1>1. PICK k \in Kinds, w \in SUBSET Field :
        /\ w # {} <=> k = "patch"
        /\ job' = [job EXCEPT ![t] = [kind |-> k, want |-> w, id |-> calls']]
        /\ ops' = [ops EXCEPT ![t] = Steps(k)]
        /\ pc' = [pc EXCEPT ![t] = IF k = "poll" THEN "wantPort" ELSE "wantLock"]
  BY DEF Invoke
<1>2. UNCHANGED <<snap, block, session>>
  BY DEF Invoke
<1>3. /\ \A u \in Task : u # t => pc'[u] = pc[u] /\ job'[u] = job[u] /\ ops'[u] = ops[u]
      /\ job'[t].kind = k /\ job'[t].want = w
      /\ pc'[t] \in {"wantPort", "wantLock"} /\ (pc'[t] = "wantPort" => k = "poll")
  BY <1>1 DEF Control, Types
<1>4. WantInv'
  BY <1>1, <1>3 DEF Updates, WantInv
<1>5. ReadInv'
  BY <1>2, <1>3 DEF Updates, ReadInv
<1>6. StagedInv'
  BY <1>2, <1>3 DEF Updates, StagedInv, Stages
<1> QED
  BY <1>4, <1>5, <1>6 DEF Updates

LEMMA ReadDoneKeepsUpdates ==
  ASSUME Control, Data, Updates, NEW t \in Task, ReadDone(t)
  PROVE  Updates'
<1>1. CASE Leave(t)
  BY <1>1, LeaveKeepsUpdates DEF ReadDone
<1>2. CASE ~Leave(t)
  <2>1. /\ pc[t] = "reading"
        /\ snap' = [snap EXCEPT ![t] = IF job[t].kind = "patch" THEN block ELSE @]
        /\ ops' = [ops EXCEPT ![t] = Tail(@)]
        /\ pc' = [pc EXCEPT ![t] = "wantPort"]
        /\ UNCHANGED <<job, block, session>>
    BY <1>2 DEF ReadDone, Wait
  <2>2. /\ \A u \in Task : u # t => pc'[u] = pc[u] /\ ops'[u] = ops[u] /\ snap'[u] = snap[u]
        /\ pc'[t] = "wantPort"
        /\ job[t].kind = "patch" => snap'[t] = block
    BY <2>1 DEF Control, Types, Data, DataTypes
  <2> QED
    BY <2>1, <2>2, GoingOnKeepsUpdates
<1> QED
  BY <1>1, <1>2

LEMMA OpenKeepsUpdates ==
  ASSUME Control, Updates, NEW t \in Task, Open(t)
  PROVE  Updates'
<1>1. /\ pc[t] = "wantPort" /\ pl.holder = t /\ Head(ops[t]) = "write"
      /\ UNCHANGED <<job, ops, snap, block>>
      /\ \/ /\ pc' = [pc EXCEPT ![t] = "opened"]
            /\ session' = [NoSession EXCEPT !.kind = job[t].kind]
         \/ /\ pc' = [pc EXCEPT ![t] = "desynced"]
            /\ session' = session
  BY DEF Open, AtPort, Wait
<1>2. /\ \A u \in Task : u # t => pc'[u] = pc[u]
      /\ pc'[t] \in {"opened", "desynced"}
      /\ pc'[t] = "opened" => ~session'.staged
      /\ session' = session \/ (~session'.staged /\ pl.holder = t)
  BY <1>1 DEF Control, Types, NoSession
<1>3. job[t].kind = "patch" => snap'[t] = block
  BY <1>1 DEF Updates, ReadInv
<1> QED
  BY <1>1, <1>2, <1>3, GoingOnKeepsUpdates

\* The payload of a patch is the present block but for what it changes, and its number is new.
LEMMA PayKeepsUpdates ==
  ASSUME Control, Data, Updates, NEW t \in Task, Pay(t)
  PROVE  Updates'
<1>1. /\ pc[t] = "opened" /\ pc' = [pc EXCEPT ![t] = "paid"]
      /\ session' = [session EXCEPT !.staged = TRUE, !.data = Payload(t)]
      /\ UNCHANGED <<job, ops, snap, block>>
  BY DEF Pay, Wait
<1>2. /\ \A u \in Task : u # t => pc'[u] = pc[u] /\ pc[u] \notin AtLine
      /\ pc'[t] = "paid"
  BY <1>1, AloneOnLine DEF Control, Types, HolderInv, AtLine
<1>3. /\ session'.staged /\ session'.data = Payload(t) /\ session'.kind = session.kind
      /\ session.kind = job[t].kind
  BY <1>1 DEF Data, DataTypes, SessionInv
<1>4. ASSUME job[t].kind = "patch"
      PROVE  Stages(job[t].id, job[t].want)'
  <2>1. snap[t] = block /\ job[t].want # {}
    BY <1>1, <1>4 DEF Updates, ReadInv, WantInv
  <2>2. session'.data = [f \in Field |-> IF f \in job[t].want THEN job[t].id ELSE block[f]]
    BY <1>3, <2>1 DEF Payload
  <2>3. \A f \in Field : block[f] # job[t].id
    <3>1. job[t].id \notin Values /\ job[t].id \in 0..MaxOps
      BY <1>1 DEF Data, ValueInv, Unpaid, Control, Types
    <3> QED
      BY <3>1 DEF Values
  <2> QED
    BY <1>1, <1>3, <1>4, <2>1, <2>2, <2>3 DEF Stages
<1>5. WantInv' /\ ReadInv'
  BY <1>1, <1>2 DEF Updates, WantInv, ReadInv
<1>6. StagedInv'
  <2>1. /\ job[t].id \in CallId /\ job[t].want \in SUBSET Field
    BY <1>1, TimeAssumption DEF Control, Types, JobInv, CallId
  <2>2. session'.staged /\ session'.kind = "patch" =>
          \E c \in CallId, w \in SUBSET Field : Stages(c, w)'
    <3>1. job[t].kind = "patch" => Stages(job[t].id, job[t].want)' /\ job' = job
      BY <1>1, <1>4
    <3> QED
      BY <1>3, <2>1, <3>1 DEF Stages
  <2>3. \A u \in Task : pc'[u] \notin {"opened", "committing"} /\ (pc'[u] = "paid" => u = t)
    BY <1>2 DEF AtLine
  <2>4. UNCHANGED <<job, Field, CallId>>
    BY <1>1 DEF CallId
  <2> QED
    BY <1>3, <1>4, <2>2, <2>3, <2>4 DEF StagedInv
<1> QED
  BY <1>5, <1>6 DEF Updates

LEMMA CommitKeepsUpdates ==
  ASSUME Control, Updates, NEW t \in Task, Commit(t)
  PROVE  Updates'
<1>1. /\ pc[t] = "paid" /\ TakeOver /\ pc' = [pc EXCEPT ![t] = "committing"]
      /\ UNCHANGED <<job, ops>>
  BY DEF Commit, Wait
<1>2. pl.holder = t /\ wl.holder = t
  BY <1>1 DEF Control, HolderInv, JobInv, AtLine
<1>3. /\ \A u \in Task : u # t => pc'[u] = pc[u]
      /\ pc'[t] = "committing"
  BY <1>1 DEF Control, Types
<1>4. WantInv'
  BY <1>1, <1>3 DEF Updates, WantInv
<1> QED
  BY <1>1, <1>2, <1>3, <1>4, TakeOverKeepsUpdates

LEMMA AbortKeepsUpdates ==
  ASSUME Control, Data, Updates, NEW t \in Task, Abort(t)
  PROVE  Updates'
<1>1. pc[t] = "desynced" /\ Leave(t)
  BY DEF Abort
<1>2. pl.holder = t /\ wl.holder = t
  BY <1>1 DEF Control, HolderInv, JobInv, AtLine
<1>3. CASE session' = NoSession /\ UNCHANGED block
  BY <1>1, <1>2, <1>3, LeaveKeepsUpdates
<1>4. CASE TakeOver
  <2>1. /\ \A u \in Task : u # t => pc'[u] = pc[u] /\ job'[u] = job[u] /\ ops'[u] = ops[u]
        /\ pc'[t] = "idle" /\ job'[t] = NoJob
    BY <1>1 DEF Leave, Forget, Control, Types
  <2>2. NoJob.kind = "none" /\ NoJob.want = {}
    BY DEF NoJob
  <2>3. WantInv'
    BY <2>1, <2>2 DEF Updates, WantInv
  <2> QED
    BY <1>2, <1>4, <2>1, <2>3, TakeOverKeepsUpdates
<1> QED
  BY <1>3, <1>4 DEF Abort

LEMMA InitUpdates == Init => Updates
BY DEF Init, Updates, WantInv, ReadInv, StagedInv, NoJob, NoSession

LEMMA NextKeepsUpdates == Control /\ Data /\ Updates /\ [Next]_vars => Updates'
<1> SUFFICES ASSUME Control, Data, Updates, [Next]_vars PROVE Updates'
  OBVIOUS
<1>1. CASE UNCHANGED vars \/ Tick
  <2>1. UNCHANGED <<pc, job, ops, snap, block, session>>
    BY <1>1 DEF vars, Tick
  <2> QED
    BY <2>1 DEF Updates, WantInv, ReadInv, StagedInv, Stages
<1>2. ASSUME NEW t \in Task, Locked(t) \/ Cooled(t) \/ StartRead(t)
      PROVE  Updates'
  <2>1. /\ UNCHANGED <<job, ops, snap, block, session>>
        /\ pc[t] \in {"wantLock", "cooling", "wantPort"}
        /\ \/ pc' = [pc EXCEPT ![t] = "wantPort"] /\ pc[t] # "wantPort"
           \/ pc' = [pc EXCEPT ![t] = "cooling"] \/ pc' = [pc EXCEPT ![t] = "reading"]
    BY <1>2 DEF Locked, Cooled, StartRead, AtPort, Reserve, RequestPort, Wait
  <2>2. /\ \A u \in Task : u # t => pc'[u] = pc[u]
        /\ pc'[t] \in {"wantPort", "cooling", "reading"}
        /\ pc'[t] = "wantPort" => pc[t] \in {"wantLock", "cooling"}
    BY <2>1 DEF Control, Types
  <2>3. job[t].kind = "patch" /\ pc'[t] = "wantPort" => Head(ops'[t]) # "write"
    BY <2>1, <2>2 DEF Control, JobInv
  <2> QED
    BY <2>1, <2>2, <2>3, GoingOnKeepsUpdates
<1>3. ASSUME NEW t \in Task, Invoke(t) \/ ReadDone(t) \/ Open(t) \/ Pay(t) \/ Commit(t) \/ Abort(t)
      PROVE  Updates'
  BY <1>3, InvokeKeepsUpdates, ReadDoneKeepsUpdates, OpenKeepsUpdates, PayKeepsUpdates,
     CommitKeepsUpdates, AbortKeepsUpdates
<1>4. ASSUME NEW t \in Task, ReadDesynced(t) \/ ReadFails(t) \/ Done(t) \/ Fail(t)
      PROVE  Updates'
  <2>1. /\ Leave(t) /\ UNCHANGED block
        /\ session' = session \/ (session' = NoSession /\ pl.holder = t)
    BY <1>4 DEF ReadDesynced, ReadFails, Done, Fail, AtPort
  <2> QED
    BY <2>1, LeaveKeepsUpdates
<1> QED
  BY <1>1, <1>2, <1>3, <1>4 DEF Next, Step

----------------------------------------------------------------------------
(* What the calls may still change, and how the steps map *)

\* A call in progress that has not committed may still change what it was asked to.
LEMMA PendingOfJob ==
  ASSUME Control, Data, Updates, NEW t \in Task, pc[t] \notin {"idle", "committing"}
  PROVE  Pending(job[t].id) = job[t].want
<1>1. /\ job[t].id \in 0..MaxOps /\ job[t].want \in SUBSET Field
      /\ \A u \in Task : job[u].id = job[t].id => u = t
  <2>1. job[t].id # 0 /\ NoJob.id = 0
    BY DEF Control, JobInv, NoJob
  <2> QED
    BY <2>1 DEF Control, Types, JobInv, Updates, WantInv
<1>2. ASSUME NEW f \in Field, session.staged, session.kind = "patch",
             session.data[f] = job[t].id, block[f] # job[t].id
      PROVE  f \in job[t].want
  <2>1. pc[t] \notin Unpaid
    BY <1>1, <1>2 DEF Data, ValueInv, Values
  <2>2. pc[t] = "paid"
    BY <2>1 DEF Control, Types, Unpaid, Timed
  <2>3. Stages(job[t].id, job[t].want)
    BY <1>2, <2>2 DEF Data, SessionInv, Updates, StagedInv
  <2> QED
    BY <1>2, <2>3 DEF Stages
<1> QED
  BY <1>1, <1>2 DEF Pending

\* What is staged may still change the block, and is of one call; if that is in
\* progress, it has paid.
LEMMA PendingOfSession ==
  ASSUME Control, Data, Updates, NEW c \in CallId, NEW w \in SUBSET Field, Stages(c, w)
  PROVE  /\ Pending(c) = w
         /\ \A f \in Field : session.data[f] = IF f \in w THEN c ELSE block[f]
         /\ \A t \in Task : job[t].id = c => pc[t] = "paid" /\ job[t].want = w
<1>1. /\ session.staged /\ session.kind = "patch" /\ w # {}
      /\ \A f \in Field : session.data[f] = IF f \in w THEN c ELSE block[f]
      /\ \A f \in Field : block[f] # c
  BY DEF Stages
<1>2. c \in Values /\ c # 0
  <2>1. PICK f \in w : TRUE
    BY <1>1
  <2>2. c \in 0..MaxOps /\ c # 0
    BY TimeAssumption DEF CallId
  <2> QED
    BY <1>1, <2>1, <2>2 DEF Values
<1>3. ASSUME NEW t \in Task, job[t].id = c
      PROVE  pc[t] = "paid" /\ job[t].want = w
  <2>1. pc[t] # "idle"
    BY <1>2, <1>3 DEF Updates, WantInv, NoJob
  <2>2. pc[t] \notin Unpaid
    BY <1>2, <1>3 DEF Data, ValueInv
  <2>3. pc[t] # "committing"
    BY <1>1 DEF Updates, StagedInv
  <2>4. pc[t] = "paid"
    BY <2>1, <2>2, <2>3 DEF Control, Types, Unpaid, Timed
  <2>5. Stages(c, job[t].want)
    BY <1>1, <1>3, <2>4 DEF Data, SessionInv, Updates, StagedInv
  <2>6. \A f \in Field : session.data[f] = IF f \in job[t].want THEN c ELSE block[f]
    BY <2>5 DEF Stages
  <2>7. job[t].want \in SUBSET Field
    BY DEF Control, Types
  <2> QED
    BY <1>1, <2>4, <2>6, <2>7
<1>4. Pending(c) = w
  BY <1>1, <1>3 DEF Pending
<1> QED
  BY <1>1, <1>3, <1>4

\* A step that the callers do not see.
LEMMA StepStutters ==
  ASSUME UNCHANGED <<job, block, calls>>,
         \A u \in Task : pc'[u] = "committing" <=> pc[u] = "committing",
         session' = session \/ (~session.staged /\ ~session'.staged)
  PROVE  UNCHANGED Atomic!vars
<1>1. \A c \in CallId : Pending(c)' = Pending(c)
  BY DEF Pending
<1> QED
  BY <1>1 DEF Atomic!vars, CallId

\* A call that ends, and a session that is dropped: their changes never come.
LEMMA LeaveRefines ==
  ASSUME Control, Data, Updates, NEW t \in Task, Leave(t), UNCHANGED <<block, calls>>,
         session' = session \/ session' = NoSession
  PROVE  Atomic!Next
<1>1. /\ \A u \in Task : u # t => pc'[u] = pc[u] /\ job'[u] = job[u]
      /\ job'[t].want = {}
  BY DEF Leave, Forget, NoJob, Control, Types
<1>2. ~NoSession.staged
  BY DEF NoSession
<1>3. ASSUME NEW c \in CallId
      PROVE  Pending(c)' \in {{}, Pending(c)}
  <2>1. Pending(c)' \subseteq Pending(c)
    BY <1>1, <1>2 DEF Pending
  <2>2. CASE \E u \in Task : u # t /\ job[u].id = c /\ pc[u] # "committing"
    <3>1. PICK u \in Task : u # t /\ job[u].id = c /\ pc[u] # "committing"
      BY <2>2
    <3>2. pc[u] # "idle"
      BY <3>1, TimeAssumption DEF Updates, WantInv, NoJob, CallId
    <3>3. Pending(c) = job[u].want /\ job[u].want \in SUBSET Field
      BY <3>1, <3>2, PendingOfJob DEF Control, Types
    <3>4. \A f \in job[u].want : f \in Pending(c)'
      BY <1>1, <3>1, <3>3 DEF Pending
    <3> QED
      BY <2>1, <3>3, <3>4
  <2>3. CASE ~\E u \in Task : u # t /\ job[u].id = c /\ pc[u] # "committing"
    <3>1. Pending(c)' = {f \in Field : session'.staged /\ session'.kind = "patch"
                                         /\ session'.data[f] = c /\ block[f] # c}
      BY <1>1, <2>3 DEF Pending
    <3>2. CASE session' = NoSession
      BY <1>2, <3>1, <3>2
    <3>3. CASE session' = session /\ Pending(c)' # {}
      <4>1. PICK f \in Field : session.staged /\ session.kind = "patch"
                                 /\ session.data[f] = c /\ block[f] # c
        BY <3>1, <3>3
      <4>2. PICK d \in CallId, w \in SUBSET Field : Stages(d, w)
        BY <4>1 DEF Updates, StagedInv
      <4>3. d = c
        BY <4>1, <4>2, PendingOfSession
      <4>4. Pending(c) = w /\ \A g \in w : g \in Pending(c)'
        <5>1. Pending(c) = w /\ \A g \in Field : session.data[g] = IF g \in w THEN c ELSE block[g]
          BY <4>2, <4>3, PendingOfSession
        <5>2. \A g \in Field : block[g] # c
          BY <4>2, <4>3 DEF Stages
        <5> QED
          BY <3>1, <3>3, <4>1, <5>1, <5>2
      <4> QED
        BY <2>1, <4>4
    <3> QED
      BY <3>2, <3>3
  <2> QED
    BY <2>2, <2>3
<1>4. \E C \in SUBSET CallId : Atomic!Drop(C)
  <2> DEFINE C == {c \in CallId : Pending(c)' = {}}
  <2>1. \A c \in CallId : Pending(c)' = IF c \in C THEN {} ELSE Pending(c)
    BY <1>3
  <2>2. [c \in CallId |-> Pending(c)'] =
          [c \in CallId |-> IF c \in C THEN {} ELSE [d \in CallId |-> Pending(d)][c]]
    BY <2>1
  <2>3. UNCHANGED CallId
    BY DEF CallId
  <2>4. Atomic!Drop(C)
    BY <2>2, <2>3 DEF Atomic!Drop
  <2> QED
    BY <2>4
<1> QED
  BY <1>4 DEF Atomic!Next

\* 999 makes the block what is staged, and so the change of one call comes at once.
LEMMA TakeOverRefines ==
  ASSUME Control, Data, Updates, NEW t \in Task, TakeOver, calls' = calls,
         session.staged, session.kind = "patch",
         \A u \in Task : u # t => pc'[u] = pc[u] /\ job'[u] = job[u] /\ pc[u] # "paid",
         \/ pc'[t] = "committing" /\ job'[t] = job[t]
              /\ session.kind = job[t].kind /\ pc[t] = "paid"
         \/ pc[t] # "paid" /\ job[t].want = {} /\ job'[t].want = {}
  PROVE  Atomic!Next
<1>1. PICK c \in CallId, w \in SUBSET Field : Stages(c, w)
  BY DEF Updates, StagedInv
<1>2. /\ Pending(c) = w /\ w # {}
      /\ \A f \in Field : session.data[f] = IF f \in w THEN c ELSE block[f]
      /\ \A u \in Task : job[u].id = c => pc[u] = "paid"
      /\ \A f \in Field : block[f] # c
  BY <1>1, PendingOfSession DEF Stages
<1>3. /\ block' = [f \in Field |-> IF f \in w THEN c ELSE block[f]]
      /\ session' = NoSession /\ ~NoSession.staged
  BY <1>1 DEF TakeOver, Stages, NoSession
<1>4. pc[t] = "paid" => job[t].id = c
  <2>1. CASE pc[t] = "paid"
    <3>1. Stages(job[t].id, job[t].want)
      BY <2>1 DEF Updates, StagedInv
    <3>2. PICK f \in w : TRUE
      BY <1>2
    <3>3. session.data[f] = c /\ block[f] # c
      BY <1>2, <3>2
    <3> QED
      BY <3>1, <3>2, <3>3 DEF Stages
  <2> QED
    BY <2>1
<1>5. Pending(c)' = {}
  <2>1. \A u \in Task : job'[u].id = c /\ pc'[u] # "committing" => job'[u].want = {}
    BY <1>2
  <2> QED
    BY <1>3, <2>1 DEF Pending
<1>6. ASSUME NEW d \in CallId, d # c
      PROVE  Pending(d)' = Pending(d)
  <2>1. \A f \in Field : session.data[f] = d => block[f] = d
    BY <1>2, <1>6
  <2>2. \A u \in Task, f \in Field :
          (job'[u].id = d /\ pc'[u] # "committing" /\ f \in job'[u].want)
            <=> (job[u].id = d /\ pc[u] # "committing" /\ f \in job[u].want)
    BY <1>4, <1>6
  <2> QED
    BY <1>3, <2>1, <2>2 DEF Pending
<1>7. Atomic!Apply(c)
  <2>1. [d \in CallId |-> Pending(d)'] = [[d \in CallId |-> Pending(d)] EXCEPT ![c] = {}]
    BY <1>5, <1>6
  <2>2. [d \in CallId |-> Pending(d)][c] = w
    BY <1>2
  <2>3. UNCHANGED CallId
    BY DEF CallId
  <2> QED
    BY <1>2, <1>3, <2>1, <2>2, <2>3 DEF Atomic!Apply
<1> QED
  BY <1>7 DEF Atomic!Next

LEMMA InvokeRefines ==
  ASSUME Control, Data, Updates, NEW t \in Task, Invoke(t)
  PROVE  Atomic!Next
<1>1. PICK k \in Kinds, w \in SUBSET Field :
        /\ job' = [job EXCEPT ![t] = [kind |-> k, want |-> w, id |-> calls']]
        /\ pc' = [pc EXCEPT ![t] = IF k = "poll" THEN "wantPort" ELSE "wantLock"]
  BY DEF Invoke
<1>2. pc[t] = "idle" /\ calls < MaxOps /\ calls' = calls + 1 /\ UNCHANGED <<block, session>>
  BY DEF Invoke
<1>3. /\ \A u \in Task : u # t => pc'[u] = pc[u] /\ job'[u] = job[u]
      /\ job'[t].want = w /\ job'[t].id = calls' /\ pc'[t] # "committing"
      /\ job[t].want = {}
  BY <1>1, <1>2 DEF Control, Types, Updates, WantInv, NoJob
<1>4. PICK n \in CallId :
        /\ n = calls' /\ n = calls + 1 /\ n \in 0..MaxOps /\ n \notin 0..calls /\ n \notin 1..calls
        /\ 1..calls' = (1..calls) \cup {n}
  <2> DEFINE n == calls + 1
  <2>1. calls \in Nat /\ MaxOps \in Nat /\ calls < MaxOps /\ calls' = n
    BY <1>2, TimeAssumption DEF Control, Types
  <2>2. n \in CallId /\ n \in 0..MaxOps /\ n \notin 0..calls /\ n \notin 1..calls
    BY <2>1 DEF CallId
  <2>3. 1..n = (1..calls) \cup {n}
    BY <2>1
  <2> QED
    BY <2>1, <2>2, <2>3
<1>5. Pending(n)' = w
  <2>1. \A u \in Task : u # t => job'[u].id # n \/ job'[u].want = {}
    <3> SUFFICES ASSUME NEW u \in Task, u # t, job'[u].want # {}
                 PROVE  job'[u].id # n
      OBVIOUS
    <3>1. pc[u] # "idle"
      BY <1>3 DEF Updates, WantInv, NoJob
    <3> QED
      BY <1>3, <1>4, <3>1 DEF Control, JobInv
  <2>2. \A f \in Field : session.data[f] # n
    <3>1. n \notin Values
      BY <1>4 DEF Data, ValueInv
    <3> QED
      BY <1>4, <3>1 DEF Values
  <2>3. Pending(n)' = {f \in Field : f \in w}
    BY <1>2, <1>3, <1>4, <2>1, <2>2 DEF Pending
  <2> QED
    BY <2>3
<1>6. ASSUME NEW d \in CallId, d # n
      PROVE  Pending(d)' = Pending(d)
  BY <1>2, <1>3, <1>4, <1>6 DEF Pending
<1>7. Atomic!Begin(n, w)
  <2>1. [d \in CallId |-> Pending(d)'] = [[d \in CallId |-> Pending(d)] EXCEPT ![n] = w]
    BY <1>4, <1>5, <1>6
  <2>2. UNCHANGED CallId
    BY DEF CallId
  <2> QED
    BY <1>2, <1>4, <2>1, <2>2 DEF Atomic!Begin
<1> QED
  BY <1>4, <1>7 DEF Atomic!Next

\* The 999 of a plain write ends a session in which nothing of a block is staged.
LEMMA CommitRefines ==
  ASSUME Control, Data, Updates, NEW t \in Task, Commit(t)
  PROVE  Atomic!Next \/ UNCHANGED Atomic!vars
<1>1. /\ pc[t] = "paid" /\ TakeOver /\ pc' = [pc EXCEPT ![t] = "committing"]
      /\ UNCHANGED <<job, calls>>
  BY DEF Commit, Wait
<1>2. /\ \A u \in Task : u # t => pc'[u] = pc[u] /\ pc[u] \notin AtLine
      /\ pc'[t] = "committing"
  BY <1>1, AloneOnLine DEF Control, Types, HolderInv, AtLine
<1>3. session.staged /\ session.kind = job[t].kind
  BY <1>1 DEF Data, SessionInv, Updates, StagedInv
<1>4. CASE session.kind = "patch"
  BY <1>1, <1>2, <1>3, <1>4, TakeOverRefines DEF AtLine
<1>5. CASE session.kind # "patch"
  <2>1. block' = block /\ session' = NoSession /\ ~NoSession.staged
    BY <1>1, <1>5 DEF TakeOver, NoSession
  <2>2. job[t].want = {}
    BY <1>3, <1>5 DEF Updates, WantInv
  <2>3. \A c \in CallId : Pending(c)' = Pending(c)
    BY <1>1, <1>2, <1>5, <2>1, <2>2 DEF Pending
  <2> QED
    BY <1>1, <2>1, <2>3 DEF Atomic!vars, CallId
<1> QED
  BY <1>4, <1>5

\* The 999 of an abort may take over what another call has left.
LEMMA AbortRefines ==
  ASSUME Control, Data, Updates, NEW t \in Task, Abort(t)
  PROVE  Atomic!Next
<1>1. pc[t] = "desynced" /\ Leave(t) /\ calls' = calls
  BY DEF Abort
<1>2. \A u \in Task : u # t => pc[u] \notin AtLine
  BY <1>1, AloneOnLine DEF Control, HolderInv, AtLine
<1>3. CASE session' = NoSession /\ UNCHANGED block
  BY <1>1, <1>3, LeaveRefines
<1>4. CASE TakeOver /\ session.kind # job[t].kind
  <2>1. CASE session.staged /\ session.kind = "patch"
    <3>1. /\ \A u \in Task : u # t => pc'[u] = pc[u] /\ job'[u] = job[u]
          /\ job'[t].want = {} /\ job[t].want = {}
      BY <1>1, <1>4, <2>1 DEF Leave, Forget, NoJob, Control, Types, Updates, WantInv
    <3> QED
      BY <1>1, <1>2, <1>4, <2>1, <3>1, TakeOverRefines DEF AtLine
  <2>2. CASE ~(session.staged /\ session.kind = "patch")
    <3>1. block' = block /\ session' = NoSession
      BY <1>4, <2>2 DEF TakeOver
    <3> QED
      BY <1>1, <3>1, LeaveRefines
  <2> QED
    BY <2>1, <2>2
<1> QED
  BY <1>3, <1>4 DEF Abort

\* The steps of a call that only its own task sees.
LEMMA HiddenRefines ==
  ASSUME Control, Data, Updates, NEW t \in Task,
         Locked(t) \/ Cooled(t) \/ StartRead(t) \/ Open(t) \/ Pay(t) \/ (ReadDone(t) /\ ~Leave(t))
  PROVE  UNCHANGED Atomic!vars
<1>1. UNCHANGED <<job, block, calls>>
  BY DEF Locked, Cooled, StartRead, Open, Pay, ReadDone
<1>2. \A u \in Task : pc'[u] = "committing" <=> pc[u] = "committing"
  <2>1. /\ pc[t] # "committing"
        /\ \E p \in {"wantPort", "cooling", "reading", "opened", "desynced", "paid"} :
             pc' = [pc EXCEPT ![t] = p]
    BY DEF Locked, Cooled, StartRead, Open, Pay, ReadDone, AtPort, Reserve, RequestPort, Wait
  <2> QED
    BY <2>1 DEF Control, Types
<1>3. CASE ~Pay(t)
  <2>1. session' = session \/ (~session.staged /\ ~session'.staged)
    BY <1>3 DEF Locked, Cooled, StartRead, Open, ReadDone, NoSession
  <2> QED
    BY <1>1, <1>2, <2>1, StepStutters
<1>4. CASE Pay(t)
  <2>1. pc[t] = "opened" /\ ~session.staged /\ session.kind = job[t].kind
    BY <1>4 DEF Pay, Data, SessionInv, Updates, StagedInv
  <2>2. session'.staged /\ session'.kind = session.kind /\ session'.data = Payload(t)
    BY <1>4 DEF Pay, Data, DataTypes
  <2>3. job[t].kind = "patch" => snap[t] = block
    BY <2>1 DEF Updates, ReadInv
  <2>4. session'.kind = "patch" => \A f \in Field :
          session'.data[f] = IF f \in job[t].want THEN job[t].id ELSE block[f]
    BY <2>1, <2>2, <2>3 DEF Payload
  <2>5. \A c \in CallId : Pending(c)' = Pending(c)
    BY <1>1, <1>2, <2>1, <2>2, <2>4 DEF Pending
  <2> QED
    BY <1>1, <2>5 DEF Atomic!vars, CallId
<1> QED
  BY <1>3, <1>4

\* A patch changes the fields it was asked to in one step or never, for any number of
\* tasks, fields and calls, all times, and whatever polls, raw commands, cancellations
\* and aborts come between its query, its three frames and the controller.
THEOREM UpdatesInOneStep == Spec => UpdatesAreAtomic
<1>1. Init => Atomic!Init
  <2> SUFFICES ASSUME Init PROVE Atomic!Init
    OBVIOUS
  <2>1. \A c \in CallId : Pending(c) = {}
    BY DEF Init, Pending, NoJob, NoSession
  <2> QED
    BY <2>1 DEF Init, Initial, Atomic!Init
<1>2. Control /\ Data /\ Updates /\ [Next]_vars => [Atomic!Next]_(Atomic!vars)
  <2> SUFFICES ASSUME Control, Data, Updates, [Next]_vars
               PROVE  Atomic!Next \/ UNCHANGED Atomic!vars
    OBVIOUS
  <2>1. CASE UNCHANGED vars \/ Tick
    <3>1. UNCHANGED <<pc, job, block, session, calls>>
      BY <2>1 DEF vars, Tick
    <3> QED
      BY <3>1, StepStutters
  <2>2. ASSUME NEW t \in Task, ReadDesynced(t) \/ ReadFails(t) \/ Done(t) \/ Fail(t)
                                 \/ (ReadDone(t) /\ Leave(t))
        PROVE  Atomic!Next
    <3>1. /\ Leave(t) /\ UNCHANGED <<block, calls>>
          /\ session' = session \/ session' = NoSession
      BY <2>2 DEF ReadDesynced, ReadFails, Done, Fail, ReadDone
    <3> QED
      BY <3>1, LeaveRefines
  <2> QED
    BY <2>1, <2>2, InvokeRefines, HiddenRefines, CommitRefines, AbortRefines DEF Next, Step
<1> QED
  BY <1>1, <1>2, InitControl, InitData, InitUpdates, NextKeepsControl, NextKeepsData,
     NextKeepsUpdates, PTL DEF Spec, UpdatesAreAtomic, Atomic!Spec

----------------------------------------------------------------------------
(* The types that the above does without: the tasks in the locks, and the bounds *)

LEMMA QueueTyped ==
  ASSUME NEW q \in Seq(Task), NEW t
  PROVE  NotIn(q, t) \in Seq(Task)
<1>1. CASE \E k \in DOMAIN q : q[k] = t
  <2> DEFINE k == CHOOSE k \in DOMAIN q : q[k] = t
  <2>1. k \in 1..Len(q)
    BY <1>1
  <2> HIDE DEF k
  <2>2. SubSeq(q, 1, k - 1) \in Seq(Task) /\ SubSeq(q, k + 1, Len(q)) \in Seq(Task)
    BY <2>1
  <2>3. NotIn(q, t) = SubSeq(q, 1, k - 1) \o SubSeq(q, k + 1, Len(q))
    BY <1>1 DEF NotIn, Skip, k
  <2> QED
    BY <2>2, <2>3
<1>2. CASE ~\E k \in DOMAIN q : q[k] = t
  BY <1>2 DEF NotIn
<1> QED
  BY <1>1, <1>2

LEMMA LocksTyped ==
  ASSUME NEW l \in Locks, NEW t \in Task
  PROVE  Acquired(l, t) \in Locks /\ Released(l) \in Locks /\ Without(l, t) \in Locks
<1>1. l.holder \in Task \cup {NoTask} /\ l.queue \in Seq(Task)
  BY DEF Locks
<1>2. Released(l) \in Locks
  <2>1. CASE l.queue = <<>>
    BY <2>1 DEF Released, Free, Locks
  <2>2. CASE l.queue # <<>>
    <3>1. Head(l.queue) \in Task /\ Tail(l.queue) \in Seq(Task)
      BY <1>1, <2>2
    <3> QED
      BY <2>2, <3>1 DEF Released, Locks
  <2> QED
    BY <2>1, <2>2
<1>3. Acquired(l, t) \in Locks
  <2>1. Append(l.queue, t) \in Seq(Task)
    BY <1>1
  <2> QED
    BY <2>1 DEF Acquired, Locks
<1>4. Without(l, t) \in Locks
  BY <1>1, <1>2, QueueTyped DEF Without, Locks
<1> QED
  BY <1>2, <1>3, <1>4

LocksAndBounds ==
  wl \in Locks /\ pl \in Locks /\ openAge \in 0..Cooldown /\ faults \in 0..MaxFaults

LEMMA NextKeepsLocksAndBounds ==
  LocksAndBounds /\ [Next]_vars => LocksAndBounds'
<1> SUFFICES ASSUME LocksAndBounds, [Next]_vars PROVE LocksAndBounds'
  OBVIOUS
<1> USE DEF LocksAndBounds
<1>1. wl' \in Locks /\ pl' \in Locks
  <2>1. CASE UNCHANGED vars \/ Tick
    BY <2>1 DEF vars, Tick
  <2>2. ASSUME NEW t \in Task, Leave(t)
        PROVE  wl' \in Locks /\ pl' \in Locks
    BY <2>2, LocksTyped DEF Leave
  <2>3. ASSUME NEW t \in Task, Invoke(t) \/ Locked(t) \/ Cooled(t)
        PROVE  wl' \in Locks /\ pl' \in Locks
    BY <2>3, LocksTyped DEF Invoke, Locked, Cooled, Reserve, RequestPort
  <2>4. ASSUME NEW t \in Task, StartRead(t) \/ Open(t) \/ Pay(t) \/ Commit(t)
        PROVE  wl' \in Locks /\ pl' \in Locks
    BY <2>4 DEF StartRead, Open, Pay, Commit
  <2>5. ASSUME NEW t \in Task, ReadDone(t)
        PROVE  wl' \in Locks /\ pl' \in Locks
    <3>1. CASE wl' = wl /\ pl' = Acquired(Released(pl), t)
      BY <3>1, LocksTyped
    <3> QED
      BY <2>2, <2>5, <3>1 DEF ReadDone
  <2>6. ASSUME NEW t \in Task,
               ReadDesynced(t) \/ ReadFails(t) \/ Done(t) \/ Abort(t) \/ Fail(t)
        PROVE  Leave(t)
    BY <2>6 DEF ReadDesynced, ReadFails, Done, Abort, Fail
  <2> QED
    BY <2>1, <2>2, <2>3, <2>4, <2>5, <2>6 DEF Next, Step
<1>2. openAge' \in 0..Cooldown
  <2>1. openAge' = openAge \/ openAge' = 0 \/ openAge' = Older(openAge)
    BY DEF Next, Step, vars, Tick, Invoke, Locked, Cooled, StartRead, ReadDesynced, ReadDone,
           ReadFails, Open, Pay, Commit, Done, Abort, Fail
  <2> QED
    BY <2>1, TimeAssumption DEF Older
<1>3. faults' \in 0..MaxFaults
  <2>1. faults' = faults \/ (faults < MaxFaults /\ faults' = faults + 1)
    BY DEF Next, Step, vars, Tick, Invoke, Locked, Cooled, StartRead, ReadDesynced, ReadDone,
           ReadFails, Open, Pay, Commit, Done, Abort, Fail
  <2> QED
    BY <2>1, TimeAssumption
<1> QED
  BY <1>1, <1>2, <1>3

\* Every reachable state is well typed.
THEOREM TypeCorrect == Spec => []TypeOK
<1>1. Init => LocksAndBounds
  BY TimeAssumption DEF Init, LocksAndBounds, Free, Locks
<1>2. Control /\ Data /\ LocksAndBounds => TypeOK
  BY DEF Control, Types, Data, DataTypes, LocksAndBounds, TypeOK
<1> QED
  BY <1>1, <1>2, InitControl, InitData, NextKeepsControl, NextKeepsData,
     NextKeepsLocksAndBounds, PTL DEF Spec
=============================================================================

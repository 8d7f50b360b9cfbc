------------------------------ MODULE Controls ------------------------------
(***************************************************************************)
(* What the user sees and sets: the climate entity (climate.py) and the    *)
(* water heater (water_heater.py) over the snapshot that the coordinator   *)
(* polls (coordinator.py).                                                 *)
(*                                                                         *)
(* Home Assistant runs one call at a time on each platform                 *)
(* (PARALLEL_UPDATES = 1).  The transport's lock makes a query or a write  *)
(* one step; a poll is a series of queries, and writes come between them.  *)
(* async_request_refresh only makes the next poll come earlier.            *)
(*                                                                         *)
(* The modes are answers to the poll that shows them, but the water        *)
(* heater's temperature is a field of the overview, and what a poll takes  *)
(* for its overview may be the answer to the one before it (module         *)
(* Snapshot: BlocksAreOwn, OverviewLateness).                              *)
(***************************************************************************)
EXTENDS Naturals, Sequences

CONSTANTS
  Temp,       \* temperatures on the wire
  First,      \* what the controller may hold when the entry has been set up
  MaxCalls,   \* bound: calls of the entities
  MaxPanel,   \* bound: changes at the heat pump's own panel
  MaxFaults   \* bound: writes and polls that fail

Entity == {"climate", "water_heater"}
Mode == 0..5
Fields == {"setpoint", "heating", "dhw", "offset"}

\* The queries of a poll that an entity shows something of, in their order.
Polled == <<"setpoint", "heating", "dhw", "offset">>

Values(f) == IF f \in {"heating", "dhw"} THEN Mode ELSE Temp

FieldValues ==
  {c \in [Fields -> Mode \cup Temp] : \A f \in Fields : c[f] \in Values(f)}

ASSUME TempAssumption == Temp \subseteq Nat /\ Temp # {}
ASSUME FirstAssumption == First \subseteq FieldValues
ASSUME BoundAssumption == MaxCalls \in Nat /\ MaxPanel \in Nat /\ MaxFaults \in Nat

VARIABLES
  ctrl,     \* the controller's values
  data,     \* the coordinator's snapshot of them
  next,     \* the query that a poll does next, or 0
  read,     \* what it has read so far
  asked,    \* the setpoint in the answer to the last query for an overview
  call,     \* the call each entity is in
  chosen,   \* what the user has chosen last, of each value
  since,    \* what has become of it
  truth,    \* the values each field has had since the last poll began
  earlier,  \* those of the setpoint from the poll before it until then
  counts

vars == <<ctrl, data, next, read, asked, call, chosen, since, truth, earlier, counts>>

NoChoice == [op |-> "none", arg |-> "none"]
NoCall == [field |-> "none", value |-> 0, choice |-> NoChoice]

Init ==
  /\ ctrl \in First
  /\ data = ctrl
  /\ next = 0 /\ read = ctrl /\ asked = ctrl.setpoint
  /\ call = [e \in Entity |-> NoCall]
  /\ chosen = [f \in Fields |-> NoChoice] /\ since = [f \in Fields |-> "other"]
  /\ truth = [f \in Fields |-> {ctrl[f]}] /\ earlier = {ctrl.setpoint}
  /\ counts = [calls |-> 0, panel |-> 0, faults |-> 0]

----------------------------------------------------------------------------
(* The modes of const.py and their names *)

AUTO == 0
ZWE == 1
PARTY == 2
HOLIDAY == 3
OFF == 4
OFF_ALT == 5

PresetToMode == [backup_heater |-> ZWE, party |-> PARTY, holiday |-> HOLIDAY]

OperationToMode ==
  [heat_pump |-> AUTO, electric |-> ZWE, performance |-> PARTY, eco |-> HOLIDAY,
   off |-> OFF]

\* Mutant: two operations change places.
OperationSwapped(m) ==
  <<"heat_pump", "electric", "eco", "performance", "off", "off">>[m + 1]

Operation(m) ==
  <<"heat_pump", "electric", "performance", "eco", "off", "off">>[m + 1]

HvacMode(m) == IF m = OFF THEN "off" ELSE IF m = AUTO THEN "auto" ELSE "heat"

HvacToMode(h) == IF h = "off" THEN OFF ELSE IF h = "auto" THEN AUTO ELSE ZWE

PresetMode(m) ==
  IF \E p \in DOMAIN PresetToMode : PresetToMode[p] = m
  THEN CHOOSE p \in DOMAIN PresetToMode : PresetToMode[p] = m
  ELSE "none"

IsOn(m) == m # OFF

----------------------------------------------------------------------------
(* Calls of the entities *)

\* An entity starts to write value v to f, because the user has chosen c.
Start(e, f, v, c) ==
  /\ call[e] = NoCall /\ counts.calls < MaxCalls
  /\ counts' = [counts EXCEPT !.calls = @ + 1]
  /\ call' = [call EXCEPT ![e] = [field |-> f, value |-> v, choice |-> c]]
  /\ UNCHANGED <<ctrl, data, next, read, asked, chosen, since, truth, earlier>>

Choice(o, a) == [op |-> o, arg |-> a]

\* async_set_hvac_mode; async_turn_on and async_turn_off choose auto and off.
SetHvacMode ==
  \E h \in {"auto", "off", "heat"} :
    Start("climate", "heating", HvacToMode(h), Choice("hvac", h))

SetPresetMode ==
  \E p \in DOMAIN PresetToMode :
    Start("climate", "heating", PresetToMode[p], Choice("preset", p))

\* Mutant: the command of the mode is sent.
SetOffsetAsMode == \E v \in Temp : Start("climate", "heating", v, NoChoice)

\* The climate entity writes its temperature to the offset of the curve, and
\* shows the setpoint of the return that the controller makes of the whole curve:
\* there is no value to compare the choice with.
SetOffset == \E v \in Temp : Start("climate", "offset", v, NoChoice)

SetOperationMode ==
  \E o \in DOMAIN OperationToMode :
    Start("water_heater", "dhw", OperationToMode[o], Choice("operation", o))

TurnOn == Start("water_heater", "dhw", AUTO, Choice("power", "on"))
TurnOff == Start("water_heater", "dhw", OFF, Choice("power", "off"))

SetTemperature ==
  \E v \in Temp : Start("water_heater", "setpoint", v, Choice("temperature", v))

\* A field of the controller gets a value, because of choice c.
Change(f, v, c) ==
  /\ ctrl' = [ctrl EXCEPT ![f] = v]
  /\ truth' = [truth EXCEPT ![f] = @ \cup {v}]
  /\ chosen' = [chosen EXCEPT ![f] = c]
  /\ since' = [since EXCEPT ![f] = IF c = NoChoice THEN "other" ELSE "written"]

\* The write is done.
Written(e) ==
  /\ call[e] # NoCall
  /\ Change(call[e].field, call[e].value, call[e].choice)
  /\ call' = [call EXCEPT ![e] = NoCall]
  /\ UNCHANGED <<data, next, read, asked, earlier, counts>>

Fault ==
  /\ counts.faults < MaxFaults
  /\ counts' = [counts EXCEPT !.faults = @ + 1]

\* The write raises, applied or not, and the entity logs it and goes on.
WriteFails(e) ==
  /\ call[e] # NoCall /\ Fault
  /\ \/ Change(call[e].field, call[e].value, NoChoice)
     \/ UNCHANGED <<ctrl, truth, chosen, since>>
  /\ call' = [call EXCEPT ![e] = NoCall]
  /\ UNCHANGED <<data, next, read, asked, earlier>>

\* Somebody changes a value at the heat pump (external).
Panel ==
  /\ counts.panel < MaxPanel
  /\ counts' = [counts EXCEPT !.panel = @ + 1]
  /\ \E f \in Fields : \E v \in Values(f) : Change(f, v, NoChoice)
  /\ UNCHANGED <<data, next, read, asked, earlier, call>>

----------------------------------------------------------------------------
(* Polls *)

\* The fields that are shown of the overview.
OfOverview == {"setpoint"}

\* What a choice has got to when a poll begins.
Begun(s) == IF s = "written" THEN "polled" ELSE IF s = "polled" THEN "polled twice" ELSE s

\* Mutant: once something has failed, no other poll is begun.
StartPollUnlessFailed ==
  /\ next = 0 /\ counts.faults = 0 /\ next' = 1
  /\ truth' = [f \in Fields |-> {ctrl[f]}] /\ earlier' = truth.setpoint
  /\ since' = [f \in Fields |-> Begun(since[f])]
  /\ UNCHANGED <<ctrl, data, read, asked, call, chosen, counts>>

StartPoll ==
  /\ next = 0 /\ next' = 1
  /\ truth' = [f \in Fields |-> {ctrl[f]}] /\ earlier' = truth.setpoint
  /\ since' = [f \in Fields |-> Begun(since[f])]
  /\ UNCHANGED <<ctrl, data, read, asked, call, chosen, counts>>

\* What a query may read of a field: its present value, and of the overview
\* also the answer to the poll before, which that poll has left unread.
Answers(f) == {ctrl[f]} \cup (IF f \in OfOverview THEN {asked} ELSE {})

\* The query for the overview gets an answer of its own, be it read or left.
Answered == asked' = IF Polled[next] \in OfOverview THEN ctrl.setpoint ELSE asked

Query ==
  /\ next \in DOMAIN Polled /\ next' = next + 1
  /\ \E v \in Answers(Polled[next]) : read' = [read EXCEPT ![Polled[next]] = v]
  /\ Answered
  /\ UNCHANGED <<ctrl, data, call, chosen, since, truth, earlier, counts>>

\* Mutant: the snapshot keeps the mode that it had.
KeepsDhw == [read EXCEPT !.dhw = data.dhw]

\* The dictionary that _async_update_data returns.
Snapshot == read

Publish ==
  /\ next = Len(Polled) + 1 /\ next' = 0
  /\ data' = Snapshot
  /\ since' = [f \in Fields |->
                 IF since[f] = "polled twice" \/ (since[f] = "polled" /\ f \notin OfOverview)
                 THEN "shown" ELSE since[f]]
  /\ UNCHANGED <<ctrl, read, asked, call, chosen, truth, earlier, counts>>

\* UpdateFailed: the snapshot stays what it was.
PollFails ==
  /\ next \in DOMAIN Polled /\ Fault /\ next' = 0
  /\ Answered
  /\ UNCHANGED <<ctrl, data, read, call, chosen, since, truth, earlier>>

----------------------------------------------------------------------------
Next ==
  \/ SetHvacMode \/ SetPresetMode \/ SetOffset
  \/ SetOperationMode \/ TurnOn \/ TurnOff \/ SetTemperature
  \/ \E e \in Entity : Written(e) \/ WriteFails(e)
  \/ Panel \/ StartPoll \/ Query \/ Publish \/ PollFails

Spec == Init /\ [][Next]_vars

\* The coordinator polls in an interval, and writes end (module Client).
FairSpec ==
  /\ Spec /\ WF_vars(StartPoll) /\ WF_vars(Query) /\ WF_vars(Publish)
  /\ \A e \in Entity : WF_vars(Written(e))

----------------------------------------------------------------------------
(* Properties *)

Choices ==
  {NoChoice} \cup [op : {"hvac"}, arg : {"auto", "off", "heat"}]
    \cup [op : {"preset"}, arg : DOMAIN PresetToMode]
    \cup [op : {"operation"}, arg : DOMAIN OperationToMode]
    \cup [op : {"power"}, arg : {"on", "off"}] \cup [op : {"temperature"}, arg : Temp]

Calls ==
  {c \in [field : Fields, value : Mode \cup Temp, choice : Choices] :
     c.value \in Values(c.field)}

Stages == {"other", "written", "polled", "polled twice", "shown"}

\* Every variable has its type: the controller never gets a value outside the
\* range of the field that it is written to.
TypeOK ==
  /\ ctrl \in FieldValues /\ data \in FieldValues /\ read \in FieldValues
  /\ next \in 0..(Len(Polled) + 1) /\ asked \in Temp
  /\ call \in [Entity -> {NoCall} \cup Calls]
  /\ chosen \in [Fields -> Choices]
  /\ since \in [Fields -> Stages]
  /\ truth \in [Fields -> SUBSET (Mode \cup Temp)] /\ earlier \subseteq Mode \cup Temp
  /\ counts \in [calls : 0..MaxCalls, panel : 0..MaxPanel, faults : 0..MaxFaults]

\* What a value makes the entities show is what was chosen.
Shows(c, v) ==
  /\ c.op = "hvac" => HvacMode(v) = c.arg
  /\ c.op = "preset" => PresetMode(v) = c.arg /\ HvacMode(v) = "heat"
  /\ c.op = "operation" => Operation(v) = c.arg
  /\ c.op = "power" => (IsOn(v) <=> c.arg = "on")
  /\ c.op = "temperature" => v = c.arg

\* What the user has chosen is shown until something else changes it: a mode
\* from the first snapshot on whose poll began after the write, the water heater's
\* temperature from the first whose poll was the second to begin after it, since
\* that of the first poll may be the overview of the poll before.  Each name of a mode is
\* written and read back as itself, however writes, failures and changes at the
\* panel fall between the queries of the polls.
ChosenIsShown == \A f \in Fields : since[f] = "shown" => Shows(chosen[f], data[f])

\* What a poll may have read of a field.
WasTrue(f) == truth[f] \cup (IF f \in OfOverview THEN earlier ELSE {})

\* A snapshot that is published holds for every mode and block a value that the
\* controller had while the poll ran, not an older one, and for what is taken from the
\* overview one that it had then or since the poll before began, not an older one.
SnapshotWasTrue ==
  [][next' = 0 /\ data' # data => \A f \in Fields : data'[f] \in WasTrue(f)]_vars

\* A choice that has been written is shown in the end, or something else
\* changes the value.
ChoiceGetsShown == \A f \in Fields : since[f] = "written" ~> since[f] \in {"shown", "other"}

\* const.py, HEATING_MODES and HOTWATER_MODES: both modes 4 and 5 are "Off".
OffIsShownAsOff ==
  /\ data.heating \in {OFF, OFF_ALT} => HvacMode(data.heating) = "off"
  /\ data.dhw \in {OFF, OFF_ALT} => ~IsOn(data.dhw)
=============================================================================

--------------------------- MODULE ControlsProofs ---------------------------
(***************************************************************************)
(* What the user has chosen is what the entities show, for any temperatures *)
(* and any number of calls, changes and failures.                          *)
(***************************************************************************)
EXTENDS Controls, TLAPS

\* The field has been read by the poll that is running.
Done(f) == \E k \in DOMAIN Polled : k < next /\ Polled[k] = f

\* What has become of a choice once no poll can read an older value any more.
Settled(f) ==
  IF f \in OfOverview THEN {"polled twice", "shown"} ELSE {"polled", "polled twice", "shown"}

\* A choice goes with the value on every stretch of its way: the call, the
\* controller, the answer for the overview, the poll, the snapshot.
ChoiceInv ==
  /\ \A e \in Entity : Shows(call[e].choice, call[e].value)
  /\ \A f \in Fields : since[f] # "other" => Shows(chosen[f], ctrl[f])
  /\ \A f \in OfOverview :
       since[f] \in Settled(f) \/ (since[f] = "polled" /\ next # 1) => Shows(chosen[f], asked)
  /\ \A f \in Fields : since[f] \in Settled(f) /\ Done(f) => Shows(chosen[f], read[f])
  /\ ChosenIsShown

\* What the poll has read was true since it began, or is the answer to the poll before.
TruthInv ==
  /\ \A f \in Fields : ctrl[f] \in truth[f]
  /\ asked \in (IF next = 1 THEN earlier ELSE truth.setpoint)
  /\ \A f \in Fields : Done(f) => read[f] \in WasTrue(f)

CInv == TypeOK /\ ChoiceInv /\ TruthInv

----------------------------------------------------------------------------
(* The names of the modes *)

\* Every name that can be chosen is shown once its mode is read back.
LEMMA HvacRoundTrip ==
  \A h \in {"auto", "off", "heat"} :
    HvacToMode(h) \in Mode /\ Shows(Choice("hvac", h), HvacToMode(h))
BY DEF HvacToMode, HvacMode, Shows, Choice, Mode, AUTO, OFF, ZWE

\* A preset is shown as that preset, and its mode as "heat".
LEMMA PresetRoundTrip ==
  \A p \in DOMAIN PresetToMode :
    PresetToMode[p] \in Mode /\ Shows(Choice("preset", p), PresetToMode[p])
<1> SUFFICES ASSUME NEW p \in DOMAIN PresetToMode
             PROVE  PresetToMode[p] \in Mode /\ Shows(Choice("preset", p), PresetToMode[p])
  OBVIOUS
<1>1. /\ PresetToMode[p] \in {ZWE, PARTY, HOLIDAY}
      /\ \A q \in DOMAIN PresetToMode : PresetToMode[q] = PresetToMode[p] => q = p
  BY DEF PresetToMode, ZWE, PARTY, HOLIDAY
<1>2. PresetMode(PresetToMode[p]) = p
  BY <1>1 DEF PresetMode
<1>3. HvacMode(PresetToMode[p]) = "heat" /\ PresetToMode[p] \in Mode
  BY <1>1 DEF HvacMode, Mode, AUTO, OFF, ZWE, PARTY, HOLIDAY
<1> QED BY <1>2, <1>3 DEF Shows, Choice

\* So does an operation of the water heater.
LEMMA OperationRoundTrip ==
  \A o \in DOMAIN OperationToMode :
    OperationToMode[o] \in Mode /\ Shows(Choice("operation", o), OperationToMode[o])
BY DEF OperationToMode, Operation, Shows, Choice, Mode, AUTO, ZWE, PARTY, HOLIDAY, OFF

\* The modes of "turn on" and "turn off" are shown as on and off.
LEMMA PowerRoundTrip ==
  Shows(Choice("power", "on"), AUTO) /\ Shows(Choice("power", "off"), OFF)
BY DEF Shows, Choice, IsOn, AUTO, OFF

\* A temperature is its own name, and no choice asks for nothing.
LEMMA TemperatureRoundTrip ==
  \A v : Shows(Choice("temperature", v), v) /\ Shows(NoChoice, v)
BY DEF Shows, Choice, NoChoice

----------------------------------------------------------------------------
(* Types of the parts *)

\* The poll knows four queries, one of each field.
LEMMA PolledFacts ==
  /\ DOMAIN Polled = 1..4 /\ Len(Polled) = 4
  /\ \A k \in 1..4 : Polled[k] \in Fields
  /\ \A f \in Fields : \E k \in 1..4 : Polled[k] = f
  /\ \A j, k \in 1..4 : Polled[j] = Polled[k] => j = k
BY DEF Polled, Fields

\* A field's new value of its own range keeps the record in its type.
LEMMA FieldUpdate ==
  ASSUME NEW c \in FieldValues, NEW f \in Fields, NEW v \in Values(f)
  PROVE  [c EXCEPT ![f] = v] \in FieldValues
BY DEF FieldValues, Values

\* The initial state satisfies the invariant.
LEMMA InitInv == Init => CInv
<1> SUFFICES ASSUME Init PROVE CInv
  OBVIOUS
<1>1. TypeOK
  <2>1. ctrl \in FieldValues /\ data \in FieldValues /\ read \in FieldValues
    BY FirstAssumption DEF Init
  <2>2. next \in 0..(Len(Polled) + 1) /\ asked \in Temp
    BY <2>1, PolledFacts DEF Init, FieldValues, Values, Fields
  <2>3. call \in [Entity -> {NoCall} \cup Calls] /\ chosen \in [Fields -> Choices]
        /\ since \in [Fields -> Stages]
    BY DEF Init, Choices, Stages
  <2>4. truth \in [Fields -> SUBSET (Mode \cup Temp)] /\ earlier \subseteq Mode \cup Temp
    BY <2>1 DEF Init, FieldValues, Fields
  <2>5. counts \in [calls : 0..MaxCalls, panel : 0..MaxPanel, faults : 0..MaxFaults]
    BY BoundAssumption DEF Init
  <2> QED BY <2>1, <2>2, <2>3, <2>4, <2>5 DEF TypeOK, Stages
<1>2. ChoiceInv
  BY TemperatureRoundTrip
     DEF Init, ChoiceInv, ChosenIsShown, NoCall, Settled, OfOverview, Fields
<1>3. TruthInv
  BY PolledFacts DEF Init, TruthInv, Done, Fields
<1> QED BY <1>1, <1>2, <1>3 DEF CInv

----------------------------------------------------------------------------
(* Calls *)

\* A call that asks for the value that its choice stands for.
LEMMA StartInv ==
  ASSUME CInv, NEW e \in Entity, NEW f \in Fields, NEW v \in Values(f),
         NEW c \in Choices, Shows(c, v), Start(e, f, v, c)
  PROVE  CInv'
<1> DEFINE new == [field |-> f, value |-> v, choice |-> c]
<1>1. new \in Calls
  BY DEF Calls, Values
<1>2. /\ call' = [call EXCEPT ![e] = new]
      /\ UNCHANGED <<ctrl, data, next, read, asked, chosen, since, truth, earlier>>
      /\ counts' = [counts EXCEPT !.calls = @ + 1] /\ counts.calls < MaxCalls
  BY DEF Start
<1> HIDE DEF new
<1>3. TypeOK'
  <2>1. call' \in [Entity -> {NoCall} \cup Calls]
    BY <1>1, <1>2 DEF CInv, TypeOK
  <2>2. counts' \in [calls : 0..MaxCalls, panel : 0..MaxPanel, faults : 0..MaxFaults]
    <3>1. counts \in [calls : 0..MaxCalls, panel : 0..MaxPanel, faults : 0..MaxFaults]
      BY DEF CInv, TypeOK
    <3> QED BY <1>2, <3>1, BoundAssumption
  <2> QED BY <1>2, <2>1, <2>2 DEF CInv, TypeOK
<1>4. \A a \in Entity : Shows(call'[a].choice, call'[a].value)
  <2> USE DEF new
  <2> QED BY <1>2 DEF CInv, TypeOK, ChoiceInv
<1>5. ChoiceInv'
  BY <1>2, <1>4 DEF CInv, ChoiceInv, ChosenIsShown, Done, Settled
<1>6. TruthInv'
  BY <1>2 DEF CInv, TruthInv, Done, WasTrue
<1> QED BY <1>3, <1>5, <1>6 DEF CInv

\* Each call of the climate entity is such a call.
LEMMA ClimateInv ==
  ASSUME CInv, SetHvacMode \/ SetPresetMode \/ SetOffset
  PROVE  CInv'
<1>1. CASE SetHvacMode
  <2>1. PICK h \in {"auto", "off", "heat"} :
          Start("climate", "heating", HvacToMode(h), Choice("hvac", h))
    BY <1>1 DEF SetHvacMode
  <2>2. Choice("hvac", h) \in Choices /\ HvacToMode(h) \in Values("heating")
    BY HvacRoundTrip DEF Choice, Choices, Values
  <2> QED BY <2>1, <2>2, HvacRoundTrip, StartInv DEF Entity, Fields
<1>2. CASE SetPresetMode
  <2>1. PICK p \in DOMAIN PresetToMode :
          Start("climate", "heating", PresetToMode[p], Choice("preset", p))
    BY <1>2 DEF SetPresetMode
  <2>2. Choice("preset", p) \in Choices /\ PresetToMode[p] \in Values("heating")
    BY PresetRoundTrip DEF Choice, Choices, Values
  <2> QED BY <2>1, <2>2, PresetRoundTrip, StartInv DEF Entity, Fields
<1>3. CASE SetOffset
  <2>1. PICK v \in Temp : Start("climate", "offset", v, NoChoice)
    BY <1>3 DEF SetOffset
  <2>2. NoChoice \in Choices /\ v \in Values("offset")
    BY DEF Choices, Values
  <2> QED BY <2>1, <2>2, TemperatureRoundTrip, StartInv DEF Entity, Fields
<1> QED BY <1>1, <1>2, <1>3

\* And each call of the water heater.
LEMMA WaterHeaterInv ==
  ASSUME CInv, SetOperationMode \/ TurnOn \/ TurnOff \/ SetTemperature
  PROVE  CInv'
<1>1. CASE SetOperationMode
  <2>1. PICK o \in DOMAIN OperationToMode :
          Start("water_heater", "dhw", OperationToMode[o], Choice("operation", o))
    BY <1>1 DEF SetOperationMode
  <2>2. Choice("operation", o) \in Choices /\ OperationToMode[o] \in Values("dhw")
    BY OperationRoundTrip DEF Choice, Choices, Values
  <2> QED BY <2>1, <2>2, OperationRoundTrip, StartInv DEF Entity, Fields
<1>2. CASE TurnOn
  <2>1. Choice("power", "on") \in Choices /\ AUTO \in Values("dhw")
    BY DEF Choice, Choices, Values, Mode, AUTO
  <2> QED BY <1>2, <2>1, PowerRoundTrip, StartInv DEF TurnOn, Entity, Fields
<1>3. CASE TurnOff
  <2>1. Choice("power", "off") \in Choices /\ OFF \in Values("dhw")
    BY DEF Choice, Choices, Values, Mode, OFF
  <2> QED BY <1>3, <2>1, PowerRoundTrip, StartInv DEF TurnOff, Entity, Fields
<1>4. CASE SetTemperature
  <2>1. PICK v \in Temp : Start("water_heater", "setpoint", v, Choice("temperature", v))
    BY <1>4 DEF SetTemperature
  <2>2. Choice("temperature", v) \in Choices /\ v \in Values("setpoint")
    BY DEF Choice, Choices, Values
  <2> QED BY <2>1, <2>2, TemperatureRoundTrip, StartInv DEF Entity, Fields
<1> QED BY <1>1, <1>2, <1>3, <1>4

----------------------------------------------------------------------------
(* Changes of the controller *)

\* A value that gets to the controller for a choice that it stands for.
LEMMA ChangeInv ==
  ASSUME CInv, NEW f \in Fields, NEW v \in Values(f), NEW c \in Choices,
         Shows(c, v), Change(f, v, c), UNCHANGED <<data, next, read, asked, earlier>>,
         call' \in [Entity -> {NoCall} \cup Calls],
         \A e \in Entity : call'[e] = call[e] \/ call'[e] = NoCall,
         counts' \in [calls : 0..MaxCalls, panel : 0..MaxPanel, faults : 0..MaxFaults]
  PROVE  CInv'
<1>1. /\ ctrl' = [ctrl EXCEPT ![f] = v]
      /\ truth' = [truth EXCEPT ![f] = @ \cup {v}]
      /\ chosen' = [chosen EXCEPT ![f] = c]
      /\ since' = [since EXCEPT ![f] = IF c = NoChoice THEN "other" ELSE "written"]
  BY DEF Change
<1>2. TypeOK'
  <2>1. ctrl' \in FieldValues
    BY <1>1, FieldUpdate DEF CInv, TypeOK
  <2>2. truth' \in [Fields -> SUBSET (Mode \cup Temp)]
    BY <1>1 DEF CInv, TypeOK, Values
  <2>3. chosen' \in [Fields -> Choices]
        /\ since' \in [Fields -> Stages]
    BY <1>1 DEF CInv, TypeOK, Stages
  <2> QED BY <2>1, <2>2, <2>3 DEF CInv, TypeOK
<1>3. /\ since \in [Fields -> Stages]
      /\ ctrl \in [Fields -> Mode \cup Temp] /\ chosen \in [Fields -> Choices]
      /\ truth \in [Fields -> SUBSET (Mode \cup Temp)]
  BY DEF CInv, TypeOK, FieldValues, Stages
<1>4. \A e \in Entity : Shows(call'[e].choice, call'[e].value)
  BY TemperatureRoundTrip DEF CInv, ChoiceInv, NoCall
<1>5. ASSUME NEW g \in Fields
      PROVE  since'[g] # "other" => Shows(chosen'[g], ctrl'[g])
  BY <1>1, <1>3, <1>5 DEF CInv, ChoiceInv
<1>6. ASSUME NEW g \in Fields, since'[g] \in {"polled", "polled twice", "shown"}
      PROVE  since'[g] = since[g] /\ chosen'[g] = chosen[g]
  BY <1>1, <1>3, <1>6
<1>7. ASSUME NEW g \in Fields
      PROVE  ctrl'[g] \in truth'[g] /\ truth[g] \subseteq truth'[g]
  BY <1>1, <1>3, <1>7 DEF CInv, TruthInv
<1>8. \A g \in Fields : (Done(g)' <=> Done(g)) /\ WasTrue(g) \subseteq WasTrue(g)'
  BY <1>7 DEF Done, WasTrue
<1>9. ChoiceInv'
  BY <1>4, <1>5, <1>6, <1>8
     DEF CInv, ChoiceInv, ChosenIsShown, Settled, OfOverview, Fields
<1>10. TruthInv'
  BY <1>7, <1>8 DEF CInv, TruthInv, Fields
<1> QED BY <1>2, <1>9, <1>10 DEF CInv

\* What a call or its failure writes is what was asked for, or nothing.
LEMMA WriteInv ==
  ASSUME CInv, NEW e \in Entity, Written(e) \/ WriteFails(e)
  PROVE  CInv'
<1> DEFINE c == call[e]
<1>1. /\ c # NoCall /\ c \in Calls /\ Shows(c.choice, c.value)
      /\ call' = [call EXCEPT ![e] = NoCall]
      /\ UNCHANGED <<data, next, read, asked, earlier>>
  BY DEF CInv, TypeOK, ChoiceInv, Written, WriteFails
<1>2. /\ c.field \in Fields /\ c.value \in Values(c.field) /\ c.choice \in Choices
      /\ NoChoice \in Choices /\ Shows(NoChoice, c.value)
  BY <1>1, TemperatureRoundTrip DEF Calls, Choices
<1>3. /\ call' \in [Entity -> {NoCall} \cup Calls]
      /\ \A a \in Entity : call'[a] = call[a] \/ call'[a] = NoCall
  BY <1>1 DEF CInv, TypeOK
<1>4. counts' \in [calls : 0..MaxCalls, panel : 0..MaxPanel, faults : 0..MaxFaults]
  <2>1. counts \in [calls : 0..MaxCalls, panel : 0..MaxPanel, faults : 0..MaxFaults]
    BY DEF CInv, TypeOK
  <2>2. CASE Written(e)
    BY <2>1, <2>2 DEF Written
  <2>3. CASE WriteFails(e)
    BY <2>1, <2>3, BoundAssumption DEF WriteFails, Fault
  <2> QED BY <2>2, <2>3
<1>5. CASE Change(c.field, c.value, c.choice) \/ Change(c.field, c.value, NoChoice)
  <2> HIDE DEF c
  <2> QED BY <1>1, <1>2, <1>3, <1>4, <1>5, ChangeInv
<1>6. CASE UNCHANGED <<ctrl, truth, chosen, since>>
  <2>1. TypeOK'
    BY <1>1, <1>3, <1>4, <1>6 DEF CInv, TypeOK
  <2>2. \A a \in Entity : Shows(call'[a].choice, call'[a].value)
    BY <1>3, TemperatureRoundTrip DEF CInv, ChoiceInv, NoCall
  <2> QED BY <1>1, <1>6, <2>1, <2>2
          DEF CInv, ChoiceInv, ChosenIsShown, TruthInv, Done, Settled, WasTrue
<1> QED BY <1>5, <1>6 DEF Written, WriteFails

\* A change at the panel is nobody's choice.
LEMMA PanelInv == CInv /\ Panel => CInv'
<1> SUFFICES ASSUME CInv, Panel PROVE CInv'
  OBVIOUS
<1>1. PICK f \in Fields : \E v \in Values(f) : Change(f, v, NoChoice)
  BY DEF Panel
<1>2. PICK v \in Values(f) : Change(f, v, NoChoice)
  BY <1>1
<1>3. NoChoice \in Choices /\ Shows(NoChoice, v)
  BY TemperatureRoundTrip DEF Choices
<1>4. counts' \in [calls : 0..MaxCalls, panel : 0..MaxPanel, faults : 0..MaxFaults]
  <2>1. counts \in [calls : 0..MaxCalls, panel : 0..MaxPanel, faults : 0..MaxFaults]
    BY DEF CInv, TypeOK
  <2> QED BY <2>1, BoundAssumption DEF Panel
<1>5. UNCHANGED <<data, next, read, asked, earlier, call>> /\ call' \in [Entity -> {NoCall} \cup Calls]
  BY DEF CInv, TypeOK, Panel
<1> QED BY <1>2, <1>3, <1>4, <1>5, ChangeInv

----------------------------------------------------------------------------
(* Polls *)

\* A poll begins with nothing read.
LEMMA StartPollInv == CInv /\ StartPoll => CInv'
<1> SUFFICES ASSUME CInv, StartPoll PROVE CInv'
  OBVIOUS
<1>1. /\ next = 0 /\ next' = 1 /\ truth' = [f \in Fields |-> {ctrl[f]}]
      /\ earlier' = truth.setpoint
      /\ since' = [f \in Fields |-> Begun(since[f])]
      /\ UNCHANGED <<ctrl, data, read, asked, call, chosen, counts>>
  BY DEF StartPoll
<1>2. TypeOK'
  <2>1. next' \in 0..(Len(Polled) + 1)
    BY <1>1, PolledFacts
  <2>2. truth' \in [Fields -> SUBSET (Mode \cup Temp)] /\ earlier' \subseteq Mode \cup Temp
    BY <1>1 DEF CInv, TypeOK, FieldValues, Fields
  <2>3. since' \in [Fields -> Stages]
    BY <1>1 DEF CInv, TypeOK, Stages, Begun
  <2> QED BY <1>1, <2>1, <2>2, <2>3 DEF CInv, TypeOK, Stages
<1>3. next # 1 /\ \A f \in Fields : ~ Done(f)'
  BY <1>1, PolledFacts DEF Done
<1>4. ASSUME NEW f \in Fields
      PROVE  /\ since'[f] # "other" => since[f] # "other"
             /\ since'[f] = "shown" => since[f] = "shown"
             /\ since'[f] = "polled twice" => since[f] \in {"polled", "polled twice"}
  BY <1>1, <1>4 DEF Begun
<1>5. ASSUME NEW f \in OfOverview, since'[f] \in Settled(f)' \/ (since'[f] = "polled" /\ next' # 1)
      PROVE  Shows(chosen'[f], asked')
  <2>1. f \in Fields /\ since'[f] \in {"polled twice", "shown"}
    BY <1>1, <1>5 DEF Settled, OfOverview, Fields
  <2>2. since[f] \in Settled(f) \/ (since[f] = "polled" /\ next # 1)
    BY <1>3, <1>4, <2>1 DEF Settled
  <2> QED BY <1>1, <2>2 DEF CInv, ChoiceInv
<1>6. ChoiceInv'
  BY <1>1, <1>3, <1>4, <1>5 DEF CInv, ChoiceInv, ChosenIsShown
<1>7. TruthInv'
  BY <1>1, <1>3 DEF CInv, TruthInv
<1> QED BY <1>2, <1>6, <1>7 DEF CInv

\* What the last poll asked for its overview is a temperature, one that shows the choice
\* if there is one, and true since the poll began.
LEMMA AnsweredInv ==
  ASSUME CInv, next \in DOMAIN Polled, next' # 1, Answered,
         UNCHANGED <<ctrl, chosen, since, truth, earlier>>
  PROVE  /\ asked' \in Temp /\ asked' \in truth'.setpoint
         /\ \A f \in OfOverview :
              since'[f] \in {"polled", "polled twice", "shown"} => Shows(chosen'[f], asked')
<1>1. (next = 1 /\ asked' = ctrl.setpoint) \/ (next # 1 /\ asked' = asked)
  BY PolledFacts DEF Answered, OfOverview, Polled
<1>2. ctrl.setpoint \in Temp /\ asked \in Temp
  BY DEF CInv, TypeOK, FieldValues, Values, Fields
<1>3. CASE next = 1 /\ asked' = ctrl.setpoint
  BY <1>2, <1>3 DEF CInv, ChoiceInv, TruthInv, OfOverview, Fields
<1>4. CASE next # 1 /\ asked' = asked
  BY <1>2, <1>4 DEF CInv, ChoiceInv, TruthInv, OfOverview, Settled, Fields
<1> QED BY <1>1, <1>3, <1>4

\* A query reads what is true now, or of the overview what the last poll asked
\* for, and the other fields stay read or unread.
LEMMA QueryInv == CInv /\ Query => CInv'
<1> SUFFICES ASSUME CInv, Query PROVE CInv'
  OBVIOUS
<1> DEFINE q == Polled[next]
<1>1. /\ next \in 1..4 /\ next' = next + 1 /\ next' # 1 /\ q \in Fields
      /\ UNCHANGED <<ctrl, data, call, chosen, since, truth, earlier, counts>>
  BY PolledFacts DEF Query
<1>2. PICK v \in Answers(q) : read' = [read EXCEPT ![q] = v]
  BY DEF Query
<1>3. v = ctrl[q] \/ (q \in OfOverview /\ next = 1 /\ v = asked)
  BY <1>1, <1>2 DEF Answers, OfOverview, Polled
<1>4. ctrl \in FieldValues /\ read \in FieldValues /\ v \in Values(q)
  BY <1>1, <1>3 DEF CInv, TypeOK, FieldValues, Values, OfOverview
<1>5. /\ asked' \in Temp /\ asked' \in truth'.setpoint
      /\ \A f \in OfOverview :
           since'[f] \in {"polled", "polled twice", "shown"} => Shows(chosen'[f], asked')
  BY <1>1, AnsweredInv DEF Query
<1>6. TypeOK'
  <2>1. read' \in FieldValues
    BY <1>1, <1>2, <1>4, FieldUpdate
  <2>2. next' \in 0..(Len(Polled) + 1)
    BY <1>1, PolledFacts
  <2> QED BY <1>1, <1>5, <2>1, <2>2 DEF CInv, TypeOK
<1>7. ASSUME NEW f \in Fields
      PROVE  Done(f)' => Done(f) \/ f = q
  BY <1>1, PolledFacts DEF Done
<1>8. \A f \in Fields : read'[f] = IF f = q THEN v ELSE read[f]
  BY <1>1, <1>2, <1>4 DEF FieldValues
<1>9. /\ v \in WasTrue(q)
      /\ since[q] \in Settled(q) => Shows(chosen[q], v)
  BY <1>1, <1>3 DEF CInv, ChoiceInv, TruthInv, WasTrue, Settled, OfOverview, Fields
<1> HIDE DEF q
<1>10. ASSUME NEW f \in Fields, since'[f] \in Settled(f)', Done(f)'
       PROVE  Shows(chosen'[f], read'[f])
  BY <1>1, <1>7, <1>8, <1>9, <1>10 DEF CInv, ChoiceInv, Settled
<1>11. ChoiceInv'
  BY <1>1, <1>5, <1>10 DEF CInv, ChoiceInv, ChosenIsShown, Settled
<1>12. ASSUME NEW f \in Fields, Done(f)'
       PROVE  read'[f] \in WasTrue(f)'
  BY <1>1, <1>7, <1>8, <1>9, <1>12 DEF CInv, TruthInv, WasTrue
<1>13. TruthInv'
  BY <1>1, <1>5, <1>12 DEF CInv, TruthInv
<1> QED BY <1>6, <1>11, <1>13 DEF CInv

\* After the last query every field has been read.
LEMMA AllDone ==
  ASSUME CInv, next = Len(Polled) + 1
  PROVE  \A f \in Fields : Done(f)
BY PolledFacts DEF Done

\* The end of a poll, with a snapshot or without.
LEMMA PollEndInv == CInv /\ (Publish \/ PollFails) => CInv'
<1> SUFFICES ASSUME CInv, Publish \/ PollFails PROVE CInv'
  OBVIOUS
<1>1. next' = 0 /\ UNCHANGED <<ctrl, read, call, chosen, truth, earlier>>
  BY DEF Publish, PollFails
<1>2. next' # 1 /\ \A f \in Fields : ~ Done(f)'
  BY <1>1, PolledFacts DEF Done
<1>3. next' \in 0..(Len(Polled) + 1)
  BY <1>1, PolledFacts
<1>4. CASE Publish
  <2>1. /\ next # 1 /\ data' = read /\ counts' = counts /\ asked' = asked
        /\ since' = [f \in Fields |->
                      IF since[f] = "polled twice" \/ (since[f] = "polled" /\ f \notin OfOverview)
                      THEN "shown" ELSE since[f]]
    <3>1. next = Len(Polled) + 1
      BY <1>4 DEF Publish
    <3>2. next # 1
      BY <3>1, PolledFacts
    <3> QED BY <1>4, <3>2 DEF Publish, Snapshot
  <2>2. TypeOK'
    <3>1. since' \in [Fields -> Stages]
      BY <2>1 DEF CInv, TypeOK, Stages
    <3> QED BY <1>1, <1>3, <2>1, <3>1 DEF CInv, TypeOK, Stages
  <2>3. \A f \in Fields : Done(f)
    BY <1>4, AllDone DEF Publish
  <2>4. ASSUME NEW f \in Fields
        PROVE  /\ since'[f] \in Settled(f) => since[f] \in Settled(f)
               /\ since'[f] = "shown" => since[f] \in Settled(f)
               /\ since'[f] # "other" => since[f] # "other"
               /\ since'[f] = "polled" => since[f] = "polled"
    BY <2>1, <2>4 DEF Settled
  <2>5. ASSUME NEW f \in Fields, since'[f] = "shown"
        PROVE  Shows(chosen'[f], data'[f])
    BY <1>1, <2>1, <2>3, <2>4, <2>5 DEF CInv, ChoiceInv
  <2>6. ASSUME NEW f \in OfOverview, since'[f] \in {"polled", "polled twice", "shown"}
        PROVE  Shows(chosen'[f], asked')
    <3>1. f \in Fields
      BY DEF OfOverview, Fields
    <3>2. since[f] \in Settled(f) \/ (since[f] = "polled" /\ next # 1)
      <4>1. since'[f] \in Settled(f) \/ since'[f] = "polled"
        BY <2>6 DEF Settled
      <4> QED BY <2>1, <2>4, <3>1, <4>1
    <3>3. Shows(chosen[f], asked)
      BY <3>2 DEF CInv, ChoiceInv
    <3> QED BY <1>1, <2>1, <3>3
  <2>7. ChoiceInv'
    <3>1. \A f \in Fields : since'[f] # "other" => Shows(chosen'[f], ctrl'[f])
      BY <1>1, <2>4 DEF CInv, ChoiceInv
    <3>2. \A e \in Entity : Shows(call'[e].choice, call'[e].value)
      BY <1>1 DEF CInv, ChoiceInv
    <3> QED BY <1>2, <2>5, <2>6, <3>1, <3>2 DEF ChoiceInv, ChosenIsShown, Settled
  <2>8. TruthInv'
    <3>1. asked' \in truth'.setpoint
      BY <1>1, <2>1 DEF CInv, TruthInv
    <3> QED BY <1>1, <1>2, <2>1, <3>1 DEF CInv, TruthInv
  <2> QED BY <2>2, <2>7, <2>8 DEF CInv
<1>5. CASE PollFails
  <2>1. data' = data /\ since' = since /\ next \in DOMAIN Polled /\ Answered
    BY <1>5 DEF PollFails
  <2>2. /\ asked' \in Temp /\ asked' \in truth'.setpoint
        /\ \A f \in OfOverview :
             since'[f] \in {"polled", "polled twice", "shown"} => Shows(chosen'[f], asked')
    BY <1>1, <1>2, <2>1, AnsweredInv
  <2>3. TypeOK'
    <3>1. counts' \in [calls : 0..MaxCalls, panel : 0..MaxPanel, faults : 0..MaxFaults]
      <4>1. counts \in [calls : 0..MaxCalls, panel : 0..MaxPanel, faults : 0..MaxFaults]
        BY DEF CInv, TypeOK
      <4> QED BY <1>5, <4>1, BoundAssumption DEF PollFails, Fault
    <3> QED BY <1>1, <1>3, <2>1, <2>2, <3>1 DEF CInv, TypeOK
  <2>4. ChoiceInv'
    BY <1>1, <1>2, <2>1, <2>2 DEF CInv, ChoiceInv, ChosenIsShown, Settled
  <2>5. TruthInv'
    BY <1>1, <1>2, <2>1, <2>2 DEF CInv, TruthInv
  <2> QED BY <2>3, <2>4, <2>5 DEF CInv
<1> QED BY <1>4, <1>5

----------------------------------------------------------------------------
(* Theorems *)

\* The invariant holds in every reachable state.
THEOREM Invariance == Spec => []CInv
<1>1. Init => CInv
  BY InitInv
<1>2. CInv /\ [Next]_vars => CInv'
  <2> SUFFICES ASSUME CInv, [Next]_vars PROVE CInv'
    OBVIOUS
  <2>1. CASE SetHvacMode \/ SetPresetMode \/ SetOffset
    BY <2>1, ClimateInv
  <2>2. CASE SetOperationMode \/ TurnOn \/ TurnOff \/ SetTemperature
    BY <2>2, WaterHeaterInv
  <2>3. ASSUME NEW e \in Entity, Written(e) \/ WriteFails(e) PROVE CInv'
    BY <2>3, WriteInv
  <2>4. CASE Panel
    BY <2>4, PanelInv
  <2>5. CASE StartPoll
    BY <2>5, StartPollInv
  <2>6. CASE Query
    BY <2>6, QueryInv
  <2>7. CASE Publish \/ PollFails
    BY <2>7, PollEndInv
  <2>8. CASE UNCHANGED vars
    <3>1. TypeOK' /\ TruthInv'
      BY <2>8 DEF CInv, TypeOK, TruthInv, Done, WasTrue, vars
    <3> QED BY <2>8, <3>1 DEF CInv, ChoiceInv, ChosenIsShown, Done, Settled, vars
  <2> QED BY <2>1, <2>2, <2>3, <2>4, <2>5, <2>6, <2>7, <2>8 DEF Next
<1> QED BY <1>1, <1>2, PTL DEF Spec

\* Every field of the controller, of the snapshot and of a poll stays in its
\* range: no entity writes a value that its field does not have.
THEOREM TypeCorrect == Spec => []TypeOK
<1>1. CInv => TypeOK
  BY DEF CInv
<1> QED BY <1>1, Invariance, PTL

\* A mode that was chosen is shown from the first snapshot on whose poll began after the
\* write, the water heater's temperature from the first whose poll was the second to begin after
\* it, the first being one that may show the overview of the poll before: climate.py and
\* water_heater.py over coordinator.py.
THEOREM ChoicesShown == Spec => []ChosenIsShown
<1>1. CInv => ChosenIsShown
  BY DEF CInv, ChoiceInv
<1> QED BY <1>1, Invariance, PTL

\* A snapshot holds modes and blocks that were true while its poll ran, and a setpoint that
\* was true then or since the poll before began: coordinator.py.
THEOREM SnapshotsTrue == Spec => SnapshotWasTrue
<1>1. CInv /\ [Next]_vars =>
        [next' = 0 /\ data' # data => \A f \in Fields : data'[f] \in WasTrue(f)]_vars
  <2> SUFFICES ASSUME CInv, Next, data' # data
               PROVE  \A f \in Fields : data'[f] \in WasTrue(f)
    BY DEF vars
  <2>1. Publish
    BY DEF Next, SetHvacMode, SetPresetMode, SetOffset, SetOperationMode, TurnOn,
           TurnOff, SetTemperature, Start, Written, WriteFails, Panel, StartPoll,
           Query, PollFails
  <2>2. data' = read /\ \A f \in Fields : Done(f)
    BY <2>1, AllDone DEF Publish, Snapshot
  <2> QED BY <2>2 DEF CInv, TruthInv
<1> QED BY <1>1, Invariance, PTL DEF Spec, SnapshotWasTrue
=============================================================================

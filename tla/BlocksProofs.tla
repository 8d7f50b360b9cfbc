---------------------------- MODULE BlocksProofs ----------------------------
(***************************************************************************)
(* What the setters of Blocks do to a block of any values, whatever is     *)
(* asked for.                                                              *)
(***************************************************************************)
EXTENDS Blocks, TLAPS

\* The number of values of each block.
LEMMA Counts ==
  /\ DOMAIN Count = {"3400", "2100", "3200"}
  /\ Count["3400"] = 9 /\ Count["2100"] = 16 /\ Count["3200"] = 8
BY DEF Count

\* A block of a command has the number of values of that command.
LEMMA BlockValues ==
  ASSUME NEW b, IsBlock(b)
  PROVE  /\ b.cmd \in DOMAIN Count
         /\ b.values \in [1..Count[b.cmd] -> Int]
         /\ b = [cmd |-> b.cmd, values |-> b.values]
BY DEF IsBlock

\* A block stays one when its values are replaced by as many others.
LEMMA BlockWith ==
  ASSUME NEW b, IsBlock(b), NEW v \in [1..Count[b.cmd] -> Int]
  PROVE  /\ IsBlock([b EXCEPT !.values = v])
         /\ [b EXCEPT !.values = v].values = v
         /\ [b EXCEPT !.values = v].cmd = b.cmd
BY BlockValues DEF IsBlock

\* set_heating_curve: the nine values that are written, position by position.
LEMMA CurvePositions ==
  ASSUME NEW v \in [1..9 -> Int],
         NEW new \in Options({"offset", "endpoint", "parallel_shift", "night_setback"})
  PROVE  LET w == CurveToWire(With(HeatingCurve(v), new))
             a == Asked(CurveFields, new)
         IN /\ w \in [1..9 -> Int]
            /\ DOMAIN a \subseteq 1..9
            /\ \A i \in DOMAIN a : a[i] \in Int
            /\ \A i \in 1..9 : w[i] = IF i \in DOMAIN a THEN a[i] ELSE v[i]
<1> DEFINE c == With(HeatingCurve(v), new)
           w == CurveToWire(c)
           a == Asked(CurveFields, new)
<1>1. DOMAIN new \subseteq {"offset", "endpoint", "parallel_shift", "night_setback"}
      /\ \A f \in DOMAIN new : new[f] \in Int
  <2>1. PICK S \in SUBSET {"offset", "endpoint", "parallel_shift", "night_setback"} :
          new \in [S -> Val]
    BY DEF Options
  <2> QED BY <2>1, ValAssumption
<1>2. Len(v) = 9
  OBVIOUS
<1>3. /\ c.offset = IF "offset" \in DOMAIN new THEN new["offset"] ELSE v[1]
      /\ c.endpoint = IF "endpoint" \in DOMAIN new THEN new["endpoint"] ELSE v[2]
      /\ c.parallel_shift = IF "parallel_shift" \in DOMAIN new THEN new["parallel_shift"] ELSE v[3]
      /\ c.night_setback = IF "night_setback" \in DOMAIN new THEN new["night_setback"] ELSE v[4]
      /\ c.extras = [k \in 1..5 |-> v[k + 4]]
  BY <1>1, <1>2 DEF With, HeatingCurve
<1>4. /\ CurveFields[1] = "offset" /\ CurveFields[2] = "endpoint"
      /\ CurveFields[3] = "parallel_shift" /\ CurveFields[4] = "night_setback"
      /\ DOMAIN CurveFields = 1..4
  BY DEF CurveFields
<1>5. /\ DOMAIN a = {j \in 1..4 : CurveFields[j] \in DOMAIN new}
      /\ \A i \in DOMAIN a : a[i] = new[CurveFields[i]]
  BY <1>4 DEF Asked
<1>6. w = [i \in 1..9 |-> IF i <= 4 THEN c[CurveFields[i]]
                          ELSE IF i - 4 \in 1..5 THEN v[i] ELSE 0]
  <2> HIDE DEF c
  <2>1. DOMAIN c.extras = 1..5 /\ \A k \in 1..5 : c.extras[k] = v[k + 4]
    BY <1>3
  <2>2. \A i \in 1..9 : i - 4 \in 1..5 => c.extras[i - 4] = v[i]
    <3> SUFFICES ASSUME NEW i \in 1..9, i - 4 \in 1..5 PROVE c.extras[i - 4] = v[i]
      OBVIOUS
    <3>1. (i - 4) + 4 = i
      OBVIOUS
    <3> QED BY <2>1, <3>1
  <2> QED BY <2>1, <2>2 DEF CurveToWire
<1>7. \A i \in 1..9 : w[i] = IF i \in DOMAIN a THEN a[i] ELSE v[i]
  <2> SUFFICES ASSUME NEW i \in 1..9
               PROVE  w[i] = IF i \in DOMAIN a THEN a[i] ELSE v[i]
    OBVIOUS
  <2> HIDE DEF c, w, a
  <2>1. CASE i > 4  BY <2>1, <1>5, <1>6
  <2>2. CASE i = 1  BY <2>2, <1>3, <1>4, <1>5, <1>6
  <2>3. CASE i = 2  BY <2>3, <1>3, <1>4, <1>5, <1>6
  <2>4. CASE i = 3  BY <2>4, <1>3, <1>4, <1>5, <1>6
  <2>5. CASE i = 4  BY <2>5, <1>3, <1>4, <1>5, <1>6
  <2> QED BY <2>1, <2>2, <2>3, <2>4, <2>5
<1>8. \A i \in DOMAIN a : a[i] \in Int
  BY <1>1, <1>4, <1>5
<1>9. DOMAIN a \subseteq 1..9
  BY <1>5
<1>10. w \in [1..9 -> Int]
  <2> HIDE DEF c, w, a
  <2>1. \A i \in 1..9 : w[i] \in Int
    BY <1>7, <1>8
  <2> QED BY <1>6, <2>1
<1> QED BY <1>7, <1>8, <1>9, <1>10

\* Every field of TempSettings is read from one position only.
LEMMA TempReadInjective ==
  /\ DOMAIN TempRead = 1..16
  /\ \A i, j \in 1..16 : TempRead[i] = TempRead[j] => i = j
BY DEF TempRead

\* Position finds the position that a field of TempSettings is read from.
LEMMA TempPosition == \A i \in 1..16 : Position(TempRead, TempRead[i]) = i
<1> SUFFICES ASSUME NEW i \in 1..16 PROVE Position(TempRead, TempRead[i]) = i
  OBVIOUS
<1> DEFINE P(k) == k \in DOMAIN TempRead /\ TempRead[k] = TempRead[i]
<1>1. \E k : P(k)
  BY TempReadInjective
<1>2. \A k : P(k) => k = i
  BY TempReadInjective
<1> QED BY <1>1, <1>2 DEF Position

\* set_hysteresis: the sixteen values that are written, position by position.
LEMMA TempPositions ==
  ASSUME NEW v \in [1..16 -> Int],
         NEW new \in Options({"hysteresis_heating", "hysteresis_dhw"})
  PROVE  LET w == TempToWire(With(TempSettings(v), new))
             a == Asked(TempRead, new)
         IN /\ w \in [1..16 -> Int]
            /\ DOMAIN a \subseteq 1..16
            /\ \A i \in DOMAIN a : a[i] \in Int
            /\ \A i \in 1..16 : w[i] = IF i \in DOMAIN a THEN a[i] ELSE v[i]
<1> DEFINE s == TempSettings(v)
           c == With(s, new)
           w == TempToWire(c)
           a == Asked(TempRead, new)
<1>1. \A f \in DOMAIN new : new[f] \in Int
  <2>1. PICK S \in SUBSET {"hysteresis_heating", "hysteresis_dhw"} : new \in [S -> Val]
    BY DEF Options
  <2> QED BY <2>1, ValAssumption
<1>2. TempWrite = TempRead
  BY DEF TempWrite, TempRead
<1>3. \A i \in 1..16 : TempRead[i] \in DOMAIN s /\ s[TempRead[i]] = v[i]
  BY TempPosition DEF TempSettings
<1>4. \A i \in 1..16 : c[TempRead[i]] = IF TempRead[i] \in DOMAIN new
                                        THEN new[TempRead[i]] ELSE v[i]
  <2> HIDE DEF s
  <2> QED BY <1>3 DEF With
<1>5. w = [i \in 1..16 |-> c[TempRead[i]]]
  <2> HIDE DEF c
  <2> QED BY <1>2 DEF TempToWire
<1>6. /\ DOMAIN a = {j \in 1..16 : TempRead[j] \in DOMAIN new}
      /\ \A i \in DOMAIN a : a[i] = new[TempRead[i]]
  BY TempReadInjective DEF Asked
<1> HIDE DEF c, w, a
<1>7. \A i \in 1..16 : w[i] = IF i \in DOMAIN a THEN a[i] ELSE v[i]
  BY <1>4, <1>5, <1>6
<1>8. \A i \in DOMAIN a : a[i] \in Int
  BY <1>1, <1>6
<1>9. w \in [1..16 -> Int]
  <2>1. \A i \in 1..16 : w[i] \in Int
    BY <1>7, <1>8
  <2> QED BY <1>5, <2>1
<1>10. DOMAIN a \subseteq 1..16
  BY <1>6
<1> QED BY <1>7, <1>8, <1>9, <1>10 DEF c, w, a

----------------------------------------------------------------------------
(* The steps *)

\* What holds of each step from a well-typed state, by the lemmas above.
Changes ==
  \A i \in DOMAIN held.values :
    held'.values[i] =
      IF result' = "ok" /\ i \in DOMAIN asked' THEN asked'[i] ELSE held.values[i]

\* set_heating_curve keeps the types and changes what it was asked to.
LEMMA CurveStep ==
  ASSUME TypeOK, SetHeatingCurve
  PROVE  TypeOK' /\ Changes /\ held'.cmd = held.cmd
<1> DEFINE V(new) == CurveToWire(With(HeatingCurve(held.values), new))
<1>1. PICK new \in Options({"offset", "endpoint", "parallel_shift", "night_setback"}) :
        /\ held' = [held EXCEPT !.values = V(new)]
        /\ asked' = Asked(CurveFields, new)
  BY DEF SetHeatingCurve
<1>2. held.cmd = "3400" /\ result' = "ok"
  BY DEF SetHeatingCurve
<1>3. IsBlock(held)
  BY DEF TypeOK
<1>4. held.values \in [1..9 -> Int]
  BY <1>2, <1>3, BlockValues, Counts
<1>5. /\ V(new) \in [1..9 -> Int]
      /\ DOMAIN asked' \subseteq 1..9
      /\ \A i \in DOMAIN asked' : asked'[i] \in Int
      /\ \A i \in 1..9 : V(new)[i] = IF i \in DOMAIN asked' THEN asked'[i]
                                                            ELSE held.values[i]
  BY <1>1, <1>4, CurvePositions
<1> HIDE DEF V
<1>6. IsBlock(held') /\ held'.values = V(new) /\ held'.cmd = held.cmd
  <2>1. V(new) \in [1..Count[held.cmd] -> Int]
    BY <1>2, <1>5, Counts
  <2> DEFINE h == [held EXCEPT !.values = V(new)]
  <2>2. IsBlock(h) /\ h.values = V(new) /\ h.cmd = held.cmd
    BY <1>3, <2>1, BlockWith
  <2> QED BY <1>1, <2>2
<1>7. TypeOK'
  BY <1>2, <1>5, <1>6 DEF TypeOK
<1>8. Changes
  BY <1>2, <1>4, <1>5, <1>6 DEF Changes
<1> QED BY <1>6, <1>7, <1>8

\* set_hysteresis keeps the types and changes what it was asked to.
LEMMA HysteresisStep ==
  ASSUME TypeOK, SetHysteresis
  PROVE  TypeOK' /\ Changes /\ held'.cmd = held.cmd
<1> DEFINE V(new) == TempToWire(With(TempSettings(held.values), new))
<1>1. PICK new \in Options({"hysteresis_heating", "hysteresis_dhw"}) :
        /\ held' = [held EXCEPT !.values = V(new)]
        /\ asked' = Asked(TempRead, new)
  BY DEF SetHysteresis
<1>2. held.cmd = "2100" /\ result' = "ok"
  BY DEF SetHysteresis
<1>3. IsBlock(held)
  BY DEF TypeOK
<1>4. held.values \in [1..16 -> Int]
  BY <1>2, <1>3, BlockValues, Counts
<1>5. /\ V(new) \in [1..16 -> Int]
      /\ DOMAIN asked' \subseteq 1..16
      /\ \A i \in DOMAIN asked' : asked'[i] \in Int
      /\ \A i \in 1..16 : V(new)[i] = IF i \in DOMAIN asked' THEN asked'[i]
                                                             ELSE held.values[i]
  BY <1>1, <1>4, TempPositions
<1> HIDE DEF V
<1>6. IsBlock(held') /\ held'.values = V(new) /\ held'.cmd = held.cmd
  <2>1. V(new) \in [1..Count[held.cmd] -> Int]
    BY <1>2, <1>5, Counts
  <2> DEFINE h == [held EXCEPT !.values = V(new)]
  <2>2. IsBlock(h) /\ h.values = V(new) /\ h.cmd = held.cmd
    BY <1>3, <2>1, BlockWith
  <2> QED BY <1>1, <2>2
<1>7. TypeOK'
  BY <1>2, <1>5, <1>6 DEF TypeOK
<1>8. Changes
  BY <1>2, <1>4, <1>5, <1>6 DEF Changes
<1> QED BY <1>6, <1>7, <1>8

\* The fields of a schedule from an hour and a minute of each of four times.
Schedule(h, m) ==
  [start1_h |-> h["start1"], start1_m |-> m["start1"],
   end1_h |-> h["end1"], end1_m |-> m["end1"],
   start2_h |-> h["start2"], start2_m |-> m["start2"],
   end2_h |-> h["end2"], end2_m |-> m["end2"]]

\* A schedule of hours and minutes is written with each at the position that it is
\* read from.
LEMMA SchedulePositions ==
  ASSUME NEW h \in [Times -> 0..23], NEW m \in [Times -> 0..59]
  PROVE  LET w == ScheduleToWire(Schedule(h, m))
         IN /\ w \in [1..8 -> Int] /\ w = [i \in 1..8 |-> Schedule(h, m)[ScheduleRead[i]]]
            /\ \A i \in 1..8 : w[i] \in IF i % 2 = 1 THEN 0..23 ELSE 0..59
<1> DEFINE w == ScheduleToWire(Schedule(h, m))
<1>1. w = [i \in 1..8 |-> Schedule(h, m)[ScheduleWrite[i]]]
  BY DEF ScheduleToWire
<1>2. /\ w[1] = h["start1"] /\ w[2] = m["start1"] /\ w[3] = h["end1"] /\ w[4] = m["end1"]
      /\ w[5] = h["start2"] /\ w[6] = m["start2"] /\ w[7] = h["end2"] /\ w[8] = m["end2"]
  BY <1>1 DEF Schedule, ScheduleWrite
<1>3. w = [i \in 1..8 |-> Schedule(h, m)[ScheduleRead[i]]]
  <2>1. \A i \in 1..8 : ScheduleRead[i] = ScheduleWrite[i]
    BY DEF ScheduleRead, ScheduleWrite
  <2> QED BY <1>1, <2>1
<1>4. \A x \in {"start1", "end1", "start2", "end2"} : h[x] \in 0..23 /\ m[x] \in 0..59
  BY DEF Times
<1> HIDE DEF w
<1>5. \A i \in 1..8 : w[i] \in IF i % 2 = 1 THEN 0..23 ELSE 0..59
  BY <1>2, <1>4
<1>6. \A i \in 1..8 : w[i] \in Int
  BY <1>2, <1>4
<1>7. w \in [1..8 -> Int]
  BY <1>1, <1>6
<1> QED BY <1>5, <1>7, <1>3 DEF w

\* set_bw_schedule keeps the types, writes what it was asked to, and only times
\* of day.
LEMMA ScheduleStep ==
  ASSUME TypeOK, SetBwSchedule
  PROVE  TypeOK' /\ Changes /\ TimesOfDay'
<1>1. PICK given \in {S \in SUBSET Times : {"start1", "end1"} \subseteq S} :
      \E h \in [given -> Hour], m \in [given -> Minute] :
        IF \A x \in given : Parses(h[x], m[x])
        THEN LET hour(x) == IF x \in given THEN h[x] ELSE 0
                 min(x) == IF x \in given THEN m[x] ELSE 0
                 sched == [start1_h |-> hour("start1"), start1_m |-> min("start1"),
                           end1_h |-> hour("end1"), end1_m |-> min("end1"),
                           start2_h |-> hour("start2"), start2_m |-> min("start2"),
                           end2_h |-> hour("end2"), end2_m |-> min("end2")]
             IN /\ held' = [held EXCEPT !.values = ScheduleToWire(sched)]
                /\ asked' = [i \in 1..8 |-> sched[ScheduleRead[i]]]
                /\ result' = "ok"
        ELSE result' = "refused" /\ UNCHANGED <<held, asked>>
  BY DEF SetBwSchedule
<1>2. PICK h \in [given -> Hour], m \in [given -> Minute] :
        IF \A x \in given : Parses(h[x], m[x])
        THEN LET hour(x) == IF x \in given THEN h[x] ELSE 0
                 min(x) == IF x \in given THEN m[x] ELSE 0
                 sched == [start1_h |-> hour("start1"), start1_m |-> min("start1"),
                           end1_h |-> hour("end1"), end1_m |-> min("end1"),
                           start2_h |-> hour("start2"), start2_m |-> min("start2"),
                           end2_h |-> hour("end2"), end2_m |-> min("end2")]
             IN /\ held' = [held EXCEPT !.values = ScheduleToWire(sched)]
                /\ asked' = [i \in 1..8 |-> sched[ScheduleRead[i]]]
                /\ result' = "ok"
        ELSE result' = "refused" /\ UNCHANGED <<held, asked>>
  BY <1>1
<1> DEFINE H == [x \in Times |-> IF x \in given THEN h[x] ELSE 0]
           M == [x \in Times |-> IF x \in given THEN m[x] ELSE 0]
           W == ScheduleToWire(Schedule(H, M))
<1>3. IsBlock(held) /\ held.cmd = "3200" /\ Count[held.cmd] = 8
  BY Counts DEF TypeOK, SetBwSchedule
<1>4. CASE \A x \in given : Parses(h[x], m[x])
  <2>1. H \in [Times -> 0..23] /\ M \in [Times -> 0..59]
    BY <1>4 DEF Parses
  <2>2. /\ W \in [1..8 -> Int]
        /\ \A i \in 1..8 : W[i] \in IF i % 2 = 1 THEN 0..23 ELSE 0..59
    BY <2>1, SchedulePositions
  <2>3. /\ held' = [held EXCEPT !.values = W] /\ asked' = W /\ result' = "ok"
    <3>1. /\ held' = [held EXCEPT !.values = W] /\ result' = "ok"
          /\ asked' = [i \in 1..8 |-> Schedule(H, M)[ScheduleRead[i]]]
      BY <1>2, <1>4 DEF Schedule, Times, ScheduleToWire
    <3>2. W = [i \in 1..8 |-> Schedule(H, M)[ScheduleRead[i]]]
      BY <2>1, SchedulePositions
    <3> QED BY <3>1, <3>2
  <2> HIDE DEF W
  <2> DEFINE g == [held EXCEPT !.values = W]
  <2>4. IsBlock(g) /\ g.values = W /\ g.cmd = held.cmd
    BY <1>3, <2>2, BlockWith
  <2>5. IsBlock(held') /\ held'.values = W
    BY <2>3, <2>4
  <2>6. TypeOK'
    BY <2>2, <2>3, <2>5 DEF TypeOK
  <2>7. Changes
    <3>1. DOMAIN held.values = 1..8
      BY <1>3, BlockValues
    <3> QED BY <2>2, <2>3, <2>5, <3>1 DEF Changes
  <2>8. TimesOfDay'
    BY <2>2, <2>5 DEF TimesOfDay
  <2> QED BY <2>6, <2>7, <2>8
<1>5. CASE ~ \A x \in given : Parses(h[x], m[x])
  <2>1. result' = "refused" /\ UNCHANGED <<held, asked>>
    BY <1>2, <1>5
  <2> QED BY <2>1 DEF TypeOK, Changes, TimesOfDay
<1> QED BY <1>4, <1>5

----------------------------------------------------------------------------
(* The theorems *)

BInv == TypeOK /\ TimesOfDay

\* The invariant holds at first.
LEMMA Initially == Init => BInv
<1> SUFFICES ASSUME Init PROVE BInv
  OBVIOUS
<1>1. IsBlock(held) /\ asked = <<>> /\ result = "none"
  BY ValAssumption DEF Init
<1>2. TypeOK
  BY <1>1 DEF TypeOK
<1> QED BY <1>1, <1>2 DEF BInv, TimesOfDay

\* Every step keeps the invariant, and changes only what was asked.
LEMMA Steps ==
  ASSUME BInv, [Next]_vars
  PROVE  BInv' /\ (vars' = vars \/ Changes)
<1>1. CASE SetHeatingCurve
  <2>1. held'.cmd = "3400"
    BY <1>1, CurveStep DEF BInv, SetHeatingCurve
  <2> QED BY <1>1, <2>1, CurveStep DEF BInv, TimesOfDay
<1>2. CASE SetHysteresis
  <2>1. held'.cmd = "2100"
    BY <1>2, HysteresisStep DEF BInv, SetHysteresis
  <2> QED BY <1>2, <2>1, HysteresisStep DEF BInv, TimesOfDay
<1>3. CASE SetBwSchedule
  BY <1>3, ScheduleStep DEF BInv
<1>4. CASE UNCHANGED vars
  BY <1>4 DEF BInv, TypeOK, TimesOfDay, vars
<1> QED BY <1>1, <1>2, <1>3, <1>4 DEF Next

\* Every block keeps its number of values (models.py, to_wire).
THEOREM TypeCorrect == Spec => []TypeOK
<1>1. BInv => TypeOK
  BY DEF BInv
<1> QED BY Initially, Steps, <1>1, PTL DEF Spec

\* Only times of day are sent (services.py, _parse).
THEOREM ValidTimes == Spec => []TimesOfDay
<1>1. BInv => TimesOfDay
  BY DEF BInv
<1> QED BY Initially, Steps, <1>1, PTL DEF Spec

\* A setter writes the fields it was asked to change and sends every other
\* value back in its place, for all values of the block and of the request
\* (client.py:6-8).
THEOREM OthersUnchanged == Spec => OnlyAskedChange
<1>1. BInv /\ [Next]_vars => BInv' /\ [Changes]_vars
  BY Steps
<1>2. [Changes]_vars <=> [\A i \in DOMAIN held.values :
       held'.values[i] =
         IF result' = "ok" /\ i \in DOMAIN asked' THEN asked'[i] ELSE held.values[i]]_vars
  BY DEF Changes
<1> QED BY Initially, <1>1, <1>2, PTL DEF Spec, OnlyAskedChange
=============================================================================

------------------------------- MODULE Blocks -------------------------------
(***************************************************************************)
(* The blocks that are written as a whole: TempSettings, HeatingCurve and  *)
(* BWSchedule (models.py), the setters of client.py that change some       *)
(* fields of one, and the service that parses the DHW times (services.py). *)
(*                                                                         *)
(* Values are the integers on the wire.  A service call is one step here;  *)
(* module Client has what can come between its read and its write.         *)
(***************************************************************************)
EXTENDS Integers, Sequences

CONSTANTS
  Val,      \* values that callers ask for
  Hour, Minute,  \* numbers in a service call's times
  Held      \* the blocks that the controller may hold at first

VARIABLES
  held,     \* the block that the controller holds: command and values
  asked,    \* positions that the last call asked to change, with their values
  result    \* of the last call

vars == <<held, asked, result>>

Count == [c \in {"3400", "2100", "3200"} |->
            CASE c = "3400" -> 9 [] c = "2100" -> 16 [] c = "3200" -> 8]

IsBlock(b) ==
  \E c \in DOMAIN Count : b \in [cmd : {c}, values : [1..Count[c] -> Int]]

ASSUME ValAssumption ==
  /\ Val \subseteq Int /\ Hour \subseteq Int /\ Minute \subseteq Int
  /\ \A b \in Held : IsBlock(b)

----------------------------------------------------------------------------
(* HeatingCurve *)

CurveFields == <<"offset", "endpoint", "parallel_shift", "night_setback">>

HeatingCurve(values) ==
  [offset |-> values[1], endpoint |-> values[2], parallel_shift |-> values[3],
   night_setback |-> values[4],
   extras |-> [k \in 1..(Len(values) - 4) |-> values[k + 4]]]

\* Mutant: the extras are cut one short.
CurveOneShort(c) ==
  [i \in 1..8 |->
     IF i <= 4 THEN c[CurveFields[i]]
     ELSE IF i - 4 \in DOMAIN c.extras THEN c.extras[i - 4] ELSE 0]

\* The named fields, the extras padded with zeros to five, and no more than
\* nine values.
CurveToWire(c) ==
  [i \in 1..9 |->
     IF i <= 4 THEN c[CurveFields[i]]
     ELSE IF i - 4 \in DOMAIN c.extras THEN c.extras[i - 4] ELSE 0]

----------------------------------------------------------------------------
(* TempSettings and BWSchedule: the fields in the order in which they are    *)
(* read, and in the order in which they are written.                         *)

TempRead ==
  <<"return_limit", "hysteresis_heating", "max_dhw_boost",
    "release_2nd_compressor", "release_backup", "air_defrost_temp",
    "tdi_setpoint", "hysteresis_dhw", "vl2_vd_bw", "outdoor_max",
    "outdoor_min", "source_temp_min", "hot_gas_max", "air_defrost_end_temp",
    "setback_lower_limit", "flow_max">>

TempWrite ==
  <<"return_limit", "hysteresis_heating", "max_dhw_boost",
    "release_2nd_compressor", "release_backup", "air_defrost_temp",
    "tdi_setpoint", "hysteresis_dhw", "vl2_vd_bw", "outdoor_max",
    "outdoor_min", "source_temp_min", "hot_gas_max", "air_defrost_end_temp",
    "setback_lower_limit", "flow_max">>

ScheduleRead ==
  <<"start1_h", "start1_m", "end1_h", "end1_m",
    "start2_h", "start2_m", "end2_h", "end2_m">>

\* Mutant: the starts of both windows, then their ends.
ScheduleWriteGrouped ==
  <<"start1_h", "start1_m", "start2_h", "start2_m",
    "end1_h", "end1_m", "end2_h", "end2_m">>

ScheduleWrite ==
  <<"start1_h", "start1_m", "end1_h", "end1_m",
    "start2_h", "start2_m", "end2_h", "end2_m">>

\* The position of a field among those of a block.
Position(fields, f) == CHOOSE i \in DOMAIN fields : fields[i] = f

TempSettings(values) ==
  [f \in {TempRead[i] : i \in 1..16} |-> values[Position(TempRead, f)]]

TempToWire(s) == [i \in 1..16 |-> s[TempWrite[i]]]

ScheduleToWire(s) == [i \in 1..8 |-> s[ScheduleWrite[i]]]

----------------------------------------------------------------------------
(* The setters *)

Init ==
  /\ held \in Held
  /\ asked = <<>> /\ result = "none"

\* new has a value for each field that is not None.
With(record, new) ==
  [f \in DOMAIN record |-> IF f \in DOMAIN new THEN new[f] ELSE record[f]]

Options(fields) == UNION {[S -> Val] : S \in SUBSET fields}

\* The request in terms of positions, for the properties.
Asked(fields, new) ==
  [i \in {j \in DOMAIN fields : fields[j] \in DOMAIN new} |-> new[fields[i]]]

SetHeatingCurve ==
  /\ held.cmd = "3400"
  /\ \E new \in Options({"offset", "endpoint", "parallel_shift", "night_setback"}) :
       /\ held' = [held EXCEPT !.values = CurveToWire(With(HeatingCurve(@), new))]
       /\ asked' = Asked(CurveFields, new)
  /\ result' = "ok"

SetHysteresis ==
  /\ held.cmd = "2100"
  /\ \E new \in Options({"hysteresis_heating", "hysteresis_dhw"}) :
       /\ held' = [held EXCEPT !.values = TempToWire(With(TempSettings(@), new))]
       /\ asked' = Asked(TempRead, new)
  /\ result' = "ok"

\* Mutant: the end of the hour and of the day are times of day.
ParsesEnds(h, m) == h \in 0..24 /\ m \in 0..60

\* _parse accepts a time of day.
Parses(h, m) == h \in 0..23 /\ m \in 0..59

Times == {"start1", "end1", "start2", "end2"}

\* Each of start2 and end2 may be left out and is then 00:00; a time that is
\* not one (what is not a number is a member of Hour outside 0..23) is refused
\* before anything is sent.
SetBwSchedule ==
  /\ held.cmd = "3200"
  /\ \E given \in {S \in SUBSET Times : {"start1", "end1"} \subseteq S} :
     \E h \in [given -> Hour], m \in [given -> Minute] :
       IF \A x \in given : Parses(h[x], m[x])
       THEN LET hour(x) == IF x \in given THEN h[x] ELSE 0
                min(x) == IF x \in given THEN m[x] ELSE 0
                sched == [start1_h |-> hour("start1"), start1_m |-> min("start1"),
                          end1_h |-> hour("end1"), end1_m |-> min("end1"),
                          start2_h |-> hour("start2"), start2_m |-> min("start2"),
                          end2_h |-> hour("end2"), end2_m |-> min("end2")]
            IN /\ held' = [held EXCEPT !.values = ScheduleToWire(sched)]
               /\ asked' = [i \in 1..8 |-> sched[ScheduleRead[i]]]
               /\ result' = "ok"
       ELSE result' = "refused" /\ UNCHANGED <<held, asked>>

Next == SetHeatingCurve \/ SetHysteresis \/ SetBwSchedule

Spec == Init /\ [][Next]_vars

----------------------------------------------------------------------------
(* Properties *)

\* Every variable has its type: a block keeps its number of values.
TypeOK ==
  /\ IsBlock(held)
  /\ DOMAIN asked \subseteq 1..16 /\ \A i \in DOMAIN asked : asked[i] \in Int
  /\ result \in {"none", "ok", "refused"}

\* A setter changes the positions of the fields it was asked to change, to
\* the values asked for, and sends every other position back as it was read,
\* the trailing ones that the program does not know included (client.py:6-8): what
\* a block is read into is what it is written from, also for the times of a schedule.
OnlyAskedChange ==
  [][\A i \in DOMAIN held.values :
       held'.values[i] =
         IF result' = "ok" /\ i \in DOMAIN asked' THEN asked'[i] ELSE held.values[i]]_vars

\* The times that the controller gets are times of day.
TimesOfDay ==
  (held.cmd = "3200" /\ result = "ok") =>
    \A i \in 1..8 : held.values[i] \in (IF i % 2 = 1 THEN 0..23 ELSE 0..59)
=============================================================================

------------------------------ MODULE Snapshot ------------------------------
(***************************************************************************)
(* From the wire to the sensors: what the polls of the coordinator         *)
(* (coordinator.py) take for their six replies, what Overview.from_lines   *)
(* (models.py) makes of the 22 lines of 1800 by their positions, and what  *)
(* the sensors (sensor.py, binary_sensor.py) show of it.                   *)
(*                                                                         *)
(* What has been sent is a sequence of lines.  A reply comes in pieces cut *)
(* anywhere: a line is there from one of its marks to another, 1 being     *)
(* behind its command and count, 2 before its last value, 3 inside it, 4   *)
(* before and 5 behind its CRLF.  A line without its beginning has no      *)
(* command.                                                                *)
(***************************************************************************)
EXTENDS Naturals, Sequences, FiniteSets

CONSTANTS
  ReadLines,  \* lines that fit into one read of 1024 bytes
  MaxPolls,   \* bound: polls
  MaxTrouble  \* bound: cuts of replies, queries that fail, other calls that read

ASSUME ReadAssumption == ReadLines \in Nat \ {0}
ASSUME BoundAssumption == MaxPolls \in Nat /\ MaxTrouble \in Nat

Full == 5

\* The queries of _async_update_data.
Script == <<"1800", "3405", "3505", "2100", "3400", "3200">>

\* The lines of a reply to 1800, and of any other.
OverviewReply ==
  <<"1800", "1800", "1100", "1200", "1300", "1400", "1600", "pad",
    "err", "err", "err", "err", "err", "pad", "pad",
    "shut", "shut", "shut", "shut", "shut", "pad", "2900">>
Lines(c) == IF c = "1800" THEN OverviewReply ELSE <<c>>

Line == {OverviewReply[i] : i \in DOMAIN OverviewReply} \cup {Script[i] : i \in DOMAIN Script}

\* The number of values in a line, behind its first two parts.
Count ==
  [l \in Line |->
     CASE l = "1100" -> 12 [] l = "1200" -> 6 [] l = "1300" -> 13 [] l = "1400" -> 29
       [] l = "1600" -> 9 [] l = "2900" -> 4 [] l \in {"err", "shut"} -> 6 [] l = "pad" -> 0
       [] l = "2100" -> 16 [] l = "3400" -> 9 [] l = "3200" -> 8
       [] l \in {"1800", "3405", "3505"} -> 1]

\* Where a line may be cut: flags, modes and states have one digit.
OneDigit == {"1800", "1200", "1300", "2900", "3405", "3505"}
Marks(l) ==
  {1, 4} \cup (IF Count[l] > 1 THEN {2} ELSE {})
         \cup (IF Count[l] > 0 /\ l \notin OneDigit THEN {3} ELSE {})

Piece == [line : Line, slot : 1..22, poll : 1..MaxPolls, from : 0..4, to : 1..Full]

VARIABLES
  poll,     \* the poll that runs or ran last
  query,    \* its query that runs or ran last, or 0 between polls
  reading,  \* the query awaits its reply
  wire,     \* lines on their way
  inbox,    \* lines in the StreamReader
  buffer,   \* what the running query has read
  read,     \* what the poll has got so far
  data,     \* the coordinator's data, and the poll that published it
  success,  \* last_update_success
  trouble,  \* cuts, failures and other calls that read so far
  calm      \* polls that have begun since the last of them

vars == <<poll, query, reading, wire, inbox, buffer, read, data, success, trouble, calm>>

NoData == [poll |-> 0]

Init ==
  /\ poll = 0 /\ query = 0 /\ reading = FALSE
  /\ wire = <<>> /\ inbox = <<>> /\ buffer = <<>>
  /\ read = <<>> /\ data = NoData /\ success = FALSE
  /\ trouble = 0 /\ calm = 0

----------------------------------------------------------------------------
(* The stream of lines *)

\* Two stretches of the stream that follow each other: a line cut between
\* them is whole again.
Joined(s, t) ==
  IF s = <<>> \/ t = <<>> \/ s[Len(s)].to = Full THEN s \o t
  ELSE SubSeq(s, 1, Len(s) - 1) \o <<[s[Len(s)] EXCEPT !.to = t[1].to]>> \o Tail(t)

\* The places to cut a stretch: behind n lines and at a mark of the next.
Places(s) ==
  {<<Len(s), 0>>} \cup
  UNION {{<<n, s[n + 1].from>>} \cup
         {<<n, m>> : m \in {k \in Marks(s[n + 1].line) : s[n + 1].from < k /\ k < s[n + 1].to}}
           : n \in 0..Len(s) - 1}

Before(s, p) ==
  SubSeq(s, 1, p[1]) \o
  IF p[1] = Len(s) \/ p[2] = s[p[1] + 1].from THEN <<>>
  ELSE <<[s[p[1] + 1] EXCEPT !.to = p[2]]>>

Behind(s, p) ==
  IF p[1] = Len(s) THEN <<>>
  ELSE <<[s[p[1] + 1] EXCEPT !.from = p[2]]>> \o SubSeq(s, p[1] + 2, Len(s))

\* buffer.split(CRLF) without the empty lines: all that is in front of a CRLF is in
\* the buffer, except of the first.
Split(buf) == IF buf # <<>> /\ buf[1].from = 4 THEN Tail(buf) ELSE buf

\* The values that a line holds; a cut among them leaves all but the last.
NumValues(l) ==
  CASE l.to = 1 -> 0
    [] l.to = 2 -> Count[l.line] - 1
    [] l.to > 2 -> Count[l.line]

\* A command's line with all its values.
IsComplete(l, c) == l.from = 0 /\ l.line = c /\ NumValues(l) >= Count[c]

----------------------------------------------------------------------------
(* Overview.from_lines and the models' from_values *)

Temperatures ==
  <<"flow", "return_", "return_setpoint", "hot_gas", "outdoor", "dhw_actual", "dhw_setpoint",
    "source_in", "source_out", "mix1_flow_actual", "mix1_flow_setpoint", "return_secondary">>
DigitalInputs == <<"asd", "evu", "hd", "mot", "nd", "pex">>
DigitalOutputs ==
  <<"defrost_valve", "dhw_circulation_pump", "underfloor_pump", "heating_pump", "mix1_open",
    "mix1_close", "housing_fan", "brine_pump_or_source_fan", "compressor_1", "compressor_2",
    "extra_circulation_pump", "backup_generator_1", "backup_generator_2_fault">>

Hms(f) == <<f, f, f>>
Ms(f) == <<f, f>>
Runtimes ==
  Hms("wp_seconds") \o Hms("zwe1_seconds") \o Hms("zwe2_seconds") \o <<"netzeinv">>
  \o Ms("ssp_stand_seconds") \o Ms("ssp_verz_seconds") \o Hms("vd_stand_seconds")
  \o Hms("hrm_seconds") \o Hms("hrw_seconds") \o Hms("tdi_seconds") \o Hms("bw_lock_seconds")

\* Mutant: the sum of all hours before those of the second heat sources.
HoursSwapped ==
  <<"compressor_1", "heat_pump_total", "compressor_1_avg", "compressor_2",
    "compressor_2_starts", "compressor_2_avg", "zwe1", "zwe2", "compressor_1_starts">>

OperatingHours ==
  <<"compressor_1", "compressor_1_starts", "compressor_1_avg", "compressor_2",
    "compressor_2_starts", "compressor_2_avg", "zwe1", "zwe2", "heat_pump_total">>
SystemStatus == <<"wp_type", "software_version", "bivalent_stage", "anl_status">>

\* The fields of the parts of an overview, in the order of their values.
Layout ==
  [temperatures |-> Temperatures, inputs |-> DigitalInputs, outputs |-> DigitalOutputs,
   runtimes |-> Runtimes, hours |-> OperatingHours, status |-> SystemStatus]

\* The index of the line that from_lines takes each part from.
Position ==
  [temperatures |-> 2, inputs |-> 3, outputs |-> 4, runtimes |-> 5, hours |-> 6, status |-> 21]

Part == DOMAIN Position
Mandatory == Part \ {"status"}

\* split: the values at an index, none where there is no line.
ValuesAt(lines, i) == IF i < Len(lines) THEN NumValues(lines[i + 1]) ELSE 0

\* Mutant: from_values takes what is there.
AnyLength(n, p) == n > 0

\* Mutant: the length test of the five parts asks for one value more.
LongerOnly(n, p) == n > Len(Layout[p])

\* The length test of each from_values.
LongEnough(n, p) == n >= Len(Layout[p])

\* ValueError: a mandatory part is too short, or a status that is there.
Raises(lines) ==
  \/ \E p \in Mandatory : ~LongEnough(ValuesAt(lines, Position[p]), p)
  \/ LET n == ValuesAt(lines, Position.status) IN n # 0 /\ ~LongEnough(n, "status")

\* A status that is not there keeps the defaults of its class.
Default == [line |-> "none", slot |-> 0, poll |-> 0, from |-> 0, to |-> 0]

\* FaultRecord.from_line needs eight parts.
Faults(lines, indices) ==
  {lines[i + 1] : i \in {j \in indices : ValuesAt(lines, j) >= 6}}

Overview(lines) ==
  [p \in Part |-> IF ValuesAt(lines, Position[p]) = 0 THEN Default ELSE lines[Position[p] + 1]]

\* The errors, the shutdowns and the parts.
FromLines(lines) ==
  [parts |-> Overview(lines), errors |-> Faults(lines, 8..12), shutdowns |-> Faults(lines, 15..19)]

----------------------------------------------------------------------------
(* The sensors *)

Of(p, fields) == [part |-> p, fields |-> fields]

\* SENSORS: what value_fn reads.
Sensor ==
  [outdoor_temperature |-> Of("temperatures", {"outdoor"}),
   flow_temperature |-> Of("temperatures", {"flow"}),
   return_temperature |-> Of("temperatures", {"return_"}),
   return_setpoint |-> Of("temperatures", {"return_setpoint"}),
   hot_gas_temperature |-> Of("temperatures", {"hot_gas"}),
   dhw_temperature |-> Of("temperatures", {"dhw_actual"}),
   source_in_temperature |-> Of("temperatures", {"source_in"}),
   source_out_temperature |-> Of("temperatures", {"source_out"}),
   mix1_flow_actual |-> Of("temperatures", {"mix1_flow_actual"}),
   mix1_flow_setpoint |-> Of("temperatures", {"mix1_flow_setpoint"}),
   dhw_setpoint |-> Of("temperatures", {"dhw_setpoint"}),
   operating_state |-> Of("status", {"anl_status"}),
   heat_pump_total_hours |-> Of("hours", {"heat_pump_total"}),
   compressor_1_hours |-> Of("hours", {"compressor_1"}),
   compressor_2_hours |-> Of("hours", {"compressor_2"}),
   compressor_starts |-> Of("hours", {"compressor_1_starts", "compressor_2_starts"}),
   software_version |-> Of("status", {"software_version"}),
   heat_pump_type |-> Of("status", {"wp_type"}),
   bivalent_stage |-> Of("status", {"bivalent_stage"}),
   runtime_wp_current |-> Of("runtimes", {"wp_seconds"})]

\* BINARY_SENSORS: those of the outputs, those of the inputs.
BinarySensor ==
  [compressor_1 |-> Of("outputs", {"compressor_1"}),
   compressor_2 |-> Of("outputs", {"compressor_2"}),
   heating_pump |-> Of("outputs", {"heating_pump"}),
   dhw_pump |-> Of("outputs", {"dhw_circulation_pump"}),
   defrost_valve |-> Of("outputs", {"defrost_valve"}),
   brine_pump |-> Of("outputs", {"brine_pump_or_source_fan"}),
   evu_lock |-> Of("inputs", {"evu"}),
   high_pressure |-> Of("inputs", {"hd"}),
   low_pressure |-> Of("inputs", {"nd"}),
   motor_protection |-> Of("inputs", {"mot"})]

\* The value that ends a line is shown by native_value or is_on of a sensor.
ShowsLast(s) == Layout[s.part][Len(Layout[s.part])] \in s.fields

AllSensors == {Sensor[k] : k \in DOMAIN Sensor} \cup {BinarySensor[k] : k \in DOMAIN BinarySensor}

----------------------------------------------------------------------------
(* The polls *)

Asked == Script[query]

\* The reply of the controller, to this poll.
Reply(c, n) ==
  [i \in DOMAIN Lines(c) |-> [line |-> Lines(c)[i], slot |-> i, poll |-> n, from |-> 0, to |-> Full]]

\* The next query of the poll, or the first of another poll, which comes a scan
\* interval later: what was on its way has arrived by then.
Query ==
  /\ ~reading
  /\ IF query = 0
     THEN wire = <<>> /\ poll < MaxPolls /\ poll' = poll + 1 /\ calm' = calm + 1 /\ read' = <<>>
     ELSE UNCHANGED <<poll, calm, read>>
  /\ query' = query + 1 /\ reading' = TRUE
  /\ wire' = wire \o Reply(Script[query + 1], poll')
  /\ buffer' = <<>>
  /\ UNCHANGED <<inbox, data, success, trouble>>

\* The poll ends without data; the coordinator keeps those it has.
FailPoll == query' = 0 /\ success' = FALSE /\ UNCHANGED <<read, data>>

\* Mutant: the command of a line is not compared.
DecodedFirst(lines, c) == lines[1]

\* _decode_values takes the first line of the command.
Decoded(lines, c) ==
  LET own == {i \in DOMAIN lines : lines[i].from = 0 /\ lines[i].line = c}
  IN  lines[CHOOSE i \in own : \A j \in own : i <= j]

\* What the client makes of a reply.
Got(lines) == IF Asked = "1800" THEN FromLines(lines) ELSE Decoded(lines, Asked)

\* Mutant: what a poll has read stays when it has been published.
TakeAndKeep(lines) ==
  /\ read' = Append(read, Got(lines))
  /\ IF query = Len(Script)
     THEN /\ data' = [poll |-> poll, overview |-> read'[1], blocks |-> Tail(read')]
          /\ success' = TRUE /\ query' = 0
     ELSE UNCHANGED <<query, data, success>>

\* Mutant: the overview is only taken over by the first poll that has one.
TakeFirstOverview(lines) ==
  LET all == Append(read, Got(lines)) IN
  IF query = Len(Script)
  THEN /\ data' = [poll |-> poll, blocks |-> Tail(all),
                   overview |-> IF data = NoData THEN all[1] ELSE data.overview]
       /\ success' = TRUE /\ query' = 0 /\ read' = <<>>
  ELSE read' = all /\ UNCHANGED <<query, data, success>>

\* After the last reply the data are published.
Take(lines) ==
  LET all == Append(read, Got(lines)) IN
  IF query = Len(Script)
  THEN /\ data' = [poll |-> poll, overview |-> all[1], blocks |-> Tail(all)]
       /\ success' = TRUE /\ query' = 0 /\ read' = <<>>
  ELSE read' = all /\ UNCHANGED <<query, data, success>>

\* The loop of _read_until_complete ends.
Complete(lines, c) == \E i \in DOMAIN lines : IsComplete(lines[i], c)

\* A read returns what is there, up to 1024 bytes.
Chunk ==
  /\ reading /\ inbox # <<>>
  /\ \E p \in IF Len(inbox) <= ReadLines THEN {<<Len(inbox), 0>>}
              ELSE {q \in Places(inbox) : q[1] >= ReadLines} :
       /\ buffer' = Joined(buffer, Before(inbox, p))
       /\ inbox' = Behind(inbox, p)
  /\ LET lines == Split(buffer') IN
     \/ /\ ~Complete(lines, Asked)
        /\ UNCHANGED <<query, reading, read, data, success>>
     \/ /\ Complete(lines, Asked) /\ reading' = FALSE
        /\ IF Asked = "1800" /\ Raises(lines) THEN FailPoll ELSE Take(lines)
  /\ UNCHANGED <<poll, wire, trouble, calm>>

\* Something goes wrong for the replies that are under way.
Disturb == trouble < MaxTrouble /\ trouble' = trouble + 1 /\ calm' = 0

\* A query times out or its port fails: the port is closed, and what is still
\* on its way finds it closed.
Fails ==
  /\ reading /\ Disturb
  /\ reading' = FALSE /\ FailPoll
  /\ wire' = <<>> /\ inbox' = <<>>
  /\ UNCHANGED <<poll, buffer>>

\* A write between two queries: what its peeks and its wait for 993 read is lost.
WriteReads ==
  /\ ~reading /\ inbox # <<>> /\ Disturb
  /\ \E p \in Places(inbox) : inbox' = Behind(inbox, p)
  /\ UNCHANGED <<poll, query, reading, wire, buffer, read, data, success>>

\* The last line that the polls have asked for.
LastAsked ==
  LET r == Reply(Script[IF query = 0 THEN Len(Script) ELSE query], poll) IN r[Len(r)]

\* A query between two of the polls', of a block that a setter changes or of one line by
\* send_raw: it reads all that is there up to its own line, of which it may leave the end.
\* An end is no answer to any query, and counts as that of the last line asked for.
\* If the query fails nothing is left.
SetterReads ==
  /\ ~reading /\ poll > 0 /\ Disturb
  /\ inbox' = <<>>
  /\ wire' \in {<<>>} \cup {<<[LastAsked EXCEPT !.from = m]>> : m \in {3, 4}}
  /\ UNCHANGED <<poll, query, reading, buffer, read, data, success>>

\* Some of what is on the wire arrives.  It is a cut if a reply is torn by it.
Arrive ==
  /\ wire # <<>>
  /\ \E p \in Places(wire) :
       /\ Before(wire, p) # <<>>
       /\ inbox' = Joined(inbox, Before(wire, p))
       /\ wire' = Behind(wire, p)
       /\ IF wire' = <<>> \/ (wire'[1].slot = 1 /\ wire'[1].from = 0)
          THEN UNCHANGED <<trouble, calm>>
          ELSE Disturb
  /\ UNCHANGED <<poll, query, reading, buffer, read, data, success>>

Next == Query \/ Chunk \/ Fails \/ WriteReads \/ SetterReads \/ Arrive

Spec == Init /\ [][Next]_vars

----------------------------------------------------------------------------
(* Properties *)

\* Every variable has its type.
TypeOK ==
  /\ poll \in 0..MaxPolls /\ query \in 0..Len(Script) /\ reading \in BOOLEAN
  /\ wire \in Seq(Piece) /\ inbox \in Seq(Piece) /\ buffer \in Seq(Piece)
  /\ Len(read) < Len(Script) /\ data.poll \in 0..poll /\ success \in BOOLEAN
  /\ trouble \in 0..MaxTrouble /\ calm \in 0..MaxPolls

\* The line whose values each class of models.py is for.
LineOf ==
  [temperatures |-> "1100", inputs |-> "1200", outputs |-> "1300", runtimes |-> "1400",
   hours |-> "1600", status |-> "2900"]

\* However the replies are cut, and whatever is left of one in front of the
\* next, all that an overview shows comes from the lines meant for it and from
\* one and the same reply: from_lines goes by position, but no shifted overview
\* passes the length tests of its parts.
OverviewOfOneReply ==
  data # NoData =>
    LET o == data.overview
        n == o.parts.temperatures.poll
    IN  /\ \A p \in Part : o.parts[p] # Default =>
             o.parts[p].line = LineOf[p] /\ o.parts[p].poll = n
        /\ \A l \in o.errors : l.line = "err" /\ l.poll = n
        /\ \A l \in o.shutdowns : l.line = "shut" /\ l.poll = n

\* The modes and blocks of a snapshot are answers to the poll that published it,
\* even if its overview is an older one.
BlocksAreOwn ==
  data # NoData => \A i \in DOMAIN data.blocks :
    data.blocks[i].poll = data.poll /\ data.blocks[i].line = Script[i + 1]

\* A cut reply costs a sensor at most the last digits of the total of hours, the
\* only value shown that ends its line and has several digits.
OnlyTotalTorn ==
  data # NoData => \A s \in AllSensors :
    (data.overview.parts[s.part].to = 3 /\ ShowsLast(s)) => s = Sensor.heat_pump_total_hours

Fresh == success /\ data.poll = poll /\ data.overview = FromLines(Split(Reply("1800", poll)))

\* What a cut, a failed query or a write has left behind is used up: at the
\* latest the fourth poll that begins after it publishes its own overview, whole.
HealsInFourPolls == (query = 0 /\ calm >= 4) => Fresh

\* A published overview may be the leftover of a poll that was cut short, but
\* never that of a poll before the one before: it lags by one poll at most.
OverviewLateness ==
  data # NoData => data.overview.parts.temperatures.poll + 1 >= data.poll

\* coordinator.py: "the latest polled snapshot".
OverviewIsLatest ==
  data # NoData => data.overview.parts.temperatures.poll = data.poll

\* models.py: the snapshot has 22 lines; a status that was sent is shown.
OverviewIsWhole == data # NoData => data.overview.parts.status # Default

Total(d) ==
  IF d = NoData \/ d.overview.parts.hours.to = 3 THEN 0 ELSE d.overview.parts.hours.poll

\* sensor.py: the total of hours is TOTAL_INCREASING, it never falls.
TotalNeverFalls == [][Total(data') >= Total(data)]_vars
=============================================================================

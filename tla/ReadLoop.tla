------------------------------ MODULE ReadLoop ------------------------------
(***************************************************************************)
(* How a query assembles its reply: _read_until_complete (transport.py),   *)
(* the line format of protocol.py and the client's choice of the line it   *)
(* decodes.  The queries of one poll run one after the other on one port.  *)
(*                                                                         *)
(* Bytes are tokens: a command stands for "<CMD>;<count>", "v" and "w" for *)
(* the first and the last digits of a value, "w779" for last digits that   *)
(* spell 779 with the ones before, "end" for CRLF and "779" for the error  *)
(* line.  A read may return any prefix of what is on the wire.             *)
(***************************************************************************)
EXTENDS Naturals, Sequences, FiniteSets

CONSTANTS
  Command,      \* the commands that are queried
  Script,       \* the commands of a poll, in their order
  Answer,       \* the tokens that the controller answers to each command
  Count,        \* the number of values of each command's line
  ReadTimeout,  \* READ_TIMEOUT_S
  WaitTimeout,  \* the timeout of one read
  MaxChunks,    \* MAX_CHUNKS
  MaxFaults     \* bound: errors the controller reports, link failures

Token == Command \cup {"v", "w", "w779", "end", "779", "993"}

ASSUME ScriptAssumption == Script \in Seq(Command)
ASSUME AnswerAssumption == Answer \in [Command -> Seq(Token)]
ASSUME LimitAssumption ==
  /\ Count \in [Command -> Nat \ {0}]
  /\ ReadTimeout \in Nat \ {0} /\ WaitTimeout \in Nat \ {0}
  /\ MaxChunks \in Nat /\ MaxFaults \in Nat

\* A command is not one of the other tokens.
ASSUME CommandAssumption ==
  Command \cap {"v", "w", "w779", "end", "779", "993"} = {}

\* Whole lines: the first digits of each value with its last ones behind
\* them, and behind each command its values and the CRLF.
WholeLines(s) ==
  \A k \in DOMAIN s :
    /\ s[k] = "v" => k < Len(s) /\ s[k + 1] \in {"w", "w779"}
    /\ s[k] \in Command =>
         \E e \in (k + 1)..Len(s) :
           /\ s[e] = "end" /\ \A j \in k..(e - 1) : s[j] # "end"
           /\ Cardinality({j \in k..(e - 1) : s[j] = "v"}) >= Count[s[k]]

\* What the controller sends are whole lines.
ASSUME ReplyAssumption == \A c \in Command : WholeLines(Answer[c])

VARIABLES
  pos,      \* the query of Script that runs or ran last
  reading,  \* it awaits a read
  elapsed,  \* time since it started
  waitEnd,  \* when the timeout of its read fires
  chunks,   \* reads that returned data
  buffer,   \* what they returned
  inbox,    \* data in the StreamReader
  open,     \* the port is open
  wire,     \* data on its way
  result,   \* how each query ended
  faults,
  errors    \* error lines that the controller has sent

vars == <<pos, reading, elapsed, waitEnd, chunks, buffer, inbox, open, wire,
          result, faults, errors>>

Init ==
  /\ pos = 0 /\ reading = FALSE
  /\ elapsed = 0 /\ waitEnd = 0 /\ chunks = 0
  /\ buffer = <<>> /\ inbox = <<>> /\ open = FALSE /\ wire = <<>>
  /\ result = [q \in DOMAIN Script |-> "none"]
  /\ faults = 0 /\ errors = 0

----------------------------------------------------------------------------
(* Lines *)

\* The lines of a buffer: the stretches between one CRLF and the next, the
\* last one with or without a CRLF behind it.
Lines(buf) ==
  {ij \in (DOMAIN buf) \X (DOMAIN buf) :
     /\ ij[1] <= ij[2] /\ \A k \in ij[1]..ij[2] : buf[k] # "end"
     /\ ij[1] = 1 \/ buf[ij[1] - 1] = "end"
     /\ ij[2] = Len(buf) \/ buf[ij[2] + 1] = "end"}

\* A line that starts in the middle of a reply has no command.
IsOwn(buf, line, c) == buf[line[1]] = c

\* How many values a line holds.
NumValues(buf, line) == Cardinality({k \in line[1]..line[2] : buf[k] = "v"})

\* Mutant: the command of a line is not compared.
CompleteOfAny(buf, c) == {l \in Lines(buf) : NumValues(buf, l) >= Count[c]}

\* The lines that make _read_until_complete stop.
Complete(buf, c) ==
  {l \in Lines(buf) : IsOwn(buf, l, c) /\ NumValues(buf, l) >= Count[c]}

\* _decode_values takes the first line with the right command and count.
Decoded(buf, c) ==
  {l \in Lines(buf) : IsOwn(buf, l, c)
     /\ \A m \in Lines(buf) : IsOwn(buf, m, c) => l[1] <= m[1]}

\* has_error_marker scans bytes, not lines.
HasErrorMarker(buf) == \E k \in DOMAIN buf : buf[k] \in {"779", "w779"}

----------------------------------------------------------------------------
(* The loop *)

Running == Script[pos]

\* Mutant: the StreamReader outlives the port.
CloseKeepsReader(r) ==
  /\ reading' = FALSE /\ result' = [result EXCEPT ![pos] = r]
  /\ open' = FALSE /\ inbox' = inbox

\* Mutant: the result is numbered from zero.
CloseWithoutResult(r) ==
  /\ reading' = FALSE /\ result' = [q \in 0..pos |-> r]
  /\ open' = FALSE /\ inbox' = <<>>

\* The query raises; the port and its reader are gone.
CloseAndRaise(r) ==
  /\ reading' = FALSE /\ result' = [result EXCEPT ![pos] = r]
  /\ open' = FALSE /\ inbox' = <<>>

\* Mutant: the condition lets a round start in which the deadline has passed.
NextRoundLate == elapsed <= ReadTimeout + 1

\* The loop's condition.
NextRound == elapsed < ReadTimeout

\* Another round of the loop, or the end of it.
Await ==
  IF NextRound
  THEN waitEnd' = elapsed + WaitTimeout /\ UNCHANGED <<reading, open, inbox, result>>
  ELSE CloseAndRaise("incomplete") /\ UNCHANGED waitEnd

\* The next query of the poll: _ensure_locked, the command, the first round.
\* The controller answers, or reports an error, some time.
Query ==
  /\ ~reading /\ pos < Len(Script)
  /\ pos' = pos + 1 /\ reading' = TRUE
  /\ open' = TRUE
  /\ elapsed' = 0 /\ waitEnd' = WaitTimeout
  /\ chunks' = 0 /\ buffer' = <<>>
  /\ \/ wire' = wire \o Answer[Script[pos']] /\ UNCHANGED <<faults, errors>>
     \/ /\ faults < MaxFaults /\ faults' = faults + 1
        /\ errors' = errors + 1
        /\ wire' = wire \o <<"779", "end">>
  /\ UNCHANGED <<inbox, result>>

\* Mutant: the number of chunks is not limited.
TooMany(n) == FALSE

TooManyChunks(n) == n > MaxChunks

\* read returns what is there.
Chunk ==
  /\ reading /\ inbox # <<>>
  /\ chunks' = chunks + 1 /\ buffer' = buffer \o inbox
  /\ \/ /\ HasErrorMarker(buffer')
        /\ CloseAndRaise("desync")
        /\ wire' = wire \o <<"993", "end">>   \* in answer to the abort's 999
        /\ UNCHANGED waitEnd
     \/ /\ ~HasErrorMarker(buffer') /\ Complete(buffer', Running) # {}
        /\ reading' = FALSE /\ result' = [result EXCEPT ![pos] = "ok"]
        /\ inbox' = <<>> /\ UNCHANGED <<open, wire, waitEnd>>
     \/ /\ ~HasErrorMarker(buffer') /\ Complete(buffer', Running) = {}
        /\ IF TooManyChunks(chunks') \/ ~NextRound
           THEN CloseAndRaise("incomplete") /\ UNCHANGED waitEnd
           ELSE /\ waitEnd' = elapsed + WaitTimeout /\ inbox' = <<>>
                /\ UNCHANGED <<reading, open, result>>
        /\ UNCHANGED wire
  /\ UNCHANGED <<pos, elapsed, faults, errors>>

\* wait_for times out, possibly just as data comes in.
Timeout ==
  /\ reading /\ elapsed = waitEnd
  /\ Await
  /\ UNCHANGED <<pos, elapsed, chunks, buffer, wire, faults, errors>>

\* read raises, or returns nothing at the end of file.
LinkFails ==
  /\ reading /\ faults < MaxFaults /\ faults' = faults + 1
  /\ CloseAndRaise("failed")
  /\ UNCHANGED <<pos, elapsed, waitEnd, chunks, buffer, wire, errors>>

\* Time passes while the event loop has nothing to do.
Tick ==
  /\ reading /\ inbox = <<>> /\ elapsed < waitEnd
  /\ elapsed' = elapsed + 1
  /\ UNCHANGED <<pos, reading, waitEnd, chunks, buffer, inbox, open, wire,
                 result, faults, errors>>

\* Some of the tokens on the wire arrive; a closed port loses them.
Arrive ==
  /\ \E n \in 1..Len(wire) :
       /\ inbox' = IF open THEN inbox \o SubSeq(wire, 1, n) ELSE inbox
       /\ wire' = SubSeq(wire, n + 1, Len(wire))
  /\ UNCHANGED <<pos, reading, elapsed, waitEnd, chunks, buffer, open, result,
                 faults, errors>>

Next == Query \/ Chunk \/ Timeout \/ LinkFails \/ Tick \/ Arrive

Spec == Init /\ [][Next]_vars

----------------------------------------------------------------------------
(* Properties *)

\* Every variable has its type.
TypeOK ==
  /\ pos \in 0..Len(Script) /\ reading \in BOOLEAN /\ open \in BOOLEAN
  /\ elapsed \in Nat /\ waitEnd \in Nat /\ chunks \in Nat
  /\ buffer \in Seq(Token) /\ inbox \in Seq(Token) /\ wire \in Seq(Token)
  /\ result \in [DOMAIN Script -> {"none", "ok", "desync", "incomplete", "failed"}]
  /\ faults \in 0..MaxFaults /\ errors \in 0..MaxFaults

Accepted == pos > 0 /\ ~reading /\ result[pos] = "ok"

\* The client decodes a line that the transport has judged complete, whatever
\* an earlier query has left in front of it: the two choose by different
\* tests (transport.py:214-226, client.py:243-260).
DecodesCompleteLine ==
  Accepted => Decoded(buffer, Running) # {}
              /\ Decoded(buffer, Running) \subseteq Complete(buffer, Running)

\* A line that a query accepts is one reply's: its digits follow each other
\* as they were sent, only the very last value can lack some.
LineIsOneReply ==
  Accepted => \A l \in Complete(buffer, Running) :
    \A k \in l[1]..l[2] :
      (buffer[k] = "v" /\ k < Len(buffer)) => buffer[k + 1] \in {"w", "w779"}

\* A query never outlasts its deadline by a whole wait.
EndsSoonAfterDeadline == elapsed < ReadTimeout + WaitTimeout

\* At most one chunk more than MAX_CHUNKS is read.
FewChunks == chunks <= MaxChunks + 1

\* protocol.py: replies are CRLF-terminated lines, so the values of an
\* accepted line are whole.
AcceptedLineIsWhole ==
  Accepted => \A l \in Decoded(buffer, Running) : buffer[l[2]] # "v"

\* has_error_marker: true if the controller has signalled a desync.
DesyncWasSignalled ==
  \A q \in DOMAIN Script : result[q] = "desync" => errors > 0

\* READ_TIMEOUT_S: "wall clock per request".
EndsByDeadline == elapsed <= ReadTimeout

\* MAX_CHUNKS: "chunks without a complete frame -> fail".
ChunkLimit == chunks <= MaxChunks

NumEnds(buf) == Cardinality({k \in DOMAIN buf : buf[k] = "end"})

\* read_overview, from_lines: the snapshot has all the lines of the reply.
OverviewIsWhole ==
  Accepted => NumEnds(buffer) >= NumEnds(Answer[Running])

\* from_lines: the lines of the reply are at the places of the snapshot that
\* it reads them from.
LinesInPlace ==
  Accepted => \A k \in DOMAIN buffer :
    k \in DOMAIN Answer[Running] => buffer[k] = Answer[Running][k]
=============================================================================

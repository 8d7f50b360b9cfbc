# Luxtronik 1 over a serial line: a TLA+ model of the integration

This directory holds a model of the Home Assistant integration in
`custom_components/luxtronic1`: TLA+ modules, configurations for the model
checker TLC, and proofs for the proof system TLAPS. `PROJECT.json` says for
every definition which lines of the code it stands for (`map`), and lists the
runs, the mutants, the theorems, the hazards and the places where the code does
not do what its documentation says (`findings`). Paths below are relative to
`custom_components/luxtronic1` unless they begin with another directory.

    tlc -config TransportLock.cfg MCTransport     # one run
    tlapm TransportProofs.tla                     # the proofs of one module

## 1. Inventory

The integration is one asyncio program. Its tasks take turns at `await`, so an
interleaving is a choice of suspension points. They share one serial port, at
whose other end is the heat pump's controller.

| Component | State | Operations | Model |
|---|---|---|---|
| Transport (`transport.py`) | `_lock`, `_reader`, `_writer`, `_connected` | `async_connect`, `async_close`, `query`, `execute_write`, abort, desync recovery | `Transport`, `SerialLine`, `ReadLoop` |
| Protocol (`protocol.py`) | none | encode, decode a line, find 779, 993, 999 | `ReadLoop`, `Snapshot`; alphabet of `Transport` |
| Client (`client.py`) | `_write_lock`, `_last_write`, `_read_only` | reads, setters, read-change-write of blocks, raw command | `Client`, `AtomicBlock`, `Blocks`; raw commands in `Transport` |
| Block models (`models.py`) | none | `from_values`, `to_wire`, `Overview.from_lines` | `Blocks`, `Snapshot` (overview) |
| Coordinator (`coordinator.py`) | the last snapshot, the client and its transport | poll, shutdown | `Controls`, `Snapshot`, `Integration`, `Client` |
| Config entry (`__init__.py`) | set up or not, options | set-up, unload, reload | `Integration` |
| Config flow (`config_flow.py`) | a transport of its own for a test | add the entry, reconfigure, options | `Integration` |
| Services (`services.py`) | none | four services on the loaded entry | `Blocks` (times), `Integration` (gate), `Client` (calls) |
| Climate, water heater | none of their own: they show the snapshot | set mode, preset, temperature, operation, on, off | `Controls` |
| Sensors, binary sensors | none of their own: they show the snapshot | read one value of it | `Snapshot` |
| Device, diagnostics, code tables | none | formatting | not modelled |
| Test emulator, hardware scripts | - | - | not modelled |

How they interact. Home Assistant sets up the entry, which makes a coordinator,
which makes a transport and a client on it. The coordinator polls in an
interval: six queries, one after the other, each of which takes and gives back
the transport's lock. Services and entities call setters of the same client; a
setter takes the client's write lock, waits for the cooldown, and takes the
transport's lock for a handshake (open, payload, 999, two seconds apart) or,
when it changes fields of a block, first for a query and then for the
handshake. The config flow tests a port with a transport of its own.

What is hard about it, and what makes each part correct:

* *Transport.* Cancellation at any `await`; a controller that is slow, silent,
  or answers 779 because a session is open; a link that is lost. The lock is
  always given back, no frame gets between the frames of a handshake, a reply is
  taken by the query that asked for it, what a write staged is applied by its
  own 999 or not at all, an error leaves the port in a state that the next call
  can start from.
* *Read loop.* Replies arrive in chunks cut anywhere, behind what an earlier
  reply left. The accepted line is complete and one reply's; the limits of time
  and chunks hold.
* *Client.* A poll, other setters and broken-off writes come between a read and
  its write-back: no update is lost. The cooldown is kept. No deadlock of the
  two locks.
* *Blocks.* What a setter was not asked to change goes back as it came.
* *Entry and flow.* Calls outlive a reload. The port is given back, read-only
  mode holds, the reload gets through.
* *Snapshot.* 22 lines are taken by their positions, from a stream in which an
  earlier reply may have left its rest. What is shown comes from one reply and the lines meant for
  it; a disturbance heals.
* *Entities.* Writes come between the queries of a poll; there are two modes
  that mean off. What the user chose is what is shown.

`hazards` in `PROJECT.json` lists these one by one at their lines, with the
properties that cover each.

## 2. Modules

Each module is the state and the actions of one component; `MC<module>` gives
the constants their values for TLC. Actions are named for what they do at the
code's level; a definition whose comment begins with "Mutant" is not used by the
specification: it is what a bug would put in place of the definition after it.

### Transport

One action is the code between two suspension points of a coroutine. `pc[t]` is
the suspension point (`reading`: in `_read_until_complete`; `opened`, `paid`: in
the pauses after the first and second frame; `committing`: in `_await_commit`;
`aborting`, `recovering`: between the two frames of an abort; `closing`: in
`wait_closed`), `holder` and `waiters` are the `asyncio.Lock`, `writer` and
`connected` the port, `rx` the `StreamReader`, `tx` the frames on their way.
`Cancel` raises `CancelledError` at any suspension point. `LinkLost` and
`FirstSendFails` are link failures. A query may send any of `RawCommands` instead of a
read command, as `async_send_raw` lets it: it opens, fills, commits or drops a session
that nobody closes.

The controller is external and does what the head of `protocol.py` says: a
session per write, 779 for a command that does not fit the session, `0;0` or
`<CMD>;0` drops a session, 999 commits what is staged. With `TimelyController` it has
answered before a pause or a deadline ends; without, it may answer at any time
or never. `Garbled` is a frame it cannot make sense of.

History variables (`outcome`, `got`, `saw779`, `committed`, `last`, ...) record
what the properties compare; no guard of the program reads them, except the
bound on calls.

Chunks are left to `ReadLoop`: here a read takes all that has arrived, replies come
whole, and a read may fail at any time that the controller's speed allows. So what `OwnReply`
says is said of whole replies; what a cut one leaves to the next query is `ReadLoop`'s and
`Snapshot`'s.

### SerialLine

What the transport promises its callers, without ports, frames or sessions: a
queue of calls, the one that is served, how each ended, and who spoke last.
`Transport` instantiates it with the numbers of its calls (`Queue`, `Current`,
`outcome`, `last.id`); `ServesInOrder == Line!Spec` is the refinement.

### ReadLoop

`_read_until_complete` token by token: a read returns any prefix of what is on
the wire, so replies are cut inside lines and inside values. `elapsed` and
`waitEnd` are the deadline of the loop and that of one `wait_for`. The queries of
a poll run one after the other, so leftovers of one come before the next.

### Snapshot

A poll's six replies as lines in the stream, cut anywhere; which lines a query returns;
the parts that `Overview.from_lines` takes of them by position, their length tests
and the `ValueError` they raise; the publication of the data; and for every sensor
and binary sensor the field it reads. A line carries which reply and which place in it it
is from: that is what the properties compare. A write between two queries reads some
of what is left (`WriteReads`); a query of somebody else, of a setter or a raw one, reads all
that is left and may leave the end of its own line (`SetterReads`); a query that fails drops
it (`Fails`).

### Client

Both locks, the cooldown, and the read-change-write of `set_heating_curve` and
`set_hysteresis`. Time is discrete and relative: timers run down, ages run up to
the cooldown. A query and a handshake have a step at each instant at which
something happens on the line.

### AtomicBlock

What the client promises the callers of `set_heating_curve` and `set_hysteresis`, without
locks, queries, frames or sessions: the fields that a call changes get its value in one step, or
never. `Client` instantiates it with the numbers of its calls; what a call may still change
(`Pending`) is what its task is at, or what it has left staged when it was cancelled, since the
abort of a later write may take that over. `UpdatesAreAtomic == Atomic!Spec` is the refinement.

### Integration

Generations of coordinators, each with a transport, its lock and its port, the
client's read-only flag, the entry's states and options, and the config flow as
transport number 0. Calls keep the coordinator they found. A test of a connection that
succeeds adds the entry or has it reloaded; a reply that cannot be parsed ends
the operation and leaves the port open (`Malformed`). `ShutsFailed` says whether Home
Assistant shuts down the coordinator of a set-up that failed; the runs take it that it does.

### Blocks

`HeatingCurve`, `TempSettings`, `BWSchedule` on sequences of integers, the setters
that change some fields, and the parser of times. A setter is one step; `Client`
has what comes between its read and its write.

### Controls

The entities' service calls, the controller's fields, and polls as series of
queries between which writes, failures and changes at the heat pump's own panel
fall. A query or a write is one step, which `Transport`'s lock justifies; polls do not overlap,
since Home Assistant's coordinator runs one refresh at a time.

The modes and the curve have queries of their own, which read the controller's present
value. The water heater's temperature is `dhw_setpoint` of the overview (water_heater.py:107-109),
and the overview that a poll reads may be the answer to the poll before (`Snapshot`): `asked` is
the setpoint in the answer to the last query for an overview, and `Answers` lets the next such query read
it in place of its own. The climate entity writes its temperature to the offset of the curve and shows
`return_setpoint` (climate.py:84), which the controller computes from the whole curve; there is no value
to compare with what was chosen, so that call has no choice.

`chosen`, `since`, `truth` and `earlier` are history: the last choice for each field and how many polls
have begun since it was written, the values a field has had since the running poll began, and those
the setpoint had since the poll before it.

### How they fit together

`Integration`, `Client` and `Controls` use the transport as a lock around
operations that end and do not mix. Its order and exclusion are `SerialLine`, which
`Transport` is proved to implement; `Integration`'s `Acquired` and `Released` are its
`Submit` and `End`. That the operations do what they say is what `UnbrokenHandshake`, `OwnReply` and
`EveryCallEnds` say of `Transport`. `Transport` uses the read loop as something
that ends with the query's line or raises: `ReadLoop`'s `DecodesCompleteLine` and
`EndsSoonAfterDeadline`. `Client` takes a block as fields that change one by one:
`Blocks`' `OnlyAskedChange`.

`Controls` takes from `Snapshot` what a query may read: modes and blocks answer the poll's own
queries (`BlocksAreOwn`), and an overview is at most one poll old (`OverviewLateness`). So a mode in a
snapshot is never older than its poll, a target temperature at most as old as the poll before. What the queries of other
calls leave in the stream is in `Snapshot` (`WriteReads`, `SetterReads`) and not once more in `Controls`.

## 3. Runs

Passing runs:

| Run | Instance | Shows |
|---|---|---|
| TransportLock | 2 tasks, 1 block, 3 calls of all four kinds, 1 cancellation, 1 link loss, any controller, fair; 895,000 states | `TypeOK`, `LockInv`, `UnbrokenHandshake`, `FailedReadClosesPort`, `EveryCallEnds` |
| TransportCancel | 2 tasks, 1 block, 4 reads and writes with abort tokens, 2 cancellations, 1 link loss, timely controller; 5,416,000 | `AckedMeansApplied`, `AppliedByOwnCommit`, `NoStrandedSession`, `AbortedNeverApplied` |
| TransportDesync | 3 tasks, 2 blocks, 5 calls, of which 1 is any raw command or has 1 frame garbled, timely; 1,530,000 | `OwnReply`, `RecoveryEndsSession`, and that it implements `SerialLine` (`ServesInOrder`) |
| ReadPoll | three queries, every cut of their replies, 1 fault | `TypeOK`, `DecodesCompleteLine`, `LineIsOneReply`, `EndsSoonAfterDeadline`, `FewChunks` |
| SnapshotPoll | 5 polls, every cut of their replies, 2 cuts, failures, writes or other queries; 1,199,000 | `TypeOK`, `OverviewOfOneReply`, `BlocksAreOwn`, `OnlyTotalTorn`, `HealsInFourPolls`, `OverviewLateness` |
| ClientUpdate | 2 tasks, 2 fields, 3 calls, 2 faults, fair; 151,000 | `TypeOK`, `NoLostUpdate`, `ReservationsApart`, `EveryCallEnds`, and that it implements `AtomicBlock` (`UpdatesAreAtomic`) |
| EntryReload | 2 tasks, 3 generations, 4 operations and flows, 1 cancellation, fair; 734,000 | `TypeOK`, `ReadOnlyCallsBarred`, `ShutdownReleasesPort`, `FlowReleasesPort`, `ReloadGetsThrough` |
| BlocksPatch | blocks of distinct values, unbounded sequences of calls | `TypeOK`, `TimesOfDay`, `OnlyAskedChange` |
| ControlsPoll | 1 entity call, 1 panel change, 1 failure, unbounded polls, each with its own overview or the one before, fair; 59,000 | `TypeOK`, `ChosenIsShown`, `SnapshotWasTrue`, `ChoiceGetsShown` |

Runs that end in a violation. Each shows that the code does something other than
a document, comment or test of the repository says; `findings` quotes the line.

| Run | What happens |
|---|---|
| TransportStaged | A write is cancelled between payload and 999; the 999 that ends the abort of a later write of another block commits it. |
| ReadTorn | A last value cut by a chunk boundary is accepted with the digits that are there. |
| EntryReadOnly | A write that waits for the cooldown is sent after the entry was reloaded read-only. |

Preconditions that the passing properties need, found by dropping them:
`OwnReply` needs a timely controller, no link loss, no cancellation, and a single desync or any number of which none is
the `0;0` or 999 of an abort (with `MaxDesyncs = 2` the 999 of a recovery is garbled, and its 779 is read
late, by the next query's recovery);
`AckedMeansApplied` needs a timely controller (garbled frames and raw commands, which its run does
not have, are left to its proof); `AppliedByOwnCommit` holds while all
writes are of one block, because the abort of the next one then names the same
command (TransportStaged has two); `AbortedNeverApplied` and `NoStrandedSession` need
frames that arrive ungarbled, or an abort may not be understood.

Some properties judge less than their neighbours, and the hazards name the right ones:
`OwnReply` has a timely controller in TransportDesync, and is violated by a late one (section 4);
`ShutdownReleasesPort` leaves out coordinators that had a call under way when they were shut down,
of which `UnloadedMeansClosed` speaks (section 4); `ReadOnlyCallsBarred` is about calls made after the option was
changed, EntryReadOnly about those made before; `OnlyAskedChange` is about the values of one
call, `NoLostUpdate` and `UpdatesAreAtomic` about what comes between its read and its write.

Deadlock is not checked in the runs whose calls are bounded: once the calls are
used up and done, nothing is left to do, and a program without calls rests. In
Blocks and Controls there is always a next step, and it is checked.

### Bounds

Two tasks are enough for every conflict on the port: one inside a handshake, one
outside; that a longer queue neither loses nor doubles a waiter is proved
(`LockCorrect`). One write, what breaks it off, and two more calls that may stumble over the rest is the longest chain of cause
and effect that the recovery has: 4 calls, 5 in TransportDesync where the raw command
or the garbled frame comes in addition, and 3 tasks, so that two wait while one is served. `PeekItems` is the number of replies that fit into 256
bytes, `MaxDesyncs` bounds garbled frames and raw commands together.
`ReadLines = 30` is a number of lines that a read of 1024 bytes holds: in the emulator's replies
(tests/emulator/fake_luxtronik.py) any 30 lines in a row are at most 761 bytes. It is the least with
which `HealsInFourPolls` holds: with 29, TLC finds a fifth poll that is needed;
`MaxTrouble = 2` lets a second cut hit the poll that reads the leftovers of the first, and
`MaxPolls = 5` leaves the four polls within which it heals after it. The times of `Client` and `ReadLoop` are the code's seconds (cooldown 5, pause
2, commit wait 5, deadline 8, wait 2), and the longest query 9. Three
generations are two reloads: a call may then be two coordinators late. Two
temperatures tell what was asked for from what was there; more than one call of the
entities is left to the proof of `ChoicesShown`. Symmetry of tasks and blocks is used
in runs of safety properties only. The proofs of section 5 do without any of these
bounds.

### Fairness

`FairSpec` of `Transport` and of `Client` asks that the event loop runs a task that
is ready, and that timers fire: every `await` in the code is a `sleep`, a `wait_for`
with a timeout, or the lock; `wait_closed` and `drain` are taken to return.
Nothing is asked of the controller: `TransportLock` has one that need not answer.
`Integration` asks the same of each operation, and that Home Assistant reloads an entry
whose options or connection have changed and sets up one that is unloaded. `Controls` asks that polls
go on and writes end; a poll that fails for ever is not excluded by this but by
`MaxFaults`.

Every property of a passing run has a mutant: a definition of the model is replaced
by one with a plausible bug (a call that does not leave the lock, an error path
that does not close the port, an abort that forgets its first frame, a field
that changes places), and TLC must then find the property violated in the same run.

## 4. More places where the code breaks its word

Found on the way, stated as properties of the modules, and violated as the table
says; a run of each would only repeat what the table says of it. To see a trace, put
the property in place of those of the configuration, with the changes named.

| Property | Configuration | What happens, and what it contradicts |
|---|---|---|
| `DesyncReconnects` (PROPERTY) | TransportDesync | A write that meets 779 aborts with its own command and leaves the port open (transport.py:266, 303-313). README.md:102: a 779 is followed by `0;0`, 999 and a reconnect. |
| `DesyncNeverSucceeds` | TransportDesync | A 779 that comes after the 999 of a write is read and ignored, and the write returns normally (`_await_commit`, transport.py:345-367). CHANGELOG.md:14: a 779 is an error. |
| `OwnReply` | TransportDesync, `TimelyController = FALSE` | A query times out and closes the port; its late reply is taken by the next query of the same block. transport.py:118: "so the next request starts clean". |
| `PeekSeesBuffered779` (PROPERTY) | TransportDesync, `PeekItems = 1`, `MaxCancels = 1` | A 779 behind 256 bytes of other replies is not seen by the peek. transport.py:316: "Return True if the controller has signalled 779 in the read buffer". |
| `OverviewIsLatest` | SnapshotPoll | After a cut, a poll publishes the overview that the poll before it asked for. coordinator.py:40: "... the latest polled snapshot". |
| `OverviewIsWhole` | SnapshotPoll | An overview is published without its last line: its status shows defaults. models.py:305 parses 22 lines. |
| `TotalNeverFalls` (PROPERTY) | SnapshotPoll | The total of hours is cut inside its digits and falls. sensor.py:142: `TOTAL_INCREASING`. |
| `DesyncWasSignalled` | ReadPoll | A value that contains the digits 779 is taken for a desync. protocol.py:143. |
| `EndsByDeadline` | ReadPoll | A query takes up to a wait of 2 s longer than `READ_TIMEOUT_S`. transport.py:36: "wall clock per request". |
| `ChunkLimit` | ReadPoll | A query fails after `MAX_CHUNKS + 1` chunks. transport.py:37. |
| `OverviewIsWhole` | ReadPoll | The reply is accepted with its first line; models.py:305 parses 22. |
| `LinesInPlace` | ReadPoll, `Script <- NextPoll`, `MaxFaults = 0` | What an earlier reply has left stands in front of the overview and shifts its lines, which models.py:305-315 takes by position. |
| `WritesApart` | ClientUpdate | A handshake begins right after another, when the first waited for the port behind a poll: the cooldown counts from before that wait. const.py:35: "seconds between consecutive writes". |
| `PortOpenedOnce` | EntryReload | The config flow opens the port that the entry has open. README.md:79-80. |
| `ShutdownReleasesPort` | EntryReload, `ShutsFailed = FALSE` | A first refresh whose reply cannot be parsed raises `ValueError`, which coordinator.py:82 does not expect; the set-up fails with the port open. __init__.py:44: on failure Home Assistant retries, with another transport. |
| `UnloadedMeansClosed` | EntryReload, `PollReads = 1` | A write that waits for the cooldown during the unload opens the port again (transport.py:139-155), and nobody closes it. transport.py:110: "Close the port and release resources". With polls of more queries a poll does the same, unless Home Assistant cancels it. |
| `OtherPortIsTested` | EntryReload | Reconfigure refuses another port before it tests it, since the unique id is the port. strings.json:17. |
| `OffIsShownAsOff` | ControlsPoll | Mode 5 is labelled "Off" (const.py:96, 105) and shown as heating (climate.py:93) and as on (water_heater.py:121). |

## 5. Proofs

`TransportProofs`, `SessionProofs`, `ReadLoopProofs`, `SnapshotProofs`, `ClientProofs`,
`IntegrationProofs`, `BlocksProofs` and `ControlsProofs` prove, for every value of the constants that the named ASSUMEs admit (any number of tasks, blocks, calls, cancellations,
temperatures):

* **Transport.** `TypeCorrect` ([]TypeOK), `LockCorrect` ([]LockInv), `HandshakeUnbroken`
  ([]UnbrokenHandshake), `FailedReadReconnects` ([]FailedReadClosesPort). The
  inductive invariant is

      IInv == TypeOK /\ LockInv /\ CallInv /\ UnbrokenHandshake

  `LockInv` is inductive with the types of the lock's variables alone, and is
  proved first, over the four ways in which a step touches the lock (stay, release,
  acquire, leave). `CallInv` says that a task that is not idle has a call with a
  number of its own and of the kind that its suspension point belongs to;
  without it `UnbrokenHandshake` is not inductive, since two tasks could share a
  number. The step for `UnbrokenHandshake` is then: only the holder sends
  (`StepSends`), and what it sends is what `LastSent` says of its next suspension
  point. `FailedReadClosesPort` follows from `IInv` and what each step does to
  `lastEnded` and the port (`NextFailedRead`).
* **Transport implements SerialLine.** `TransportServesInOrder` (Spec => ServesInOrder), in
  `TransportProofs`. The mapping takes the numbers of the calls: `Queue` those of `waiters`,
  `Current` that of `holder`, 0 for none. On top of `IInv` the refinement needs

      LInv == IInv /\ OneTaskEach /\ KnowsResult

  `OneTaskEach`: no two tasks are in the same call, and a call in progress has no
  result yet, else `End` and `GiveUp` could end a call twice or the wrong one.
  `KnowsResult`: a task that aborts or closes has fixed how its call will end, else
  it would end with "none". Every step of a call that holds the lock either goes
  on, ends it, or hands the lock over (`StepProceeds`), and sends only frames with
  its own number; `Cancel` of a waiter is `GiveUp` at its place in the queue
  (`CancelRefines`), of the holder an `End` or a stutter.
* **Sessions and commits**, in `SessionProofs`. All of it is about the call that has the
  lock: `Stage`, `Own` and `Result` are its suspension point, call and result, and every
  step is one of its steps, one that leaves it alone, or one of the line (`NextView`). What
  they share is `SInv`: `LInv`, and that a call that has not begun has sent nothing,
  that the port is open while frames are sent unless the link was lost, and that queries and writes
  name a block. On top of it, each property has an invariant of its own, which follows the
  frames through `tx`:

  | Theorem | Assumes | Invariant |
  |---|---|---|
  | `RecoveryEndsIt` ([]RecoveryEndsSession) | `MaxDesyncs <= 1` | `RecoveryInv`: behind the `0;0` of a recovery comes its 999; if one is lost, the other is not |
  | `OnlyCancelledStrands` ([]NoStrandedSession) | `MaxDesyncs = 0` | `StrandInv`: every session that is open, or that a frame is about to open, has a 999 behind it, or its call is cancelled or not done |
  | `AckedIsApplied` ([]AckedMeansApplied) | `TimelyController`, `[]PeekSeesAll` | `AckInv`: after each pause the session is as far as the handshake, or 779 is in the buffer; before the 999 no acknowledgement is |
  | `OnlyOwnCommits` ([]AppliedByOwnCommit) | the same, `MaxDesyncs = 0`, `OneBlock` | `OwnInv`: a 999 on the line finds nothing staged but what its own call has, or has a frame before it that drops it |
  | `AbortedStaysUnapplied` ([]AbortedNeverApplied) | the same | `AbortInv`: a call that its token stops has sent no 999 of a handshake |
  | `QueryGetsOwnReply` ([]OwnReply) | `TimelyController`, `~UseAbortToken`, `MaxCancels = 0`, `MaxDrops = 0`, `[]PeekSeesAll`, `[][~GarblesAbort]_vars` | `ReadInv`: only the last frame of the holder can be answered with a line or 779, and such an answer in the buffer means that nothing else is under way |

  None of the assumptions is for the proof's sake; each has a behaviour of the code behind it that
  breaks the property. `MaxDesyncs`: with two garbled frames both frames of a recovery can be
  lost, and with one the 999 that ends an abort. `TimelyController`: the late
  acknowledgement of an abort is taken for a write's own, a late reply for the next query's.
  `PeekSeesAll` (`rx` is within what one peek of 256 bytes sees, in all states): a 779 behind them
  is missed (`PeekSeesBuffered779` in section 4). `OneBlock`: the run TransportStaged. For `OwnReply`: a cancelled
  query leaves its reply to the next; a lost link does the same with a command; an abort by a token in
  a pause leaves a 779 unread (no caller in the integration passes a token); and a garbled `0;0` or 999 keeps the session
  that the next command then meets. Any other frame may be garbled, any number of times, and any raw command sent.
* **ReadLoop**, in `ReadLoopProofs`: `ReadLoopTyped` ([]TypeOK),
  `ClientDecodesWhatWasComplete` ([]DecodesCompleteLine), `AcceptedLineIsOneReply`
  ([]LineIsOneReply), `QueryEndsInTime` ([]EndsSoonAfterDeadline) and `ChunksAreFew`
  ([]FewChunks), for any commands, replies, cuts and limits. They assume of the controller that no value is
  a command (`CommandAssumption`) and that it sends whole lines (`ReplyAssumption`); TLC evaluates
  both in ReadPoll and ReadTorn. The inductive invariant is

      TypeOK /\ PortInv /\ LimitInv /\ StreamInv /\ AcceptedInv

  `StreamInv` is what the two properties of lines need: the inbox with what is on the wire, and
  while a query runs its buffer in front of them, are whole lines but for the beginning of the first, since
  whatever is lost is lost from the front (`DropWhole`); so the buffer by itself lacks at
  most the end of its last line (`FrontBegun`). A line that the loop takes as complete is then the
  first of its command in the buffer, or the first is complete as well (`FirstIsComplete`), and
  the client, which takes the first, decodes a complete one. `LimitInv` bounds the
  time by that of the wait which is running.
* **Snapshot**, in `SnapshotProofs`: `TypeCorrect` ([]TypeOK), `OverviewComesFromOneReply`
  ([]OverviewOfOneReply), `BlocksComeFromOwnPoll` ([]BlocksAreOwn), `OnlyTotalIsTorn`
  ([]OnlyTotalTorn), `OverviewIsNotLate` ([]OverviewLateness) and `HealsByFourthPoll`
  ([]HealsInFourPolls), for any number of polls, cuts, failures, writes and other queries. The last two assume
  `ReadLines >= 22`, that a read returns a whole overview, and `ReadLines >= 30`, both of which the code's 1024
  bytes hold (section 3); with 29 lines the healing takes a poll more. The inductive invariant is

      IInv == Counters /\ StreamInv /\ BufferInv /\ ReadInv /\ DataInv

  The buffer of a query, the inbox and the wire are one `Stretch` of the stream behind the other:
  every line is followed by the next of its reply, or by the first of a later one, and only the first
  may lack its beginning, since whatever is lost is lost from the front (`CutStretch`,
  `JoinStretch`). `Place` orders all lines that are ever sent; of the lines on their way, only the
  block that the running query asked for can still have its beginning (`AllAllowed`), which gives
  `BlocksAreOwn`. An overview is refused unless its sixth line has the 29 values of the run
  times, and only line 1400 has that many; so the sixth line is the sixth of its reply, and the lines
  in front of it and behind it are of the same reply and at their places (`SlotOf1400`, `InPlace`,
  `OneReply`). For the lateness, `AgeInv`: lines of an older poll are of the one before, at most 22 of
  them (`LeftShort`), and there only until the first read of the overview's query takes them.
  For the healing, `HealInv` bounds what the k-th poll without trouble leaves (`Left`): `Rest(k)` is at most 22,
  14, 6 and 0 lines for k from 0 to 3, since the overview's query takes 30 of what is left and the 22 of its own, and
  the five blocks behind it leave no more than that; only the first such poll may instead leave its
  whole overview unread, which is what the second then takes. Where the overview arrives in time
  or late, and with which block, is in `InOverview`, `AfterOverview` and `InBlock`. The fourth poll has
  nothing in front of its overview, which is then read whole and alone (`OverviewReads`). A query of another call
  leaves the end of one line at most, alone in the stream (`SetterReadsStream`), which answers nothing and is
  as old as the running poll (`SetterReadsAge`). `Split` drops the remnant of a CRLF at the front of the
  buffer only, where `StreamInv` says that there can be one.
* **Client.** `ReservationsAreApart` (Spec => ReservationsApart) and `NoUpdateIsLost`
  ([]NoLostUpdate), for all times and any number of tasks, fields, calls and faults. `TypeCorrect` is []TypeOK. The
  inductive invariant of the first two is `Control /\ Data`. `Control`: whoever is past the write lock has it
  unless it polls, whoever is on the line has the port, calls have numbers of
  their own, and a sleeper wakes up when the cooldown is over (`CoolInv`), which is what the
  first theorem needs. `Data` adds to `NoLostUpdate` where its values can come from: the
  number of a call that has not paid is nowhere yet (`ValueInv`), what is staged is not
  out of date (`SessionInv`), and neither is what a patch has read and is about to
  write back (`SnapInv`). The controller replaces values only in `TakeOver`, at a 999 of the
  task that has the write lock: nobody else can then be between its read and its write.
* **Client implements AtomicBlock.** `UpdatesInOneStep` (Spec => UpdatesAreAtomic), in `ClientProofs`. On top of
  `Control` and `Data` the refinement needs

      Updates == WantInv /\ ReadInv /\ StagedInv

  `ReadInv` is stronger than `SnapInv`: what a patch has read is not only no older value, it is the
  block itself until its payload is sent. So a payload is the block but for the fields of one call (`Stages`), and
  it stays so while it is staged (`StagedInv`), also after its call was cancelled, because the block changes only
  when a session is taken over, which ends it. What a call may still change is therefore the fields
  it was asked for while it is in progress (`PendingOfJob`), and what is staged of it afterwards
  (`PendingOfSession`). A 999, its own or that of an abort of another command, is `Apply` (`TakeOverRefines`);
  an end, an abort of the same command or a recovery is `Drop` (`LeaveRefines`), of two calls at once when
  the aborting one is a patch as well; the rest are stutters (`HiddenRefines`).
* **Integration.** `ReadOnlyHolds` ([]ReadOnlyCallsBarred) and `FlowPortReleased`
  ([]FlowReleasesPort) follow from `Inv`: the flag of a coordinator that is in use is the
  option, unless a change of it is still to be reloaded (`FlagInv`); each actor uses
  only the transport it may use (`TaskInv`, `LoaderInv`, `FlowInv`). `ShutdownPortReleased`
  ([]ShutdownReleasesPort) assumes `ShutsFailed`, as the run does. It adds `UseInv`: a
  retired coordinator that was not in use at its shutdown has no user any more,
  so nobody can reopen its port. The order of the lock plays no part in these; its types
  are in `TypeCorrect` ([]TypeOK).
* **Blocks.** `BInv == TypeOK /\ TimesOfDay`. `OthersUnchanged` proves
  `OnlyAskedChange` for all integer values: a position is written back from the field
  that it was read into (`CurvePositions`, `TempPositions`, `SchedulePositions`). For a schedule,
  whose times are all given, that is the field of the same place in `from_values` (`ScheduleRead`).
* **Controls.** `ChoicesShown` ([]ChosenIsShown), `SnapshotsTrue` (Spec => SnapshotWasTrue) and
  `TypeCorrect` ([]TypeOK), with `CInv == TypeOK /\ ChoiceInv /\ TruthInv`. `ChosenIsShown` is not
  inductive: `ChoiceInv` follows a choice on its way through the call, the controller, the answer for
  the overview, what the running poll has read, and the snapshot. No poll can read an older value once the choice
  is `Settled`: for a mode when a poll has begun, for the setpoint when a second one has, because by then the
  first has asked for an overview with the new value (`since[f] = "polled" /\ next # 1`), and
  whichever overview the second reads has it. `TruthInv` does the same for the
  history of each field: the answer that an earlier poll left is from `earlier` until the next poll asks
  for its own. The lemmas on names (`HvacRoundTrip`, `PresetRoundTrip`,
  `OperationRoundTrip`) say that a mode is shown under the name by which it was
  chosen.

The library of TLAPS and its back ends are taken as they are; no step is left
without a proof.

Model-checked only: everything under fairness (`EveryCallEnds`, `ReloadGetsThrough`,
`ChoiceGetsShown`), since liveness and ENABLED are out of the prover's reach here, and the properties of
section 4 and of the runs that end in a violation, which are refuted and not to be proved. Every other
property of a passing run has a theorem.

## 6. Not modelled

* Home Assistant: its debouncer, listeners, entity registry, an unload that a platform
  refuses. It appears as the caller; whether it shuts down a coordinator whose set-up has failed
  is the constant `ShutsFailed`.
* A second config entry on another port: it shares nothing with the first, but services
  take the first one there is.
* The text of a raw command: `async_send_raw` strips it and tests what is before the
  first `;`, `send_raw` refuses line breaks. `Transport` has what the command does.
* The setter of `read_only`, which nothing calls.
* Encoding to bytes and the cap of 4096 bytes on a read.
* In `Snapshot`: a raw query of 1800, which may leave up to 21 lines of its overview, and a cancelled query of a setter or
  `send_raw`, which leaves its whole reply to a poll's query of the same command (that it does is
  why `OwnReply` needs calls that are not cancelled); values of lines (only where they are cut matters), a chunk limit, and replies that
  are still on the wire when the next poll begins, 30 seconds or more later: they have arrived.
* Diagnostics, device info, units and rounding of sensors: formatting of one snapshot.
* Test emulator and scripts. The controller of the models follows `protocol.py`, which
  has the sessions that the emulator leaves out.

Seen on the way and not the subject of a run: the reconnect with a back-off that the head
of `transport.py` (line 13) announces does not exist; `async_connect` returns
at once when `_connected` is set although the port may be dead (87-88), which
`Connect` has; a raw command's check looks only at the part before the first `;`;
HVAC mode "heat" selects the backup heater.

## 7. Plan

Done, in this order: `Transport` with its proofs, `ReadLoop`, `Client`,
`Integration`, `Blocks` and `Controls` with their proofs; then `Snapshot`, raw commands in
`Transport`, `SerialLine` with the proof that `Transport` implements it, and the rest of
the config flow in `Integration`, and its proofs; the proofs of `Client`; those of the
sessions of `Transport`, of `ReadLoop` and of `Snapshot`, with the healing last; `AtomicBlock` with the proof
that `Client` implements it.

What could follow: `Integration` and `Client` on top of `SerialLine` by `INSTANCE`, one line per coordinator,
with the proofs that their locks implement it.

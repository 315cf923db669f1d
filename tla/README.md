# Verification of the VirtualFlightRadar-Backend

TLA+ models of VFR-B, checked with TLC on small instances and, where the prover reaches,
proved with TLAPS for all instances.

## The system

VFR-B collects aircraft, GPS, wind and pressure reports from TCP feeds, keeps the
latest data, and once a second sends NMEA sentences to its own TCP clients.

| part | state | operations | who calls them |
|---|---|---|---|
| `VFRB` | `m_running` | `run`, `serve` | main thread; a signal resets `m_running` |
| `ClientManager` | set of clients, threads | `subscribe`, `run`, `stop` | main thread; client threads erase themselves |
| `Client` (4 kinds), `Connector` | `m_state`, io_service, socket, timer | `run`, `scheduleStop`, all handlers | one thread per client; main thread stops |
| feeds, parsers | priority, protocol | `process` | client threads |
| `AircraftData` | vector, index | `update`, `processAircrafts`, `get_serialized` | client threads; main thread |
| `GpsData`, `AtmosphereData`, `WindData` | one object each | `update`, `get_serialized` | client threads; main thread |
| `Server`, `NetworkInterface` | slots, counter, acceptor, socket | `run`, `send`, `stop`, accept handler | main thread; server thread |
| `SignalListener` | signal set, io_service | `run`, `stop`, the handler | main thread; a thread of its own |
| `Logger` | streams | `info` ... `error` | all threads |
| `main`, `Configuration`, `FeedFactory` | the configuration, the list of feeds | start | main thread, before all others |
| `TimeStamp`, processors, utilities | values | pure, but for the clock | everywhere |

What makes it hard: handlers that are called after the state they were started in has
gone (`reconnect`, `stop`); stopping a part whose thread is in the middle of a handler;
the repair of the aircraft index while the loop erases; a counter kept apart from what it
counts; timers that are shared and cancelled. `PROJECT.json` lists these hazards at their
lines, with the properties that guard them.

## Modules

| module | models | state and actions |
|---|---|---|
| `Object` | `object::Object` | operators for `canUpdate` and `operator++` |
| `AircraftData` | `data::AircraftData`, `object::Aircraft` | vector, index, loop variables. `update` is `TryUpdate` or `Insert`; `processAircrafts` is `BeginProcess`, then one `EraseAircraft` or `KeepAircraft` per iteration, then `EndProcess`, with the mutex held |
| `AircraftStore` | what `AircraftData` promises | a map from ids to aircraft; `Accept` and `Round` |
| `AircraftDataRefinement` | the mapping | a round takes effect when the loop starts |
| `Server` | `Server`, `NetworkInterfaceImplBoost`, `SocketImplBoost` | two threads; `send` is one step per slot and `stop` one per call, because asio works on the server's thread without the mutex |
| `Connector` | `ConnectorImplBoost` | operators on a record: pending operations, completed ones in order, socket, timer |
| `Client` | the four clients, `ClientManager` for one client | a step per handler; main thread's `ManagerStop`, `ScheduleStop`, `StopUnwatched`, `StopIo`, `UnlockManager`, `Join` |
| `ClientRefinement` | the mapping of `Client` to `ClientManager` | a handler is a change of `m_state`, or nothing |
| `GpsData` | `GpsData`, `GpsFeed::process` | the position, and the feeds still running |
| `ReadBuffer` | `m_buffer`, `onRead`, `handleRead` of the connector | bytes with the connection they came on; chunks arrive, a line is taken per read and processed if the client runs, errors and reconnects of other handlers in between |
| `ClientManager` | `ClientManager`, `ClientFactory`, `equals` and `hash` | the set of clients, a thread for each, the main thread's `subscribe`, `run`, `stop` and destructor, one step per iteration |
| `Sensors` | `WindData`, `AtmosphereData`, their feeds | the two objects; `update` and `get_serialized` |
| `VFRB` | `VFRB::run`, `serve`, `SignalListener` | one step per call of the loop, composed with `GpsData` and `Sensors`; signal, handler and exceptions at any step |
| `Startup` | `main`, `Configuration`'s constructor | one step per thing that may fail |
| `ListOps` | flattening, filtering, counting and removal from lists, the first and the last of a set of positions | used by `AircraftData`, `ReadBuffer`, `FeedNames`, `Feeds` and `Connector` |
| `Feeds` | `resolveFeeds`, `createFeeds`, the feeds' constructors | one step per name of each loop |
| `FeedNames` | `splitCommaSeparated`, `trimString` | one step per item |
| `Parsers` | `unpack` of the five parsers, `process` of the feeds | SBS field by field, the others in a step; where each part of the object comes from |
| `TimeStamp` | `TimeStamp`'s constructor and comparison | `ReadDay`, then `ReadNow`, with the clock ticking between them |
| `Coordinates` | `parsePosition`, `evalPosition`, the printing of coordinates | fixed-point text, calculations rounded either way, in three steps |
| `Checksum` | `math::checksum`, `finishSentence`, the parsers' test | a sentence is written, maybe corrupted, read |
| `Logger` | `Logger`, and `GpsProcessor`'s use of `gmtime` | threads that log, one that writes the two sentences of a report; the one `std::tm` |
| `AircraftDataProofs` | theorems about `AircraftData` and `AircraftDataRefinement` | |
| `ClientProofs`, `ClientRefinementProofs` | theorems about `Client`; that it implements `ClientManager` | |
| `VFRBProofs` | theorems about `Sensors`, `GpsData`, `VFRB`, `ClientManager` and `Server` | |
| `SentencesProofs` | theorems about `MCSentences` and the five modules in it | |
| `StartProofs` | theorems about `Startup` and `Feeds` | |
| `UtilProofs` | theorems about `FeedNames`, `Logger` and the composition `MCStart` | |
| `SequenceLemmas` | least elements, flattened and filtered sequences, for the other proofs | |
| `MCSentences` | `ReadBuffer`, `Checksum`, `Parsers`, `TimeStamp`, `Coordinates` for TLC | see below |
| `MCStart` | `Startup`, `FeedNames`, `Feeds`, `Logger` for TLC | see below |
| other `MC*` | instances for TLC | |

Every definition that models code is mapped to its lines in `PROJECT.json`. Definitions
commented as mutants are wrong variants of the definition after them; each property is
known to fail with one of them in place.

The modules of `MCSentences`, and those of `MCStart`, share no variable. Their behaviours
follow one of them, named by `subject`, and leave the others in an initial state; the
states checked are the sum, and not the product, of those of the modules, and nothing is
lost, since no property relates two of them.

### What is abstracted

* A report is the pair of aircraft id and time stamp it was rendered from. The distance
  filter's verdict is a free choice.
* Time stamps are numbers, except in `TimeStamp`, which has days and milliseconds.
* A sentence is described by what a parser asks of it: does the expression match, which
  fields convert. In `Checksum` a character is the set of
  bits of its code (the exclusive or of characters is the set of the bits that an odd number
  of them have), in `FeedNames` the text is
  blanks, commas and name characters.
* A section of the configuration is which of its required values exist, and the priority.
* The text of a coordinate is counted in 1/10000 minute. A result in `double` is counted in
  eighths of that and may be off by one eighth, either way (`Rounded`), which is far more
  than the error of a `double`; only zero is exact, and printing takes one of the nearest.
* Characters of `Checksum` have 7 bits.
* In `ClientManager` only the changes of `m_state` remain of a client's handlers, in `VFRB`
  only the time stamps of the two positions of a message. Whether a client has missed its
  `scheduleStop`, and `ClientManager::stop` blocks, is a free choice in `VFRB`.
* Integer widths are kept by name and scaled (`UINT32_MAX`, `ULONG`, `UINT16_MAX`,
  `COUNTER_MOD`); an uninitialized priority or altitude is any value.
* asio is external. As used here: handlers run one at a time on the thread in
  `io_service::run`, in the order of completion; cancelling or closing completes an
  operation with an error; an operation that has completed is not cancelled; accepting
  into an open socket fails; `run` returns when stopped or out of work. The accepted peer
  is moved into the socket on the io thread just before the handler (Boost 1.66, which the
  Dockerfile's Alpine 3.8 has).
* `remote_endpoint` and `set_option` may throw in a `noexcept` handler. This ends in the
  outcome `aborted` of `Server` and `Client`; in `VFRB`, as any end of the process from
  outside, it is left out.
* Ages of GPS position, wind and atmosphere from `OBJ_OUTDATED` on are one value, as only the comparison
  with `OBJ_OUTDATED` reads them.

## Runs

| run | instance | shows |
|---|---|---|
| `aircraft_data` | 3 ids, 2 time stamps, thresholds 2 and 3 | index and vector agree, reports are current, FLARM status ends in time |
| `aircraft_refinement` | 2 ids, 2 priorities, 2 time stamps, thresholds 2 and 4 | refinement of `AircraftStore`; silent aircraft vanish |
| `server` | 3 slots, 4 addresses | the counter is that of the slots; listening until stop; at most one connection survives stop; `stop` returns; every handler is followed by an accept |
| `client` | all four kinds | exactly one chain of operations, exactly one timer loop, never out of work; refinement of `ClientManager`; an exception only in a stop; retries, silence detection, stopping in any state |
| `vfrb` | 2 GPS feeds, 2 sensor feeds of different priority, 3 time stamps | signal and exception at any step end the loop, and the program unless a client started too late; the reads of a round are in order; a better feed keeps its place while it sends; takeover after silence; ground mode leaves a good position |
| `client_manager` | lists of up to 3 feeds of five kinds | which client serves a feed and which feeds share it; the shutdown returns and leaves nothing |
| `sentences` | `ReadBuffer`: 7 bytes, chunks of 3, 3 connections | no byte lost, one line at a time, one spoiled and one ignored line at most per connection |
| | `Checksum`: up to 4 characters of 5 codes, any one changed, also to `*` or NUL | accepted exactly when unchanged, or cut where the rest cancels out |
| | `Parsers`: every outcome of every test, 0 to 17 SBS fields | only complete objects below the filter are stored |
| | `TimeStamp`: 3 days, the milliseconds around midnight, fields at their limits | a report, misdated or not, keeps no later one out |
| | `Coordinates`: degrees and minutes at their limits, every rounding | north and east round-trip |
| `start` | `Startup`: every command line, values around all limits | why a start fails, that it is reported, which configuration runs |
| | `FeedNames`: all texts of up to 8 characters | names are read back whole and trimmed |
| | `Feeds`: 4 names, lists of up to 3, a section for each defect | exactly the feeds with endpoint and login run; filters are set; priorities keep their order |
| | `Logger`: 2 logging threads, 2 lines each, 1 reporting thread | lines do not mix |

Four runs show a disagreement of code and documentation:

| run | the documentation | the code |
|---|---|---|
| `server_stop` | `Server.hpp:82` "Stop all connections." | a client whose accept was dequeued before `stop` becomes a connection after it |
| `client_late_run` | `Client.h:68` "Wait until run has been called." | after 100 ms the stop is dropped; `join_all` blocks for ever |
| `gps_lock` | `GpsData.h:71` "hence locked" | `m_positionLocked` is never set |
| `gps_time` | `GpsProcessor.h:56` "The current utc time" | `gmtime`'s static result is shared with `Logger::get_time` under another mutex: a thread that logs meanwhile changes the time of the report, in part or for one of its two sentences |

Other disagreements were met while modelling. The properties are stated around them, and
no run is spent on them:

* `GpsProcessor.cpp:78`: degrees and minutes of a negative (southern or western) coordinate
  are wrong; -8.5 becomes 9 degrees and 1050 minutes. `PositiveRoundTrip` is about north and
  east.
* `Client.cpp:146`: in ground mode a feed of another type that shares the GPS feed's client
  stops with it, where `configuration.md:83` speaks of "the GPS feed".
* `ConnectorImplBoost.cpp:189`: the buffer outlives the connection, so that a line may begin
  with bytes of the last one (`RemnantSpoilsOneLine` bounds it).
* `Client.cpp:140`: a line that has been read when another handler begins to reconnect is
  taken from the buffer and ignored (`DeliversLines` allows one per connection).
* `math.hpp:128`: the sum ends at the first `*`, while the parsers take the digits after the
  last one: a `*` or NUL in place of a character is not noticed if the characters from
  there on cancel out (`AcceptedAsWritten` says so).
* `GpsProcessor.cpp:54`: just below a whole degree the minutes may be printed as 60.0000, with
  the degree not carried (`PositiveRoundTrip` is about the value, and allows 60.0000).
* `Server.hpp:120`: `m_activeConnections` is a `uint8_t` and wraps to 0 at 256 clients, while
  `parameters.h:75` allows every "[1 <= x]" for `SERVER_MAX_CLIENTS`. `CounterFits` is a
  hypothesis of the theorems about the server.
* `AprscClient.cpp:45`: APRS feeds of one host and port with different logins have a
  connection each, where `configuration.md:75` says of feeds of one type, host and port "only
  one connection is used and thus shared" (`ServedOnce` follows the code).
* `Feed.cpp:58`: without a priority a feed runs with `m_priority` uninitialized, also beside
  others of its type, where `configuration.md:74` says it is "required if multiple feeds of
  same type exist" and `:65` that a feed without a required parameter "will not be run".
* `Feed.cpp:58`: a negative priority wraps to the highest (`FeedsAsConfigured` leaves it out).
* `Configuration.cpp:80`: a negative port that the conversion to `uint64_t` wraps into the range
  of ports is taken for that port; `EffectiveConfiguration` says so instead of excluding it.
* `TimeStamp.hpp:123`: a negative field passes the check of the constructor.
* `Configuration.cpp:117`: a name listed twice becomes two feeds.
* `main.cpp:62`: the exit status of a failure is 1, where the comment has -1.

What is proved for every instance is not repeated in a run when a checked property
already exercises the same steps: the inductive invariants of the modules with proofs and
their type invariants (but for those of `MCSentences` and `MCStart`, which bound the bit
fields and the converted integers), and the theorems that `PROJECT.json` lists without a property.

Bounds. Three ids are the least that put an erased aircraft before, between and behind
kept ones. Thresholds 2 and 3 (4 and 120 in the code) keep their order, and all rounds
between them look alike. Four addresses on three slots make the server full. The clients
need no bound except `MAX_BEACONS`, the keep-alive messages being written when the next is
due: two let one complete, with or without an error, while another is under way. Two GPS
feeds and three time stamps let the one replace a good position of the other by a worse
one and then reach a good one itself. Three days let a stamp of the day before yesterday meet one of today. Three feeds put a bad or
shared one before, between and behind others. Seven bytes hold two lines with both kinds
of ending and a rest on either side of a reconnect. One minute is two seconds: enough for
a minute of one time with a second of another. Seventeen SBS fields are more than the
parser reads.

Fairness. The serve loop keeps calling `processAircrafts` and `get_serialized`; the threads
of server, client, manager and signal listener run; a thread that waits for a mutex gets
it, which the one-second sleep of the serve loop justifies for the server; writes, connects
and name lookups end with some result; an armed timer expires. Nothing is assumed of feeds, peers, clients or the signal, except that one sensor
feed, `Talker`, keeps sending while the clients run: the premise of `TalkerTakesOver`.

Some runs end (a start, a sentence, a shutdown); their configurations switch the deadlock
check off and say so.

## Proofs

Each theorem holds for all values of the constants that satisfy the `ASSUME` of the module:
any number of aircraft, feeds, clients, threads, slots, bytes or fields, and any width of
the integers. The bounds of the runs are constants too, so the theorems have none.

`AircraftDataProofs`, from `AircraftAssumption` and `OutdatedAssumption` (the delete threshold
exceeds `OBJ_OUTDATED`, which exceeds 1): `Spec => []IInv`. `IndexConsistent` alone is not
inductive, because inside the loop the index is wrong behind the iterator. `LoopInv` says
where it is right: everywhere until the first erasure, and up to the iterator's element
after it. From `IInv` follow `TypeCorrect`, `IndexAlwaysConsistent` and
`StoredAircraftAlwaysSound`. `ReportsAlwaysCurrent` follows too: a message is the vector's
reports put end to end, of at most one each, so that two reports of one aircraft would be
two aircraft of one id (`FlattenSources`).

`Refinement`, in the same module: `Spec => ImplementsStore`. An iteration of the loop is a
stutter, as the aircraft it has not reached are already seen as it will leave them;
`BeginProcess` is the abstract `Round`; an update is `Accept` thanks to `LoopInv`.

`VFRBProofs`, of `Server`, if `S_MAX_CLIENTS < COUNTER_MOD`: `ServerSpec => []SInv`. The
counter equals the number of occupied slots (lemmas on the cardinality after a slot is
filled or reset), so an admissible peer always finds a null slot, so the socket is closed before the next
accept. `ControlInv` ties the program counters of the threads to the network's state.
`StopAlwaysLeavesAtMostOne` needs `StopInv` besides: once `stop` has cleared the slots, a
connection exists only if the one handler on its way has made it.

`VFRBProofs`, of `ClientManager`: `ManagerSpec => []MInv` for any number of feeds.
`Membership` says who is in the set at each point of the main thread's control, `ActiveInRun` that a client is active
just while its thread is in `run`; that the mutex is the main thread's exactly in its loops
gives `IterationAlwaysStable`, and that all threads are at their end after the join gives
`NothingEverLeft`. `AlwaysServedOnce` needs a second invariant, `Subscribed`: every feed
subscribed so far is in exactly one list, and in the list of the client that the set's
comparison finds for it. That feeds of one endpoint and login share it needs a third,
`Distinct`: no two clients of the set are equal in that comparison.

`ClientProofs`: `Spec => []CInv`, for any set of kinds and any number of
keep-alive messages being written. `OneActivity` and `OneTimerLoop` speak of a client that
rests in a state; the invariant has to say what is left over from the state before. `Fit`
counts the operations that are pending, completed and being handled: while `CONNECTING`
there is exactly one operation of the attempt, whatever else is completed belongs to the
old connection and is ahead of it in the queue, and no wait for the next attempt has been
cancelled; while `RUNNING` there is one read and the timer of the kind; while `STOPPING`
there is work until the io_service is stopped. `Control` ties `m_state`, the mutex and the
two threads together. The lemmas say how `close`, `onTimeout` and the other operations of
the connector change the counts. `ReturnsOnlyWhenStoppedAlways` follows as the io_service
never runs out of work, `AbortsOnlyInStopAlways` as only the `close` of a stop by the main
thread comes between the call of `handleConnect` and `set_option` in it.

`ClientImplementsManager`, in `ClientRefinementProofs`: `Spec => ImplementsManager`. What
`ClientManager` takes for granted of a client is what `Client` does: by `CInv` every handler,
and every step of the two threads, is a step of `ClientManager` for one feed or a stutter.
The attempt to prove it with `m_state` itself as the mapping fails at `HandleTimedConnect`: a
timeout that waits for the mutex while the client is stopped sets `STOPPING` back to
`CONNECTING`. As the io_service is stopped then, nobody reads it, and `SeenState` maps it to
`STOPPING`.

`VFRBProofs`, of the rest. Of the sensors alone, `SensorInv` says that the stored priority is
the one of the feed it came from, which gives `LoneFeedAlwaysAccepted`, and that the stored
wind is no older than its feed's silence, a history variable that counts the messages since
the feed was heard: every update of the feed is accepted (`OwnAccepted`), so that an age of
`OBJ_OUTDATED`, the only thing that lets a worse feed in, is a silence as long
(`AlwaysHeldWhileSending`).
Of `GpsData`, `FinalPositionGood` is inductive together with `GoodPositionStopsFeed` and with
the fact that outside of ground mode no feed stops: the last feed that stops does so at its
own good position, while a feed that has not stopped may have replaced an earlier one. Of
the whole program, `RunsSensors` and `RunsGps` show that its steps are steps or stutters of
these two specifications, so that their theorems hold in it (`ProgramHoldsWhileSending`,
`ProgramLeavesGoodPosition`). `ReferenceNeverNewer` needs `VInv`: between the two reads of the
position the first is not newer than the one stored, since `GpsData` replaces a position
only by a newer one.

`SentencesProofs`:
* `ReadBuffer`: `BufferInv` adds to `DeliversLines` that bytes are stored in the order of their
  connections, in the lines, from line to line and in the buffer; a line that mixes two
  connections is then the first with a byte of the newer one, and only one can be.
  `IgnoredInv` says that a connection with an ignored line has no read any more.
* `Parsers`: `ParseInv` says that in the loop of `SbsParser::unpack` every field before the
  current one has been read, as the first that does not convert ends the loop. The
  assumption that `s_maxHeight` is not negative is what `resolveFilter` ensures.
* `TimeStamp`, from `TimeAssumption` (the clock is at least two days past its epoch):
  `NotInFuture` and `NotAfterSending` alone do not say what `ReadNow` finds; `Reading` ties the
  day read first to the clock: it is today, or, after a midnight in between, yesterday.
  `DatedWithinADay` and `LaterReportAlwaysWins` are action properties proved from it.
* `Coordinates`, for all degrees and minutes and every rounding: `CInv` follows the error
  through the three steps (the value is off by one part at most; degrees and minutes
  together by two; the printed minutes are the nearest), and two parts of eight are too few
  to reach another digit of GGA, or more than half of the last one of RMC (`PrintedNear`).
* `Checksum`, for sentences of any length and any characters: `SumInv` says that the line
  holds what was written, or that with one character changed. A character changed to one
  that does not end the sum changes a bit of the exclusive or (`ChangeDetected`); one that
  ends it takes away the characters from there on, which is noticed unless they cancel
  out (`CutDetected`).
* `MCSentences`: `Projections` says that a behaviour of the composition is one of each module,
  so that the types of all of them hold (`SentencesTypeCorrect`), and with them all theorems
  above.

`StartProofs`:
* `Startup`: `MainInv` adds to the two properties what has been passed at each point of
  `main`; `FilterResolved` and `PortResolved` say what the conversions of texts come to.
  The attempt to prove the port's default showed that a text near `-UINT64_MAX` wraps
  into the range of ports.
* `Feeds`: `FeedInv` describes both loops by the part of the list they have done: the names
  found, cut down to the runnable ones, are those of the list up to the index, and the feeds
  made are those of the names up to the index. Names that cannot run may be among the names
  found, which is why the invariant compares the lists after filtering.

`UtilProofs`:
* `FeedNames`: `NamesInv` says that the rest of the stream begins behind a comma and that the
  items so far are as many as the commas before it; each item stands in its own field
  (`Trims`, `ItemSplits`, `CommasCounted`).
* `Logger`: the types include who holds which lock. `LinesInv` says that a stream of odd
  length ends with the head of the line that the holder of `m_mutex` is writing, and that
  a thread between head and tail has such a stream.
* `MCStart`: the same as for `MCSentences`, with `StartTypeCorrect`; `TextBounded` and
  `FeedNamesTypeCorrect` give the types of `FeedNames`.

What a recursive definition computes is proved, where it is needed, by the least
counterexample: the set of lengths for which a statement fails has a least element
(`LeastElement`), which leads to a contradiction. `SequenceLemmas` does this for
`Flattened`.

Only model-checked is all liveness, which is out of the prover's reach: `SilentAircraftVanish`,
`StopReturns`, `ManagerStopReturns`, `AcceptsForever`, `RetriesConnect`,
`DetectsSilence`, `StopJoins`, `SignalEnds` and `TalkerTakesOver`. Every safety property of a
passing run has a theorem.

## Not modelled

* The geometry of `AircraftProcessor` (haversine distance, bearing, relative position) and the
  trigonometric helpers: floating point, which neither tool has. The verdict of the distance
  filter is a free choice in `AircraftData`.
* The regular expressions, the conversion of numbers and the text of NMEA sentences apart
  from coordinates, times and checksum: strings, without control that depends on them
  beyond "matches" and "converts".
* The syntax of INI files and of the command line, which boost reads.
* How long a blocking write takes (`Server.hpp:202`), and what a callback does to a stack
  frame that is gone (`GpsdClient.cpp:71`): time and memory are not in the models.
* `AircraftData`, `Server` and `ClientManager` are not composed with `VFRB` in one state space;
  `VFRB` calls them as steps whose return is shown in their own modules.

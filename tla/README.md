# A verification project for doordarshan-media-server

This directory models the media server of this repository in TLA+, checks the
models with TLC on small instances and proves the main safety properties of the
core and of the process with TLAPS for instances of any size. Paths below are relative to the
repository (`src/mediasoupv1/mod.rs` is the file of the crate); `PROJECT.json`
maps every definition to the lines it models.

## 1. The system

One process of the media server is a WebRTC SFU. A control plane and the clients'
signalling service call its HTTP endpoints; it keeps mediasoup objects in memory,
records what exists in a MySQL database that other services and other processes
read, and records meetings to files with GStreamer.

| Component | State | Operations | Talks to |
|---|---|---|---|
| Database (`create_tables.sql`, `dao/`, `db/`) | tables of meetings, routers, participants, transports, producers, consumers; primary and unique keys, foreign keys with cascades | `mutate` (one transaction, `rollback_on_duplicate`), `delete`, `query` | every handler |
| Meetings (`mediasoupv1/mod.rs`) | `routers_map` | `create_meeting`, `replace_meetings`, `end_meeting` | database, mediasoup, recording |
| Participants and transports | `transport_map`, `lock_map` (one mutex per participant) | `recreate_producer_transport`, `recreate_consumer_transport`, `leave_meeting`; `connect_transport`, `restart_ice` | database, mediasoup |
| Producers and consumers | `producer_map`, `consumer_map_shards`, `lock_map` (one mutex per meeting) | `create_producer`, `close_producer`, `create_consumer`, `close_consumer`; pause and resume | database, mediasoup, recording |
| Recording (`gstreamer/mod.rs`, parts of `mediasoupv1/mod.rs`) | `pipeline_map`, `plain_transport_map`, `plain_transport_consumer_map`; per meeting a pipeline and `Inner`, each behind a `std` mutex | `start_recording`, removal on close, stop on end, the pad-added callback, the bus thread | GStreamer threads, UDP ports |
| HTTP service (`service/`) | none | routing, validation, one handler call per endpoint | the above |
| User events (`client/`, `metrics.rs`, `push_user_session_event`) | a bounded channel, the event being posted | a blocking send on join and leave, a task that posts with three attempts | analytics service, worker threads of tokio |
| Heartbeat (`create_inner`, `db/`) | a row per container | a transaction every five seconds on its own thread | database, read by the control plane |
| Start-up and shutdown (`main.rs`, `SFU::new`) | container and worker rows, `workers_map` | configure, create workers, register, listen, drain, exit | all of the above |
| Metrics, configuration | – | dead code; reading of the environment | – |

What is hard here:

* **Handlers interleave at every `await`.** Each request is a tokio task. Only
  `create_producer` (meeting) and the two recreate helpers (participant) take a
  mutex; leaving, closing, consuming and ending a meeting take none.
* **Database and memory change in separate steps.** Every handler commits first and
  updates the maps afterwards, one map at a time.
* **Devices take over from each other.** A participant has one row but may have
  several instances; calls of a superseded instance arrive late.
* **Failure in the middle.** mediasoup, the driver or a pipeline may fail after a part
  of a handler's effects; the process may be lost while the database survives.
* **Three kinds of threads share a pipeline**: requests, GStreamer's streaming
  threads and a bus thread, over two blocking mutexes that may be poisoned.
* **A slow analytics service reaches the callers.** The send of an event blocks a
  worker thread of the runtime, in a join with the mutex of the participant held.

The properties that make each component correct are the ones of section 4; the
list of hazards in `PROJECT.json` says which line each is aimed at.

## 2. Modules

| Module | Models | Composition |
|---|---|---|
| `Database` | rows, cascades, transactions and queries, as operators on a record of tables | used by all of the SFU |
| `SfuState` | the variables (`db`, the maps of `Inner`, `lock_map`, the requests), `Init`, `Done`, `Acquire`, the map searches of the code under their own names | EXTENDS `Database` |
| `MeetingHandlers`, `ParticipantHandlers`, `MediaHandlers` | one action per step of each handler | EXTEND `SfuState` |
| `Sfu` | the callers, crash and restart, `Next`, `Spec`, `FairSpec`, the properties and the refinement mapping | composes the handlers |
| `Roster` | what the database promises its readers: who is in which meeting, publishes what and consumes whom, every change one atomic step | implemented by `Sfu` |
| `MCSfu` | instances for TLC | EXTENDS `Sfu` |
| `DatabaseProofs`, `SfuProofs` | theorems: types, mutexes, producers | EXTEND `Database`, `Sfu` |
| `ConsumerProofs` | theorem: one consumer per target | EXTENDS `SfuProofs` |
| `RosterProofs` | theorem: the refinement of `Roster` | EXTENDS `SfuProofs` |
| `TransportProofs` | theorem: no recorded transport is dropped | EXTENDS `RosterProofs` |
| `ProducerProofs` | theorems: no recorded producer is dropped; one request at a time, memory and the tables agree | EXTENDS `TransportProofs` |
| `Gstreamer` | a recording instance: elements, sockets, state changes, maps | |
| `Recording` | start, close, end, callback, bus thread; the properties | EXTENDS `Gstreamer` |
| `MCRecording` | instances for TLC | EXTENDS `Recording` |
| `RecordingProofs` | theorems | EXTENDS `Recording` |
| `UserEvents` | the channel of JOIN and LEAVE events, the receiving task, what a post comes to | |
| `Process` | start, registration, heartbeat, requests as far as they announce joins and leaves, shutdown; the properties | EXTENDS `UserEvents` |
| `MCProcess` | instances for TLC | EXTENDS `Process` |
| `ProcessProofs` | theorems | EXTENDS `Process` |

### How the SFU models correspond to the code

A request is a slot `r`: `pc[r]` names the next step of its handler, `call[r]` its
arguments, `local[r]` its local variables. One step is one transaction or one
critical section of one map, the units that other requests cannot split; awaits
on mediasoup that create an object end a step with either a fresh identity or an
early return. `Done` ends a handler on every path and drops its mutex guard.
Steps are named after the handler (`ProduceCheck` is the search of
`create_producer`, `LeaveDelete` the transaction of `leave_meeting`).

Database keys matter, values do not: rows are records of identities. A
transaction is folded over its statements by `Insert`, which keeps the code's
three outcomes: a duplicate key that is ignored or rolls back, a missing parent,
a failure of the driver. `Without` and `DeleteParticipants` are the cascades.

The callers are outside the repository and are modelled from the endpoints: they
name meetings, participants, instances and ids that they could have been told
of, which may be stale. Three assumptions are made of them. An instance waits for
the reply to a call before it makes the next one, unless the constant
`CallerWaits` is false; media calls come from the instance that is in the
meeting when they are made; the control plane replaces a meeting only on a
process that does not host it, one meeting per batch.

### How the recording models correspond to the code

`gst[g]` is a `Gstreamer` instance with its pipeline. The maps of `Inner` are sets
of elements in which (participant, media, RTP or RTCP) is a key, exactly as the
maps are keyed in the code: a screen share is recorded as video and therefore
shares the key of the camera. The elements shared by all participants are the
names of `Groups`. Mutexes have a holder: a request, the callback (`"pad"`), nobody, or
they are `"poisoned"`. The callback runs in three steps because it locks the
pipeline, then `inner`; `PadVideo`, `PadAudio` and `PadRtcp` are its branches.

External behaviour is assumed as follows: a udpsrc binds its port when the
pipeline leaves Null and a port that is taken fails the state change; state
changes and the release of pads do not wait for streaming threads (when
they do, the circular wait below only becomes more likely); a panic in a callback
crosses a C frame and aborts the process (`Restart`); rtpbin may add the
`recv_rtcp_src` pads the callback handles, although current versions do not.
mediasoup's own ports do not collide with the recording ranges.

### How the process model corresponds to the code

`phase` is how far `main` has come: `Configure` stands for everything up to
`SFU::new` that may panic, `CreateWorker` and `RegisterContainer` for `create_inner`,
`Listen` for the bind of the socket, `ShutdownSignal` and `Exit` for the graceful
shutdown. A process that ended is started again under a new `boot`, the number that
stands for `boot_timestamp` and thereby for the id of the container; the tables and
what the analytics service heard outlive it. That the process is killed outright is
not part of this model (`Sfu` has it as `Restart`); see the other behaviours below.

One heartbeat action is one round of the thread's loop: it writes, it gets an `Err`
that is logged, or the `unwrap` of a statement panics. The age of the row is "fresh"
or "stale", which is what a reader compares with its clock.

A request is a join (the recreate helpers) or a leave, in the steps that matter to
events: take the mutex of the participant, commit, send, and the rest; a leave
commits, clears the maps and sends. `Sfu` models what those steps do to the maps,
`Process` what they do to the channel. `ThreadFor` says that a step needs a worker
thread, and that a request that sends keeps its own until there is room: with as many
blocked senders as threads nothing else runs. The handlers of the database and
mediasoup block briefly or not at all and are not counted. `EndMeeting` is one step,
its transaction, as it announces nothing.

`channel` and `receiver` are the `sync_channel` and the one task that drains it. A
post reaches the service and is answered, reaches it and loses the answer (a
transport error, tried again), does not reach it (the same), or is answered with an
error status (logged, not tried again). `announced` is a history of what the events
sent so far say; `view` is what the service made of the posts it heard, `None` once an
event was given up, refused or lost with the process.

## 3. Bounds

The identities mediasoup issues are never reused, so `Routers`, `Transports`,
`ProducerIds`, `ConsumerIds`, `Sources` and `Gstreamers` bound how many objects a
behaviour creates. They are chosen so that each object can be made, torn down
and made again (two producers, two or three transports, two consumers, two or three
recorded sources), because the interesting cases are a stale object meeting its
successor. Two requests suffice for every race of two handlers; one
request gives the sequential runs, in which more operations fit. Two instances of
one participant are needed for a take-over, two participants for a consumer and for
two sources that share a pipeline. `Faults` names what may fail, `Operations` which
endpoints the callers use. Sets of identities are symmetric, except in the
liveness run, which uses no symmetry.

In `Process` the capacity of the channel is 1, so that a second event already blocks
its sender; two devices and two requests give a join, a take-over and a leave that
overlap. `MaxBoots` bounds how many processes are started. The configuration was also
checked with one thread, with two processes, with two meetings, with a channel without
buffer and, for the invariants, with two participants of one device each.

`CHECK_DEADLOCK FALSE` stands in the recording configurations because those
models do stop: the circular wait is real, and a process that has used up its
identities has nothing left to start. It stands in those of `Process` because the last
process may exit.

## 4. Runs

Passing:

| Run | Shows |
|---|---|
| `Sequential` | every call, one at a time, with failures of mediasoup, of the driver and of a pipeline, and crashes: types; memory holds exactly the recorded producers (`ProducersAgree`); no consumer row without its consumer; no recording without its producer; the database behaves as the `Roster` |
| `Takeover` | two requests at once of two instances: `LockDiscipline`, `OneProducerPerKind`; everything recorded is in memory or about to be inserted (`RecordedProducerIsLive`, `RecordedTransportIsKnown`) |
| `Consumers` | two requests at once of a publisher and a viewer: consumers are never doubled and, once idle, the recorded ones are in memory; the concurrent history of the database is one of the `Roster` |
| `Progress` | every request is answered, under the fairness of section 5 |
| `Recording` | callbacks and the bus thread run against starts and closes, one request at a time: the shared pipeline is never left paused while sources remain (`NotLeftPaused`); the port a start probed is still free, or its own, when the pipeline plays (`PortIsStillFree`) |
| `OnePipeline` | two requests at once that record audio, with failures of elements, state changes and the database: one pipeline per meeting, never replaced; none plays once the meeting's own was stopped (`EndStopsRecordings`); starts that were given one port, or lost theirs to elements an end had unbound, are not both published: a published producer holds its own sockets (`RecordedFromItsOwnPort`) |
| `RecordingFaults` | audio and video in one pipeline with every failure and bus error: nothing plays unless a bus thread was started for it; only the bus thread's own panic poisons mutexes; a producer is published only into a pipeline with the elements of the file and never with half of the mixer, whatever earlier starts left behind (`PublishedIntoWholePipeline`) |
| `Process` | a process from start to exit, with every fault of the start, of the heartbeat, of the database and of the posts: whoever is recorded in a meeting was announced there and no later LEAVE says otherwise (`PresenceIsAnnounced`); once the channel is drained the analytics service agrees with what was announced unless an event was given up (`AnalyticsAgrees`); only a registered container serves (`ServesRegistered`); every call returns (`EveryCallReturns`) and the heartbeat goes on after errors (`HeartbeatGoesOn`), under the fairness of section 5 |

Violations, each a disagreement between a comment of the code and what it does
(`PROJECT.json` quotes the lines):

| Run | What TLC finds |
|---|---|
| `ProducerRace` | `create_producer` publishes into `producer_map` after a concurrent leave or close deleted its row and searched the map: a producer stays in memory that nothing records, and the next `createProducer` of that kind returns it |
| `LockOrder` | closing locks `inner` then the pipeline, the callback the pipeline then `inner`: each waits for the other |
| `OtherKind` | closing a participant's audio removes the elements that record its open video |
| `Heartbeat` | a statement of the heartbeat that fails panics its thread, although the documentation of `MySql::update` promises an error: the process serves on while its container grows stale |

Other behaviours met while modelling, for which no run is kept. Where an invariant
or a configuration is given, TLC refutes that invariant on it; the rest is read
from the source.

* `end_meeting` racing `create_producer` leaves a producer of a meeting that is
  gone: `Quiescent => \A x \in producer_map : x.m \in db.meeting_status`
  (`ProducerRace.cfg`).
* Recreating a transport on the instance that already is in the meeting leaves
  the old one in `transport_map`: `Quiescent => \A x, y \in transport_map :
  x.m = y.m /\ x.p = y.p /\ x.kind = y.kind => x = y` (`Sequential.cfg`, with and
  without its faults). From the source: naming the old transport does not help, as
  old ids are passed on only for a new user (line 936).
* A participant recorded in one meeting that recreates a transport in a second one
  is not put into it: `participant_id` alone is the key of `participant_meeting`
  and the duplicate is ignored: `\A r \in Requests : pc[r] = "rt_reply" =>
  InMeeting(call[r].p, call[r].m, call[r].i)` (`Sequential.cfg` with two meetings).
* From the source: the query that excludes a participant's own producers never runs
  (`MySql::query` always uses `get_query_string`), so its result contains them.
* `RecordedConsumersAreLive`, which `Sequential` and `Consumers` check, fails once a
  publisher can be taken over while another request runs: a take-over deletes the
  rows first, `create_consumer` then records a consumer of the old producer, and
  the take-over's sweep of memory removes the consumer and not its row
  (`Consumers.cfg` with `Instances = {i1, i2}` and without closing and ending).
* `RecordingsFollowProducers`, which `Sequential` checks, fails with two requests: a
  close between the publication of a producer and of its recording leaves the
  recording (`Sequential.cfg` with two requests and no faults).
* With `CallerWaits` false `RecordedProducerIsLive` (`Takeover.cfg`) and
  `OneConsumerPerTarget` (`Consumers.cfg`) fail.
* `create_consumer` reuses a consumer by target and kind and ignores the producer id,
  and `close_producer` closes no consumers: after a producer was closed and created
  again, viewers are handed the consumer of the dead one: `\A r \in Requests :
  pc[r] = "cc_consume" => \A w \in local[r].want : w.producer \in LiveProducers =>
  \A x \in Existing(r, w) : x.producer = w.producer` (`Consumers.cfg` with one request).
* An audio producer can be published into a pipeline without a mixer: the first audio
  that cannot pause a pipeline started by video leaves its `audiomixer` and `opusenc`
  in `inner`, where later starts take them for attached: `\A x \in producers :
  Needed(Media(x.kind)) \subseteq gst[x.g].attached` (`Recording.cfg` with the fault
  `"state"`). The elements of the file are always there, since both starts make them;
  that is what `PublishedIntoWholePipeline` says.
* `EndStopsRecordings` fails with the fault `"mediasoup"`: when the plain transport
  cannot be connected after the pipeline was set to Playing, `create_producer` returns
  before `pipeline_map` names it, and `end_meeting`, which "stops any active recording
  pipelines" (line 3158), stops only the one of the next start (`OnePipeline.cfg`
  with one request, audio and video and that fault).
* The socket that probes a port is closed at once. `PortIsStillFree`, which
  `Recording` checks for requests that come one at a time, fails for starts of two
  meetings, for overlapping requests (`OnePipeline.cfg`, also with one meeting and no
  faults: an end or a restart frees the sockets of the meeting while a start probes)
  and with a camera and a screen share, where the restart of the bus thread does the
  same. The loser's pipeline then fails to play; `RecordedFromItsOwnPort` is what holds
  in all of these.
* A start that fails after its pause (an element that cannot be added or linked)
  returns without playing the pipeline again, and the participants already recorded
  are no longer: `Quiet(g)`, `pipeline_map[m] = g` and a producer on `g` do not
  imply `gst[g].state # "Paused"` (`Recording.cfg` with the fault `"element"`).
  `NotLeftPaused` is therefore checked without faults, and without `end_meeting`.
  It is checked with one request at a time, against the callback and the bus
  thread; whether it holds for overlapping requests is not settled, as that
  instance was too large to finish.
* With `CallerWaits` false `PresenceIsAnnounced` fails (`Process.cfg`): a device that
  gave up on its leave and joins again is announced before the LEAVE it still has in
  progress, and the analytics take it for gone.
* From the source: a process that is killed between the commit of a join and its send
  leaves a presence that was never announced; events still in the channel are lost at
  a graceful shutdown, which `AnalyticsAgrees` accounts for with `view = None`;
  `end_meeting` announces no LEAVE for the participants it removes; `leave_meeting`
  announces none when a pipeline cannot be closed.
* From the source: the client sets no timeout on a post. A connection that neither
  answers nor fails stops the receiving task, and then, once the channel is full,
  every join and leave; section 5 assumes it does not happen.
* From the source: the validation of `createMeeting` (`service/v1/mod.rs:104-106`) is a
  conjunction that no payload satisfies, so one without routers reaches the `unwrap`s
  after it and panics; and the routers are collected in a map by worker, so a worker
  named for both producers and consumers keeps only its consumer router (131, 140).
* From the source: `CLIENT_CONFIG_SERVICE_HEADERS` is documented as optional
  (`client/mod.rs:11`), but its absence panics at the start (line 58).

## 5. Fairness

`FairSpec` assumes weak fairness of every step of a request: awaits return, since
mediasoup, GStreamer and the driver answer with a result or an error, and tokio
schedules runnable tasks. It assumes strong fairness of the two acquisitions of a
mutex, because tokio's `Mutex` serves its waiters in the order they queued. New
calls, crashes and faults are not fair.

In `Process`, every step of a request is strongly fair: it may have to wait for the
mutex, for a thread or for room in the channel, and each of those is served in turn
(tokio's queues of waiters and of tasks, the queue of blocked senders in `std`). The
receiving task is weakly fair: a post ends with an answer or an error. `HeartbeatOk` is
weakly fair: a thread that goes on looping reaches the database in the end. Nothing
says that the process is started, shut down or exits. No liveness is claimed of the
recording models, whose `std` mutexes guarantee no order and which do deadlock.

## 6. Proofs

The theorems hold for every value of the constants that satisfies the assumptions
named here, and for any number of requests. Each rests on an inductive invariant that
TLC checked first; the last step of each theorem combines its base case, its induction
step and the implication with `PTL`.

`SfuAssumption` says that `None` differs from every identity, that the identifier of a
transport is never that of a router, a producer or a consumer (mediasoup issues UUIDs),
that the flags are Booleans, and that publishers and viewers are participants.
`GstreamerAssumption` says that `None` and the marks `"pad"` and `"poisoned"` of a mutex
differ from every request, that ports are numbers, and which kinds are recorded.
`UserEventsAssumption` and `ProcessAssumption` bound capacities and types.

### The SFU

`SfuProofs`:

* `TypeCorrectness`: `Spec => []TypeOK`;
* `LocksAreReleased`: `Spec => []LockDiscipline`;
* `ProducersAreUnique`: `Spec => []OneProducerPerKind`;
* `Invariance`: `Spec => []IInv`, on which the three rest.

`OneProducerPerKind` is not inductive: nothing in it says that the producer a
request is about to publish is still missing. `IInv` adds `ControlOK` (a request is
at a step of its handler and `LockDiscipline` holds, so at most one request of
a meeting is between the search and the publication of `create_producer`) and
`NoneWhileProducing` (while a request is there, `producer_map` has no producer
of its participant and kind). The other handlers only remove producers, and another
`create_producer` of the meeting would need the mutex. `DataOK` types the
database and the maps, and rests on the lemmas of `DatabaseProofs`: each
statement, cascade and transaction maps databases to databases.

`RosterProofs` proves `Refinement`: `Spec => ImplementsRoster`, with callers that wait or
not and with every fault. Most transactions are Roster steps by their text; three
are not, and need the invariant `RosterInv`, whose parts are:

* `Consistent`: the unique and foreign keys, and what no key says: the transport of a
  recorded producer or consumer is its participant's own. Only so do the cascade over a
  participant and the cascade over its transports delete the same rows, and a departure
  is one `Depart` of the Roster.
* `OneOwner`: whatever names a transport (a map, a table, a request) names it for the
  same participant. `Unshared` keeps it: until `register_*_transport` commits, only the
  recreate helper knows its new transport. This is what makes `Consistent` inductive.
* `StaysWhileRegistered`: while the transport of a `create_producer` is registered, its
  participant is in the meeting of the call, because leaving would have taken the
  transport along. The foreign key on the transport is thus what keeps a late
  `create_producer` from recording a producer for somebody who has left.
* `OneProducerEach`, `Unrecorded`, `MadeForCaller`, `IdleHasNone`: the identifiers
  requests hold are their own.

`TransportProofs` proves `TransportsAreKnown`: `Spec => []RecordedTransportIsKnown`, again
with every fault and without `CallerWaits`. The property speaks of meetings this process
serves now; the inductive `Known` speaks of meetings it will never serve (`Adrift`: no
router recorded for the meeting is in `routers_map` or about to be), so that publishing
routers does not break it. `Keyed` (the foreign keys of meetings and routers) shows that
a meeting gets new routers only when nobody is in it. The lists of identifiers that
callers pass are the stale state here, and `ListInv` says what keeps them harmless: a
new transport is in no list (`Unlisted`), a list names transports of the caller
(`OwnIds`) or of the participants of the meeting that ends (`EndIds`), and once the
handler's transaction has deleted their rows none of them is recorded again (`Gone`).

`ConsumerProofs` proves `ConsumersAreUnique`: `Spec => []OneConsumerPerTarget`, assuming
`CallerWaits`. `ConsumerInv` adds that an instance has one `create_consumer` in progress,
that its snapshot of the shard contains all that the instance has in `consumer_map`
(`SnapshotIsComplete`), and that what it has made duplicates neither the snapshot, nor
what it still has to make, nor itself (`MadeIsNew`).

`ProducerProofs` proves `RecordedProducersAreLive`: `Spec => []RecordedProducerIsLive`,
assuming `CallerWaits`, with every fault and any number of requests. The hard part is the
time between the transaction of a teardown, which deletes the rows, and its removals from
memory several awaits later. `ProducerInv` follows it:

* `Live`, `InPlace`, `OfPresent`: a recorded producer is in memory, about to be, or of a
  transport this process does not have; it is of the meeting its participant is in, and in
  memory of the very instance that is there.
* `CallsAreApart`: what `CallerWaits` gives, one call per instance and per meeting.
* `TeardownInv`, per request: between its transaction and its search the presences it has
  deleted do not come back (`StaysSuperseded`, `StaysAway`, `StaysEnded`; this is where a
  caller that does not wait would break it), between the search and the removal no id it
  holds is recorded (`RemovedIsDeleted`), and a producer that is being made is known to
  its maker alone (`KnownToItsMaker`, `CallerStays`, `CallerRecords`).

The same module proves `MemoryAgrees`: `Spec => []ProducersAgree` and `RecordingsFollow`:
`Spec => []RecordingsFollowProducers`, assuming that requests come one at a time (`Alone`),
with every fault and crash. `SequentialInv` says that a producer in memory is recorded for
a meeting the process serves, or that the request in progress has deleted its row and is
on its way to remove it (`Accounted`); that the router of a `create_producer` is one of
the process by the time it records (`Assured`); that an end of a meeting names routers of
this meeting only (`OwnRouters`) and, when it lists no participant, has nothing to remove
(`NothingLeft`); and that the maps of recordings follow `producer_map`
(`RecordingsKept`). Two requests do break both properties (section 4), so the hypothesis
is needed.

Under the same hypothesis it proves `ConsumersStayLive`:
`Spec => []RecordedConsumersAreLive`. `SubscriptionInv` adds that a recorded consumer is
in memory, about to be, or of a transport this process does not have, and in memory is of
the very instance that is in the meeting (`Subscribed`); that what anybody consumes is a
producer of the participant he targets (`Aimed`), as callers are offered recorded
producers only (`Consumes`) and nobody consumes one that is not in `producer_map` yet
(`Unconsumed`); that a leave, and a take-over that finds producers to remove, have deleted
the rows of whoever consumes them (`Retracts`); and that no id a teardown holds to
remove is recorded (`Discards`).

### Recording

`RecordingProofs`:

* `TypeCorrectness`: `Spec => []RecordingTypeOK`, from `Typed`, which adds that the
  elements a start is about to add were made;
* `PlayingIsWatched`: `Spec => []PlayingWasWatched`. `WatchInv` says that pipelines of
  the map, those of requests past `WatchBus` and those with a callback are watched;
* `PoisonStartsAtTheBusThread`: `Spec => []PoisonedByTheBusThread`. `LockInv` says at
  which steps a request holds the mutex of `inner`;
* `PipelineStaysInMap`: `Spec => PipelineIsStable`. `MapInv` says that the starts of a
  meeting exclude each other and that a start past its lookup still knows what the map
  holds for its meeting; `MeetingInv` that pipelines stay with their meeting;
* `OneRecording`: `Spec => []OnePipelinePerMeeting`, and `EndIsTheEnd`:
  `Spec => []EndStopsRecordings`, both assuming that `"mediasoup"` is not among the
  faults. `KnownInv` says that a pipeline on which anything may still happen is in the
  map or about to be entered. A failure of mediasoup between the play and the
  insertion would break it: the start returns early and leaves a playing pipeline
  that no map names. The run `OnePipeline` leaves that fault out for the same reason;
* `PublishedWhole`: `Spec => []PublishedIntoWholePipeline`, for any mix of kinds, any
  number of requests and every fault. `WholeInv` follows the shared elements from their
  making to the map: a pipeline in the map, or about to be entered, has the elements of
  the file, and what the start of a new pipeline needs is made, then added, by that
  start alone, as an instance whose start failed is never looked up again;
* `RecordsOnItsOwnPort`: `Spec => []RecordedFromItsOwnPort`, with no hypothesis: any
  number of requests, ends, restarts of the bus thread and faults compete for the ports.
  Sockets exclude each other by nature (`Separate`); the property is that a published
  producer always has its own. It is not inductive, as it says nothing of the time
  before the publication or of stopped pipelines. `PortInv` adds, for producers and for
  starts past their play, that the elements in the maps are in the pipeline, bound unless
  it is stopped (`Received`); for starts before their play, that what the maps hold of
  their source is what they have made, and then what they have added; and for requests
  that took elements out of the maps, that these are in no map any more, so what they
  remove is never a published producer's (all in `Keeping`); and that sources are
  given once. Lemma `PortStep` reduces a step to two facts: every
  instance changes as `Fits` says (the maps lose elements but for those just made, the
  rest stay in the pipeline and keep their sockets unless it is stopped), and the request that
  moves keeps `Keeping`;
* `PlaysAgain`: `Spec => []NotLeftPaused`, assuming `OneByOne`: one request at a time,
  no fault, no `end_meeting` and no screen share, any number of meetings, participants,
  pipelines and ports, and the callbacks at any moment. The argument needs each of the
  four: two starts can probe the same port, so that one of them does not play, a start
  that fails after its pause does not play again, an end unbinds the sockets of elements
  that stay in the pipeline, and a screen share takes the map entries of the camera,
  after which the bus thread restarts the pipeline (whether `NotLeftPaused` survives
  overlapping requests all the same is open, see section 4). A pipeline plays only if
  its sockets can be bound, so the argument is about ports as well. The inductive
  `Orderly` says that the elements, the maps and the sockets of a pipeline agree up to
  what the one request is adding or removing (`SocketInv`); that elements of one port
  are the two of one producer and the probed port is nobody else's (`Ported`, `Probed`),
  from which every `set_state` succeeds (lemma `Opens`); that shared elements come in
  whole groups (`GroupInv`), so that adding them never stops half-way; that a
  participant has one session of each media, and the callback's elements are of it
  (`SessionInv`), so the bus thread has nothing to restart; that every source is
  accounted for by a producer or the request (`SourceInv`), so that a start replaces
  nothing in the maps; that a callback and a close exclude each other with the mutex of
  the pipeline (`Unharmed`); and that whoever paused a pipeline with sources is still
  there to play it (`Resumed`).

### The process

`ProcessProofs`:

* `TypeCorrectness`: `Spec => []ProcessTypeOK`, with the bound of the channel;
* `ServingIsRegistered`: `Spec => []ServesRegistered`. The inductive `Registered` says
  it already of the phase between the registration and the listening socket, and that
  there are requests only while the process serves;
* `PresenceAnnounced`: `Spec => []PresenceIsAnnounced`, assuming `CallerWaits`. The
  inductive `AInv` has four more parts: a join past its lock holds the mutex of its
  participant (`JoinsAreLocked`), so joins send in the order they commit; a device has
  one call at a time (`CallsAreAlone`); an instance whose leave has deleted its row
  and not yet sent is not the recorded one (`LeftIsGone`), so the late LEAVE is of a
  superseded or absent instance; and a join about to send is the one recorded, if it
  is recorded there at all (`JoinIsCurrent`);
* `ServiceAgrees`: `Spec => []AnalyticsAgrees`. A fold over the channel would need
  induction, so `ChannelInv` states it with a path: there is a sequence of states of the
  service, one per event in the channel, that leads from what it heard to what was
  announced. A send extends the path, a post takes its first step.

### Only model-checked

* Liveness (`EveryRequestEnds` and the leads-to properties of `Process`): fairness and
  `ENABLED` are beyond the prover.
* `RecordedConsumersAreLive` with two requests in progress, which `Consumers` checks where
  no publisher is taken over; the theorem is of one at a time, as section 4 shows why.
* `PortIsStillFree`: it holds only where nobody competes for the port, and the theorem
  worth having is `RecordsOnItsOwnPort`.

## 7. Not modelled

* Handlers that are cancelled. `main.rs:228` serves the router as it is, so axum and
  hyper drop the future of a handler when its client disconnects, at an await that really
  yields: a map whose lock is contended between a commit and the insertion (a row then
  stays without its object in memory), the insertion into `pipeline_map` (line 2098), or
  `connect().await` of the plain transport (line 2000), whose effect is that of the fault
  `"mediasoup"` in section 4. In the models a handler runs to its end or is lost with the
  process.
* Elements whose `set_state(Null)` fails while a close clears the maps (lines 2487-2770):
  the code logs it and sets them to Null once more, which `ClosePauses` models with its
  failure.
* `connect_transport`, `restart_ice`, pausing and resuming: each looks an object up and
  calls mediasoup; they change no map and no table, and no handler reads what they set.
* A commit whose outcome is unknown to the driver; deadlock retries inside MySQL.
* Capacities of workers and routers and the choice of a worker, which the control
  plane computes; payload parsing and validation, which keep no state; the
  read-only endpoints.
* The metrics tasks: nothing spawns them (`mod.rs:292-298` is commented out), except
  the one that receives user events. Logging, middleware and the values of the
  configuration.
* Media itself; the H264 pipeline, which no code calls.

## 8. Plan

Done: the database, the SFU's handlers and their composition, the roster and its
refinement, the recording pipelines, the process with its events and heartbeat, and
the theorems of section 6. Every invariant a passing run checks has a theorem, some under
the hypotheses named there, except `PortIsStillFree`.

# Verification of mqtt-spc

`mqtt-spc` connects a Vanderbilt/Siemens SPC alarm panel to Home Assistant. The
panel dials in over TCP and speaks EDP; the program keeps a snapshot of the
panel, publishes it on MQTT topics, and turns MQTT commands into panel commands.
This directory holds TLA+ models of the program, the TLC runs that check them,
and proofs checked by TLAPS. Paths below are relative to the repository's
Rust sources (`src/src/`).

## The system

| Component | State | Operations | Talks to |
|---|---|---|---|
| Frame codec (`edp/wire.rs`) | none | `Frame::encode`/`decode`, checksum, AES | called by decoder, reader and writer |
| Frame decoder (`edp/wire.rs`) | byte buffer, dropped count, current wait | `feed`, `resync` | called by the reader of each connection |
| XML replies (`edp/xml.rs`) | chunks of one reply | `build_request`, `ReplyAssembler::feed`, `parse_reply` | called by `xml_query` |
| Command channel (`edp/session.rs`: `Shared`, `SessionHandle`, `dispatch`, `write_loop`) | `next_seq`, `last_received`, `pending`, `closed`, `command_lock`, write queue | `xml_query`, `binary_command`, `transact`, `dispatch`, `close` | callers share it with the reader and the writer task |
| Connections (`edp/session.rs`: `run_receiver`, `claim`, `read_loop`, `run_session`) | the active slot, a supersede channel per connection | accept, claim, supersede, read, end | link events to the bridge over a bounded queue |
| SIA events (`edp/sia.rs`) | none | `parse` | called by `dispatch` |
| Snapshot (`edp/panel.rs`) | areas, zones, alerts | `apply_areas`, `apply_zones`, `apply_status`, `apply_event`, `common_mode` | owned by the bridge |
| Bridge (`bridge.rs`) | the link and its snapshot, `mqtt_up`, published discovery configs | `on_link_event`, `on_sia`, `refresh`, `on_mqtt_event`, area and zone commands, publication | consumes link events, MQTT events and a timer, one at a time, and awaits queries in between |
| Discovery (`mqtt/discovery.rs`) | none | `discovery_messages` | called by the bridge |
| MQTT event loop (`bridge.rs`: `drive_eventloop`) | the client's request queue, the bridge's event queue | poll, forward | the broker, and the bridge over two bounded queues |
| Configuration, start-up (`config.rs`, `main.rs`) | none that changes | parse, spawn | |

What makes it hard:

- *Concurrency.* A call of `transact`, the reader, the writer and `close` meet in
  one mutex-protected map; several connections may race for the active slot; the
  bridge is the only consumer of a queue that the readers it depends on fill; the
  bridge and the MQTT event loop each wait for room in a queue the other empties.
- *Failure and time.* Every exchange may be rejected, lost or time out, with the
  request or its reply still on its way. Connections, the panel's and the
  broker's, end at any time, and a query may be the first of four that fails.
- *Stale state.* The bridge decides from a snapshot, acts over several exchanges,
  and meanwhile people use the keypads; what it has on record as published may be
  gone from a broker that was restarted.
- *Ordering.* Events of a superseded connection mix with those of its successor;
  panel events are applied to replies made before or after them; commands of a lost
  broker connection are queued before the news of its loss.

What makes each component correct: a caller gets the reply to its own request or
an error, in bounded time (command channel); one connection is in charge, the
others end, and the bridge always learns when its link is dead (connections); a
failed all-areas command is undone, unset is never undone, and no topic keeps an
optimistic value (area commands); no frame is lost to noise, and noise costs
bounded time (decoder); what is sent is what is decoded, or an error (codec); the
topics come to say how things are at the panel, whatever failed meanwhile, and a
status of "online" means a session (bridge); the two tasks at the MQTT client never
wait for each other (event loop).

## The modules

| Module | Models |
|---|---|
| `CommandService` | what a caller of the command channel may rely on: an abstract specification |
| `CommandChannel` | commands on one connection, from the caller through the write queue, the panel and the reader back to the caller; implements `CommandService` |
| `CommandChannelProofs` | its inductive invariant and what follows from it |
| `CommandServiceProofs` | that `CommandChannel` implements `CommandService`, and that XML replies are assembled from one reply of the panel |
| `LinkService` | what the bridge may rely on of its link events: an abstract specification |
| `PanelLink` | connections, the active slot, the link event queue, the bridge's link; implements `LinkService` |
| `PanelLinkProofs` | its inductive invariant and what follows from it, and that it implements `LinkService` |
| `AreaCommand` | the bridge's area commands, with re-read, rollback, refresh and the mode topics |
| `AreaCommandProofs` | its inductive invariant and what follows from it |
| `FrameDecoder` | the loop of `FrameDecoder::feed` over a byte stream |
| `FrameDecoderProofs` | its inductive invariant and what follows from it |
| `Codec` | the bytes of a frame, its checksum and encryption, and the fields of an event |
| `CodecProofs` | that they decode to what was encoded, and a garbled byte to an error |
| `Snapshot` | the snapshot and the replies and events applied to it, as operators |
| `Discovery` | topics, discovery configs and state messages of a snapshot, and the commands read from topics and payloads, as operators |
| `Bridge` | the bridge between the panel's sessions and MQTT; extends `Discovery`, which extends `Snapshot` |
| `BridgeProofs` | its inductive invariant and what follows from it |
| `MqttPump` | the two bounded queues between the bridge and the MQTT client |
| `MqttPumpProofs` | its inductive invariant, and when neither waits for the other for ever |
| `MC...` | the instances TLC checks: symmetry sets and constant values |

The models are layered by abstraction, so that each keeps all the control of its
part and takes its neighbours as these have been shown to be:

    Codec          a frame decodes to itself or to an error
      FrameDecoder   reads of bytes become frames, in order, noise apart
        CommandChannel  frames and time become a call that returns (CommandService)
        PanelLink       frames and connections become Ready, Sia, Closed events
                        (LinkService)
          Bridge          a query is a step that answers or fails; events of sessions
          AreaCommand     the same, with commands that take effect late
            MqttPump        a publication is a place in a bounded queue

Definitions annotated `Mutant:` are variants of the definition that follows
them, with a plausible bug; no specification uses them. They serve to show that
the properties notice the bug.

### CommandChannel

A request id names one call of `transact`; `log[rid]` is the sequence number it
got. One action per step of the code between two points where another task can
intervene: `Lock`, `Register` (one critical section of the link mutex), `Send`,
`Await`, `Conclude`; `DispatchReply`, `DispatchOther`, `Close` of the reader;
`WriteFrame`, `StopWriting` of the writer. `timeout_at` polls the channel before
the clock, so `Await` prefers a reply. Time is counted in ticks, up to the
deadline and the quiet time. The panel is external: it answers in order, late,
or never, and sends frames of its own under numbers it chooses.

### CommandService

The abstract specification: a caller waits for its turn, shares it with nobody, puts
requests to the panel, and is answered. A binary command is put once; an XML query
once per fragment; nothing is put to a connection that is down; "ok" means that the
panel fulfilled the last request. Under the mapping at the end of `CommandChannel`
`Call` is `Ask`, `Lock` is `BeginTurn`, `Register` is `PutRequest`, `PanelAnswers` with a good reply is
`Fulfil` if the caller still waits, the actions that return are `Answer`, `Close` is
`GoDown`; `Send`, `Await`, the queues, the reader and the clock are stuttering steps.

### PanelLink

`phase[s]` is where the task of connection `s` is. A read delivers a batch of
frames, which are dispatched one by one, and the connection may end in between.
`Claim` and `Supersede` are apart because `claim` signals the old connection
after releasing the mutex. `SendReady` and `SendClosed` wait for room in the
queue, `DispatchSia` does not. The bridge takes an event only when it does not
await a query (`asking`). Idle and handshake timeouts, end of file and decode
errors are one nondeterministic `StopReading`. The order in which the two
branches of `select!` are taken is nondeterministic.

### LinkService

The abstract specification: a session comes up at most once and ends once; the bridge
learns of both, of the end last, and not while it awaits a query; the link is a session
in between. Nothing is promised of the order between sessions, which is the first
finding below. Under the mapping at the end of `PanelLink`, `SendReady` is `ComeUp`,
`SendClosed` is `End`, `TakeReady` is `LearnUp`, `TakeClosed` is `LearnEnd`, `AskPanel` and
some `TakeSia` are `Query`; the bridge has learnt of what is no longer in the queue. All
else, the slot and the supersede channels among it, are stuttering steps.

### AreaCommand

`pc` is what the bridge awaits. `wire` holds the requests that are on their way
to the panel; a request that nobody awaits any more (`live = FALSE`) may still
take effect. `PanelHandles` accepts, rejects, or rejects half done; `PanelIgnores`
loses. `snap` is the snapshot, `published`, `common` the retained topics. A
snapshot's rows, `Exchange` and `Publish` stand for the XML replies, a call of
the command channel and the publication of topics. A refresh fails either before the
areas are applied (`RefreshFails`) or after it, on a status reply that lacks a mask
(`RefreshBadStatus`, `bridge.rs:240-242`): then the snapshot has moved, and nothing is
published. A panel event publishes the topic of all areas from the snapshot as it is
(`Event`), or after a re-read that may fail (`EventReads`, `EndEvent`). `start`,
`undoing`, `touched`, `failed` and `stirred` only serve the properties; `stirred` says
that the panel may have changed since all areas were last published: a keypad was used,
area 0 commanded, a session replaced, or a re-read after a command failed. Part set B is
left out: it differs from part set A in its opcode only.

### FrameDecoder

The buffer holds cells: a byte with the frame it belongs to. The decoder's
decisions look at bytes only, except in `Decodes`, where belonging to one frame
stands for a checksum that matches. Each turn of the loop in `feed` is an action.

### Codec

Real bytes and the real checksum register (16 bits, polynomial 0xA097, bytes added to
the low half without carry), its polynomial applied bit by bit (`Flip`). AES is a
library: any permutation of blocks with an inverse serves, and one such is given. A behaviour encodes one frame, may garble one
byte, and decodes with some key; or parses one event. The first frame of the unit
tests, captured from a panel, pins the checksum and the layout bit for bit
(`CaptureIsExact`, an assumption that TLC evaluates).

### Snapshot, Discovery and Bridge

`Snapshot` and `Discovery` have no state: the replies are sets of rows, a topic is the
tuple of its segments, a discovery config a record of what its payload says of the
entity. Both functions that build messages and the ones that read command topics are
there, so that `CommandsReachTheirEntity` can compose them.

`Bridge` has one action per handler, cut where the handler awaits the panel (`task`):
the four queries of `refresh` (`InfoRead`, `AreasRead`, `ZonesRead`, `StatusRead`), the
one or two re-reads of `on_sia`, a zone command and its re-read. Between the steps
the world moves: the panel's zones, modes and alerts change and are reported as
events, sessions end and start, the broker is lost (its last will is published,
or it comes back empty; requests on their way are sent again or lost), Home
Assistant starts, someone uses a switch. `outbox` holds the last payload per topic of
what the client has not delivered: requests are applied in order, so earlier ones
of the same topic do not matter. The link event queue is bounded by `QueueLen`:
`Ready` and `Closed` wait for room, and of the panel's events those are dropped that find
none (`edp/session.rs:486-497`). `link.read`, `alarmed` and `unheard`
only serve the properties; the last holds the zones whose latest event was dropped.
Sessions follow one another here, each with its `Ready` behind that of the last, while their
`Closed` may come late: the late `Ready` of a superseded connection, which the first
finding below is about, is left out, so what is shown of the bridge is shown of
behaviours without it.

### MqttPump

Requests are only counted: a handler publishes `Some` or `All` messages one by one and
waits for room; `drive_eventloop` polls (connects, fails, sends one, hears a command),
queues the event and waits for room, and sleeps after an error.

## The runs

| Run | Shows | Bounds |
|---|---|---|
| `channel` | `OkMeansAccepted`, `AssembledInOrder`, `ClosedHasNoPending`; `AssemblyInv`, the inductive invariant of the proofs, with `ChannelInv` and `TypeOK`; `ServiceSpec`: the channel implements `CommandService` | 2 callers, 2 calls, 2 fragments, numbers modulo 4, write queue of 1, one frame of the panel's own, no wait for a quiet line |
| `channel_returns` | `CallsReturn`, `CloseFailsCallsAtOnce` | 2 callers, 2 calls, 1 fragment, a quiet time of 1 tick; the number is always 0 |
| `link` | `LinkInv`, the inductive invariant of the proofs, with `TypeOK` and `StrayStopsNobody`; `DeadLinkIsReported`, `QueryNeverWaitsOnQueue`, `OldOnesAreStopped`, `LinkDroppedOnlyWhenClosed`; `LinkServiceSpec`: connections and queue implement `LinkService` | 3 connections, a queue of 2, an SIA event |
| `link_live` | `SupersededEnds`, `DeadLinkIsDropped` | 2 connections, a queue of 1 |
| `areas` | `AreaInv`, the inductive invariant of the proofs, with `TypeOK`; `FailedSetIsUndone`, `UnsetNeverRearms`, `NoOptimisticView`, `TopicsShowThePanel`, `TopicsConverge` | 2 areas, 2 modes and an unrecognised one, 2 commands, 1 use of a keypad |
| `decoder` | `NoFrameLost`, `FoundInOrder`, `WaitIsBounded`, `CorruptOnlyForNoise`, and `DecoderInv`, the inductive invariant of the proofs, with `TypeOK` and `NoUnderflow` | 2 frames of 3 shapes, 4 bytes of noise, reads of up to 3 bytes |
| `bridge` | `BridgeInv`, the inductive invariant of the proofs, with `TypeOK`; `SkippedConfigsAreRetained`, `StatusIsHonest`, `ZonesFollowThePanel`, `AlarmIsShown`, `CommandsReachTheirEntity`, `SwitchesStay`, `TopicsConverge` | 2 areas, zones 1 and 256, the second of each without changes of its own (`Still`), 1 named alert, a queue of 2 link events; events of the world up to a total cost of four |
| `pump` | `NoCircularWait`, `Reconnects`, `HandlersReturn` | 2 outages, 2 commands, 1 refresh; a request queue of 14, an event queue of 2 |
| `codec` | `RoundTrip`, `GarbledIsRejected`, `EventsKeepTheirText` | payloads around the block boundary and `Chance`, 2 keys, each byte changed in 3 ways; events of 2 to 9 fields |
| `link_current`, `bridge_deletes`, `pump_deadlock` | a comment or message of the source that the code does not live up to, each with its counterexample | see below |

Why the bounds are enough. Two callers suffice for contention, since the lock
admits one at a time, and two calls for a late reply to meet the next command;
numbers modulo 4 wrap within a run and are still longer than a run that does
not wrap. The liveness runs do not depend on numbers, hence the single one
there. Three connections give a claim on top of an unfinished claim; the event
queue of one or two is full as soon as a connection is ready. Two areas tell an
area from all of them and a half-done command from a done one; the second command
meets what the first left on the wire. Noise of four bytes makes a phantom
header in front of, inside of and behind a frame, and exceeds the limit of two
dropped bytes.

`Bridge`: of the world's events at most four happen in a behaviour, of which at most
two are the panel's, three starts or ends of sessions, and one each of a failed
query, a lost broker, a Home Assistant birth and a use of a switch (`MCBudget`); the
last two count as two of the four (`MCCost`), to keep the run short. Four of them, in
any order and at any of the bridge's awaits, include a session that is replaced, a
broker lost during a refresh or a command, an event before, between and after the
replies, and a failure in each query. One area and one zone
that change suffice since the topics of different entities do not interact; the modes of
two areas meet in `AreaCommand`. The second area is there for the topics of all areas,
which need two, the second zone for an id that `parse_zone_command` cannot read. The
queue of two is full with a `Ready` and an event, or with the two events of a zone that
opens, so that the next event is dropped: the zone's, or the alarm that
belongs to it, or both. `MqttPump`: 14 requests are what a lost connection can
leave and what is published before its `Disconnected` is handled: two times the
three subscriptions and `All`, a command twice, a refresh. With fewer,
`NoCircularWait` fails; this is the condition that the program's constants (256 and
16) make likely but do not ensure.

Deadlock is not checked: a run ends when its calls, events or bytes are used up.

### What the runs found

1. `link_current` (a bug): a superseded connection can still queue `Ready`, for a
   first poll that it read before. The bridge makes any `Ready` its link
   (`bridge.rs:162-165`): it replaces the live session by the dead one, drops that
   on its `Closed`, and has no link until the panel dials again, although the
   comment at `edp/session.rs:54` says that superseded connections are told
   apart.
2. `bridge_deletes` (a bug): `refresh` marks the link as loaded once the panel
   information is read (`bridge.rs:234`). When a later query of the initial refresh
   fails, the empty snapshot counts as loaded, and the next panel event makes
   `publish_discovery` delete the configs of all areas and zones, "entities that
   disappeared from the panel" (`bridge.rs:415`). The periodic refresh publishes them
   again (`TopicsConverge`).
3. `pump_deadlock` (a bug): while a lost MQTT connection has not been handled, every
   publication takes a place in the client's request queue, which nobody empties. Once
   it is full the bridge waits in `publish` and takes no event; once the event queue
   is full too, `drive_eventloop` waits and never polls again: the program does not
   reconnect (`bridge.rs:398`, `bridge.rs:563`).

Reading the code showed more that no run claims:
on a full link event queue the newest event is dropped, and not the oldest as
`edp/session.rs:42` has it: the zone is then shown as it was until the next refresh,
while an alarm dropped so is never shown (`ZonesFollowThePanel` and `AlarmIsShown` leave
these out); `area/0/mode/set` is parsed as a command for one area
(`bridge.rs:606`) and goes to the target that means all areas, without a plan or
rollback (`StartOne` has it with target 0); an area that was changed at a keypad after
the last refresh is set back by a rollback, which goes by the snapshot the plan was
made from, and when the re-read fails nothing is rolled back (`bridge.rs:310`:
`FailedSetIsUndone` states the premises under which it is); the switches of a zone
beyond 255 have a command topic nobody answers, since zone ids have 32 bits and
`parse_zone_command` reads 8 (`bridge.rs:593`; `CommandsReachTheirEntity` states this as
its exception); after a status reply that lacks a mask the mode topics and the snapshot
disagree until something is published (`bridge.rs:242`); a new session
starts without the alarms of the last (`edp/panel.rs:418`).

### Fairness

`CommandChannel`: weak fairness of the steps of a caller, as the runtime polls
every runnable task; strong fairness of `Lock`, as tokio's mutex is granted in
order (`FairSpec`). `CallsReturn` has weak fairness of `Tick` as its premise, where
time passes; `CloseFailsCallsAtOnce` of `Close` instead, where it need not: it is
about calls past their wait for a quiet line, which only the clock ends. The panel,
the reader and the writer owe nothing. `PanelLink`: weak fairness of the tasks' own
steps; strong fairness of waiting for room in the queue (permits are given in
order), of the branch of `select!` that sees the signal, and of the bridge taking
events; `QueryReturns` is justified by `CallsReturn`. Peers and timers owe nothing.
`AreaCommand`: handlers go on (queries return); the refresh timer fires, a session
comes back, and the panel answers some refresh, again and again. `TopicsConverge` is
stated for behaviours that have no new sessions in the end.

`Bridge`: `[]<>(task = Idle)` says that handlers end, by `CallsReturn`, and nothing of
how; strong fairness of taking link events and MQTT events, since `select!` picks at
random among the ready branches; weak fairness of the refresh timer, of sessions
reporting their end, of the client connecting and delivering. Sessions, the panel,
Home Assistant and the broker's failures owe nothing: `TopicsConverge` speaks of
behaviours in which session and connection last in the end. `MqttPump`: weak fairness
of each task and of connecting; strong fairness of sending a queued request, which
hearing commands must not starve. `Reconnects` speaks of a broker that comes back to
stay.

## The proofs

`CommandChannelProofs` proves, for every set of callers and all values of the
other constants that `ChannelAssumption` admits:

- `Invariance`: `Spec => []ChannelInv`;
- `TypeCorrect`, `SuccessIsReal`, `NoneLeftOnClosed`, `OneAtATime`: its parts
  `TypeOK`, `OkMeansAccepted`, `ClosedHasNoPending` and `OneTransaction`.

`OkMeansAccepted` is not inductive: that the reply in a caller's channel answers
the caller's request depends on how the number got from the registration through
the queues to the reader. `ChannelInv` adds that (`RequestsAreKnown`), that
numbers increase until they wrap (`NumberedInOrder`), so that one names one
request, what lies in a channel (`InboxIsMine`), and that one caller at a time is
in a transaction (`OneTransaction`). There is one lemma per part, each of them
going through the actions that can disturb it.

`CommandServiceProofs` proves that the channel implements the service:

- `Implements`: `Spec => ServiceSpec`, from `ServiceInvariance`: `Spec => []ServiceInv`.

Each action is a step of the service or leaves its view of the channel alone
(`ServiceStep`, one step per action). Three more invariants are needed for it:
`FragmentsLeft` relates the loop's budget to the chunks received, so that no query
puts more requests than the service allows; `ReplyFitsCall` says that a reply of the
kind "there is more" reaches XML queries only, so that a binary command is put once;
`AcceptedIsKnown` says that the panel accepts nothing that was not registered, so that
a new request starts unfulfilled.

The proofs assume nothing of the panel but that an answer bears the number of its
request, as `PanelAnswers` has it. `~wrapped` limits the claim to 2^32 numbers of
a connection; what happens after a wrap is not claimed.

`FrameDecoderProofs` proves, for all frames, noise, limits and lengths of streams that
`DecoderAssumption` admits:

- `DecoderInvariance`: `Spec => []DecoderInv`;
- `DecoderTypeCorrect`, `NothingLost`, `InOrder`, `BoundedWait`, `SubtractionIsSafe`: its
  parts `TypeOK`, `NoFrameLost`, `FoundInOrder`, `WaitIsBounded` and `NoUnderflow`.

The argument is about `Rest`, the bytes in the buffer and on the socket. Every step
adds to its end, leaves it alone or drops bytes from its front, and
`WholeIsNotDropped` shows that `resync` never drops the first byte of a frame that
lies whole at the front: its header is valid, it decodes once it is complete, and
the wait for it ends before the limit. The last needs that a wait began with a
header's length in the buffer (`NoUnderflow`) and that a frame is no longer than
`HEADER_LEN + RESYNC_LIMIT` (`DecoderAssumption`; the code says that real frames are
small). Order needs that bytes are still those of the frames sent (`CellsAreSent`),
in order (`CellsInOrder`), and later than any frame found (`FoundIsBehind`). The
assumption about the checksum, that it tells a frame from anything else, is in
`Decodes`.

Its `CorruptForNoise` says that the decoder gives up only for noise: the bytes counted
as dropped are distinct bytes of noise that came between the last frame found and the
next one (`DroppedIsNoise`, with `NoiseInPlace`). Cells of noise carry their position
for this; no step looks at it.

The second part of `CommandServiceProofs` proves `Assembly`: `Spec => []AssemblyInv`
and, from it, `RepliesAreWhole`: `AssembledInOrder`. The panel keeps its place in one
reply, and any XML request moves it, so a late one could mix two replies. `NewestIsLast`
says that the newest request travels behind all others, so that with its answer at hand
none is left on the way; `ChunksFollow` that the panel's place is then the caller's last
chunk. Both need that one caller at a time is in a transaction, and that its
continuations stay under the same lock.

`PanelLinkProofs` proves, for any number of connections and any queue length:

- `LinkInvariance`: `Spec => []LinkInv`;
- `DeadLinksReported`, `NoQueryOnQueue`, `OneInCharge`, `StraysAreHarmless`: its parts
  `DeadLinkIsReported`, `QueryNeverWaitsOnQueue`, `OldOnesAreStopped`, `StrayStopsNobody`;
- `NoStaleClosed`: the action property `LinkDroppedOnlyWhenClosed`;
- `LinkImplements`: `Spec => LinkServiceSpec`, the refinement.

What is needed beside the properties is the way of a connection: who is in the slot has
claimed it after a read (`SlotIsClaimed`), says `Ready` once (`ReadySentOnce`) and `Closed`
last (`ClosedIsLast`). Events keep their order in the queue, so that a `Closed` behind a
`Ready` is handled behind it. The refinement has one lemma per kind of step
(`ReadyIsComeUp`, `ClosedIsEnd`, `TakingIsLearning`, `OthersAreQuiet`). Since what the bridge has
learnt is what is no longer queued, it needs that no session is twice in the queue
with the same news (`SaidOnce`), and that the bridge does not stop while a
connection has something left to say (`StoppedLast`): the branches in which sending fails
because the bridge is gone are never taken. `LinkServiceInv` joins these two to `LinkInv`;
the run does not list it.

`AreaCommandProofs` proves, for any areas, modes and bounds:

- `AreaInvariance`: `Spec => []AreaInv`;
- `FailedSetUndone`, `UnsetStaysUnset`, `CommandsAreAnswered`, `TopicsAreTrue`:
  `FailedSetIsUndone`, `UnsetNeverRearms`, `NoOptimisticView`, `TopicsShowThePanel`.

The panel answers in order, so the answer to a re-read finds nothing else on the way
(`OneIsAwaited`). Until then the command can only have set areas for which the plan has
a rollback (`PlanCovers`); from then on each area is as it was, still to be rolled back,
or the target of the one rollback on its way (`UndoProgresses`). `HandlerKnows` says
what each await still owes the topics. `OthersAreShown` is what the topics themselves
need: while nothing has stirred since all areas were published, the areas that the current
handler will not publish (`Due`) are at the panel as they are published, and every command
still on its way, one given up as timed out among them, would leave them so. That a
late command cannot reach beyond its own handler is `OneIsAwaited`: the re-read that the
handler ends with travels behind it.

`BridgeProofs` proves, for any areas, zones, labels, queue length and number of events of
the world that `BridgeAssumption` admits:

- `BridgeInvariance`: `Spec => []BridgeInv`;
- `StatusHonest`, `SkippedRetained`, `ZonesShown`, `AlarmShown`: the invariants
  `StatusIsHonest`, `SkippedConfigsAreRetained`, `ZonesFollowThePanel`, `AlarmIsShown`;
- `CommandsReach`: `CommandsReachTheirEntity`, for zones of any id: up to 255 a switch's
  command is the zone's, beyond it is nobody's, and never another zone's;
- `SwitchesKept`: the action property `SwitchesStay`.

None of the invariants is inductive. `BridgeInv` follows three threads.
*Who is talking:* sessions' events come in the order of the sessions
(`EventsInOrder`), nothing is read or queried before the panel information
(`LoadedFirst`), and while the link's session lives, the snapshot and the replies that
wait to be applied have the panel's areas and zones (`KnowsThePanel`).
*What is on its way:* the last event in the queue that moves a zone says how the zone
is, and where there is none the snapshot and the waiting reply do (`ZonesAreTold`), unless
the full queue dropped the zone's latest event; an alarm that was queued is in the queue,
or in the snapshot with no waiting reply that would take it away (`AlarmsAreKept`).
Here the order of the four queries and the application of all replies at once matter.
*What the broker has:* the last turn of the connection that is yet to be heard of is
how it is (`ConnectionIsKnown`). Once none is, `Upcoming`, the pending messages over the
retained ones, is what the bridge takes for published: each config on record
(`ConfigsAreOnRecord`), the link's status (`StatusIsOnRecord`), each alarm that is not
still in the queue or with its handler (`AlarmsAreOnRecord`). The remaining parts say of the record
that its switches are of controls the snapshot allows (`SwitchesAreOffered`) and its
commands of the form `CommandsAreFormed` has. The proof of the third thread has one
fact per handler, `Says`: what it publishes is honest, covers what changed, and leaves
the record right.

The proof corrected `SwitchesStay`, which had no `mqtt_up` in its premise: with MQTT
down and the session replaced by one that does not allow a control, the next
`OnConnected` publishes all configs without that switch. This takes more events than
the run's budget admits, so the run had not found it.

`MqttPumpProofs` proves, for any queues, costs and bounds:

- `PumpInvariance`: `Spec => []PumpInv`;
- `NoDeadlock`: `NoCircularWait`, where `RequestsFit` holds.

`RequestsFit` asks for room in the request queue for all that may be published at once:
a `Greeting` (subscriptions and `All`) for each connection but the last, `Some` for each
command, `All` for each refresh. The last connection is left out where the commands
alone cannot fill the event queue; otherwise its `Greeting` counts as well. The bound is
exact on the run's constants, where it is 14: with 13, and with more commands than the
event queue holds, TLC finds the circular wait. It grows with the number of outages,
since the client may send again what a lost connection left; the program's constants are
long for a few outages and give no guarantee for many, which is the run `pump_deadlock`.

`PumpInv` says that requests, the rest of a handler and what the pending events will
cause are paid for by connections, commands and refreshes so far (`PublishedAtMost`), and
that on a connection that is up a `Connected` comes behind each `Disconnected`
(`ConnectedIsLast`). Thus a full event queue holds commands only, or a `Connected` whose
`Greeting` is not yet published. TLC has checked `PumpInv` with the constants of `pump`,
which does not list it.

`CodecProofs` proves, for all frames of the program's types, keys, events, and for any
byte garbled in any way, as `CodecAssumption` admits them:

- `RoundTrips`, `GarbledRejected`, `EventsKept`: `RoundTrip`, `GarbledIsRejected`,
  `EventsKeepTheirText`, from `WireHolds`: `Spec => []CodecInv`.

`CodecInv` says what is on the wire: what was encoded, with at most one byte changed.
The argument is about the operators, and one lemma per operator says what it returns.
The step of the checksum's register loses neither its state nor the byte (`RegisterIs`):
the lowest bit of what it makes tells whether the polynomial was applied, since that has
its lowest bit set and the shift has left a zero there only the byte can change. So,
by induction over the bytes, registers that differ stay different under equal bytes, and
two bodies of equal length that differ in one covered byte have different checksums
(`OneByteTells`, `OtherChecksum`). The induction is over sets: the numbers up to which
the claim holds contain zero and each successor (`SetInduction`, from the well-foundedness
of the order). What is garbled is then an error by its place (`GarbledFrame`): in the
checksum, in a length that is too long, or in a byte that the checksum covers. For
encrypted frames, decryption inverts encryption block by block, the padding included
(`DecryptInverts`, `PaddingIs`), and leaves alone what is in front of the blocks
(`DecryptKeeps`). Of the cipher no more is used than that each block has an inverse;
AES itself is not modelled. Nothing is claimed of a wrong key or of bytes garbled in the
encrypted part, which only the strength of AES and 16 bits of checksum speak for.

The proof corrected `GarbledIsRejected`: it had no exception, and is false when the
garbled byte makes the payload length smaller (`ClaimsLess`). The frame is then cut at the
new length, several covered bytes change at once, and the checksum may be what it
was. The run's frames had none of this kind; one was found and is now among
them (`Chance`). A decoder that checked the payload length against the length of an
unencrypted frame would refuse it.

Only model-checked:

- All liveness (`CallsReturn`, `CloseFailsCallsAtOnce`, `SupersededEnds`,
  `DeadLinkIsDropped`, both `TopicsConverge`, `Reconnects`, `HandlersReturn`), which is out
  of the prover's reach.
- The three properties that the code violates.

## Not modelled

- The XML parser (a library) and AES (a library); texts: names, labels of zone types
  and of event codes, icons, the device block and unique ids of discovery configs.
- `config.rs` beyond mode labels and zone classes, `main.rs`: parsed once at
  start, no state that changes. Its parse errors end the program.
- The event topic, which is not retained: a message on it is published for every
  event while `mqtt_up`, and lost otherwise.
- Area commands in `Bridge` (they are in `AreaCommand`, with MQTT up), and the interplay
  of the bounded MQTT queues with the content of messages (`MqttPump` counts only).
- The handshake timeout in ticks: it applies to each read, so a connection that
  trickles bytes stays open; `PanelLink` has such connections (`StrayStopsNobody`).

## What is left

1. Proofs: every invariant and action property of the passing runs is proved; what is
   left is liveness.
2. `Bridge` with area commands.

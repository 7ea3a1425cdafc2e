# Specifications of the NexLink server

TLA+ models of the NexLink server (`src/server`), the configurations that
check them with TLC, and theorems about them that TLAPS proves. The server
keeps WebSocket connections to Android agents, tracks which devices are online,
runs automation on them, and lets browsers watch and control them. It is one
asyncio process with a database, started by `src/main.py` and
`src/server/core/lifecycle.py`.

Contents: [the system](#the-system), [modules](#modules),
[checks](#what-the-runs-check), [proofs](#what-is-proved),
[findings](#findings), [abstractions](#abstractions),
[not modelled](#not-modelled), [plan](#plan), [running it](#running-it).

## The system

All coroutines run in one thread, so a race is an interleaving of the code
between two `await`s. Four things are shared: the database, the registry of
agent connections, the event bus, and the agents, which answer when they like.

| Part | State | Operations | Talks to |
|---|---|---|---|
| Event bus `services/event_bus.py` | bounded queue, subscriptions, processor task | subscribe, publish (raises when full), dispatch, stop | everybody publishes; the scheduler is the only subscriber that is wired |
| Connection registry `ws/manager.py` | serial → socket | connect (replaces), disconnect (by identity), send (drops a dead socket) | gateway, scheduler, viewers, keep-alive |
| Agent gateway `ws/gateway.py` | one handler coroutine per socket | register, mark online, serve, clean up | registry, database, bus, dispatcher |
| Presence `api/v1/heartbeat.py`, `services/heartbeat_manager.py`, `services/ws_keepalive.py` | `devices.is_online`, `status`, `last_heartbeat_at` | heartbeat, periodic check, ping | database, bus, registry |
| Automation scheduler `services/automation_scheduler.py`, `api/v1/automation.py` | `automation_runs`, `_in_flight` | queue, cancel, dispatch, sweep, result, requeue at start | database, registry, bus |
| Screen viewers `ws/remote_gateway.py`, `ws/viewer_manager.py` | registry of viewers, a queue and a sender task each | join, start, stop, broadcast, leave | registry, dispatcher |
| Message dispatcher `ws/handlers.py` | none | one handler per message type | bus, viewers |
| Remote control `remote_control/` (no endpoint calls it) | locks with a time to live, statistics | acquire, steal, release, check, gesture | registry, bus, database |
| Streaming sessions `streaming/session_manager.py` (no endpoint calls it) | sessions, and their list per device | create, end, relay, device offline | registry, bus |
| Keys and tokens `api/v1/auth.py`, `api/v1/devices.py`, `core/security.py`, `api/deps.py` | the row of a device: hash of its key and tags in one JSON column | register (rotates), exchange, refresh, admit, patch | database |
| Screenshots `api/v1/screenshots.py` | a row and a file each | capture, upload, serve, list | database, disk, registry |
| Lists and records `api/v1/*` | rows: commands, logs, heartbeats, alerts, snapshots, runs, devices | insert, change, read page by page | database |
| Automation engine `automation/` (earlier design) | queue rows, device locks, timeout watchers | enqueue, allocate, dispatch, result, timeout, retry | database, registry, bus |
| Orchestration `orchestration/` (earlier design) | pairs, dependency graph, sessions, notifications | create and dissolve pairs; create, pause, resume, end sessions | database, bus |

The earlier designs import table classes that are no longer in `db/models`
(`db/models/pairing.py` among them), and nothing starts them; what their rows
are is taken from their use and from `src/alembic/versions`. The heartbeat event that the dispatcher publishes
(`heartbeat.received`) has no subscriber.

What is hard in this code, and what makes each part correct:

* **Scheduler.** Three tasks (tick, result handler, request) and the agents
  write the same run. A tick is one transaction around several sends, so an
  error takes back rows whose commands have gone out; an answer may come before
  the send returns, or before the commit. Correct when a device never has two
  running runs, every running run is watched by somebody, a command is not sent
  twice, an outcome stays, and a queued run of a connected device gets its turn.
* **Gateway and presence.** A device reconnects while the handler of its old
  socket is still running; both write the registry and the row. Five writers
  share the row. Correct when the registry holds the live socket and nothing
  evicts it while it is served, dead sockets go, the row says offline after the end, and a silent
  device does not stay online.
* **Event bus.** Callbacks publish, subscribe, raise and await while an event
  is dispatched, and stop cancels them. Correct when events are delivered in
  order, one at a time, to every subscriber, and accepted events are not lost.
* **Remote control.** A gesture checks the lock once and then awaits between
  its inputs; locks expire in three places. Correct when nobody but the holder,
  an administrator or time ends a lock, an abandoned lock lapses, and a user
  who keeps the lock is not disturbed.
* **Viewers.** A slow browser must not hold up the device, so frames are
  dropped; viewers come and go while commands to the agent are under way.
  Correct when a viewer's frames stay in order and end with the newest, a
  watched stream is not stopped, and an unwatched one does not go on.
* **Keys and tokens.** A registration rotates the key while a PATCH of the same
  JSON column is under way; tokens are signed and never revoked. Correct when a
  key that was replaced is not accepted again, and what it had been exchanged
  for lapses.
* **Screenshots.** The file and its row are stored one after the other, and the
  agent repeats uploads. Correct when an upload puts right what others, that
  overlapped or failed, have left.
* **Streams.** Creating and ending a session await a send; the device may go
  offline then. Correct when a device that is gone has no active session.
* **Lists.** Pages are cut by offset while rows are added and change. Correct
  when a reader who goes through the pages misses no row.
* **Gestures.** A click on a scaled, rotated picture with bars becomes a pixel,
  and that a fraction. Correct when it is the pixel that the user sees, and on
  the screen. Of a display on its side the code achieves that only if it is square
  (see [findings](#findings)).
* **Orchestration.** The graph in memory changes before its rows are committed;
  handlers and operators decide on sessions they have loaded before. Correct
  when the graph follows the rows, a session that lacks a device does not go on,
  and one whose devices are back does.
* **Automation engine.** Results, timeouts and disconnects of an old attempt
  meet a new one. Correct when retries stay within their budget, no execution is
  left running, and a device that is locked is going to be released. The last
  holds for an execution's first two attempts only (see [findings](#findings)).

`PROJECT.json` lists the hazards with their lines and the properties that would
catch each of them.

## Modules

| Module | Models | State and actions |
|---|---|---|
| `AutomationScheduler` | the scheduler, its API, and the agents | `pc` is the await the tick is at, `tx` what its transaction has written, `res` the result handler, `cancels` the cancel requests between check and write, `inFlight` the dictionary. `sent`, the commands of a run since the last start or rollback, is history. `Dispatch`, `Sweep`, `Result` and `Api` group the steps of the four coroutines; `Crash` and `Start` are the process. |
| `Gateway` | registry and connection handlers, with database and bus left open | `reg` is `_connections`, `stage` the await of each handler, `found` the socket it has read from the registry to close or to greet, `writing` the sockets that sends are writing to. A handler leaves its loop when the link is down (`LeaveLoop`) or on any other exception, with the link up (`LoopFails`). |
| `DeviceSlots` | the promise of the scheduler: devices that runs hold, and executions under way | implemented by `AutomationScheduler` with `holding <- Holding`, the committed running runs of each device. |
| `Presence` | extends `Gateway` with the row and its five writers | `hb` and `off` are the rows that heartbeat and deactivate requests have loaded, `mon` the monitor's transaction. Each action that is a handler's conjoins the action of `Gateway`. |
| `EventBus` | the bus | `queue`, `subs`, `proc`, and `tasks`, the callbacks that `asyncio.gather` runs. `taken`, `since` and `got` are history. |
| `OrderedDelivery` | the promise of the bus: a bounded log, a cursor, what was seen | implemented by `EventBus` with `log <- taken \o queue`, `cursor <- Len(taken)`. |
| `RemoteControl` | locks and gestures | `lock` holds the holder and the time since it was refreshed, `call` what each gesture does. `req` is history. |
| `Viewers` | handlers, senders and queues of the viewers of a device, with its agent | `stage`, `viewers`, `queue`, `sender`; the agent takes `commands` in order. `newest`, `shown` and `wants` are history. |
| `AutomationEngine` | queue, allocator, runner, recovery and loop of the earlier design | `sched` and `handler` are the two coroutines, `watchers` the timeout tasks, `tasks` and `locked` the dictionaries. |
| `Gestures` | the mapping of points, the gesture router and the scaling of its events | pure operators: `Map`, `Route`, `EventWidth`; fractions for the floats |
| `CoordinateMapper` | extends `Gestures` with the mapper that a control session keeps | `display`, `viewport`, and the `projection` computed from them; `UpdateDevice`, `UpdateViewport` |
| `DependencyGraph` | the graph of pairs | operators on its value: `AddEdge`, `RemoveEdge`, `GetAllRelated` (its queue and visited set are the state that a recursive function folds over), `Severity`; `Mirrored` and `Component` are what they owe |
| `Pairing` | extends `DependencyGraph` with the requests that change it and their transactions | `graph` in memory, `row` as committed, `call` what each request is between; `torn` is history |
| `Orchestration` | extends `Pairing` with sessions | `handler` is the one event handler that the bus runs, with the sessions it has loaded; `op` the operators' transactions; `sess` as committed. `meddled` is history |
| `Streams` | streaming sessions | `tracked` and `listed` are the two dictionaries, `sending` and `ending` the calls that await a send. `missed` is history |
| `Registration` | a device's key and metadata | `request` holds the row each request has loaded |
| `Tokens` | the tokens that one key gives, with a clock | `tokens` is what its holder has got; the server keeps none. `replacedAt` is history |
| `Screenshots` | row, file and uploads | `shot`, `file`, which may be broken, and `upload`. `newest` and `settled` are history |
| `Lists` | the paginated lists and what changes them | `table` in the order of its list, `walk` the reader, `...Shown` the filters. `standing` and `left` are history |
| `MC...` | the instances that TLC checks | model values and small sets |
| `..._proof` | theorems and proofs | |

`MCRecords` holds `Pairing`, `Streams`, `Registration`, `Tokens`, `Screenshots`,
`Lists` and `CoordinateMapper`. These share
no state, so each behaviour runs one of them.

`Presence` composes with `Gateway` by extension, and `Gateway` is proved to be
implemented by it. `EventBus` and the scheduler are checked apart: the scheduler
assumes of the bus exactly what `EventBus` is proved to give, that is, that its
events come in order and that its handler's calls do not overlap (`bus` is a
sequence, `res` is one handler). `Orchestration` assumes the same (`events`,
`handler`), and composes with `Pairing` by extension: its handlers read the graph
that requests are changing.

An action is what a coroutine does between two awaits. Where a call is made and
its result used without a suspension between, they are one action; where there
is an `await` that suspends (a statement, a send, a sleep, a commit) there are
two, and everybody else may act between them. `EventBus.publish` does not
suspend.

## What the runs check

Bounds are constants of the modules (`Max...`, sizes of sets) and are set in
the `.cfg` files.

| Run | Properties | Instance |
|---|---|---|
| `scheduler` | `TakesFreeDevices` (refinement), `RunningIsWatched`, `NotSentTwice`, `OutcomeStays` | two runs of one device, the later one more urgent, and one mishap: a database error, or a crash with or without an error at the start after it |
| `scheduler_live` | `QueuedIsDispatched` | the same runs, one crash, no errors, weak fairness |
| `presence` | `OpenIsRegistered`, `EndedIsOffline`, `LiveNotEvicted`, `DeadIsUnregistered`, `SilentGoesOffline` | one device that connects twice, with one error or one restart and two heartbeats, or with a deactivation and one of these |
| `presence_reconnect` | violates `ServedIsOnline` | the same without errors, restarts, heartbeats and deactivations |
| `event_bus` | `OneEventAtATime`, `SeesAll`, `AcceptedIsDispatched`, `DeliversInOrder` (refinement) | three events of two types, a typed and a wildcard subscriber, a queue of two |
| `remote_control` | `NotTakenByOthers`, `AbandonedLapses`, `Undisturbed` | two users, two gestures of up to two inputs, a time to live of two ticks |
| `viewers` | `EndsWithNewest`, `WantedStreams`, `GoneLeaves`, `UnwatchedStops` | two viewers, queues of one frame, two commands under way, one lost connection |
| `viewers_leak` | violates `RegisteredIsServed` | the same |
| `automation_engine` | `WithinBudget`, `LockIsWatched`, `RunningIsWatched` | one execution that may use two devices, with two retries and two mishaps (disconnects, errors, restarts, a timeout that is no number); or two executions, one device, and one retry and one mishap between them |
| `orchestration` | `ActiveIsWhole`, `Resumes` | two devices paired in both directions, one pair being dissolved and created, a session of both, one operator, one lost connection, one error or restart |
| `records` | `GraphFollowsRows`, `RelatedIsComponent`, `RoundTrip`, `OfflineEndsActive`, `ReplacedStaysOut`, `ReplacedKeyLapses`, `RowDescribesFile`, `WalkMissesNothing` | see below |
| `metadata_lost` | violates `PatchIsStored` | the same |

The runs `scheduler`, `presence`, `event_bus`, `remote_control`, `viewers` and
`automation_engine` also check their module's `TypeOK`; the other modules' types
are theorems.

*The parts of `records`.* Pairs: three rows, two requests, two mishaps, and
every start with active rows of two devices. The search: every graph that a
server may load from rows of three devices. Streams: three sessions of two devices, two
calls that end one, one lost connection. Keys: three keys, two tags, two
requests. Tokens: two requests, lives of one and two ticks, one tick for a
request. Screenshots: one, with two images and two uploads. Lists: every list
with every filter, three rows, pages of one. Clicks: displays of up to 3 by 3
pixels on views of up to 4 by 4, some of width zero, in every rotation, with and
without a status bar, turned and resized into each other in any order; a click on
the middle of each pixel whenever the display is upright, upside down or square.

*Why these bounds.* The rules of the scheduler are about pairs of
runs that want the same device, so two runs and one device are the smallest
instance in which every clause matters; a second device only adds independent
behaviour, except for the LIMIT (see [findings](#findings)). In the engine an
execution also meets its own old attempts: with one retry the old attempt is over
before the new one starts, with two a result of one may be stored after the next
has failed, and with a second device the two need not be on the same one. The
constraint `Small` divides the instance in two, as both halves at once are too
many states. Two connections are
needed for one to replace the other; a third one only repeats it, because a
handler remembers a single predecessor. Two viewers are needed for one to leave
while the other stays. Three events with a queue of two fill the queue while one
event is dispatched. Errors, restarts, disconnects and heartbeats are bounded at
one or two: enough for one to hit any step of any coroutine. In `scheduler` the
action constraint `OneMishap` leaves out a crash and an error in one behaviour,
unless the error hits the start after the crash; the theorems about it allow any
number of both. In `presence` the action constraint `Bounded` leaves out behaviours
with more than two of error, restart, heartbeat and deactivation, but for two
heartbeats with an error or a restart. It also says which of the two connections
is made first, for they are alike: a symmetry set would not be sound with liveness. It
cuts no step that fairness owes. In `records`, two requests of a kind are what it takes for one
to store what the other has made stale, and a third row or session is one that
neither is about. A graph of three devices has paths, cycles and separate
components; that the search is right on larger ones is a theorem. The clock of the tokens runs past the time after which the last of
them must have lapsed, for a key that is replaced at its start. Three rows and
pages of one make a walk of four reads, during which rows may come at any place
and leave. The displays and views of `RoundTrip` have sizes of one, and bars at
either side. Frame numbers above `MaxFrame` are one number, and ages above the
time to live one age, so these two bounds cut no behaviour.

*Conditional properties.* `RunningIsWatched` and `OutcomeStays`
of the scheduler are stated for behaviours without database errors, but for what
`OutcomeStays` says of cancelled runs: an error takes back what was
sent, or loses the entry that was popped, and the run then stays running until a
restart. `TakesFreeDevices`, and with it `OneRunningPerDevice`, holds with errors
and crashes, and so does `NotSentTwice`: it counts the commands of a run, answered
or not, and starts to count again where the code does, when the process starts or
a dispatch is rolled back. `EndedIsOffline` is about devices that never sent a
heartbeat, in behaviours without errors and restarts, `SilentGoesOffline` about
those that did: nothing corrects the row of a device without heartbeats after a
restart. `OpenIsRegistered` and `LiveNotEvicted` are about connections up to the
end of their message loop; after an exception the handler unregisters its own
socket, whose link is still up. `RoundTrip` passes over displays on their side
that are not square. `LockIsWatched` and
`RunningIsWatched` of the engine are stated without errors and restarts for the
same reason: an error after `allocate` leaks the lock, as does a configured timeout
that is no number, which leaves the execution running without a watcher; and after
a restart locks have no watcher. `LockIsWatched` is about executions that were retried at most
once, as the code leaks the lock of others.

`OfflineEndsActive` passes over sessions whose `create_session` awaits its send
while the device goes offline: they become active afterwards. `ActiveIsWhole` and
`Resumes` pass over sessions somebody meddled with: an operator paused one or
held a device back, two transactions on one overlapped, or its handler failed.
`GraphFollowsRows` passes over pairs whose row went back alone, after a failed
publish or commit. `WalkMissesNothing` passes over walks during which a row left the
list. `RowDescribesFile` says nothing of a screenshot whose last upload failed or
was overtaken by the row of an earlier one, until an upload puts it right.

*Deadlock* is checked except in the runs `viewers`, `viewers_leak`,
`automation_engine`, `records` and `metadata_lost`, where all connections,
viewers, executions, sessions or keys of the instance get used up, or a list has
been read, and nothing has to happen any more.

*Fairness* is weak, and assumed of what the process owes: asyncio gives every
ready task its turn, timers fire, an event handler that has begun goes on, time passes, statements and callbacks return,
and the process is started again after a crash. Agents, users and browsers owe
nothing, with one exception: in `Viewers`, `UnwatchedStops` is about an agent
that reconnects, obeys its commands and sends frames while it streams. Without
that the server has no means to stop it.

## What is proved

For every value of the constants that satisfies the modules' assumptions:

| Theorem | Says | Argument |
|---|---|---|
| `AutomationScheduler_proof!TypeCorrect` | `[]TypeOK` | inductive by itself |
| `AutomationScheduler_proof!OneRunning` | `[]OneRunningPerDevice` with any number of runs, devices, errors and crashes | see below |
| `AutomationScheduler_proof!SchedulerImplementsSlots` | `Spec => TakesFreeDevices`: the scheduler implements `DeviceSlots`, whatever fails | the commit of a tick is `Take`, a send `Order`, see below |
| `AutomationScheduler_proof!RunningWatched` | `[]RunningIsWatched` | from what is known of each run, see below |
| `AutomationScheduler_proof!SentOnceEach` | `[]NotSentTwice` | with `SentOnce`: a run that may be sent has not been sent since the last start or rollback |
| `AutomationScheduler_proof!OutcomesStay` | `OutcomeStays` | step by step, from the same invariant; for cancelled runs from types and phases alone, since it holds with errors too |
| `Presence_proof!RegistryKeepsOpen` | `GwSpec => []OpenIsRegistered` | inductive with the types: whoever unregisters a socket has found it dead, or has stopped to serve it |
| `Presence_proof!RegistryNotEvicted` | `GwSpec => LiveNotEvicted` | step by step, from the same invariant |
| `Presence_proof!PresenceImplementsGateway` | `Spec => GwSpec` | each action of `Presence` is one of `Gateway` or leaves its variables alone |
| `Presence_proof!TypeCorrect` | `[]TypeOK` | inductive by itself |
| `Presence_proof!EndedAreOffline` | `[]EndedIsOffline` | with `OnlineIsMarked`: who is online without a heartbeat has a handler that has marked it and will unmark it |
| `EventBus_proof!TypeCorrect` | `[]TypeOK`, the queue's bound included | part of the invariant below |
| `EventBus_proof!EventsDoNotOverlap` | `[]OneEventAtATime` | with `CallsAreNew`: a call that is due is of an event that matches and was not seen |
| `EventBus_proof!SubscribersSeeAll` | `[]SeesAll` | same invariant |
| `EventBus_proof!BusImplementsDelivery` | `Spec => DeliversInOrder` | `Take` is `Advance`, `Publish` is `Accept`, `Call` is `See`, the rest stutters |
| `AutomationEngine_proof!TypeCorrect` | `[]TypeOK`: no execution is retried beyond its budget | with what the two coroutines know of their execution |
| `AutomationEngine_proof!SendsArePaid` | `[]WithinBudget`, whatever fails | see below |
| `AutomationEngine_proof!RunningWatched` | `[]RunningIsWatched` | see below |
| `AutomationEngine_proof!LocksWatched` | `[]LockIsWatched` | see below |
| `RemoteControl_proof!TypeCorrect` | `[]TypeOK`: ages and inputs stay within their bounds | inductive by itself |
| `RemoteControl_proof!LocksAreKept` | `NotTakenByOthers` | by the steps that change a lock |
| `RemoteControl_proof!OthersRunDry` | while a user holds a device, what others have left to send there only shrinks, by every input they send | step by step; the variant behind `Undisturbed` |
| `Viewers_proof!TypeCorrect` | `[]TypeOK`: no queue outgrows its size | inductive with the bound of each queue |
| `Viewers_proof!SlowViewersCatchUp` | `[]EndsWithNewest` | the frames form a `Chain`, which `ChainPush`, `ChainGet` and `ChainSent` preserve |
| `Viewers_proof!StreamsGoOn` | `[]WantedStreams` | with `Starters`: who wants the stream is in its loop, over a connection that is up |
| `RemoteControl_proof!StepsOnScreen` | no step of any gesture lies off the display; the first input leaves at once | gesture by gesture, from `Clamped` |
| `RemoteControl_proof!ClicksHitPixels` | `HitsPixels` of every canvas and every display whose shape the mapper keeps (`KeepsShape`: not on its side, or square) | see below |
| `RemoteControl_proof!ResizedClicksHitPixels` | `MapperSpec => []RoundTrip` for such displays and canvases of any size, turned and resized in any order | from the former, with the invariant that the projection is of what is shown (`MapperInv`) |
| `RemoteControl_proof!DefaultEventsInUnit` | events are fractions on displays up to the default size | arithmetic |
| `Records_proof!ReplacedKeysStayOut` | `[]ReplacedStaysOut` with any number of requests | with: the key a registration brings is in no row, and no other request has it |
| `Records_proof!KeysLapse` | `[]ReplacedKeyLapses` for any lifetimes and delay | when the key was last stored bounds when a request began, and that when its tokens expire (`TokenInv`) |
| `Records_proof!RowsDescribeFiles` | `[]RowDescribesFile` | with: the image of the upload that wrote a file last is the one that is there |
| `Records_proof!OfflineDevicesEnd` | `[]OfflineEndsActive` | with: what is tracked is listed, and what is being sent is of a device that is there, to be handled or missed |
| `Records_proof!WalksMissNothing` | `[]WalkMissesNothing` for any rows, filters and page size | see below |
| `Records_proof!...Types` | types of tokens, screenshots, keys, streams and lists | parts of these invariants |
| `Orchestration_proof!GraphFollows` | `PairSpec => []GraphFollowsRows`, and types | see below |
| `Orchestration_proof!SearchIsRight` | `GetAllRelated` finds exactly the component of its device, in any graph whose indexes mirror each other | see below |
| `Orchestration_proof!RelatedAreConnected` | `PairSpec => []RelatedIsComponent`, for any number of devices | the graph is always mirrored, and `SearchIsRight` |
| `Orchestration_proof!SessionsFindRelated` | the same in `Orchestration`'s `Spec` | by `SessionsKeepGraph`'s invariant |
| `Orchestration_proof!PairedAreConcerned` | the severity of a disconnect is "none" for exactly the devices without pairs in the graph, so no other disconnect is passed over | every pair has two ends (`TwoEnded`), edges are finitely many (`FiniteEdges`), and a pair's other end is related by `SearchIsRight` |
| `Orchestration_proof!SessionsKeepGraph` | the same in `Orchestration`'s `Spec` | its steps are those of `Pairing`, or leave graph and rows alone |
| `Orchestration_proof!SessionsStayWhole` | `[]ActiveIsWhole` for any sessions, members, operators | see below |
| `Orchestration_proof!OrchTypes` | `[]TypeOK` | both invariants |

*The graph's invariant.* `AddEdgeKeeps` and `RemoveEdgeKeeps` say of the two
mutations that both indexes still hold exactly the edges of the pairs. What a
request knows of its pair between flush and commit (`CallInv`) decides what the
commit makes of it: a pair being created has no row yet and its key in the graph,
one being dissolved has a row and is gone from the graph; no two requests create
the same pair (`CreateInv`).

*The search.* `GetAllRelated` is a loop, and is written as a recursive function of
its state: the queue, what was visited and what was found. That such an equation
defines a function at all has to be proved. `LoopFunction` does it for every loop
whose steps lower a number, without induction: of the numbers for which it might
fail the least one is taken (`LeastNumber`, the library's well-founded minimum).
The search lowers the rank `Left`: what was not visited and what waits
(`VisitSteps`). By the same argument (`LeastLeft`) it finds everything that can
be reached from where it stands (`SearchFinds`) and nothing outside a set that is
closed under neighbours (`SearchFindsOnly`). What it has found in the end is such
a set, and the component is the smallest one, as an edge can be followed both ways
(`ClosedIsWhole`).

*The sessions' invariant.* A transaction that has loaded a session nobody meddled
with is alone on it, and what it has loaded is still what is committed (`OpInv`,
`HandlerInv`). Then what is stored is what was decided (`StoredIs`), and every
decision keeps an active session whole (`OutcomeIsWhole`, `RequestedIsWhole`).

*The scheduler's invariant.* `OneRunningPerDevice` speaks of committed rows. What
a tick may commit depends on what it read, so the invariant adds three parts:
`BusyIsCurrent` (no device becomes busy after `busy_serials` was read, because
only the tick sets a run running), `CurrentIsAlone` (the run being sent is of a
device that is neither busy nor done), and `WritesOne` (the transaction's running
runs are one a device, all of devices that were free). Then the commit of a
dispatch joins two sets of runs with no device in common. Everybody else can only
take runs out of `running` (`FewerRunning`).

*The slots of the devices.* In `DeviceSlots` a device is not released in the step in
which it is taken, and `OneRunningPerDevice` does not exclude that: the commit
of a tick also writes back to `queued` the runs whose send failed. `PutBackIsFree`
says that these, too, were of devices that were free, so that the commit ends no
run (`CommitTakes`). A send is an `Order` for a free device, since what was
committed when the tick began is still all that is running (`SendOrders`). Every
other step ends runs at most (`OnlyReleases`) or moves no slot.

*A run's life.* The other invariants of the scheduler are about one run, and so is
the invariant behind them (`Life`). A run that the loop has still to reach is
waiting and not in flight; what the transaction has marked is in flight or being
sent; the sweep only takes what was running; and a handler that has loaded an
outcome is late for a run that is over. The last is what keeps a late result from
being undone: a run is in flight and still queued only while its dispatch holds
its row (`QueuedUnwatched`), so that its result waits for the commit. All of it
fails with the first database error, hence `faults = 0` in front. What has been
sent is counted by an invariant of its own, with errors (`SentInv`): a run that the
tick may still send is waiting, and was not sent since it last began to count; one
that was sent is marked by the transaction, or was committed as running.

*The engine's invariants.* `Budget` counts: an execution has been sent at most
once more than it was retried, and while it waits for its next attempt, that one
is paid for and not yet made. It holds with errors and restarts. That running
executions are watched needs what a result handler may have loaded: an outcome
it has loaded cannot be undone, because only its own coroutine evaluates retries
(`LoadedIsOver`). The locks need three parts.
`LockPlace` says where an execution holds a device: the one in its row, or, as
long as it waits, the one just allocated. `LockWatch` is the claim itself, as it
is seen by one execution. `First` is about the first attempt, whose watcher, row
and handler agree on its device. Nothing like it holds of the second attempt, as
a late result of the first may replace its status, nor does `LockWatch` of the
third.

*A walk through a list.* What the reader is still owed is on the pages that it has
not read (`OwedIsAhead`), by the `Position` of a row among those that are shown. A
page that is read takes what it holds (`ReadKeeps`); a row that is added moves the
rows behind it back and none forward, wherever it is added (`AddedMovesBack`), and
neither does a change that takes no row out of the list (`RetaggedMovesBack`). The
last page is not full, so nothing is behind it. Positions are counted as
cardinalities, by injections from the old rows to the new, without induction.

*A click's way back.* `Seen` turns the picture, fits it with the sides it then has
and centres it, with the divisions of a renderer; `SeenTurned` shows that in the chosen unit they are exact.
`SeenNormalised` shows that the mapper takes the bars away again, in each of its
cases and where they meet, and `RotatedSeen` that its rotation undoes the turn.
What is left is half a pixel past the first edge of the pixel (`MiddleOfPixel`).

*Assumptions.* The theorems rest on the named assumptions of the modules
(`ConstantsAssumption`, `SocketAssumption`, `BoundsAssumption`,
`EventBusAssumption`, `EngineAssumption`, `RemoteControlAssumption`, `ViewersAssumption`,
`GraphAssumption`, `MapperAssumption`, `PairingAssumption`, `OrchestrationAssumption`,
`StreamsAssumption`, `RegistrationAssumption`, `TokensAssumption`,
`ScreenshotsAssumption`, `ListsAssumption`), which only
give the constants their types, exclude zero sizes, and say that devices and
pairs are finitely many. TLC evaluates each of them.

*Only model-checked.* The liveness properties, since the prover does not reason
about fairness with `ENABLED`: `QueuedIsDispatched`, `DeadIsUnregistered`,
`SilentGoesOffline`, `AcceptedIsDispatched`, `AbandonedLapses`, `Undisturbed`,
`GoneLeaves`, `UnwatchedStops` and `Resumes`. Of `Undisturbed` the safety half is
the theorem `OthersRunDry`; that a gesture goes on until it has nothing left takes
fairness. Every invariant and every action property of the runs that are expected
to pass is stated by a theorem.

## Findings

Each is a run that is expected to fail, with one property.

* `presence_reconnect`: a device that reconnects before its old handler has
  cleaned up is marked offline by it while it is connected
  (`ws/gateway.py:139`). The identity check covers the registry only.
* `viewers_leak`: a browser that closes before it is acknowledged stays in the
  registry, and its device is never told to stop (`ws/remote_gateway.py:103`).
* `metadata_lost`: a PATCH of the metadata reports what it does not store, since
  it changes the loaded dictionary in place (`api/v1/devices.py:122`).

Seen while modelling, and not made runs:

* The query for queued runs is limited before runs of unconnected devices are
  passed over (`services/automation_scheduler.py:120`), so ten of them keep all
  later runs of connected devices waiting. `QueuedIsDispatched` is checked with
  a limit that does not cut the list.
* `stop()` is documented to drain the queue, and cancels the processor instead
  (`services/event_bus.py:87-90`).
* The mapper turns a click but fits the picture with the sides of the unturned
  display (`remote_control/coordinate_mapper.py:166-190`), although the viewer sees
  it turned (15-18) with its aspect ratio preserved (162). On a display at 90 or 270
  degrees that is not square a click may be refused or land on another pixel.
* A message that is no JSON object ends an agent's connection
  (`ws/gateway.py:130`), as does a full bus under its handler.
* A result whose counts are no numbers loses its run: the entry is gone
  (`services/automation_scheduler.py:238`) and the run stays running, and its device
  busy, until a restart.
* An upload of a screenshot that is overtaken by an earlier one's row, or that fails
  after it has begun to write, leaves a row that does not describe the file
  (`api/v1/screenshots.py:127-144`) until the next upload.
* The rest of a gesture is injected after its user has lost the lock
  (`remote_control/manager.py:131`). Events are scaled by a fixed size (239), so
  on larger displays they are not fractions.
* The list of a device's logs hands its rows to the response under the name
  `items`, which the schema does not have (`api/v1/logs.py:122`): every request
  fails. In all lists the total is counted by an earlier statement.
* Two requests that resolve one alert both succeed, and the second overwrites who
  it was (`api/v1/alerts.py:104`).
* A capture of a device that is not connected is never sent later, although the
  log says so (`api/v1/screenshots.py:92`). Commands are recorded and never sent
  to their device.
* A PATCH of a row that had no metadata when it was loaded writes the whole
  column, and with it away a key that was stored meanwhile.
* A pair that was dissolved cannot be created again: the check looks for active
  pairs, the constraint does not.
* A session that a device's disconnect has paused is not resumed if nobody
  depends on the device. One that an operator paused is resumed when a device of it
  reconnects. A handler that loaded a session before it was completed may set it
  paused again.

In the earlier engine: the payload of
`automation.timeout` has no status, so a timeout is never evaluated for a retry
although `automation/recovery.py` says that it is retried; a timeout or a late
result releases its device whoever holds it by then, so that two executions are
marked running on one device; devices locked again after a restart have no
watcher. A device may also stay locked for good without any error: a result loaded
while one attempt runs is stored after that attempt has failed, and causes a
second retry, which clears the device of the row (`automation/queue.py:143`) while
a third attempt holds its lock; the result of that attempt cancels its watcher and
finds no device to release (`automation/runner.py:216`). TLC finds it when
`LockIsWatched` is asked of all executions, against `automation/runner.py:13`
("releases device"). Nothing starts this engine, and the premise `retries <= 1`
of `LockIsWatched` says where the promise ends, so it is not a run.

## Abstractions

* *Database.* PostgreSQL at READ COMMITTED, the default of the settings. A
  session writes the columns whose value differs from what it loaded, an UPDATE
  waits for the lock on its row, an error rolls back. With SQLite the
  subtraction of naive and aware times in the sweep and in cancel would raise;
  this is not modelled. The scheduler always finds a serial in its runs, as
  the API requires one.
* *Scheduler.* Counts, durations and reports are left out, but a count that is
  not a number raises after the entry was popped and is part of `ResultError`.
  A send to a replaced socket is a drop followed by a reconnect. The cancel
  endpoint finds the run by its id.
* *Presence.* A health score is `healthy` or `warning`; `critical` is no
  different. A full bus is one of the errors.
* *Event bus.* A pair of type and callback is subscribed once, as in the code.
  Statistics and logs are left out.
* *Remote control.* What an input is, and where on the screen, is left out; a
  gesture is a number of inputs. The two times to live in the code are the same
  by default.
* *Viewers.* A tap is forwarded and changes nothing here. The sentinel that ends
  a queue is never read, as the sender is cancelled before it is put there.
* *Stores.* A request that only writes what it has decided stores in one step
  with its commit, since its rows are locked until then and nobody sees them.
  Where the memory changes before the commit (`Pairing`), they are two steps.
* *Keys.* One serial number; other columns of the row are left out. A hash
  stands for its key.
* *Tokens.* `Delay` bounds the time between a request's SELECT and its token. The
  library accepts a token in the second it expires.
* *Screenshots.* Size and dimensions are the image's.
* *Lists.* A row has a serial number, which stands for every filter on a column
  that stays, and a tag, which stands for one that changes. No two rows have the
  same time.
* *Gestures.* Floats are exact fractions. Durations, and the contents of text and
  keys, are left out.
* *Graph.* Lists of edges are sets; their order is that of sends only.
* *Orchestration.* Broadcasts, messages to partners and labels are left out. An
  exception of a full bus is one of the errors.
* *Engine.* The methods of an execution are modelled from their use, as the
  class is gone. Test counts decide only whether a failure is worth a retry,
  which is left open. `automation.timeout` has no effect. The event of a lost
  connection carries the device's id, as the handlers of this design expect;
  today's gateway puts a serial number there, and they would ignore it.
* *External.* Agents, browsers and network connections are not code under
  `src/`; they are modelled by what the server lets them do.

## Not modelled

* Notifications and state broadcasts of the orchestration: they read what the
  others keep, send messages and store rows that nothing reads back.
* Relays of the streaming sessions: a message is forwarded and counted.
* Health scores: a sum with thresholds that nothing calls. The score of the
  heartbeat endpoint is the choice of a status in `Presence`.
* Health, APK and log-file endpoints: probes and a file; nothing acts on them.
* Reads of single rows, logs, schemas, settings, migrations, formatting of
  errors: no state that something else depends on.
* Earlier services (`auth_service`, `device_registry`, `session_manager`,
  `reconnect_manager`): nothing calls them, and what replaced them is modelled.
* Cryptography and hashing of keys and tokens.

## Plan

Done: every component that keeps state and that something starts or calls, and
the earlier designs of the engine and the orchestration, in the order of the
table of modules. Left:

1. An abstract specification of one live session per device, implemented by the
   registry and the streams together.
2. What a cancelled run is owed. `OutcomeStays` says what may overwrite a
   cancellation; no document of the code says which should win.
3. The safety halves of the other liveness properties, as `OthersRunDry` is that of
   `Undisturbed`: what is owed does not grow by any step.

The number of runs is kept small: a new question takes the place of one that a
theorem answers, or joins a run it shares nothing with.

## Running it

    tlc -workers 2 -config AutomationScheduler.cfg MCAutomationScheduler
    tlapm AutomationScheduler_proof.tla

`PROJECT.json` names module and configuration of every run, the mutation of the
model that each property catches, and the source lines of every definition.
With two workers `automation_engine` takes about three minutes, `presence`,
`scheduler`, `scheduler_live`, `viewers`, `orchestration` and `records` one to two
and a half, the others less.

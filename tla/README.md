# CommScope in TLA+

CommScope is a playground for communication protocols: one Go server that
speaks HTTP, short polling, long polling, SSE, WebSocket, WebRTC and gRPC, and
a React page with one adapter per protocol. This directory holds TLA+
specifications of it, TLC configurations that check them on small instances,
and proofs, checked by TLAPS, that hold for every instance. Paths below are
relative to the repository. `PROJECT.json` maps every definition to the lines
it models.

Run a check with `tlc -config ws_hub.cfg MCWSHub`, a proof with
`tlapm WSHubProofs.tla`.

## 1. The system

### Server components (Go)

| Component | State | Operations | Correct when |
|---|---|---|---|
| `ConnectionRegistry` (internal/registry) | map client_id -> entry (protocol, message count, times), one RWMutex | Add (replaces), Remove, RecordMessage (known ids only), Count, List | entries belong to the protocol that is using the id; counts count |
| `MessageStore` (handlers/polling.go) | slice of messages, one per polling-like protocol | Add, GetSince | a reader gets what was stored after its cursor |
| HTTP handler (handlers/http.go) | none of its own | send, stats | stats agree with the sends |
| Short polling (handlers/polling.go) | its store | send, messages, stats | a client that repeats "since" sees each message once |
| Long polling (handlers/longpolling.go) | its store; a set of listener channels of capacity 1 | send, messages (hangs), stats | a GET hangs only when there is nothing new; every request ends |
| SSE (handlers/sse.go) | its store; a set of listener channels of capacity 10 | send, events (endless), stats | a stream shows what was broadcast, or ends |
| WebSocket hub (handlers/websocket.go) | set of clients; channels register, unregister (no buffer), broadcast (256) and one Send (256) per client; three goroutines per client counting HandleConnect | connect, read pump, write pump, hub loop, send over HTTP, stats | no panic, no leak, members are sent every message in one order |
| `ProtocolTracker` (internal/metrics) | last 1000 latencies, times of the last 10 s | Record, Snapshot | percentiles and throughput of that window |
| WebRTC signaling (internal/webrtc) | maps peer -> connection and peer -> data channel | offer, data channel callbacks, stats | the maps hold the live connections |
| gRPC service (internal/grpc) | none of its own, three fixed client ids | unary, server, client and bidirectional streams | counts per protocol and stream |
| main (cmd/server) | the two servers | wiring, shutdown | open work ends or is told |

Handlers interact only through shared state: the registry and, per protocol, a
tracker, a store and a broadcaster. Each is behind a mutex, so what interleaves
is critical sections. The WebSocket part communicates over channels instead.

### Browser components (TypeScript)

| Component | State | Operations | Correct when |
|---|---|---|---|
| `WSAdapter` (protocols/ws.adapter.ts) | the socket, isConnected | connect, disconnect, sendDirect, callbacks of each socket; sendViaHTTP | the fields are about the socket that lives |
| `SSEAdapter` (sse.adapter.ts) | the EventSource | connect, disconnect, its callbacks; send | what is broadcast is shown once, in order |
| `WebRTCAdapter` (webrtc.adapter.ts) | the peer connection, the channel, isConnected | connect (three awaits), disconnect, sendDirectP2P, channel callbacks | connections are not mixed up, none is lost |
| `PollingAdapter` (pollingadapter.ts) | the timer, lastSeenTimestamp | startPolling, stopPolling, the timer; send | everything is shown, nothing is asked for twice |
| `HTTPAdapter`, `GRPCAdapter` | none | one request per call | one outcome is told per call |
| `EventBus` (domain/eventBus.ts) | the listeners | subscribe, emit | every listener gets every event |
| `EventLogConsole` (features) | the latest 100 events | add, clear | it shows the latest events in order |
| `PacketVisualizer` (features/playground) | particles, one animation loop | event, frame, change of props | particles move once a frame |
| `TelemetryGrid` (features) | the last stats of the selected protocol | ask each second | numbers do not go back |

Adapters turn user actions into requests and callbacks into events on the bus,
to which console and visualizer subscribe. At this commit `App.tsx` mounts the
protocol selector only; the other components are modelled as they are written,
under any use of their props and methods that their types allow. Here the hard
part is what happens while an `await` or a callback is outstanding.

### What is hard

- The hub, both pumps of every client, connects and posts run concurrently and
  wait for each other over channels; `Send` can be closed at two places.
- `writePump` counts the queued messages and then takes that many.
- Long polling looks at the store and subscribes under different locks.
- Broadcasting never blocks: a slow listener loses messages (long polling,
  SSE) or its membership (WebSocket).
- One registry serves all protocols, `Add` replaces entries, `Remove` in one
  handler hits entries of another.
- Timeouts, disconnects and failed writes can come at every point.
- In the browser, callbacks of an old socket, connection or effect come after a
  new one was made; timers do not wait for answers; listeners may throw.

`PROJECT.json` lists these as hazards, each at its line, with the properties
that cover it or the reason why none does.

## 2. Modules

| Module | Models | Kind |
|---|---|---|
| `Registry` | registry.go | operators on the map |
| `Filter` | the loops that keep some elements of a list | operator |
| `DataLemmas` | | facts about numbers, sums, sequences and the registry |
| `ListLemmas` | | facts about folds and `Filter` |
| `WSHub` | websocket.go | state machine |
| `WSHeartbeat` | pings and deadlines of websocket.go | state machine |
| `WSBroadcast` | what the hub promises | abstract specification |
| `MCWSHub` | | TLC instances |
| `WSHubProofs` | | types, membership, no panic, streams, refinement |
| `LongPoll` | longpolling.go, MessageStore of polling.go | state machine |
| `LongPollProofs` | | types, delivery |
| `SSE` | sse.go | state machine |
| `SSESession` | sse.adapter.ts on top of `SSE` | composition |
| `MCSSE` | | TLC instances |
| `SSEProofs` | | types, the feed of a stream, registry entries, the session |
| `Telemetry` | what http.go, polling.go, sse.go and internal/grpc do to registry and trackers, and their stats | state machine |
| `MCTelemetry` | | TLC instances |
| `TelemetryProofs` | | types, a recorded request stays visible, what is counted |
| `ProtocolTracker` | metrics.go | state machine |
| `ShortPolling` | polling.go with pollingadapter.ts | state machine |
| `WebRTC` | signaling.go with webrtc.adapter.ts | state machine |
| `WSAdapter` | ws.adapter.ts | state machine |
| `Calls` | the adapters' single requests, eventBus.ts, EventLogConsole.tsx | state machine |
| `TelemetryGrid` | TelemetryGrid.tsx, the selection in ProtocolSelector.tsx | state machine |
| `PacketVisualizer` | PacketVisualizer.tsx | state machine |
| `MCParts` | the eight modules that share no state | TLC instance |
| `ServerPartsProofs` | | `ShortPolling` and `ProtocolTracker` |
| `PartsProofs` | | the browser's modules, WebRTC, the heartbeat, `MCParts` |

`Registry` is extended by `WSHub`, `SSE`, `WebRTC` and `Telemetry`. `LongPoll`
models its own store, `SSE` the `Add` of its store. `Filter` serves `GetSince`,
`Array.filter` of the visualizer and `unsubscribe` of the event bus.

### Registry

A registry is a function from the ids in use to entries. Every method of
`ConnectionRegistry` holds `cr.mu` throughout, so a call is an operator applied
inside one action of the calling handler. `ConnectedAt` and `LastSeen` are left
out: no server code reads them.

### WSHub

State and code correspond one to one: `clients`, `broadcast`, `sendq`/`closed`
(a client's `Send`), `conn` (the socket), and one program counter per goroutine
(`hubPc`, `handler`, `rp`, `wp`, `ps`). A step is one channel operation, one
critical section, one registry or tracker call or one call of the WebSocket
library. The unbuffered channels `register` and `unregister` are joint steps of
the hub and a goroutine that waits in the send. Sends to a client and the
eviction of a slow one are separate steps of the range over `h.clients`, in any
order, as Go's map iteration is. `frame` is the WebSocket message that
`writePump` is composing, `batch` how many queued messages it still takes.
Read errors, write errors and failed pings can happen at any time once the
connection is lost or closed; a write may also fail on an open one. Deadlines
and the size limit are only causes of such failures (`WSHeartbeat` has the
deadlines). `delivered`, `hubLog` and
`joined` are history variables.

`WSBroadcast` is the promise: one log, and to each client a gapless run of it
from the point where the client subscribed, possibly cut short.

### WSHeartbeat

One connection on a clock: the ticker of `writePump` with its channel of one
tick, a write that may hang up to `writeWait`, pings that wait for their pongs,
and the read deadline that only the pong handler moves. A goroutine that can go
on does so before time passes; a hanging write, the hub and the client take the
time they take.

### LongPoll

A POST and its message are one value; a GET owns one channel, `ch`, with room
for one message. `store`, `listeners` and `created` are the data of
`MessageStore`, `LongPollBroadcaster` and `Message.CreatedAt`. `Broadcast`
holds the read lock while it visits `todo`, so `Subscribe` and `Unsubscribe`
(in `GetReturn`) need `WriteLock`. The timeout, a disconnect and a message
compete in the select. The clock `now` gives `CreatedAt` at the start of the
POST, which is not when the message is stored. `old` and `raced` are history
variables: what the store held when a GET began, and what was broadcast between
its `GetSince` and its `Subscribe`.

### SSE

A POST and its message are one value; a stream is one GET with its own channel
`ch`. `Broadcast` holds the read lock while it visits `todo`, as in `LongPoll`.
A stream's loop is `select`, `write`, `record` and back: a message is taken
(`hand`), written and flushed (`shown`), then counted. Its deferred calls run
last in, first out, `Remove` before `Unsubscribe`, so a stream can still be sent
messages after its registry entry is gone. A client may leave at any step, but
the handler notices in the select only, where a waiting message competes with
the end. Streams and POSTs take `client_id` from one set, so they share registry
entries; a stream without one uses an id of its own. `heard`, `full` and `prior`
are history variables: the listeners that a broadcast found, those of them whose
channel was full when it came to them, and the POSTs that were answered before a
POST began.

### SSESession

The browser's `EventSource` in front of `SSE`. Streams that it asks for are its
own (`asked`), the one it reads is `current`, and a stream that it loses or
closes lives on at the server until the handler notices. It reconnects by
itself, at any time, with a new request; it reads what was flushed (`read` of
`shown`), and `onopen` comes with the first flush, as the handler flushes no
headers. `last` is history: the message that the `EventSource` has shown last.
Every step of the browser is a stutter or a step of the client in
`SSE`; `SessionIsSSE` proves that.

### Telemetry

All handlers share one registry, so the question is what they do to each other
there. They run the same few operations (`Add`, `Record`, `Track`, `Reply`,
`Remove`), each one critical section, in different orders. A handler is a table
that sends each operation to the next: `HTTPSend.add` is `"record"` because
`HandleSend` calls `RecordMessage` after `Add`. A stream waits at `"serve"`
until a message arrives or it ends. gRPC streams use one fixed `client_id` per
method, as in the code. `HandleStats` reads `Count` and `List` in two steps;
`HTTPStats`, `PollingStats`, `SSEStats` and `GetStats` say whose messages each
sums. `tracked` counts calls of a tracker's `Record`; `received` is history.

### ProtocolTracker

`Record` and `Snapshot` hold the mutex throughout, so each is one step, with the
sliding window of latencies, the pruned list of times and the percentile indices
computed as in the code. `Sorted` is what a sort may return: the rearrangements
of the window that ascend, of which there is one. `Record` reads the clock
twice. The history `recorded` keeps every message, and the properties compute
percentiles and throughput from it, without window or pruning.

### ShortPolling

The store, concurrent POSTs, and the polling adapter of the browser: a timer
that does not wait for answers, so polls overlap, fail and come back after
polling was stopped and started again. `lastSeen` is in whole milliseconds,
`CreatedAt` is finer: `Milli` is the ratio. The answer handler tests
`Array.isArray` on an object, so it never moves the cursor (`PollAnswer`).

### WebRTC

A call of `connect` and the connection, channel and offer that it makes are one
value. `connect` goes from one `await` to the next in one step (`step` says at
which it is) and uses `this.pc` as it is by then, so `disconnect` and other
calls come in between. The handler's steps are its critical sections and its
calls of pion: `StoreConnection`, `RegisterPeer`, `ApplyOffer`, `CreateAnswer`,
`SendAnswer`, and `RefuseOffer` for each error return between them. The
callbacks of a data channel record, track and echo. `Others` are offers that do
not come from this adapter. Four history variables keep what the properties
depend on: `overlap`, the calls of `connect` that were at an await together;
`replaced`, the connections that a `connect` found in `this.pc`; `superseded`,
the offers whose stored connection another one took the place of; and `newest`,
the offer that made a peer's entry. The libraries are external: `carried` says which
descriptions had candidates when their text was taken, and `CanOpen` that a
channel opens only if one end knows a candidate of the other.

### WSAdapter

Several sockets, of which `this.socket` is one at most. Each has its state
(`ready`) and the promise that its `connect` returned. `OnError` and `OnClose`
of a failed socket run in one task, between which only reactions to the promise
run (`TaskMayStart`, `CodeMayRun`). `overlapped` remembers the sockets that lived
together with another one; `odd` which socket a message came from that was not
`this.socket`, or was given a frame that it could not send.

### Calls

Every single request of an adapter follows one scheme: tell, fetch, read the
body, tell. A table per kind of call (`HTTPSend`, `SSESend`, ..., `BidiSend`)
says in what it differs: whether it throws on, and whether its body is a stream.
An error status still has a body, and what is not JSON fails in `BodyIsRead`.
`sameOrigin` is the deployment: behind one proxy (TRD:27) or, as in development,
on two ports, where no response to these calls is readable for want of CORS
headers. `Emit` runs all listeners in one step, also those after one that throws,
and each but the console may unsubscribe itself when it is called. The console's
updates are queued (`updates`) until React renders.

### TelemetryGrid

An effect per selected protocol asks at once and each second; requests are
numbered as sent and answered in any order. A snapshot is the protocol and its
count. The protocols in `Silent` have no stats route. Counts of all protocols
are one number that grows, which is all that the order of two answers needs.

### PacketVisualizer

Particles in a ref, each counting how often it was moved; one animation loop per
effect. A change of props runs the cleanup and a new effect, as does React's
StrictMode. `loop` is the effect that is mounted, `scheduled` the frames that
are requested.

### MCParts

`WSAdapter`, `WebRTC`, `Calls`, `TelemetryGrid`, `PacketVisualizer`,
`ShortPolling`, `ProtocolTracker` and `WSHeartbeat` share no variable, so
interleaving them adds states and no behaviour. One run checks them all: `part`
is chosen initially and only that one moves. A violation in any of them is a
violation of the run. `WebRTC` is taken twice, as its two halves are large: as
`"webrtc"` with the adapter and the offers of one other client, over which no
channel opens, and as `"signaling"` with all other clients and no adapter.

## 3. Runs

| Run | Instance | Checks |
|---|---|---|
| `ws_hub` | 2 clients, 1 poster, 2 messages, capacities 1 | `TypeOK`, `SendTargetsOpen`, `NoGhostMember`, `DrainNeverStalls`, `MembersMissNothing`, `ImplementsBroadcast` |
| `ws_live` | 1 client, 1 poster, 2 messages, fair | `NoGoroutineLeak`, `NobodyBlocksForever`, `StayingMemberGetsAll` |
| `longpoll` | 2 POSTs, 1 GET, clock up to 2, fair | `TypeOK`, `OnlyTheWindowLoses`, `ListenersAreOpen`, `HeardIsStored`, `EveryRequestEnds` |
| `longpoll_wakeup` | 1 POST, 1 GET | `NoLostWakeup` fails |
| `sse` | 2 POSTs, 2 streams of the browser or of others, 1 id, capacity 1 | `SessionTypeOK`, `NoRepeats`, `EntriesHaveOwners`, `NoEarlyLoss`, `ShownOnceInOrder` |
| `sse_live` | 2 POSTs, 1 stream, capacity 1, fair | `SequentialPostsInOrder`, `StreamsAndPostsEnd`, `BroadcastIsShown`, `NoStreamLeaks` |
| `sse_tracked` | 1 POST, 2 streams | `LiveStreamsTracked` fails |
| `sse_resumes` | 2 POSTs, 2 streams, capacity 2 | `ReconnectionsResume` fails |
| `telemetry` | 3 calls of any handler, 1 client id, streams of up to 2 messages | `TypeOK`, `DoneIsVisible`, `NothingInvented`, `EveryMessageTracked` |
| `polling_repeats` | 1 POST, 2 polls | `PollsBringNews` fails |
| `parts` | see below | `PartsTypeOK`, `FieldsMirrorSocket`, `PromiseSettled`, `ConnectsKeepApart`, `PeersAreServed`, `CallsAreToldOnce`, `ConsoleShowsLatest`, `ShownGoesForward`, `AnimationRuns`, `SessionMissesNothing`, `AnswersExtend`, `SnapshotExact`, `SilentIsLate` |
| `webrtc_connects` | 1 call of connect, fair | `AnsweredConnects` fails |

Bounds. With capacities of 1 a buffer is full after one message, so eviction,
blocked senders and a full long-poll channel happen with two messages. Two
clients are needed for one client's eviction or loss in the middle of a fan-out
to the other; for the liveness properties one is enough, as its readPump and a
poster already compete for the full `broadcast`. Two POSTs fill a GET's channel
and race each other. A stream's channel of one is overfilled by two POSTs while
the stream is busy, and still lets two messages follow each other, one in hand
and one in the channel: so `sse_live` has both a message that is lost and two
that must be shown in order. A third POST, which could be shown after a loss, is
left to the theorems on `NoEarlyLoss` and the order: with it the liveness run
would not end. Two streams share the one id or use their own, and are two
connections of a browser that reconnects (run `sse` does not tell states apart
by the store's order, the tracker and `last`, on which no step depends). Two clock
values (plus the zero time) order `CreatedAt` and `since` in every way that two
messages can be. Three calls are the least for a stats call, or a stream, to
come between the steps of two others; two messages in a stream are the least
for the second to find its entry replaced.

Bounds of `parts`, by module:

- `WSAdapter`: three sockets, so that a lost one, the one that `connect`
  overlapped and the one after `disconnect` live at once.
- `WebRTC`: with the adapter, two calls of `connect` and an offer of another
  client, one id that they share or do not: an answer that meets the other call's
  connection, and an offer that replaces the stored connection of a call. Without
  it, two other clients and two messages per channel: a peer that offers again
  while callbacks of its first connection record.
- `Calls`: two calls, of a kind that throws on, one that does not and one that
  streams; a console of two rows beside a visualizer that throws and may
  unsubscribe itself: three events overfill it.
- `TelemetryGrid`: three protocols, one silent, and three requests: an answer of
  an old effect, and two of the current one that overtake each other.
- `PacketVisualizer`: a particle lives for `Moves` = 3 ticks (the code's step of
  0.04 makes 25), four events, three effects, seven ticks: particles of several
  ages, born before and after a change of props, arrive.
- `ShortPolling`: three polls let one be answered late, in a second session,
  while two others overlap in it; with two clock values per millisecond a
  message and the cursor share a millisecond or do not.
- `ProtocolTracker`: four records overfill a window of three, and a clock of
  four runs past the period of two twice.
- `WSHeartbeat`: `PongWait`, `PingPeriod` and `WriteWait` of 10, 9 and 2 have
  the order and nearly the proportions of 60, 54 and 10; 30 ticks see three
  periods.

Messages, requests, calls and clients are used once (constants named `Max...`
bound the rest), and this alone makes behaviours finite: hence
`CHECK_DEADLOCK FALSE`, as a behaviour ends when all payloads are sent and all
requests answered. That no process is stuck before is what the liveness
properties say.

What the failing runs show:

- `longpoll_wakeup`: a message stored and broadcast between `GetSince` (line
  178) and `Subscribe` (line 183) leaves the GET hanging with the message in
  the store, where TRD:75 says it returns immediately. `OnlyTheWindowLoses`
  shows that this window is the only way to miss a message.
- `sse_tracked`: the deferred `Remove` (sse.go:176) of one stream deletes the
  entry of another live stream with the same `client_id`, as after a reconnect
  that overlaps the old stream; TRD:64 says that connections are tracked one by
  one.
- `sse_resumes`: events carry no id and `HandleEvents` reads no `Last-Event-ID`
  (sse.go:188), so a browser that reconnects is never given what was posted
  between its streams; TRD:77 says that the header is supported.
- `polling_repeats`: the adapter moves its cursor only if the answer is an array
  (pollingadapter.ts:91), but the server answers with an object. Every poll of a
  session returns everything since its start; PRD:52 describes polling as asking
  what is new.
- `webrtc_connects`: both sides send their description before they have gathered
  candidates, and nothing sends candidates later, so a `connect` that got its
  answer stays unconnected; PRD:60 has a connection established via signaling.

Seen in the code while modelling, with no run of their own:

- A message sent over a WebSocket is published without being recorded
  (websocket.go:123). The SSE and HTTP stats count the entries of every protocol
  as active connections (sse.go:208, against PRD:70).
- websocket.go:92 says that the deadline waits for "Pong/other read activity";
  only pongs extend it (line 110). TRD:79 has a ping each 30 seconds, e.g.; the
  code sends one each 54.
- `Shutdown` (main.go:148) does not close upgraded WebSockets and the gRPC
  server; TRD:66 says that all registry-tracked connections are closed cleanly.
- A GET that hangs can be woken with a message that its client already has, as a
  message is readable one step before it is broadcast (longpolling.go:114).
- `HandleSend` calls `Add` (http.go:56) before every `RecordMessage`, and `Add`
  replaces the entry, so a client's count is 1 after any number of requests that
  follow one another; registry.go:8 says that the entry keeps how many messages
  were sent, and PRD:34 asks for accurate counts. `NothingInvented` bounds counts
  from above only, for this reason.
- `send` of the SSE and polling adapters posts a field `message` where the
  server reads `text`. The routes under `/api/grpc` that the gRPC adapter calls
  do not exist. Only `/health` and the SSE events send CORS headers, so a page
  served from another port can read no other response; TRD:27 has one proxy in
  front of both.
- A socket that a second `connect` has replaced cannot be closed any more
  (ws.adapter.ts:14), against TRD:105; `FieldsMirrorSocket` says which sockets
  this can happen to. Likewise a connection of the WebRTC adapter that another
  `connect` has found in `this.pc` (webrtc.adapter.ts:12); `ConnectsKeepApart`
  says that there is no other way to lose one.
- An answer of the stats that is overtaken takes the grid back to older numbers
  (TelemetryGrid.tsx:19); `ShownGoesForward` says when.
- After an answer that is no event stream, `SSEAdapter.connect` does nothing
  until `disconnect` is called (sse.adapter.ts:65). Event ids are made of the
  time in milliseconds, so two events can share one (http.adapter.ts:12).
  Particles pile up while the page is hidden, as only frames remove them
  (PacketVisualizer.tsx:36).

## 4. Fairness

`WSHub!FairSpec`: goroutines that can take a local step do (weak fairness).
Channel operations where several goroutines compete are strongly fair: Go's
select chooses uniformly among ready cases and goroutines blocked on a channel
are served first come, first served. A write returns within `writeWait`, either
way. Nothing obliges a client to connect, send, disconnect or miss a ping, nor
a poster to post.

`LongPoll!FairSpec`: handlers continue, and a GET's select always has its
timeout (weak fairness). `Subscribe` and `Unsubscribe` are strongly fair, as
`sync.RWMutex` admits no new reader while a writer waits. Ticks, new requests
and disconnects are not fair.

`SSE!FairSpec`: handlers continue. A stream's select chooses uniformly, so if
the client is gone it is noticed even while messages keep coming (strong
fairness of both cases); `Unsubscribe` waits for the lock as above. A write to a
client returns, successful or not; requests and disconnects are not fair.

`SSESession!SessionFairSpec`: the same for every stream that the browser asks
for, and the browser reads what has arrived and learns that a response has
begun. It need not reconnect, and a connection may break at any time, but the
server does find out that a stream is gone.

`WebRTC!RTCFairSpec`: awaits end, handlers run, and a channel that can open
does. No program, user or peer is obliged to anything. `AnsweredConnects` fails
under it, so not for want of fairness.

## 5. Proofs

Every safety invariant and action property that a passing run checks is also a
theorem, and so are the two refinements; liveness is not. All theorems hold for
every value of the constants. They assume only what the modules assume of them:
capacities, windows and periods are positive, bounds are natural numbers, `Nil`
is not a client, message, id or number, identifiers of different kinds differ,
and the calls of `Telemetry` and the offers of `WebRTC`, over which sums are
taken, are finitely many. The
invariants that the runs list, and the parts of those that are conjunctions,
were checked by TLC before they were proved, `PollInv` and `TrackerInv` too.

- `WSHubProofs`. `TypeCorrect` is inductive as stated. `HubNeverPanics` and
  `NoGhosts` follow from `MembershipInv`, which says for each client which
  combinations of program counters, membership and `closed` can occur: the two
  properties alone do not say why an evicted client's late unregister finds it
  gone. `StreamInv` says that what a client's `Send` has carried (`delivered`,
  `frame`, `sendq`) is a run of `hubLog` from `joined`, complete while it is a
  member. It gives `NothingMissed`, and `HubImplementsBroadcast`: an insertion
  maps to `Subscribe`, a `ReceiveBroadcast` to `Publish`, a flush to `Deliver`,
  all other steps stutter. `DrainComplete` has an invariant of its own.
- `LongPollProofs`. `Delivery` joins `AnswersAllStored` and the invariants that
  are checked with what makes them inductive: a message is stored exactly after
  its store step; only a POST in `Broadcast` has listeners to visit; channels
  and answers are empty before they are filled; and a GET about to subscribe
  has missed only messages that raced it or are not yet broadcast.
- `SSEProofs`. `EntriesHaveOwners` is inductive as stated. `Feed` joins the
  three invariants about what a channel has carried (`shown`, `hand`, `ch`) with
  the control facts they need: nothing is in hand outside a write; nobody is
  heard before `Broadcast`; a stream still to be visited has not been given the
  message, and one that was visited without being given it is in `full`; and the
  POSTs in `prior` stay done. A stream's steps leave `Carried` as it is, and
  `BroadcastSend` appends at most one new message. For the browser,
  `SessionIsSSE` carries these over, and `SessionInv` adds that a message which
  the browser was shown is one that it has read from its current stream, or one
  that this stream was not sent, as were none of the POSTs before it
  (`GotBefore`): so no reconnection repeats or swaps messages
  (`SessionShowsOnceInOrder`).
- `TelemetryProofs`. `DoneIsVisible` is not inductive: another request of the
  client replaces the entry just before its own `RecordMessage`, which does
  nothing if there is no entry. `Visibility` adds that a request about to
  record finds an entry (`RecordsFindEntry`), unless a stream uses its id, and
  where each call can stand in its handler's table (`Control`). `Tables` and
  `RequestTables` are the facts about the tables; everything else is about the
  operations. `Books` is for what is counted. It credits each call with what it
  has received, less the message it is about to record or track: an entry counts
  at most the credits of the calls that use its id, a tracker exactly those of
  its handlers, and a report was summed over such entries. As `Add` forgets
  counts and one step moves one message from "about to" to "done", the books
  stay balanced step by step, and `NothingIsInvented` and
  `EveryMessageIsTracked` are what they say once nobody is about to do anything.
- `ServerPartsProofs`. `PollInv`: the polls of the session that runs all ask
  since its beginning, in whole milliseconds, and what one was answered is the
  front of what the store would answer now (`GetSince` of a longer store begins
  with that of a shorter one). So answers extend each other, whatever overtakes
  what. `TrackerInv` says of both lists which records they stand for: the window
  has the latest ones (`Latest`), and the times are a suffix of all of them, such
  that those before it are too old (`Recent`); as time does not go back, pruning
  at one reading of the clock throws nothing away that a later one would count.
  `IndicesArePercentiles` is about the arithmetic of the indices for windows of
  every size, `SortedSplits` about what stands below and above one in a sorted
  window.
- `PartsProofs`, one section per module. `GridInv`: requests are numbered as
  effects follow one another, and what is shown answers one of them. `CallsInv`:
  what was told of a call follows its program counter. `ConsoleInv`: the rows
  with all queued updates applied are the latest events, newest first; a render
  applies a front of the queue, which leaves this as it is, and an emit adds one
  update and one event. `VisInv`: the particles are the ages of the events of
  the last `Moves` ticks, so to move them all and drop those that arrived is to
  let a tick pass (`MovedOnce`). `WSInv`: two sockets that live at once are both
  in `overlapped`, and unless one that overlapped is still to be called back,
  one socket at most is not over and the fields are about it. `HeartbeatInv`: a
  tick that is to come, or one that has no pong, is due the margin before the
  read deadline, which holds although ticks are dropped and pings wait behind
  messages. `RTCInv`: what each await has in hand, and that a call which finds
  another's connection there was at an await together with that call
  (`AwaitsMix`); which offers were handled; and that a peer's count is at most
  the sum of what the callbacks of all its connections have recorded, and at
  least what those of the newest one have. `OneLoop` is inductive. `PartsRun`
  shows that `MCParts`, the instance TLC runs, implements the specification of
  each part, and `PartsTypeCorrect` puts the types together.
- `DataLemmas` and `ListLemmas` hold what these share. Inductions over data are
  proved there by the least counterexample (`NatLeast`), with the set of the
  numbers for which a fact holds in place of a predicate (`PartsInduction`,
  `UpToInduction`, `AppendInduction`): that is how sums over a set and folds over
  a sequence are reasoned about. For a fold the function that its definition
  chooses is first shown to exist (`FoldExists`).

The models are written so that the provers can follow them: filters are folds
(`Kept`), as `SelectSeq` is recursive, and a sorted list is a member of `Sorted`
rather than the result of `SortSeq`.

Only model-checked: `EveryRequestEnds`, `NoGoroutineLeak`, `NobodyBlocksForever`,
`StayingMemberGetsAll`, `StreamsAndPostsEnd`, `BroadcastIsShown` and
`NoStreamLeaks`, which are liveness under fairness and rest on ENABLED, beyond
the prover; and the runs that fail, which are counterexamples.

## 6. What could follow

- A run of `Shutdown` against open GETs and streams, if the server comes to
  close its connections itself: today there is nothing of its own to check.
- `WSAdapter` on top of `WSHub`, to say what a page makes of frames that carry
  several messages (ws.adapter.ts:43 parses a frame as one value).
- An abstract specification of a list that polls read, which `ShortPolling` and
  `LongPoll` would both implement.

## 7. Not modelled

Rendering, styling, log texts and JSON layout; refused requests (wrong method or
body), which change nothing; the stats handlers of WebSocket, long polling and
WebRTC, which only read what is modelled; generated protobuf code; the
WebSocket, WebRTC, EventSource and gRPC libraries, of which only success,
failure and the order of calls appear; ids that collide, of messages made in the
same nanosecond or events in the same millisecond; the capacity of memory.
Requests without a `client_id` share the handler's default id, which is one more
member of `ClientIDs`.

`Shutdown` (main.go) is one call of net/http and then the end of the process:
what it waits for is that library's contract, and no state of the server is read
afterwards. Of `App.tsx` and `main.tsx` there is the selection of a protocol; the
one other variable is set once, from the answer to `/health`. The waiting flag of
`PacketVisualizer` is left out, as no adapter emits the event that sets it, and
so are `EventBus.clear`, which nothing calls, and the system events of
`startBidiStream`, which keep no state.

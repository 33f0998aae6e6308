----------------------------- MODULE Telemetry -----------------------------
(***************************************************************************)
(* What the handlers do to the one ConnectionRegistry and to their         *)
(* trackers, and what the stats handlers read there: HTTP, short polling,  *)
(* the four gRPC methods and SSE streams.  Stores and channels are in      *)
(* modules ShortPolling and SSE.                                           *)
(*                                                                         *)
(* The handlers differ in the order of the same few operations.  A handler *)
(* is therefore a table that sends each operation to the one that follows  *)
(* it: "serve" is the wait of a stream's loop, which a message or the end  *)
(* of the stream leaves.  Every operation is one critical section.         *)
(***************************************************************************)
EXTENDS Naturals, FiniteSets, Functions, Registry

CONSTANTS
  Calls,        \* calls of the handlers
  ClientIDs,    \* values of client_id
  Served,       \* names of the handlers that are called
  MaxMessages,  \* bound: messages that a stream carries
  Nil           \* no handler and no id yet

ASSUME MaxAssumption == MaxMessages \in Nat
ASSUME CallsAssumption == IsFiniteSet(Calls)

-----------------------------------------------------------------------------
(* The handlers                                                            *)

\* Mutant: RecordMessage is left out.
HTTPSendUnrecorded ==
  [protocol |-> "http", tracker |-> "http", call |-> "add",
   add |-> "track", track |-> "done"]

\* HandleSend of the HTTP handler.
HTTPSend ==
  [protocol |-> "http", tracker |-> "http", call |-> "add",
   add |-> "record", record |-> "track", track |-> "done"]

\* HandleSend of the polling handler, and HandleGetMessage with a client_id.
PollingSend ==
  [protocol |-> "polling", tracker |-> "polling", call |-> "add",
   add |-> "record", record |-> "track", track |-> "done"]

\* HandleGetMessage without a client_id: a poll of the browser's adapter.
PollingGet ==
  [protocol |-> "polling", tracker |-> "polling", call |-> "track", track |-> "done"]

\* SendMessage, the unary method.
SendMessage ==
  [protocol |-> "grpc-unary", tracker |-> "grpc-unary", call |-> "add",
   add |-> "record", record |-> "track", track |-> "done"]

\* HandleEvents of the SSE handler.
SSEEvents ==
  [protocol |-> "sse", tracker |-> "sse", call |-> "add",
   add |-> "serve", message |-> "record", record |-> "track", track |-> "serve",
   end |-> "remove", remove |-> "done"]

\* Mutant: the tracker is left out.
StreamMessagesUntracked ==
  [protocol |-> "grpc-server-streaming", tracker |-> "grpc-unary",
   id |-> "grpc-server-stream-client", call |-> "add",
   add |-> "serve", message |-> "record", record |-> "serve", end |-> "done"]

\* StreamMessages sends one message a second and records it last.
StreamMessages ==
  [protocol |-> "grpc-server-streaming", tracker |-> "grpc-unary",
   id |-> "grpc-server-stream-client", call |-> "add",
   add |-> "serve", message |-> "track", track |-> "record", record |-> "serve",
   end |-> "done"]

\* SendBatchMessages receives until the client has finished.
SendBatchMessages ==
  [protocol |-> "grpcs-client-streaming", tracker |-> "grpc-unary",
   id |-> "grpc-client-stream-client", call |-> "add",
   add |-> "serve", message |-> "record", record |-> "track", track |-> "serve",
   end |-> "done"]

\* ChatStream replies to each message before it tracks it.
ChatStream ==
  [protocol |-> "grpc-bidi-streaming", tracker |-> "grpc-unary",
   id |-> "grpc-bidi-stream-client", call |-> "add",
   add |-> "serve", message |-> "record", record |-> "reply", reply |-> "track",
   track |-> "serve", end |-> "done"]

Handlers ==
  [httpSend |-> HTTPSend, pollingSend |-> PollingSend, pollingGet |-> PollingGet,
   sendMessage |-> SendMessage, sseEvents |-> SSEEvents,
   streamMessages |-> StreamMessages, sendBatchMessages |-> SendBatchMessages,
   chatStream |-> ChatStream]

Requests == {"httpSend", "pollingSend", "pollingGet", "sendMessage"}
Streams == {"sseEvents", "streamMessages", "sendBatchMessages", "chatStream"}

Protocols == { Handlers[k].protocol : k \in Requests \cup Streams }
Trackers == {"http", "polling", "grpc-unary", "sse"}

\* Streams of gRPC have one id each for all their clients.
FixedIDs == { Handlers[k].id : k \in Streams \ {"sseEvents"} }
IDsOf(k) ==
  CASE k \in Streams \ {"sseEvents"} -> {Handlers[k].id}
    [] k = "pollingGet" -> {Nil}
    [] OTHER -> ClientIDs
IDs == (UNION { IDsOf(k) : k \in Requests \cup Streams }) \ {Nil}

\* The clients whose messages the stats handlers add up, by protocol.
HTTPStats == Protocols
PollingStats == {"polling"}
SSEStats == {"sse"}
GetStats == {"grpc-unary"}

Summed ==
  [httpStats |-> HTTPStats, pollingStats |-> PollingStats, sseStats |-> SSEStats,
   getStats |-> GetStats]
StatsHandlers == DOMAIN Summed

ASSUME NilAssumption ==
  Nil \notin ClientIDs \cup FixedIDs \cup Requests \cup Streams \cup StatsHandlers

VARIABLES
  pc,        \* the operation a call is at: idle, one of the tables', done,
             \* failed (the reply could not be sent), count or list
  kind,      \* name of its handler
  id,        \* client id that it uses
  registry,  \* the shared ConnectionRegistry
  tracked,   \* number of Record calls on each tracker
  report,    \* what a stats call has read: active connections and messages
  received   \* history: messages that a call has handled or is handling

vars == <<pc, kind, id, registry, tracked, report, received>>

Init ==
  /\ pc = [c \in Calls |-> "idle"]
  /\ kind = [c \in Calls |-> Nil]
  /\ id = [c \in Calls |-> Nil]
  /\ registry = NewConnectionRegistry
  /\ tracked = [t \in Trackers |-> 0]
  /\ report = [c \in Calls |-> [active |-> 0, messages |-> 0]]
  /\ received = [c \in Calls |-> 0]

-----------------------------------------------------------------------------
(* Operations                                                              *)

\* The call executes op and goes where its handler's table says.
Goto(c, op) ==
  /\ pc[c] = op
  /\ pc' = [pc EXCEPT ![c] = Handlers[kind[c]][op]]

\* A request brings its one message along.
Call(c, k, i) ==
  /\ pc[c] = "idle"
  /\ pc' = [pc EXCEPT ![c] = Handlers[k].call]
  /\ kind' = [kind EXCEPT ![c] = k]
  /\ id' = [id EXCEPT ![c] = i]
  /\ received' = [received EXCEPT ![c] = IF k \in Requests THEN 1 ELSE 0]
  /\ UNCHANGED <<registry, tracked, report>>

\* Mutant: the arguments are swapped.
AddSwapped(c) ==
  /\ Goto(c, "add")
  /\ registry' = AddClient(registry, Handlers[kind[c]].protocol, id[c])
  /\ UNCHANGED <<kind, id, tracked, report, received>>

Add(c) ==
  /\ Goto(c, "add")
  /\ registry' = AddClient(registry, id[c], Handlers[kind[c]].protocol)
  /\ UNCHANGED <<kind, id, tracked, report, received>>

\* A message arrives at a stream, or its ticker fires and Send succeeds.
Message(c) ==
  /\ pc[c] = "serve"
  /\ received[c] < MaxMessages
  /\ pc' = [pc EXCEPT ![c] = Handlers[kind[c]].message]
  /\ received' = [received EXCEPT ![c] = @ + 1]
  /\ UNCHANGED <<kind, id, registry, tracked, report>>

\* Mutant: a message is counted when it arrives and when it is answered.
RecordTwice(c) ==
  /\ Goto(c, "record")
  /\ registry' = RecordMessageOf(RecordMessageOf(registry, id[c]), id[c])
  /\ UNCHANGED <<kind, id, tracked, report, received>>

Record(c) ==
  /\ Goto(c, "record")
  /\ registry' = RecordMessageOf(registry, id[c])
  /\ UNCHANGED <<kind, id, tracked, report, received>>

Track(c) ==
  /\ Goto(c, "track")
  /\ tracked' = [tracked EXCEPT ![Handlers[kind[c]].tracker] = @ + 1]
  /\ UNCHANGED <<kind, id, registry, report, received>>

Reply(c) ==
  /\ Goto(c, "reply")
  /\ UNCHANGED <<kind, id, registry, tracked, report, received>>

\* stream.Send returns an error: the method returns, the message untracked.
ReplyFails(c) ==
  /\ pc[c] = "reply"
  /\ pc' = [pc EXCEPT ![c] = "failed"]
  /\ UNCHANGED <<kind, id, registry, tracked, report, received>>

\* The client is gone, has finished, or Recv or the ticker's Send fails.
End(c) ==
  /\ pc[c] = "serve"
  /\ pc' = [pc EXCEPT ![c] = Handlers[kind[c]].end]
  /\ UNCHANGED <<kind, id, registry, tracked, report, received>>

Remove(c) ==
  /\ Goto(c, "remove")
  /\ registry' = RemoveClient(registry, id[c])
  /\ UNCHANGED <<kind, id, tracked, report, received>>

AskStats(c, k) ==
  /\ pc[c] = "idle"
  /\ pc' = [pc EXCEPT ![c] = "count"]
  /\ kind' = [kind EXCEPT ![c] = k]
  /\ UNCHANGED <<id, registry, tracked, report, received>>

StatsCount(c) ==
  /\ pc[c] = "count"
  /\ pc' = [pc EXCEPT ![c] = "list"]
  /\ report' = [report EXCEPT ![c].active = CountClients(registry)]
  /\ UNCHANGED <<kind, id, registry, tracked, received>>

StatsList(c) ==
  /\ pc[c] = "list"
  /\ pc' = [pc EXCEPT ![c] = "done"]
  /\ report' = [report EXCEPT ![c].messages = TotalMessages(registry, Summed[kind[c]])]
  /\ UNCHANGED <<kind, id, registry, tracked, received>>

-----------------------------------------------------------------------------
Step(c) ==
  \/ Add(c) \/ Message(c) \/ Record(c) \/ Track(c) \/ Reply(c) \/ ReplyFails(c)
  \/ End(c) \/ Remove(c) \/ StatsCount(c) \/ StatsList(c)

Next ==
  \E c \in Calls :
    \/ Step(c)
    \/ \E k \in Served \cap (Requests \cup Streams) : \E i \in IDsOf(k) : Call(c, k, i)
    \/ \E k \in Served \cap StatsHandlers : AskStats(c, k)

Spec == Init /\ [][Next]_vars

-----------------------------------------------------------------------------
(* Properties                                                              *)

Pcs ==
  {"idle", "add", "serve", "record", "reply", "track", "remove", "count", "list",
   "done", "failed"}

\* Every call is at an operation that its handler has.
Control ==
  /\ pc \in [Calls -> Pcs]
  /\ kind \in [Calls -> Requests \cup Streams \cup StatsHandlers \cup {Nil}]
  /\ id \in [Calls -> IDs \cup {Nil}]
  /\ \A c \in Calls :
       /\ pc[c] = "idle" <=> kind[c] = Nil
       /\ kind[c] \in StatsHandlers => pc[c] \in {"count", "list", "done"}
       /\ kind[c] \in Requests \cup Streams =>
            /\ id[c] \in IDsOf(kind[c])
            /\ \/ pc[c] \in DOMAIN Handlers[kind[c]]
               \/ pc[c] \in {"done", "failed"}
               \/ pc[c] = "serve" /\ kind[c] \in Streams

\* Types; entries have the protocols and ids of the handlers.
TypeOK ==
  /\ Control
  /\ IsRegistry(registry, IDs, Protocols)
  /\ tracked \in [Trackers -> Nat]
  /\ report \in [Calls -> [active : Nat, messages : Nat]]
  /\ received \in [Calls -> Nat]

Using(i) == { c \in Calls : id[c] = i }
ReceivedBy(S) == SumFunctionOnSet(received, S)

\* A request that was recorded stays visible: its client's entry counts at least
\* one message, or another request of this client has replaced the entry and is
\* about to record.  Only a stream with the same client id can spoil that, whose
\* Add and Remove leave a count of zero or nothing.
DoneIsVisible ==
  \A c \in Calls :
    kind[c] \in Requests \ {"pollingGet"} /\ pc[c] \in {"track", "done"} =>
      \/ id[c] \in DOMAIN registry /\ registry[id[c]].messageCount > 0
      \/ \E d \in Using(id[c]) \ {c} :
           \/ kind[d] \in Requests /\ pc[d] = "record"
           \/ kind[d] \in Streams /\ pc[d] # "add"

\* No entry counts more than was received under its id: neither a restart of the
\* count nor handlers that record for each other's entry invent messages.
CountsAreHandled ==
  \A i \in DOMAIN registry : registry[i].messageCount <= ReceivedBy(Using(i))

\* A call that has received a message and not put it on its tracker.  A reply
\* that cannot be sent leaves it so for good.
TrackDue(c) ==
  \/ pc[c] \in {"track", "reply", "failed"}
  \/ pc[c] = "record" /\ kind[c] # "streamMessages"
  \/ pc[c] = "add" /\ kind[c] \in Requests

\* Each tracker has recorded every message of its handlers exactly once, apart
\* from those under way and those whose reply failed.
EveryMessageTracked ==
  \A t \in Trackers :
    LET mine == { c \in Calls : kind[c] \in Requests \cup Streams
                                 /\ Handlers[kind[c]].tracker = t }
    IN  tracked[t] + Cardinality({ c \in mine : TrackDue(c) }) = ReceivedBy(mine)

\* Count and List are read under two locks while other handlers run; even so a
\* report shows no more messages than were received and no more connections
\* than there are ids in use.
ReportsAreHandled ==
  \A c \in Calls :
    /\ report[c].messages <= ReceivedBy(Calls)
    /\ report[c].active <= Cardinality({ id[d] : d \in Calls } \ {Nil})

\* Both: neither the registry nor a report invents messages.
NothingInvented == CountsAreHandled /\ ReportsAreHandled
=============================================================================

-------------------------- MODULE TelemetryProofs --------------------------
(***************************************************************************)
(* Theorems about Telemetry, for any number of calls, any client ids, any  *)
(* choice of handlers that are called and streams of any length.           *)
(***************************************************************************)
EXTENDS Telemetry, DataLemmas

-----------------------------------------------------------------------------
(* The handlers' tables                                                    *)

Kinds == Requests \cup Streams
Ops == {"add", "record", "reply", "track", "remove"}

\* An operation leads to one that the handler has, to the wait or to the end.
Leads(k, op) ==
  /\ op \in Pcs \ {"idle", "failed", "count", "list"}
  /\ \/ op = "done"
     \/ op \in DOMAIN Handlers[k]
     \/ op = "serve" /\ k \in Streams

LEMMA Tables ==
  \A k \in Kinds :
    /\ Handlers[k].protocol \in Protocols
    /\ Leads(k, Handlers[k].call)
    /\ \A op \in Ops \cap DOMAIN Handlers[k] :
         Leads(k, Handlers[k][op]) /\ Handlers[k][op] # "add"
    /\ k \in Streams =>
         /\ Leads(k, Handlers[k].message) /\ Handlers[k].message # "add"
         /\ Leads(k, Handlers[k].end) /\ Handlers[k].end # "add"
<1> USE DEF Handlers, Requests, Streams, Protocols, Leads, Pcs, Ops
<1>1. TAKE k \in Kinds
<1>2. CASE k = "httpSend"
  BY <1>2 DEF HTTPSend
<1>3. CASE k = "pollingSend"
  BY <1>3 DEF PollingSend
<1>4. CASE k = "pollingGet"
  BY <1>4 DEF PollingGet
<1>5. CASE k = "sendMessage"
  BY <1>5 DEF SendMessage
<1>6. CASE k = "sseEvents"
  BY <1>6 DEF SSEEvents
<1>7. CASE k = "streamMessages"
  BY <1>7 DEF StreamMessages
<1>8. CASE k = "sendBatchMessages"
  BY <1>8 DEF SendBatchMessages
<1>9. CASE k = "chatStream"
  BY <1>9 DEF ChatStream
<1> HIDE DEF Handlers, Protocols, Leads
<1> QED BY <1>2, <1>3, <1>4, <1>5, <1>6, <1>7, <1>8, <1>9 DEF Kinds

\* A call begins by adding its entry, unless it has no client_id.
LEMMA CallsStart ==
  \A k \in Kinds :
    \/ Handlers[k].call = "add"
    \/ k = "pollingGet" /\ Handlers[k].call = "track"
BY DEF Kinds, Requests, Streams, Handlers, HTTPSend, PollingSend, PollingGet,
       SendMessage, SSEEvents, StreamMessages, SendBatchMessages, ChatStream

\* A request that has an entry is added, recorded and tracked, in this order;
\* only streams wait, reply or remove their entry.
LEMMA RequestTables ==
  \A k \in Requests :
    /\ k # "pollingGet" =>
         /\ DOMAIN Handlers[k] = {"protocol", "tracker", "call", "add", "record", "track"}
         /\ Handlers[k].call = "add"
         /\ Handlers[k].add = "record"
         /\ Handlers[k].record = "track"
         /\ Handlers[k].track = "done"
    /\ k = "pollingGet" =>
         /\ DOMAIN Handlers[k] = {"protocol", "tracker", "call", "track"}
         /\ Handlers[k].call = "track"
         /\ Handlers[k].track = "done"
BY DEF Requests, Handlers, HTTPSend, PollingSend, PollingGet, SendMessage

-----------------------------------------------------------------------------
(* Control and the registry's type                                         *)

Inv == Control /\ IsRegistry(registry, IDs, Protocols)

LEMMA InvInit == Init => Inv
BY NilAssumption
DEF Init, Inv, Control, Pcs, Requests, Streams, StatsHandlers, Summed,
    IsRegistry, NewConnectionRegistry, Entry

\* The names of handlers, of stats handlers and Nil differ.
LEMMA KindNames == \A k \in Kinds : k \notin StatsHandlers /\ k # Nil
BY NilAssumption DEF Kinds, Requests, Streams, StatsHandlers, Summed

\* Where a call stands that is at an operation op.
LEMMA AtOp ==
  ASSUME Control, NEW c \in Calls, NEW op \in Ops, pc[c] = op
  PROVE  kind[c] \in Kinds /\ op \in DOMAIN Handlers[kind[c]]
BY DEF Control, Kinds, Ops, Pcs, Requests, Streams

\* A step of a call to an operation of its handler keeps Control.
LEMMA GotoControl ==
  ASSUME Control, NEW c \in Calls, NEW to, kind[c] \in Kinds, Leads(kind[c], to),
         pc[c] # "idle", pc' = [pc EXCEPT ![c] = to], UNCHANGED <<kind, id>>
  PROVE  Control'
<1>1. kind[c] \notin StatsHandlers /\ kind[c] # Nil
  BY KindNames
<1>2. pc' \in [Calls -> Pcs]
  BY DEF Control, Leads
<1>3. ASSUME NEW d \in Calls, d # c PROVE pc'[d] = pc[d]
  BY <1>3 DEF Control
<1>4. pc'[c] = to /\ to # "idle"
  BY DEF Control, Leads
<1> QED BY <1>1, <1>2, <1>3, <1>4 DEF Control, Leads, Kinds

LEMMA OpControl ==
  ASSUME Control, NEW c \in Calls, NEW op \in Ops, Goto(c, op), UNCHANGED <<kind, id>>
  PROVE  Control'
<1>1. kind[c] \in Kinds /\ op \in DOMAIN Handlers[kind[c]]
  BY AtOp DEF Goto
<1>2. Leads(kind[c], Handlers[kind[c]][op])
  BY <1>1, Tables
<1> QED BY <1>1, <1>2, GotoControl DEF Goto, Ops

LEMMA ServeControl ==
  ASSUME Control, NEW c \in Calls, Message(c) \/ End(c)
  PROVE  Control'
<1>1. kind[c] \in Streams /\ kind[c] \in Kinds
  BY DEF Message, End, Control, Kinds, Streams, Requests, Handlers, HTTPSend,
         PollingSend, PollingGet, SendMessage
<1>2. Leads(kind[c], Handlers[kind[c]].message) /\ Leads(kind[c], Handlers[kind[c]].end)
  BY <1>1, Tables
<1> QED BY <1>1, <1>2, GotoControl DEF Message, End

LEMMA CallControl ==
  ASSUME Control, NEW c \in Calls, NEW k \in Kinds, NEW i \in IDsOf(k), Call(c, k, i)
  PROVE  Control'
<1>1. Leads(k, Handlers[k].call)
  BY Tables
<1>2. k # Nil /\ k \notin StatsHandlers
  BY KindNames
<1>3. i \in IDs \cup {Nil}
  BY DEF IDs, Kinds
<1>4. pc' \in [Calls -> Pcs] /\ kind' \in [Calls -> Kinds \cup StatsHandlers \cup {Nil}]
  BY <1>1 DEF Call, Control, Leads, Kinds
<1>5. ASSUME NEW d \in Calls, d # c
      PROVE  pc'[d] = pc[d] /\ kind'[d] = kind[d] /\ id'[d] = id[d]
  BY <1>5 DEF Call, Control
<1>6. pc'[c] = Handlers[k].call /\ kind'[c] = k /\ id'[c] = i
  BY DEF Call, Control
<1> QED BY <1>1, <1>2, <1>3, <1>4, <1>5, <1>6 DEF Call, Control, Leads, Kinds

LEMMA InvStep ==
  ASSUME Inv, NEW c \in Calls, Step(c)
  PROVE  Inv'
<1> USE DEF Inv
<1>1. CASE Add(c)
  <2>1. kind[c] \in Kinds /\ pc[c] = "add" /\ "add" \in DOMAIN Handlers[kind[c]]
    BY <1>1, AtOp DEF Add, Goto, Ops
  <2>2. id[c] \in IDs /\ Handlers[kind[c]].protocol \in Protocols
    <3>1. id[c] \in IDsOf(kind[c])
      BY <2>1 DEF Control, Kinds
    <3>2. kind[c] # "pollingGet"
      BY <2>1 DEF Handlers, PollingGet
    <3>3. id[c] # Nil
      BY <3>1, <3>2, NilAssumption DEF IDsOf, FixedIDs
    <3> QED BY <2>1, <3>1, <3>3, Tables DEF IDs, Kinds
  <2>3. Control'
    BY <1>1, OpControl DEF Add, Ops
  <2>4. IsRegistry(registry', IDs, Protocols)
    BY <1>1, <2>2, AddClientType DEF Add
  <2> QED BY <2>3, <2>4
<1>2. CASE Message(c)
  BY <1>2, ServeControl DEF Message
<1>3. CASE Record(c)
  <2>1. Control'
    BY <1>3, OpControl DEF Record, Ops
  <2>2. IsRegistry(registry', IDs, Protocols)
    BY <1>3, RecordMessageType DEF Record
  <2> QED BY <2>1, <2>2
<1>4. CASE Track(c)
  BY <1>4, OpControl DEF Track, Ops
<1>5. CASE Reply(c)
  BY <1>5, OpControl DEF Reply, Ops
<1>6. CASE ReplyFails(c)
  <2>1. kind[c] \in Kinds
    BY <1>6, AtOp DEF ReplyFails, Ops
  <2>2. kind[c] \notin StatsHandlers /\ kind[c] # Nil
    BY <2>1, KindNames
  <2> QED BY <1>6, <2>1, <2>2 DEF ReplyFails, Control, Kinds, Pcs
<1>7. CASE End(c)
  BY <1>7, ServeControl DEF End
<1>8. CASE Remove(c)
  <2>1. Control'
    BY <1>8, OpControl DEF Remove, Ops
  <2>2. IsRegistry(registry', IDs, Protocols)
    BY <1>8, RemoveClientType DEF Remove
  <2> QED BY <2>1, <2>2
<1>9. CASE StatsCount(c) \/ StatsList(c)
  <2>1. kind[c] \notin Kinds /\ kind[c] # Nil
    BY <1>9, KindNames
       DEF StatsCount, StatsList, Control, Kinds, Requests, Streams, Handlers, HTTPSend,
           PollingSend, PollingGet, SendMessage, SSEEvents, StreamMessages,
           SendBatchMessages, ChatStream
  <2> QED BY <1>9, <2>1 DEF StatsCount, StatsList, Control, Kinds, Pcs
<1> QED BY <1>1, <1>2, <1>3, <1>4, <1>5, <1>6, <1>7, <1>8, <1>9 DEF Step

LEMMA InvNext == Inv /\ [Next]_vars => Inv'
<1> SUFFICES ASSUME Inv, [Next]_vars PROVE Inv'
  OBVIOUS
<1> USE DEF Inv
<1>1. CASE UNCHANGED vars
  BY <1>1 DEF vars, Control
<1>2. ASSUME NEW c \in Calls, Step(c) PROVE Inv'
  BY <1>2, InvStep
<1>3. ASSUME NEW c \in Calls, NEW k \in Served \cap Kinds, NEW i \in IDsOf(k),
             Call(c, k, i)
      PROVE  Inv'
  BY <1>3, CallControl DEF Call
<1>4. ASSUME NEW c \in Calls, NEW k \in Served \cap StatsHandlers, AskStats(c, k)
      PROVE  Inv'
  BY <1>4, KindNames, NilAssumption DEF AskStats, Control, Kinds, Pcs
<1> QED BY <1>1, <1>2, <1>3, <1>4 DEF Next, Kinds

-----------------------------------------------------------------------------
(* Answered requests are visible.  A request that has added its entry and  *)
(* is about to record finds it: only a stream with its id can have removed *)
(* it, and such a stream has been added itself.                            *)

\* A stream has added an entry under this id, and perhaps removed it.
StreamUses(i) ==
  \E d \in Calls : id[d] = i /\ kind[d] \in Streams /\ pc[d] # "add"

RecordsFindEntry ==
  \A c \in Calls :
    kind[c] \in Requests /\ pc[c] = "record" =>
      id[c] \in DOMAIN registry \/ StreamUses(id[c])

\* DoneIsVisible, request by request.
Seen(c) ==
  \/ id[c] \in DOMAIN registry /\ registry[id[c]].messageCount > 0
  \/ \E d \in Calls : id[d] = id[c] /\ kind[d] \in Requests /\ pc[d] = "record"
  \/ StreamUses(id[c])

AnsweredSeen ==
  \A c \in Calls :
    kind[c] \in Requests \ {"pollingGet"} /\ pc[c] \in {"track", "done"} => Seen(c)

Visibility == Inv /\ RecordsFindEntry /\ AnsweredSeen

LEMMA VisibilityInit == Init => Visibility
BY InvInit, NilAssumption
DEF Init, Visibility, RecordsFindEntry, AnsweredSeen, Requests

\* What every step of a call leaves alone.
LEMMA StepFrame ==
  ASSUME Inv, NEW c \in Calls, Step(c)
  PROVE  /\ UNCHANGED <<kind, id>>
         /\ pc'[c] # "add"
         /\ \A d \in Calls \ {c} : pc'[d] = pc[d]
<1>1. UNCHANGED <<kind, id>>
  BY DEF Step, Add, Message, Record, Track, Reply, ReplyFails, End, Remove, StatsCount,
         StatsList
<1>2. \A d \in Calls \ {c} : pc'[d] = pc[d]
  BY DEF Inv, Control, Step, Goto, Add, Message, Record, Track, Reply, ReplyFails, End,
         Remove, StatsCount, StatsList
<1>3. ASSUME NEW op \in Ops, Goto(c, op) PROVE pc'[c] # "add"
  BY <1>3, AtOp, Tables DEF Inv, Control, Goto, Ops
<1>4. CASE Message(c) \/ End(c)
  <2>1. kind[c] \in Streams
    BY <1>4, RequestTables DEF Inv, Control, Message, End
  <2> QED BY <1>4, <2>1, Tables DEF Message, End, Inv, Control, Kinds
<1>5. CASE ReplyFails(c) \/ StatsCount(c) \/ StatsList(c)
  BY <1>5 DEF ReplyFails, StatsCount, StatsList, Inv, Control
<1> QED BY <1>1, <1>2, <1>3, <1>4, <1>5
        DEF Step, Add, Record, Track, Reply, Remove, Ops

\* Where a request stands, and where a step takes it.
LEMMA RequestStep ==
  ASSUME Inv, NEW c \in Calls, kind[c] \in Requests, Step(c)
  PROVE  \/ Add(c) /\ pc'[c] = "record"
         \/ Record(c) /\ pc[c] = "record" /\ pc'[c] = "track"
         \/ Track(c) /\ pc[c] = "track" /\ pc'[c] = "done"
<1>1. kind[c] # Nil /\ kind[c] \notin StatsHandlers /\ kind[c] \in Kinds
  BY KindNames DEF Kinds
<1>2. pc[c] \in {"add", "record", "track", "done", "failed"}
  BY <1>1, RequestTables DEF Inv, Control, Kinds, Pcs, Requests, Streams
<1>3. CASE Add(c)
  BY <1>1, <1>3, AtOp, RequestTables DEF Add, Goto, Inv, Control, Ops
<1>4. CASE Record(c)
  BY <1>1, <1>4, AtOp, RequestTables DEF Record, Goto, Inv, Control, Ops
<1>5. CASE Track(c)
  BY <1>1, <1>5, RequestTables DEF Track, Goto, Inv, Control
<1> QED BY <1>2, <1>3, <1>4, <1>5
        DEF Step, Message, Reply, ReplyFails, End, Remove, StatsCount, StatsList, Goto

\* Once a stream uses an id it always has.
LEMMA StreamUsesStays ==
  ASSUME Inv, NEW c \in Calls, Step(c), NEW d \in Calls, StreamUses(id[d])
  PROVE  StreamUses(id[d])'
BY StepFrame DEF StreamUses

LEMMA RemoveUses ==
  ASSUME Inv, NEW c \in Calls, Remove(c)
  PROVE  \A d \in Calls : id[d] = id[c] => StreamUses(id[d])'
<1>1. kind[c] \in Kinds /\ "remove" \in DOMAIN Handlers[kind[c]]
  BY AtOp DEF Inv, Remove, Goto, Ops
<1>2. kind[c] \in Streams
  BY <1>1, RequestTables DEF Kinds
<1> QED BY <1>2, StepFrame DEF Step, StreamUses

\* Of the steps of a call, Add, Record and Remove change the registry.
LEMMA RegistryFrame ==
  ASSUME NEW c \in Calls, Step(c), ~Add(c), ~Record(c), ~Remove(c)
  PROVE  registry' = registry
BY DEF Step, Message, Track, Reply, ReplyFails, End, StatsCount, StatsList

LEMMA RecordsFindEntryStep ==
  ASSUME Inv, RecordsFindEntry, NEW c \in Calls, Step(c)
  PROVE  RecordsFindEntry'
<1> SUFFICES ASSUME NEW d \in Calls, kind'[d] \in Requests, pc'[d] = "record"
             PROVE  (id[d] \in DOMAIN registry)' \/ StreamUses(id[d])'
  BY DEF RecordsFindEntry
<1>1. kind' = kind /\ id' = id /\ (d # c => pc'[d] = pc[d])
  BY StepFrame
<1>2. CASE Add(c) /\ d = c
  BY <1>1, <1>2 DEF Add, AddClient
<1>3. CASE ~(Add(c) /\ d = c)
  <2>1. id[d] \in DOMAIN registry \/ StreamUses(id[d])
    BY <1>1, <1>3, RequestStep DEF RecordsFindEntry
  <2>2. StreamUses(id[d]) => StreamUses(id[d])'
    BY StreamUsesStays
  <2>3. CASE Remove(c)
    <3>1. CASE id[c] = id[d]
      BY <1>1, <2>3, <3>1, RemoveUses
    <3>2. CASE id[c] # id[d]
      BY <1>1, <2>1, <2>2, <2>3, <3>2 DEF Remove, RemoveClient
    <3> QED BY <3>1, <3>2
  <2>4. CASE Add(c)
    BY <1>1, <2>1, <2>2, <2>4 DEF Add, AddClient
  <2>5. CASE Record(c)
    BY <1>1, <2>1, <2>2, <2>5 DEF Record, RecordMessageOf
  <2> QED BY <1>1, <2>1, <2>2, <2>3, <2>4, <2>5, RegistryFrame
<1> QED BY <1>2, <1>3

\* A call that has recorded leaves its request seen.
LEMMA RecordSeen ==
  ASSUME Inv, RecordsFindEntry, NEW c \in Calls, Record(c), NEW d \in Calls,
         id[d] = id[c], kind[c] \in Kinds
  PROVE  Seen(d)'
<1>1. pc[c] = "record" /\ Step(c)
  BY DEF Record, Goto, Step
<1>2. CASE kind[c] \in Requests /\ id[c] \in DOMAIN registry
  <2>1. registry[id[c]].messageCount \in Nat
    BY <1>2 DEF Inv, IsRegistry, Entry
  <2>2. id[c] \in DOMAIN registry' /\ registry'[id[c]].messageCount > 0
    <3>1. registry[id[c]] \in [protocol : Protocols, messageCount : Nat]
      BY <1>2 DEF Inv, IsRegistry, Entry
    <3>2. registry'[id[c]].messageCount = registry[id[c]].messageCount + 1
      BY <1>2, <3>1 DEF Record, RecordMessageOf
    <3>3. DOMAIN registry' = DOMAIN registry
      BY DEF Record, RecordMessageOf
    <3> QED BY <1>2, <2>1, <3>2, <3>3
  <2> QED BY <1>1, <2>2, StepFrame DEF Seen
<1>3. CASE kind[c] \in Requests /\ StreamUses(id[d])
  BY <1>1, <1>3, StreamUsesStays DEF Seen
<1>4. CASE kind[c] \in Streams
  <2>1. StreamUses(id[d])
    BY <1>1, <1>4 DEF StreamUses
  <2> QED BY <1>1, <2>1, StreamUsesStays DEF Seen
<1>5. CASE kind[c] \in Requests
  BY <1>1, <1>2, <1>3, <1>5 DEF RecordsFindEntry
<1> QED BY <1>4, <1>5 DEF Kinds

\* A step of another call leaves a request seen.
LEMMA SeenStays ==
  ASSUME Inv, RecordsFindEntry, NEW c \in Calls, Step(c), NEW d \in Calls, Seen(d)
  PROVE  Seen(d)'
<1>1. kind' = kind /\ id' = id /\ pc'[c] # "add"
      /\ \A e \in Calls \ {c} : pc'[e] = pc[e]
  BY StepFrame
<1>2. CASE StreamUses(id[d])
  BY <1>2, StreamUsesStays DEF Seen
<1>3. CASE Add(c) /\ id[c] = id[d]
  <2>1. kind[c] \in Kinds
    BY <1>3, AtOp DEF Inv, Add, Goto, Ops
  <2>2. CASE kind[c] \in Requests
    <3>1. pc'[c] = "record"
      BY <1>3, <2>2, RequestStep DEF Add, Goto, Record, Track
    <3> QED BY <1>1, <1>3, <2>2, <3>1 DEF Seen
  <2>3. CASE kind[c] \in Streams
    BY <1>1, <1>3, <2>3 DEF Seen, StreamUses
  <2> QED BY <2>1, <2>2, <2>3 DEF Kinds
<1>4. CASE Record(c) /\ id[c] = id[d]
  BY <1>4, AtOp, RecordSeen DEF Inv, Record, Goto, Ops
<1>5. CASE Remove(c) /\ id[c] = id[d]
  BY <1>5, RemoveUses DEF Seen
<1>6. CASE ~StreamUses(id[d]) /\ ~((Add(c) \/ Record(c) \/ Remove(c)) /\ id[c] = id[d])
  <2>1. CASE id[d] \in DOMAIN registry /\ registry[id[d]].messageCount > 0
    <3>1. id[d] \in DOMAIN registry' /\ registry'[id[d]] = registry[id[d]]
      BY <1>6, <2>1, RegistryFrame
         DEF Add, Record, Remove, AddClient, RecordMessageOf, RemoveClient
    <3> QED BY <1>1, <2>1, <3>1 DEF Seen
  <2>2. ASSUME NEW e \in Calls, id[e] = id[d], kind[e] \in Requests, pc[e] = "record"
        PROVE  Seen(d)'
    <3>1. e # c
      BY <1>6, <2>2, RequestStep DEF Add, Goto
    <3> QED BY <1>1, <2>2, <3>1 DEF Seen
  <2> QED BY <1>6, <2>1, <2>2 DEF Seen
<1> QED BY <1>2, <1>3, <1>4, <1>5, <1>6

LEMMA AnsweredSeenStep ==
  ASSUME Inv, RecordsFindEntry, AnsweredSeen, NEW c \in Calls, Step(c)
  PROVE  AnsweredSeen'
<1> SUFFICES ASSUME NEW d \in Calls, kind'[d] \in Requests \ {"pollingGet"},
                    pc'[d] \in {"track", "done"}
             PROVE  Seen(d)'
  BY DEF AnsweredSeen
<1>1. kind' = kind /\ id' = id /\ (d # c => pc'[d] = pc[d])
  BY StepFrame
<1>2. CASE d = c /\ Record(c)
  BY <1>1, <1>2, RecordSeen DEF Kinds
<1>3. CASE ~(d = c /\ Record(c))
  <2>1. pc[d] \in {"track", "done"}
    BY <1>1, <1>3, RequestStep
  <2> QED BY <1>1, <2>1, SeenStays DEF AnsweredSeen
<1> QED BY <1>2, <1>3

LEMMA VisibilityNext == Visibility /\ [Next]_vars => Visibility'
<1> SUFFICES ASSUME Visibility, [Next]_vars PROVE Visibility'
  OBVIOUS
<1>1. Inv'
  BY InvNext DEF Visibility
<1>2. ASSUME NEW c \in Calls, Step(c) PROVE Visibility'
  BY <1>1, <1>2, RecordsFindEntryStep, AnsweredSeenStep DEF Visibility
<1>3. CASE UNCHANGED vars
  BY <1>1, <1>3 DEF Visibility, vars, RecordsFindEntry, AnsweredSeen, Seen, StreamUses
<1>4. ASSUME NEW c \in Calls, pc[c] = "idle", UNCHANGED registry,
             pc'[c] \notin {"record", "done", "idle"},
             kind'[c] \in Requests /\ pc'[c] = "track" => kind'[c] = "pollingGet",
             \A d \in Calls \ {c} : pc'[d] = pc[d] /\ kind'[d] = kind[d] /\ id'[d] = id[d]
      PROVE  Visibility'
  <2>1. kind[c] \notin Kinds
    BY <1>4, KindNames DEF Visibility, Inv, Control
  <2>2. ASSUME NEW d \in Calls \ {c}, StreamUses(id[d]) PROVE StreamUses(id[d])'
    BY <1>4, <2>1, <2>2 DEF StreamUses, Kinds
  <2>3. ASSUME NEW d \in Calls \ {c}, Seen(d) PROVE Seen(d)'
    BY <1>4, <2>1, <2>2, <2>3 DEF Seen, Kinds
  <2>4. RecordsFindEntry'
    BY <1>4, <2>2 DEF RecordsFindEntry, Visibility
  <2>5. AnsweredSeen'
    BY <1>4, <2>3 DEF AnsweredSeen, Visibility
  <2> QED BY <1>1, <2>4, <2>5 DEF Visibility
<1>5. ASSUME NEW c \in Calls, NEW k \in Served \cap Kinds, NEW i \in IDsOf(k),
             Call(c, k, i)
      PROVE  Visibility'
  <2>1. Leads(k, Handlers[k].call) /\ Handlers[k].call \notin {"record", "done", "idle"}
    BY Tables, CallsStart
  <2> QED BY <1>4, <1>5, <2>1, CallsStart DEF Call, Visibility, Inv, Control
<1>6. ASSUME NEW c \in Calls, NEW k \in Served \cap StatsHandlers, AskStats(c, k)
      PROVE  Visibility'
  BY <1>4, <1>6 DEF AskStats, Visibility, Inv, Control
<1> QED BY <1>2, <1>3, <1>5, <1>6 DEF Next, Kinds

\* A request that was recorded stays visible in the registry: its client's entry
\* counts it, or another request is about to, or a stream uses the same id.
THEOREM AnsweredVisible == Spec => []DoneIsVisible
<1>1. Visibility => DoneIsVisible
  <2> SUFFICES ASSUME Visibility, NEW c \in Calls,
                      kind[c] \in Requests \ {"pollingGet"}, pc[c] \in {"track", "done"}
               PROVE  \/ id[c] \in DOMAIN registry /\ registry[id[c]].messageCount > 0
                      \/ \E d \in Using(id[c]) \ {c} :
                           \/ kind[d] \in Requests /\ pc[d] = "record"
                           \/ kind[d] \in Streams /\ pc[d] # "add"
    BY DEF DoneIsVisible
  <2>1. Seen(c)
    BY DEF Visibility, AnsweredSeen
  <2>2. CASE \E d \in Calls : id[d] = id[c] /\ kind[d] \in Requests /\ pc[d] = "record"
    <3>1. PICK d \in Calls : id[d] = id[c] /\ kind[d] \in Requests /\ pc[d] = "record"
      BY <2>2
    <3>2. d \in Using(id[c]) \ {c}
      BY <3>1 DEF Using, Requests
    <3> QED BY <3>1, <3>2
  <2>3. CASE StreamUses(id[c])
    <3>1. PICK d \in Calls : id[d] = id[c] /\ kind[d] \in Streams /\ pc[d] # "add"
      BY <2>3 DEF StreamUses
    <3>2. d # c
      BY <3>1 DEF Requests, Streams
    <3>3. d \in Using(id[c]) \ {c}
      BY <3>1, <3>2 DEF Using
    <3> QED BY <3>1, <3>3
  <2> QED BY <2>1, <2>2, <2>3 DEF Seen
<1> QED BY <1>1, VisibilityInit, VisibilityNext, PTL DEF Spec

-----------------------------------------------------------------------------
(* Counting.  A message that a call has received and not yet recorded is   *)
(* due; received less what is due is what the entry of its client can      *)
(* count at most, and what its tracker has counted.                        *)

StreamStep(c) ==
  \/ Add(c) /\ pc'[c] = "serve"
  \/ Message(c) /\ pc'[c] = IF kind[c] = "streamMessages" THEN "track" ELSE "record"
  \/ Record(c) /\ IF kind[c] = "streamMessages" THEN pc'[c] = "serve"
                  ELSE pc'[c] \in {"track", "reply"}
  \/ Track(c) /\ pc'[c] = IF kind[c] = "streamMessages" THEN "record" ELSE "serve"
  \/ Reply(c) /\ pc'[c] = "track" /\ kind[c] # "streamMessages"
  \/ ReplyFails(c) /\ pc'[c] = "failed" /\ kind[c] # "streamMessages"
  \/ End(c) /\ pc'[c] \in {"remove", "done"}
  \/ Remove(c) /\ pc'[c] = "done"

LEMMA StreamTables ==
  \A k \in Streams :
    /\ k # "streamMessages" =>
         /\ Handlers[k].message = "record"
         /\ Handlers[k].record \in {"track", "reply"}
         /\ Handlers[k].track = "serve"
    /\ k = "streamMessages" =>
         /\ Handlers[k].message = "track"
         /\ Handlers[k].track = "record"
         /\ Handlers[k].record = "serve"
         /\ "reply" \notin DOMAIN Handlers[k]
    /\ "reply" \in DOMAIN Handlers[k] => Handlers[k].reply = "track"
    /\ "remove" \in DOMAIN Handlers[k] => Handlers[k].remove = "done"
    /\ Handlers[k].add = "serve"
    /\ Handlers[k].end \in {"remove", "done"}
BY DEF Streams, Handlers, SSEEvents, StreamMessages, SendBatchMessages, ChatStream

LEMMA TrackerTables == \A k \in Kinds : Handlers[k].tracker \in Trackers
BY DEF Kinds, Requests, Streams, Trackers, Handlers, HTTPSend, PollingSend, PollingGet,
       SendMessage, SSEEvents, StreamMessages, SendBatchMessages, ChatStream

\* Where a step takes a stream.
LEMMA StreamSteps ==
  ASSUME Inv, NEW c \in Calls, kind[c] \in Streams, Step(c)
  PROVE  StreamStep(c)
<1>1. kind[c] # Nil /\ kind[c] \notin StatsHandlers /\ kind[c] \in Kinds
  BY KindNames DEF Kinds
<1>2. pc[c] \notin {"count", "list"}
  <2>1. pc[c] \in DOMAIN Handlers[kind[c]] \cup {"done", "failed", "serve"}
    BY <1>1 DEF Inv, Control, Kinds
  <2> QED BY <2>1 DEF Streams, Handlers, SSEEvents, StreamMessages, SendBatchMessages,
             ChatStream
<1>3. ASSUME NEW op \in Ops, Goto(c, op)
      PROVE  op \in DOMAIN Handlers[kind[c]] /\ pc'[c] = Handlers[kind[c]][op]
  BY <1>3, AtOp DEF Inv, Control, Goto
<1>4. ASSUME NEW to, pc' = [pc EXCEPT ![c] = to] PROVE pc'[c] = to
  BY <1>4 DEF Inv, Control
<1>5. CASE Add(c) \/ Record(c) \/ Track(c) \/ Reply(c) \/ Remove(c)
  BY <1>3, <1>5, StreamTables DEF Add, Record, Track, Reply, Remove, StreamStep, Ops
<1>6. CASE ReplyFails(c)
  <2>1. "reply" \in DOMAIN Handlers[kind[c]]
    BY <1>6, AtOp DEF Inv, ReplyFails, Ops
  <2> QED BY <1>4, <1>6, <2>1, StreamTables DEF ReplyFails, StreamStep
<1>7. CASE Message(c) \/ End(c)
  BY <1>4, <1>7, StreamTables DEF Message, End, StreamStep
<1> QED BY <1>2, <1>5, <1>6, <1>7 DEF Step, StatsCount, StatsList

\* A call that has received a message and not recorded it in the registry.
RecordDue(c) ==
  \/ pc[c] = "record"
  \/ pc[c] = "track" /\ kind[c] = "streamMessages"
  \/ pc[c] = "add" /\ kind[c] \in Requests

Of(t) == { c \in Calls : kind[c] \in Kinds /\ Handlers[kind[c]].tracker = t }

Recorded(i) ==
  [c \in Calls |-> IF id[c] # i THEN 0
                   ELSE IF RecordDue(c) THEN received[c] - 1 ELSE received[c]]
TrackedBy(t) ==
  [c \in Calls |-> IF c \notin Of(t) THEN 0
                   ELSE IF TrackDue(c) THEN received[c] - 1 ELSE received[c]]

\* What is due has been received; who handles nothing has received nothing.
Received ==
  /\ received \in [Calls -> Nat]
  /\ \A c \in Calls :
       /\ kind[c] \notin Kinds => id[c] = Nil /\ received[c] = 0
       /\ kind[c] \in Requests => received[c] = 1
       /\ pc[c] \in {"record", "reply", "track", "failed"} => received[c] >= 1

LEMMA DueIsReceived ==
  ASSUME Inv, Received, NEW c \in Calls, RecordDue(c) \/ TrackDue(c)
  PROVE  received[c] >= 1
BY DEF Received, RecordDue, TrackDue

CreditTyped ==
  /\ \A i : Recorded(i) \in [Calls -> Nat]
  /\ \A t : TrackedBy(t) \in [Calls -> Nat]

LEMMA CreditType == Inv /\ Received => CreditTyped
<1> SUFFICES ASSUME Inv, Received PROVE CreditTyped
  OBVIOUS
<1>1. ASSUME NEW c \in Calls
      PROVE  received[c] \in Nat /\ (RecordDue(c) \/ TrackDue(c) => received[c] - 1 \in Nat)
  BY DueIsReceived DEF Received
<1> QED BY <1>1 DEF CreditTyped, Recorded, TrackedBy

\* What the steps of a call do to what it has received and what is due.
LEMMA DueStep ==
  ASSUME Inv, Received, NEW c \in Calls, Step(c)
  PROVE  /\ Message(c) =>
              /\ ~RecordDue(c) /\ RecordDue(c)' /\ ~TrackDue(c) /\ TrackDue(c)'
              /\ received' = [received EXCEPT ![c] = @ + 1]
         /\ ~Message(c) => received' = received
         /\ Record(c) => RecordDue(c) /\ ~RecordDue(c)'
         /\ ~Message(c) /\ ~Record(c) => RecordDue(c)' = RecordDue(c)
         /\ Track(c) => TrackDue(c) /\ ~TrackDue(c)'
         /\ ~Message(c) /\ ~Track(c) => TrackDue(c)' = TrackDue(c)
<1>1. kind' = kind
  BY StepFrame
<1>2. received \in [Calls -> Nat] /\ kind[c] \in Requests \cup Streams \cup StatsHandlers \cup {Nil}
  BY DEF Received, Inv, Control
<1>3. CASE kind[c] \in Requests
  <2>1. kind[c] \notin {"streamMessages"}
    BY <1>3 DEF Requests
  <2> QED BY <1>1, <1>3, <2>1, RequestStep
          DEF RecordDue, TrackDue, Goto, Add, Message, Record, Track
<1>4. CASE kind[c] \in Streams
  <2>1. kind[c] \notin Requests
    BY <1>4 DEF Requests, Streams
  <2> QED BY <1>1, <1>2, <1>4, <2>1, StreamSteps
          DEF StreamStep, RecordDue, TrackDue, Goto, Add, Message, Record, Track, Reply,
              ReplyFails, End, Remove
<1>5. CASE kind[c] \notin Kinds
  <2>1. ~\E op \in Ops : pc[c] = op
    BY <1>5, AtOp DEF Inv
  <2>2. pc[c] # "serve"
    BY <1>5 DEF Inv, Control, Kinds, StatsHandlers, Summed
  <2>3. StatsCount(c) \/ StatsList(c)
    BY <2>1, <2>2 DEF Step, Goto, Add, Message, Record, Track, Reply, ReplyFails, End,
                      Remove, Ops
  <2>4. pc[c] \in {"count", "list"} /\ pc'[c] \in {"list", "done"} /\ received' = received
    BY <2>3 DEF StatsCount, StatsList, Inv, Control
  <2> QED BY <1>1, <1>5, <2>4
          DEF RecordDue, TrackDue, Goto, Message, Record, Track, Kinds
<1> QED BY <1>3, <1>4, <1>5 DEF Kinds

\* A step of a call keeps what has been received.
LEMMA ReceivedStep ==
  ASSUME Inv, Received, NEW c \in Calls, Step(c)
  PROVE  /\ Received'
         /\ \A d \in Calls : received[d] <= received'[d]
<1>1. kind' = kind /\ id' = id /\ \A d \in Calls \ {c} : pc'[d] = pc[d]
  BY StepFrame
<1>2. CASE Message(c)
  <2>1. kind[c] \in Streams
    BY <1>2, RequestTables DEF Inv, Control, Message
  <2>2. received' = [received EXCEPT ![c] = @ + 1]
    BY <1>2 DEF Message
  <2>3. received' \in [Calls -> Nat] /\ received'[c] = received[c] + 1
        /\ \A d \in Calls \ {c} : received'[d] = received[d]
    BY <2>2 DEF Received
  <2>4. kind[c] \notin Requests /\ kind[c] \in Kinds
    BY <2>1 DEF Requests, Streams, Kinds
  <2>5. received[c] \in Nat
    BY DEF Received
  <2>6. Received'
    BY <1>1, <2>3, <2>4, <2>5 DEF Received
  <2>7. \A d \in Calls : received[d] <= received'[d]
    BY <2>3, <2>5 DEF Received
  <2> QED BY <2>6, <2>7
<1>3. CASE ~Message(c)
  <2>1. received' = received
    BY <1>3, DueStep
  <2>2. ASSUME pc'[c] \in {"record", "reply", "track", "failed"}
        PROVE  received[c] >= 1
    <3>1. kind[c] \in Kinds
      <4> SUFFICES ASSUME kind[c] \notin Kinds PROVE FALSE
        OBVIOUS
      <4>1. pc'[c] \in {"idle", "count", "list", "done"}
        BY <1>1, InvNext DEF Inv, Control, Kinds, Next, StatsHandlers, Summed
      <4> QED BY <2>2, <4>1
    <3>2. CASE kind[c] \in Requests
      BY <3>2 DEF Received
    <3>3. CASE kind[c] \in Streams
      BY <1>3, <2>2, <3>3, StreamSteps
         DEF Received, StreamStep, Record, Track, Reply, ReplyFails, Goto
    <3> QED BY <3>1, <3>2, <3>3 DEF Kinds
  <2>3. \A d \in Calls : received[d] <= received'[d]
    BY <2>1 DEF Received
  <2> QED BY <1>1, <2>1, <2>2, <2>3 DEF Received
<1> QED BY <1>2, <1>3

\* Recording credits the entry, tracking credits the tracker, and no other step
\* of a call changes what is credited.
LEMMA CreditStep ==
  ASSUME Inv, Received, NEW c \in Calls, Step(c)
  PROVE  /\ \A i : Sum(Recorded(i)', Calls) =
                     IF Record(c) /\ id[c] = i THEN Sum(Recorded(i), Calls) + 1
                     ELSE Sum(Recorded(i), Calls)
         /\ \A t : Sum(TrackedBy(t)', Calls) =
                     IF Track(c) /\ c \in Of(t) THEN Sum(TrackedBy(t), Calls) + 1
                     ELSE Sum(TrackedBy(t), Calls)
<1>1. kind' = kind /\ id' = id /\ \A d \in Calls \ {c} : pc'[d] = pc[d]
  BY StepFrame
<1>2. CreditTyped /\ CreditTyped'
  <2>1. Inv' /\ Received'
    BY InvStep, ReceivedStep
  <2> QED BY <2>1, CreditType, PTL
<1>3. /\ \A d \in Calls \ {c} : received'[d] = received[d]
      /\ received'[c] = IF Message(c) THEN received[c] + 1 ELSE received[c]
      /\ received[c] \in Nat
  BY DueStep DEF Received
<1>4. \A d \in Calls \ {c} : RecordDue(d)' = RecordDue(d) /\ TrackDue(d)' = TrackDue(d)
  BY <1>1 DEF RecordDue, TrackDue
<1>5. \A t : Of(t)' = Of(t)
  BY <1>1 DEF Of
<1>6. ASSUME NEW i
      PROVE  Sum(Recorded(i)', Calls) =
               IF Record(c) /\ id[c] = i THEN Sum(Recorded(i), Calls) + 1
               ELSE Sum(Recorded(i), Calls)
  <2> DEFINE f == Recorded(i)
             g == Recorded(i)'
  <2>1. f \in [Calls -> Nat] /\ g \in [Calls -> Nat]
    BY <1>2 DEF CreditTyped
  <2>2. \A d \in Calls \ {c} : f[d] = g[d]
    BY <1>1, <1>3, <1>4 DEF Recorded
  <2>3. g[c] = IF Record(c) /\ id[c] = i THEN f[c] + 1 ELSE f[c]
    BY <1>1, <1>3, DueStep DEF Recorded, Message, Record, Goto
  <2> HIDE DEF f, g
  <2>4. Sum(g, Calls) + f[c] = Sum(f, Calls) + g[c]
    BY <2>1, <2>2, CallsAssumption, SumChange
  <2>5. Sum(f, Calls) \in Nat /\ Sum(g, Calls) \in Nat /\ f[c] \in Nat
    BY <2>1, CallsAssumption, SumRemove
  <2>6. Sum(g, Calls) = IF Record(c) /\ id[c] = i THEN Sum(f, Calls) + 1 ELSE Sum(f, Calls)
    BY <2>3, <2>4, <2>5
  <2> QED BY <2>6 DEF f, g
<1>7. ASSUME NEW t
      PROVE  Sum(TrackedBy(t)', Calls) =
               IF Track(c) /\ c \in Of(t) THEN Sum(TrackedBy(t), Calls) + 1
               ELSE Sum(TrackedBy(t), Calls)
  <2> DEFINE f == TrackedBy(t)
             g == TrackedBy(t)'
  <2>1. f \in [Calls -> Nat] /\ g \in [Calls -> Nat]
    BY <1>2 DEF CreditTyped
  <2>2. \A d \in Calls \ {c} : f[d] = g[d]
    BY <1>1, <1>3, <1>4, <1>5 DEF TrackedBy
  <2>3. g[c] = IF Track(c) /\ c \in Of(t) THEN f[c] + 1 ELSE f[c]
    BY <1>1, <1>3, <1>5, DueStep DEF TrackedBy, Message, Track, Goto
  <2> HIDE DEF f, g
  <2>4. Sum(g, Calls) + f[c] = Sum(f, Calls) + g[c]
    BY <2>1, <2>2, CallsAssumption, SumChange
  <2>5. Sum(f, Calls) \in Nat /\ Sum(g, Calls) \in Nat /\ f[c] \in Nat
    BY <2>1, CallsAssumption, SumRemove
  <2>6. Sum(g, Calls) = IF Track(c) /\ c \in Of(t) THEN Sum(f, Calls) + 1 ELSE Sum(f, Calls)
    BY <2>3, <2>4, <2>5
  <2> QED BY <2>6 DEF f, g
<1> QED BY <1>6, <1>7

\* The inductive invariant.
Registered == DOMAIN registry \subseteq { id[c] : c \in Calls } \ {Nil}
EntriesCredited ==
  \A i \in DOMAIN registry : registry[i].messageCount <= Sum(Recorded(i), Calls)
TrackersCredited ==
  /\ tracked \in [Trackers -> Nat]
  /\ \A t \in Trackers : tracked[t] = Sum(TrackedBy(t), Calls)
ReportsCredited ==
  /\ report \in [Calls -> [active : Nat, messages : Nat]]
  /\ ReportsAreHandled

Books == Inv /\ Received /\ Registered /\ EntriesCredited /\ TrackersCredited /\ ReportsCredited

\* What is credited at the most is what was received.
LEMMA CreditIsReceived ==
  ASSUME Inv, Received
  PROVE  /\ \A i : /\ Sum(Recorded(i), Calls) \in Nat
                   /\ Sum(Recorded(i), Calls) <= ReceivedBy(Using(i))
         /\ \A t : Sum(TrackedBy(t), Calls) + Cardinality({ c \in Of(t) : TrackDue(c) })
                     = ReceivedBy(Of(t))
<1>1. \A c \in Calls : received[c] \in Nat
  BY DEF Received
<1>2. CreditTyped
  BY CreditType
<1>3. ASSUME NEW i
      PROVE  /\ Sum(Recorded(i), Calls) \in Nat
             /\ Sum(Recorded(i), Calls) <= ReceivedBy(Using(i))
  <2> DEFINE D == { c \in Using(i) : RecordDue(c) }
             R == Using(i)
             g == Recorded(i)
  <2>1. \A c \in D : received[c] >= 1
    BY DueIsReceived DEF Using
  <2>2. \A c \in Calls : g[c] = IF c \in D THEN received[c] - 1
                                ELSE IF c \in R THEN received[c] ELSE 0
    BY DEF Recorded, Using
  <2>3. D \in SUBSET R /\ R \in SUBSET Calls
    BY DEF Using
  <2>4. \A c \in Calls : g[c] \in Nat
    BY <1>2 DEF CreditTyped
  <2> HIDE DEF D, R, g
  <2>5. Sum(g, Calls) + Cardinality(D) = Sum(received, R)
    BY <1>1, <2>1, <2>2, <2>3, CallsAssumption, SumSave
  <2>6. Sum(g, Calls) \in Nat /\ Sum(received, R) \in Nat
    BY <1>1, <2>3, <2>4, CallsAssumption, FS_Subset, SumRemove
  <2>7. Cardinality(D) \in Nat
    BY <2>3, CallsAssumption, FS_Subset, FS_CardinalityType
  <2>8. Sum(g, Calls) <= Sum(received, R)
    BY <2>5, <2>6, <2>7
  <2> QED BY <2>6, <2>8 DEF g, R, ReceivedBy, Sum
<1>4. ASSUME NEW t
      PROVE  Sum(TrackedBy(t), Calls) + Cardinality({ c \in Of(t) : TrackDue(c) })
               = ReceivedBy(Of(t))
  <2> DEFINE D == { c \in Of(t) : TrackDue(c) }
             R == Of(t)
             g == TrackedBy(t)
  <2>1. \A c \in D : received[c] >= 1
    BY DueIsReceived DEF Of
  <2>2. \A c \in Calls : g[c] = IF c \in D THEN received[c] - 1
                                ELSE IF c \in R THEN received[c] ELSE 0
    BY DEF TrackedBy
  <2>3. D \in SUBSET R /\ R \in SUBSET Calls
    BY DEF Of
  <2> HIDE DEF D, R, g
  <2>4. Sum(g, Calls) + Cardinality(D) = Sum(received, R)
    BY <1>1, <2>1, <2>2, <2>3, CallsAssumption, SumSave
  <2> QED BY <2>4 DEF D, g, R, ReceivedBy, Sum
<1> QED BY <1>3, <1>4

LEMMA BooksBalance ==
  ASSUME Books
  PROVE  CountsAreHandled /\ EveryMessageTracked
<1>1. CountsAreHandled
  <2> SUFFICES ASSUME NEW i \in DOMAIN registry
               PROVE  registry[i].messageCount <= ReceivedBy(Using(i))
    BY DEF CountsAreHandled
  <2> DEFINE a == Sum(Recorded(i), Calls)
             b == ReceivedBy(Using(i))
  <2>1. registry[i].messageCount <= a /\ registry[i].messageCount \in Nat
    BY DEF Books, EntriesCredited, Inv, IsRegistry, Entry
  <2>2. a \in Nat /\ a <= b
    BY CreditIsReceived DEF Books
  <2>3. b \in Nat
    <3>1. Using(i) \in SUBSET Calls /\ \A c \in Calls : received[c] \in Nat
      BY DEF Using, Books, Received
    <3> QED BY <3>1, CallsAssumption, FS_Subset, SumRemove DEF ReceivedBy, Sum
  <2> HIDE DEF a, b
  <2>4. registry[i].messageCount <= b
    BY <2>1, <2>2, <2>3
  <2> QED BY <2>4 DEF b
<1>2. EveryMessageTracked
  <2> SUFFICES ASSUME NEW t \in Trackers
               PROVE  tracked[t] + Cardinality({ c \in Of(t) : TrackDue(c) })
                        = ReceivedBy(Of(t))
    BY DEF EveryMessageTracked, Of, Kinds
  <2>1. tracked[t] = Sum(TrackedBy(t), Calls)
    BY DEF Books, TrackersCredited
  <2> QED BY <2>1, CreditIsReceived DEF Books
<1> QED BY <1>1, <1>2

\* What a stats call adds up is part of what was received.
LEMMA TotalIsReceived ==
  ASSUME Books, NEW P
  PROVE  TotalMessages(registry, P) \in Nat /\ TotalMessages(registry, P) <= ReceivedBy(Calls)
<1> DEFINE I == { i \in DOMAIN registry : registry[i].protocol \in P }
           f == [i \in DOMAIN registry |-> registry[i].messageCount]
           g == [i \in I |-> ReceivedBy(Using(i))]
           at == [i \in I |-> Using(i)]
           part == { c \in Calls : id[c] \in I }
<1>1. IsFiniteSet(I)
  <2>1. IsFiniteSet({ id[c] : c \in Calls })
    BY CallsAssumption, ImageFinite
  <2>2. I \subseteq { id[c] : c \in Calls }
    BY DEF Books, Registered
  <2> QED BY <2>1, <2>2, FS_Subset
<1>2. \A c \in Calls : received[c] \in Nat
  BY DEF Books, Received
<1>3. \A i \in I : f[i] \in Nat /\ g[i] \in Nat /\ f[i] <= g[i]
  <2>1. \A i : Using(i) \in SUBSET Calls
    BY DEF Using
  <2>2. \A i : ReceivedBy(Using(i)) \in Nat
    BY <1>2, <2>1, CallsAssumption, FS_Subset, SumRemove DEF ReceivedBy, Sum
  <2>3. \A i \in DOMAIN registry : registry[i].messageCount \in Nat
    BY DEF Books, Inv, IsRegistry, Entry
  <2>4. \A i \in I : registry[i].messageCount <= ReceivedBy(Using(i))
    BY BooksBalance DEF CountsAreHandled
  <2> QED BY <2>2, <2>3, <2>4
<1>4. \A i \in I : /\ g[i] = Sum(received, at[i])
                   /\ at[i] \in SUBSET Calls
                   /\ \A c \in Calls : c \in at[i] <=> id[c] = i
  BY DEF Using, ReceivedBy, Sum
<1>5. Sum(received, part) \in Nat /\ Sum(received, Calls \ part) \in Nat
  BY <1>2, CallsAssumption, FS_Subset, SumRemove
<1>6. Calls = part \cup (Calls \ part) /\ part \cap (Calls \ part) = {}
      /\ part \in SUBSET Calls /\ Calls \ part \in SUBSET Calls
  OBVIOUS
<1> HIDE DEF I, f, g, at
<1>7. Sum(f, I) \in Nat /\ Sum(f, I) <= Sum(g, I)
  BY <1>1, <1>3, SumMonotonic, SumRemove
<1>8. Sum(g, I) = Sum(received, part)
  <2>1. \A c \in Calls : c \in part <=> id[c] \in I
    OBVIOUS
  <2> HIDE DEF part
  <2> QED BY <1>1, <1>2, <1>4, <1>6, <2>1, CallsAssumption, SumDivided
<1> HIDE DEF part
<1>9. Sum(received, Calls) = Sum(received, part) + Sum(received, Calls \ part)
  BY <1>2, <1>6, CallsAssumption, SumDisjoint
<1>10. Sum(f, I) \in Nat /\ Sum(f, I) <= Sum(received, Calls)
  BY <1>5, <1>7, <1>8, <1>9
<1> QED BY <1>10 DEF TotalMessages, ReceivedBy, Sum, f, I

UsedIDs == { id[c] : c \in Calls } \ {Nil}

FewUsed == IsFiniteSet(UsedIDs) /\ Cardinality(UsedIDs) \in Nat

LEMMA UsedFinite == FewUsed
<1>1. IsFiniteSet({ id[c] : c \in Calls })
  BY CallsAssumption, ImageFinite
<1> QED BY <1>1, FS_Subset, FS_CardinalityType DEF FewUsed, UsedIDs

\* A report that was right remains so.
LEMMA ReportsStay ==
  ASSUME Books, Received', NEW c \in Calls, report'[c] = report[c],
         \A d \in Calls : received[d] <= received'[d], UsedIDs \subseteq UsedIDs'
  PROVE  /\ report'[c].messages <= ReceivedBy(Calls)'
         /\ report'[c].active <= Cardinality(UsedIDs)'
<1> DEFINE m == ReceivedBy(Calls)
           n == Cardinality(UsedIDs)
<1>1. \A d \in Calls : received[d] \in Nat /\ received'[d] \in Nat
  BY DEF Books, Received
<1>2. m <= m'
  BY <1>1, CallsAssumption, SumMonotonic DEF ReceivedBy, Sum
<1>3. IsFiniteSet(UsedIDs) /\ IsFiniteSet(UsedIDs') /\ n \in Nat /\ n' \in Nat
  <2>1. FewUsed /\ FewUsed'
    BY UsedFinite, PTL
  <2> QED BY <2>1 DEF FewUsed
<1>4. n <= n'
  BY <1>3, FS_Subset
<1>5. m \in Nat /\ m' \in Nat
  BY <1>1, CallsAssumption, SumRemove DEF ReceivedBy, Sum
<1>6. /\ report[c].messages \in Nat /\ report[c].messages <= m
      /\ report[c].active \in Nat /\ report[c].active <= n
  BY DEF Books, ReportsCredited, ReportsAreHandled, UsedIDs
<1> HIDE DEF m, n
<1>7. report'[c].messages <= m' /\ report'[c].active <= n'
  BY <1>2, <1>3, <1>4, <1>5, <1>6
<1> QED BY <1>7 DEF m, n

LEMMA RegisteredStep ==
  ASSUME Books, NEW c \in Calls, Step(c)
  PROVE  Registered'
<1>1. id' = id
  BY StepFrame DEF Books
<1>2. CASE Add(c)
  <2>1. kind[c] \in Kinds /\ pc[c] = "add" /\ "add" \in DOMAIN Handlers[kind[c]]
    BY <1>2, AtOp DEF Books, Inv, Add, Goto, Ops
  <2>2. id[c] # Nil
    <3>1. id[c] \in IDsOf(kind[c])
      BY <2>1 DEF Books, Inv, Control, Kinds
    <3>2. kind[c] # "pollingGet"
      BY <2>1 DEF Handlers, PollingGet
    <3> QED BY <3>1, <3>2, NilAssumption DEF IDsOf, FixedIDs
  <2> QED BY <1>1, <1>2, <2>2 DEF Add, AddClient, Books, Registered
<1>3. CASE Remove(c)
  BY <1>1, <1>3 DEF Remove, RemoveClient, Books, Registered
<1>4. CASE Record(c)
  BY <1>1, <1>4 DEF Record, RecordMessageOf, Books, Registered
<1> QED BY <1>1, <1>2, <1>3, <1>4, RegistryFrame DEF Books, Registered

LEMMA EntriesStep ==
  ASSUME Books, NEW c \in Calls, Step(c)
  PROVE  EntriesCredited'
<1> SUFFICES ASSUME NEW i \in DOMAIN registry'
             PROVE  registry'[i].messageCount <= Sum(Recorded(i)', Calls)
  BY DEF EntriesCredited
<1> DEFINE a == Sum(Recorded(i), Calls)
           b == Sum(Recorded(i)', Calls)
<1>1. b = IF Record(c) /\ id[c] = i THEN a + 1 ELSE a
  BY CreditStep DEF Books
<1>2. a \in Nat
  BY CreditIsReceived DEF Books
<1>3. i \in DOMAIN registry => registry[i].messageCount <= a
  BY DEF Books, EntriesCredited
<1>4. i \in DOMAIN registry =>
        registry[i] \in [protocol : Protocols, messageCount : Nat]
  BY DEF Books, Inv, IsRegistry, Entry
<1> HIDE DEF a, b
<1>5. CASE Add(c)
  <2>1. ~Record(c)
    BY <1>5 DEF Add, Record, Goto
  <2>2. CASE i = id[c]
    BY <1>1, <1>2, <1>5, <2>1, <2>2 DEF Add, AddClient, b
  <2>3. CASE i # id[c]
    <3>1. i \in DOMAIN registry /\ registry'[i] = registry[i]
      BY <1>5, <2>3 DEF Add, AddClient
    <3> QED BY <1>1, <1>3, <2>1, <3>1 DEF b
  <2> QED BY <2>2, <2>3
<1>6. CASE Remove(c)
  <2>1. ~Record(c) /\ i \in DOMAIN registry /\ registry'[i] = registry[i]
    BY <1>6 DEF Remove, RemoveClient, Record, Goto
  <2> QED BY <1>1, <1>3, <2>1 DEF b
<1>7. CASE Record(c)
  <2>1. i \in DOMAIN registry
    BY <1>7 DEF Record, RecordMessageOf
  <2>2. registry'[i].messageCount = IF i = id[c] THEN registry[i].messageCount + 1
                                    ELSE registry[i].messageCount
    BY <1>4, <1>7, <2>1 DEF Record, RecordMessageOf
  <2>3. registry'[i].messageCount <= b
    BY <1>1, <1>2, <1>3, <1>4, <1>7, <2>1, <2>2
  <2> QED BY <2>3 DEF b
<1>8. CASE ~Add(c) /\ ~Record(c) /\ ~Remove(c)
  <2>1. registry' = registry
    BY <1>8, RegistryFrame
  <2> QED BY <1>1, <1>3, <1>8, <2>1 DEF b
<1> QED BY <1>5, <1>6, <1>7, <1>8

LEMMA TrackersStep ==
  ASSUME Books, NEW c \in Calls, Step(c)
  PROVE  TrackersCredited'
<1>1. \A t : Sum(TrackedBy(t)', Calls) =
               IF Track(c) /\ c \in Of(t) THEN Sum(TrackedBy(t), Calls) + 1
               ELSE Sum(TrackedBy(t), Calls)
  BY CreditStep DEF Books
<1>2. CASE Track(c)
  <2> DEFINE u == Handlers[kind[c]].tracker
  <2>1. kind[c] \in Kinds
    BY <1>2, AtOp DEF Books, Inv, Track, Goto, Ops
  <2>2. u \in Trackers /\ \A t : c \in Of(t) <=> t = u
    BY <2>1, TrackerTables DEF Of
  <2>3. tracked' = [tracked EXCEPT ![u] = @ + 1]
    BY <1>2 DEF Track
  <2> HIDE DEF u
  <2>4. tracked \in [Trackers -> Nat] /\ \A t \in Trackers : tracked[t] = Sum(TrackedBy(t), Calls)
    BY DEF Books, TrackersCredited
  <2>5. tracked' \in [Trackers -> Nat]
    BY <2>2, <2>3, <2>4
  <2>6. ASSUME NEW t \in Trackers PROVE tracked'[t] = Sum(TrackedBy(t)', Calls)
    BY <1>1, <1>2, <2>2, <2>3, <2>4
  <2> QED BY <2>5, <2>6 DEF TrackersCredited
<1>3. CASE ~Track(c)
  <2>1. tracked' = tracked
    BY <1>3 DEF Step, Add, Message, Record, Reply, ReplyFails, End, Remove, StatsCount,
                StatsList
  <2> QED BY <1>1, <1>3, <2>1 DEF Books, TrackersCredited
<1> QED BY <1>2, <1>3

LEMMA ReportsStep ==
  ASSUME Books, NEW c \in Calls, Step(c)
  PROVE  ReportsCredited'
<1> DEFINE R == [active : Nat, messages : Nat]
           Right(d) == /\ report'[d].messages <= ReceivedBy(Calls)'
                       /\ report'[d].active <= Cardinality(UsedIDs)'
<1>1. id' = id /\ UsedIDs' = UsedIDs
  BY StepFrame DEF UsedIDs, Books
<1>2. Received' /\ \A d \in Calls : received[d] <= received'[d]
  BY ReceivedStep DEF Books
<1>3. ASSUME NEW d \in Calls, report'[d] = report[d] PROVE Right(d)
  BY <1>1, <1>2, <1>3, ReportsStay
<1>4. report \in [Calls -> R]
  BY DEF Books, ReportsCredited
<1>5. CASE StatsCount(c)
  <2> DEFINE n == CountClients(registry)
  <2>1. n \in Nat /\ n <= Cardinality(UsedIDs)
    BY UsedFinite, FS_Subset, FS_CardinalityType
       DEF FewUsed, CountClients, Books, Registered, UsedIDs
  <2>2. report' = [report EXCEPT ![c].active = n] /\ received' = received
    BY <1>5 DEF StatsCount
  <2> HIDE DEF n
  <2>3. report' \in [Calls -> R] /\ report'[c].active = n
        /\ report'[c].messages = report[c].messages
        /\ \A d \in Calls \ {c} : report'[d] = report[d]
    BY <1>4, <2>1, <2>2
  <2>4. Right(c)
    BY <1>1, <2>1, <2>2, <2>3 DEF Books, ReportsCredited, ReportsAreHandled, ReceivedBy
  <2>5. \A d \in Calls : Right(d)
    BY <1>3, <2>3, <2>4
  <2> HIDE DEF R
  <2> QED BY <2>3, <2>5 DEF ReportsCredited, ReportsAreHandled, UsedIDs, R
<1>6. CASE StatsList(c)
  <2> DEFINE n == TotalMessages(registry, Summed[kind[c]])
  <2>1. n \in Nat /\ n <= ReceivedBy(Calls)
    BY TotalIsReceived
  <2>2. report' = [report EXCEPT ![c].messages = n] /\ received' = received
    BY <1>6 DEF StatsList
  <2> HIDE DEF n
  <2>3. report' \in [Calls -> R] /\ report'[c].messages = n
        /\ report'[c].active = report[c].active
        /\ \A d \in Calls \ {c} : report'[d] = report[d]
    BY <1>4, <2>1, <2>2
  <2>4. Right(c)
    BY <1>1, <2>1, <2>2, <2>3
       DEF Books, ReportsCredited, ReportsAreHandled, ReceivedBy, UsedIDs
  <2>5. \A d \in Calls : Right(d)
    BY <1>3, <2>3, <2>4
  <2> HIDE DEF R
  <2> QED BY <2>3, <2>5 DEF ReportsCredited, ReportsAreHandled, UsedIDs, R
<1>7. CASE ~StatsCount(c) /\ ~StatsList(c)
  <2>1. report' = report
    BY <1>7 DEF Step, Add, Message, Record, Track, Reply, ReplyFails, End, Remove
  <2>2. \A d \in Calls : Right(d)
    BY <1>3, <2>1
  <2> HIDE DEF R
  <2> QED BY <1>4, <2>1, <2>2 DEF ReportsCredited, ReportsAreHandled, UsedIDs, R
<1> QED BY <1>5, <1>6, <1>7

\* A call begins with nothing credited to it: its message, if it has one, is due.
LEMMA BeginBooks ==
  ASSUME Books, Inv', NEW c \in Calls, kind[c] \notin Kinds,
         UNCHANGED <<registry, tracked, report>>,
         \A d \in Calls \ {c} : /\ pc'[d] = pc[d] /\ kind'[d] = kind[d]
                                /\ id'[d] = id[d] /\ received'[d] = received[d],
         Received',
         id'[c] # Nil => received'[c] = IF RecordDue(c)' THEN 1 ELSE 0,
         kind'[c] \in Kinds => received'[c] = IF TrackDue(c)' THEN 1 ELSE 0
  PROVE  Books'
<1>1. id[c] = Nil /\ received[c] = 0 /\ \A d \in Calls : received[d] \in Nat /\ received'[d] \in Nat
  BY DEF Books, Received
<1>2. Registered' /\ UsedIDs \subseteq UsedIDs'
  BY <1>1 DEF Registered, UsedIDs, Books
<1>3. CreditTyped /\ CreditTyped'
  BY CreditType, PTL DEF Books
<1>4. \A d \in Calls \ {c} : RecordDue(d)' = RecordDue(d) /\ TrackDue(d)' = TrackDue(d)
  BY DEF RecordDue, TrackDue
<1>5. EntriesCredited'
  <2> SUFFICES ASSUME NEW i \in DOMAIN registry
               PROVE  registry[i].messageCount <= Sum(Recorded(i)', Calls)
    BY DEF EntriesCredited
  <2>1. i # Nil
    BY DEF Books, Registered
  <2>2. \A d \in Calls : Recorded(i)[d] = Recorded(i)'[d]
    <3>1. Recorded(i)[c] = 0
      BY <1>1, <2>1 DEF Recorded
    <3>2. Recorded(i)'[c] = 0
      BY <2>1 DEF Recorded
    <3> QED BY <1>4, <3>1, <3>2 DEF Recorded
  <2>3. Sum(Recorded(i), Calls) = Sum(Recorded(i)', Calls)
    BY <2>2, CallsAssumption, SumSame
  <2> QED BY <2>3 DEF Books, EntriesCredited
<1>6. TrackersCredited'
  <2>1. ASSUME NEW t \in Trackers
        PROVE  Sum(TrackedBy(t), Calls) = Sum(TrackedBy(t)', Calls)
    <3>1. TrackedBy(t)[c] = 0
      BY DEF TrackedBy, Of
    <3>2. TrackedBy(t)'[c] = 0
      BY DEF TrackedBy, Of
    <3>3. \A d \in Calls : TrackedBy(t)[d] = TrackedBy(t)'[d]
      BY <1>4, <3>1, <3>2 DEF TrackedBy, Of
    <3> QED BY <3>3, CallsAssumption, SumSame
  <2> QED BY <2>1 DEF Books, TrackersCredited
<1>7. ReportsCredited'
  <2>1. \A d \in Calls : received[d] <= received'[d]
    BY <1>1
  <2>2. \A d \in Calls : /\ report'[d].messages <= ReceivedBy(Calls)'
                         /\ report'[d].active <= Cardinality(UsedIDs)'
    BY <1>2, <2>1, ReportsStay
  <2> QED BY <2>2 DEF Books, ReportsCredited, ReportsAreHandled, UsedIDs
<1> QED BY <1>2, <1>5, <1>6, <1>7 DEF Books

LEMMA BooksInit == Init => Books
<1> SUFFICES ASSUME Init PROVE Books
  OBVIOUS
<1>1. Inv /\ Received
  BY InvInit, NilAssumption DEF Init, Received, Kinds, Requests, Streams
<1>2. Registered /\ EntriesCredited
  BY DEF Init, Registered, EntriesCredited, NewConnectionRegistry
<1>3. TrackersCredited
  <2>1. ASSUME NEW t \in Trackers PROVE Sum(TrackedBy(t), Calls) = 0
    <3> DEFINE g == TrackedBy(t)
    <3>1. g = [c \in Calls |-> 0]
      BY NilAssumption DEF Init, TrackedBy, Of, Kinds, Requests, Streams
    <3> HIDE DEF g
    <3>2. Sum(g, Calls) = 0
      BY <3>1, CallsAssumption, SumZero
    <3> QED BY <3>2 DEF g
  <2> QED BY <2>1 DEF Init, TrackersCredited
<1>4. ReportsCredited
  <2>1. ReceivedBy(Calls) \in Nat
    BY <1>1, CallsAssumption, SumRemove DEF Received, ReceivedBy, Sum
  <2>2. \A c \in Calls : report[c] = [active |-> 0, messages |-> 0]
    BY DEF Init
  <2>3. ReportsAreHandled
    BY <2>1, <2>2, UsedFinite DEF ReportsAreHandled, FewUsed, UsedIDs
  <2> QED BY <2>3 DEF Init, ReportsCredited
<1> QED BY <1>1, <1>2, <1>3, <1>4 DEF Books

LEMMA BooksNext == Books /\ [Next]_vars => Books'
<1> SUFFICES ASSUME Books, [Next]_vars PROVE Books'
  OBVIOUS
<1>1. Inv'
  BY InvNext DEF Books
<1>2. CASE UNCHANGED vars
  BY <1>1, <1>2 DEF vars, Books, Received, Registered, EntriesCredited, TrackersCredited,
                    ReportsCredited, ReportsAreHandled, Recorded, RecordDue, TrackedBy,
                    TrackDue, Of, ReceivedBy
<1>3. ASSUME NEW c \in Calls, Step(c) PROVE Books'
  BY <1>1, <1>3, ReceivedStep, RegisteredStep, EntriesStep, TrackersStep, ReportsStep
     DEF Books
<1>4. ASSUME NEW c \in Calls, NEW k \in Served \cap Kinds, NEW i \in IDsOf(k),
             Call(c, k, i)
      PROVE  Books'
  <2>1. kind[c] \notin Kinds
    BY <1>4, KindNames DEF Call, Books, Inv, Control
  <2>2. /\ \A d \in Calls \ {c} : /\ pc'[d] = pc[d] /\ kind'[d] = kind[d]
                                  /\ id'[d] = id[d] /\ received'[d] = received[d]
        /\ received' \in [Calls -> Nat]
        /\ kind'[c] = k /\ id'[c] = i /\ pc'[c] = Handlers[k].call
        /\ received'[c] = IF k \in Requests THEN 1 ELSE 0
    BY <1>4 DEF Call, Books, Inv, Control, Received
  <2>3. /\ k \in Requests \ {"pollingGet"} => pc'[c] = "add"
        /\ k = "pollingGet" => pc'[c] = "track" /\ i = Nil
        /\ k \in Streams => pc'[c] = "add" /\ k \notin Requests
    BY <2>2, CallsStart, RequestTables DEF IDsOf, Kinds, Requests, Streams
  <2>4. Received'
    BY <2>2, <2>3 DEF Received, Books, Kinds, Requests
  <2>5. /\ id'[c] # Nil => received'[c] = IF RecordDue(c)' THEN 1 ELSE 0
        /\ received'[c] = IF TrackDue(c)' THEN 1 ELSE 0
    BY <2>2, <2>3 DEF RecordDue, TrackDue, Kinds
  <2>6. UNCHANGED <<registry, tracked, report>>
    BY <1>4 DEF Call
  <2> QED BY <1>1, <2>1, <2>2, <2>4, <2>5, <2>6, BeginBooks
<1>5. ASSUME NEW c \in Calls, NEW k \in Served \cap StatsHandlers, AskStats(c, k)
      PROVE  Books'
  <2>1. kind[c] \notin Kinds /\ k \notin Kinds
    BY <1>5, KindNames DEF AskStats, Books, Inv, Control
  <2>2. /\ \A d \in Calls \ {c} : pc'[d] = pc[d] /\ kind'[d] = kind[d]
        /\ kind'[c] = k /\ pc'[c] = "count"
        /\ UNCHANGED <<id, received, registry, tracked, report>>
    BY <1>5 DEF AskStats, Books, Inv, Control
  <2>3. Received'
    BY <2>1, <2>2 DEF Received, Books, Kinds
  <2>4. id'[c] = Nil
    BY <2>1, <2>2 DEF Received, Books
  <2> QED BY <1>1, <2>1, <2>2, <2>3, <2>4, BeginBooks
<1> QED BY <1>2, <1>3, <1>4, <1>5 DEF Next, Kinds

\* Every call is at an operation that its handler has, the registry holds entries
\* of the handlers' ids and protocols, and counts are numbers.
THEOREM TypeCorrect == Spec => []TypeOK
<1>1. Books => TypeOK
  BY DEF Books, Inv, Received, TrackersCredited, ReportsCredited, TypeOK
<1> QED BY <1>1, BooksInit, BooksNext, PTL DEF Spec

\* No entry of the registry counts more than was received under its id, and no
\* report shows more messages, or more connections, than there were.
THEOREM NothingIsInvented == Spec => []NothingInvented
<1>1. Books => NothingInvented
  BY BooksBalance DEF Books, ReportsCredited, NothingInvented
<1> QED BY <1>1, BooksInit, BooksNext, PTL DEF Spec

\* Each tracker has recorded every message of its handlers once, apart from those
\* that are under way or whose reply failed.
THEOREM EveryMessageIsTracked == Spec => []EveryMessageTracked
<1>1. Books => EveryMessageTracked
  BY BooksBalance
<1> QED BY <1>1, BooksInit, BooksNext, PTL DEF Spec
=============================================================================

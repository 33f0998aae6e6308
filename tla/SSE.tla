-------------------------------- MODULE SSE --------------------------------
(***************************************************************************)
(* Server-sent events (internal/handlers/sse.go): concurrent POSTs that    *)
(* store and broadcast a message, and event streams that subscribe, show   *)
(* what they are sent and end when their client goes away.                 *)
(*                                                                         *)
(* One step is one critical section, one channel operation or one write to *)
(* the client.  A POST makes one message, which is identified with it; a   *)
(* stream is one GET /api/sse/events with its own channel.  A stream that  *)
(* gives no client_id gets an id of its own: the stream itself serves.     *)
(* HandleStats, which only reads, and refused requests are left out.       *)
(***************************************************************************)
EXTENDS Naturals, Sequences, FiniteSets, Functions, Registry

CONSTANTS
  Posts,      \* POST /api/sse/send requests, and their messages
  Streams,    \* GET /api/sse/events requests
  ClientIDs,  \* values of client_id
  StreamCap,  \* capacity of a stream's channel, 10 in the code
  Nil         \* no client_id yet

ASSUME CapAssumption == StreamCap \in Nat \ {0}
ASSUME DistinctAssumption == Streams \cap ClientIDs = {}

IDs == ClientIDs \cup Streams

VARIABLES
  store,      \* the messages in the MessageStore, in order
  listeners,  \* streams whose channel is in b.listeners
  ch,         \* contents of a stream's channel
  ppc,        \* HandleSend: idle, store, lock, broadcast, register, count, done
  pid,        \* its client_id, Nil before it starts
  todo,       \* listeners that the range of its Broadcast has yet to visit
  spc,        \* HandleEvents: idle, register, select, write, record, remove,
              \* unsubscribe, done
  sid,        \* its client id
  hand,       \* the message it is about to write: a sequence of at most one
  shown,      \* what was written and flushed to the client
  gone,       \* the client's request context is done
  registry,   \* the shared ConnectionRegistry
  tracker,    \* number of Record calls on the sse ProtocolTracker
  heard,      \* history: the listeners that a Broadcast found
  full,       \* history: those whose channel was full when it came to them
  prior       \* history: the POSTs that were done when the POST began

postVars == <<ppc, pid, todo, heard, full, prior>>
streamVars == <<spc, sid, hand, shown, gone>>
chanVars == <<listeners, ch>>
statVars == <<registry, tracker>>
vars == <<store, chanVars, postVars, streamVars, statVars>>

Init ==
  /\ store = <<>>
  /\ listeners = {}
  /\ ch = [s \in Streams |-> <<>>]
  /\ ppc = [p \in Posts |-> "idle"]
  /\ pid = [p \in Posts |-> Nil]
  /\ todo = [p \in Posts |-> {}]
  /\ spc = [s \in Streams |-> "idle"]
  /\ sid = [s \in Streams |-> s]
  /\ hand = [s \in Streams |-> <<>>]
  /\ shown = [s \in Streams |-> <<>>]
  /\ gone = [s \in Streams |-> FALSE]
  /\ registry = NewConnectionRegistry
  /\ tracker = 0
  /\ heard = [p \in Posts |-> {}]
  /\ full = [p \in Posts |-> {}]
  /\ prior = [p \in Posts |-> {}]

-----------------------------------------------------------------------------
(* HandleSend                                                              *)

GoPost(p, from, to) == ppc[p] = from /\ ppc' = [ppc EXCEPT ![p] = to]

PostStart(p, id) ==
  /\ GoPost(p, "idle", "store")
  /\ pid' = [pid EXCEPT ![p] = id]
  /\ prior' = [prior EXCEPT ![p] = { q \in Posts : ppc[q] = "done" }]
  /\ UNCHANGED <<store, chanVars, todo, heard, full, streamVars, statVars>>

PostStore(p) ==
  /\ GoPost(p, "store", "lock")
  /\ store' = Append(store, p)
  /\ UNCHANGED <<chanVars, pid, todo, heard, full, prior, streamVars, statVars>>

BroadcastBegin(p) ==
  /\ GoPost(p, "lock", "broadcast")
  /\ todo' = [todo EXCEPT ![p] = listeners]
  /\ heard' = [heard EXCEPT ![p] = listeners]
  /\ UNCHANGED <<store, chanVars, pid, full, prior, streamVars, statVars>>

\* The range comes to s: notes whether there is room in its channel.
Visit(p, s) ==
  /\ GoPost(p, "broadcast", "broadcast")
  /\ s \in todo[p]
  /\ todo' = [todo EXCEPT ![p] = @ \ {s}]
  /\ full' = [full EXCEPT ![p] = IF Len(ch[s]) < StreamCap THEN @ ELSE @ \cup {s}]
  /\ UNCHANGED <<store, listeners, pid, heard, prior, streamVars, statVars>>

\* Mutant: the message is offered without a buffer to put it in.
BroadcastSendUnbuffered(p, s) ==
  /\ Visit(p, s)
  /\ ch' = [ch EXCEPT ![s] = IF spc[s] = "select" /\ @ = <<>> THEN <<p>> ELSE @]

\* Mutant: ch <- msg on a channel without a buffer, and no default.
BroadcastSendBlocks(p, s) ==
  /\ Visit(p, s)
  /\ spc[s] = "select" /\ ch[s] = <<>>
  /\ ch' = [ch EXCEPT ![s] = <<p>>]

\* case ch <- msg, or default when the channel is full.
BroadcastSend(p, s) ==
  /\ Visit(p, s)
  /\ ch' = [ch EXCEPT ![s] = IF Len(@) < StreamCap THEN Append(@, p) ELSE @]

BroadcastEnd(p) ==
  /\ GoPost(p, "broadcast", "register")
  /\ todo[p] = {}
  /\ UNCHANGED <<store, chanVars, pid, todo, heard, full, prior, streamVars, statVars>>

PostRegister(p) ==
  /\ GoPost(p, "register", "count")
  /\ registry' = AddClient(registry, pid[p], "sse")
  /\ UNCHANGED <<store, chanVars, pid, todo, heard, full, prior, streamVars, tracker>>

\* RecordMessage and Tracker.Record; the handler returns.
PostCount(p) ==
  /\ GoPost(p, "count", "done")
  /\ registry' = RecordMessageOf(registry, pid[p])
  /\ tracker' = tracker + 1
  /\ UNCHANGED <<store, chanVars, pid, todo, heard, full, prior, streamVars>>

-----------------------------------------------------------------------------
(* HandleEvents                                                            *)

GoStream(s, from, to) == spc[s] = from /\ spc' = [spc EXCEPT ![s] = to]

\* mu.Lock() of the broadcaster succeeds.
WriteLock == \A p \in Posts : ppc[p] # "broadcast"

\* Mutant: a new stream is given the last message of the store to start with.
SubscribeReplaysLast(s, id) ==
  /\ GoStream(s, "idle", "register")
  /\ WriteLock
  /\ listeners' = listeners \cup {s}
  /\ sid' = [sid EXCEPT ![s] = id]
  /\ ch' = [ch EXCEPT ![s] = IF store = <<>> THEN <<>> ELSE <<store[Len(store)]>>]
  /\ UNCHANGED <<store, postVars, hand, shown, gone, statVars>>

Subscribe(s, id) ==
  /\ GoStream(s, "idle", "register")
  /\ WriteLock
  /\ listeners' = listeners \cup {s}
  /\ sid' = [sid EXCEPT ![s] = id]
  /\ UNCHANGED <<store, ch, postVars, hand, shown, gone, statVars>>

StreamRegister(s) ==
  /\ GoStream(s, "register", "select")
  /\ registry' = AddClient(registry, sid[s], "sse")
  /\ UNCHANGED <<store, chanVars, postVars, sid, hand, shown, gone, tracker>>

StreamReceive(s) ==
  /\ GoStream(s, "select", "write")
  /\ ch[s] # <<>>
  /\ hand' = [hand EXCEPT ![s] = <<Head(ch[s])>>]
  /\ ch' = [ch EXCEPT ![s] = Tail(@)]
  /\ UNCHANGED <<store, listeners, postVars, sid, shown, gone, statVars>>

\* Mutant: what waits in the channel is written along with the message, but before it.
StreamWriteDrains(s) ==
  /\ GoStream(s, "write", "record")
  /\ shown' = [shown EXCEPT ![s] = @ \o ch[s] \o hand[s]]
  /\ ch' = [ch EXCEPT ![s] = <<>>]
  /\ hand' = [hand EXCEPT ![s] = <<>>]
  /\ UNCHANGED <<store, listeners, postVars, sid, gone, statVars>>

\* Fprintf and Flush; an error of a client that is gone is ignored.
StreamWrite(s) ==
  /\ GoStream(s, "write", "record")
  /\ shown' = [shown EXCEPT ![s] = @ \o hand[s]]
  /\ hand' = [hand EXCEPT ![s] = <<>>]
  /\ UNCHANGED <<store, chanVars, postVars, sid, gone, statVars>>

\* RecordMessage, which ignores an id that is no longer there, and Record.
StreamRecord(s) ==
  /\ GoStream(s, "record", "select")
  /\ registry' = RecordMessageOf(registry, sid[s])
  /\ tracker' = tracker + 1
  /\ UNCHANGED <<store, chanVars, postVars, sid, hand, shown, gone>>

Disconnect(s) ==
  /\ spc[s] \notin {"idle", "done"}
  /\ ~gone[s]
  /\ gone' = [gone EXCEPT ![s] = TRUE]
  /\ UNCHANGED <<store, chanVars, postVars, spc, sid, hand, shown, statVars>>

\* Mutant: the handler returns without the deferred Remove.
StreamDoneKeepsEntry(s) ==
  /\ GoStream(s, "select", "unsubscribe")
  /\ gone[s]
  /\ UNCHANGED <<store, chanVars, postVars, sid, hand, shown, gone, statVars>>

\* select takes r.Context().Done().
StreamDone(s) ==
  /\ GoStream(s, "select", "remove")
  /\ gone[s]
  /\ UNCHANGED <<store, chanVars, postVars, sid, hand, shown, gone, statVars>>

\* The deferred calls run in reverse: Remove, then Unsubscribe.
StreamRemove(s) ==
  /\ GoStream(s, "remove", "unsubscribe")
  /\ registry' = RemoveClient(registry, sid[s])
  /\ UNCHANGED <<store, chanVars, postVars, sid, hand, shown, gone, tracker>>

Unsubscribe(s) ==
  /\ GoStream(s, "unsubscribe", "done")
  /\ WriteLock
  /\ listeners' = listeners \ {s}
  /\ UNCHANGED <<store, ch, postVars, sid, hand, shown, gone, statVars>>

-----------------------------------------------------------------------------
HandleSend(p) ==
  \/ PostStore(p) \/ BroadcastBegin(p) \/ BroadcastEnd(p)
  \/ PostRegister(p) \/ PostCount(p)
  \/ \E s \in Streams : BroadcastSend(p, s)

StreamStep(s) ==
  StreamRegister(s) \/ StreamWrite(s) \/ StreamRecord(s) \/ StreamRemove(s)

HandleEvents(s) ==
  \/ StreamStep(s) \/ StreamReceive(s) \/ StreamDone(s) \/ Unsubscribe(s)
  \/ \E id \in ClientIDs \cup {s} : Subscribe(s, id)

Next ==
  \/ \E p \in Posts : HandleSend(p) \/ \E id \in ClientIDs : PostStart(p, id)
  \/ \E s \in Streams : HandleEvents(s) \/ Disconnect(s)

Spec == Init /\ [][Next]_vars

\* Handlers run.  Its select picks uniformly among the ready cases, so a stream
\* takes each of them if it is ready again and again; sync.RWMutex lets no new
\* reader in while a writer waits.  A write to a client returns.
FairSpec ==
  /\ Spec
  /\ \A p \in Posts : WF_vars(HandleSend(p))
  /\ \A s \in Streams :
       /\ WF_vars(StreamStep(s))
       /\ SF_vars(StreamReceive(s))
       /\ SF_vars(StreamDone(s))
       /\ SF_vars(Unsubscribe(s))

-----------------------------------------------------------------------------
(* Properties                                                              *)

PostPcs == {"idle", "store", "lock", "broadcast", "register", "count", "done"}
StreamPcs ==
  {"idle", "register", "select", "write", "record", "remove", "unsubscribe", "done"}

\* Types; a channel holds at most StreamCap messages.
TypeOK ==
  /\ store \in Seq(Posts)
  /\ listeners \subseteq Streams
  /\ ch \in [Streams -> Seq(Posts)]
  /\ \A s \in Streams : Len(ch[s]) <= StreamCap
  /\ ppc \in [Posts -> PostPcs]
  /\ pid \in [Posts -> ClientIDs \cup {Nil}]
  /\ \A p \in Posts : ppc[p] # "idle" => pid[p] \in ClientIDs
  /\ todo \in [Posts -> SUBSET Streams]
  /\ spc \in [Streams -> StreamPcs]
  /\ sid \in [Streams -> IDs]
  /\ hand \in [Streams -> Seq(Posts)]
  /\ shown \in [Streams -> Seq(Posts)]
  /\ gone \in [Streams -> BOOLEAN]
  /\ IsRegistry(registry, IDs, {"sse"})
  /\ tracker \in Nat
  /\ heard \in [Posts -> SUBSET Streams]
  /\ full \in [Posts -> SUBSET Streams]
  /\ prior \in [Posts -> SUBSET Posts]

\* What a stream's channel has carried so far.
Carried(s) == shown[s] \o hand[s] \o ch[s]

\* A stream is given no message twice, also not one whose POST has stored it, or is
\* in the middle of its Broadcast, when the stream subscribes.
NoRepeats == \A s \in Streams : IsInjective(Carried(s))

\* If a POST was answered before another one began, no stream shows the two in
\* the other order.  POSTs that overlap may be shown in different orders by two
\* streams, and in another order than the store's.
SequentialPostsInOrder ==
  \A s \in Streams : \A i, j \in DOMAIN Carried(s) :
    i < j => Carried(s)[j] \notin prior[Carried(s)[i]]

\* A stream that was subscribed when a broadcast began is given its message unless its
\* channel was full just then: none is lost for another reason, such as the moment
\* between Subscribe and the first select, a slow write, or an earlier loss.
NoEarlyLoss ==
  \A p \in Posts : \A s \in heard[p] \ todo[p] :
    p \in Range(Carried(s)) \/ s \in full[p]

\* The registry has an entry only for a stream that has not returned or for the
\* sender of a POST: a stream leaves no entry behind that nobody made.
EntriesHaveOwners ==
  \A id \in DOMAIN registry :
    \/ \E s \in Streams :
         sid[s] = id /\ spc[s] \in {"select", "write", "record", "remove"}
    \/ \E p \in Posts : pid[p] = id /\ ppc[p] \in {"count", "done"}

\* A stream whose client left ends and is no listener any more, and every POST
\* is answered, whatever the streams do.
StreamsAndPostsEnd ==
  /\ \A s \in Streams : gone[s] ~> (spc[s] = "done" /\ s \notin listeners)
  /\ \A p \in Posts : (ppc[p] # "idle") ~> (ppc[p] = "done")

\* CommScope-TRD.md:64, the registry "Tracks per-connection" id, protocol and
\* count: a stream that is being served has its entry.
LiveStreamsTracked ==
  \A s \in Streams :
    spc[s] \in {"select", "write", "record"} => sid[s] \in DOMAIN registry
=============================================================================

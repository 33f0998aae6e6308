------------------------------- MODULE WSHub -------------------------------
(***************************************************************************)
(* The WebSocket hub (internal/handlers/websocket.go): the goroutine of    *)
(* WSHub.Run, the HandleConnect that admits a client, the readPump and     *)
(* writePump goroutines of each client, and the concurrent HandleSend      *)
(* requests that publish over HTTP.                                        *)
(*                                                                         *)
(* A Go channel is a sequence.  register and unregister have no buffer: a  *)
(* receive by the hub is a joint step with a goroutine that is blocked in  *)
(* the send.  broadcast and each client's Send are buffered; closed[c]     *)
(* says that Send was closed, after which its buffer can still be drained. *)
(* One step is one channel operation, one critical section under h.mu, one *)
(* registry or tracker call, or one call of the gorilla library.           *)
(*                                                                         *)
(* HandleStats only reads, under h.mu.RLock, and is left out here.         *)
(***************************************************************************)
EXTENDS Naturals, Sequences, FiniteSets, Registry

CONSTANTS
  Clients,       \* WSClient objects, one per upgraded connection
  Posters,       \* concurrent requests POST /api/ws/send
  ClientIDs,     \* values of the client_id parameter
  Messages,      \* payloads, each used once (a bound on the behaviours)
  SendCap,       \* capacity of a client's Send channel, 256 in the code
  BroadcastCap,  \* capacity of the broadcast channel, 256 in the code
  Nil            \* no client, no message, no client_id, not yet a member

ASSUME CapAssumption ==
  /\ SendCap \in Nat \ {0}
  /\ BroadcastCap \in Nat \ {0}

ASSUME NilAssumption == Nil \notin ClientIDs \cup Clients \cup Messages \cup Nat

VARIABLES
  clients,    \* h.clients
  broadcast,  \* h.broadcast
  hubPc,      \* where Run is: select, or inside one of its three cases
  hubArg,     \* the client or the message that the case received
  hubTodo,    \* clients that the range over h.clients has yet to visit
  sendq,      \* c.Send
  closed,     \* c.Send has been closed
  conn,       \* c.Conn: none, open, lost (reads fail), closed (by the server)
  handler,    \* HandleConnect of c: idle, register, start, done
  rp,         \* readPump of c
  rpMsg,      \* the message readPump holds
  wp,         \* writePump of c
  frame,      \* messages written to the WebSocket message being composed
  batch,      \* how many more writePump will take into it (n - i)
  ps,         \* HandleSend of poster p: idle, send, record
  psMsg, psID,
  fresh,      \* payloads nobody has sent yet
  registry,   \* the shared ConnectionRegistry
  tracker,    \* number of Record calls on the ws ProtocolTracker
  delivered,  \* history: messages flushed to c's connection
  hubLog,     \* history: messages taken from broadcast, in order
  joined      \* history: length of hubLog when c entered h.clients, or Nil

hubVars  == <<clients, hubPc, hubArg, hubTodo, hubLog, joined>>
chanVars == <<sendq, closed>>
readVars == <<rp, rpMsg>>
writeVars == <<wp, frame, batch, delivered>>
postVars == <<ps, psMsg, psID, registry, tracker>>
vars == <<clients, broadcast, hubPc, hubArg, hubTodo, sendq, closed, conn,
          handler, rp, rpMsg, wp, frame, batch, ps, psMsg, psID, fresh,
          registry, tracker, delivered, hubLog, joined>>

Init ==
  /\ clients = {}
  /\ broadcast = <<>>
  /\ hubPc = "select"
  /\ hubArg = Nil
  /\ hubTodo = {}
  /\ sendq = [c \in Clients |-> <<>>]
  /\ closed = [c \in Clients |-> FALSE]
  /\ conn = [c \in Clients |-> "none"]
  /\ handler = [c \in Clients |-> "idle"]
  /\ rp = [c \in Clients |-> "off"]
  /\ rpMsg = [c \in Clients |-> Nil]
  /\ wp = [c \in Clients |-> "off"]
  /\ frame = [c \in Clients |-> <<>>]
  /\ batch = [c \in Clients |-> 0]
  /\ ps = [p \in Posters |-> "idle"]
  /\ psMsg = [p \in Posters |-> Nil]
  /\ psID = [p \in Posters |-> Nil]
  /\ fresh = Messages
  /\ registry = NewConnectionRegistry
  /\ tracker = 0
  /\ delivered = [c \in Clients |-> <<>>]
  /\ hubLog = <<>>
  /\ joined = [c \in Clients |-> Nil]

-----------------------------------------------------------------------------
(* HandleConnect.  A failed Upgrade returns and changes nothing.           *)

\* Upgrade succeeds, Registry.Add, then block in client.Hub.register <- client.
Connect(c, id) ==
  /\ handler[c] = "idle"
  /\ handler' = [handler EXCEPT ![c] = "register"]
  /\ conn' = [conn EXCEPT ![c] = "open"]
  /\ registry' = AddClient(registry, id, "ws")
  /\ UNCHANGED <<broadcast, fresh, tracker, ps, psMsg, psID>>
  /\ UNCHANGED <<hubVars, chanVars, readVars, writeVars>>

\* go client.writePump(); go client.readPump()
StartPumps(c) ==
  /\ handler[c] = "start"
  /\ handler' = [handler EXCEPT ![c] = "done"]
  /\ wp' = [wp EXCEPT ![c] = "select"]
  /\ rp' = [rp EXCEPT ![c] = "read"]
  /\ UNCHANGED <<broadcast, conn, fresh, rpMsg, frame, batch, delivered>>
  /\ UNCHANGED <<hubVars, chanVars, postVars>>

\* The peer closes, the network drops, the 60 s read deadline passes or a
\* frame is over maxMessageSize: from here on ReadMessage returns an error.
LoseConnection(c) ==
  /\ conn[c] = "open"
  /\ conn' = [conn EXCEPT ![c] = "lost"]
  /\ UNCHANGED <<broadcast, handler, fresh>>
  /\ UNCHANGED <<hubVars, chanVars, readVars, writeVars, postVars>>

-----------------------------------------------------------------------------
(* WSHub.Run: a select with one case per channel.                          *)

ReceiveRegister(c) ==
  /\ hubPc = "select"
  /\ handler[c] = "register"
  /\ handler' = [handler EXCEPT ![c] = "start"]
  /\ hubPc' = "add"
  /\ hubArg' = c
  /\ UNCHANGED <<clients, hubTodo, hubLog, joined, broadcast, conn, fresh>>
  /\ UNCHANGED <<chanVars, readVars, writeVars, postVars>>

AddMember ==
  /\ hubPc = "add"
  /\ clients' = clients \cup {hubArg}
  /\ joined' = [joined EXCEPT ![hubArg] = Len(hubLog)]
  /\ hubPc' = "select"
  /\ hubArg' = Nil
  /\ UNCHANGED <<hubTodo, hubLog, broadcast, conn, handler, fresh>>
  /\ UNCHANGED <<chanVars, readVars, writeVars, postVars>>

ReceiveUnregister(c) ==
  /\ hubPc = "select"
  /\ rp[c] = "unregister"
  /\ rp' = [rp EXCEPT ![c] = "close"]
  /\ hubPc' = "remove"
  /\ hubArg' = c
  /\ UNCHANGED <<clients, hubTodo, hubLog, joined, broadcast, conn, handler>>
  /\ UNCHANGED <<rpMsg, fresh, chanVars, writeVars, postVars>>

\* close(c.Send).  The callers know c to be a member: closing a channel
\* twice is a panic.
CloseSend(c) == closed' = [closed EXCEPT ![c] = TRUE]

\* Mutant: the case forgets close(client.Send).
RemoveKeepsSendOpen ==
  /\ hubPc = "remove"
  /\ clients' = clients \ {hubArg}
  /\ hubPc' = "select"
  /\ hubArg' = Nil
  /\ UNCHANGED <<hubTodo, hubLog, joined, broadcast, closed, sendq, conn>>
  /\ UNCHANGED <<handler, fresh, readVars, writeVars, postVars>>

RemoveMember ==
  /\ hubPc = "remove"
  /\ IF hubArg \in clients
       THEN /\ clients' = clients \ {hubArg}
            /\ CloseSend(hubArg)
       ELSE UNCHANGED <<clients, closed>>
  /\ hubPc' = "select"
  /\ hubArg' = Nil
  /\ UNCHANGED <<hubTodo, hubLog, joined, broadcast, sendq, conn, handler>>
  /\ UNCHANGED <<fresh, readVars, writeVars, postVars>>

\* Takes the next message and locks h.mu until Unlock.
ReceiveBroadcast ==
  /\ hubPc = "select"
  /\ broadcast # <<>>
  /\ broadcast' = Tail(broadcast)
  /\ hubLog' = Append(hubLog, Head(broadcast))
  /\ hubPc' = "fanout"
  /\ hubArg' = Head(broadcast)
  /\ hubTodo' = clients
  /\ UNCHANGED <<clients, joined, conn, handler, fresh>>
  /\ UNCHANGED <<chanVars, readVars, writeVars, postVars>>

\* case client.Send <- message
Enqueue(c) ==
  /\ Len(sendq[c]) < SendCap
  /\ sendq' = [sendq EXCEPT ![c] = Append(@, hubArg)]
  /\ UNCHANGED <<clients, closed>>

\* Mutant: close(client.Send) without the delete.
EvictKeepsMember(c) ==
  /\ Len(sendq[c]) >= SendCap
  /\ CloseSend(c)
  /\ UNCHANGED <<clients, sendq>>

\* Mutant: an empty default, as in the other two broadcasters.
EvictDropsMessage(c) ==
  /\ Len(sendq[c]) >= SendCap
  /\ UNCHANGED <<clients, closed, sendq>>

\* default: a client whose buffer is full is dropped.
Evict(c) ==
  /\ Len(sendq[c]) >= SendCap
  /\ CloseSend(c)
  /\ clients' = clients \ {c}
  /\ UNCHANGED sendq

\* The range visits the members in any order.
Fanout(c) ==
  /\ hubPc = "fanout"
  /\ c \in hubTodo
  /\ hubTodo' = hubTodo \ {c}
  /\ Enqueue(c) \/ Evict(c)
  /\ UNCHANGED <<hubPc, hubArg, hubLog, joined, broadcast, conn, handler>>
  /\ UNCHANGED <<fresh, readVars, writeVars, postVars>>

\* Mutant: with nobody left in the map, h.mu is never unlocked.
UnlockIfMembers ==
  /\ hubPc = "fanout"
  /\ hubTodo = {}
  /\ clients # {}
  /\ hubPc' = "select"
  /\ hubArg' = Nil
  /\ UNCHANGED <<clients, hubTodo, hubLog, joined, broadcast, conn, handler>>
  /\ UNCHANGED <<fresh, chanVars, readVars, writeVars, postVars>>

Unlock ==
  /\ hubPc = "fanout"
  /\ hubTodo = {}
  /\ hubPc' = "select"
  /\ hubArg' = Nil
  /\ UNCHANGED <<clients, hubTodo, hubLog, joined, broadcast, conn, handler>>
  /\ UNCHANGED <<fresh, chanVars, readVars, writeVars, postVars>>

-----------------------------------------------------------------------------
(* readPump                                                                *)

ReadMessage(c, m) ==
  /\ rp[c] = "read"
  /\ conn[c] = "open"
  /\ m \in fresh
  /\ fresh' = fresh \ {m}
  /\ rpMsg' = [rpMsg EXCEPT ![c] = m]
  /\ rp' = [rp EXCEPT ![c] = "publish"]
  /\ UNCHANGED <<broadcast, conn, handler>>
  /\ UNCHANGED <<hubVars, chanVars, writeVars, postVars>>

\* c.Hub.broadcast <- message blocks while the buffer is full.
Publish(c) ==
  /\ rp[c] = "publish"
  /\ Len(broadcast) < BroadcastCap
  /\ broadcast' = Append(broadcast, rpMsg[c])
  /\ rpMsg' = [rpMsg EXCEPT ![c] = Nil]
  /\ rp' = [rp EXCEPT ![c] = "read"]
  /\ UNCHANGED <<conn, handler, fresh>>
  /\ UNCHANGED <<hubVars, chanVars, writeVars, postVars>>

\* Mutant: readPump returns without unregistering.
ReadErrorSkipsUnregister(c) ==
  /\ rp[c] = "read"
  /\ conn[c] # "open"
  /\ rp' = [rp EXCEPT ![c] = "close"]
  /\ UNCHANGED <<broadcast, conn, handler, fresh, rpMsg>>
  /\ UNCHANGED <<hubVars, chanVars, writeVars, postVars>>

\* break, then the deferred function blocks in c.Hub.unregister <- c.
ReadError(c) ==
  /\ rp[c] = "read"
  /\ conn[c] # "open"
  /\ rp' = [rp EXCEPT ![c] = "unregister"]
  /\ UNCHANGED <<broadcast, conn, handler, fresh, rpMsg>>
  /\ UNCHANGED <<hubVars, chanVars, writeVars, postVars>>

ReadPumpClose(c) ==
  /\ rp[c] = "close"
  /\ conn' = [conn EXCEPT ![c] = "closed"]
  /\ rp' = [rp EXCEPT ![c] = "done"]
  /\ UNCHANGED <<broadcast, handler, fresh, rpMsg>>
  /\ UNCHANGED <<hubVars, chanVars, writeVars, postVars>>

-----------------------------------------------------------------------------
(* writePump.  Any write may fail: the peer is gone, or 10 s pass.         *)

\* case message, ok := <-c.Send, with ok
WriteReceive(c) ==
  /\ wp[c] = "select"
  /\ sendq[c] # <<>>
  /\ frame' = [frame EXCEPT ![c] = <<Head(sendq[c])>>]
  /\ sendq' = [sendq EXCEPT ![c] = Tail(@)]
  /\ wp' = [wp EXCEPT ![c] = "frame"]
  /\ UNCHANGED <<broadcast, closed, conn, handler, fresh, batch, delivered>>
  /\ UNCHANGED <<hubVars, readVars, postVars>>

\* The same case with !ok: the channel is closed and drained.
WriteHungUp(c) ==
  /\ wp[c] = "select"
  /\ sendq[c] = <<>>
  /\ closed[c]
  /\ wp' = [wp EXCEPT ![c] = "exit"]
  /\ UNCHANGED <<broadcast, conn, handler, fresh, frame, batch, delivered>>
  /\ UNCHANGED <<hubVars, chanVars, readVars, postVars>>

\* Mutant: n also counts the message that was already taken.
WriteBeginCountsTaken(c) ==
  /\ wp[c] = "frame"
  /\ wp' = [wp EXCEPT ![c] = "drain"]
  /\ batch' = [batch EXCEPT ![c] = Len(sendq[c]) + 1]
  /\ UNCHANGED <<broadcast, conn, handler, fresh, frame, delivered>>
  /\ UNCHANGED <<hubVars, chanVars, readVars, postVars>>

\* NextWriter, Write and n := len(c.Send)
WriteBegin(c) ==
  /\ wp[c] = "frame"
  /\ wp' = [wp EXCEPT ![c] = "drain"]
  /\ batch' = [batch EXCEPT ![c] = Len(sendq[c])]
  /\ UNCHANGED <<broadcast, conn, handler, fresh, frame, delivered>>
  /\ UNCHANGED <<hubVars, chanVars, readVars, postVars>>

\* Mutant: i <= n instead of i < n.
WriteDrainTooFar(c) ==
  /\ wp[c] = "drain"
  /\ batch[c] >= 0
  /\ sendq[c] # <<>>
  /\ frame' = [frame EXCEPT ![c] = Append(@, Head(sendq[c]))]
  /\ sendq' = [sendq EXCEPT ![c] = Tail(@)]
  /\ batch' = [batch EXCEPT ![c] = @ - 1]
  /\ UNCHANGED <<broadcast, closed, conn, handler, fresh, wp, delivered>>
  /\ UNCHANGED <<hubVars, readVars, postVars>>

\* w.Write(<-c.Send).  The receive does not look at ok.
WriteDrain(c) ==
  /\ wp[c] = "drain"
  /\ batch[c] > 0
  /\ sendq[c] # <<>>
  /\ frame' = [frame EXCEPT ![c] = Append(@, Head(sendq[c]))]
  /\ sendq' = [sendq EXCEPT ![c] = Tail(@)]
  /\ batch' = [batch EXCEPT ![c] = @ - 1]
  /\ UNCHANGED <<broadcast, closed, conn, handler, fresh, wp, delivered>>
  /\ UNCHANGED <<hubVars, readVars, postVars>>

\* w.Close() sends the message.
WriteFlush(c) ==
  /\ wp[c] = "drain"
  /\ batch[c] = 0
  /\ conn[c] # "closed"
  /\ delivered' = [delivered EXCEPT ![c] = @ \o frame[c]]
  /\ frame' = [frame EXCEPT ![c] = <<>>]
  /\ wp' = [wp EXCEPT ![c] = "select"]
  /\ UNCHANGED <<broadcast, conn, handler, fresh, batch>>
  /\ UNCHANGED <<hubVars, chanVars, readVars, postVars>>

\* Mutant: continue instead of return.
WriteErrorContinues(c) ==
  /\ wp[c] = "frame" \/ (wp[c] = "drain" /\ batch[c] = 0)
  /\ wp' = [wp EXCEPT ![c] = "select"]
  /\ UNCHANGED <<broadcast, conn, handler, fresh, frame, batch, delivered>>
  /\ UNCHANGED <<hubVars, chanVars, readVars, postVars>>

\* NextWriter or the final Close returns an error.
WriteError(c) ==
  /\ wp[c] = "frame" \/ (wp[c] = "drain" /\ batch[c] = 0)
  /\ wp' = [wp EXCEPT ![c] = "exit"]
  /\ UNCHANGED <<broadcast, conn, handler, fresh, frame, batch, delivered>>
  /\ UNCHANGED <<hubVars, chanVars, readVars, postVars>>

\* case <-ticker.C: the ping fails.  A ping that succeeds changes nothing.
PingError(c) ==
  /\ wp[c] = "select"
  /\ wp' = [wp EXCEPT ![c] = "exit"]
  /\ UNCHANGED <<broadcast, conn, handler, fresh, frame, batch, delivered>>
  /\ UNCHANGED <<hubVars, chanVars, readVars, postVars>>

WritePumpClose(c) ==
  /\ wp[c] = "exit"
  /\ conn' = [conn EXCEPT ![c] = "closed"]
  /\ wp' = [wp EXCEPT ![c] = "done"]
  /\ UNCHANGED <<broadcast, handler, fresh, frame, batch, delivered>>
  /\ UNCHANGED <<hubVars, chanVars, readVars, postVars>>

-----------------------------------------------------------------------------
(* HandleSend.  Requests that are refused (method, JSON, empty text)       *)
(* return before any state changes.                                        *)

PostAccept(p, m, id) ==
  /\ ps[p] = "idle"
  /\ m \in fresh
  /\ fresh' = fresh \ {m}
  /\ psMsg' = [psMsg EXCEPT ![p] = m]
  /\ psID' = [psID EXCEPT ![p] = id]
  /\ ps' = [ps EXCEPT ![p] = "send"]
  /\ UNCHANGED <<broadcast, conn, handler, registry, tracker>>
  /\ UNCHANGED <<hubVars, chanVars, readVars, writeVars>>

\* h.Hub.broadcast <- payload
PostPublish(p) ==
  /\ ps[p] = "send"
  /\ Len(broadcast) < BroadcastCap
  /\ broadcast' = Append(broadcast, psMsg[p])
  /\ ps' = [ps EXCEPT ![p] = "record"]
  /\ UNCHANGED <<conn, handler, fresh, psMsg, psID, registry, tracker>>
  /\ UNCHANGED <<hubVars, chanVars, readVars, writeVars>>

\* Tracker.Record, then Registry.RecordMessage if there is a client_id.  No
\* action of this module reads the tracker, so the two calls are one step.
PostRecord(p) ==
  /\ ps[p] = "record"
  /\ tracker' = tracker + 1
  /\ registry' = IF psID[p] = Nil THEN registry
                 ELSE RecordMessageOf(registry, psID[p])
  /\ ps' = [ps EXCEPT ![p] = "idle"]
  /\ psMsg' = [psMsg EXCEPT ![p] = Nil]
  /\ psID' = [psID EXCEPT ![p] = Nil]
  /\ UNCHANGED <<broadcast, conn, handler, fresh>>
  /\ UNCHANGED <<hubVars, chanVars, readVars, writeVars>>

-----------------------------------------------------------------------------
HandleConnect(c) == (\E id \in ClientIDs : Connect(c, id)) \/ StartPumps(c)

Run ==
  \/ \E c \in Clients : ReceiveRegister(c) \/ ReceiveUnregister(c) \/ Fanout(c)
  \/ AddMember \/ RemoveMember \/ ReceiveBroadcast \/ Unlock

ReadPump(c) ==
  \/ \E m \in Messages : ReadMessage(c, m)
  \/ Publish(c) \/ ReadError(c) \/ ReadPumpClose(c)

WritePump(c) ==
  \/ WriteReceive(c) \/ WriteHungUp(c) \/ WriteBegin(c) \/ WriteDrain(c)
  \/ WriteFlush(c) \/ WriteError(c) \/ PingError(c) \/ WritePumpClose(c)

HandleSend(p) ==
  \/ \E m \in Messages, id \in ClientIDs \cup {Nil} : PostAccept(p, m, id)
  \/ PostPublish(p) \/ PostRecord(p)

Next ==
  \/ Run
  \/ \E c \in Clients :
       HandleConnect(c) \/ LoseConnection(c) \/ ReadPump(c) \/ WritePump(c)
  \/ \E p \in Posters : HandleSend(p)

Spec == Init /\ [][Next]_vars

(***************************************************************************)
(* Fairness.  Goroutines run: weak fairness of every step that does not    *)
(* wait for the outside world.  Two kinds of step compete for the hub and  *)
(* get strong fairness: its select picks uniformly at random among the     *)
(* ready cases, and senders blocked on broadcast are served in FIFO order. *)
(* A write returns within writeWait, with or without success, so WriteSome *)
(* is one fair step.  Nothing forces a client to connect, to send, to lose *)
(* its connection or to miss a ping.                                       *)
(***************************************************************************)
WriteSome(c) ==
  \/ WriteReceive(c) \/ WriteHungUp(c) \/ WriteBegin(c) \/ WriteDrain(c)
  \/ WriteFlush(c) \/ WriteError(c) \/ WritePumpClose(c)

HubCase == AddMember \/ RemoveMember \/ Unlock \/ \E c \in Clients : Fanout(c)

HubFairness == WF_vars(HubCase) /\ SF_vars(ReceiveBroadcast)

ClientFairness(c) ==
  /\ WF_vars(StartPumps(c))
  /\ SF_vars(ReceiveRegister(c) \/ ReceiveUnregister(c))
  /\ SF_vars(Publish(c))
  /\ WF_vars(ReadError(c) \/ ReadPumpClose(c))
  /\ WF_vars(WriteSome(c))

PostFairness(p) == SF_vars(PostPublish(p)) /\ WF_vars(PostRecord(p))

FairSpec ==
  /\ Spec
  /\ HubFairness
  /\ \A c \in Clients : ClientFairness(c)
  /\ \A p \in Posters : PostFairness(p)

-----------------------------------------------------------------------------
(* Safety                                                                  *)

\* Every variable has the type its declaration in websocket.go gives it, and
\* no channel holds more than its capacity.
TypeOK ==
  /\ clients \subseteq Clients
  /\ broadcast \in Seq(Messages) /\ Len(broadcast) <= BroadcastCap
  /\ hubPc \in {"select", "add", "remove", "fanout"}
  /\ hubPc = "select" => hubArg = Nil
  /\ hubPc \in {"add", "remove"} => hubArg \in Clients
  /\ hubPc = "fanout" => hubArg \in Messages
  /\ hubTodo \subseteq Clients
  /\ sendq \in [Clients -> Seq(Messages)]
  /\ \A c \in Clients : Len(sendq[c]) <= SendCap
  /\ closed \in [Clients -> BOOLEAN]
  /\ conn \in [Clients -> {"none", "open", "lost", "closed"}]
  /\ handler \in [Clients -> {"idle", "register", "start", "done"}]
  /\ rp \in [Clients -> {"off", "read", "publish", "unregister", "close", "done"}]
  /\ rpMsg \in [Clients -> Messages \cup {Nil}]
  /\ \A c \in Clients : rp[c] = "publish" => rpMsg[c] \in Messages
  /\ wp \in [Clients -> {"off", "select", "frame", "drain", "exit", "done"}]
  /\ frame \in [Clients -> Seq(Messages)]
  /\ batch \in [Clients -> Nat]
  /\ ps \in [Posters -> {"idle", "send", "record"}]
  /\ psMsg \in [Posters -> Messages \cup {Nil}]
  /\ \A p \in Posters : ps[p] = "send" => psMsg[p] \in Messages
  /\ psID \in [Posters -> ClientIDs \cup {Nil}]
  /\ fresh \subseteq Messages
  /\ IsRegistry(registry, ClientIDs, {"ws"})
  /\ tracker \in Nat
  /\ delivered \in [Clients -> Seq(Messages)]
  /\ hubLog \in Seq(Messages)
  /\ joined \in [Clients -> Nat \cup {Nil}]

\* Neither of the two places that close or send on client.Send ever meets a
\* closed channel, which in Go is a panic that ends the whole server: not the
\* broadcast loop (lines 77-85), though it deletes from the map it ranges
\* over, and not the unregister case (lines 65-72) that comes after an
\* eviction of the same client.
SendTargetsOpen ==
  /\ hubPc = "fanout" => \A c \in hubTodo : ~closed[c]
  /\ hubPc = "remove" /\ hubArg \in clients => ~closed[hubArg]

\* The bare receive of line 164 finds the n messages that line 161 counted:
\* nobody else takes from Send, and closing it keeps its buffer.  Were one
\* missing, writePump would hang without a deadline, or write an empty line
\* for a closed channel.
DrainNeverStalls ==
  \A c \in Clients : wp[c] = "drain" => batch[c] <= Len(sendq[c])

\* What c's Send has carried so far, and what it should carry.
Received(c) == delivered[c] \o frame[c] \o sendq[c]
Owed(c) == SubSeq(hubLog, joined[c] + 1, Len(hubLog))

\* A client that is in h.clients has been handed every message broadcast
\* since it was added, once and in the hub's order; the one now being fanned
\* out is still to come if the range has not reached the client.  A full
\* buffer costs the client its membership, never a message in the middle.
MembersMissNothing ==
  \A c \in clients :
    Owed(c) = IF c \in hubTodo THEN Append(Received(c), hubArg) ELSE Received(c)

\* No ghost members: the hub sends to a client only while a readPump is there
\* to unregister it, up to the moment that the hub handles the unregister.
NoGhostMember ==
  \A c \in clients :
    rp[c] \in {"close", "done"} => hubPc = "remove" /\ hubArg = c

-----------------------------------------------------------------------------
(* Liveness                                                                *)

\* Both pumps of a client whose connection is gone, or that was evicted, end,
\* and the hub forgets it: pumps that wait for each other through the hub, a
\* channel and the connection do not leak.
NoGoroutineLeak ==
  \A c \in Clients :
    (handler[c] = "done" /\ (conn[c] # "open" \/ closed[c]))
      ~> (rp[c] = "done" /\ wp[c] = "done" /\ c \notin clients)

\* Nobody blocks on the hub for ever: an upgraded client is registered and
\* gets its pumps, a readPump gets its message onto broadcast, and a POST is
\* answered, whatever state the other clients are in.
NobodyBlocksForever ==
  /\ \A c \in Clients :
       /\ handler[c] = "register" ~> handler[c] = "done"
       /\ rp[c] = "publish" ~> rp[c] = "read"
  /\ \A p \in Posters : ps[p] = "send" ~> ps[p] = "idle"

\* A client that stays a member is sent everything, not merely queued it:
\* since payloads run out, it is again and again up to date with the hub and
\* the hub with the senders.
UpToDate(c) == joined[c] # Nil /\ delivered[c] = Owed(c)

StayingMemberGetsAll ==
  \A c \in Clients : <>[](c \in clients) => []<>(UpToDate(c) /\ broadcast = <<>>)

-----------------------------------------------------------------------------
(* Refinement                                                              *)

\* Seen from outside the hub is a WSBroadcast: one order of all messages, of
\* which each client is sent a gapless run that begins where it joined.
Broadcast == INSTANCE WSBroadcast WITH log <- hubLog, start <- joined
ImplementsBroadcast == Broadcast!Spec

=============================================================================

------------------------------- MODULE WebRTC -------------------------------
(***************************************************************************)
(* WebRTC: the signaling handler (internal/webrtc/signaling.go), the       *)
(* browser's WebRTCAdapter (web, webrtc.adapter.ts), and other clients     *)
(* that offer the server a connection.                                     *)
(*                                                                         *)
(* A call of the adapter's connect() is one value, together with the peer  *)
(* connection, the data channel, the offer and the request that it makes.  *)
(* connect() goes from one await to the next in a step, and every step     *)
(* uses this.pc as it is by then.  A step of the handler is one critical   *)
(* section or one call of the library.                                     *)
(*                                                                         *)
(* External: the browser's connections, and pion's.  An end gathers its    *)
(* candidates once its local description is set; the text of a description *)
(* has those that were there when it was made.  A channel can open if one  *)
(* of its ends was sent a candidate of the other.                          *)
(***************************************************************************)
EXTENDS Naturals, FiniteSets, Functions, Registry

CONSTANTS
  Connects,  \* calls of the adapter's connect()
  Others,    \* offers of other clients
  PeerIDs,   \* values of peer_id
  MaxTexts   \* bound: messages that a client sends on its channel

ASSUME ClientsAssumption ==
  Connects \cap Others = {} /\ PeerIDs \cap (Connects \cup Others) = {}
ASSUME FiniteAssumption == IsFiniteSet(Connects \cup Others)
ASSUME TextsAssumption == MaxTexts \in Nat

Clients == Connects \cup Others

\* An offer without peer_id gets an id of its own: the offer itself serves.
Peers == PeerIDs \cup Clients

VARIABLES
  pc,           \* this.pc, with this.dc: a set of at most one, empty for null
  rtcConnected, \* this.isConnected
  step,         \* connect(): idle, offer, local, fetch, remote (the await that
                \* it is at), done, failed
  target,       \* the connection whose setRemoteDescription it called
  sig,          \* a connection's signalingState: none (not made), stable,
                \* offered (have-local-offer), answered (stable again), closed
  answerOf,     \* the call whose answer a connection has accepted
  hs,           \* HandleOffer: idle, add, remote, answer, local, done, refused
  peer,         \* its peerID
  connections,  \* Sessions.connections: the offer that a peer's is made for
  channels,     \* Sessions.channels, in the same way
  peers,        \* the ConnectionRegistry
  carried,      \* ends whose description came with candidates
  chan,         \* a data channel: none, open, closed
  texts,        \* messages sent on it
  om,           \* its OnMessage callback: idle, track, echo
  echoes,       \* messages that the callback is done with
  rtcTracker,   \* number of Record calls on the webrtc ProtocolTracker
  overlap,      \* history: calls of connect() that were at an await together
  replaced,     \* history: connections that another connect() found in this.pc
  superseded,   \* history: offers whose stored connection another one replaced
  newest        \* history: the offer that made a peer's entry: a set of at most one

adapterVars == <<pc, rtcConnected, step, target, sig, answerOf, overlap, replaced>>
handlerVars == <<hs, peer, connections, superseded, newest>>
channelVars == <<channels, chan, texts, om, echoes, rtcTracker>>
rtcVars == <<adapterVars, handlerVars, channelVars, carried, peers>>

Ends == {"client", "server"} \X Clients

\* An end has its local description set: it gathers candidates.  Other clients may
\* do so before they offer.
MayGather(e) ==
  CASE e[1] = "server"                        -> hs[e[2]] = "done"
    [] e[1] = "client" /\ e[2] \in Connects   -> sig[e[2]] \in {"offered", "answered"}
    [] e[1] = "client" /\ e[2] \in Others     -> TRUE

RTCInit ==
  /\ pc = {}
  /\ rtcConnected = FALSE
  /\ step = [k \in Connects |-> "idle"]
  /\ target = [k \in Connects |-> {}]
  /\ sig = [k \in Connects |-> "none"]
  /\ answerOf = [k \in Connects |-> {}]
  /\ hs = [k \in Clients |-> "idle"]
  /\ peer = [k \in Clients |-> k]
  /\ connections = [p \in Peers |-> {}]
  /\ channels = [p \in Peers |-> {}]
  /\ peers = NewConnectionRegistry
  /\ carried = {}
  /\ chan = [k \in Clients |-> "none"]
  /\ texts = [k \in Clients |-> 0]
  /\ om = [k \in Clients |-> "idle"]
  /\ echoes = [k \in Clients |-> 0]
  /\ rtcTracker = 0
  /\ overlap = {}
  /\ replaced = {}
  /\ superseded = {}
  /\ newest = [p \in Peers |-> {}]

-----------------------------------------------------------------------------
(* WebRTCAdapter                                                           *)

AtAwait(k) == step[k] \in {"offer", "local", "fetch", "remote"}

GoConnect(k, from, to) == step[k] = from /\ step' = [step EXCEPT ![k] = to]

\* The calls that overlap once k has begun.
AwaitTogether(k) ==
  LET others == { j \in Connects : AtAwait(j) }
  IN  IF others = {} THEN {} ELSE others \cup {k}

\* A new connection and data channel, and createOffer() called; the guard of
\* connect() returns at once if a connected connection is there.
RTCConnect(k, p) ==
  /\ ~(pc # {} /\ rtcConnected)
  /\ GoConnect(k, "idle", "offer")
  /\ pc' = {k}
  /\ sig' = [sig EXCEPT ![k] = "stable"]
  /\ peer' = [peer EXCEPT ![k] = p]
  /\ overlap' = overlap \cup AwaitTogether(k)
  /\ replaced' = replaced \cup pc
  /\ UNCHANGED <<rtcConnected, target, answerOf, hs, connections, superseded, newest,
                 channelVars, carried, peers>>

\* The offer is there.  setLocalDescription() is called on this.pc, which throws
\* if it is null and rejects an offer that another connection has made.
OfferMade(k) ==
  /\ GoConnect(k, "offer", IF pc = {k} THEN "local" ELSE "failed")
  /\ sig[k] # "closed"
  /\ carried' = carried \cup { e \in {<<"client", k>>} : MayGather(e) }
  /\ UNCHANGED <<pc, rtcConnected, target, sig, answerOf, overlap, replaced,
                 handlerVars, channelVars, peers>>

\* The description is set; the offer is posted.
LocalSet(k) ==
  /\ GoConnect(k, "local", "fetch")
  /\ sig[k] # "closed"
  /\ sig' = [sig EXCEPT ![k] = "offered"]
  /\ UNCHANGED <<pc, rtcConnected, target, answerOf, overlap, replaced,
                 handlerVars, channelVars, carried, peers>>

\* The connection of this.pc will take an answer: it has an offer set, or the
\* operation that sets one is ahead of the answer's.
TakesAnswer == \E j \in pc : sig[j] = "offered" \/ step[j] = "local"

\* The answer is there, and parsed.  setRemoteDescription() is called on this.pc,
\* which throws if it is null and rejects an answer that it does not wait for.
AnswerArrives(k) ==
  /\ GoConnect(k, "fetch", IF TakesAnswer THEN "remote" ELSE "failed")
  /\ hs[k] = "done"
  /\ target' = [target EXCEPT ![k] = IF TakesAnswer THEN pc ELSE {}]
  /\ UNCHANGED <<pc, rtcConnected, sig, answerOf, overlap, replaced,
                 handlerVars, channelVars, carried, peers>>

\* The request fails, or its answer is an error text that is not JSON.
FetchFails(k) ==
  /\ GoConnect(k, "fetch", "failed")
  /\ UNCHANGED <<pc, rtcConnected, target, sig, answerOf, overlap, replaced,
                 handlerVars, channelVars, carried, peers>>

\* The first answer is accepted, whosever it is, the next one is not.
RemoteSet(k) ==
  /\ \E j \in target[k] :
       /\ sig[j] \in {"offered", "answered"}
       /\ GoConnect(k, "remote", IF sig[j] = "offered" THEN "done" ELSE "failed")
       /\ sig' = [sig EXCEPT ![j] = "answered"]
       /\ answerOf' = [answerOf EXCEPT ![j] = IF sig[j] = "offered" THEN {k} ELSE @]
  /\ UNCHANGED <<pc, rtcConnected, target, overlap, replaced,
                 handlerVars, channelVars, carried, peers>>

\* An operation of a connection that was closed meanwhile: some browsers reject
\* its promise, in others it is pending for ever.
ClosedRejects(k) ==
  /\ \/ step[k] \in {"offer", "local"} /\ sig[k] = "closed"
     \/ step[k] = "remote" /\ \E j \in target[k] : sig[j] = "closed"
  /\ step' = [step EXCEPT ![k] = "failed"]
  /\ UNCHANGED <<pc, rtcConnected, target, sig, answerOf, overlap, replaced,
                 handlerVars, channelVars, carried, peers>>

CloseChannels(S) ==
  chan' = [k \in Clients |-> IF k \in S /\ chan[k] = "open" THEN "closed" ELSE chan[k]]

\* Mutant: the field is cleared, the connection is not closed.
RTCDisconnectForgets ==
  /\ pc # {} \/ rtcConnected
  /\ pc' = {}
  /\ rtcConnected' = FALSE
  /\ UNCHANGED <<step, target, sig, answerOf, overlap, replaced, handlerVars,
                 channelVars, carried, peers>>

\* dc.onclose, which comes later, finds isConnected cleared.
RTCDisconnect ==
  /\ pc # {} \/ rtcConnected
  /\ sig' = [k \in Connects |-> IF k \in pc THEN "closed" ELSE sig[k]]
  /\ CloseChannels(pc)
  /\ pc' = {}
  /\ rtcConnected' = FALSE
  /\ UNCHANGED <<step, target, answerOf, overlap, replaced, handlerVars,
                 channels, texts, om, echoes, rtcTracker, carried, peers>>

-----------------------------------------------------------------------------
(* HandleOffer                                                             *)

GoOffer(k, from, to) == hs[k] = from /\ hs' = [hs EXCEPT ![k] = to]

\* The connection is stored before anything of the offer is looked at.
StoreConnection(k, p) ==
  /\ k \in Connects => step[k] = "fetch" /\ p = peer[k]
  /\ GoOffer(k, "idle", "add")
  /\ peer' = [peer EXCEPT ![k] = p]
  /\ connections' = [connections EXCEPT ![p] = {k}]
  /\ superseded' = superseded \cup connections[p]
  /\ \/ UNCHANGED carried
     \/ k \in Others /\ carried' = carried \cup {<<"client", k>>}
  /\ UNCHANGED <<adapterVars, newest, channelVars, peers>>

RegisterPeer(k) ==
  /\ GoOffer(k, "add", "remote")
  /\ peers' = AddClient(peers, peer[k], "webrtc")
  /\ newest' = [newest EXCEPT ![peer[k]] = {k}]
  /\ UNCHANGED <<adapterVars, peer, connections, superseded, channelVars, carried>>

ApplyOffer(k) ==
  /\ GoOffer(k, "remote", "answer")
  /\ UNCHANGED <<adapterVars, peer, connections, superseded, newest, channelVars,
                 carried, peers>>

\* The answer's text is that of CreateAnswer, made before SetLocalDescription.
CreateAnswer(k) ==
  /\ GoOffer(k, "answer", "local")
  /\ carried' = carried \cup { e \in {<<"server", k>>} : MayGather(e) }
  /\ UNCHANGED <<adapterVars, peer, connections, superseded, newest, channelVars,
                 peers>>

\* SetLocalDescription, and the answer is written.
SendAnswer(k) ==
  /\ GoOffer(k, "local", "done")
  /\ UNCHANGED <<adapterVars, peer, connections, superseded, newest, channelVars,
                 carried, peers>>

\* One of the three calls fails; what was stored stays.
RefuseOffer(k) ==
  /\ hs[k] \in {"remote", "answer", "local"}
  /\ hs' = [hs EXCEPT ![k] = "refused"]
  /\ UNCHANGED <<adapterVars, peer, connections, superseded, newest, channelVars,
                 carried, peers>>

-----------------------------------------------------------------------------
(* The connection                                                          *)

\* Both ends are set up for each other, and one knows where to reach the other.
CanOpen(k) ==
  /\ chan[k] = "none"
  /\ hs[k] = "done"
  /\ k \in Connects => sig[k] = "answered" /\ answerOf[k] = {k}
  /\ carried \cap {<<"client", k>>, <<"server", k>>} # {}

\* OnDataChannel on the server, dc.onopen in the browser.
ChannelOpens(k) ==
  /\ CanOpen(k)
  /\ chan' = [chan EXCEPT ![k] = "open"]
  /\ channels' = [channels EXCEPT ![peer[k]] = {k}]
  /\ rtcConnected' = (rtcConnected \/ k \in Connects)
  /\ UNCHANGED <<pc, step, target, sig, answerOf, overlap, replaced, handlerVars,
                 texts, om, echoes, rtcTracker, carried, peers>>

\* Mutant: a callback on the server removes the peer's entry.
ChannelClosesRemoves(k) ==
  /\ chan[k] = "open"
  /\ CloseChannels({k})
  /\ peers' = RemoveClient(peers, peer[k])
  /\ UNCHANGED <<adapterVars, handlerVars, channels, texts, om, echoes, rtcTracker,
                 carried>>

\* The server has no callback for this; the adapter has dc.onclose.
ChannelCloses(k) ==
  /\ chan[k] = "open"
  /\ CloseChannels({k})
  /\ rtcConnected' = (rtcConnected /\ k \notin Connects)
  /\ UNCHANGED <<pc, step, target, sig, answerOf, overlap, replaced, handlerVars,
                 channels, texts, om, echoes, rtcTracker, carried, peers>>

\* sendDirectP2P, or what another client does; it throws on a channel not open.
SendText(k) ==
  /\ chan[k] = "open"
  /\ k \in Connects => k \in pc
  /\ texts[k] < MaxTexts
  /\ texts' = [texts EXCEPT ![k] = @ + 1]
  /\ UNCHANGED <<adapterVars, handlerVars, channels, chan, om, echoes, rtcTracker,
                 carried, peers>>

GoMessage(k, from, to) == om[k] = from /\ om' = [om EXCEPT ![k] = to]

OnText(k) ==
  /\ GoMessage(k, "idle", "track")
  /\ echoes[k] < texts[k]
  /\ peers' = RecordMessageOf(peers, peer[k])
  /\ UNCHANGED <<adapterVars, handlerVars, channels, chan, texts, echoes, rtcTracker,
                 carried>>

TrackText(k) ==
  /\ GoMessage(k, "track", "echo")
  /\ rtcTracker' = rtcTracker + 1
  /\ UNCHANGED <<adapterVars, handlerVars, channels, chan, texts, echoes, carried,
                 peers>>

\* SendText of the echo; its error is ignored.
EchoText(k) ==
  /\ GoMessage(k, "echo", "idle")
  /\ echoes' = [echoes EXCEPT ![k] = @ + 1]
  /\ UNCHANGED <<adapterVars, handlerVars, channels, chan, texts, rtcTracker, carried,
                 peers>>

-----------------------------------------------------------------------------
ConnectGoesOn(k) ==
  OfferMade(k) \/ LocalSet(k) \/ AnswerArrives(k) \/ RemoteSet(k)

HandleOffer(k) ==
  \/ RegisterPeer(k) \/ ApplyOffer(k) \/ CreateAnswer(k) \/ SendAnswer(k)
  \/ \E p \in PeerIDs \cup {k} : StoreConnection(k, p)

OnMessageText(k) == OnText(k) \/ TrackText(k) \/ EchoText(k)

RTCNext ==
  \/ \E k \in Connects :
       \/ \E p \in PeerIDs : RTCConnect(k, p)
       \/ ConnectGoesOn(k) \/ FetchFails(k) \/ ClosedRejects(k)
  \/ RTCDisconnect
  \/ \E k \in Clients :
       \/ HandleOffer(k) \/ RefuseOffer(k)
       \/ ChannelOpens(k) \/ ChannelCloses(k) \/ SendText(k) \/ OnMessageText(k)

RTCSpec == RTCInit /\ [][RTCNext]_rtcVars

\* Awaits end, handlers run, and a channel that can open does.
RTCFairSpec ==
  /\ RTCSpec
  /\ \A k \in Connects : WF_rtcVars(ConnectGoesOn(k))
  /\ \A k \in Clients :
       WF_rtcVars(HandleOffer(k)) /\ WF_rtcVars(ChannelOpens(k))

-----------------------------------------------------------------------------
(* Properties                                                              *)

\* Types; the adapter has at most one connection.
RTCTypeOK ==
  /\ pc \subseteq Connects /\ \A j, k \in pc : j = k
  /\ rtcConnected \in BOOLEAN
  /\ step \in [Connects ->
       {"idle", "offer", "local", "fetch", "remote", "done", "failed"}]
  /\ target \in [Connects -> SUBSET Connects]
  /\ sig \in [Connects -> {"none", "stable", "offered", "answered", "closed"}]
  /\ answerOf \in [Connects -> SUBSET Connects]
  /\ hs \in [Clients ->
       {"idle", "add", "remote", "answer", "local", "done", "refused"}]
  /\ peer \in [Clients -> Peers]
  /\ connections \in [Peers -> SUBSET Clients]
  /\ channels \in [Peers -> SUBSET Clients]
  /\ IsRegistry(peers, Peers, {"webrtc"})
  /\ carried \subseteq Ends
  /\ chan \in [Clients -> {"none", "open", "closed"}]
  /\ texts \in [Clients -> 0..MaxTexts]
  /\ om \in [Clients -> {"idle", "track", "echo"}]
  /\ echoes \in [Clients -> Nat]
  /\ rtcTracker \in Nat
  /\ overlap \subseteq Connects /\ replaced \subseteq Connects
  /\ superseded \subseteq Clients
  /\ newest \in [Peers -> SUBSET Clients]

\* connect() reads this.pc after each await.  A connection is given the answer to
\* another one's offer only if the two calls were at an await together: disconnect()
\* in between does not do it, nor does a call that ended before, even one that failed.
OnlyOverlapMixes ==
  \A j \in Connects : \A k \in answerOf[j] : j = k \/ {j, k} \subseteq overlap

\* disconnect() reaches every connection that lives, also one whose connect() has
\* failed or is still at an await, except exactly those that another connect() found
\* in this.pc: no other order of calls and awaits loses one.
LiveIsHeld ==
  \A k \in Connects : sig[k] \in {"none", "closed"} \/ k \in pc \cup replaced

\* Both, about the connections of the adapter.
ConnectsKeepApart == OnlyOverlapMixes /\ LiveIsHeld

\* A connection that has an answer has a counterpart: the handler of that offer is
\* done, the peer is registered, and the connection stored for it is this one's, or
\* that of another offer of the same peer, which has replaced this one's.
AnsweredIsServed ==
  \A j \in Connects : \A k \in answerOf[j] :
    /\ hs[k] = "done"
    /\ peer[k] \in DOMAIN peers
    /\ \E i \in connections[peer[k]] : peer[i] = peer[k] /\ (i = k \/ k \in superseded)

\* Messages of k that RecordMessage was called for.
Handled(k) == echoes[k] + (IF om[k] = "idle" THEN 0 ELSE 1)

HandledFor(p) ==
  SumFunctionOnSet([k \in Clients |-> IF peer[k] = p THEN Handled(k) ELSE 0], Clients)

\* A peer that is answered keeps its entry.  However often it offers, while the
\* callbacks of its older connections run, the entry counts no message twice and all
\* those of the connection that was registered last.
PeerCountsMessages ==
  \A k \in Clients : hs[k] = "done" =>
    /\ peer[k] \in DOMAIN peers
    /\ peers[peer[k]].messageCount <= HandledFor(peer[k])
    /\ \A i \in newest[peer[k]] : peers[peer[k]].messageCount >= Handled(i)

\* Both, about the peers of the server.
PeersAreServed == AnsweredIsServed /\ PeerCountsMessages

\* CommScope-PRD.md:60, a "Peer-to-peer connection established via signaling": a
\* connect() that got its own answer and is left alone becomes connected.
AnsweredConnects ==
  \A k \in Connects :
    (step[k] = "done" /\ answerOf[k] = {k}) ~> (rtcConnected \/ sig[k] = "closed")
=============================================================================

------------------------------ MODULE SSESession ------------------------------
(***************************************************************************)
(* A browser's SSEAdapter (web, sse.adapter.ts) on top of SSE: connect(),  *)
(* disconnect() and the callbacks of the EventSource, which reconnects on  *)
(* its own with a new request when its stream is lost.  send, which is a   *)
(* plain request, is in module Calls; posts come from anyone.              *)
(*                                                                         *)
(* Streams that it has not asked for are those of other clients.  It sends *)
(* no client_id, so each of its own has an id of its own, and no           *)
(* Last-Event-ID, as the server gives its events no id.  External: the     *)
(* EventSource, as the HTML standard has it, and the connections beneath,  *)
(* which may break at any time, with what they still carry; the server may *)
(* notice later than the browser.                                          *)
(***************************************************************************)
EXTENDS SSE

VARIABLES
  source,   \* this.eventSource: none (null), or its readyState: connecting,
            \* open, closed (for good, by an answer that is no event stream)
  asked,    \* the streams that it has asked for
  current,  \* the one whose answer it reads: a set of at most one
  got,      \* the messages that were shown, of all streams
  read,     \* how many of them are from a stream
  last      \* history: the last one that this EventSource has shown, if any

clientVars == <<source, asked, current, got, read, last>>
sessionVars == <<vars, clientVars>>

SessionInit ==
  /\ Init
  /\ source = "none"
  /\ asked = {}
  /\ current = {}
  /\ got = <<>>
  /\ read = [s \in Streams |-> 0]
  /\ last = {}

-----------------------------------------------------------------------------
(* SSEAdapter                                                              *)

\* connect() does nothing if there is an EventSource, even one that is closed.
ESConnect ==
  /\ source = "none"
  /\ source' = "connecting"
  /\ UNCHANGED <<vars, asked, current, got, read, last>>

\* Mutant: the field is set to null, close() is not called.
ESDisconnectForgets ==
  /\ source # "none"
  /\ source' = "none"
  /\ last' = {}
  /\ UNCHANGED <<vars, asked, current, got, read>>

\* close(), and null.
ESDisconnect ==
  /\ source # "none"
  /\ source' = "none"
  /\ current' = {}
  /\ last' = {}
  /\ UNCHANGED <<vars, asked, got, read>>

\* Mutant: a reconnection does not wait for the stream that is asked for already.
ESRequestTwice(s) ==
  /\ source = "connecting"
  /\ s \notin asked /\ spc[s] = "idle"
  /\ asked' = asked \cup {s}
  /\ current' = current \cup {s}
  /\ UNCHANGED <<vars, source, got, read, last>>

\* The request of the constructor, or of a reconnection.
ESRequest(s) ==
  /\ source = "connecting" /\ current = {}
  /\ s \notin asked /\ spc[s] = "idle"
  /\ asked' = asked \cup {s}
  /\ current' = {s}
  /\ UNCHANGED <<vars, source, got, read, last>>

\* onopen: the head of the answer is there once the handler has flushed a message.
ESOpen(s) ==
  /\ source = "connecting" /\ s \in current
  /\ shown[s] # <<>>
  /\ source' = "open"
  /\ UNCHANGED <<vars, asked, current, got, read, last>>

\* Mutant: what is left of a stream is shown although it is not current.
ESMessageLate(s) ==
  /\ source = "open" /\ s \in asked
  /\ read[s] < Len(shown[s])
  /\ got' = Append(got, shown[s][read[s] + 1])
  /\ last' = {shown[s][read[s] + 1]}
  /\ read' = [read EXCEPT ![s] = @ + 1]
  /\ UNCHANGED <<vars, source, asked, current>>

\* onmessage
ESMessage(s) ==
  /\ source = "open" /\ s \in current
  /\ read[s] < Len(shown[s])
  /\ got' = Append(got, shown[s][read[s] + 1])
  /\ last' = {shown[s][read[s] + 1]}
  /\ read' = [read EXCEPT ![s] = @ + 1]
  /\ UNCHANGED <<vars, source, asked, current>>

\* onerror: the stream is lost, and the EventSource goes back to connecting.
ESLost(s) ==
  /\ source \in {"connecting", "open"} /\ s \in current
  /\ source' = "connecting"
  /\ current' = {}
  /\ UNCHANGED <<vars, asked, got, read, last>>

\* onerror: an answer of another kind, as from a proxy whose server is down.
ESFails ==
  /\ source = "connecting" /\ current = {}
  /\ source' = "closed"
  /\ UNCHANGED <<vars, asked, current, got, read, last>>

-----------------------------------------------------------------------------
\* The handler of a stream: of this browser, or of another client, which gives its
\* client_id.
ServeStream(s) ==
  /\ \/ \E id \in (IF s \in asked THEN {s} ELSE ClientIDs) : Subscribe(s, id)
     \/ StreamStep(s) \/ StreamReceive(s) \/ StreamDone(s) \/ Unsubscribe(s)
  /\ UNCHANGED clientVars

\* Another client goes away, or the server notices that this browser has.
NoticeGone(s) ==
  /\ s \notin current
  /\ Disconnect(s)
  /\ UNCHANGED clientVars

ServePost(p) ==
  /\ HandleSend(p) \/ \E id \in ClientIDs : PostStart(p, id)
  /\ UNCHANGED clientVars

SessionNext ==
  \/ \E p \in Posts : ServePost(p)
  \/ \E s \in Streams :
       \/ ServeStream(s) \/ NoticeGone(s)
       \/ ESRequest(s) \/ ESOpen(s) \/ ESMessage(s) \/ ESLost(s)
  \/ ESConnect \/ ESDisconnect \/ ESFails

SessionSpec == SessionInit /\ [][SessionNext]_sessionVars

\* As in SSE; a request is handled, a closed connection is noticed (by the TCP
\* stack, in the end), and callbacks run.
SessionFairSpec ==
  /\ SessionSpec
  /\ \A p \in Posts : WF_vars(HandleSend(p))
  /\ \A s \in Streams :
       /\ SF_sessionVars(s \in asked /\ Subscribe(s, s) /\ UNCHANGED clientVars)
       /\ WF_vars(StreamStep(s))
       /\ SF_vars(StreamReceive(s))
       /\ SF_vars(StreamDone(s))
       /\ SF_vars(Unsubscribe(s))
       /\ WF_sessionVars(s \in asked /\ NoticeGone(s))
       /\ WF_sessionVars(ESOpen(s))
       /\ WF_sessionVars(ESMessage(s))

-----------------------------------------------------------------------------
(* Properties                                                              *)

\* The EventSource reads one stream, and no more of it than was written.
OneStreamRead ==
  /\ source \in {"none", "connecting", "open", "closed"}
  /\ asked \subseteq Streams
  /\ current \subseteq asked /\ \A s, t \in current : s = t
  /\ got \in Seq(Posts)
  /\ read \in [Streams -> Nat]
  /\ last \subseteq Posts
  /\ \A s \in Streams : read[s] <= Len(shown[s])

\* Types, of the server's variables and the browser's.
SessionTypeOK == TypeOK /\ OneStreamRead

\* A browser that reconnects is shown no message twice, although the server may
\* still serve the stream it has lost, and broadcast to both.
NoRepeatsAcrossStreams == IsInjective(got)

\* Nor are messages of POSTs that followed one another shown in the other order,
\* on one stream or on two.
SessionInOrder ==
  \A i, j \in DOMAIN got : i < j => got[j] \notin prior[got[i]]

\* Both: what the browser is shown, across all its streams.
ShownOnceInOrder == NoRepeatsAcrossStreams /\ SessionInOrder

\* A message that was broadcast to the stream that the browser reads, and found room
\* in its channel, is shown, or the browser does not read that stream any more:
\* neither the time before onopen, a queue of messages, nor the loss of another
\* message leaves one behind.
BroadcastIsShown ==
  \A p \in Posts, s \in Streams :
    (ppc[p] = "done" /\ s \in heard[p] \ full[p])
      ~> ((\E i \in DOMAIN got : got[i] = p) \/ s \notin current)

\* A stream that the browser does not read any more ends on the server and is no
\* listener there: after disconnect(), also if the browser connects again, and after
\* a stream is lost, also if its request is served only then.
NoStreamLeaks ==
  \A s \in Streams :
    (s \in asked /\ (s \notin current \/ source = "none"))
      ~> (spc[s] = "done" /\ s \notin listeners)

\* CommScope-TRD.md:77, SSE "supports `Last-Event-ID` header for basic
\* reconnection": a stream of an EventSource that has shown a message is given every
\* message that was posted after it and not shown.  (With a channel for all of them.)
ReconnectionsResume ==
  \A s \in current, p \in Posts, q \in last :
    (spc[s] \in {"select", "write", "record"} /\ ppc[p] = "done" /\ q \in prior[p])
      => p \in Range(got) \cup Range(Carried(s))
=============================================================================

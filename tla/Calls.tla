------------------------------- MODULE Calls -------------------------------
(***************************************************************************)
(* The calls of the browser's adapters that are one request each           *)
(* (http.adapter.ts, grpc.adapter.ts, send of sse.adapter.ts and           *)
(* pollingadapter.ts, sendViaHTTP of ws.adapter.ts, and the polling        *)
(* timer's request), the EventBus that they tell what happens              *)
(* (eventBus.ts), and the EventLogConsole that listens to it.              *)
(*                                                                         *)
(* Every call follows one scheme: an outbound event, the request, then an  *)
(* inbound event or an error event.  Tables say in what a kind of call     *)
(* differs.  One step is what runs until the next await; emit runs all     *)
(* listeners within it.  What the server does is in other modules: here    *)
(* only whether a response comes back and what can be read from it.        *)
(***************************************************************************)
EXTENDS Naturals, Sequences, SequencesExt, Filter

CONSTANTS
  Requests,   \* calls of the adapters
  Kinds,      \* the methods that they may be of: names of Methods below
  Listeners,  \* functions that may be subscribed
  Console,    \* the one that EventLogConsole subscribes
  Throwing,   \* those that throw when they are called
  MaxShown,   \* rows that the console keeps, 100 in the code
  MaxChunks   \* bound: chunks of a streamed body

(***************************************************************************)
(* In what a method differs from the scheme: whether its catch block       *)
(* throws the error on or keeps it; whether the body is read chunk by      *)
(* chunk or as JSON; and whether main.go has a route for its path.         *)
(***************************************************************************)
HTTPSend              == [rethrows |-> TRUE,  streams |-> FALSE, routed |-> TRUE]
SSESend               == [rethrows |-> TRUE,  streams |-> FALSE, routed |-> TRUE]
PollingSend           == [rethrows |-> TRUE,  streams |-> FALSE, routed |-> TRUE]
PollingGet            == [rethrows |-> FALSE, streams |-> FALSE, routed |-> TRUE]
SendViaHTTP           == [rethrows |-> TRUE,  streams |-> FALSE, routed |-> TRUE]
SendUnaryMessage      == [rethrows |-> TRUE,  streams |-> FALSE, routed |-> FALSE]
StartServerStream     == [rethrows |-> FALSE, streams |-> TRUE,  routed |-> FALSE]
SendClientStreamBatch == [rethrows |-> TRUE,  streams |-> FALSE, routed |-> FALSE]
BidiSend              == [rethrows |-> FALSE, streams |-> FALSE, routed |-> FALSE]

Methods ==
  [httpSend |-> HTTPSend, sseSend |-> SSESend, pollingSend |-> PollingSend,
   pollingGet |-> PollingGet, sendViaHTTP |-> SendViaHTTP,
   sendUnaryMessage |-> SendUnaryMessage, startServerStream |-> StartServerStream,
   sendClientStreamBatch |-> SendClientStreamBatch, bidiSend |-> BidiSend]

ASSUME KindsAssumption == Kinds \subseteq DOMAIN Methods
ASSUME ListenersAssumption == Console \in Listeners \ Throwing
ASSUME ShownAssumption == MaxShown \in Nat \ {0}
ASSUME ChunksAssumption == MaxChunks \in Nat

VARIABLES
  sameOrigin,  \* the page is served from where the API is; if not, no response
               \* of these routes lets the browser hand it to the page
  kindOf,      \* the kind of a call
  cpc,         \* a call: idle, fetch, body, done
  body,        \* what its response holds: none, json, text
  chunks,      \* chunks that were read
  result,      \* its promise: none, pending, resolved, rejected
  bus,         \* eventBus.listeners, in the order in which they are called
  told,        \* history: the directions of the events emitted for a call
  updates,     \* the console's calls of setEvents since it was rendered: an
               \* event, or Clear
  rows,        \* its state, events, as rendered
  latest       \* history: what was emitted since it was mounted or cleared

callVars == <<sameOrigin, kindOf, cpc, body, chunks, result>>
busVars == <<bus, told>>
consoleVars == <<updates, rows, latest>>
reqVars == <<callVars, busVars, consoleVars>>

Clear == [call |-> "clear"]

CallsInit ==
  /\ sameOrigin \in BOOLEAN
  /\ kindOf \in [Requests -> Kinds]
  /\ cpc = [c \in Requests |-> "idle"]
  /\ body = [c \in Requests |-> "none"]
  /\ chunks = [c \in Requests |-> 0]
  /\ result = [c \in Requests |-> "none"]
  /\ bus = <<>>
  /\ told = [c \in Requests |-> <<>>]
  /\ updates = <<>>
  /\ rows = <<>>
  /\ latest = <<>>

-----------------------------------------------------------------------------
(* EventBus                                                                *)

\* Mutant: without the try, the first listener that throws ends forEach.
ReachedUncaught(b) ==
  { b[i] : i \in { i \in DOMAIN b : \A j \in 1..(i - 1) : b[j] \notin Throwing } }

\* The listeners that emit calls: each call is in a try of its own, and the forEach
\* of a Set skips nobody when one that it has called is deleted.
Reached(b) == ToSet(b)

\* Mutant: the error of a listener reaches the caller of emit.
EscapesUncaught(b) == ToSet(b) \cap Throwing # {}

\* An error leaves emit.
Escapes(b) == FALSE

\* Events of the directions ds about call c, one after the other.  A listener may
\* unsubscribe itself when it is called, which that of the console does not.
Emit(c, ds) ==
  LET es == [i \in DOMAIN ds |-> [call |-> c, direction |-> ds[i]]]
  IN  /\ told' = [told EXCEPT ![c] = @ \o ds]
      /\ updates' = IF Console \in Reached(bus) THEN updates \o es ELSE updates
      /\ latest' = IF Console \in ToSet(bus) THEN latest \o es ELSE latest
      /\ \E left \in SUBSET (Reached(bus) \ {Console}) : bus' = Kept(bus, Listeners \ left)
      /\ UNCHANGED rows

Subscribe(l) ==
  /\ l \notin ToSet(bus)
  /\ bus' = Append(bus, l)
  /\ UNCHANGED <<callVars, told, consoleVars>>

\* A component unmounts; the console's state goes with it.
Unsubscribe(l) ==
  /\ l \in ToSet(bus)
  /\ bus' = Kept(bus, Listeners \ {l})
  /\ IF l = Console
       THEN updates' = <<>> /\ rows' = <<>> /\ latest' = <<>>
       ELSE UNCHANGED consoleVars
  /\ UNCHANGED <<callVars, told>>

-----------------------------------------------------------------------------
(* The calls                                                               *)

GoCall(c, from, to) == cpc[c] = from /\ cpc' = [cpc EXCEPT ![c] = to]

\* The outbound event is emitted before the try, then fetch is called.
CallStarts(c) ==
  /\ GoCall(c, "idle", "fetch")
  /\ result' = [result EXCEPT ![c] = "pending"]
  /\ Emit(c, <<"outbound">>)
  /\ UNCHANGED <<sameOrigin, kindOf, body, chunks>>

\* A response is there, of whatever status.  The handlers answer with JSON; what
\* http.Error, the 404 of the mux or a proxy says is text.
ResponseComes(c) ==
  /\ sameOrigin
  /\ GoCall(c, "fetch", "body")
  /\ \E b \in (IF Methods[kindOf[c]].routed THEN {"json", "text"} ELSE {"text"}) :
       body' = [body EXCEPT ![c] = b]
  /\ UNCHANGED <<sameOrigin, kindOf, chunks, result, busVars, consoleVars>>

\* The catch block, and what it leaves of the promise.
Caught(c) == IF Methods[kindOf[c]].rethrows THEN "rejected" ELSE "resolved"

\* fetch fails, on the network or because the page is from another origin; or the
\* connection breaks while the body is read.
CallFails(c) ==
  /\ cpc[c] \in {"fetch", "body"}
  /\ cpc' = [cpc EXCEPT ![c] = "done"]
  /\ result' = [result EXCEPT ![c] = Caught(c)]
  /\ Emit(c, <<"error">>)
  /\ UNCHANGED <<sameOrigin, kindOf, body, chunks>>

\* response.json(): response.ok is not asked for, and text is an error because it
\* does not parse.  An error that left emit would be caught like any other.
BodyIsRead(c) ==
  /\ ~Methods[kindOf[c]].streams
  /\ GoCall(c, "body", "done")
  /\ IF body[c] = "text" THEN
       /\ Emit(c, <<"error">>)
       /\ result' = [result EXCEPT ![c] = Caught(c)]
     ELSE IF Escapes(bus) THEN
       /\ Emit(c, <<"inbound", "error">>)
       /\ result' = [result EXCEPT ![c] = Caught(c)]
     ELSE
       /\ Emit(c, <<"inbound">>)
       /\ result' = [result EXCEPT ![c] = "resolved"]
  /\ UNCHANGED <<sameOrigin, kindOf, body, chunks>>

\* A chunk of a stream is shown as it is, that of an error text as well.
ChunkIsRead(c) ==
  /\ Methods[kindOf[c]].streams
  /\ cpc[c] = "body" /\ chunks[c] < MaxChunks
  /\ chunks' = [chunks EXCEPT ![c] = @ + 1]
  /\ Emit(c, <<"inbound">>)
  /\ UNCHANGED <<sameOrigin, kindOf, cpc, body, result>>

StreamEnds(c) ==
  /\ Methods[kindOf[c]].streams
  /\ GoCall(c, "body", "done")
  /\ result' = [result EXCEPT ![c] = "resolved"]
  /\ UNCHANGED <<sameOrigin, kindOf, body, chunks, busVars, consoleVars>>

-----------------------------------------------------------------------------
(* EventLogConsole                                                         *)

\* [newEvent, ...prev.slice(0, MaxShown - 1)], or the list of the CLEAR button.
Applied(u, r) ==
  IF u = Clear THEN <<>>
  ELSE <<u>> \o (IF Len(r) < MaxShown THEN r ELSE SubSeq(r, 1, MaxShown - 1))

\* Updates are functions; React applies those that have piled up in order.
AllApplied == FoldLeft(LAMBDA r, u : Applied(u, r), rows, updates)

Render ==
  /\ updates # <<>>
  /\ rows' = AllApplied
  /\ updates' = <<>>
  /\ UNCHANGED <<callVars, busVars, latest>>

\* A second click with nothing new in between would change nothing more.
ClearLogs ==
  /\ Console \in ToSet(bus)
  /\ latest # <<>>
  /\ updates' = Append(updates, Clear)
  /\ latest' = <<>>
  /\ UNCHANGED <<callVars, busVars, rows>>

-----------------------------------------------------------------------------
Call(c) ==
  \/ CallStarts(c) \/ ResponseComes(c) \/ CallFails(c)
  \/ BodyIsRead(c) \/ ChunkIsRead(c) \/ StreamEnds(c)

CallsNext ==
  \/ \E c \in Requests : Call(c)
  \/ \E l \in Listeners : Subscribe(l) \/ Unsubscribe(l)
  \/ Render \/ ClearLogs

CallsSpec == CallsInit /\ [][CallsNext]_reqVars

-----------------------------------------------------------------------------
(* Properties                                                              *)

Directions == {"outbound", "inbound", "error"}
Events == [call : Requests, direction : Directions]

\* Types; the console never shows more than MaxShown rows.
CallsTypeOK ==
  /\ sameOrigin \in BOOLEAN
  /\ kindOf \in [Requests -> Kinds]
  /\ cpc \in [Requests -> {"idle", "fetch", "body", "done"}]
  /\ body \in [Requests -> {"none", "json", "text"}]
  /\ chunks \in [Requests -> 0..MaxChunks]
  /\ result \in [Requests -> {"none", "pending", "resolved", "rejected"}]
  /\ bus \in Seq(Listeners)
  /\ told \in [Requests -> Seq(Directions)]
  /\ updates \in Seq(Events \cup {Clear})
  /\ rows \in Seq(Events) /\ Len(rows) <= MaxShown
  /\ latest \in Seq(Events)

\* What is told of a request, and what its caller gets, agree: a call is announced
\* first and has exactly one end; inbound means that a JSON body was read and the
\* caller has it, an error that the caller was rejected, if its kind throws on.
CallsAreToldOnce ==
  \A c \in Requests : ~Methods[kindOf[c]].streams =>
    CASE cpc[c] = "idle" -> told[c] = <<>>
      [] cpc[c] \in {"fetch", "body"} -> told[c] = <<"outbound">>
      [] cpc[c] = "done" ->
           \/ /\ told[c] = <<"outbound", "inbound">>
              /\ body[c] = "json" /\ result[c] = "resolved"
           \/ /\ told[c] = <<"outbound", "error">>
              /\ result[c] = IF Methods[kindOf[c]].rethrows THEN "rejected" ELSE "resolved"

\* The console, once rendered, shows the latest events since it was mounted or
\* cleared, newest first and none twice, however events, renderings and the CLEAR
\* button interleave, and although listeners before it throw or unsubscribe.
ConsoleShowsLatest ==
  Console \in ToSet(bus) =>
    LET n == Len(AllApplied)
    IN  /\ n = IF Len(latest) < MaxShown THEN Len(latest) ELSE MaxShown
        /\ \A i \in 1..n : AllApplied[i] = latest[Len(latest) + 1 - i]
=============================================================================

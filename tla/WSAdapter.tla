----------------------------- MODULE WSAdapter -----------------------------
(***************************************************************************)
(* The browser's WSAdapter (web, ws.adapter.ts): one field for the socket, *)
(* one flag, and the callbacks that connect() hangs on each socket that it *)
(* makes.  connect() returns before its socket is open, so the program may *)
(* call it, or disconnect(), while callbacks of older sockets are to come. *)
(*                                                                         *)
(* One step is one callback or one call of a method.  A socket is a        *)
(* WebSocket of the browser: one that fails tells onerror and then         *)
(* onclose, in one task, between which only reactions to a promise that    *)
(* was settled there run.  sendViaHTTP, which is a plain request, is in    *)
(* module Calls.                                                           *)
(***************************************************************************)
EXTENDS FiniteSets

CONSTANT Sockets  \* what new WebSocket(url) returns, in any order

VARIABLES
  socket,       \* this.socket: a set of at most one, empty for null
  isConnected,  \* this.isConnected
  ready,        \* readyState: none (not made), connecting, open, closing,
                \* failed (closed, onerror has run), over (onclose has run)
  promise,      \* what connect() returned: none, pending, resolved, rejected
  overlapped,   \* history: the sockets that lived together with another
  odd           \* history, with the socket: stray (a message came from one
                \* other than this.socket), invalid and lost (what became of a
                \* frame that was shown as sent)

wsVars == <<socket, isConnected, ready, promise, overlapped, odd>>

WSInit ==
  /\ socket = {}
  /\ isConnected = FALSE
  /\ ready = [s \in Sockets |-> "none"]
  /\ promise = [s \in Sockets |-> "none"]
  /\ overlapped = {}
  /\ odd = {}

\* Callbacks of s are still to come.
Pending(s) == ready[s] \notin {"none", "over"}

\* The sockets that are overlapping once s is made.
Overlaps(s) ==
  LET others == { t \in Sockets : Pending(t) }
  IN  IF others = {} THEN {} ELSE others \cup {s}

\* No task of the browser starts within another one.
TaskMayStart == \A s \in Sockets : ready[s] # "failed"

\* Program code runs between tasks, or when a promise was just rejected.
CodeMayRun == \A s \in Sockets : ready[s] = "failed" => promise[s] = "rejected"

-----------------------------------------------------------------------------
(* Methods                                                                 *)

\* Mutant: the sockets are kept in a set.
WSConnectKeeps(s) ==
  /\ CodeMayRun
  /\ ~(socket # {} /\ isConnected)
  /\ ready[s] = "none"
  /\ socket' = socket \cup {s}
  /\ ready' = [ready EXCEPT ![s] = "connecting"]
  /\ promise' = [promise EXCEPT ![s] = "pending"]
  /\ overlapped' = overlapped \cup Overlaps(s)
  /\ UNCHANGED <<isConnected, odd>>

\* connect() with a socket that is open resolves at once and changes nothing.
WSConnect(s) ==
  /\ CodeMayRun
  /\ ~(socket # {} /\ isConnected)
  /\ ready[s] = "none"
  /\ socket' = {s}
  /\ ready' = [ready EXCEPT ![s] = "connecting"]
  /\ promise' = [promise EXCEPT ![s] = "pending"]
  /\ overlapped' = overlapped \cup Overlaps(s)
  /\ UNCHANGED <<isConnected, odd>>

\* sendDirect() throws before it shows anything if there is no socket, or it is
\* not connected.  Otherwise the event comes first; then send() throws on a socket
\* that is connecting and drops the frame on one that is closing or closed.
SendDirect ==
  /\ CodeMayRun
  /\ isConnected
  /\ \E s \in socket :
       odd' = odd \cup
         (CASE ready[s] = "connecting" -> {<<"invalid", s>>}
            [] ready[s] = "open"       -> {}
            [] OTHER                   -> {<<"lost", s>>})
  /\ UNCHANGED <<socket, isConnected, ready, promise, overlapped>>

\* Mutant: the field is left to onclose.
WSDisconnectKeeps ==
  /\ CodeMayRun
  /\ socket # {}
  /\ ready' = [s \in Sockets |->
       IF s \in socket /\ ready[s] \in {"connecting", "open"} THEN "closing"
       ELSE ready[s]]
  /\ isConnected' = FALSE
  /\ UNCHANGED <<socket, promise, overlapped, odd>>

WSDisconnect ==
  /\ CodeMayRun
  /\ socket # {}
  /\ ready' = [s \in Sockets |->
       IF s \in socket /\ ready[s] \in {"connecting", "open"} THEN "closing"
       ELSE ready[s]]
  /\ socket' = {}
  /\ isConnected' = FALSE
  /\ UNCHANGED <<promise, overlapped, odd>>

-----------------------------------------------------------------------------
(* Callbacks                                                               *)

OnOpen(s) ==
  /\ TaskMayStart
  /\ ready[s] = "connecting"
  /\ ready' = [ready EXCEPT ![s] = "open"]
  /\ isConnected' = TRUE
  /\ promise' = [promise EXCEPT ![s] = "resolved"]
  /\ UNCHANGED <<socket, overlapped, odd>>

\* Only an open socket delivers messages; each frame is shown.
OnMessage(s) ==
  /\ TaskMayStart
  /\ ready[s] = "open"
  /\ odd' = odd \cup (IF s \in socket THEN {} ELSE {<<"stray", s>>})
  /\ UNCHANGED <<socket, isConnected, ready, promise, overlapped>>

\* The server's close frame came in; onclose follows.
PeerCloses(s) ==
  /\ TaskMayStart
  /\ ready[s] = "open"
  /\ ready' = [ready EXCEPT ![s] = "closing"]
  /\ UNCHANGED <<socket, isConnected, promise, overlapped, odd>>

\* Mutant: the error is shown, but nobody who waits for connect() is told.
OnErrorShown(s) ==
  /\ TaskMayStart
  /\ ready[s] \in {"connecting", "open", "closing"}
  /\ ready' = [ready EXCEPT ![s] = "failed"]
  /\ UNCHANGED <<socket, isConnected, promise, overlapped, odd>>

\* reject() after resolve() does nothing.
OnError(s) ==
  /\ TaskMayStart
  /\ ready[s] \in {"connecting", "open", "closing"}
  /\ ready' = [ready EXCEPT ![s] = "failed"]
  /\ promise' = [promise EXCEPT ![s] = IF @ = "pending" THEN "rejected" ELSE @]
  /\ UNCHANGED <<socket, isConnected, overlapped, odd>>

\* Of a socket that failed, or was open and is closed in order.  It clears the
\* fields, whichever socket they are about by now.
OnClose(s) ==
  /\ \/ ready[s] = "failed"
     \/ TaskMayStart /\ ready[s] \in {"open", "closing"} /\ promise[s] = "resolved"
  /\ ready' = [ready EXCEPT ![s] = "over"]
  /\ isConnected' = FALSE
  /\ socket' = {}
  /\ UNCHANGED <<promise, overlapped, odd>>

-----------------------------------------------------------------------------
WSNext ==
  \/ SendDirect \/ WSDisconnect
  \/ \E s \in Sockets :
       \/ WSConnect(s) \/ OnOpen(s) \/ OnMessage(s)
       \/ PeerCloses(s) \/ OnError(s) \/ OnClose(s)

WSSpec == WSInit /\ [][WSNext]_wsVars

-----------------------------------------------------------------------------
(* Properties                                                              *)

\* Types; the adapter has at most one socket.
WSTypeOK ==
  /\ socket \subseteq Sockets
  /\ \A s, t \in socket : s = t
  /\ isConnected \in BOOLEAN
  /\ ready \in [Sockets ->
       {"none", "connecting", "open", "closing", "failed", "over"}]
  /\ promise \in [Sockets -> {"none", "pending", "resolved", "rejected"}]
  /\ overlapped \subseteq Sockets
  /\ odd \subseteq {"stray", "invalid", "lost"} \X Sockets

\* What onclose of an old socket does to a new one's fields (line 71), and a second
\* connect to the first socket (line 14), stays among the sockets that overlap: any
\* other socket that lives is this.socket, shows all its messages as its own and gets
\* no frame before its handshake (line 94); and when the last that overlapped is over,
\* or none did, isConnected says again that this.socket has been opened.  The only loss
\* left to the others is a frame for a socket that the server is closing.
FieldsMirrorSocket ==
  /\ \A s \in Sockets :
       ready[s] \in {"connecting", "open"} => s \in socket \cup overlapped
  /\ \/ \E s \in overlapped : Pending(s)
     \/ isConnected <=> \E s \in socket : promise[s] = "resolved"
  /\ \A o \in odd : o[1] = "lost" \/ o[2] \in overlapped

\* When the last callback of a socket has run, the promise that its connect()
\* returned is settled, whoever called disconnect() in between: nobody waits for
\* ever, although onclose itself does not settle it.
PromiseSettled ==
  \A s \in Sockets : ready[s] = "over" => promise[s] \in {"resolved", "rejected"}
=============================================================================

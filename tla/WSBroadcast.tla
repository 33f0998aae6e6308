---------------------------- MODULE WSBroadcast ----------------------------
(***************************************************************************)
(* What the WebSocket hub promises, without its channels and goroutines.   *)
(* All messages get one order, the log.  A client subscribes once, at some *)
(* point of the log, and is then sent the messages after that point, none  *)
(* skipped, repeated or out of order, some at a time.  It may stop being   *)
(* sent messages at any moment (it is slow, or gone).                      *)
(*                                                                         *)
(* WSHub implements this specification.                                    *)
(***************************************************************************)
EXTENDS Naturals, Sequences

CONSTANTS Clients, Messages, Nil

VARIABLES
  log,        \* every message broadcast, in the order of the hub
  start,      \* length of the log when the client subscribed, Nil before
  delivered   \* what was sent on the client's connection

bvars == <<log, start, delivered>>

Init ==
  /\ log = <<>>
  /\ start = [c \in Clients |-> Nil]
  /\ delivered = [c \in Clients |-> <<>>]

Publish(m) ==
  /\ log' = Append(log, m)
  /\ UNCHANGED <<start, delivered>>

Subscribe(c) ==
  /\ start[c] = Nil
  /\ start' = [start EXCEPT ![c] = Len(log)]
  /\ UNCHANGED <<log, delivered>>

\* Send c the next n messages.
Deliver(c, n) ==
  /\ start[c] # Nil
  /\ LET first == start[c] + Len(delivered[c]) + 1
     IN  /\ first + n - 1 <= Len(log)
         /\ delivered' =
              [delivered EXCEPT ![c] = @ \o SubSeq(log, first, first + n - 1)]
  /\ UNCHANGED <<log, start>>

Next ==
  \/ \E m \in Messages : Publish(m)
  \/ \E c \in Clients : Subscribe(c) \/ \E n \in 1..Len(log) : Deliver(c, n)

Spec == Init /\ [][Next]_bvars
=============================================================================

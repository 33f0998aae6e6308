----------------------------- MODULE WSHeartbeat -----------------------------
(***************************************************************************)
(* The heartbeat of one connection of the WSHub (internal/handlers,        *)
(* websocket.go): the ticker of writePump, its writes with their deadline, *)
(* and the read deadline that the pong handler of readPump moves on.       *)
(*                                                                         *)
(* WSHub lets a connection be lost at any time; here is when the server    *)
(* itself gives it up.  Time is counted in ticks.  A goroutine that can go *)
(* on does so at once, but a write may hang, as may readPump on the hub,   *)
(* and a pong takes as long as it takes.                                   *)
(***************************************************************************)
EXTENDS Naturals

CONSTANTS
  PongWait,    \* 60 s in the code
  PingPeriod,  \* 54 s
  WriteWait,   \* 10 s
  MaxNow       \* bound: how long the connection is watched

ASSUME HeartbeatAssumption ==
  /\ PongWait \in Nat /\ PingPeriod \in Nat \ {0} /\ WriteWait \in Nat \ {0}
  /\ PingPeriod < PongWait
  /\ MaxNow \in Nat

VARIABLES
  time,          \* since the pumps have started
  readDeadline,  \* of the connection
  nextTick,      \* when the ticker ticks next
  ticker,        \* ticker.C: the time of a tick, a set of at most one
  writing,       \* the write that writePump is in: a set of at most one, with the
                 \* time when it began and, if it is a ping, that of its tick
  pings,         \* ticks whose ping was written and whose pong was not yet read
  reader,        \* readPump: read (in ReadMessage), hub (sending to h.broadcast)
  connection     \* open, silent (the read deadline passed), broken (a write failed)

heartbeatVars ==
  <<time, readDeadline, nextTick, ticker, writing, pings, reader, connection>>

Instants == 0..MaxNow

HeartbeatInit ==
  /\ time = 0
  /\ readDeadline = PongWait
  /\ nextTick = PingPeriod
  /\ ticker = {}
  /\ writing = {}
  /\ pings = {}
  /\ reader = "read"
  /\ connection = "open"

\* A time.Ticker drops its tick if the last one was not received.
TimePasses ==
  /\ connection = "open" /\ time < MaxNow
  /\ reader = "read" => time < readDeadline
  /\ IF writing = {} THEN ticker = {} ELSE \A w \in writing : time < w.began + WriteWait
  /\ time' = time + 1
  /\ IF time' = nextTick
       THEN /\ ticker' = IF ticker = {} THEN {nextTick} ELSE ticker
            /\ nextTick' = nextTick + PingPeriod
       ELSE UNCHANGED <<ticker, nextTick>>
  /\ UNCHANGED <<readDeadline, writing, pings, reader, connection>>

\* select takes a message from c.Send; a write that returns at once changes nothing.
MessageWriteHangs ==
  /\ connection = "open" /\ writing = {}
  /\ writing' = {[began |-> time, for |-> {}]}
  /\ UNCHANGED <<time, readDeadline, nextTick, ticker, pings, reader, connection>>

\* select takes the tick: WriteMessage(PingMessage) is called.
PingWriteBegins ==
  /\ connection = "open" /\ writing = {} /\ ticker # {}
  /\ writing' = {[began |-> time, for |-> ticker]}
  /\ ticker' = {}
  /\ UNCHANGED <<time, readDeadline, nextTick, pings, reader, connection>>

WriteReturns ==
  /\ connection = "open"
  /\ \E w \in writing : pings' = pings \cup w.for
  /\ writing' = {}
  /\ UNCHANGED <<time, readDeadline, nextTick, ticker, reader, connection>>

\* The write deadline: the pump returns and closes the connection.
WriteFails ==
  /\ connection = "open"
  /\ \E w \in writing : time >= w.began + WriteWait
  /\ connection' = "broken"
  /\ UNCHANGED <<time, readDeadline, nextTick, ticker, writing, pings, reader>>

\* Mutant: the handler is there and does not move the deadline.
PongIsIgnored ==
  /\ connection = "open" /\ reader = "read"
  /\ \E t \in pings : pings' = { u \in pings : u > t }
  /\ UNCHANGED <<time, readDeadline, nextTick, ticker, writing, reader, connection>>

\* Pongs come in the order of the pings; a client may answer the last ping only.
\* What is buffered already is read although the deadline has passed.
PongIsRead ==
  /\ connection = "open" /\ reader = "read"
  /\ \E t \in pings : pings' = { u \in pings : u > t }
  /\ readDeadline' = time + PongWait
  /\ UNCHANGED <<time, nextTick, ticker, writing, reader, connection>>

\* ReadMessage returns data, which does not move the deadline.
DataIsRead ==
  /\ connection = "open" /\ reader = "read"
  /\ reader' = "hub"
  /\ UNCHANGED <<time, readDeadline, nextTick, ticker, writing, pings, connection>>

\* The hub takes the message.
HubTakes ==
  /\ connection = "open" /\ reader = "hub"
  /\ reader' = "read"
  /\ UNCHANGED <<time, readDeadline, nextTick, ticker, writing, pings, connection>>

\* ReadMessage fails: readPump unregisters the client and closes the connection.
ReadTimesOut ==
  /\ connection = "open" /\ reader = "read" /\ time >= readDeadline
  /\ connection' = "silent"
  /\ UNCHANGED <<time, readDeadline, nextTick, ticker, writing, pings, reader>>

HeartbeatNext ==
  \/ TimePasses \/ MessageWriteHangs \/ PingWriteBegins \/ WriteReturns \/ WriteFails
  \/ PongIsRead \/ DataIsRead \/ HubTakes \/ ReadTimesOut

HeartbeatSpec == HeartbeatInit /\ [][HeartbeatNext]_heartbeatVars

-----------------------------------------------------------------------------
(* Properties                                                              *)

\* Ticks that have no pong: not taken, being written, on the way, or not yet read.
Unanswered == ticker \cup pings \cup { t \in Instants : \E w \in writing : t \in w.for }

\* Types; at most one tick and one write wait.
HeartbeatTypeOK ==
  /\ time \in Instants
  /\ readDeadline \in Nat
  /\ nextTick \in Nat /\ nextTick > time
  /\ ticker \subseteq 1..time /\ \A t, u \in ticker : t = u
  /\ writing \subseteq [began : Instants, for : SUBSET (1..time)]
  /\ \A v, w \in writing : v = w
  /\ pings \subseteq 1..time
  /\ reader \in {"read", "hub"}
  /\ connection \in {"open", "silent", "broken"}

\* A client is given up as silent only if a tick is without its pong for at least
\* the margin of PongWait over PingPeriod, 6 seconds: prompt pongs keep a connection
\* even if ticks are dropped and messages are picked before pings.  Data that came
\* in the meantime does not count, and time that a write or the hub takes does.
SilentIsLate ==
  connection = "silent" =>
    \E t \in Unanswered : time - t >= PongWait - PingPeriod
=============================================================================

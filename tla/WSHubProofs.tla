---------------------------- MODULE WSHubProofs ----------------------------
(***************************************************************************)
(* Theorems about WSHub, for any sets of clients, posters and messages and *)
(* any capacities: who is a member, what each client is sent, and that     *)
(* WSHub implements WSBroadcast.                                           *)
(***************************************************************************)
EXTENDS WSHub, DataLemmas

-----------------------------------------------------------------------------
(* Type correctness                                                        *)

LEMMA TypeInit == Init => TypeOK
BY CapAssumption DEF Init, TypeOK, IsRegistry, NewConnectionRegistry, Entry

\* Every step of the hub goroutine keeps the types.
LEMMA TypeRun == TypeOK /\ Run => TypeOK'
<1> SUFFICES ASSUME TypeOK, Run PROVE TypeOK'
  OBVIOUS
<1> USE NilAssumption, CapAssumption
<1>1. CASE \E c \in Clients : ReceiveRegister(c)
  BY <1>1 DEF TypeOK, ReceiveRegister, chanVars, readVars, writeVars, postVars
<1>2. CASE AddMember
  BY <1>2 DEF TypeOK, AddMember, chanVars, readVars, writeVars, postVars
<1>3. CASE \E c \in Clients : ReceiveUnregister(c)
  BY <1>3 DEF TypeOK, ReceiveUnregister, chanVars, writeVars, postVars
<1>4. CASE RemoveMember
  BY <1>4, ZenonT(30) DEF TypeOK, RemoveMember, CloseSend, readVars, writeVars, postVars
<1>5. CASE ReceiveBroadcast
  BY <1>5 DEF TypeOK, ReceiveBroadcast, chanVars, readVars, writeVars, postVars
<1>6. CASE \E c \in Clients : Fanout(c)
  <2>1. PICK c \in Clients : Fanout(c)
    BY <1>6
  <2>2. CASE Enqueue(c)
    BY <2>1, <2>2 DEF TypeOK, Fanout, Enqueue, readVars, writeVars, postVars
  <2>3. CASE Evict(c)
    BY <2>1, <2>3 DEF TypeOK, Fanout, Evict, CloseSend, readVars, writeVars, postVars
  <2> QED BY <2>1, <2>2, <2>3 DEF Fanout
<1>7. CASE Unlock
  BY <1>7 DEF TypeOK, Unlock, chanVars, readVars, writeVars, postVars
<1> QED BY <1>1, <1>2, <1>3, <1>4, <1>5, <1>6, <1>7 DEF Run

\* So does every step of HandleConnect, and the loss of a connection.
LEMMA TypeConnect ==
  ASSUME TypeOK, NEW c \in Clients, HandleConnect(c) \/ LoseConnection(c)
  PROVE  TypeOK'
<1>1. ASSUME NEW id \in ClientIDs, Connect(c, id) PROVE TypeOK'
  <2>1. IsRegistry(registry', ClientIDs, {"ws"})
    BY <1>1, AddClientType DEF TypeOK, Connect
  <2> QED BY <1>1, <2>1 DEF TypeOK, Connect, hubVars, chanVars, readVars, writeVars
<1>2. CASE StartPumps(c)
  BY <1>2 DEF TypeOK, StartPumps, hubVars, chanVars, postVars
<1>3. CASE LoseConnection(c)
  BY <1>3 DEF TypeOK, LoseConnection, hubVars, chanVars, readVars, writeVars, postVars
<1> QED BY <1>1, <1>2, <1>3 DEF HandleConnect

LEMMA TypeReadPump == ASSUME TypeOK, NEW c \in Clients, ReadPump(c) PROVE TypeOK'
<1>1. ASSUME NEW m \in Messages, ReadMessage(c, m) PROVE TypeOK'
  BY <1>1 DEF TypeOK, ReadMessage, hubVars, chanVars, writeVars, postVars
<1>2. CASE Publish(c)
  BY <1>2, NilAssumption, CapAssumption
  DEF TypeOK, Publish, hubVars, chanVars, writeVars, postVars
<1>3. CASE ReadError(c)
  BY <1>3 DEF TypeOK, ReadError, hubVars, chanVars, writeVars, postVars
<1>4. CASE ReadPumpClose(c)
  BY <1>4 DEF TypeOK, ReadPumpClose, hubVars, chanVars, writeVars, postVars
<1> QED BY <1>1, <1>2, <1>3, <1>4 DEF ReadPump

LEMMA TypeWritePump == ASSUME TypeOK, NEW c \in Clients, WritePump(c) PROVE TypeOK'
<1>1. CASE WriteReceive(c)
  BY <1>1, CapAssumption DEF TypeOK, WriteReceive, hubVars, readVars, postVars
<1>2. CASE WriteHungUp(c)
  BY <1>2 DEF TypeOK, WriteHungUp, hubVars, chanVars, readVars, postVars
<1>3. CASE WriteBegin(c)
  BY <1>3 DEF TypeOK, WriteBegin, hubVars, chanVars, readVars, postVars
<1>4. CASE WriteDrain(c)
  BY <1>4, CapAssumption, SMTT(20) DEF TypeOK, WriteDrain, hubVars, readVars, postVars
<1>5. CASE WriteFlush(c)
  BY <1>5 DEF TypeOK, WriteFlush, hubVars, chanVars, readVars, postVars
<1>6. CASE WriteError(c)
  BY <1>6 DEF TypeOK, WriteError, hubVars, chanVars, readVars, postVars
<1>7. CASE PingError(c)
  BY <1>7 DEF TypeOK, PingError, hubVars, chanVars, readVars, postVars
<1>8. CASE WritePumpClose(c)
  BY <1>8 DEF TypeOK, WritePumpClose, hubVars, chanVars, readVars, postVars
<1> QED BY <1>1, <1>2, <1>3, <1>4, <1>5, <1>6, <1>7, <1>8 DEF WritePump

LEMMA TypeHandleSend == ASSUME TypeOK, NEW p \in Posters, HandleSend(p) PROVE TypeOK'
<1>1. ASSUME NEW m \in Messages, NEW id \in ClientIDs \cup {Nil}, PostAccept(p, m, id)
      PROVE  TypeOK'
  BY <1>1 DEF TypeOK, PostAccept, hubVars, chanVars, readVars, writeVars
<1>2. CASE PostPublish(p)
  BY <1>2, CapAssumption
  DEF TypeOK, PostPublish, hubVars, chanVars, readVars, writeVars
<1>3. CASE PostRecord(p)
  <2>1. IsRegistry(registry', ClientIDs, {"ws"})
    BY <1>3, RecordMessageType DEF TypeOK, PostRecord
  <2> QED BY <1>3, <2>1 DEF TypeOK, PostRecord, hubVars, chanVars, readVars, writeVars
<1> QED BY <1>1, <1>2, <1>3 DEF HandleSend

\* The types hold in every reachable state, so no channel exceeds its
\* capacity and the hub's case argument is always of the kind the case needs.
THEOREM TypeCorrect == Spec => []TypeOK
<1>1. TypeOK /\ [Next]_vars => TypeOK'
  <2> SUFFICES ASSUME TypeOK, [Next]_vars PROVE TypeOK'
    OBVIOUS
  <2>1. CASE UNCHANGED vars
    BY <2>1 DEF TypeOK, vars
  <2> QED BY <2>1, TypeRun, TypeConnect, TypeReadPump, TypeWritePump, TypeHandleSend
          DEF Next
<1> QED BY TypeInit, <1>1, PTL DEF Spec

-----------------------------------------------------------------------------
(* Closed channels and ghost members                                       *)

\* Membership is what keeps the hub away from closed channels: only members
\* are visited by the range, a member's Send is open, a client that is being
\* registered has never been closed, and its pumps have yet to start.
MembershipInv ==
  /\ hubPc = "fanout" => hubTodo \subseteq clients
  /\ hubPc # "fanout" => hubTodo = {}
  /\ \A c \in clients : ~closed[c] /\ handler[c] \in {"start", "done"}
  /\ \A c \in Clients :
       /\ handler[c] \in {"idle", "register"} => ~closed[c]
       /\ handler[c] # "done" => rp[c] = "off"
  /\ hubPc = "add" =>
       /\ ~closed[hubArg]
       /\ handler[hubArg] \in {"start", "done"}
       /\ rp[hubArg] \notin {"close", "done"}
  /\ NoGhostMember

LEMMA MembershipInit == Init => MembershipInv
BY DEF Init, MembershipInv, NoGhostMember

LEMMA MembershipRun == TypeOK /\ MembershipInv /\ Run => MembershipInv'
<1> SUFFICES ASSUME TypeOK, MembershipInv, Run PROVE MembershipInv'
  OBVIOUS
<1> USE DEF MembershipInv, NoGhostMember
<1>1. ASSUME NEW c \in Clients, ReceiveRegister(c) PROVE MembershipInv'
  BY <1>1 DEF TypeOK, ReceiveRegister, chanVars, readVars
<1>2. CASE AddMember
  BY <1>2 DEF TypeOK, AddMember, chanVars, readVars
<1>3. ASSUME NEW c \in Clients, ReceiveUnregister(c) PROVE MembershipInv'
  BY <1>3 DEF TypeOK, ReceiveUnregister, chanVars
<1>4. CASE RemoveMember
  <2>1. CASE hubArg \in clients
    <3>1. closed' = [closed EXCEPT ![hubArg] = TRUE] /\ clients' = clients \ {hubArg}
      BY <1>4, <2>1 DEF RemoveMember, CloseSend
    <3> QED BY <1>4, <2>1, <3>1 DEF TypeOK, RemoveMember, readVars
  <2>2. CASE hubArg \notin clients
    BY <1>4, <2>2 DEF TypeOK, RemoveMember, readVars
  <2> QED BY <2>1, <2>2
<1>5. CASE ReceiveBroadcast
  BY <1>5 DEF TypeOK, ReceiveBroadcast, chanVars, readVars
<1>6. ASSUME NEW c \in Clients, Fanout(c) PROVE MembershipInv'
  <2>1. CASE Enqueue(c)
    BY <1>6, <2>1 DEF TypeOK, Fanout, Enqueue, readVars
  <2>2. CASE Evict(c)
    BY <1>6, <2>2 DEF TypeOK, Fanout, Evict, CloseSend, readVars
  <2> QED BY <1>6, <2>1, <2>2 DEF Fanout
<1>7. CASE Unlock
  BY <1>7 DEF TypeOK, Unlock, chanVars, readVars
<1> QED BY <1>1, <1>2, <1>3, <1>4, <1>5, <1>6, <1>7 DEF Run

LEMMA MembershipClient ==
  ASSUME TypeOK, MembershipInv, NEW c \in Clients,
         HandleConnect(c) \/ LoseConnection(c) \/ ReadPump(c) \/ WritePump(c)
  PROVE  MembershipInv'
<1> USE DEF MembershipInv, NoGhostMember
<1>1. ASSUME NEW id \in ClientIDs, Connect(c, id) PROVE MembershipInv'
  BY <1>1 DEF TypeOK, Connect, hubVars, chanVars, readVars
<1>2. CASE StartPumps(c)
  BY <1>2 DEF TypeOK, StartPumps, hubVars, chanVars
<1>3. CASE LoseConnection(c)
  BY <1>3 DEF TypeOK, LoseConnection, hubVars, chanVars, readVars
<1>4. ASSUME NEW m \in Messages, ReadMessage(c, m) PROVE MembershipInv'
  BY <1>4 DEF TypeOK, ReadMessage, hubVars, chanVars
<1>5. CASE Publish(c)
  BY <1>5 DEF TypeOK, Publish, hubVars, chanVars
<1>6. CASE ReadError(c)
  BY <1>6 DEF TypeOK, ReadError, hubVars, chanVars
<1>7. CASE ReadPumpClose(c)
  BY <1>7 DEF TypeOK, ReadPumpClose, hubVars, chanVars
<1>8. CASE WritePump(c)
  <2>1. UNCHANGED <<clients, hubPc, hubArg, hubTodo, closed, handler, rp>>
    BY <1>8 DEF WritePump, WriteReceive, WriteHungUp, WriteBegin, WriteDrain,
                WriteFlush, WriteError, PingError, WritePumpClose,
                hubVars, chanVars, readVars
  <2> QED BY <2>1
<1> QED BY <1>1, <1>2, <1>3, <1>4, <1>5, <1>6, <1>7, <1>8 DEF HandleConnect, ReadPump

LEMMA MembershipStep == TypeOK /\ MembershipInv /\ [Next]_vars => MembershipInv'
<1> SUFFICES ASSUME TypeOK, MembershipInv, [Next]_vars PROVE MembershipInv'
  OBVIOUS
<1>1. ASSUME NEW p \in Posters, HandleSend(p) PROVE MembershipInv'
  <2>1. UNCHANGED <<clients, hubPc, hubArg, hubTodo, closed, handler, rp>>
    BY <1>1 DEF HandleSend, PostAccept, PostPublish, PostRecord,
                hubVars, chanVars, readVars
  <2> QED BY <2>1 DEF MembershipInv, NoGhostMember
<1>2. CASE UNCHANGED vars
  BY <1>2 DEF MembershipInv, NoGhostMember, vars
<1> QED BY <1>1, <1>2, MembershipRun, MembershipClient DEF Next

THEOREM MembershipHolds == Spec => []MembershipInv
BY MembershipInit, MembershipStep, TypeCorrect, PTL DEF Spec

\* No panic: the hub never sends on, or closes, a channel that is closed.
THEOREM HubNeverPanics == Spec => []SendTargetsOpen
<1>1. MembershipInv => SendTargetsOpen
  BY DEF MembershipInv, SendTargetsOpen
<1> QED BY <1>1, MembershipHolds, PTL

\* Every member has a readPump that will unregister it, until it does.
THEOREM NoGhosts == Spec => []NoGhostMember
<1>1. MembershipInv => NoGhostMember
  BY DEF MembershipInv
<1> QED BY <1>1, MembershipHolds, PTL

-----------------------------------------------------------------------------
(* The stream of a client                                                  *)

\* r is a run of the log that begins after its first j messages.
Follows(r, j, log) ==
  /\ j + Len(r) <= Len(log)
  /\ \A i \in 1..Len(r) : r[i] = log[j + i]

\* What a client's Send has carried follows the log from where the client
\* joined; for a member it reaches to the end, short of the message being
\* fanned out.  Three facts about control keep it so: nothing is left in the
\* frame when writePump returns to its select, a client joins once, and its
\* writePump starts once.
StreamInv ==
  /\ \A c \in Clients :
       /\ handler[c] \in {"idle", "register"} => joined[c] = Nil
       /\ joined[c] = Nil => c \notin clients /\ Received(c) = <<>>
       /\ joined[c] # Nil => Follows(Received(c), joined[c], hubLog)
       /\ wp[c] \in {"off", "select"} => frame[c] = <<>>
       /\ handler[c] # "done" => wp[c] = "off"
  /\ \A c \in clients :
       joined[c] + Len(Received(c)) =
         Len(hubLog) - (IF c \in hubTodo THEN 1 ELSE 0)
  /\ hubPc = "add" => joined[hubArg] = Nil
  /\ hubPc = "fanout" => Len(hubLog) > 0 /\ hubArg = hubLog[Len(hubLog)]

LEMMA ReceivedType ==
  ASSUME TypeOK, NEW c \in Clients
  PROVE  /\ delivered[c] \o frame[c] \in Seq(Messages)
         /\ Received(c) \in Seq(Messages)
         /\ Len(Received(c)) \in Nat
BY ConcatProperties, LenProperties DEF TypeOK, Received

LEMMA StreamInit == Init => StreamInv
<1> SUFFICES ASSUME Init PROVE StreamInv
  OBVIOUS
<1>1. ASSUME NEW c \in Clients PROVE Received(c) = <<>>
  <2>1. delivered[c] = <<>> /\ frame[c] = <<>> /\ sendq[c] = <<>>
    BY DEF Init
  <2>2. <<>> \in Seq(Messages)
    OBVIOUS
  <2> QED BY <2>1, <2>2, ConcatEmptySeq DEF Received
<1> QED BY <1>1 DEF Init, StreamInv

\* A step outside the hub that leaves every stream as it is.
LEMMA StreamFrame ==
  ASSUME TypeOK, StreamInv,
         UNCHANGED <<clients, hubPc, hubArg, hubTodo, hubLog, joined>>,
         \A c \in Clients :
           /\ Received(c)' = Received(c)
           /\ handler'[c] \in {"idle", "register"} => handler[c] \in {"idle", "register"}
           /\ wp'[c] \in {"off", "select"} => frame'[c] = <<>>
           /\ handler'[c] # "done" => wp'[c] = "off"
  PROVE  StreamInv'
BY ZenonT(40) DEF TypeOK, StreamInv, Received

LEMMA StreamWritePump ==
  ASSUME TypeOK, StreamInv, NEW c \in Clients, WritePump(c)
  PROVE  StreamInv'
<1> USE DEF hubVars, chanVars, readVars, postVars
<1>1. UNCHANGED <<clients, hubPc, hubArg, hubTodo, hubLog, joined, handler>>
  BY DEF WritePump, WriteReceive, WriteHungUp, WriteBegin, WriteDrain,
         WriteFlush, WriteError, PingError, WritePumpClose
<1>2. ASSUME NEW x \in Clients, x # c
      PROVE  /\ Received(x)' = Received(x)
             /\ wp'[x] = wp[x] /\ frame'[x] = frame[x]
  BY <1>2, ZenonT(40) DEF WritePump, WriteReceive, WriteHungUp, WriteBegin, WriteDrain,
     WriteFlush, WriteError, PingError, WritePumpClose, Received, TypeOK
<1>3. sendq[c] # <<>> =>
        (delivered[c] \o Append(frame[c], Head(sendq[c]))) \o Tail(sendq[c])
          = (delivered[c] \o frame[c]) \o sendq[c]
  <2> SUFFICES ASSUME sendq[c] # <<>>
      PROVE  (delivered[c] \o Append(frame[c], Head(sendq[c]))) \o Tail(sendq[c])
               = (delivered[c] \o frame[c]) \o sendq[c]
    OBVIOUS
  <2> DEFINE d == delivered[c]  f == frame[c]  q == sendq[c]  h == Head(q)  t == Tail(q)
  <2>1. d \in Seq(Messages) /\ f \in Seq(Messages) /\ q \in Seq(Messages)
    BY DEF TypeOK
  <2>2. h \in Messages /\ t \in Seq(Messages) /\ q = <<h>> \o t
    BY <2>1, HeadTailConcat
  <2> HIDE DEF d, f, q, h, t
  <2>3. (d \o Append(f, h)) \o t = (d \o f) \o (<<h>> \o t)
    BY <2>1, <2>2, MoveHead
  <2> QED BY <2>2, <2>3 DEF d, f, q, h, t
<1>4. Received(c)' = Received(c) /\ (wp'[c] \in {"off", "select"} => frame'[c] = <<>>)
  <2>1. CASE WriteReceive(c)
    <3>1. frame[c] = <<>> /\ sendq[c] # <<>>
      BY <2>1 DEF WriteReceive, StreamInv
    <3>2. frame'[c] = Append(frame[c], Head(sendq[c])) /\ sendq'[c] = Tail(sendq[c])
          /\ delivered'[c] = delivered[c] /\ wp'[c] = "frame"
      BY <2>1, <3>1 DEF WriteReceive, TypeOK
    <3> QED BY <1>3, <3>1, <3>2 DEF Received
  <2>2. CASE WriteDrain(c)
    <3>1. frame'[c] = Append(frame[c], Head(sendq[c])) /\ sendq'[c] = Tail(sendq[c])
          /\ delivered'[c] = delivered[c] /\ wp'[c] = "drain" /\ sendq[c] # <<>>
      BY <2>2 DEF WriteDrain, TypeOK
    <3> QED BY <1>3, <3>1 DEF Received
  <2>3. CASE WriteFlush(c)
    <3>1. frame'[c] = <<>> /\ sendq'[c] = sendq[c]
          /\ delivered'[c] = delivered[c] \o frame[c]
      BY <2>3 DEF WriteFlush, TypeOK
    <3>2. (delivered[c] \o frame[c]) \o <<>> = delivered[c] \o frame[c]
      BY ReceivedType, ConcatEmptySeq
    <3> QED BY <3>1, <3>2 DEF Received
  <2>4. CASE WriteHungUp(c) \/ WriteBegin(c) \/ WriteError(c) \/ PingError(c)
             \/ WritePumpClose(c)
    BY <2>4 DEF WriteHungUp, WriteBegin, WriteError, PingError, WritePumpClose,
       Received, TypeOK
  <2> QED BY <2>1, <2>2, <2>3, <2>4 DEF WritePump
<1>5. ASSUME NEW x \in Clients
      PROVE  /\ Received(x)' = Received(x)
             /\ wp'[x] \in {"off", "select"} => frame'[x] = <<>>
             /\ handler'[x] # "done" => wp'[x] = "off"
  <2>1. handler[c] = "done"
    BY DEF WritePump, WriteReceive, WriteHungUp, WriteBegin, WriteDrain,
           WriteFlush, WriteError, PingError, WritePumpClose, StreamInv
  <2> QED BY <1>1, <1>2, <1>4, <2>1 DEF StreamInv
<1> QED BY <1>1, <1>5, StreamFrame

LEMMA StreamOthers ==
  ASSUME TypeOK, StreamInv, NEW c \in Clients,
         HandleConnect(c) \/ LoseConnection(c) \/ ReadPump(c)
  PROVE  StreamInv'
<1> USE DEF hubVars, chanVars, writeVars
<1>1. UNCHANGED <<clients, hubPc, hubArg, hubTodo, hubLog, joined>>
  BY DEF HandleConnect, Connect, StartPumps, LoseConnection,
         ReadPump, ReadMessage, Publish, ReadError, ReadPumpClose
<1>2. UNCHANGED <<delivered, frame, sendq>>
  BY DEF HandleConnect, Connect, StartPumps, LoseConnection,
         ReadPump, ReadMessage, Publish, ReadError, ReadPumpClose
<1>3. ASSUME NEW x \in Clients
      PROVE  handler'[x] \in {"idle", "register"} => handler[x] \in {"idle", "register"}
  BY DEF HandleConnect, Connect, StartPumps, LoseConnection,
         ReadPump, ReadMessage, Publish, ReadError, ReadPumpClose, TypeOK
<1>4. ASSUME NEW x \in Clients
      PROVE  /\ Received(x)' = Received(x)
             /\ wp'[x] \in {"off", "select"} => frame'[x] = <<>>
             /\ handler'[x] # "done" => wp'[x] = "off"
  <2>1. /\ wp'[x] \in {"off", "select"} => wp[x] \in {"off", "select"}
        /\ handler'[x] # "done" => wp'[x] = wp[x] /\ handler[x] # "done"
    BY DEF StreamInv, HandleConnect, Connect, StartPumps, LoseConnection,
           ReadPump, ReadMessage, Publish, ReadError, ReadPumpClose, TypeOK
  <2> QED BY <1>2, <2>1 DEF Received, StreamInv
<1> QED BY <1>1, <1>3, <1>4, StreamFrame

LEMMA StreamHandleSend ==
  ASSUME TypeOK, StreamInv, NEW p \in Posters, HandleSend(p)
  PROVE  StreamInv'
<1>1. UNCHANGED <<clients, hubPc, hubArg, hubTodo, hubLog, joined, delivered,
                  frame, sendq, handler, wp>>
  BY DEF HandleSend, PostAccept, PostPublish, PostRecord,
         hubVars, chanVars, writeVars
<1> QED BY <1>1, StreamFrame DEF Received, StreamInv

\* What follows the log follows the longer log.
LEMMA FollowsLonger ==
  ASSUME NEW S, NEW log \in Seq(S), NEW m \in S, NEW r \in Seq(S), NEW j \in Nat,
         Follows(r, j, log)
  PROVE  Follows(r, j, Append(log, m))
BY AppendProperties, LenProperties DEF Follows

\* A stream that lacks only the last message of the log may take it.
LEMMA FollowsNext ==
  ASSUME NEW S, NEW log \in Seq(S), NEW r \in Seq(S), NEW j \in Nat,
         Follows(r, j, log), j + Len(r) = Len(log) - 1
  PROVE  Follows(Append(r, log[Len(log)]), j, log)
<1>1. Len(log) \in Nat /\ Len(r) \in Nat
  BY LenProperties
<1>2. log[Len(log)] \in S
  BY <1>1, ElementOfSeq
<1> QED BY <1>1, <1>2, AppendProperties DEF Follows

LEMMA StreamRun ==
  ASSUME TypeOK, MembershipInv, StreamInv, Run
  PROVE  StreamInv'
<1> USE DEF readVars, writeVars, postVars
<1>1. CASE \E c \in Clients : ReceiveRegister(c)
  <2>1. PICK c \in Clients : ReceiveRegister(c)
    BY <1>1
  <2>2. UNCHANGED <<clients, hubTodo, hubLog, joined, delivered, frame, sendq, wp>>
    BY <2>1 DEF ReceiveRegister, chanVars
  <2>3. joined[c] = Nil
    BY <2>1 DEF ReceiveRegister, StreamInv
  <2> QED BY <2>1, <2>2, <2>3 DEF ReceiveRegister, StreamInv, Received, TypeOK
<1>2. CASE AddMember
  <2>1. UNCHANGED <<hubTodo, hubLog, delivered, frame, sendq, wp, handler>>
    BY <1>2 DEF AddMember, chanVars
  <2>2. hubArg \in Clients /\ joined[hubArg] = Nil /\ hubTodo = {}
        /\ handler[hubArg] \in {"start", "done"}
    BY <1>2 DEF AddMember, StreamInv, MembershipInv, TypeOK
  <2>3. \A c \in Clients : Received(c)' = Received(c)
    BY <2>1 DEF Received
  <2>4. Received(hubArg) = <<>>
    BY <2>2 DEF StreamInv
  <2>5. Follows(<<>>, Len(hubLog), hubLog)
    BY LenProperties DEF Follows, TypeOK
  <2>6. Len(hubLog) \in Nat
    BY DEF TypeOK
  <2>7. Len(<<>>) = 0 /\ Len(hubLog) + 0 = Len(hubLog) - 0
    BY <2>6
  <2>8. clients' = clients \cup {hubArg} /\ hubPc' = "select"
        /\ joined' = [joined EXCEPT ![hubArg] = Len(hubLog)]
    BY <1>2 DEF AddMember
  <2>9. ASSUME NEW c \in Clients
        PROVE  /\ handler'[c] \in {"idle", "register"} => joined'[c] = Nil
               /\ joined'[c] = Nil => c \notin clients' /\ Received(c)' = <<>>
               /\ joined'[c] # Nil => Follows(Received(c)', joined'[c], hubLog')
               /\ wp'[c] \in {"off", "select"} => frame'[c] = <<>>
               /\ handler'[c] # "done" => wp'[c] = "off"
    <3>1. CASE c = hubArg
      BY <2>1, <2>2, <2>3, <2>4, <2>5, <2>6, <2>8, <3>1, NilAssumption DEF StreamInv, TypeOK
    <3>2. CASE c # hubArg
      BY <2>1, <2>3, <2>8, <3>2 DEF StreamInv, TypeOK
    <3> QED BY <3>1, <3>2
  <2>10. ASSUME NEW c \in clients'
         PROVE  joined'[c] + Len(Received(c)') =
                  Len(hubLog') - (IF c \in hubTodo' THEN 1 ELSE 0)
    <3>1. CASE c = hubArg
      BY <2>1, <2>2, <2>3, <2>4, <2>7, <2>8, <3>1, Zenon DEF TypeOK
    <3>2. CASE c # hubArg
      BY <2>1, <2>3, <2>8, <3>2 DEF StreamInv, TypeOK
    <3> QED BY <3>1, <3>2, Zenon
  <2> QED BY <2>8, <2>9, <2>10 DEF StreamInv, Received
<1>3. CASE \E c \in Clients : ReceiveUnregister(c)
  <2>1. UNCHANGED <<clients, hubTodo, hubLog, joined, delivered, frame, sendq,
                    wp, handler>> /\ hubPc' = "remove"
    BY <1>3 DEF ReceiveUnregister, chanVars
  <2> QED BY <2>1 DEF StreamInv, Received
<1>4. CASE RemoveMember
  <2>1. UNCHANGED <<hubTodo, hubLog, joined, delivered, frame, sendq, wp, handler>>
        /\ clients' \subseteq clients /\ hubPc' = "select"
    BY <1>4 DEF RemoveMember
  <2> QED BY <2>1 DEF StreamInv, Received
<1>5. CASE ReceiveBroadcast
  <2>1. UNCHANGED <<clients, joined, delivered, frame, sendq, wp, handler>>
    BY <1>5 DEF ReceiveBroadcast, chanVars
  <2>2. \A c \in Clients : Received(c)' = Received(c)
    BY <2>1 DEF Received
  <2> DEFINE m == Head(broadcast)
  <2>3. hubLog' = Append(hubLog, m) /\ hubPc' = "fanout" /\ hubArg' = m
        /\ hubTodo' = clients /\ hubTodo = {}
    BY <1>5 DEF ReceiveBroadcast, MembershipInv
  <2>4. m \in Messages /\ hubLog \in Seq(Messages)
    BY <1>5, HeadTailProperties DEF ReceiveBroadcast, TypeOK
  <2>5. Len(hubLog') = Len(hubLog) + 1 /\ hubLog'[Len(hubLog')] = m
    BY <2>3, <2>4, AppendProperties
  <2>6. ASSUME NEW c \in Clients, joined[c] # Nil
        PROVE  Follows(Received(c), joined[c], hubLog')
    <3>1. joined[c] \in Nat /\ Follows(Received(c), joined[c], hubLog)
      BY <2>6 DEF StreamInv, TypeOK
    <3> QED BY <2>3, <2>4, <3>1, FollowsLonger, ReceivedType
  <2>7. ASSUME NEW c \in clients
        PROVE  joined[c] + Len(Received(c)) = Len(hubLog') - 1
    <3>1. joined[c] + Len(Received(c)) = Len(hubLog) - 0
      BY <2>3 DEF StreamInv
    <3> QED BY <2>4, <2>5, <3>1, LenProperties
  <2>8. Len(hubLog') > 0
    BY <2>4, <2>5, LenProperties
  <2>9. clients \subseteq Clients
    BY DEF TypeOK
  <2> HIDE DEF m
  <2> QED BY <2>1, <2>2, <2>3, <2>5, <2>6, <2>7, <2>8, <2>9 DEF StreamInv
<1>6. CASE \E c \in Clients : Fanout(c)
  <2>1. PICK c \in Clients : Fanout(c)
    BY <1>6
  <2>2. UNCHANGED <<hubPc, hubArg, hubLog, joined, delivered, frame, wp, handler>>
        /\ hubTodo' = hubTodo \ {c} /\ hubPc = "fanout" /\ c \in hubTodo
    BY <2>1 DEF Fanout
  <2>3. CASE Evict(c)
    <3>1. sendq' = sendq /\ clients' = clients \ {c}
      BY <2>3 DEF Evict
    <3> QED BY <2>2, <3>1 DEF StreamInv, Received
  <2>4. CASE Enqueue(c)
    <3>1. clients' = clients /\ sendq'[c] = Append(sendq[c], hubArg)
          /\ \A x \in Clients : x # c => sendq'[x] = sendq[x]
      BY <2>4 DEF Enqueue, TypeOK
    <3>2. \A x \in Clients : x # c => Received(x)' = Received(x)
      BY <2>2, <3>1 DEF Received
    <3>3. hubArg \in Messages /\ sendq[c] \in Seq(Messages)
      BY <2>2 DEF TypeOK
    <3>4. Received(c)' = Append(Received(c), hubArg)
      <4> DEFINE r == delivered[c] \o frame[c]  q == sendq[c]
      <4>1. r \in Seq(Messages) /\ q \in Seq(Messages)
        BY <3>3, ReceivedType
      <4> HIDE DEF r, q
      <4>2. r \o Append(q, hubArg) = Append(r \o q, hubArg)
        BY <3>3, <4>1, AppendLast
      <4> QED BY <2>2, <3>1, <4>2 DEF Received, r, q
    <3>5. c \in clients /\ joined[c] # Nil /\ joined[c] \in Nat
      BY <2>2 DEF StreamInv, MembershipInv, TypeOK
    <3>6. joined[c] + Len(Received(c)) = Len(hubLog) - 1
          /\ Follows(Received(c), joined[c], hubLog) /\ hubArg = hubLog[Len(hubLog)]
      BY <2>2, <3>5 DEF StreamInv
    <3>7. Follows(Received(c)', joined[c], hubLog)
      BY <3>4, <3>5, <3>6, ReceivedType, FollowsNext, ZenonT(30) DEF TypeOK
    <3>8. Len(Received(c)') = Len(Received(c)) + 1
      BY <3>3, <3>4, ReceivedType, AppendProperties
    <3>9. joined[c] + Len(Received(c)') = Len(hubLog) - 0
      BY <3>5, <3>6, <3>8, ReceivedType DEF TypeOK
    <3>10. ASSUME NEW x \in Clients
           PROVE  /\ handler'[x] \in {"idle", "register"} => joined'[x] = Nil
                  /\ joined'[x] = Nil => x \notin clients' /\ Received(x)' = <<>>
                  /\ joined'[x] # Nil => Follows(Received(x)', joined'[x], hubLog')
                  /\ wp'[x] \in {"off", "select"} => frame'[x] = <<>>
                  /\ handler'[x] # "done" => wp'[x] = "off"
      <4>1. CASE x = c
        BY <2>2, <3>5, <3>7, <4>1 DEF StreamInv
      <4>2. CASE x # c
        BY <2>2, <3>1, <3>2, <4>2 DEF StreamInv
      <4> QED BY <4>1, <4>2
    <3>11. ASSUME NEW x \in clients'
           PROVE  joined'[x] + Len(Received(x)') =
                    Len(hubLog') - (IF x \in hubTodo' THEN 1 ELSE 0)
      <4>1. CASE x = c
        BY <2>2, <3>9, <4>1
      <4>2. CASE x # c
        BY <2>2, <3>1, <3>2, <4>2 DEF StreamInv, TypeOK
      <4> QED BY <4>1, <4>2
    <3> QED BY <2>2, <3>10, <3>11 DEF StreamInv, Received
  <2> QED BY <2>1, <2>3, <2>4 DEF Fanout
<1>7. CASE Unlock
  <2>1. UNCHANGED <<clients, hubTodo, hubLog, joined, delivered, frame, sendq,
                    wp, handler>> /\ hubPc' = "select"
    BY <1>7 DEF Unlock, chanVars
  <2> QED BY <2>1 DEF StreamInv, Received
<1> QED BY <1>1, <1>2, <1>3, <1>4, <1>5, <1>6, <1>7 DEF Run

LEMMA StreamStep == TypeOK /\ MembershipInv /\ StreamInv /\ [Next]_vars => StreamInv'
<1> SUFFICES ASSUME TypeOK, MembershipInv, StreamInv, [Next]_vars PROVE StreamInv'
  OBVIOUS
<1>1. CASE UNCHANGED vars
  BY <1>1, StreamFrame DEF StreamInv, Received, vars
<1> QED BY <1>1, StreamRun, StreamOthers, StreamWritePump, StreamHandleSend DEF Next

THEOREM StreamHolds == Spec => []StreamInv
BY StreamInit, StreamStep, TypeCorrect, MembershipHolds, PTL DEF Spec

-----------------------------------------------------------------------------
(* Members miss nothing                                                    *)

\* A run of the log that reaches its end is a suffix of the log.
LEMMA FollowsToEnd ==
  ASSUME NEW S, NEW log \in Seq(S), NEW r \in Seq(S), NEW j \in Nat,
         Follows(r, j, log), j + Len(r) = Len(log)
  PROVE  SubSeq(log, j + 1, Len(log)) = r
<1> DEFINE o == SubSeq(log, j + 1, Len(log))
<1>1. Len(log) \in Nat /\ Len(r) \in Nat
  BY LenProperties
<1>2. \A i \in j + 1 .. Len(log) : log[i] \in S
  BY <1>1, ElementOfSeq
<1>3. /\ o \in Seq(S)
      /\ Len(o) = IF j + 1 <= Len(log) THEN Len(log) - (j + 1) + 1 ELSE 0
      /\ \A i \in 1 .. Len(log) - (j + 1) + 1 : o[i] = log[(j + 1) + i - 1]
  BY <1>1, <1>2, SubSeqProperties
<1>4. Len(o) = Len(r)
  BY <1>1, <1>3
<1>5. ASSUME NEW i \in 1..Len(r) PROVE o[i] = r[i]
  <2>1. o[i] = log[(j + 1) + i - 1] /\ (j + 1) + i - 1 = j + i
    BY <1>1, <1>3
  <2> QED BY <2>1 DEF Follows
<1> HIDE DEF o
<1>6. o = r
  BY <1>3, <1>4, <1>5, SeqEqual
<1> QED BY <1>6 DEF o

\* In every reachable state each member has been handed all messages since it
\* joined, in the hub's order, except possibly the one being fanned out.
THEOREM NothingMissed == Spec => []MembersMissNothing
<1>1. TypeOK /\ MembershipInv /\ StreamInv => MembersMissNothing
  <2> SUFFICES ASSUME TypeOK, MembershipInv, StreamInv, NEW c \in clients
               PROVE  Owed(c) = IF c \in hubTodo THEN Append(Received(c), hubArg)
                                ELSE Received(c)
    BY DEF MembersMissNothing
  <2>1. c \in Clients /\ hubLog \in Seq(Messages) /\ Received(c) \in Seq(Messages)
    BY ReceivedType DEF TypeOK
  <2>2. joined[c] \in Nat /\ Follows(Received(c), joined[c], hubLog)
    BY <2>1 DEF StreamInv, TypeOK
  <2>3. CASE c \in hubTodo
    <3>1. hubArg = hubLog[Len(hubLog)] /\ hubArg \in Messages
      BY <2>3 DEF MembershipInv, StreamInv, TypeOK
    <3>2. joined[c] + Len(Received(c)) = Len(hubLog) - 1
      BY <2>3 DEF StreamInv
    <3>3. Follows(Append(Received(c), hubArg), joined[c], hubLog)
      BY <2>1, <2>2, <3>1, <3>2, FollowsNext
    <3>4. Append(Received(c), hubArg) \in Seq(Messages)
          /\ Len(Append(Received(c), hubArg)) = Len(Received(c)) + 1
      BY <2>1, <3>1, AppendProperties
    <3>5. joined[c] + Len(Append(Received(c), hubArg)) = Len(hubLog)
      BY <2>1, <2>2, <3>2, <3>4, LenProperties
    <3> QED BY <2>1, <2>2, <2>3, <3>3, <3>4, <3>5, FollowsToEnd DEF Owed
  <2>4. CASE c \notin hubTodo
    <3>1. joined[c] + Len(Received(c)) = Len(hubLog) - 0
      BY <2>4 DEF StreamInv
    <3>2. joined[c] + Len(Received(c)) = Len(hubLog)
      BY <2>1, <3>1, LenProperties
    <3> QED BY <2>1, <2>2, <2>4, <3>2, FollowsToEnd DEF Owed
  <2> QED BY <2>3, <2>4
<1> QED BY <1>1, TypeCorrect, MembershipHolds, StreamHolds, PTL

-----------------------------------------------------------------------------
(* writePump's inner loop                                                  *)

\* The queue of a client shrinks only by its own writePump.
LEMMA DrainStep == TypeOK /\ DrainNeverStalls /\ [Next]_vars => DrainNeverStalls'
<1> SUFFICES ASSUME TypeOK, DrainNeverStalls, [Next]_vars, NEW c \in Clients,
                    wp'[c] = "drain"
             PROVE  batch'[c] <= Len(sendq'[c])
  BY DEF DrainNeverStalls
<1>1. CASE /\ wp'[c] = wp[c] /\ batch'[c] = batch[c]
           /\ sendq'[c] = sendq[c] \/ (hubArg \in Messages /\ sendq'[c] = Append(sendq[c], hubArg))
  <2>1. batch[c] \in Nat /\ batch[c] <= Len(sendq[c]) /\ sendq[c] \in Seq(Messages)
    BY <1>1 DEF DrainNeverStalls, TypeOK
  <2> QED BY <1>1, <2>1, AppendProperties, LenProperties
<1>2. CASE UNCHANGED vars
  BY <1>1, <1>2 DEF vars
<1>3. CASE Run
  BY <1>1, <1>3 DEF Run, ReceiveRegister, AddMember, ReceiveUnregister, RemoveMember,
     ReceiveBroadcast, Fanout, Enqueue, Evict, Unlock, chanVars, writeVars, TypeOK
<1>4. ASSUME NEW x \in Clients, HandleConnect(x) \/ LoseConnection(x) \/ ReadPump(x)
      PROVE  batch'[c] <= Len(sendq'[c])
  <2>1. CASE StartPumps(x)
    BY <1>1, <2>1 DEF StartPumps, chanVars, TypeOK
  <2>2. CASE ~StartPumps(x)
    BY <1>1, <1>4, <2>2 DEF HandleConnect, Connect, LoseConnection, ReadPump,
       ReadMessage, Publish, ReadError, ReadPumpClose, chanVars, writeVars
  <2> QED BY <2>1, <2>2
<1>5. ASSUME NEW x \in Clients, WritePump(x) PROVE batch'[c] <= Len(sendq'[c])
  <2>1. CASE x # c
    BY <1>1, <1>5, <2>1 DEF WritePump, WriteReceive, WriteHungUp, WriteBegin,
       WriteDrain, WriteFlush, WriteError, PingError, WritePumpClose, chanVars, TypeOK
  <2>2. CASE x = c /\ WriteBegin(c)
    BY <2>2, LenProperties DEF WriteBegin, chanVars, TypeOK
  <2>3. CASE x = c /\ WriteDrain(c)
    <3>1. batch'[c] = batch[c] - 1 /\ sendq'[c] = Tail(sendq[c])
          /\ sendq[c] \in Seq(Messages) /\ sendq[c] # <<>>
          /\ batch[c] \in Nat /\ batch[c] <= Len(sendq[c])
      BY <2>3 DEF WriteDrain, DrainNeverStalls, TypeOK
    <3> QED BY <3>1, HeadTailProperties, LenProperties
  <2>4. CASE x = c /\ ~WriteBegin(c) /\ ~WriteDrain(c)
    BY <1>5, <2>4 DEF WritePump, WriteReceive, WriteHungUp, WriteFlush, WriteError,
       PingError, WritePumpClose, TypeOK
  <2> QED BY <2>1, <2>2, <2>3, <2>4
<1>6. ASSUME NEW p \in Posters, HandleSend(p) PROVE batch'[c] <= Len(sendq'[c])
  BY <1>1, <1>6 DEF HandleSend, PostAccept, PostPublish, PostRecord, chanVars, writeVars
<1> QED BY <1>2, <1>3, <1>4, <1>5, <1>6 DEF Next

\* writePump never blocks in, or reads past, the batch that it counted.
THEOREM DrainComplete == Spec => []DrainNeverStalls
<1>1. Init => DrainNeverStalls
  BY DEF Init, DrainNeverStalls
<1> QED BY <1>1, DrainStep, TypeCorrect, PTL DEF Spec

-----------------------------------------------------------------------------
(* Refinement                                                              *)

\* The frame that is flushed is the next run of the log.
LEMMA FlushDelivers ==
  ASSUME TypeOK, StreamInv, NEW c \in Clients, WriteFlush(c)
  PROVE  \/ UNCHANGED <<hubLog, joined, delivered>>
         \/ \E n \in 1..Len(hubLog) : Broadcast!Deliver(c, n)
<1> DEFINE d == delivered[c]  f == frame[c]  q == sendq[c]  n == Len(f)
           j == joined[c]  r == (d \o f) \o q  first == j + Len(d) + 1
<1>1. d \in Seq(Messages) /\ f \in Seq(Messages) /\ q \in Seq(Messages)
      /\ hubLog \in Seq(Messages)
  BY DEF TypeOK
<1>2. delivered' = [delivered EXCEPT ![c] = d \o f] /\ UNCHANGED <<hubLog, joined>>
  BY DEF WriteFlush, hubVars
<1>3. n \in Nat /\ Len(d) \in Nat /\ Len(q) \in Nat /\ Len(hubLog) \in Nat
  BY <1>1, LenProperties
<1>4. CASE f = <<>>
  <2>1. d \o f = d
    BY <1>1, <1>4, ConcatEmptySeq
  <2> QED BY <1>2, <2>1 DEF TypeOK
<1>5. CASE f # <<>>
  <2>1. n > 0
    BY <1>1, <1>5, EmptySeq
  <2>2. j # Nil /\ j \in Nat
    <3>1. ASSUME j = Nil PROVE FALSE
      <4>1. Received(c) = <<>>
        BY <3>1 DEF StreamInv
      <4>2. r = <<>> /\ d \o f \in Seq(Messages)
        BY <1>1, <4>1, ConcatProperties DEF Received
      <4>3. d \o f = <<>>
        BY <1>1, <4>2, ConcatEqualIffEmpty
      <4> QED BY <1>1, <1>5, <4>3, ConcatEqualIffEmpty
    <3> QED BY <3>1 DEF TypeOK
  <2>3. Follows(r, j, hubLog)
    BY <2>2 DEF StreamInv, Received
  <2>4. d \o f \in Seq(Messages) /\ Len(d \o f) = Len(d) + n
        /\ \A i \in 1..Len(d) + n : (d \o f)[i] = IF i <= Len(d) THEN d[i] ELSE f[i - Len(d)]
    BY <1>1, ConcatProperties
  <2>5. Len(r) = Len(d) + n + Len(q)
        /\ \A i \in 1..(Len(d) + n) + Len(q) :
             r[i] = IF i <= Len(d) + n THEN (d \o f)[i] ELSE q[i - (Len(d) + n)]
    <3> DEFINE df == d \o f
    <3>1. df \in Seq(Messages) /\ Len(df) = Len(d) + n /\ r = df \o q
      BY <2>4
    <3> HIDE DEF d, f, q, n, r, df
    <3>2. Len(df \o q) = Len(df) + Len(q)
          /\ \A i \in 1..Len(df) + Len(q) :
               (df \o q)[i] = IF i <= Len(df) THEN df[i] ELSE q[i - Len(df)]
      BY <1>1, <3>1, ConcatProperties
    <3> QED BY <3>1, <3>2 DEF df
  <2> HIDE DEF d, f, q, n, j, r
  <2>6. first \in Nat /\ first + n - 1 <= Len(hubLog) /\ n \in 1..Len(hubLog) /\ first >= 1
    BY <1>3, <2>1, <2>2, <2>3, <2>5 DEF Follows
  <2>7. ASSUME NEW i \in 1..n PROVE f[i] = hubLog[first + i - 1]
    <3>1. Len(d) + i \in 1..Len(r) /\ r[Len(d) + i] = f[i]
      BY <1>3, <2>4, <2>5
    <3>2. r[Len(d) + i] = hubLog[j + (Len(d) + i)]
      BY <2>3, <3>1 DEF Follows
    <3>3. j + (Len(d) + i) = first + i - 1
      BY <1>3, <2>2
    <3> QED BY <3>1, <3>2, <3>3
  <2> DEFINE sub == SubSeq(hubLog, first, first + n - 1)
  <2> HIDE DEF first
  <2>8. \A i \in first .. first + n - 1 : hubLog[i] \in Messages
    BY <1>1, <1>3, <2>6, ElementOfSeq
  <2>9. sub \in Seq(Messages)
        /\ Len(sub) = (IF first <= first + n - 1 THEN first + n - 1 - first + 1 ELSE 0)
        /\ \A i \in 1 .. first + n - 1 - first + 1 : sub[i] = hubLog[first + i - 1]
    BY <1>3, <2>6, <2>8, SubSeqProperties
  <2> HIDE DEF sub
  <2>10. Len(sub) = n /\ \A i \in 1..n : sub[i] = hubLog[first + i - 1]
    BY <1>3, <2>1, <2>6, <2>9
  <2>11. f = sub
    BY <1>1, <2>7, <2>9, <2>10, SeqEqual DEF n
  <2>12. Broadcast!Deliver(c, n)
    BY <1>2, <2>2, <2>6, <2>11 DEF Broadcast!Deliver, d, j, first, sub
  <2> QED BY <2>6, <2>12
<1> QED BY <1>4, <1>5

LEMMA BroadcastStep ==
  TypeOK /\ StreamInv /\ [Next]_vars => [Broadcast!Next]_(Broadcast!bvars)
<1> SUFFICES ASSUME TypeOK, StreamInv, [Next]_vars
             PROVE  Broadcast!Next \/ UNCHANGED <<hubLog, joined, delivered>>
  BY DEF Broadcast!bvars
<1>1. CASE UNCHANGED vars
  BY <1>1 DEF vars
<1>2. CASE Run
  <2>1. CASE AddMember
    <3>1. Broadcast!Subscribe(hubArg) /\ hubArg \in Clients
      BY <2>1 DEF AddMember, Broadcast!Subscribe, StreamInv, TypeOK, writeVars
    <3> QED BY <3>1 DEF Broadcast!Next
  <2>2. CASE ReceiveBroadcast
    <3>1. Head(broadcast) \in Messages
      BY <2>2, HeadTailProperties DEF ReceiveBroadcast, TypeOK
    <3>2. Broadcast!Publish(Head(broadcast))
      BY <2>2 DEF ReceiveBroadcast, Broadcast!Publish, writeVars
    <3> QED BY <3>1, <3>2 DEF Broadcast!Next
  <2>3. CASE ~AddMember /\ ~ReceiveBroadcast
    BY <1>2, <2>3 DEF Run, ReceiveRegister, ReceiveUnregister, RemoveMember, Fanout,
       Unlock, writeVars
  <2> QED BY <2>1, <2>2, <2>3
<1>3. ASSUME NEW c \in Clients, HandleConnect(c) \/ LoseConnection(c) \/ ReadPump(c)
      PROVE  UNCHANGED <<hubLog, joined, delivered>>
  BY <1>3 DEF HandleConnect, Connect, StartPumps, LoseConnection, ReadPump,
     ReadMessage, Publish, ReadError, ReadPumpClose, hubVars, writeVars
<1>4. ASSUME NEW c \in Clients, WritePump(c)
      PROVE  Broadcast!Next \/ UNCHANGED <<hubLog, joined, delivered>>
  <2>1. CASE WriteFlush(c)
    BY <2>1, FlushDelivers DEF Broadcast!Next
  <2>2. CASE ~WriteFlush(c)
    BY <1>4, <2>2 DEF WritePump, WriteReceive, WriteHungUp, WriteBegin, WriteDrain,
       WriteError, PingError, WritePumpClose, hubVars
  <2> QED BY <2>1, <2>2
<1>5. ASSUME NEW p \in Posters, HandleSend(p) PROVE UNCHANGED <<hubLog, joined, delivered>>
  BY <1>5 DEF HandleSend, PostAccept, PostPublish, PostRecord, hubVars, writeVars
<1> QED BY <1>1, <1>2, <1>3, <1>4, <1>5 DEF Next

\* The hub with its channels, pumps and evictions implements WSBroadcast.
THEOREM HubImplementsBroadcast == Spec => ImplementsBroadcast
<1>1. Init => Broadcast!Init
  BY DEF Init, Broadcast!Init
<1> QED BY <1>1, BroadcastStep, TypeCorrect, StreamHolds, PTL
        DEF Spec, ImplementsBroadcast, Broadcast!Spec
=============================================================================

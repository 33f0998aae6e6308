----------------------------- MODULE SSEProofs -----------------------------
(***************************************************************************)
(* Theorems about SSE, for any sets of POSTs, streams and ids and any      *)
(* capacity of a stream's channel.                                         *)
(***************************************************************************)
EXTENDS SSESession, DataLemmas

-----------------------------------------------------------------------------
(* Type correctness                                                        *)

LEMMA TypeInit == Init => TypeOK
BY CapAssumption
DEF Init, TypeOK, IDs, IsRegistry, NewConnectionRegistry, Entry, PostPcs, StreamPcs

LEMMA TypePost ==
  ASSUME TypeOK, NEW p \in Posts,
         HandleSend(p) \/ \E id \in ClientIDs : PostStart(p, id)
  PROVE  TypeOK'
<1> USE DEF TypeOK, PostPcs, GoPost, chanVars, streamVars, statVars
<1>1. ASSUME NEW id \in ClientIDs, PostStart(p, id) PROVE TypeOK'
  BY <1>1 DEF PostStart
<1>2. CASE PostStore(p)
  BY <1>2 DEF PostStore
<1>3. CASE BroadcastBegin(p)
  BY <1>3 DEF BroadcastBegin
<1>4. ASSUME NEW s \in Streams, BroadcastSend(p, s) PROVE TypeOK'
  <2>1. /\ ch' \in [Streams -> Seq(Posts)]
        /\ \A x \in Streams : Len(ch'[x]) <= StreamCap
    BY <1>4, CapAssumption, AppendProperties, LenProperties DEF BroadcastSend, Visit
  <2> QED BY <1>4, <2>1 DEF BroadcastSend, Visit
<1>5. CASE BroadcastEnd(p)
  BY <1>5 DEF BroadcastEnd
<1>6. CASE PostRegister(p)
  <2>1. IsRegistry(registry', IDs, {"sse"})
    BY <1>6, AddClientType DEF PostRegister, IDs
  <2> QED BY <1>6, <2>1 DEF PostRegister
<1>7. CASE PostCount(p)
  <2>1. IsRegistry(registry', IDs, {"sse"})
    BY <1>7, RecordMessageType DEF PostCount
  <2> QED BY <1>7, <2>1 DEF PostCount
<1> QED BY <1>1, <1>2, <1>3, <1>4, <1>5, <1>6, <1>7 DEF HandleSend

LEMMA TypeStream ==
  ASSUME TypeOK, NEW s \in Streams, HandleEvents(s) \/ Disconnect(s)
  PROVE  TypeOK'
<1> USE DEF TypeOK, StreamPcs, GoStream, postVars, chanVars, statVars
<1>1. ASSUME NEW id \in ClientIDs \cup {s}, Subscribe(s, id) PROVE TypeOK'
  BY <1>1 DEF Subscribe, IDs
<1>2. CASE StreamRegister(s)
  <2>1. IsRegistry(registry', IDs, {"sse"})
    BY <1>2, AddClientType DEF StreamRegister
  <2> QED BY <1>2, <2>1 DEF StreamRegister
<1>3. CASE StreamReceive(s)
  <2>1. /\ Head(ch[s]) \in Posts
        /\ Tail(ch[s]) \in Seq(Posts)
        /\ Len(Tail(ch[s])) <= StreamCap
    BY <1>3, CapAssumption, HeadTailProperties, LenProperties DEF StreamReceive
  <2> QED BY <1>3, <2>1 DEF StreamReceive
<1>4. CASE StreamWrite(s)
  BY <1>4, ConcatProperties DEF StreamWrite
<1>5. CASE StreamRecord(s)
  <2>1. IsRegistry(registry', IDs, {"sse"})
    BY <1>5, RecordMessageType DEF StreamRecord
  <2> QED BY <1>5, <2>1 DEF StreamRecord
<1>6. CASE StreamDone(s)
  BY <1>6 DEF StreamDone
<1>7. CASE StreamRemove(s)
  <2>1. IsRegistry(registry', IDs, {"sse"})
    BY <1>7, RemoveClientType DEF StreamRemove
  <2> QED BY <1>7, <2>1 DEF StreamRemove
<1>8. CASE Unsubscribe(s)
  BY <1>8 DEF Unsubscribe
<1>9. CASE Disconnect(s)
  BY <1>9 DEF Disconnect
<1> QED BY <1>1, <1>2, <1>3, <1>4, <1>5, <1>6, <1>7, <1>8, <1>9
        DEF HandleEvents, StreamStep

LEMMA TypeNext == TypeOK /\ [Next]_vars => TypeOK'
<1> SUFFICES ASSUME TypeOK, [Next]_vars PROVE TypeOK'
  OBVIOUS
<1>1. CASE UNCHANGED vars
  BY <1>1 DEF TypeOK, vars, postVars, streamVars, chanVars, statVars
<1> QED BY <1>1, TypePost, TypeStream DEF Next

\* Every variable keeps its type: no channel is filled beyond its capacity, and
\* the registry holds only "sse" entries under ids that requests carry.
THEOREM TypeCorrect == Spec => []TypeOK
BY TypeInit, TypeNext, PTL DEF Spec

-----------------------------------------------------------------------------
(* The feed of a stream.  The three invariants are inductive together with *)
(* five facts: a channel carries only what a Broadcast found it for,       *)
(* nothing is in hand outside a write, nobody is heard or visited before   *)
(* Broadcast, a stream that is still to be visited has not been given the  *)
(* message, and prior POSTs stay done.                                     *)

LiveOnly == \A s \in Streams : \A p \in Range(Carried(s)) : s \in heard[p]

HandOnlyInWrite == \A s \in Streams : spc[s] # "write" => hand[s] = <<>>

Visits ==
  \A p \in Posts :
    /\ ppc[p] \in {"idle", "store", "lock"} => heard[p] = {}
    /\ todo[p] # {} => ppc[p] = "broadcast"
    /\ todo[p] \subseteq heard[p]

NotYetGiven == \A p \in Posts : \A s \in todo[p] : p \notin Range(Carried(s))

PriorDone == \A p \in Posts : \A q \in prior[p] : ppc[q] = "done"

Feed ==
  /\ NoRepeats
  /\ LiveOnly
  /\ SequentialPostsInOrder
  /\ NoEarlyLoss
  /\ HandOnlyInWrite
  /\ Visits
  /\ NotYetGiven
  /\ PriorDone

LEMMA CarriedType ==
  ASSUME TypeOK, NEW s \in Streams
  PROVE  /\ shown[s] \o hand[s] \in Seq(Posts)
         /\ Carried(s) \in Seq(Posts)
         /\ Len(Carried(s)) >= Len(ch[s])
BY ConcatProperties, LenProperties DEF TypeOK, Carried

LEMMA FeedInit == Init => Feed
<1> SUFFICES ASSUME Init PROVE Feed
  OBVIOUS
<1>1. ASSUME NEW s \in Streams PROVE Carried(s) = <<>>
  BY ConcatEmptySeq DEF Init, Carried
<1> QED
  BY <1>1, EmptySeq
  DEF Init, Feed, NoRepeats, LiveOnly, SequentialPostsInOrder, NoEarlyLoss, IsInjective,
      HandOnlyInWrite, Visits, NotYetGiven, PriorDone, Range

\* A step of a stream passes messages on from the channel to the client: what
\* the channel has carried stays the same.
LEMMA StreamPassesOn ==
  ASSUME TypeOK, HandOnlyInWrite, NEW s \in Streams, HandleEvents(s) \/ Disconnect(s)
  PROVE  HandOnlyInWrite' /\ \A x \in Streams : Carried(x)' = Carried(x)
<1> USE DEF GoStream, chanVars, TypeOK
<1>1. CASE StreamReceive(s)
  <2> DEFINE d == shown[s]  q == ch[s]  h == Head(q)  t == Tail(q)
  <2>1. d \in Seq(Posts) /\ q \in Seq(Posts) /\ q # <<>> /\ hand[s] = <<>>
    BY <1>1 DEF StreamReceive, HandOnlyInWrite
  <2>2. h \in Posts /\ t \in Seq(Posts) /\ q = <<h>> \o t
    BY <2>1, HeadTailConcat
  <2>3. shown' = shown /\ hand' = [hand EXCEPT ![s] = <<h>>] /\ ch' = [ch EXCEPT ![s] = t]
    BY <1>1 DEF StreamReceive
  <2> HIDE DEF d, q, h, t
  <2>4. d \in Seq(Posts) /\ t \in Seq(Posts) /\ h \in Posts
    BY <2>1, <2>2
  <2>5. (d \o <<h>>) \o t = (d \o <<>>) \o (<<h>> \o t)
    <3> HIDE DEF TypeOK, GoStream, chanVars
    <3> QED BY <2>4, TakeHead
  <2>6. Carried(s)' = Carried(s)
    BY <2>1, <2>2, <2>3, <2>5 DEF Carried, d, q
  <2>7. HandOnlyInWrite'
    BY <1>1, <2>3 DEF StreamReceive, HandOnlyInWrite
  <2> QED BY <2>3, <2>6, <2>7 DEF Carried
<1>2. CASE StreamWrite(s)
  <2>1. (shown[s] \o hand[s]) \o <<>> = shown[s] \o hand[s]
    BY CarriedType, ConcatEmptySeq
  <2> QED BY <1>2, <2>1 DEF StreamWrite, Carried, HandOnlyInWrite
<1>3. CASE ~StreamReceive(s) /\ ~StreamWrite(s)
  BY <1>3
  DEF HandleEvents, StreamStep, Subscribe, StreamRegister, StreamRecord, StreamDone,
      StreamRemove, Unsubscribe, Disconnect, Carried, HandOnlyInWrite
<1> QED BY <1>1, <1>2, <1>3

\* What a step may leave alone and keep the feed.
LEMMA FeedSame ==
  ASSUME TypeOK, Feed, UNCHANGED <<todo, heard, full, prior>>,
         \A x \in Streams : Carried(x)' = Carried(x)
  PROVE  /\ NoRepeats' /\ LiveOnly' /\ SequentialPostsInOrder'
         /\ NoEarlyLoss' /\ NotYetGiven'
<1>1. NoRepeats' /\ LiveOnly' /\ SequentialPostsInOrder'
  BY DEF Feed, NoRepeats, LiveOnly, SequentialPostsInOrder
<1>2. \A p \in Posts : heard[p] \subseteq Streams /\ todo[p] \subseteq Streams
  BY DEF TypeOK
<1>3. NoEarlyLoss'
  BY <1>2 DEF Feed, NoEarlyLoss
<1>4. NotYetGiven'
  BY <1>2 DEF Feed, NotYetGiven
<1> QED BY <1>1, <1>3, <1>4

\* The feed does not depend on anything else that a stream's step changes.
LEMMA FeedStream ==
  ASSUME TypeOK, Feed, NEW s \in Streams, HandleEvents(s) \/ Disconnect(s)
  PROVE  Feed'
<1>1. HandOnlyInWrite' /\ \A x \in Streams : Carried(x)' = Carried(x)
  BY StreamPassesOn DEF Feed
<1>2. UNCHANGED postVars
  BY DEF HandleEvents, StreamStep, Subscribe, StreamRegister, StreamReceive, StreamWrite,
         StreamRecord, StreamDone, StreamRemove, Unsubscribe, Disconnect
<1> QED BY <1>1, <1>2, FeedSame DEF Feed, Visits, PriorDone, postVars

\* A POST that offers its message to a stream.
LEMMA FeedSend ==
  ASSUME TypeOK, Feed, NEW p \in Posts, NEW s \in Streams, BroadcastSend(p, s)
  PROVE  Feed'
<1> DEFINE c == Carried(s)
<1>1. c \in Seq(Posts) /\ Len(c) \in Nat /\ Len(c) >= Len(ch[s])
  BY CarriedType, LenProperties
<1>2. /\ ppc' = ppc /\ heard' = heard /\ prior' = prior /\ spc' = spc
      /\ shown' = shown /\ hand' = hand
      /\ todo' = [todo EXCEPT ![p] = @ \ {s}]
      /\ ppc[p] = "broadcast" /\ s \in todo[p]
  BY DEF BroadcastSend, Visit, GoPost, streamVars, TypeOK
<1>3. \A x \in Streams \ {s} : Carried(x)' = Carried(x)
  BY <1>2 DEF BroadcastSend, Visit, Carried, TypeOK
<1>4. /\ Visits' /\ HandOnlyInWrite' /\ PriorDone'
      /\ \A q \in Posts \ {p} : todo'[q] = todo[q]
      /\ todo'[p] = todo[p] \ {s}
      /\ s \in heard[p] /\ p \notin Range(c)
  BY <1>2 DEF Feed, Visits, HandOnlyInWrite, PriorDone, NotYetGiven, TypeOK
<1>5. CASE Len(ch[s]) < StreamCap
  <2>1. ch[s] \in Seq(Posts) /\ shown[s] \o hand[s] \in Seq(Posts)
    BY CarriedType DEF TypeOK
  <2>2. Carried(s)' = (shown[s] \o hand[s]) \o Append(ch[s], p)
    BY <1>2, <1>5 DEF BroadcastSend, Visit, Carried, TypeOK
  <2>3. Carried(s)' = Append(c, p)
    <3> DEFINE sh == shown[s] \o hand[s]  q == ch[s]
    <3>1. c = sh \o q /\ Carried(s)' = sh \o Append(q, p)
      BY <2>2 DEF Carried
    <3> HIDE DEF sh, q, c
    <3>2. sh \in Seq(Posts) /\ q \in Seq(Posts)
      BY <2>1 DEF sh, q
    <3>3. sh \o Append(q, p) = Append(sh \o q, p)
      BY <3>2, AppendLast
    <3> QED BY <3>1, <3>3
  <2> HIDE DEF c
  <2>4. Range(Append(c, p)) = Range(c) \cup {p} /\ IsInjective(c)
    BY <1>1, RangeAppend DEF Feed, NoRepeats, LiveOnly, c
  <2>5. IsInjective(Append(c, p))
    BY <1>1, <1>4, <2>4, InjectiveAppend
  <2>6. /\ DOMAIN c = 1..Len(c) /\ DOMAIN Append(c, p) = 1..Len(c) + 1
        /\ Len(Append(c, p)) = Len(c) + 1
        /\ Append(c, p)[Len(c) + 1] = p
        /\ \A i \in 1..Len(c) : Append(c, p)[i] = c[i]
    BY <1>1, AppendProperties, LenProperties
  <2>7. NoRepeats' /\ LiveOnly'
    BY <1>2, <1>3, <1>4, <2>3, <2>4, <2>5 DEF Feed, NoRepeats, LiveOnly, c
  <2>8. \A i \in 1..Len(c) : p \notin prior[c[i]]
    <3>1. \A i \in 1..Len(c) : c[i] \in Posts
      BY <1>1, ElementOfSeq
    <3> QED BY <1>2, <3>1 DEF Feed, PriorDone
  <2>9. SequentialPostsInOrder'
    <3>1. ASSUME NEW i \in 1..Len(c) + 1, NEW j \in 1..Len(c) + 1, i < j
          PROVE  Append(c, p)[j] \notin prior[Append(c, p)[i]]
      <4>1. i \in 1..Len(c) /\ Append(c, p)[i] = c[i]
        BY <1>1, <2>6, <3>1
      <4>2. CASE j = Len(c) + 1
        BY <2>6, <2>8, <4>1, <4>2
      <4>3. CASE j # Len(c) + 1
        <5>1. j \in DOMAIN c /\ i \in DOMAIN c /\ Append(c, p)[j] = c[j]
          BY <1>1, <2>6, <3>1, <4>1, <4>3
        <5> QED BY <3>1, <4>1, <5>1 DEF Feed, SequentialPostsInOrder, c
      <4> QED BY <4>2, <4>3
    <3> QED BY <1>2, <1>3, <2>3, <2>6, <3>1 DEF Feed, SequentialPostsInOrder
  <2>10. NoEarlyLoss'
    <3>1. ASSUME NEW q \in Posts, NEW x \in heard[q] \ todo'[q]
          PROVE  q \in Range(Carried(x)') \/ x \in full'[q]
      <4>1. x \in Streams /\ full'[q] = full[q]
        BY <1>5 DEF TypeOK, BroadcastSend, Visit
      <4>2. CASE q = p /\ x = s
        BY <2>3, <2>4, <4>2
      <4>3. CASE ~(q = p /\ x = s)
        <5>1. q \in Range(Carried(x)) \/ x \in full[q]
          BY <1>4, <4>3 DEF Feed, NoEarlyLoss
        <5>2. CASE x = s
          BY <2>3, <2>4, <4>1, <5>1, <5>2 DEF c
        <5>3. CASE x # s
          BY <1>3, <4>1, <5>1, <5>3
        <5> QED BY <5>2, <5>3
      <4> QED BY <4>2, <4>3
    <3> QED BY <1>2, <3>1 DEF NoEarlyLoss
  <2>11. NotYetGiven'
    <3>1. ASSUME NEW q \in Posts, NEW x \in todo'[q] PROVE q \notin Range(Carried(x)')
      <4>1. x \in todo[q] /\ x \in Streams /\ ~(q = p /\ x = s)
        BY <1>4 DEF TypeOK
      <4>2. q \notin Range(Carried(x))
        BY <4>1 DEF Feed, NotYetGiven
      <4>3. CASE x = s
        BY <2>3, <2>4, <4>1, <4>2, <4>3 DEF c
      <4>4. CASE x # s
        BY <1>3, <4>1, <4>2, <4>4
      <4> QED BY <4>3, <4>4
    <3> QED BY <3>1 DEF NotYetGiven
  <2> QED BY <1>4, <2>7, <2>9, <2>10, <2>11 DEF Feed
<1>6. CASE ~(Len(ch[s]) < StreamCap)
  <2>1. \A x \in Streams : Carried(x)' = Carried(x)
    BY <1>2, <1>3, <1>6 DEF BroadcastSend, Visit, Carried, TypeOK
  <2>2. full' = [full EXCEPT ![p] = @ \cup {s}]
    BY <1>6 DEF BroadcastSend, Visit
  <2>3. NoEarlyLoss'
    BY <1>2, <1>4, <2>1, <2>2 DEF Feed, NoEarlyLoss, TypeOK
  <2> QED BY <1>2, <1>4, <2>1, <2>3
          DEF Feed, NoRepeats, LiveOnly, SequentialPostsInOrder, NotYetGiven, TypeOK
<1> QED BY <1>5, <1>6

\* The other steps of a POST leave the channels alone.
LEMMA FeedPost ==
  ASSUME TypeOK, Feed, NEW p \in Posts,
         HandleSend(p) \/ \E id \in ClientIDs : PostStart(p, id)
  PROVE  Feed'
<1>1. ASSUME NEW s \in Streams, BroadcastSend(p, s) PROVE Feed'
  BY <1>1, FeedSend
<1>2. ASSUME UNCHANGED <<chanVars, streamVars>>
      PROVE  (\A x \in Streams : Carried(x)' = Carried(x)) /\ HandOnlyInWrite'
  BY <1>2 DEF Carried, chanVars, streamVars, Feed, HandOnlyInWrite
<1> USE DEF GoPost, TypeOK
<1>3. ASSUME NEW id \in ClientIDs, PostStart(p, id) PROVE Feed'
  <2>1. (\A x \in Streams : Carried(x)' = Carried(x)) /\ HandOnlyInWrite'
    BY <1>2, <1>3 DEF PostStart
  <2>2. /\ ppc' = [ppc EXCEPT ![p] = "store"] /\ ppc[p] = "idle" /\ heard[p] = {}
        /\ prior' = [prior EXCEPT ![p] = { q \in Posts : ppc[q] = "done" }]
        /\ UNCHANGED <<todo, heard, full>>
    BY <1>3 DEF PostStart, Feed, Visits
  <2>3. SequentialPostsInOrder'
    <3>1. ASSUME NEW x \in Streams, NEW i \in DOMAIN Carried(x) PROVE Carried(x)[i] # p
      BY <2>2, <3>1 DEF Feed, NoRepeats, LiveOnly, Range
    <3>2. \A x \in Streams : \A i \in DOMAIN Carried(x) : Carried(x)[i] \in Posts
      BY CarriedType, ElementOfSeq, LenProperties
    <3> QED BY <2>1, <2>2, <3>1, <3>2 DEF Feed, SequentialPostsInOrder
  <2>4. PriorDone'
    BY <2>2 DEF Feed, PriorDone
  <2>5. Visits'
    BY <2>2 DEF Feed, Visits
  <2> QED BY <2>1, <2>2, <2>3, <2>4, <2>5
          DEF Feed, NoRepeats, LiveOnly, NoEarlyLoss, NotYetGiven
<1>4. CASE BroadcastBegin(p)
  <2>1. (\A x \in Streams : Carried(x)' = Carried(x)) /\ HandOnlyInWrite'
    BY <1>2, <1>4 DEF BroadcastBegin, chanVars
  <2>2. /\ ppc' = [ppc EXCEPT ![p] = "broadcast"] /\ ppc[p] = "lock" /\ heard[p] = {}
        /\ heard' = [heard EXCEPT ![p] = listeners]
        /\ todo' = [todo EXCEPT ![p] = listeners]
        /\ UNCHANGED <<full, prior>>
    BY <1>4 DEF BroadcastBegin, Feed, Visits
  <2>3. \A x \in Streams : p \notin Range(Carried(x))
    BY <2>2 DEF Feed, NoRepeats, LiveOnly
  <2>4. NoRepeats' /\ LiveOnly' /\ NotYetGiven'
    BY <2>1, <2>2, <2>3 DEF Feed, NoRepeats, LiveOnly, NotYetGiven
  <2>5. NoEarlyLoss' /\ Visits' /\ PriorDone'
    BY <2>1, <2>2 DEF Feed, NoEarlyLoss, Visits, PriorDone
  <2> QED BY <2>1, <2>2, <2>4, <2>5 DEF Feed, SequentialPostsInOrder
<1>5. CASE PostStore(p) \/ BroadcastEnd(p) \/ PostRegister(p) \/ PostCount(p)
  <2>1. (\A x \in Streams : Carried(x)' = Carried(x)) /\ HandOnlyInWrite'
    BY <1>2, <1>5 DEF PostStore, BroadcastEnd, PostRegister, PostCount
  <2>2. UNCHANGED <<todo, heard, full, prior>>
    BY <1>5 DEF PostStore, BroadcastEnd, PostRegister, PostCount
  <2>3. \/ ppc[p] = "store" /\ ppc' = [ppc EXCEPT ![p] = "lock"]
        \/ /\ ppc[p] = "broadcast" /\ todo[p] = {}
           /\ ppc' = [ppc EXCEPT ![p] = "register"]
        \/ ppc[p] = "register" /\ ppc' = [ppc EXCEPT ![p] = "count"]
        \/ ppc[p] = "count" /\ ppc' = [ppc EXCEPT ![p] = "done"]
    BY <1>5 DEF PostStore, BroadcastEnd, PostRegister, PostCount
  <2>4. /\ Visits /\ PriorDone
        /\ DOMAIN ppc = Posts
        /\ \A q \in Posts : prior[q] \subseteq Posts
    BY DEF Feed
  <2> HIDE DEF TypeOK, GoPost
  <2>5. Visits'
    BY <2>2, <2>3, <2>4 DEF Visits
  <2>6. PriorDone'
    <3>1. \A q \in Posts : ppc[q] = "done" => ppc'[q] = "done"
      BY <2>3, <2>4
    <3> QED BY <2>2, <2>4, <3>1 DEF PriorDone
  <2> QED BY <2>1, <2>2, <2>5, <2>6, FeedSame DEF Feed
<1> HIDE DEF GoPost, TypeOK
<1> QED BY <1>1, <1>3, <1>4, <1>5 DEF HandleSend

LEMMA FeedNext == TypeOK /\ Feed /\ [Next]_vars => Feed'
<1> SUFFICES ASSUME TypeOK, Feed, [Next]_vars PROVE Feed'
  OBVIOUS
<1>1. CASE UNCHANGED vars
  <2>1. (\A x \in Streams : Carried(x)' = Carried(x)) /\ HandOnlyInWrite'
    BY <1>1 DEF vars, chanVars, streamVars, Carried, Feed, HandOnlyInWrite
  <2>2. UNCHANGED <<ppc, todo, heard, full, prior>>
    BY <1>1 DEF vars, postVars
  <2>3. Visits' /\ PriorDone'
    BY <2>2 DEF Feed, Visits, PriorDone
  <2> QED BY <2>1, <2>2, <2>3, FeedSame DEF Feed
<1> QED BY <1>1, FeedPost, FeedStream DEF Next

\* The invariant holds in every reachable state.
THEOREM FeedHolds == Spec => []Feed
BY TypeCorrect, FeedInit, FeedNext, PTL DEF Spec

\* A stream is given no message twice.
THEOREM NeverGivenTwice == Spec => []NoRepeats
<1>1. Feed => NoRepeats
  BY DEF Feed
<1> QED BY <1>1, FeedHolds, PTL

\* POSTs that follow one another are never shown in the other order.
THEOREM ShownInOrder == Spec => []SequentialPostsInOrder
<1>1. Feed => SequentialPostsInOrder
  BY DEF Feed
<1> QED BY <1>1, FeedHolds, PTL

\* A subscribed stream loses a message only if its channel is full when it is offered.
THEOREM LossOnlyWhenFull == Spec => []NoEarlyLoss
<1>1. Feed => NoEarlyLoss
  BY DEF Feed
<1> QED BY <1>1, FeedHolds, PTL

-----------------------------------------------------------------------------
(* The registry                                                            *)

\* Only AddClient makes an entry, for a caller that is then past its register
\* step; the step in which a stream stops being an owner removes the entry.
LEMMA OwnersNext == TypeOK /\ EntriesHaveOwners /\ [Next]_vars => EntriesHaveOwners'
<1> SUFFICES ASSUME TypeOK, EntriesHaveOwners, [Next]_vars PROVE EntriesHaveOwners'
  OBVIOUS
<1> USE DEF EntriesHaveOwners
<1>1. ASSUME NEW p \in Posts, HandleSend(p) \/ \E id \in ClientIDs : PostStart(p, id)
      PROVE  EntriesHaveOwners'
  <2> USE DEF GoPost, TypeOK, streamVars, statVars
  <2>1. ASSUME NEW id \in ClientIDs, PostStart(p, id) PROVE EntriesHaveOwners'
    BY <2>1 DEF PostStart
  <2>2. CASE PostRegister(p)
    <3>1. DOMAIN registry' = DOMAIN registry \cup {pid[p]}
      BY <2>2 DEF PostRegister, AddClient
    <3>2. UNCHANGED <<pid, sid, spc>> /\ ppc' = [ppc EXCEPT ![p] = "count"]
      BY <2>2 DEF PostRegister
    <3>3. /\ ppc'[p] = "count"
          /\ \A q \in Posts : ppc[q] \in {"count", "done"} => ppc'[q] \in {"count", "done"}
      BY <3>2
    <3> HIDE DEF TypeOK
    <3> QED BY <3>1, <3>2, <3>3
  <2>3. CASE PostCount(p)
    <3>1. DOMAIN registry' = DOMAIN registry
      BY <2>3, RecordMessageType DEF PostCount
    <3>2. UNCHANGED <<pid, sid, spc>> /\ ppc' = [ppc EXCEPT ![p] = "done"]
      BY <2>3 DEF PostCount
    <3>3. \A q \in Posts : ppc[q] \in {"count", "done"} => ppc'[q] \in {"count", "done"}
      BY <3>2
    <3> HIDE DEF TypeOK
    <3> QED BY <3>1, <3>2, <3>3
  <2>4. CASE PostStore(p) \/ BroadcastBegin(p) \/ BroadcastEnd(p)
             \/ \E s \in Streams : BroadcastSend(p, s)
    <3>1. UNCHANGED <<registry, pid, sid, spc>>
      BY <2>4 DEF PostStore, BroadcastBegin, BroadcastEnd, BroadcastSend, Visit
    <3>2. \A q \in Posts : ppc[q] \in {"count", "done"} => ppc'[q] = ppc[q]
      BY <2>4 DEF PostStore, BroadcastBegin, BroadcastEnd, BroadcastSend, Visit
    <3> HIDE DEF TypeOK
    <3> QED BY <3>1, <3>2
  <2> QED BY <1>1, <2>1, <2>2, <2>3, <2>4 DEF HandleSend
<1>2. ASSUME NEW s \in Streams, HandleEvents(s) \/ Disconnect(s)
      PROVE  EntriesHaveOwners'
  <2> USE DEF GoStream, TypeOK, postVars, statVars
  <2>1. ASSUME NEW id \in ClientIDs \cup {s}, Subscribe(s, id) PROVE EntriesHaveOwners'
    BY <2>1 DEF Subscribe
  <2>2. CASE StreamRegister(s)
    <3>1. DOMAIN registry' = DOMAIN registry \cup {sid[s]}
      BY <2>2 DEF StreamRegister, AddClient
    <3> QED BY <2>2, <3>1 DEF StreamRegister
  <2>3. CASE StreamRecord(s)
    <3>1. DOMAIN registry' = DOMAIN registry
      BY <2>3, RecordMessageType DEF StreamRecord
    <3> QED BY <2>3, <3>1 DEF StreamRecord
  <2>4. CASE StreamRemove(s)
    <3>1. DOMAIN registry' = DOMAIN registry \ {sid[s]}
      BY <2>4 DEF StreamRemove, RemoveClient
    <3> QED BY <2>4, <3>1 DEF StreamRemove
  <2>5. CASE StreamReceive(s) \/ StreamWrite(s) \/ StreamDone(s) \/ Unsubscribe(s)
             \/ Disconnect(s)
    <3>1. UNCHANGED <<registry, pid, sid, ppc>>
      BY <2>5 DEF StreamReceive, StreamWrite, StreamDone, Unsubscribe, Disconnect
    <3>2. \A x \in Streams : spc[x] \in {"select", "write", "record", "remove"} =>
            spc'[x] \in {"select", "write", "record", "remove"}
      BY <2>5 DEF StreamReceive, StreamWrite, StreamDone, Unsubscribe, Disconnect
    <3> HIDE DEF TypeOK
    <3> QED BY <3>1, <3>2
  <2> QED BY <1>2, <2>1, <2>2, <2>3, <2>4, <2>5 DEF HandleEvents, StreamStep
<1>3. CASE UNCHANGED vars
  BY <1>3 DEF vars, postVars, streamVars, statVars
<1> QED BY <1>1, <1>2, <1>3 DEF Next

\* No stream leaves a registry entry behind that no POST made.
THEOREM NoEntryLeak == Spec => []EntriesHaveOwners
<1>1. Init => EntriesHaveOwners
  BY DEF Init, EntriesHaveOwners, NewConnectionRegistry
<1> QED BY <1>1, OwnersNext, TypeCorrect, PTL DEF Spec

-----------------------------------------------------------------------------
(* A browser's session.  Each of its steps is a step of SSE or leaves the  *)
(* variables of SSE alone, so what holds of SSE holds in a session.        *)

LEMMA SessionStep == [SessionNext]_sessionVars => [Next]_vars
<1> SUFFICES ASSUME [SessionNext]_sessionVars PROVE [Next]_vars
  OBVIOUS
<1>1. ASSUME NEW s \in Streams, ServeStream(s) PROVE Next
  BY <1>1 DEF ServeStream, Next, HandleEvents
<1>2. ASSUME NEW s \in Streams, NoticeGone(s) PROVE Next
  BY <1>2 DEF NoticeGone, Next
<1>3. ASSUME NEW p \in Posts, ServePost(p) PROVE Next
  BY <1>3 DEF ServePost, Next
<1>4. ASSUME \/ \E s \in Streams : ESRequest(s) \/ ESOpen(s) \/ ESMessage(s) \/ ESLost(s)
             \/ ESConnect \/ ESDisconnect \/ ESFails \/ UNCHANGED sessionVars
      PROVE  UNCHANGED vars
  BY <1>4 DEF ESRequest, ESOpen, ESMessage, ESLost, ESConnect, ESDisconnect, ESFails,
         sessionVars
<1> QED BY <1>1, <1>2, <1>3, <1>4 DEF SessionNext

\* Whatever the browser does with its EventSource, the server and the other clients
\* behave as SSE says.
THEOREM SessionIsSSE == SessionSpec => Spec
<1>1. SessionInit => Init
  BY DEF SessionInit
<1> QED BY <1>1, SessionStep, PTL DEF SessionSpec, Spec

\* The broadcast of p has not begun.
Unsent(p) == ppc[p] \in {"idle", "store", "lock"}

\* A stream that is not served yet has been found by no broadcast.
HeardIsServed ==
  \A s \in Streams : spc[s] = "idle" => s \notin listeners /\ \A p \in Posts : s \notin heard[p]

HasRead(s) == { shown[s][i] : i \in 1..read[s] }

\* What was shown has been broadcast, and the stream that is read now has shown it
\* or was not subscribed then, nor for any POST before.
GotBefore ==
  \A i \in DOMAIN got :
    /\ ~Unsent(got[i])
    /\ \A s \in current :
         \/ got[i] \in HasRead(s)
         \/ \A p \in {got[i]} \cup prior[got[i]] : s \notin heard[p]

SessionInv ==
  /\ TypeOK /\ Feed
  /\ OneStreamRead /\ HeardIsServed /\ GotBefore
  /\ NoRepeatsAcrossStreams /\ SessionInOrder

LEMMA SessionInitInv == SessionInit => SessionInv
<1> SUFFICES ASSUME SessionInit PROVE SessionInv
  OBVIOUS
<1>1. TypeOK /\ Feed
  BY TypeInit, FeedInit DEF SessionInit
<1>2. HeardIsServed
  BY DEF SessionInit, Init, HeardIsServed
<1>3. got = <<>> /\ current = {} /\ DOMAIN got = {}
  BY DEF SessionInit
<1>4. OneStreamRead
  BY <1>1, <1>3, LenProperties DEF SessionInit, OneStreamRead, TypeOK
<1>5. GotBefore /\ NoRepeatsAcrossStreams /\ SessionInOrder
  BY <1>3 DEF GotBefore, NoRepeatsAcrossStreams, SessionInOrder, IsInjective
<1> QED BY <1>1, <1>2, <1>4, <1>5 DEF SessionInv

\* What a step of the server leaves of what has been sent.
LEMMA SentStays ==
  ASSUME TypeOK, Feed, HeardIsServed, [Next]_vars
  PROVE  /\ HeardIsServed'
         /\ \A s \in Streams : Len(shown'[s]) >= Len(shown[s])
         /\ \A s \in Streams : \A i \in 1..Len(shown[s]) : shown'[s][i] = shown[s][i]
         /\ \A p \in Posts : ~Unsent(p) =>
              ~Unsent(p)' /\ heard'[p] = heard[p] /\ prior'[p] = prior[p]
<1> USE DEF TypeOK, HeardIsServed, Unsent, GoPost, GoStream, postVars, streamVars, chanVars
<1>1. ASSUME NEW p \in Posts, HandleSend(p) \/ \E id \in ClientIDs : PostStart(p, id)
      PROVE  /\ UNCHANGED <<spc, shown, listeners>> /\ HeardIsServed'
             /\ \A q \in Posts : ~Unsent(q) =>
                  ~Unsent(q)' /\ heard'[q] = heard[q] /\ prior'[q] = prior[q]
  <2> DEFINE Kept == /\ UNCHANGED <<spc, shown, listeners>> /\ HeardIsServed'
                     /\ \A q \in Posts : ~Unsent(q) =>
                          ~Unsent(q)' /\ heard'[q] = heard[q] /\ prior'[q] = prior[q]
  <2>1. ASSUME NEW id \in ClientIDs, PostStart(p, id) PROVE Kept
    BY <2>1 DEF PostStart
  <2>2. CASE BroadcastBegin(p)
    BY <2>2 DEF BroadcastBegin
  <2>3. CASE PostStore(p) \/ BroadcastEnd(p) \/ PostRegister(p) \/ PostCount(p)
    BY <2>3 DEF PostStore, BroadcastEnd, PostRegister, PostCount
  <2>4. ASSUME NEW s \in Streams, BroadcastSend(p, s) PROVE Kept
    BY <2>4 DEF BroadcastSend, Visit
  <2> QED BY <1>1, <2>1, <2>2, <2>3, <2>4 DEF HandleSend
<1>2. ASSUME NEW s \in Streams, HandleEvents(s) \/ Disconnect(s)
      PROVE  UNCHANGED <<ppc, heard, prior>> /\ HeardIsServed'
  BY <1>2 DEF HandleEvents, StreamStep, Subscribe, StreamRegister, StreamReceive,
         StreamWrite, StreamRecord, StreamDone, StreamRemove, Unsubscribe, Disconnect
<1>3. ASSUME NEW s \in Streams, HandleEvents(s) \/ Disconnect(s), NEW x \in Streams
      PROVE  /\ Len(shown'[x]) >= Len(shown[x])
             /\ \A i \in 1..Len(shown[x]) : shown'[x][i] = shown[x][i]
  <2>1. CASE StreamWrite(s)
    BY <2>1, ConcatProperties, LenProperties DEF StreamWrite
  <2>2. CASE ~StreamWrite(s)
    <3>1. UNCHANGED shown
      BY <1>3, <2>2 DEF HandleEvents, StreamStep, Subscribe, StreamRegister, StreamReceive,
             StreamRecord, StreamDone, StreamRemove, Unsubscribe, Disconnect
    <3> QED BY <3>1, LenProperties
  <2> QED BY <2>1, <2>2
<1>4. CASE UNCHANGED vars
  BY <1>4, LenProperties DEF vars
<1>5. UNCHANGED shown => \A x \in Streams :
        /\ Len(shown'[x]) >= Len(shown[x])
        /\ \A i \in 1..Len(shown[x]) : shown'[x][i] = shown[x][i]
  BY LenProperties
<1> QED BY <1>1, <1>2, <1>3, <1>4, <1>5 DEF Next

\* Steps in which the browser does nothing.
LEMMA SessionServed ==
  ASSUME SessionInv, [Next]_vars, UNCHANGED clientVars
  PROVE  SessionInv'
<1>1. TypeOK' /\ Feed'
  BY TypeNext, FeedNext DEF SessionInv
<1>2. /\ HeardIsServed'
      /\ \A s \in Streams : Len(shown'[s]) >= Len(shown[s])
      /\ \A s \in Streams : \A i \in 1..Len(shown[s]) : shown'[s][i] = shown[s][i]
      /\ \A p \in Posts : ~Unsent(p) =>
           ~Unsent(p)' /\ heard'[p] = heard[p] /\ prior'[p] = prior[p]
  BY SentStays DEF SessionInv
<1>3. UNCHANGED <<source, asked, current, got, read, last>>
  BY DEF clientVars
<1>4. OneStreamRead /\ GotBefore /\ NoRepeatsAcrossStreams /\ SessionInOrder /\ TypeOK /\ Feed
  BY DEF SessionInv, SessionTypeOK
<1>5. OneStreamRead'
  <2>1. \A s \in Streams : Len(shown[s]) \in Nat /\ Len(shown'[s]) \in Nat
    BY <1>1, <1>4, LenProperties DEF TypeOK
  <2> QED BY <1>2, <1>3, <1>4, <2>1 DEF OneStreamRead
<1>6. \A i \in DOMAIN got : got[i] \in Posts /\ ~Unsent(got[i])
  BY <1>4, ElementOfSeq, LenProperties DEF OneStreamRead, GotBefore
<1>7. \A s \in current : HasRead(s)' = HasRead(s)
  <2>1. ASSUME NEW s \in current, NEW i \in 1..read[s] PROVE shown'[s][i] = shown[s][i]
    <3>1. s \in Streams /\ read[s] \in 0..Len(shown[s]) /\ Len(shown[s]) \in Nat
      BY <1>4, LenProperties DEF OneStreamRead, TypeOK
    <3> QED BY <1>2, <3>1
  <2> QED BY <1>3, <2>1 DEF HasRead
<1>8. GotBefore'
  <2>1. \A i \in DOMAIN got : \A p \in {got[i]} \cup prior[got[i]] :
          p \in Posts /\ ~Unsent(p)
    BY <1>4, <1>6 DEF Feed, PriorDone, TypeOK, Unsent
  <2> QED BY <1>2, <1>3, <1>4, <1>6, <1>7, <2>1 DEF GotBefore
<1>9. NoRepeatsAcrossStreams' /\ SessionInOrder'
  BY <1>2, <1>3, <1>4, <1>6 DEF NoRepeatsAcrossStreams, SessionInOrder
<1> QED BY <1>1, <1>2, <1>5, <1>8, <1>9 DEF SessionInv

\* The messages that a stream shows are distinct, in order, and were sent to it.
LEMMA ShownFacts ==
  ASSUME TypeOK, Feed, NEW s \in Streams
  PROVE  /\ \A i \in 1..Len(shown[s]) : shown[s][i] \in Posts /\ s \in heard[shown[s][i]]
         /\ \A i, j \in 1..Len(shown[s]) : shown[s][i] = shown[s][j] => i = j
         /\ \A i, j \in 1..Len(shown[s]) : i < j => shown[s][j] \notin prior[shown[s][i]]
<1> DEFINE c == Carried(s)  w == shown[s]
<1>1. /\ w \in Seq(Posts) /\ hand[s] \in Seq(Posts) /\ ch[s] \in Seq(Posts)
      /\ w \o hand[s] \in Seq(Posts) /\ c \in Seq(Posts)
  BY CarriedType DEF TypeOK
<1>2. ASSUME NEW i \in 1..Len(w) PROVE i \in DOMAIN c /\ c[i] = w[i]
  <2> DEFINE v == w \o hand[s]
  <2>1. c = v \o ch[s] /\ v \in Seq(Posts) /\ DOMAIN c = 1..Len(c)
    BY <1>1, LenProperties DEF Carried
  <2>2. i \in 1..Len(v) /\ v[i] = w[i]
    BY <1>1, ConcatPrefix
  <2> HIDE DEF c, v
  <2>3. i \in 1..Len(v \o ch[s]) /\ (v \o ch[s])[i] = v[i]
    BY <1>1, <2>1, <2>2, ConcatPrefix
  <2> QED BY <2>1, <2>2, <2>3
<1>3. IsInjective(c) /\ \A p \in Range(c) : s \in heard[p]
  BY DEF Feed, NoRepeats, LiveOnly
<1>4. \A i, j \in DOMAIN c : i < j => c[j] \notin prior[c[i]]
  BY DEF Feed, SequentialPostsInOrder
<1>5. \A i \in 1..Len(w) : w[i] \in Posts
  BY <1>1, ElementOfSeq
<1> HIDE DEF c, w
<1>6. \A i \in 1..Len(w) : s \in heard[w[i]]
  BY <1>2, <1>3 DEF Range
<1>7. \A i, j \in 1..Len(w) : w[i] = w[j] => i = j
  BY <1>2, <1>3 DEF IsInjective
<1>8. \A i, j \in 1..Len(w) : i < j => w[j] \notin prior[w[i]]
  BY <1>2, <1>4
<1> QED BY <1>5, <1>6, <1>7, <1>8 DEF w

\* A message is shown: it is the next one of the stream that is read.
LEMMA SessionMessage ==
  ASSUME SessionInv, NEW s \in Streams, ESMessage(s)
  PROVE  SessionInv'
<1> DEFINE n == Len(got)  k == read[s] + 1  p == shown[s][k]
<1>1. /\ OneStreamRead /\ GotBefore /\ NoRepeatsAcrossStreams /\ SessionInOrder
      /\ TypeOK /\ Feed /\ HeardIsServed
  BY DEF SessionInv, SessionTypeOK
<1>2. /\ s \in current /\ \A x \in current : x = s
      /\ got' = Append(got, p) /\ read' = [read EXCEPT ![s] = k] /\ last' = {p}
      /\ UNCHANGED <<vars, source, asked, current>>
  BY <1>1 DEF ESMessage, OneStreamRead
<1>3. /\ n \in Nat /\ Len(shown[s]) \in Nat /\ read[s] \in Nat
      /\ read[s] < Len(shown[s]) /\ k \in 1..Len(shown[s])
  BY <1>1, LenProperties DEF ESMessage, OneStreamRead, TypeOK
<1>4. /\ p \in Posts /\ s \in heard[p]
      /\ \A i \in 1..read[s] : shown[s][i] # p /\ p \notin prior[shown[s][i]]
  BY <1>1, <1>3, ShownFacts
<1>5. ~Unsent(p)
  BY <1>1, <1>4 DEF Feed, Visits, Unsent
<1>6. /\ got \in Seq(Posts) /\ got' \in Seq(Posts) /\ Len(got') = n + 1
      /\ DOMAIN got = 1..n /\ DOMAIN got' = 1..n + 1
      /\ got'[n + 1] = p /\ \A i \in 1..n : got'[i] = got[i]
  BY <1>1, <1>2, <1>4, AppendProperties, LenProperties DEF OneStreamRead
<1>7. \A i \in 1..n : got[i] # p /\ p \notin prior[got[i]]
  <2>1. ASSUME NEW i \in 1..n, got[i] \in HasRead(s)
        PROVE  got[i] # p /\ p \notin prior[got[i]]
    BY <1>4, <2>1 DEF HasRead
  <2>2. ASSUME NEW i \in 1..n, \A q \in {got[i]} \cup prior[got[i]] : s \notin heard[q]
        PROVE  got[i] # p /\ p \notin prior[got[i]]
    BY <1>4, <2>2
  <2> QED BY <1>1, <1>2, <1>6, <2>1, <2>2 DEF GotBefore
<1> HIDE DEF n, p
<1>8. TypeOK' /\ Feed' /\ HeardIsServed' /\ prior' = prior /\ shown' = shown /\ heard' = heard
      /\ ppc' = ppc
  <2>1. HeardIsServed'
    BY <1>1, <1>2 DEF vars, postVars, streamVars, chanVars, HeardIsServed
  <2> QED BY <1>1, <1>2, <2>1, TypeNext, FeedNext DEF vars, postVars, streamVars
<1>9. OneStreamRead'
  BY <1>1, <1>2, <1>3, <1>4, <1>6, <1>8 DEF OneStreamRead
<1>10. GotBefore'
  <2>1. HasRead(s)' = HasRead(s) \cup {p}
    <3>1. read'[s] = k /\ 1..k = 1..read[s] \cup {k}
      BY <1>1, <1>2, <1>3 DEF OneStreamRead
    <3> QED BY <1>8, <3>1 DEF HasRead, p
  <2>2. \A i \in 1..n + 1 : got'[i] \in HasRead(s)' \/
          \A q \in {got'[i]} \cup prior[got'[i]] : s \notin heard[q]
    BY <1>1, <1>2, <1>3, <1>6, <2>1 DEF GotBefore
  <2>3. \A i \in 1..n + 1 : ~Unsent(got'[i])
    BY <1>1, <1>3, <1>5, <1>6 DEF GotBefore
  <2> QED BY <1>2, <1>6, <1>8, <2>2, <2>3 DEF GotBefore, Unsent
<1>11. NoRepeatsAcrossStreams'
  BY <1>1, <1>3, <1>6, <1>7 DEF NoRepeatsAcrossStreams, IsInjective
<1>12. SessionInOrder'
  <2>1. ASSUME NEW i \in 1..n + 1, NEW j \in 1..n + 1, i < j
        PROVE  got'[j] \notin prior[got'[i]]
    <3>1. i \in 1..n /\ got'[i] = got[i]
      BY <1>3, <1>6, <2>1
    <3>2. CASE j = n + 1
      BY <1>6, <1>7, <3>1, <3>2
    <3>3. CASE j # n + 1
      <4>1. j \in 1..n /\ got'[j] = got[j]
        BY <1>3, <1>6, <3>3
      <4> QED BY <1>1, <1>6, <2>1, <3>1, <4>1 DEF SessionInOrder
    <3> QED BY <3>2, <3>3
  <2> QED BY <1>6, <1>8, <2>1 DEF SessionInOrder
<1> QED BY <1>8, <1>9, <1>10, <1>11, <1>12 DEF SessionInv

\* The other steps of the browser: a stream is asked for before it is served, so
\* nothing that was shown was sent to it.
LEMMA SessionBrowser ==
  ASSUME SessionInv,
         \/ \E s \in Streams : ESRequest(s) \/ ESOpen(s) \/ ESLost(s)
         \/ ESConnect \/ ESDisconnect \/ ESFails
  PROVE  SessionInv'
<1>1. UNCHANGED <<vars, got, read>>
  BY DEF ESRequest, ESOpen, ESLost, ESConnect, ESDisconnect, ESFails
<1>2. /\ OneStreamRead /\ GotBefore /\ NoRepeatsAcrossStreams /\ SessionInOrder
      /\ TypeOK /\ Feed /\ HeardIsServed
  BY DEF SessionInv, SessionTypeOK
<1>3. TypeOK' /\ Feed'
  BY <1>1, <1>2, TypeNext, FeedNext
<1>4. HeardIsServed' /\ UNCHANGED <<prior, shown, heard, ppc>>
  BY <1>1, <1>2 DEF vars, postVars, streamVars, chanVars, HeardIsServed
<1>5. /\ source' \in {"none", "connecting", "open", "closed"}
      /\ asked' \subseteq Streams /\ last' \subseteq Posts
      /\ current' \subseteq asked' /\ \A s, t \in current' : s = t
      /\ \A s \in current' : s \in current \/ spc[s] = "idle"
  BY <1>2 DEF ESRequest, ESOpen, ESLost, ESConnect, ESDisconnect, ESFails, OneStreamRead
<1>6. OneStreamRead'
  BY <1>1, <1>2, <1>4, <1>5 DEF OneStreamRead
<1>7. \A i \in DOMAIN got : {got[i]} \cup prior[got[i]] \subseteq Posts
  BY <1>2, ElementOfSeq, LenProperties DEF OneStreamRead, TypeOK
<1>8. GotBefore'
  <2>1. ASSUME NEW s \in current', NEW i \in DOMAIN got
        PROVE  \/ got[i] \in HasRead(s)
               \/ \A p \in {got[i]} \cup prior[got[i]] : s \notin heard[p]
    BY <1>2, <1>5, <1>7 DEF GotBefore, HeardIsServed, OneStreamRead
  <2> QED BY <1>1, <1>2, <1>4, <2>1 DEF GotBefore, HasRead, Unsent
<1>9. NoRepeatsAcrossStreams' /\ SessionInOrder'
  BY <1>1, <1>2, <1>4 DEF NoRepeatsAcrossStreams, SessionInOrder
<1> QED BY <1>3, <1>4, <1>6, <1>8, <1>9 DEF SessionInv

LEMMA SessionAlways == SessionSpec => []SessionInv
<1>1. SessionInv /\ [SessionNext]_sessionVars => SessionInv'
  <2> SUFFICES ASSUME SessionInv, [SessionNext]_sessionVars PROVE SessionInv'
    OBVIOUS
  <2>1. CASE \/ \E p \in Posts : ServePost(p)
             \/ \E s \in Streams : ServeStream(s) \/ NoticeGone(s)
             \/ UNCHANGED sessionVars
    <3>1. UNCHANGED clientVars
      BY <2>1 DEF ServePost, ServeStream, NoticeGone, sessionVars
    <3> QED BY <3>1, SessionStep, SessionServed
  <2> QED BY <2>1, SessionMessage, SessionBrowser DEF SessionNext
<1> QED BY SessionInitInv, <1>1, PTL DEF SessionSpec

\* A browser that reconnects reads one stream at a time.
THEOREM SessionTypeCorrect == SessionSpec => []SessionTypeOK
<1>1. SessionInv => SessionTypeOK
  BY DEF SessionInv, SessionTypeOK
<1> QED BY <1>1, SessionAlways, PTL

\* It sees no message twice, and POSTs that follow one another in their order.
THEOREM SessionShowsOnceInOrder == SessionSpec => []ShownOnceInOrder
<1>1. SessionInv => ShownOnceInOrder
  BY DEF SessionInv, SessionTypeOK, ShownOnceInOrder
<1> QED BY <1>1, SessionAlways, PTL
=============================================================================

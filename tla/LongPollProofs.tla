--------------------------- MODULE LongPollProofs ---------------------------
(***************************************************************************)
(* Theorems about LongPoll, for any sets of requests and ids and any clock *)
(* bound.                                                                  *)
(***************************************************************************)
EXTENDS LongPoll, DataLemmas

-----------------------------------------------------------------------------
(* Type correctness                                                        *)

LEMMA TypeInit == Init => TypeOK
BY TimeAssumption DEF Init, TypeOK, IsRegistry, NewConnectionRegistry, Entry, PostPcs, GetPcs

LEMMA TypePost ==
  ASSUME TypeOK, NEW p \in Posts,
         HandleSend(p) \/ \E id \in ClientIDs : PostStart(p, id)
  PROVE  TypeOK'
<1> USE DEF TypeOK, PostPcs, GoPost, postVars, getVars, dataVars, chanVars, statVars
<1>1. ASSUME NEW id \in ClientIDs, PostStart(p, id) PROVE TypeOK'
  BY <1>1 DEF PostStart
<1>2. CASE PostStore(p)
  BY <1>2 DEF PostStore
<1>3. CASE BroadcastBegin(p)
  BY <1>3 DEF BroadcastBegin
<1>4. ASSUME NEW g \in Gets, BroadcastSend(p, g) PROVE TypeOK'
  BY <1>4 DEF BroadcastSend
<1>5. CASE BroadcastEnd(p)
  BY <1>5 DEF BroadcastEnd
<1>6. CASE PostRegister(p)
  <2>1. IsRegistry(registry', ClientIDs, {"longpolling"})
    BY <1>6, AddClientType DEF PostRegister
  <2> QED BY <1>6, <2>1 DEF PostRegister
<1>7. CASE PostCount(p)
  <2>1. IsRegistry(registry', ClientIDs, {"longpolling"})
    BY <1>7, RecordMessageType DEF PostCount
  <2> QED BY <1>7, <2>1 DEF PostCount
<1> QED BY <1>1, <1>2, <1>3, <1>4, <1>5, <1>6, <1>7 DEF HandleSend

LEMMA TypeGet ==
  ASSUME TypeOK, NEW g \in Gets,
         \/ HandleGetMessages(g)
         \/ \E t \in 0..now, id \in ClientIDs \cup {Nil} : GetStart(g, t, id)
  PROVE  TypeOK'
<1> USE DEF TypeOK, GetPcs, GoGet, postVars, getVars, dataVars, chanVars, statVars
<1>1. ASSUME NEW t \in 0..now, NEW id \in ClientIDs \cup {Nil}, GetStart(g, t, id)
      PROVE  TypeOK'
  BY <1>1, TimeAssumption DEF GetStart
<1>2. CASE GetCheck(g)
  BY <1>2 DEF GetCheck, GetSince
<1>3. CASE Subscribe(g)
  BY <1>3 DEF Subscribe
<1>4. CASE GetReceive(g)
  BY <1>4 DEF GetReceive
<1>5. CASE GetTimeout(g)
  BY <1>5 DEF GetTimeout
<1>6. CASE GetDisconnect(g)
  BY <1>6 DEF GetDisconnect
<1>7. CASE GetRegister(g)
  <2>1. IsRegistry(registry', ClientIDs, {"longpolling"})
    BY <1>7, AddClientType DEF GetRegister
  <2> QED BY <1>7, <2>1 DEF GetRegister
<1>8. CASE GetCount(g)
  <2>1. IsRegistry(registry', ClientIDs, {"longpolling"})
    BY <1>8, RecordMessageType DEF GetCount
  <2> QED BY <1>8, <2>1 DEF GetCount
<1>9. CASE GetReturn(g)
  BY <1>9 DEF GetReturn
<1> QED BY <1>1, <1>2, <1>3, <1>4, <1>5, <1>6, <1>7, <1>8, <1>9
        DEF HandleGetMessages, GetStep

LEMMA TypeNext == TypeOK /\ [Next]_vars => TypeOK'
<1> SUFFICES ASSUME TypeOK, [Next]_vars PROVE TypeOK'
  OBVIOUS
<1>1. CASE Tick
  BY <1>1, TimeAssumption
  DEF TypeOK, Tick, postVars, getVars, chanVars, statVars, PostPcs, GetPcs
<1>2. CASE UNCHANGED vars
  BY <1>2 DEF TypeOK, vars, postVars, getVars, dataVars, chanVars, statVars
<1> QED BY <1>1, <1>2, TypePost, TypeGet DEF Next

\* Every variable keeps its type, so the registry only ever holds
\* "longpolling" entries under the ids that the requests carry.
THEOREM TypeCorrect == Spec => []TypeOK
BY TypeInit, TypeNext, PTL DEF Spec

-----------------------------------------------------------------------------
(* Delivery.  The four invariants are inductive together with where a      *)
(* message is stored, who still visits listeners, when a channel and an    *)
(* answer are still empty, and what can have been missed before Subscribe. *)

Stored == \A p \in Posts : p \in store <=> ppc[p] \notin {"idle", "store"}

Visits == \A p \in Posts : todo[p] # {} => ppc[p] = "broadcast"

NotYetHeard ==
  \A g \in Gets :
    /\ gpc[g] \in {"idle", "check", "subscribe"} => ch[g] = Nil
    /\ gpc[g] \in {"idle", "check", "subscribe", "wait"} => resp[g] = {}
    /\ old[g] \subseteq store

MissedInWindow ==
  \A g \in Gets : gpc[g] = "subscribe" =>
    \A m \in store : New(g, m) => m \in raced[g] \/ ppc[m] = "lock"

Delivery ==
  /\ ListenersAreOpen
  /\ HeardIsStored
  /\ AnswersAllStored
  /\ OnlyTheWindowLoses
  /\ Stored
  /\ Visits
  /\ NotYetHeard
  /\ MissedInWindow

LEMMA DeliveryInit == Init => Delivery
BY NilAssumption
DEF Init, Delivery, ListenersAreOpen, HeardIsStored, AnswersAllStored,
    OnlyTheWindowLoses, Stored, Visits, NotYetHeard, MissedInWindow

\* A POST preserves the invariant: one step per action, and under it one per
\* conjunct that the action can disturb.
LEMMA DeliveryPost ==
  ASSUME TypeOK, Delivery, NEW p \in Posts,
         HandleSend(p) \/ \E id \in ClientIDs : PostStart(p, id)
  PROVE  Delivery'
<1> USE NilAssumption
    DEF TypeOK, GoPost, getVars, dataVars, chanVars, statVars,
        Delivery, ListenersAreOpen, HeardIsStored, AnswersAllStored,
        OnlyTheWindowLoses, OnItsWay, New, Stored, Visits, NotYetHeard, MissedInWindow
<1>1. ASSUME NEW id \in ClientIDs, PostStart(p, id) PROVE Delivery'
  BY <1>1 DEF PostStart
<1>2. CASE PostStore(p)
  BY <1>2 DEF PostStore
<1>3. CASE BroadcastBegin(p)
  BY <1>3 DEF BroadcastBegin
<1>4. ASSUME NEW g \in Gets, BroadcastSend(p, g) PROVE Delivery'
  BY <1>4 DEF BroadcastSend
<1>5. CASE BroadcastEnd(p)
  BY <1>5 DEF BroadcastEnd
<1>6. CASE PostRegister(p)
  BY <1>6 DEF PostRegister
<1>7. CASE PostCount(p)
  BY <1>7 DEF PostCount
<1> QED BY <1>1, <1>2, <1>3, <1>4, <1>5, <1>6, <1>7 DEF HandleSend

\* So does a GET.
LEMMA DeliveryGet ==
  ASSUME TypeOK, Delivery, NEW g \in Gets,
         \/ HandleGetMessages(g)
         \/ \E t \in 0..now, id \in ClientIDs \cup {Nil} : GetStart(g, t, id)
  PROVE  Delivery'
<1> USE NilAssumption
    DEF TypeOK, GoGet, postVars, dataVars, chanVars, statVars,
        Delivery, ListenersAreOpen, HeardIsStored, AnswersAllStored,
        OnlyTheWindowLoses, OnItsWay, New, Stored, Visits, NotYetHeard, MissedInWindow
<1>1. ASSUME NEW t \in 0..now, NEW id \in ClientIDs \cup {Nil}, GetStart(g, t, id)
      PROVE  Delivery'
  BY <1>1 DEF GetStart
<1>2. CASE GetCheck(g)
  BY <1>2 DEF GetCheck, GetSince
<1>3. CASE Subscribe(g)
  BY <1>3 DEF Subscribe, WriteLock
<1>4. CASE GetReceive(g)
  BY <1>4 DEF GetReceive
<1>5. CASE GetTimeout(g)
  BY <1>5 DEF GetTimeout
<1>6. CASE GetDisconnect(g)
  BY <1>6 DEF GetDisconnect
<1>7. CASE GetRegister(g)
  BY <1>7 DEF GetRegister
<1>8. CASE GetCount(g)
  BY <1>8 DEF GetCount
<1>9. CASE GetReturn(g)
  BY <1>9 DEF GetReturn, WriteLock
<1> HIDE DEF TypeOK, Delivery, GoGet
<1> QED BY <1>1, <1>2, <1>3, <1>4, <1>5, <1>6, <1>7, <1>8, <1>9
        DEF HandleGetMessages, GetStep

LEMMA DeliveryNext == TypeOK /\ Delivery /\ [Next]_vars => Delivery'
<1> SUFFICES ASSUME TypeOK, Delivery, [Next]_vars PROVE Delivery'
  OBVIOUS
<1>1. CASE Tick \/ UNCHANGED vars
  BY <1>1
  DEF Tick, vars, postVars, getVars, dataVars, chanVars,
      Delivery, ListenersAreOpen, HeardIsStored, AnswersAllStored,
      OnlyTheWindowLoses, OnItsWay, New, Stored, Visits, NotYetHeard, MissedInWindow
<1> QED BY <1>1, DeliveryPost, DeliveryGet DEF Next

\* The invariant holds in every reachable state.
THEOREM DeliveryHolds == Spec => []Delivery
BY TypeCorrect, DeliveryInit, DeliveryNext, PTL DEF Spec

\* b.listeners holds the channels of the GETs inside the select or on their way
\* out, and no Broadcast visits a channel that Unsubscribe removed.
THEOREM NoListenerLeak == Spec => []ListenersAreOpen
<1>1. Delivery => ListenersAreOpen
  BY DEF Delivery
<1> QED BY <1>1, DeliveryHolds, PTL

\* A GET leaves out no message newer than since that the store held when the
\* request came in.
THEOREM AnswersComplete == Spec => []AnswersAllStored
<1>1. Delivery => AnswersAllStored
  BY DEF Delivery
<1> QED BY <1>1, DeliveryHolds, PTL

\* What a GET is handed is in the store.
THEOREM HeardStored == Spec => []HeardIsStored
<1>1. Delivery => HeardIsStored
  BY DEF Delivery
<1> QED BY <1>1, DeliveryHolds, PTL

\* A hanging GET can only have missed what was broadcast between its GetSince
\* and its Subscribe.
THEOREM LossOnlyInWindow == Spec => []OnlyTheWindowLoses
<1>1. Delivery => OnlyTheWindowLoses
  BY DEF Delivery
<1> QED BY <1>1, DeliveryHolds, PTL
=============================================================================

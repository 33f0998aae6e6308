----------------------------- MODULE LongPoll -----------------------------
(***************************************************************************)
(* Long polling (internal/handlers/longpolling.go, with the MessageStore   *)
(* of polling.go): concurrent POSTs that store a message and broadcast it, *)
(* and concurrent GETs that return what is newer than since, or subscribe  *)
(* and hang until a broadcast, a timeout or a disconnect.                  *)
(*                                                                         *)
(* One step is one critical section or one channel operation.  A POST      *)
(* makes one message, which is identified with the POST.  A GET makes one  *)
(* channel with room for one message; ch[g] is what it holds.  Broadcast   *)
(* holds the broadcaster's read lock while it visits the listeners;        *)
(* Subscribe and Unsubscribe need the write lock and wait until no         *)
(* broadcast is under way.  The order of the messages in an answer is left *)
(* out, and so are HandleStats, which only reads, and the requests that    *)
(* are refused for their method or body, which change nothing.             *)
(***************************************************************************)
EXTENDS Naturals, FiniteSets, Registry

CONSTANTS
  Posts,      \* POST /api/longpolling/send requests, and their messages
  Gets,       \* GET /api/longpolling/messages requests
  ClientIDs,  \* values of client_id
  MaxTime,    \* the clock stops there (a bound on the behaviours)
  Nil         \* no message; a GET without client_id

ASSUME TimeAssumption == MaxTime \in Nat \ {0}
ASSUME NilAssumption == Nil \notin ClientIDs \cup Posts

VARIABLES
  now,        \* time.Now(); 0 is the zero time, the since of a GET without one
  created,    \* CreatedAt of a message
  store,      \* the messages in the MessageStore
  listeners,  \* GETs whose channel is in b.listeners
  ch,         \* what the channel of a GET holds, or Nil
  ppc,        \* HandleSend: idle, store, lock, broadcast, register, count, done
  pid,        \* its client_id
  todo,       \* listeners that the range of its Broadcast has yet to visit
  gpc,        \* HandleGetMessages: idle, check, subscribe, wait, register,
              \* count, return, done
  since, gid, \* its parameters
  resp,       \* the messages of its answer
  registry,   \* the shared ConnectionRegistry
  tracker,    \* number of Record calls on the longpolling ProtocolTracker
  old,        \* history: what the store held when the GET began
  raced       \* history: messages whose Broadcast began between the GET's
              \* look at the store and its Subscribe

postVars == <<ppc, pid, todo>>
getVars == <<gpc, since, gid, resp, old>>
dataVars == <<now, created, store>>
chanVars == <<listeners, ch>>
statVars == <<registry, tracker>>
vars == <<dataVars, chanVars, postVars, getVars, statVars, raced>>

Init ==
  /\ now = 1
  /\ created = [p \in Posts |-> 0]
  /\ store = {}
  /\ listeners = {}
  /\ ch = [g \in Gets |-> Nil]
  /\ ppc = [p \in Posts |-> "idle"]
  /\ pid = [p \in Posts |-> Nil]
  /\ todo = [p \in Posts |-> {}]
  /\ gpc = [g \in Gets |-> "idle"]
  /\ since = [g \in Gets |-> 0]
  /\ gid = [g \in Gets |-> Nil]
  /\ resp = [g \in Gets |-> {}]
  /\ registry = NewConnectionRegistry
  /\ tracker = 0
  /\ old = [g \in Gets |-> {}]
  /\ raced = [g \in Gets |-> {}]

Tick ==
  /\ now < MaxTime
  /\ now' = now + 1
  /\ UNCHANGED <<created, store, chanVars, postVars, getVars, statVars, raced>>

-----------------------------------------------------------------------------
(* HandleSend                                                              *)

GoPost(p, from, to) == ppc[p] = from /\ ppc' = [ppc EXCEPT ![p] = to]

\* Mutant: the message is broadcast but not stored.
PostStartSkipsStore(p, id) ==
  /\ GoPost(p, "idle", "lock")
  /\ created' = [created EXCEPT ![p] = now]
  /\ pid' = [pid EXCEPT ![p] = id]
  /\ UNCHANGED <<now, store, todo, chanVars, getVars, statVars, raced>>

\* start := time.Now() is the CreatedAt of the message.
PostStart(p, id) ==
  /\ GoPost(p, "idle", "store")
  /\ created' = [created EXCEPT ![p] = now]
  /\ pid' = [pid EXCEPT ![p] = id]
  /\ UNCHANGED <<now, store, todo, chanVars, getVars, statVars, raced>>

PostStore(p) ==
  /\ GoPost(p, "store", "lock")
  /\ store' = store \cup {p}
  /\ UNCHANGED <<now, created, pid, todo, chanVars, getVars, statVars, raced>>

BroadcastBegin(p) ==
  /\ GoPost(p, "lock", "broadcast")
  /\ todo' = [todo EXCEPT ![p] = listeners]
  /\ raced' = [g \in Gets |->
                 IF gpc[g] = "subscribe" THEN raced[g] \cup {p} ELSE raced[g]]
  /\ UNCHANGED <<dataVars, chanVars, pid, getVars, statVars>>

\* Mutant: ch <- msg without the default that skips a full channel.
BroadcastSendBlocks(p, g) ==
  /\ GoPost(p, "broadcast", "broadcast")
  /\ g \in todo[p] /\ ch[g] = Nil
  /\ todo' = [todo EXCEPT ![p] = @ \ {g}]
  /\ ch' = [ch EXCEPT ![g] = p]
  /\ UNCHANGED <<dataVars, listeners, pid, getVars, statVars, raced>>

BroadcastSend(p, g) ==
  /\ GoPost(p, "broadcast", "broadcast")
  /\ g \in todo[p]
  /\ todo' = [todo EXCEPT ![p] = @ \ {g}]
  /\ ch' = [ch EXCEPT ![g] = IF @ = Nil THEN p ELSE @]
  /\ UNCHANGED <<dataVars, listeners, pid, getVars, statVars, raced>>

BroadcastEnd(p) ==
  /\ GoPost(p, "broadcast", "register")
  /\ todo[p] = {}
  /\ UNCHANGED <<dataVars, chanVars, pid, todo, getVars, statVars, raced>>

\* Mutant: a protocol name that no HandleStats looks for.
PostRegisterTypo(p) ==
  /\ GoPost(p, "register", "count")
  /\ registry' = AddClient(registry, pid[p], "long-polling")
  /\ UNCHANGED <<dataVars, chanVars, pid, todo, getVars, tracker, raced>>

PostRegister(p) ==
  /\ GoPost(p, "register", "count")
  /\ registry' = AddClient(registry, pid[p], "longpolling")
  /\ UNCHANGED <<dataVars, chanVars, pid, todo, getVars, tracker, raced>>

\* RecordMessage and Tracker.Record; the handler returns.
PostCount(p) ==
  /\ GoPost(p, "count", "done")
  /\ registry' = RecordMessageOf(registry, pid[p])
  /\ tracker' = tracker + 1
  /\ UNCHANGED <<dataVars, chanVars, pid, todo, getVars, raced>>

-----------------------------------------------------------------------------
(* HandleGetMessages                                                       *)

GoGet(g, from, to) == gpc[g] = from /\ gpc' = [gpc EXCEPT ![g] = to]

\* since is whatever the client remembers, 0 when it is absent or malformed.
GetStart(g, t, id) ==
  /\ GoGet(g, "idle", "check")
  /\ since' = [since EXCEPT ![g] = t]
  /\ gid' = [gid EXCEPT ![g] = id]
  /\ old' = [old EXCEPT ![g] = store]
  /\ UNCHANGED <<dataVars, chanVars, postVars, resp, statVars, raced>>

\* Mutant: since is advanced by one unit of the clock.
GetSinceLate(t) == { m \in store : created[m] > t + 1 }

\* MessageStore.GetSince: After is strict.
GetSince(t) == { m \in store : created[m] > t }

GetCheck(g) ==
  /\ GoGet(g, "check", IF GetSince(since[g]) = {} THEN "subscribe" ELSE "register")
  /\ resp' = [resp EXCEPT ![g] = GetSince(since[g])]
  /\ UNCHANGED <<dataVars, chanVars, postVars, since, gid, old, statVars, raced>>

\* mu.Lock() of the broadcaster succeeds.
WriteLock == \A p \in Posts : ppc[p] # "broadcast"

Subscribe(g) ==
  /\ GoGet(g, "subscribe", "wait")
  /\ WriteLock
  /\ listeners' = listeners \cup {g}
  /\ UNCHANGED <<dataVars, ch, postVars, since, gid, resp, old, statVars, raced>>

GetReceive(g) ==
  /\ GoGet(g, "wait", "register")
  /\ ch[g] # Nil
  /\ resp' = [resp EXCEPT ![g] = {ch[g]}]
  /\ ch' = [ch EXCEPT ![g] = Nil]
  /\ UNCHANGED <<dataVars, listeners, postVars, since, gid, old, statVars, raced>>

\* time.After fires.  With a message waiting too, select takes either.
GetTimeout(g) ==
  /\ GoGet(g, "wait", "register")
  /\ UNCHANGED <<dataVars, chanVars, postVars, since, gid, resp, old, statVars, raced>>

\* Mutant: the early return does not unsubscribe.
GetDisconnectLeaks(g) ==
  /\ GoGet(g, "wait", "done")
  /\ UNCHANGED <<dataVars, chanVars, postVars, since, gid, resp, old, statVars, raced>>

\* r.Context().Done(): return without an answer.
GetDisconnect(g) ==
  /\ GoGet(g, "wait", "return")
  /\ UNCHANGED <<dataVars, chanVars, postVars, since, gid, resp, old, statVars, raced>>

\* Registry.Add, if the request has a client_id.
GetRegister(g) ==
  /\ GoGet(g, "register", "count")
  /\ registry' = IF gid[g] = Nil THEN registry
                 ELSE AddClient(registry, gid[g], "longpolling")
  /\ UNCHANGED <<dataVars, chanVars, postVars, since, gid, resp, old, tracker, raced>>

\* RecordMessage if there is a client_id, Tracker.Record, and the answer.
GetCount(g) ==
  /\ GoGet(g, "count", "return")
  /\ registry' = IF gid[g] = Nil THEN registry ELSE RecordMessageOf(registry, gid[g])
  /\ tracker' = tracker + 1
  /\ UNCHANGED <<dataVars, chanVars, postVars, since, gid, resp, old, raced>>

\* The deferred Unsubscribe, if there was a Subscribe.
GetReturn(g) ==
  /\ GoGet(g, "return", "done")
  /\ g \in listeners => WriteLock
  /\ listeners' = listeners \ {g}
  /\ UNCHANGED <<dataVars, ch, postVars, since, gid, resp, old, statVars, raced>>

-----------------------------------------------------------------------------
HandleSend(p) ==
  \/ PostStore(p) \/ BroadcastBegin(p) \/ BroadcastEnd(p)
  \/ PostRegister(p) \/ PostCount(p)
  \/ \E g \in Gets : BroadcastSend(p, g)

GetStep(g) ==
  GetCheck(g) \/ GetReceive(g) \/ GetTimeout(g) \/ GetRegister(g) \/ GetCount(g)

HandleGetMessages(g) ==
  GetStep(g) \/ Subscribe(g) \/ GetDisconnect(g) \/ GetReturn(g)

Next ==
  \/ Tick
  \/ \E p \in Posts : HandleSend(p) \/ \E id \in ClientIDs : PostStart(p, id)
  \/ \E g \in Gets :
       \/ HandleGetMessages(g)
       \/ \E t \in 0..now, id \in ClientIDs \cup {Nil} : GetStart(g, t, id)

Spec == Init /\ [][Next]_vars

\* Handlers run and the timeout of a GET fires.  Subscribe and Unsubscribe get
\* strong fairness: sync.RWMutex lets no new reader in while a writer waits.
FairSpec ==
  /\ Spec
  /\ \A p \in Posts : WF_vars(HandleSend(p))
  /\ \A g \in Gets :
       WF_vars(GetStep(g)) /\ SF_vars(Subscribe(g)) /\ SF_vars(GetReturn(g))

-----------------------------------------------------------------------------
(* Properties                                                              *)

PostPcs == {"idle", "store", "lock", "broadcast", "register", "count", "done"}
GetPcs ==
  {"idle", "check", "subscribe", "wait", "register", "count", "return", "done"}

\* Types: the registry entries that the handlers make are "longpolling"
\* entries, the only ones that HandleStats (line 233) adds up.
TypeOK ==
  /\ now \in 1..MaxTime
  /\ created \in [Posts -> 0..MaxTime]
  /\ store \subseteq Posts
  /\ listeners \subseteq Gets
  /\ ch \in [Gets -> Posts \cup {Nil}]
  /\ ppc \in [Posts -> PostPcs]
  /\ pid \in [Posts -> ClientIDs \cup {Nil}]
  /\ \A p \in Posts : ppc[p] # "idle" => pid[p] \in ClientIDs
  /\ todo \in [Posts -> SUBSET Gets]
  /\ gpc \in [Gets -> GetPcs]
  /\ since \in [Gets -> 0..MaxTime]
  /\ gid \in [Gets -> ClientIDs \cup {Nil}]
  /\ resp \in [Gets -> SUBSET Posts]
  /\ IsRegistry(registry, ClientIDs, {"longpolling"})
  /\ tracker \in Nat
  /\ old \in [Gets -> SUBSET Posts]
  /\ raced \in [Gets -> SUBSET Posts]

\* b.listeners holds exactly the channels of the GETs that subscribed and have
\* not returned, however they left the select; and a Broadcast under way visits
\* no channel that was removed meanwhile.
ListenersAreOpen ==
  /\ \A g \in listeners : gpc[g] \in {"wait", "register", "count", "return"}
  /\ \A g \in Gets : gpc[g] = "wait" => g \in listeners
  /\ \A p \in Posts : todo[p] \subseteq listeners

\* What a hanging GET is handed can be found in the store (store.Add comes
\* before Broadcast): a client that asks again sees it again.
HeardIsStored ==
  \A g \in Gets :
    /\ resp[g] \subseteq store
    /\ ch[g] # Nil => ch[g] \in store

New(g, m) == created[m] > since[g]

\* An answer, also an empty one after a hang, leaves out no message newer than
\* since that was stored when the request came in.
AnswersAllStored ==
  \A g \in Gets : \A m \in old[g] :
    New(g, m) /\ gpc[g] \notin {"idle", "check"} => m \in resp[g]

\* p is stored and Broadcast has yet to offer it to g.
OnItsWay(p, g) ==
  \/ ppc[p] = "lock"
  \/ ppc[p] = "broadcast" /\ g \in todo[p]

\* A GET that hangs with an empty channel while the store holds something new
\* will be offered it by a Broadcast, except what was broadcast between its
\* GetSince (line 178) and its Subscribe (line 183): no other loss.
OnlyTheWindowLoses ==
  \A g \in Gets : gpc[g] = "wait" /\ ch[g] = Nil =>
    \A m \in store : New(g, m) => m \in raced[g] \/ OnItsWay(m, g)

\* Every request completes: a listener that stopped reading blocks no
\* broadcast, and broadcasts do not keep a GET from leaving.
EveryRequestEnds ==
  /\ \A p \in Posts : (ppc[p] # "idle") ~> (ppc[p] = "done")
  /\ \A g \in Gets : (gpc[g] # "idle") ~> (gpc[g] = "done")

\* CommScope-TRD.md:75, "returns immediately if new data arrives": no GET is
\* left hanging when a message newer than its since was stored and broadcast.
NoLostWakeup ==
  \A g \in Gets : gpc[g] = "wait" /\ ch[g] = Nil =>
    \A m \in store : New(g, m) => OnItsWay(m, g)
=============================================================================

---------------------------- MODULE ShortPolling ----------------------------
(***************************************************************************)
(* Short polling: concurrent POSTs that store a message (internal/handlers *)
(* polling.go, with MessageStore), and the browser's PollingAdapter (web,  *)
(* pollingadapter.ts), whose timer asks for what is new since              *)
(* lastSeenTimestamp.                                                      *)
(*                                                                         *)
(* One step is one critical section on the server, or one callback in the  *)
(* browser: the timer fires and sends a request, an answer or a failure    *)
(* comes back.  Timers do not wait for answers, so polls overlap.  A POST  *)
(* makes one message, which is identified with it.  Browser and server     *)
(* read one clock, the browser in whole milliseconds.  The calls that the  *)
(* handlers make to the registry and their tracker are in module           *)
(* Telemetry.                                                              *)
(***************************************************************************)
EXTENDS Naturals, Sequences, SequencesExt, Filter

CONSTANTS
  Milli,     \* clock values in a millisecond
  MaxClock,  \* bound: the clock stops there
  MaxPosts,  \* bound: number of POST /api/polling/send requests
  MaxPolls   \* bound: number of GET /api/polling/messages requests

ASSUME MilliAssumption == Milli \in Nat \ {0}
ASSUME ClockAssumption == MaxClock \in Nat \ {0}
ASSUME NumbersAssumption == MaxPosts \in Nat /\ MaxPolls \in Nat

\* POSTs, and their messages, in the order in which they come in; and polls, in
\* the order in which they are sent.
Posts == 1..MaxPosts
Gets == 1..MaxPolls

VARIABLES
  clock,     \* time.Now()
  store,     \* ms.messages
  created,   \* CreatedAt of a message
  ppc,       \* HandleSend: idle, store, done
  gpc,       \* a poll: idle, request, answer, done, failed
  since,     \* its since
  resp,      \* the messages of its answer
  polling,   \* pollIntervalId is not null
  lastSeen,  \* lastSeenTimestamp
  begun,     \* history: the time of the last startPolling
  polls,     \* history: the polls sent since then that have not failed
  old        \* history: what the store held when a poll was sent

postVars == <<store, created, ppc>>
pollVars == <<gpc, since, resp, old>>
cursorVars == <<polling, lastSeen, begun, polls>>
pollingVars == <<clock, postVars, pollVars, cursorVars>>

\* Date.now()
DateNow(t) == t - (t % Milli)

PollInit ==
  /\ clock = 1
  /\ store = <<>>
  /\ created = [p \in Posts |-> 0]
  /\ ppc = [p \in Posts |-> "idle"]
  /\ gpc = [g \in Gets |-> "idle"]
  /\ since = [g \in Gets |-> 0]
  /\ resp = [g \in Gets |-> <<>>]
  /\ polling = FALSE
  /\ lastSeen = DateNow(clock)
  /\ begun = 0
  /\ polls = {}
  /\ old = [g \in Gets |-> <<>>]

ClockTick ==
  /\ clock < MaxClock
  /\ clock' = clock + 1
  /\ UNCHANGED <<postVars, pollVars, cursorVars>>

-----------------------------------------------------------------------------
(* The handlers                                                            *)

GoPost(p, from, to) == ppc[p] = from /\ ppc' = [ppc EXCEPT ![p] = to]

\* CreatedAt is the time at which the request came in.
PostStart(p) ==
  /\ \A q \in Posts : q < p => ppc[q] # "idle"
  /\ GoPost(p, "idle", "store")
  /\ created' = [created EXCEPT ![p] = clock]
  /\ UNCHANGED <<clock, store, pollVars, cursorVars>>

\* Mutant: the store is kept in the order of CreatedAt.
PostStoreSorted(p) ==
  /\ GoPost(p, "store", "done")
  /\ store' = Kept(store, { m \in Posts : created[m] <= created[p] }) \o <<p>>
              \o Kept(store, { m \in Posts : created[m] > created[p] })
  /\ UNCHANGED <<clock, created, pollVars, cursorVars>>

\* MessageStore.Add
PostStore(p) ==
  /\ GoPost(p, "store", "done")
  /\ store' = Append(store, p)
  /\ UNCHANGED <<clock, created, pollVars, cursorVars>>

GoPoll(g, from, to) == gpc[g] = from /\ gpc' = [gpc EXCEPT ![g] = to]

\* MessageStore.GetSince: After is strict.
GetSince(t) == Kept(store, { m \in Posts : created[m] > t })

HandleGetMessage(g) ==
  /\ GoPoll(g, "request", "answer")
  /\ resp' = [resp EXCEPT ![g] = GetSince(since[g])]
  /\ UNCHANGED <<clock, postVars, since, old, cursorVars>>

-----------------------------------------------------------------------------
(* The adapter                                                             *)

\* startPolling clears a timer that is running and sets a new one.
StartPolling ==
  /\ polling' = TRUE
  /\ lastSeen' = DateNow(clock)
  /\ begun' = clock
  /\ polls' = {}
  /\ UNCHANGED <<clock, postVars, pollVars>>

StopPolling ==
  /\ polling
  /\ polling' = FALSE
  /\ UNCHANGED <<clock, postVars, pollVars, lastSeen, begun, polls>>

Answered == { g \in polls : gpc[g] = "done" }

\* The timer fires: a request, whatever is still unanswered.
Poll(g) ==
  /\ polling
  /\ \A h \in Gets : h < g => gpc[h] # "idle"
  /\ GoPoll(g, "idle", "request")
  /\ since' = [since EXCEPT ![g] = lastSeen]
  /\ polls' = polls \cup {g}
  /\ old' = [old EXCEPT ![g] = store]
  /\ UNCHANGED <<clock, postVars, resp, polling, lastSeen, begun>>

\* Mutant: messages are found in the answer and move the cursor.
PollAnswerMoves(g) ==
  /\ GoPoll(g, "answer", "done")
  /\ lastSeen' = IF resp[g] # <<>> THEN DateNow(clock) ELSE lastSeen
  /\ UNCHANGED <<clock, postVars, since, resp, old, polling, begun, polls>>

\* The answer arrives and is emitted.  It is an object with a field messages, not
\* an array, so lastSeenTimestamp keeps its value.
PollAnswer(g) ==
  /\ GoPoll(g, "answer", "done")
  /\ UNCHANGED <<clock, postVars, since, resp, old, cursorVars>>

\* The request or its answer is lost: an error is emitted, and all that the
\* callback knew is gone.
PollFails(g) ==
  /\ gpc[g] \in {"request", "answer"}
  /\ gpc' = [gpc EXCEPT ![g] = "failed"]
  /\ since' = [since EXCEPT ![g] = 0]
  /\ resp' = [resp EXCEPT ![g] = <<>>]
  /\ old' = [old EXCEPT ![g] = <<>>]
  /\ polls' = polls \ {g}
  /\ UNCHANGED <<clock, postVars, polling, lastSeen, begun>>

-----------------------------------------------------------------------------
HandlePost(p) == PostStart(p) \/ PostStore(p)

PollNext ==
  \/ ClockTick
  \/ \E p \in Posts : HandlePost(p)
  \/ \E g \in Gets : Poll(g) \/ HandleGetMessage(g) \/ PollAnswer(g) \/ PollFails(g)
  \/ StartPolling \/ StopPolling

PollSpec == PollInit /\ [][PollNext]_pollingVars

-----------------------------------------------------------------------------
(* Properties                                                              *)

\* Types; no cursor and no CreatedAt is ahead of the clock.
PollTypeOK ==
  /\ clock \in 1..MaxClock
  /\ store \in Seq(Posts)
  /\ created \in [Posts -> 0..clock]
  /\ ppc \in [Posts -> {"idle", "store", "done"}]
  /\ gpc \in [Gets -> {"idle", "request", "answer", "done", "failed"}]
  /\ since \in [Gets -> 0..clock]
  /\ resp \in [Gets -> Seq(Posts)]
  /\ polling \in BOOLEAN
  /\ lastSeen \in 0..clock
  /\ begun \in 0..clock
  /\ polls \subseteq Gets
  /\ old \in [Gets -> Seq(Posts)]

\* When a poll is answered the browser has been shown every message that was
\* sent after startPolling and stored before the poll, by this answer or another
\* one of the session.  POSTs are stored in another order than they came in,
\* answers overtake each other, and requests of an earlier session come back.
SessionMissesNothing ==
  \A g \in Answered : \A m \in Range(old[g]) :
    created[m] > begun => \E h \in Answered : m \in Range(resp[h])

\* Polls that overlap may be answered in any order; of two answers in a session
\* one repeats the other and goes on.  Nothing shown is taken back or reordered.
AnswersExtend ==
  \A g, h \in Answered : IsPrefix(resp[g], resp[h]) \/ IsPrefix(resp[h], resp[g])

\* CommScope-PRD.md:52, the client "repeatedly requests" what is new: a poll does
\* not ask again for a message that the session has shown.
PollsBringNews ==
  [][\A g \in polls' \ polls, h \in Answered : \A m \in Range(resp[h]) :
       created[m] <= since'[g]]_pollingVars
=============================================================================

--------------------------- MODULE TelemetryGrid ---------------------------
(***************************************************************************)
(* The page's selection of a protocol (web, App.tsx, ProtocolSelector.tsx) *)
(* and the grid that shows the protocol's metrics (TelemetryGrid.tsx).  An *)
(* effect of the grid asks for the stats at once and then each second; a   *)
(* timer does not wait for answers, and one effect's requests may still be *)
(* open when the next effect has begun.                                    *)
(*                                                                         *)
(* Requests are numbered in the order in which they are sent.  A snapshot  *)
(* is the protocol and how far its counts had got: counts only grow.       *)
(***************************************************************************)
EXTENDS Naturals

CONSTANTS
  Protocols,    \* what can be selected
  Silent,       \* those without a stats route: grpc, in main.go
  MaxRequests,  \* bound: number of stats requests
  MaxCount      \* bound: how far the counts get

ASSUME GridAssumption == MaxRequests \in Nat /\ MaxCount \in Nat

VARIABLES
  selected,  \* App: selectedProtocol
  effectOf,  \* the protocol of the effect that runs: empty if not mounted
  effect,    \* number of effects begun so far
  metrics,   \* the grid's state: a set of at most one snapshot
  sent,      \* number of requests sent
  asker,     \* the effect that sent a request
  asks,      \* the protocol that the request is for
  rpc,       \* a request: idle, asked, answered, over
  answer,    \* its answer: a snapshot, or none for an error
  count,     \* how far the counts of all protocols have got
  shownBy,   \* history: the request whose answer is shown, 0 for none
  open       \* history: the requests that were open when it was shown

gridVars == <<selected, effectOf, effect, metrics, sent, asker, asks, rpc, answer,
              count, shownBy, open>>

RequestIDs == 1..MaxRequests

GridInit ==
  /\ selected \in Protocols
  /\ effectOf = {}
  /\ effect = 0
  /\ metrics = {}
  /\ sent = 0
  /\ asker = [r \in RequestIDs |-> 0]
  /\ asks = [r \in RequestIDs |-> selected]
  /\ rpc = [r \in RequestIDs |-> "idle"]
  /\ answer = [r \in RequestIDs |-> {}]
  /\ count = 0
  /\ shownBy = 0
  /\ open = {}

\* fetchMetrics() of effect e, which has captured protocol p.
Ask(e, p) ==
  /\ sent < MaxRequests
  /\ sent' = sent + 1
  /\ asker' = [asker EXCEPT ![sent'] = e]
  /\ asks' = [asks EXCEPT ![sent'] = p]
  /\ rpc' = [rpc EXCEPT ![sent'] = "asked"]

\* A click in the selector.  The page renders; effects come later.
Select(p) ==
  /\ p # selected
  /\ selected' = p
  /\ UNCHANGED <<effectOf, effect, metrics, sent, asker, asks, rpc, answer, count,
                 shownBy, open>>

\* The grid is mounted, or its effect is run again for another protocol, or once
\* more as StrictMode does; the cleanup of the last one has stopped its timer.
EffectBegins ==
  /\ effect' = effect + 1
  /\ effectOf' = {selected}
  /\ Ask(effect', selected)
  /\ UNCHANGED <<selected, metrics, answer, count, shownBy, open>>

\* setInterval
TimerFires ==
  /\ \E p \in effectOf : Ask(effect, p)
  /\ UNCHANGED <<selected, effectOf, effect, metrics, answer, count, shownBy, open>>

Unmount ==
  /\ effectOf # {}
  /\ effectOf' = {}
  /\ metrics' = {}
  /\ shownBy' = 0
  /\ UNCHANGED <<selected, effect, sent, asker, asks, rpc, answer, count, open>>

\* The server takes its snapshot.  Without a route, or if the request fails, the
\* answer is not ok, or none.
StatsAnswered(r) ==
  /\ rpc[r] = "asked"
  /\ rpc' = [rpc EXCEPT ![r] = "answered"]
  /\ \/ answer' = [answer EXCEPT ![r] = {}]
     \/ /\ asks[r] \notin Silent
        /\ answer' = [answer EXCEPT ![r] = {[protocol |-> asks[r], count |-> count]}]
  /\ UNCHANGED <<selected, effectOf, effect, metrics, sent, asker, asks, count,
                 shownBy, open>>

\* Mutant: the answer is shown as long as the grid is on the page.
IsOnPage(r) == effectOf # {}

\* isMounted of the effect that sent request r.
IsMounted(r) == effectOf # {} /\ asker[r] = effect

\* Errors and silence change nothing, nor does an answer for an effect that has
\* been cleaned up.
StatsArrive(r) ==
  /\ rpc[r] = "answered"
  /\ rpc' = [rpc EXCEPT ![r] = "over"]
  /\ IF answer[r] # {} /\ IsMounted(r)
       THEN /\ metrics' = answer[r]
            /\ shownBy' = r
            /\ open' = { q \in RequestIDs : rpc'[q] \in {"asked", "answered"} }
       ELSE UNCHANGED <<metrics, shownBy, open>>
  /\ UNCHANGED <<selected, effectOf, effect, sent, asker, asks, answer, count>>

\* Messages are handled somewhere.
CountGrows ==
  /\ count < MaxCount
  /\ count' = count + 1
  /\ UNCHANGED <<selected, effectOf, effect, metrics, sent, asker, asks, rpc, answer,
                 shownBy, open>>

GridNext ==
  \/ \E p \in Protocols : Select(p)
  \/ EffectBegins \/ TimerFires \/ Unmount \/ CountGrows
  \/ \E r \in RequestIDs : StatsAnswered(r) \/ StatsArrive(r)

GridSpec == GridInit /\ [][GridNext]_gridVars

-----------------------------------------------------------------------------
(* Properties                                                              *)

Snapshots == [protocol : Protocols \ Silent, count : 0..MaxCount]

\* Types; the grid shows at most one snapshot.
GridTypeOK ==
  /\ selected \in Protocols
  /\ effectOf \subseteq Protocols /\ \A p, q \in effectOf : p = q
  /\ effect \in Nat
  /\ metrics \subseteq Snapshots /\ \A m, n \in metrics : m = n
  /\ sent \in 0..MaxRequests
  /\ asker \in [RequestIDs -> Nat]
  /\ asks \in [RequestIDs -> Protocols]
  /\ rpc \in [RequestIDs -> {"idle", "asked", "answered", "over"}]
  /\ answer \in [RequestIDs -> SUBSET Snapshots]
  /\ count \in 0..MaxCount
  /\ shownBy \in 0..MaxRequests
  /\ open \subseteq RequestIDs

\* An answer is never replaced by one that an earlier effect has asked for: once
\* there are numbers of the protocol that is selected now, no late answer about
\* another one takes their place.  Until then the old numbers stay, for good if the
\* protocol is a Silent one.
NoReturnToEarlier ==
  shownBy # 0 /\ shownBy' # 0 => asker[shownBy] <= asker'[shownBy']

\* The numbers go back, for one protocol, only if the answers to two requests that
\* one effect had open at the same time come in the other order: changing to
\* another protocol and back does not bring old numbers.
BackOnlyByOvertaking ==
  \A m \in metrics, n \in metrics' :
    m.protocol = n.protocol /\ n.count < m.count =>
      shownBy' \in open /\ asker[shownBy'] = asker[shownBy]

\* Every step keeps to both.
ShownGoesForward == [][NoReturnToEarlier /\ BackOnlyByOvertaking]_gridVars
=============================================================================

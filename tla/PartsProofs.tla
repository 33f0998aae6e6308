----------------------------- MODULE PartsProofs -----------------------------
(***************************************************************************)
(* Theorems about the parts that share no state: the browser's adapters    *)
(* and components, the heartbeat, and the WebRTC signaling.  Each part has *)
(* a section and an inductive invariant of its own; the last section puts  *)
(* them together with those of ServerPartsProofs.                          *)
(***************************************************************************)
EXTENDS MCParts, ServerPartsProofs

-----------------------------------------------------------------------------
(* PacketVisualizer                                                        *)

\* One chain of frames while the visualizer is mounted, none after.
THEOREM LoopSafe == VisSpec => []OneLoop
<1>1. VisInit => OneLoop
  BY DEF VisInit, OneLoop
<1>2. OneLoop /\ [VisNext]_visVars => OneLoop'
  BY DEF OneLoop, VisNext, VisMount, PropsChange, VisUnmount, EventShown, Frame,
         StartLoop, Cancelled, visVars
<1> QED BY <1>1, <1>2, PTL DEF VisSpec

VisInv == VisTypeOK /\ OneLoop /\ ParticlesKeepPace

\* The events that still show at tick t, and how far they have come then.
Shown(t) == Kept(births, { b \in 0..t : t - b < Moves })
Ages(t) == [b \in 0..t |-> t - b]

LEMMA PaceIs == ParticlesKeepPace <=> particles = [i \in DOMAIN Shown(ticks) |-> ticks - Shown(ticks)[i]]
BY DEF ParticlesKeepPace, Shown

\* The particles are the ages of the events.
LEMMA ParticlesAreAges ==
  ASSUME VisTypeOK, ParticlesKeepPace
  PROVE  /\ Shown(ticks) \in Seq(0..ticks)
         /\ particles = Mapped(Ages(ticks), Shown(ticks))
<1> DEFINE S == { b \in 0..ticks : ticks - b < Moves }
           k == Kept(births, S)
<1>1. k \in Seq(0..ticks)
  <2> HIDE DEF S
  <2> QED BY KeptType DEF VisTypeOK
<1>2. \A i \in DOMAIN k : k[i] \in 0..ticks
  <2> HIDE DEF k
  <2> QED BY <1>1, LenProperties, ElementOfSeq
<1>3. particles = [i \in DOMAIN k |-> ticks - k[i]]
  BY DEF ParticlesKeepPace
<1> HIDE DEF k
<1>4. particles = Mapped(Ages(ticks), k)
  BY <1>2, <1>3 DEF Mapped, Ages
<1> QED BY <1>1, <1>4 DEF Shown, k

\* To move every particle once is to let a tick go by.
LEMMA MovedOnce ==
  ASSUME VisTypeOK, ParticlesKeepPace
  PROVE  Moved(particles, 1) = [i \in DOMAIN Shown(ticks + 1) |-> (ticks + 1) - Shown(ticks + 1)[i]]
<1> DEFINE T == 0..ticks
           f == [b \in T |-> (ticks + 1) - b]
           R == { b \in T : ticks - b < Moves }
           Q == { b \in T : f[b] \in 0..(Moves - 1) }
           Z == { b \in 0..(ticks + 1) : (ticks + 1) - b < Moves }
           kept == Kept(births, R)
           still == Kept(births, Z)
<1>1. ticks \in Nat /\ Moves \in Nat /\ births \in Seq(T)
  BY MovesAssumption DEF VisTypeOK
<1>2. \A b \in T : f[b] \in Nat /\ f[b] = (ticks + 1) - b
  BY <1>1
<1>3. \A b \in T : b \in R \cap Q <=> b \in Z
  BY <1>1
<1>4. kept = Shown(ticks) /\ still = Shown(ticks + 1)
  BY DEF Shown
<1>5. kept \in Seq(T) /\ particles = Mapped(Ages(ticks), kept)
  BY <1>4, ParticlesAreAges
<1> HIDE DEF kept, still, R, Z
<1>6. [i \in DOMAIN particles |-> particles[i] + 1] = Mapped(f, kept)
  <2>1. DOMAIN particles = DOMAIN kept
    BY <1>5 DEF Mapped
  <2>2. ASSUME NEW i \in DOMAIN kept PROVE particles[i] + 1 = f[kept[i]]
    <3>1. kept[i] \in T
      BY <1>5, LenProperties, ElementOfSeq
    <3>2. particles[i] = ticks - kept[i]
      BY <1>5, <3>1 DEF Mapped, Ages
    <3> QED BY <1>1, <1>2, <3>1, <3>2
  <2> HIDE DEF f
  <2> QED BY <2>1, <2>2 DEF Mapped
<1>7. Kept(Mapped(f, kept), 0..(Moves - 1)) = Mapped(f, Kept(kept, Q))
  <2> DEFINE S == 0..(Moves - 1)
  <2>1. \A b \in T : b \in Q <=> f[b] \in S
    OBVIOUS
  <2> HIDE DEF f, T, S, Q
  <2>2. Kept(Mapped(f, kept), S) = Mapped(f, Kept(kept, Q))
    BY <1>5, <2>1, KeptMapped
  <2> QED BY <2>2 DEF S
<1> HIDE DEF Q
<1>8. Kept(kept, Q) = Kept(births, R \cap Q)
  BY <1>1, KeptTwice DEF kept
<1>9. Kept(births, R \cap Q) = still
  <2>1. Range(births) \subseteq T
    BY <1>1, RangeEquality
  <2> QED BY <1>1, <1>3, <2>1, KeptSame DEF still
<1>10. still \in Seq(T)
  BY <1>1, KeptType DEF still
<1>11. Mapped(f, still) = [i \in DOMAIN still |-> (ticks + 1) - still[i]]
  <2>1. \A i \in DOMAIN still : still[i] \in T
    BY <1>10, LenProperties, ElementOfSeq
  <2> QED BY <1>2, <2>1 DEF Mapped
<1> HIDE DEF f
<1>12. Moved(particles, 1) = Mapped(f, still)
  BY <1>6, <1>7, <1>8, <1>9 DEF Moved
<1> QED BY <1>4, <1>11, <1>12

LEMMA MovedType ==
  ASSUME VisTypeOK, NEW n \in Nat
  PROVE  Moved(particles, n) \in Seq(0..(Moves - 1))
<1> DEFINE m == [i \in DOMAIN particles |-> particles[i] + n]
           S == 0..(Moves - 1)
<1>1. particles \in Seq(S) /\ S \subseteq Nat
  BY DEF VisTypeOK
<1>2. m \in Seq(Nat)
  <2>1. Len(particles) \in Nat /\ DOMAIN particles = 1..Len(particles)
    BY <1>1, LenProperties
  <2>2. ASSUME NEW i \in 1..Len(particles) PROVE particles[i] + n \in Nat
    <3>1. particles[i] \in S
      <4> HIDE DEF S
      <4> QED BY <1>1, ElementOfSeq
    <3> QED BY <3>1
  <2> QED BY <2>1, <2>2
<1> HIDE DEF m, S
<1>3. Kept(m, S) \in Seq(Nat) /\ Range(Kept(m, S)) \subseteq S
  BY <1>2, KeptType
<1>4. Kept(m, S) \in Seq(S)
  BY <1>3, SeqOver
<1> QED BY <1>4 DEF Moved, m, S

\* A tick, of a start or a frame.
LEMMA TickStep ==
  ASSUME VisInv, ticks' = ticks + 1, births' = births, particles' = Moved(particles, 1)
  PROVE  /\ ParticlesKeepPace' /\ particles' \in Seq(0..(Moves - 1))
         /\ ticks' \in Nat /\ births' \in Seq(0..ticks')
<1>1. particles' \in Seq(0..(Moves - 1))
  BY MovedType DEF VisInv
<1>2. ticks \in Nat /\ births \in Seq(0..ticks)
  BY DEF VisInv, VisTypeOK
<1>3. births \in Seq(0..(ticks + 1))
  <2>1. Range(births) \subseteq 0..(ticks + 1)
    <3>1. \A i \in 1..Len(births) : births[i] \in 0..ticks
      BY <1>2, ElementOfSeq
    <3> QED BY <1>2, <3>1, LenProperties DEF Range
  <2> QED BY <1>2, <2>1, SeqOver
<1>4. ParticlesKeepPace'
  BY MovedOnce DEF VisInv, ParticlesKeepPace, Shown
<1> QED BY <1>1, <1>2, <1>3, <1>4

LEMMA EventStep ==
  ASSUME VisInv, EventShown
  PROVE  VisInv'
<1> DEFINE S == { b \in 0..ticks : ticks - b < Moves }
           f == Ages(ticks)
<1>1. /\ ticks \in Nat /\ births \in Seq(0..ticks) /\ particles \in Seq(0..(Moves - 1))
      /\ Moves \in Nat /\ Moves > 0
      /\ particles' = Append(particles, 0) /\ births' = Append(births, ticks)
      /\ UNCHANGED <<loop, scheduled, effects, ticks>>
  BY MovesAssumption DEF VisInv, VisTypeOK, EventShown
<1>2. ticks \in 0..ticks /\ ticks \in S /\ f[ticks] = 0 /\ 0 \in 0..(Moves - 1)
  BY <1>1 DEF Ages
<1>3. particles' \in Seq(0..(Moves - 1)) /\ births' \in Seq(0..ticks)
  BY <1>1, <1>2, AppendProperties
<1> HIDE DEF S, f
<1>4. Kept(births', S) = Append(Kept(births, S), ticks)
  <2> DEFINE T == 0..ticks
  <2>1. births \in Seq(T) /\ ticks \in T
    BY <1>1, <1>2
  <2> HIDE DEF T
  <2> QED BY <1>1, <1>2, <2>1, KeptAppend
<1>5. Kept(births, S) \in Seq(0..ticks) /\ particles = Mapped(f, Kept(births, S))
  BY ParticlesAreAges DEF VisInv, Shown, S, f
<1>6. particles' = Mapped(f, Kept(births', S))
  BY <1>1, <1>2, <1>4, <1>5, MappedAppend
<1> DEFINE k == Kept(births', S)
<1>7. \A i \in DOMAIN k : k[i] \in 0..ticks
  <2>1. k \in Seq(0..ticks)
    BY <1>3, KeptType
  <2> HIDE DEF k
  <2> QED BY <2>1, LenProperties, ElementOfSeq
<1> HIDE DEF k
<1>8. Mapped(f, k) = [i \in DOMAIN k |-> ticks - k[i]]
  BY <1>7 DEF Mapped, f, Ages
<1>9. ParticlesKeepPace'
  BY <1>1, <1>6, <1>8 DEF ParticlesKeepPace, k, S
<1> QED BY <1>1, <1>3, <1>9 DEF VisInv, VisTypeOK, OneLoop

\* To begin with there are no particles, of no events.
NoParticles == births = <<>> /\ particles = <<>>

LEMMA NoneKeepPace == NoParticles => ParticlesKeepPace
<1> DEFINE k == Kept(births, { b \in 0..ticks : ticks - b < Moves })
<1> SUFFICES ASSUME births = <<>>, particles = <<>>
             PROVE  particles = [i \in DOMAIN k |-> ticks - k[i]]
  BY DEF NoParticles, ParticlesKeepPace
<1>1. \A S : Kept(births, S) = <<>>
  BY KeptEmpty
<1>2. k = <<>>
  BY <1>1
<1> HIDE DEF k
<1> QED BY <1>2

LEMMA VisInitInv == VisInit => VisInv
<1> SUFFICES ASSUME VisInit PROVE VisInv
  OBVIOUS
<1>1. ParticlesKeepPace
  BY NoneKeepPace DEF NoParticles, VisInit
<1> QED BY <1>1 DEF VisInv, VisInit, VisTypeOK, OneLoop

\* Every step keeps the loop and the pace.
LEMMA VisStep == VisInv /\ [VisNext]_visVars => VisInv'
<1> SUFFICES ASSUME VisInv, [VisNext]_visVars PROVE VisInv'
  OBVIOUS
<1>0. OneLoop'
  BY DEF VisInv, OneLoop, VisNext, VisMount, PropsChange, VisUnmount, EventShown, Frame,
         StartLoop, Cancelled, visVars
<1>1. CASE VisMount \/ PropsChange
  <2>1. StartLoop /\ births' = births
    BY <1>1 DEF VisMount, PropsChange
  <2>2. /\ ParticlesKeepPace' /\ particles' \in Seq(0..(Moves - 1))
        /\ ticks' \in Nat /\ births' \in Seq(0..ticks')
    BY <2>1, TickStep DEF StartLoop
  <2>3. /\ loop' \subseteq Nat /\ effects' \in Nat /\ scheduled' \subseteq Nat
        /\ \A e, g \in loop' : e = g
    BY <2>1 DEF VisInv, VisTypeOK, StartLoop, Cancelled
  <2> QED BY <1>0, <2>2, <2>3 DEF VisInv, VisTypeOK
<1>2. CASE VisUnmount
  <2>1. NoParticles'
    BY <1>2 DEF NoParticles, VisUnmount
  <2>2. ParticlesKeepPace'
    BY <2>1, NoneKeepPace, PTL
  <2>3. VisTypeOK'
    BY <1>2 DEF VisInv, VisTypeOK, VisUnmount, Cancelled
  <2> QED BY <1>0, <2>2, <2>3 DEF VisInv
<1>3. CASE EventShown
  BY <1>3, EventStep
<1>4. CASE Frame
  <2>1. PICK e : scheduled = {e}
    <3>1. PICK e \in scheduled : TRUE
      BY <1>4 DEF Frame
    <3>2. \A g \in scheduled : g = e
      BY <3>1 DEF VisInv, VisTypeOK, OneLoop
    <3>3. scheduled = {e}
      BY <3>1, <3>2
    <3> QED BY <3>3
  <2>2. Cardinality(scheduled) = 1
    BY <2>1, FS_Singleton
  <2>3. /\ ParticlesKeepPace' /\ particles' \in Seq(0..(Moves - 1))
        /\ ticks' \in Nat /\ births' \in Seq(0..ticks')
    BY <1>4, <2>2, TickStep DEF Frame
  <2> QED BY <1>0, <1>4, <2>3 DEF Frame, VisInv, VisTypeOK
<1>5. CASE UNCHANGED visVars
  BY <1>5 DEF visVars, VisInv, VisTypeOK, OneLoop, ParticlesKeepPace
<1> QED BY <1>1, <1>2, <1>3, <1>4, <1>5 DEF VisNext

\* VisTypeOK: no particle is kept beyond its arrival.
THEOREM VisTypeCorrect == VisSpec => []VisTypeOK
<1>1. VisInv => VisTypeOK
  BY DEF VisInv
<1> QED BY <1>1, VisInitInv, VisStep, PTL DEF VisSpec

\* AnimationRuns: the one loop, and the pace of the particles, which are the events
\* of the last Moves ticks, each moved once a tick.
THEOREM AnimationAlwaysRuns == VisSpec => []AnimationRuns
<1>1. VisInv => AnimationRuns
  BY DEF VisInv, AnimationRuns
<1> QED BY <1>1, VisInitInv, VisStep, PTL DEF VisSpec

-----------------------------------------------------------------------------
(* TelemetryGrid                                                           *)

\* Requests are numbered in the order in which they are sent; an answer is one
\* snapshot of counts that have been reached.
RequestsInOrder ==
  \A r \in RequestIDs :
    /\ rpc[r] = "idle" <=> r > sent
    /\ r <= sent => asker[r] <= effect
    /\ rpc[r] \in {"idle", "asked"} => answer[r] = {}
    /\ \A m, n \in answer[r] : m = n
    /\ \A m \in answer[r] : m.count <= count

\* What is shown is the answer to request shownBy.  Requests that were open then
\* are of its effect or earlier ones; later ones are answered with later counts.
ShownIsAnswer ==
  /\ shownBy = 0 => metrics = {}
  /\ shownBy # 0 =>
       /\ rpc[shownBy] = "over"
       /\ metrics = answer[shownBy]
       /\ \A r \in open : r <= sent /\ asker[r] <= asker[shownBy]
       /\ \A r \in RequestIDs : rpc[r] \in {"asked", "answered"} /\ r \notin open =>
            \A m \in metrics, n \in answer[r] : m.count <= n.count

GridInv == GridTypeOK /\ RequestsInOrder /\ ShownIsAnswer

\* It holds to begin with.
LEMMA GridInitInv == GridInit => GridInv
BY GridAssumption
   DEF GridInit, GridInv, GridTypeOK, RequestsInOrder, ShownIsAnswer, RequestIDs,
   Snapshots

\* A request is sent: by a new effect, or by the timer of the one that runs.
LEMMA AskInv ==
  ASSUME GridInv, NEW e \in Nat, NEW p \in Protocols,
         e >= effect, effect' = e, Ask(e, p),
         selected' \in Protocols, effectOf' \subseteq Protocols,
         \A q, r \in effectOf' : q = r,
         UNCHANGED <<metrics, answer, count, shownBy, open>>
  PROVE  GridInv'
<1> USE GridAssumption DEF GridInv, RequestIDs, Ask
<1>1. GridTypeOK'
  BY DEF GridTypeOK, Snapshots
<1>2. RequestsInOrder'
  BY DEF GridTypeOK, RequestsInOrder
<1>3. ShownIsAnswer'
  BY DEF GridTypeOK, RequestsInOrder, ShownIsAnswer
<1> QED BY <1>1, <1>2, <1>3

\* A snapshot is at least as late as all that were taken before.
LEMMA StatsAnsweredInv ==
  ASSUME GridInv, NEW r \in RequestIDs, StatsAnswered(r)
  PROVE  GridInv'
<1> USE GridAssumption DEF GridInv, RequestIDs, StatsAnswered
<1>1. GridTypeOK'
  <2>1. ASSUME asks[r] \notin Silent
        PROVE  {[protocol |-> asks[r], count |-> count]} \in SUBSET Snapshots
    BY <2>1 DEF GridTypeOK, Snapshots
  <2>2. answer' \in [RequestIDs -> SUBSET Snapshots]
    BY <2>1 DEF GridTypeOK
  <2> QED BY <2>2 DEF GridTypeOK, Snapshots
<1>2. RequestsInOrder'
  BY DEF GridTypeOK, RequestsInOrder
<1>3. ShownIsAnswer'
  <2>1. CASE shownBy = 0
    BY <2>1 DEF GridTypeOK, ShownIsAnswer
  <2>2. CASE shownBy # 0
    <3>1. r # shownBy /\ shownBy \in RequestIDs
      BY <2>2 DEF GridTypeOK, ShownIsAnswer
    <3>2. \A m \in metrics : m.count <= count
      BY <2>2, <3>1 DEF ShownIsAnswer, RequestsInOrder
    <3>3. \A n \in answer'[r] : n.count = count
      BY DEF GridTypeOK
    <3> QED BY <2>2, <3>1, <3>2, <3>3 DEF GridTypeOK, ShownIsAnswer
  <2> QED BY <2>1, <2>2
<1> QED BY <1>1, <1>2, <1>3

\* An answer arrives: it is shown, and marks what is open, or nothing changes.
LEMMA StatsArriveInv ==
  ASSUME GridInv, NEW r \in RequestIDs, StatsArrive(r)
  PROVE  GridInv'
<1> USE GridAssumption DEF GridInv, RequestIDs
<1>1. CASE answer[r] # {} /\ IsMounted(r)
  <2>1. /\ rpc[r] = "answered" /\ rpc' = [rpc EXCEPT ![r] = "over"]
        /\ metrics' = answer[r] /\ shownBy' = r /\ asker[r] = effect
        /\ open' = { q \in 1..MaxRequests : rpc'[q] \in {"asked", "answered"} }
        /\ UNCHANGED <<selected, effectOf, effect, sent, asker, asks, answer, count>>
    BY <1>1 DEF StatsArrive, IsMounted
  <2>2. /\ answer[r] \subseteq Snapshots /\ \A m, n \in answer[r] : m = n
        /\ rpc' \in [1..MaxRequests -> {"idle", "asked", "answered", "over"}]
        /\ open' \subseteq 1..MaxRequests /\ shownBy' \in 0..MaxRequests
    BY <2>1 DEF GridTypeOK, RequestsInOrder
  <2>3. GridTypeOK'
    BY <2>1, <2>2 DEF GridTypeOK, Snapshots
  <2>4. RequestsInOrder'
    BY <2>1 DEF GridTypeOK, RequestsInOrder
  <2>5. \A q \in open' : q <= sent /\ asker[q] <= effect
    BY <2>1 DEF GridTypeOK, RequestsInOrder
  <2>6. ShownIsAnswer'
    BY <2>1, <2>5 DEF GridTypeOK, ShownIsAnswer
  <2> QED BY <2>3, <2>4, <2>6
<1>2. CASE ~(answer[r] # {} /\ IsMounted(r))
  <2>1. /\ rpc[r] = "answered" /\ rpc' = [rpc EXCEPT ![r] = "over"]
        /\ UNCHANGED <<selected, effectOf, effect, metrics, sent, asker, asks, answer,
                       count, shownBy, open>>
    BY <1>2 DEF StatsArrive
  <2>2. GridTypeOK'
    BY <2>1 DEF GridTypeOK, Snapshots
  <2>3. RequestsInOrder'
    BY <2>1 DEF GridTypeOK, RequestsInOrder
  <2>4. ShownIsAnswer'
    BY <2>1 DEF GridTypeOK, ShownIsAnswer
  <2> QED BY <2>2, <2>3, <2>4
<1> QED BY <1>1, <1>2

\* Every step preserves it.
LEMMA GridStepInv == GridInv /\ [GridNext]_gridVars => GridInv'
<1> SUFFICES ASSUME GridInv, [GridNext]_gridVars PROVE GridInv'
  OBVIOUS
<1>1. ASSUME NEW p \in Protocols, Select(p) PROVE GridInv'
  BY <1>1 DEF Select, GridInv, GridTypeOK, RequestsInOrder, ShownIsAnswer
<1>2. CASE EffectBegins
  BY <1>2, AskInv DEF EffectBegins, GridInv, GridTypeOK
<1>3. CASE TimerFires
  BY <1>3, AskInv DEF TimerFires, GridInv, GridTypeOK
<1>4. CASE Unmount
  BY <1>4, GridAssumption DEF Unmount, GridInv, GridTypeOK, RequestsInOrder,
         ShownIsAnswer, Snapshots
<1>5. CASE CountGrows
  BY <1>5, GridAssumption DEF CountGrows, GridInv, GridTypeOK, RequestsInOrder,
         ShownIsAnswer, Snapshots
<1>6. ASSUME NEW r \in RequestIDs, StatsAnswered(r) \/ StatsArrive(r) PROVE GridInv'
  BY <1>6, StatsAnsweredInv, StatsArriveInv
<1>7. CASE UNCHANGED gridVars
  BY <1>7 DEF gridVars, GridInv, GridTypeOK, RequestsInOrder, ShownIsAnswer
<1> QED BY <1>1, <1>2, <1>3, <1>4, <1>5, <1>6, <1>7 DEF GridNext

\* The invariant holds in every reachable state.
LEMMA GridAlways == GridSpec => []GridInv
BY GridInitInv, GridStepInv, PTL DEF GridSpec

\* What is shown changes only as an answer comes, or to nothing.
LEMMA ShownSteps ==
  ASSUME GridInv, [GridNext]_gridVars
  PROVE  \/ /\ UNCHANGED <<metrics, shownBy>>
            /\ shownBy # 0 => asker'[shownBy] = asker[shownBy]
         \/ shownBy' = 0 /\ metrics' = {}
         \/ \E r \in RequestIDs :
              /\ StatsArrive(r) /\ shownBy' = r /\ metrics' = answer[r]
              /\ asker[r] = effect
<1> USE GridAssumption DEF GridInv, GridTypeOK, RequestsInOrder, ShownIsAnswer,
       RequestIDs
<1>1. ASSUME NEW e, NEW p, Ask(e, p), UNCHANGED <<metrics, shownBy>>
      PROVE  shownBy # 0 => asker'[shownBy] = asker[shownBy]
  BY <1>1 DEF Ask
<1>2. CASE EffectBegins \/ TimerFires
  BY <1>1, <1>2 DEF EffectBegins, TimerFires
<1>3. ASSUME NEW r \in RequestIDs, StatsArrive(r)
      PROVE  \/ UNCHANGED <<metrics, shownBy, asker>>
             \/ shownBy' = r /\ metrics' = answer[r] /\ asker[r] = effect
  BY <1>3 DEF StatsArrive, IsMounted
<1> QED BY <1>2, <1>3
        DEF GridNext, Select, Unmount, StatsAnswered, CountGrows, gridVars

\* Types hold; the grid shows at most one snapshot.
THEOREM GridSafe == GridSpec => []GridTypeOK
BY GridAlways, PTL DEF GridInv

\* No late answer of an earlier effect replaces what the grid shows, and its numbers
\* go back only by overtaking within one effect.
THEOREM GridGoesForward == GridSpec => ShownGoesForward
<1>1. GridInv /\ [GridNext]_gridVars => [NoReturnToEarlier]_gridVars
  <2> SUFFICES ASSUME GridInv, [GridNext]_gridVars, shownBy # 0, shownBy' # 0
               PROVE  asker[shownBy] <= asker'[shownBy']
    BY DEF NoReturnToEarlier
  <2>1. shownBy \in RequestIDs /\ asker[shownBy] \in Nat /\ asker[shownBy] <= effect
    BY DEF GridInv, GridTypeOK, RequestsInOrder, ShownIsAnswer, RequestIDs
  <2> QED BY <2>1, ShownSteps DEF StatsArrive
<1>2. GridInv /\ [GridNext]_gridVars => [BackOnlyByOvertaking]_gridVars
  <2> SUFFICES ASSUME GridInv, [GridNext]_gridVars,
                      NEW m \in metrics, NEW n \in metrics',
                      m.protocol = n.protocol, n.count < m.count
               PROVE  shownBy' \in open /\ asker[shownBy'] = asker[shownBy]
    BY DEF BackOnlyByOvertaking
  <2> HIDE DEF GridNext
  <2>1. CASE UNCHANGED <<metrics, shownBy>>
    BY <2>1 DEF GridInv, GridTypeOK, RequestsInOrder, ShownIsAnswer, RequestIDs, Snapshots
  <2>2. CASE metrics' = {}
    BY <2>2
  <2>3. ASSUME NEW r \in RequestIDs, StatsArrive(r), shownBy' = r, metrics' = answer[r],
               asker[r] = effect
        PROVE  shownBy' \in open /\ asker[shownBy'] = asker[shownBy]
    BY <2>3 DEF GridInv, GridTypeOK, RequestsInOrder, ShownIsAnswer, StatsArrive,
           RequestIDs, Snapshots
  <2> QED BY <2>1, <2>2, <2>3, ShownSteps
<1> QED BY <1>1, <1>2, GridAlways, PTL DEF GridSpec, ShownGoesForward

-----------------------------------------------------------------------------
(* Calls                                                                   *)

\* CallsAreToldOnce for one call, by where the call is.
Agrees(c) ==
  ~Methods[kindOf[c]].streams =>
    \/ cpc[c] = "idle" /\ told[c] = <<>>
    \/ cpc[c] \in {"fetch", "body"} /\ told[c] = <<"outbound">>
    \/ /\ cpc[c] = "done"
       /\ told[c] = <<"outbound", "inbound">>
       /\ body[c] = "json" /\ result[c] = "resolved"
    \/ /\ cpc[c] = "done"
       /\ told[c] = <<"outbound", "error">>
       /\ result[c] = Caught(c)

\* What it takes for granted of the variables it is about.
CallsTypes ==
  /\ cpc \in [Requests -> {"idle", "fetch", "body", "done"}]
  /\ body \in [Requests -> {"none", "json", "text"}]
  /\ \A c \in Requests : cpc[c] = "body" => body[c] \in {"json", "text"}
  /\ result \in [Requests -> {"none", "pending", "resolved", "rejected"}]
  /\ told \in [Requests -> Seq(Directions)]

CallsInv == CallsTypes /\ \A c \in Requests : Agrees(c)

\* It holds to begin with.
LEMMA CallsInitInv == CallsInit => CallsInv
BY DEF CallsInit, CallsInv, CallsTypes, Agrees

\* The first event of a call.
LEMMA EmptyThen ==
  ASSUME NEW S, NEW d \in S
  PROVE  <<>> \o <<d>> = <<d>>
<1>1. <<d>> \in Seq(S)
  OBVIOUS
<1> QED BY <1>1, ConcatEmptySeq

\* The second event of a call.
LEMMA OneThen ==
  ASSUME NEW S, NEW d \in S, NEW e \in S
  PROVE  <<d>> \o <<e>> = <<d, e>>
<1>1. <<d>> \in Seq(S) /\ <<e>> \in Seq(S) /\ <<d, e>> \in Seq(S)
  OBVIOUS
<1>2. <<d>> \o <<e>> \in Seq(S) /\ Len(<<d>> \o <<e>>) = 2
  BY <1>1, ConcatProperties
<1>3. (<<d>> \o <<e>>)[1] = d /\ (<<d>> \o <<e>>)[2] = e
  BY <1>1, ConcatProperties
<1>4. Len(<<d, e>>) = 2 /\ <<d, e>>[1] = d /\ <<d, e>>[2] = e
  OBVIOUS
<1>5. ASSUME NEW i \in 1..2 PROVE (<<d>> \o <<e>>)[i] = <<d, e>>[i]
  <2>1. i = 1 \/ i = 2
    OBVIOUS
  <2> QED BY <1>3, <1>4, <2>1
<1> QED BY <1>1, <1>2, <1>4, <1>5, SeqEqual

\* A step of call c that tells ds of it: what is left to show is about c.
LEMMA OneCallChanges ==
  ASSUME CallsInv, NEW c \in Requests, NEW ds \in Seq(Directions),
         NEW to \in {"idle", "fetch", "body", "done"},
         NEW b \in {"none", "json", "text"},
         NEW res \in {"none", "pending", "resolved", "rejected"},
         cpc' = [cpc EXCEPT ![c] = to], told' = [told EXCEPT ![c] = @ \o ds],
         result' = [result EXCEPT ![c] = res], body' = [body EXCEPT ![c] = b],
         to = "body" => b # "none",
         kindOf' = kindOf, Agrees(c)'
  PROVE  CallsInv'
<1>1. told[c] \o ds \in Seq(Directions)
  BY ConcatProperties DEF CallsInv, CallsTypes
<1>2. CallsTypes'
  BY <1>1 DEF CallsInv, CallsTypes
<1>3. ASSUME NEW d \in Requests, d # c PROVE Agrees(d)'
  BY <1>3 DEF CallsInv, CallsTypes, Agrees, Caught
<1> QED BY <1>2, <1>3 DEF CallsInv

\* Every step of a call keeps what is told of it and what its caller gets in line.
LEMMA CallStep ==
  ASSUME CallsInv, NEW c \in Requests, Call(c)
  PROVE  CallsInv'
<1>1. /\ <<>> \in Seq(Directions) /\ <<"outbound">> \in Seq(Directions)
      /\ <<"inbound">> \in Seq(Directions) /\ <<"error">> \in Seq(Directions)
  BY DEF Directions
<1>2. /\ <<>> \o <<"outbound">> = <<"outbound">>
      /\ <<"outbound">> \o <<"inbound">> = <<"outbound", "inbound">>
      /\ <<"outbound">> \o <<"error">> = <<"outbound", "error">>
  <2>1. "outbound" \in Directions /\ "inbound" \in Directions /\ "error" \in Directions
    BY DEF Directions
  <2> QED BY <2>1, EmptyThen, OneThen
<1>3. /\ told[c] \in Seq(Directions) /\ told[c] \o <<>> = told[c]
      /\ cpc[c] \in {"idle", "fetch", "body", "done"}
      /\ body[c] \in {"none", "json", "text"}
      /\ result[c] \in {"none", "pending", "resolved", "rejected"}
      /\ cpc[c] = "body" => body[c] \in {"json", "text"}
      /\ Caught(c) \in {"resolved", "rejected"}
      /\ kindOf' = kindOf => Caught(c)' = Caught(c)
      /\ Agrees(c)
  BY ConcatEmptySeq DEF CallsInv, CallsTypes, Caught
<1>4. /\ told \in [Requests -> Seq(Directions)]
      /\ cpc \in [Requests -> {"idle", "fetch", "body", "done"}]
      /\ body \in [Requests -> {"none", "json", "text"}]
      /\ result \in [Requests -> {"none", "pending", "resolved", "rejected"}]
  BY DEF CallsInv, CallsTypes
<1>5. CASE CallStarts(c)
  <2>1. /\ cpc[c] = "idle" /\ cpc' = [cpc EXCEPT ![c] = "fetch"]
        /\ told' = [told EXCEPT ![c] = @ \o <<"outbound">>]
        /\ result' = [result EXCEPT ![c] = "pending"]
        /\ body' = [body EXCEPT ![c] = body[c]] /\ kindOf' = kindOf
    BY <1>4, <1>5 DEF CallStarts, Emit, GoCall
  <2>2. Agrees(c)'
    BY <1>2, <1>3, <1>4, <2>1 DEF Agrees
  <2> QED BY <1>1, <1>3, <2>1, <2>2, OneCallChanges
<1>6. CASE ResponseComes(c)
  <2>1. PICK b \in {"json", "text"} :
        /\ cpc[c] = "fetch" /\ cpc' = [cpc EXCEPT ![c] = "body"]
        /\ body' = [body EXCEPT ![c] = b]
    BY <1>6 DEF ResponseComes, GoCall
  <2>2. /\ told' = [told EXCEPT ![c] = @ \o <<>>]
        /\ result' = [result EXCEPT ![c] = result[c]] /\ kindOf' = kindOf
    BY <1>3, <1>4, <1>6 DEF ResponseComes, busVars
  <2>3. Agrees(c)'
    BY <1>3, <1>4, <2>1, <2>2 DEF Agrees
  <2> QED BY <1>1, <1>3, <2>1, <2>2, <2>3, OneCallChanges
<1>7. CASE CallFails(c)
  <2>1. /\ cpc[c] \in {"fetch", "body"} /\ cpc' = [cpc EXCEPT ![c] = "done"]
        /\ told' = [told EXCEPT ![c] = @ \o <<"error">>]
        /\ result' = [result EXCEPT ![c] = Caught(c)]
        /\ body' = [body EXCEPT ![c] = body[c]] /\ kindOf' = kindOf
    BY <1>4, <1>7 DEF CallFails, Emit
  <2>2. Agrees(c)'
    BY <1>2, <1>3, <1>4, <2>1 DEF Agrees
  <2> QED BY <1>1, <1>3, <2>1, <2>2, OneCallChanges
<1>8. CASE BodyIsRead(c)
  <2>1. /\ cpc[c] = "body" /\ cpc' = [cpc EXCEPT ![c] = "done"]
        /\ body' = [body EXCEPT ![c] = body[c]] /\ kindOf' = kindOf
    BY <1>4, <1>8 DEF BodyIsRead, GoCall
  <2>2. CASE body[c] = "text"
    <3>1. /\ told' = [told EXCEPT ![c] = @ \o <<"error">>]
          /\ result' = [result EXCEPT ![c] = Caught(c)]
      BY <1>8, <2>2 DEF BodyIsRead, Emit
    <3>2. Agrees(c)'
      BY <1>2, <1>3, <1>4, <2>1, <3>1 DEF Agrees
    <3> QED BY <1>1, <1>3, <2>1, <3>1, <3>2, OneCallChanges
  <2>3. CASE body[c] = "json"
    <3>1. /\ told' = [told EXCEPT ![c] = @ \o <<"inbound">>]
          /\ result' = [result EXCEPT ![c] = "resolved"]
      BY <1>8, <2>3 DEF BodyIsRead, Emit, Escapes
    <3>2. Agrees(c)'
      BY <1>2, <1>3, <1>4, <2>1, <2>3, <3>1 DEF Agrees
    <3> QED BY <1>1, <1>3, <2>1, <3>1, <3>2, OneCallChanges
  <2> QED BY <1>3, <2>1, <2>2, <2>3
<1>9. CASE ChunkIsRead(c)
  <2>1. /\ Methods[kindOf[c]].streams
        /\ cpc[c] = "body" /\ cpc' = [cpc EXCEPT ![c] = "body"]
        /\ told' = [told EXCEPT ![c] = @ \o <<"inbound">>]
        /\ result' = [result EXCEPT ![c] = result[c]]
        /\ body' = [body EXCEPT ![c] = body[c]] /\ kindOf' = kindOf
    BY <1>4, <1>9 DEF ChunkIsRead, Emit
  <2>2. Agrees(c)'
    BY <2>1 DEF Agrees
  <2> QED BY <1>1, <1>3, <2>1, <2>2, OneCallChanges
<1>10. CASE StreamEnds(c)
  <2>1. /\ Methods[kindOf[c]].streams /\ cpc' = [cpc EXCEPT ![c] = "done"]
        /\ told' = [told EXCEPT ![c] = @ \o <<>>]
        /\ result' = [result EXCEPT ![c] = "resolved"]
        /\ body' = [body EXCEPT ![c] = body[c]] /\ kindOf' = kindOf
    BY <1>3, <1>4, <1>10 DEF StreamEnds, GoCall, busVars
  <2>2. Agrees(c)'
    BY <2>1 DEF Agrees
  <2> QED BY <1>1, <1>3, <2>1, <2>2, OneCallChanges
<1> QED BY <1>5, <1>6, <1>7, <1>8, <1>9, <1>10 DEF Call

\* Subscribing, rendering and clearing do not touch the calls.
LEMMA CallsStepInv == CallsInv /\ [CallsNext]_reqVars => CallsInv'
<1> SUFFICES ASSUME CallsInv, [CallsNext]_reqVars PROVE CallsInv'
  OBVIOUS
<1>1. ASSUME NEW c \in Requests, Call(c) PROVE CallsInv'
  BY <1>1, CallStep
<1>2. CASE \/ \E l \in Listeners : Subscribe(l) \/ Unsubscribe(l)
           \/ Render \/ ClearLogs \/ UNCHANGED reqVars
  <2>1. UNCHANGED <<callVars, told>>
    BY <1>2 DEF Subscribe, Unsubscribe, Render, ClearLogs, busVars, reqVars
  <2> QED BY <2>1 DEF callVars, CallsInv, CallsTypes, Agrees, Caught
<1> QED BY <1>1, <1>2 DEF CallsNext

\* A call is announced first, and told one end, which its caller gets too.
THEOREM ToldOnce == CallsSpec => []CallsAreToldOnce
<1>1. CallsInv => CallsAreToldOnce
  BY DEF CallsInv, CallsTypes, Agrees, Caught, CallsAreToldOnce
<1> QED BY CallsInitInv, CallsStepInv, <1>1, PTL DEF CallsSpec

\* The console: Render applies the updates one after the other.

Updates == Events \cup {Clear}

AppliedTo(rs, us) == FoldLeft(LAMBDA r, u : Applied(u, r), rs, us)

AppliedBy(g, rs, us) ==
  g = [t \in SUBSET DOMAIN us |->
         IF t = {} THEN rs ELSE Applied(us[Max(t)], g[t \ {Max(t)}])]

\* A row more, or none.
LEMMA AppliedType ==
  ASSUME NEW u \in Updates, NEW r \in Seq(Events)
  PROVE  Applied(u, r) \in Seq(Events)
<1>1. MaxShown \in Nat /\ MaxShown > 0 /\ Len(r) \in Nat
  BY ShownAssumption, LenProperties
<1>2. CASE u = Clear
  BY <1>2 DEF Applied
<1>3. CASE u # Clear
  <2>1. u \in Events /\ <<u>> \in Seq(Events)
    BY <1>3 DEF Updates
  <2>2. ~(Len(r) < MaxShown) => SubSeq(r, 1, MaxShown - 1) \in Seq(Events)
    <3> HAVE ~(Len(r) < MaxShown)
    <3>1. \A i \in 1..(MaxShown - 1) : r[i] \in Events
      BY <1>1, ElementOfSeq
    <3> QED BY <1>1, <3>1
  <2> DEFINE k == IF Len(r) < MaxShown THEN r ELSE SubSeq(r, 1, MaxShown - 1)
  <2>3. k \in Seq(Events)
    BY <2>2
  <2>4. Applied(u, r) = <<u>> \o k
    BY <1>3 DEF Applied
  <2> HIDE DEF k
  <2> QED BY <2>1, <2>3, <2>4, ConcatProperties
<1> QED BY <1>2, <1>3

LEMMA AppliedByExists ==
  ASSUME NEW rs \in Seq(Events), NEW us \in Seq(Updates)
  PROVE  \E g : AppliedBy(g, rs, us)
<1> DEFINE N == Len(us)
           A == Seq(Events)
           F == [p \in (1..N) \X A |-> Applied(us[p[1]], p[2])]
<1>1. N \in Nat /\ DOMAIN us = 1..N /\ \A i \in 1..N : us[i] \in Updates
  BY LenProperties, ElementOfSeq
<1>2. \A i \in 1..N, a \in A : F[<<i, a>>] = Applied(us[i], a)
  OBVIOUS
<1>3. \A i \in 1..N, a \in A : F[<<i, a>>] \in A
  BY <1>1, <1>2, AppliedType
<1>4. F \in [(1..N) \X A -> A]
  BY <1>3
<1> HIDE DEF F, A, N
<1>5. PICK g : Folded(g, F, rs, A, N)
  BY <1>1, <1>4, FoldExists DEF A
<1>6. ASSUME NEW t \in SUBSET (1..N)
      PROVE  g[t] = IF t = {} THEN rs ELSE Applied(us[Max(t)], g[t \ {Max(t)}])
  <2>1. g[t] = IF t = {} THEN rs ELSE F[<<Max(t), g[t \ {Max(t)}]>>]
    BY <1>5 DEF Folded
  <2>2. ASSUME t # {} PROVE Max(t) \in 1..N /\ g[t \ {Max(t)}] \in A
    <3>1. Max(t) \in t
      BY <1>1, <2>2, MaxOf
    <3> QED BY <1>5, <3>1 DEF Folded
  <2> QED BY <1>2, <2>1, <2>2
<1>7. g = [t \in SUBSET (1..N) |-> g[t]]
  BY <1>5 DEF Folded
<1>8. g = [t \in SUBSET (1..N) |->
             IF t = {} THEN rs ELSE Applied(us[Max(t)], g[t \ {Max(t)}])]
  BY <1>6, <1>7
<1> QED BY <1>1, <1>8 DEF AppliedBy

LEMMA AppliedSteps ==
  ASSUME NEW rs \in Seq(Events), NEW us \in Seq(Updates)
  PROVE  \E k : /\ k[0] = rs /\ AppliedTo(rs, us) = k[Len(us)]
               /\ \A n \in 1..Len(us) : k[n] = Applied(us[n], k[n - 1])
<1> DEFINE c == CHOOSE g : AppliedBy(g, rs, us)
<1>1. AppliedBy(c, rs, us)
  BY AppliedByExists, Zenon
<1>2. AppliedTo(rs, us) = c[DOMAIN us]
  BY Zenon DEF AppliedTo, FoldLeft, MapThenFoldSet, AppliedBy
<1> HIDE DEF c
<1> DEFINE N == Len(us)
           k == [n \in 0..N |-> c[1..n]]
<1>3. N \in Nat /\ DOMAIN us = 1..N
  BY LenProperties
<1>4. ASSUME NEW t \in SUBSET (1..N)
      PROVE  c[t] = IF t = {} THEN rs ELSE Applied(us[Max(t)], c[t \ {Max(t)}])
  BY <1>1, <1>3, Zenon DEF AppliedBy
<1>5. k[0] = rs
  <2>1. 1..0 = {} /\ 0 \in 0..N /\ {} \in SUBSET (1..N)
    BY <1>3
  <2>2. k[0] = c[1..0]
    BY <2>1
  <2>3. c[{}] = rs
    BY <1>4, <2>1
  <2> HIDE DEF k
  <2> QED BY <2>1, <2>2, <2>3
<1>6. ASSUME NEW n \in 1..N PROVE k[n] = Applied(us[n], k[n - 1])
  <2>1. Max(1..n) = n /\ (1..n) \ {n} = 1..(n - 1)
    BY MaxUpTo
  <2>2. n \in 1..n /\ n \in 0..N /\ n - 1 \in 0..N /\ n \in Nat /\ n <= N
    BY <1>3
  <2>3. 1..n \in SUBSET (1..N) /\ 1..n # {}
    <3>1. ASSUME NEW m \in 1..n PROVE m \in 1..N
      BY <1>3, <2>2
    <3> QED BY <2>2, <3>1
  <2>4. c[1..n] = Applied(us[n], c[1..(n - 1)])
    BY <1>4, <2>1, <2>3
  <2> QED BY <2>2, <2>4
<1>7. AppliedTo(rs, us) = k[N]
  BY <1>2, <1>3
<1> QED BY <1>5, <1>6, <1>7

LEMMA AppliedNone ==
  ASSUME NEW rs \in Seq(Events), NEW us \in Seq(Updates), Len(us) = 0
  PROVE  AppliedTo(rs, us) = rs
<1>1. PICK k : /\ k[0] = rs /\ AppliedTo(rs, us) = k[Len(us)]
               /\ \A n \in 1..Len(us) : k[n] = Applied(us[n], k[n - 1])
  BY AppliedSteps
<1> QED BY <1>1

LEMMA AppliedAppend ==
  ASSUME NEW rs \in Seq(Events), NEW us \in Seq(Updates), NEW u \in Updates
  PROVE  AppliedTo(rs, Append(us, u)) = Applied(u, AppliedTo(rs, us))
<1> DEFINE N == Len(us)
           r == Append(us, u)
<1>1. /\ r \in Seq(Updates) /\ Len(r) = N + 1 /\ N \in Nat
      /\ r[N + 1] = u /\ \A n \in 1..N : r[n] = us[n]
  BY AppendProperties, LenProperties
<1> HIDE DEF r, N
<1>2. PICK k : /\ k[0] = rs /\ AppliedTo(rs, us) = k[N]
               /\ \A n \in 1..N : k[n] = Applied(us[n], k[n - 1])
  BY AppliedSteps DEF N
<1>3. PICK h : /\ h[0] = rs /\ AppliedTo(rs, r) = h[N + 1]
               /\ \A n \in 1..(N + 1) : h[n] = Applied(r[n], h[n - 1])
  <2>1. \E h : /\ h[0] = rs /\ AppliedTo(rs, r) = h[Len(r)]
               /\ \A n \in 1..Len(r) : h[n] = Applied(r[n], h[n - 1])
    BY <1>1, AppliedSteps
  <2> QED BY <1>1, <2>1
<1> DEFINE G == { n \in 0..N : h[n] = k[n] }
<1>4. 0 \in G
  BY <1>1, <1>2, <1>3
<1>5. ASSUME NEW n \in 1..N, n - 1 \in G PROVE n \in G
  <2>1. n \in 1..(N + 1) /\ r[n] = us[n] /\ h[n - 1] = k[n - 1]
    BY <1>1, <1>5
  <2>2. h[n] = k[n]
    BY <1>2, <1>3, <2>1
  <2> QED BY <1>1, <2>2
<1> HIDE DEF G
<1>6. N \in G
  BY <1>1, <1>4, <1>5, UpToInduction
<1>7. h[N] = k[N] /\ N + 1 \in 1..(N + 1) /\ (N + 1) - 1 = N
  BY <1>1, <1>6 DEF G
<1>8. h[N + 1] = Applied(u, h[N])
  BY <1>1, <1>3, <1>7
<1> QED BY <1>2, <1>3, <1>7, <1>8 DEF r

\* The latest events, newest first, as many as the console shows.
Newest(es) ==
  [i \in 1..(IF Len(es) < MaxShown THEN Len(es) ELSE MaxShown) |-> es[Len(es) + 1 - i]]

ConsoleTypes ==
  /\ bus \in Seq(Listeners)
  /\ updates \in Seq(Updates)
  /\ rows \in Seq(Events) /\ Len(rows) <= MaxShown
  /\ latest \in Seq(Events)

\* What the console would show once rendered, which is nothing while it is not
\* mounted.
ConsoleInv ==
  /\ ConsoleTypes
  /\ Console \notin Range(bus) => updates = <<>> /\ rows = <<>> /\ latest = <<>>
  /\ AppliedTo(rows, updates) = Newest(latest)

LEMMA NewestType ==
  ASSUME NEW es \in Seq(Events)
  PROVE  Newest(es) \in Seq(Events) /\ Len(Newest(es)) <= MaxShown
<1> DEFINE n == IF Len(es) < MaxShown THEN Len(es) ELSE MaxShown
<1>1. n \in Nat /\ n <= Len(es) /\ n <= MaxShown
  BY ShownAssumption, LenProperties
<1>2. Newest(es) = [i \in 1..n |-> es[Len(es) + 1 - i]]
  BY DEF Newest
<1> HIDE DEF n
<1>3. ASSUME NEW i \in 1..n PROVE es[Len(es) + 1 - i] \in Events
  <2>1. Len(es) + 1 - i \in 1..Len(es)
    BY <1>1, LenProperties
  <2> QED BY <2>1, ElementOfSeq
<1> QED BY <1>1, <1>2, <1>3

LEMMA NewestOfNone == Newest(<<>>) = <<>>
BY ShownAssumption DEF Newest

\* A new row on top: the last one goes when there are MaxShown.
LEMMA NewestAppend ==
  ASSUME NEW es \in Seq(Events), NEW e \in Events
  PROVE  Applied(e, Newest(es)) = Newest(Append(es, e))
<1> DEFINE r == Newest(es)
           N == Len(es)
           M == MaxShown
           x == Append(es, e)
           k == IF Len(r) < M THEN r ELSE SubSeq(r, 1, M - 1)
           a == <<e>> \o k
           m == IF N < M - 1 THEN N ELSE M - 1
<1>1. N \in Nat /\ M \in Nat /\ M > 0
  BY ShownAssumption, LenProperties
<1>2. e # Clear
  BY DEF Events, Clear
<1>3. Applied(e, r) = a
  BY <1>2 DEF Applied
<1>4. /\ Len(r) = (IF N < M THEN N ELSE M) /\ r \in Seq(Events)
      /\ \A i \in 1..Len(r) : r[i] = es[N + 1 - i]
  BY <1>1, NewestType DEF Newest
<1>5. Len(x) = N + 1 /\ x[N + 1] = e /\ \A i \in 1..N : x[i] = es[i]
  BY AppendProperties
<1>6. m \in Nat /\ m + 1 = (IF N + 1 < M THEN N + 1 ELSE M) /\ m <= N
  BY <1>1
<1> HIDE DEF r, x, N, M
<1>7. k \in Seq(Events) /\ Len(k) = m /\ \A i \in 1..m : k[i] = es[N + 1 - i]
  <2>1. CASE N < M
    BY <1>1, <1>4, <2>1
  <2>2. CASE ~(N < M)
    <3>1. Len(r) = M /\ m = M - 1 /\ k = SubSeq(r, 1, M - 1)
      BY <1>1, <1>4, <2>2
    <3>2. \A i \in 1..(M - 1) : r[i] \in Events
      BY <1>1, <1>4, <3>1, ElementOfSeq
    <3>3. /\ SubSeq(r, 1, M - 1) \in Seq(Events) /\ Len(SubSeq(r, 1, M - 1)) = M - 1
          /\ \A i \in 1..(M - 1) : SubSeq(r, 1, M - 1)[i] = r[i]
      BY <1>1, <3>2
    <3> HIDE DEF k, m
    <3> QED BY <1>1, <1>4, <3>1, <3>3
  <2> QED BY <2>1, <2>2
<1> HIDE DEF k, m
<1>8. /\ a \in Seq(Events) /\ Len(a) = m + 1 /\ a[1] = e
      /\ \A i \in 1..m : a[i + 1] = k[i]
  <2>1. <<e>> \in Seq(Events) /\ Len(<<e>>) = 1 /\ <<e>>[1] = e
    OBVIOUS
  <2>2. a \in Seq(Events) /\ Len(a) = 1 + m
    BY <1>7, <2>1, ConcatProperties
  <2>3. \A i \in 1..(1 + m) : a[i] = IF i <= 1 THEN <<e>>[i] ELSE k[i - 1]
    BY <1>7, <2>1, ConcatProperties
  <2> HIDE DEF a
  <2> QED BY <1>6, <2>1, <2>2, <2>3
<1> HIDE DEF a
<1>9. ASSUME NEW i \in 1..(m + 1) PROVE a[i] = x[Len(x) + 1 - i]
  <2>1. CASE i = 1
    BY <1>1, <1>5, <1>8, <2>1
  <2>2. CASE i # 1
    <3>1. i - 1 \in 1..m /\ (i - 1) + 1 = i /\ N + 1 - (i - 1) \in 1..N
      BY <1>1, <1>6, <2>2
    <3>2. a[i] = es[N + 1 - (i - 1)]
      BY <1>7, <1>8, <3>1
    <3>3. Len(x) + 1 - i = N + 1 - (i - 1)
      BY <1>1, <1>5, <1>6
    <3> QED BY <1>5, <3>1, <3>2, <3>3
  <2> QED BY <2>1, <2>2
<1>10. a = [i \in 1..(m + 1) |-> a[i]]
  BY <1>8, LenProperties
<1>11. a = Newest(x)
  <2>1. (IF Len(x) < MaxShown THEN Len(x) ELSE MaxShown) = m + 1
    BY <1>5, <1>6 DEF M
  <2> QED BY <1>9, <1>10, <2>1 DEF Newest
<1> QED BY <1>3, <1>11 DEF r, x

LEMMA ConsoleInitInv == CallsInit => ConsoleInv
<1> SUFFICES ASSUME CallsInit PROVE ConsoleInv
  OBVIOUS
<1>1. /\ bus = <<>> /\ updates = <<>> /\ rows = <<>> /\ latest = <<>>
      /\ rows \in Seq(Events) /\ updates \in Seq(Updates) /\ Len(rows) = 0 /\ Len(updates) = 0
  BY DEF CallsInit
<1>2. AppliedTo(rows, updates) = rows
  BY <1>1, AppliedNone
<1> QED BY <1>1, <1>2, NewestOfNone, ShownAssumption DEF ConsoleInv, ConsoleTypes

\* One event is emitted, whichever listeners there are.
LEMMA EmitKeeps ==
  ASSUME ConsoleInv, NEW c \in Requests, NEW d \in Directions, Emit(c, <<d>>)
  PROVE  ConsoleInv'
<1> DEFINE e == [call |-> c, direction |-> d]
<1>1. e \in Events /\ e \in Updates
  BY DEF Events, Updates
<1>2. [i \in DOMAIN <<d>> |-> [call |-> c, direction |-> <<d>>[i]]] = <<e>>
  OBVIOUS
<1> HIDE DEF e
<1>3. /\ updates' = IF Console \in ToSet(bus) THEN updates \o <<e>> ELSE updates
      /\ latest' = IF Console \in ToSet(bus) THEN latest \o <<e>> ELSE latest
      /\ rows' = rows
  BY <1>2 DEF Emit, Reached
<1>4. ToSet(bus) = Range(bus) /\ bus \in Seq(Listeners)
  BY DEF ToSet, Range, ConsoleInv, ConsoleTypes
<1>5. bus' \in Seq(Listeners) /\ (Console \in Range(bus') <=> Console \in Range(bus))
  <2>1. PICK left \in SUBSET (Reached(bus) \ {Console}) : bus' = Kept(bus, Listeners \ left)
    BY DEF Emit
  <2> DEFINE L == Listeners \ left
  <2>2. Console \in L /\ bus' = Kept(bus, L)
    BY <2>1, ListenersAssumption
  <2> HIDE DEF L
  <2> QED BY <1>4, <2>2, KeptType
<1>6. /\ updates \in Seq(Updates) /\ rows \in Seq(Events) /\ latest \in Seq(Events)
  BY DEF ConsoleInv, ConsoleTypes
<1>7. CASE Console \notin Range(bus)
  BY <1>3, <1>4, <1>7, <1>5 DEF ConsoleInv, ConsoleTypes
<1>8. CASE Console \in Range(bus)
  <2>1. updates' = Append(updates, e) /\ latest' = Append(latest, e)
    BY <1>1, <1>3, <1>4, <1>6, <1>8, AppendIsConcat
  <2>2. updates' \in Seq(Updates) /\ latest' \in Seq(Events)
    BY <1>1, <1>6, <2>1, AppendProperties
  <2>3. AppliedTo(rows, updates') = Applied(e, AppliedTo(rows, updates))
    BY <1>1, <1>6, <2>1, AppliedAppend
  <2>4. Applied(e, Newest(latest)) = Newest(latest')
    BY <1>1, <1>6, <2>1, NewestAppend
  <2> QED BY <1>3, <1>8, <1>5, <2>2, <2>3, <2>4 DEF ConsoleInv, ConsoleTypes
<1> QED BY <1>7, <1>8

\* A step of a call emits one event or none.
LEMMA CallEmits ==
  ASSUME NEW c \in Requests, Call(c)
  PROVE  UNCHANGED <<bus, updates, rows, latest>> \/ \E d \in Directions : Emit(c, <<d>>)
<1>1. "outbound" \in Directions /\ "inbound" \in Directions /\ "error" \in Directions
  BY DEF Directions
<1>2. CASE BodyIsRead(c)
  BY <1>1, <1>2 DEF BodyIsRead, Escapes
<1>3. CASE ~BodyIsRead(c)
  BY <1>1, <1>3 DEF Call, CallStarts, ResponseComes, CallFails, ChunkIsRead, StreamEnds,
                    busVars, consoleVars
<1> QED BY <1>2, <1>3

LEMMA ConsoleStep == ConsoleInv /\ [CallsNext]_reqVars => ConsoleInv'
<1> SUFFICES ASSUME ConsoleInv, [CallsNext]_reqVars PROVE ConsoleInv'
  OBVIOUS
<1>0. /\ bus \in Seq(Listeners) /\ updates \in Seq(Updates) /\ rows \in Seq(Events)
      /\ latest \in Seq(Events) /\ ToSet(bus) = Range(bus) /\ Clear \in Updates
  BY DEF ConsoleInv, ConsoleTypes, ToSet, Range, Updates
<1>1. ASSUME UNCHANGED <<bus, updates, rows, latest>> PROVE ConsoleInv'
  BY <1>1 DEF ConsoleInv, ConsoleTypes
<1>2. ASSUME NEW c \in Requests, Call(c) PROVE ConsoleInv'
  BY <1>1, <1>2, CallEmits, EmitKeeps
<1>3. ASSUME NEW l \in Listeners, Subscribe(l) PROVE ConsoleInv'
  <2>1. /\ bus' = Append(bus, l) /\ UNCHANGED <<updates, rows, latest>>
    BY <1>3 DEF Subscribe, consoleVars
  <2>2. bus' \in Seq(Listeners) /\ Range(bus') = Range(bus) \cup {l}
    BY <1>0, <2>1, AppendProperties, RangeAppend
  <2> QED BY <2>1, <2>2 DEF ConsoleInv, ConsoleTypes
<1>4. ASSUME NEW l \in Listeners, Unsubscribe(l) PROVE ConsoleInv'
  <2> DEFINE L == Listeners \ {l}
  <2>1. bus' = Kept(bus, L)
    BY <1>4 DEF Unsubscribe
  <2>2. bus' \in Seq(Listeners) /\ Range(bus') = Range(bus) \cap L
    BY <1>0, <2>1, KeptType
  <2>3. CASE l = Console
    <3>1. /\ updates' = <<>> /\ rows' = <<>> /\ latest' = <<>> /\ Len(rows') = 0
          /\ Len(updates') = 0 /\ updates' \in Seq(Updates) /\ rows' \in Seq(Events)
      BY <1>4, <2>3 DEF Unsubscribe
    <3>2. AppliedTo(rows', updates') = rows'
      BY <3>1, AppliedNone
    <3> QED BY <2>2, <3>1, <3>2, NewestOfNone, ShownAssumption DEF ConsoleInv, ConsoleTypes
  <2>4. CASE l # Console
    <3>1. UNCHANGED <<updates, rows, latest>>
      BY <1>4, <2>4 DEF Unsubscribe, consoleVars
    <3>2. Console \in Range(bus') <=> Console \in Range(bus)
      BY <2>2, <2>4, ListenersAssumption
    <3> QED BY <2>2, <3>1, <3>2 DEF ConsoleInv, ConsoleTypes
  <2> QED BY <2>3, <2>4
<1>5. CASE Render
  <2>1. /\ rows' = AppliedTo(rows, updates) /\ updates' = <<>> /\ UNCHANGED <<bus, latest>>
        /\ updates # <<>>
    BY <1>5 DEF Render, AllApplied, AppliedTo, busVars
  <2>2. rows' = Newest(latest) /\ rows' \in Seq(Events) /\ Len(rows') <= MaxShown
    BY <1>0, <2>1, NewestType DEF ConsoleInv
  <2>3. updates' \in Seq(Updates) /\ Len(updates') = 0
    BY <2>1
  <2>4. AppliedTo(rows', updates') = rows'
    BY <2>2, <2>3, AppliedNone
  <2> QED BY <2>1, <2>2, <2>3, <2>4 DEF ConsoleInv, ConsoleTypes
<1>6. CASE ClearLogs
  <2>1. /\ Console \in Range(bus) /\ updates' = Append(updates, Clear) /\ latest' = <<>>
        /\ UNCHANGED <<bus, rows>>
    BY <1>0, <1>6 DEF ClearLogs, busVars
  <2>2. updates' \in Seq(Updates) /\ latest' \in Seq(Events)
    BY <1>0, <2>1, AppendProperties
  <2>3. AppliedTo(rows, updates') = Applied(Clear, AppliedTo(rows, updates))
    BY <1>0, <2>1, AppliedAppend
  <2>4. AppliedTo(rows, updates') = <<>>
    BY <2>3 DEF Applied
  <2> QED BY <2>1, <2>2, <2>4, NewestOfNone DEF ConsoleInv, ConsoleTypes
<1>7. CASE UNCHANGED reqVars
  BY <1>1, <1>7 DEF reqVars, busVars, consoleVars
<1> QED BY <1>2, <1>3, <1>4, <1>5, <1>6, <1>7 DEF CallsNext

\* ConsoleShowsLatest: once rendered, the console shows the latest events since it
\* was mounted or cleared, newest first, MaxShown at most.
THEOREM ConsoleAlwaysShowsLatest == CallsSpec => []ConsoleShowsLatest
<1>1. ConsoleInv => ConsoleShowsLatest
  <2> SUFFICES ASSUME ConsoleInv
               PROVE  LET n == Len(AllApplied)
                      IN  /\ n = IF Len(latest) < MaxShown THEN Len(latest) ELSE MaxShown
                          /\ \A i \in 1..n : AllApplied[i] = latest[Len(latest) + 1 - i]
    BY DEF ConsoleShowsLatest
  <2>1. AllApplied = Newest(latest)
    BY DEF ConsoleInv, AllApplied, AppliedTo
  <2>2. Len(latest) \in Nat
    BY LenProperties DEF ConsoleInv, ConsoleTypes
  <2> QED BY <2>1, <2>2, ShownAssumption DEF Newest
<1> QED BY <1>1, ConsoleInitInv, ConsoleStep, PTL DEF CallsSpec

\* The rest of the types: origin and kinds are given, chunks are bounded.
CallsBounds ==
  /\ sameOrigin \in BOOLEAN
  /\ kindOf \in [Requests -> Kinds]
  /\ chunks \in [Requests -> 0..MaxChunks]

\* CallsTypeOK: the console never shows more than MaxShown rows.
THEOREM CallsTypeCorrect == CallsSpec => []CallsTypeOK
<1>1. CallsInit => CallsBounds
  BY ChunksAssumption DEF CallsInit, CallsBounds
<1>2. CallsBounds /\ [CallsNext]_reqVars => CallsBounds'
  <2> SUFFICES ASSUME CallsBounds, [CallsNext]_reqVars PROVE CallsBounds'
    OBVIOUS
  <2>1. ASSUME NEW c \in Requests, Call(c) PROVE CallsBounds'
    BY <2>1, ChunksAssumption DEF CallsBounds, Call, CallStarts, ResponseComes, CallFails,
       BodyIsRead, ChunkIsRead, StreamEnds
  <2>2. CASE ~\E c \in Requests : Call(c)
    BY <2>2 DEF CallsBounds, CallsNext, Subscribe, Unsubscribe, Render, ClearLogs, callVars,
       reqVars
  <2> QED BY <2>1, <2>2
<1>3. CallsInv /\ ConsoleInv /\ CallsBounds => CallsTypeOK
  BY DEF CallsInv, CallsTypes, ConsoleInv, ConsoleTypes, CallsBounds, CallsTypeOK, Updates
<1> QED BY <1>1, <1>2, <1>3, CallsInitInv, CallsStepInv, ConsoleInitInv, ConsoleStep, PTL
        DEF CallsSpec

-----------------------------------------------------------------------------
(* WSHeartbeat                                                             *)

\* A tick that is to come, or one that has no pong, is due at the latest PingPeriod
\* after the read deadline was set, which is the margin before it passes.
DueInTime(t) == t + PongWait <= readDeadline + PingPeriod

HeartbeatInv ==
  /\ HeartbeatTypeOK
  /\ nextTick <= time + PingPeriod
  /\ DueInTime(nextTick) \/ \E t \in Unanswered : DueInTime(t)
  /\ connection = "silent" => time >= readDeadline

\* Every step keeps it: a tick passes on, or is dropped for an older one.
LEMMA HeartbeatStep ==
  ASSUME HeartbeatInv, [HeartbeatNext]_heartbeatVars
  PROVE  HeartbeatInv'
<1> USE HeartbeatAssumption
    DEF HeartbeatInv, HeartbeatTypeOK, DueInTime, Unanswered, Instants
<1>1. CASE TimePasses
  <2>1. CASE time + 1 = nextTick
    <3>1. /\ time' = nextTick /\ time < MaxNow /\ connection = "open"
          /\ ticker' = (IF ticker = {} THEN {nextTick} ELSE ticker)
          /\ nextTick' = nextTick + PingPeriod
          /\ UNCHANGED <<readDeadline, writing, pings, reader, connection>>
      BY <1>1, <2>1 DEF TimePasses
    <3>2. HeartbeatTypeOK'
      BY <2>1, <3>1
    <3>3. \E t \in Unanswered' : DueInTime(t)'
      <4>1. CASE DueInTime(nextTick)
        <5>1. CASE ticker = {}
          BY <3>1, <4>1, <5>1
        <5>2. CASE ticker # {}
          BY <3>1, <4>1, <5>2
        <5> QED BY <5>1, <5>2
      <4>2. CASE \E t \in Unanswered : DueInTime(t)
        BY <3>1, <4>2
      <4> QED BY <4>1, <4>2
    <3> QED BY <2>1, <3>1, <3>2, <3>3
  <2>2. CASE time + 1 # nextTick
    <3>1. /\ time' = time + 1 /\ time < MaxNow /\ connection = "open"
          /\ UNCHANGED <<readDeadline, nextTick, ticker, writing, pings, reader, connection>>
      BY <1>1, <2>2 DEF TimePasses
    <3>2. HeartbeatTypeOK'
      BY <2>2, <3>1
    <3> QED BY <2>2, <3>1, <3>2
  <2> QED BY <2>1, <2>2
<1>2. CASE MessageWriteHangs
  BY <1>2 DEF MessageWriteHangs
<1>3. CASE PingWriteBegins
  BY <1>3 DEF PingWriteBegins
<1>4. CASE WriteReturns
  <2>1. PICK w \in writing : pings' = pings \cup w.for
    BY <1>4 DEF WriteReturns
  <2>2. HeartbeatTypeOK'
    BY <1>4, <2>1 DEF WriteReturns
  <2>3. Unanswered' = Unanswered
    BY <1>4, <2>1 DEF WriteReturns
  <2> QED BY <1>4, <2>2, <2>3 DEF WriteReturns
<1>5. CASE WriteFails
  BY <1>5 DEF WriteFails
<1>6. CASE PongIsRead
  <2>1. HeartbeatTypeOK'
    <3>1. pings' \subseteq pings
      BY <1>6 DEF PongIsRead
    <3>2. /\ readDeadline' = time + PongWait
          /\ UNCHANGED <<time, nextTick, ticker, writing, reader, connection>>
      BY <1>6 DEF PongIsRead
    <3> QED BY <3>1, <3>2
  <2>2. /\ readDeadline' = time + PongWait
        /\ nextTick' = nextTick /\ time' = time /\ connection' = "open"
    BY <1>6 DEF PongIsRead
  <2>3. DueInTime(nextTick)'
    BY <2>2
  <2> QED BY <2>1, <2>2, <2>3
<1>7. CASE DataIsRead \/ HubTakes
  BY <1>7 DEF DataIsRead, HubTakes
<1>8. CASE ReadTimesOut
  BY <1>8 DEF ReadTimesOut
<1>9. CASE UNCHANGED heartbeatVars
  BY <1>9 DEF heartbeatVars
<1> QED BY <1>1, <1>2, <1>3, <1>4, <1>5, <1>6, <1>7, <1>8, <1>9 DEF HeartbeatNext

\* For all periods: a connection is given up as silent only if a tick is without
\* its pong for PongWait - PingPeriod.
THEOREM SilentClientsAreLate == HeartbeatSpec => [](HeartbeatTypeOK /\ SilentIsLate)
<1>1. HeartbeatInit => HeartbeatInv
  BY HeartbeatAssumption
  DEF HeartbeatInit, HeartbeatInv, HeartbeatTypeOK, DueInTime, Unanswered, Instants
<1>2. HeartbeatInv => HeartbeatTypeOK /\ SilentIsLate
  <2> SUFFICES ASSUME HeartbeatInv, connection = "silent"
               PROVE  \E t \in Unanswered : time - t >= PongWait - PingPeriod
    BY DEF HeartbeatInv, SilentIsLate
  <2>1. \E t \in Unanswered : DueInTime(t)
    BY HeartbeatAssumption DEF HeartbeatInv, HeartbeatTypeOK, DueInTime, Instants
  <2>2. \A t \in Unanswered : t \in Nat
    BY DEF HeartbeatInv, HeartbeatTypeOK, Unanswered, Instants
  <2> QED BY <2>1, <2>2, HeartbeatAssumption
          DEF HeartbeatInv, HeartbeatTypeOK, DueInTime, Instants
<1> QED BY <1>1, <1>2, HeartbeatStep, PTL DEF HeartbeatSpec

-----------------------------------------------------------------------------
(* WSAdapter                                                               *)

\* What a socket's state says of the promise that its connect() returned.
PromiseFollows ==
  \A s \in Sockets :
    /\ ready[s] = "none" <=> promise[s] = "none"
    /\ ready[s] = "connecting" => promise[s] = "pending"
    /\ ready[s] \in {"failed", "over"} => promise[s] \in {"resolved", "rejected"}

\* Two sockets that live together overlap, a socket that does not is the adapter's,
\* and while none that overlaps lives the fields are about the one that does.
OverlapsKnown ==
  /\ \A s, t \in Sockets : Pending(s) /\ Pending(t) /\ s # t => s \in overlapped
  /\ \A s \in Sockets :
       ready[s] \in {"connecting", "open"} => s \in socket \cup overlapped
  /\ \A o \in odd : o[1] = "lost" \/ o[2] \in overlapped

Calm == \A s \in overlapped : ~Pending(s)

FieldsAgree ==
  /\ \A s \in socket : Pending(s)
  /\ isConnected <=> \E s \in socket : promise[s] = "resolved"

WSInv == WSTypeOK /\ PromiseFollows /\ OverlapsKnown /\ (Calm => FieldsAgree)

USE DEF Pending

\* It holds to begin with.
LEMMA WSInitInv == WSInit => WSInv
BY DEF WSInit, WSInv, WSTypeOK, PromiseFollows, OverlapsKnown, Calm, FieldsAgree

\* Types, and the promise follows the socket, step by step.
LEMMA WSStepType ==
  ASSUME WSTypeOK, PromiseFollows, [WSNext]_wsVars
  PROVE  WSTypeOK' /\ PromiseFollows'
<1> USE DEF WSTypeOK, PromiseFollows
<1>1. CASE SendDirect BY <1>1 DEF SendDirect
<1>2. CASE WSDisconnect BY <1>2 DEF WSDisconnect
<1>3. ASSUME NEW s \in Sockets, WSConnect(s) PROVE WSTypeOK' /\ PromiseFollows'
  BY <1>3 DEF WSConnect, Overlaps
<1>4. ASSUME NEW s \in Sockets, OnOpen(s) PROVE WSTypeOK' /\ PromiseFollows'
  BY <1>4 DEF OnOpen
<1>5. ASSUME NEW s \in Sockets, OnMessage(s) PROVE WSTypeOK' /\ PromiseFollows'
  BY <1>5 DEF OnMessage
<1>6. ASSUME NEW s \in Sockets, PeerCloses(s) PROVE WSTypeOK' /\ PromiseFollows'
  BY <1>6 DEF PeerCloses
<1>7. ASSUME NEW s \in Sockets, OnError(s) PROVE WSTypeOK' /\ PromiseFollows'
  BY <1>7 DEF OnError
<1>8. ASSUME NEW s \in Sockets, OnClose(s) PROVE WSTypeOK' /\ PromiseFollows'
  BY <1>8 DEF OnClose
<1>9. CASE UNCHANGED wsVars BY <1>9 DEF wsVars
<1> QED BY <1>1, <1>2, <1>3, <1>4, <1>5, <1>6, <1>7, <1>8, <1>9 DEF WSNext

\* What is shown of a socket, and which one the field holds, step by step.
LEMMA WSStepOverlaps == WSInv /\ [WSNext]_wsVars => OverlapsKnown'
<1> SUFFICES ASSUME WSInv, [WSNext]_wsVars PROVE OverlapsKnown'
  OBVIOUS
<1> USE DEF WSInv, WSTypeOK, PromiseFollows, OverlapsKnown
<1>1. CASE SendDirect
  <2>1. ASSUME NEW s \in socket, ready[s] = "connecting" PROVE s \in overlapped
    BY <1>1, <2>1 DEF SendDirect, Calm, FieldsAgree
  <2> QED BY <1>1, <2>1 DEF SendDirect
<1>2. CASE WSDisconnect BY <1>2 DEF WSDisconnect
<1>3. ASSUME NEW s \in Sockets, WSConnect(s) PROVE OverlapsKnown'
  <2>1. \A t \in Sockets : Pending(t) => {s, t} \subseteq overlapped'
    BY <1>3 DEF WSConnect, Overlaps
  <2>2. overlapped \subseteq overlapped' /\ odd' = odd /\ socket' = {s}
    BY <1>3 DEF WSConnect
  <2>3. \A t \in Sockets : Pending(t)' => t = s \/ Pending(t)
    BY <1>3 DEF WSConnect
  <2>4. \A t \in Sockets :
          ready'[t] \in {"connecting", "open"} => t = s \/ Pending(t)
    BY <2>3
  <2> HIDE DEF Pending
  <2> QED BY <2>1, <2>2, <2>3, <2>4
<1>4. ASSUME NEW s \in Sockets, OnOpen(s) PROVE OverlapsKnown'
  BY <1>4 DEF OnOpen
<1>5. ASSUME NEW s \in Sockets, OnMessage(s) PROVE OverlapsKnown'
  BY <1>5 DEF OnMessage
<1>6. ASSUME NEW s \in Sockets, PeerCloses(s) PROVE OverlapsKnown'
  BY <1>6 DEF PeerCloses
<1>7. ASSUME NEW s \in Sockets, OnError(s) PROVE OverlapsKnown'
  BY <1>7 DEF OnError
<1>8. ASSUME NEW s \in Sockets, OnClose(s) PROVE OverlapsKnown'
  BY <1>8 DEF OnClose
<1>9. CASE UNCHANGED wsVars BY <1>9 DEF wsVars
<1> QED BY <1>1, <1>2, <1>3, <1>4, <1>5, <1>6, <1>7, <1>8, <1>9 DEF WSNext

\* While no socket that overlaps lives, one lives at most; and the last callback of the
\* last that does clears the fields.
LEMMA WSStepFields == WSInv /\ [WSNext]_wsVars => (Calm => FieldsAgree)'
<1> SUFFICES ASSUME WSInv, [WSNext]_wsVars, Calm' PROVE FieldsAgree'
  OBVIOUS
<1> USE DEF WSInv, WSTypeOK, PromiseFollows, OverlapsKnown
<1>1. ASSUME NEW s \in Sockets, OnClose(s) PROVE FieldsAgree'
  BY <1>1 DEF OnClose, FieldsAgree
<1>2. ASSUME \A s \in Sockets : ~OnClose(s) PROVE Calm
  <2>1. overlapped \subseteq overlapped' /\ \A s \in Sockets : Pending(s) => Pending(s)'
    BY <1>2 DEF WSNext, SendDirect, WSDisconnect, WSConnect, OnOpen, OnMessage,
           PeerCloses, OnError, wsVars
  <2> QED BY <2>1 DEF Calm
<1> USE DEF Calm, FieldsAgree
<1>3. CASE SendDirect BY <1>2, <1>3 DEF SendDirect, OnClose
<1>4. CASE WSDisconnect BY <1>4 DEF WSDisconnect
<1>5. ASSUME NEW s \in Sockets, WSConnect(s) PROVE FieldsAgree'
  BY <1>5 DEF WSConnect, Overlaps
<1>6. ASSUME NEW s \in Sockets, OnOpen(s) PROVE FieldsAgree'
  BY <1>6 DEF OnOpen
<1>7. ASSUME NEW s \in Sockets, OnMessage(s) PROVE FieldsAgree'
  BY <1>7 DEF OnMessage
<1>8. ASSUME NEW s \in Sockets, PeerCloses(s) PROVE FieldsAgree'
  BY <1>8 DEF PeerCloses
<1>9. ASSUME NEW s \in Sockets, OnError(s) PROVE FieldsAgree'
  BY <1>9 DEF OnError
<1>10. CASE UNCHANGED wsVars BY <1>10 DEF wsVars
<1> QED BY <1>1, <1>3, <1>4, <1>5, <1>6, <1>7, <1>8, <1>9, <1>10 DEF WSNext

\* The harm that overlapping sockets do stays among them, and ends with the last of
\* them; the promise of a socket that is over is settled, also of one that overlapped.
THEOREM WSAdapterSafe ==
  WSSpec => [](WSTypeOK /\ FieldsMirrorSocket /\ PromiseSettled)
<1>1. WSInv /\ [WSNext]_wsVars => WSInv'
  BY WSStepType, WSStepOverlaps, WSStepFields DEF WSInv
<1>2. WSInv => WSTypeOK /\ FieldsMirrorSocket /\ PromiseSettled
  BY DEF WSInv, PromiseFollows, OverlapsKnown, Calm, FieldsAgree, FieldsMirrorSocket,
         PromiseSettled
<1> QED BY WSInitInv, <1>1, <1>2, PTL DEF WSSpec

-----------------------------------------------------------------------------
(* WebRTC                                                                  *)

\* HandleOffer is past registering its peer.
Registered(k) == hs[k] \in {"remote", "answer", "local", "done", "refused"}

\* A call that has begun has made its connection.
MadeWhenBegun == \A k \in Connects : step[k] # "idle" => sig[k] # "none"

\* Two calls have been at an await together.
Mixed(j, k) == j = k \/ {j, k} \subseteq overlap

\* What a call at an await finds in this.pc, and the connection that its answer goes
\* to, are its own, or those of a call that it overlaps with.
AwaitsMix ==
  \A k \in Connects : AtAwait(k) =>
    /\ \A j \in pc : Mixed(j, k)
    /\ step[k] = "remote" => \A j \in target[k] : Mixed(j, k)

\* An answer comes from an offer that was handled.  A peer's stored connection is one
\* that the peer offered, and another offer of it was superseded.
OffersHandled ==
  /\ \A k \in Connects :
       /\ step[k] = "idle" => hs[k] = "idle"
       /\ step[k] = "remote" => hs[k] = "done"
       /\ \A j \in answerOf[k] : hs[j] = "done"
  /\ \A p \in Peers : \A i \in connections[p] : hs[i] # "idle" /\ peer[i] = p
  /\ \A k \in Clients :
       /\ Registered(k) => peer[k] \in DOMAIN peers
       /\ hs[k] # "idle" => \E i \in connections[peer[k]] : i = k \/ k \in superseded

\* Nothing comes over a channel before its offer is answered.
SilentBefore ==
  \A k \in Clients : hs[k] # "done" =>
    chan[k] = "none" /\ texts[k] = 0 /\ echoes[k] = 0 /\ om[k] = "idle"

\* The count of an entry is at least that of the offer that made it...
CountsNewest ==
  \A p \in Peers : \A i \in newest[p] :
    Registered(i) /\ peer[i] = p /\ peers[p].messageCount >= Handled(i)

\* ... and at most that of all the connections of the peer.
CountsNoneTwice == \A p \in DOMAIN peers : peers[p].messageCount <= HandledFor(p)

RTCInv ==
  /\ RTCTypeOK /\ MadeWhenBegun /\ LiveIsHeld /\ OffersHandled
  /\ SilentBefore /\ CountsNewest /\ CountsNoneTwice
  /\ AwaitsMix /\ OnlyOverlapMixes

USE DEF rtcVars, adapterVars, handlerVars, channelVars, Clients, Peers
USE ClientsAssumption, TextsAssumption

\* It holds to begin with.
LEMMA RTCInitInv == RTCInit => RTCInv
<1> SUFFICES ASSUME RTCInit PROVE RTCInv
  OBVIOUS
<1>1. IsRegistry(peers, Peers, {"webrtc"})
  BY DEF RTCInit, IsRegistry, NewConnectionRegistry
<1>2. RTCTypeOK
  <2>1. /\ pc \subseteq Connects /\ \A j, k \in pc : j = k
        /\ rtcConnected \in BOOLEAN
        /\ step \in [Connects ->
             {"idle", "offer", "local", "fetch", "remote", "done", "failed"}]
        /\ target \in [Connects -> SUBSET Connects]
        /\ sig \in [Connects -> {"none", "stable", "offered", "answered", "closed"}]
        /\ answerOf \in [Connects -> SUBSET Connects]
    BY DEF RTCInit
  <2>2. /\ hs \in [Clients ->
             {"idle", "add", "remote", "answer", "local", "done", "refused"}]
        /\ peer \in [Clients -> Peers]
        /\ connections \in [Peers -> SUBSET Clients]
        /\ channels \in [Peers -> SUBSET Clients]
        /\ carried \subseteq Ends
    BY DEF RTCInit
  <2>3. /\ chan \in [Clients -> {"none", "open", "closed"}]
        /\ om \in [Clients -> {"idle", "track", "echo"}]
        /\ echoes \in [Clients -> Nat]
        /\ rtcTracker \in Nat
        /\ overlap \subseteq Connects /\ replaced \subseteq Connects
        /\ superseded \subseteq Clients
        /\ newest \in [Peers -> SUBSET Clients]
    BY DEF RTCInit
  <2>4. 0 \in 0..MaxTexts
    OBVIOUS
  <2>5. texts \in [Clients -> 0..MaxTexts]
    BY <2>4 DEF RTCInit
  <2> QED BY <1>1, <2>1, <2>2, <2>3, <2>5 DEF RTCTypeOK
<1>3. MadeWhenBegun /\ LiveIsHeld /\ OffersHandled /\ SilentBefore
  BY DEF RTCInit, MadeWhenBegun, LiveIsHeld, OffersHandled, SilentBefore, Registered
<1>4. CountsNewest /\ CountsNoneTwice
  BY DEF RTCInit, CountsNewest, CountsNoneTwice, NewConnectionRegistry
<1>5. AwaitsMix /\ OnlyOverlapMixes
  BY DEF RTCInit, AwaitsMix, OnlyOverlapMixes, AtAwait
<1> QED BY <1>2, <1>3, <1>4, <1>5 DEF RTCInv

\* The steps of RTCNext in three groups: those of connect() and disconnect(),
\* of HandleOffer, of the channel.
AdapterStep ==
  \/ \E k \in Connects :
       \/ \E p \in PeerIDs : RTCConnect(k, p)
       \/ OfferMade(k) \/ LocalSet(k) \/ AnswerArrives(k) \/ RemoteSet(k)
       \/ FetchFails(k) \/ ClosedRejects(k)
  \/ RTCDisconnect
HandlerStep == \E k \in Clients : HandleOffer(k) \/ RefuseOffer(k)
ChannelStep ==
  \E k \in Clients :
    ChannelOpens(k) \/ ChannelCloses(k) \/ SendText(k) \/ OnMessageText(k)

\* Together they are RTCNext.
LEMMA RTCSteps == RTCNext <=> AdapterStep \/ HandlerStep \/ ChannelStep
BY DEF RTCNext, AdapterStep, HandlerStep, ChannelStep, ConnectGoesOn

\* Types are kept.
LEMMA RTCTypeStep == RTCTypeOK /\ [RTCNext]_rtcVars => RTCTypeOK'
<1> SUFFICES ASSUME RTCTypeOK, [RTCNext]_rtcVars PROVE RTCTypeOK'
  OBVIOUS
<1> USE DEF RTCTypeOK, Ends
<1>1. CASE AdapterStep
  <2>1. ASSUME NEW k \in Connects, NEW p \in PeerIDs, RTCConnect(k, p) PROVE RTCTypeOK'
    BY <2>1 DEF RTCConnect, GoConnect, AwaitTogether
  <2>2. ASSUME NEW k \in Connects, OfferMade(k) PROVE RTCTypeOK'
    BY <2>2 DEF OfferMade, GoConnect
  <2>3. ASSUME NEW k \in Connects, LocalSet(k) PROVE RTCTypeOK'
    BY <2>3 DEF LocalSet, GoConnect
  <2>4. ASSUME NEW k \in Connects, AnswerArrives(k) PROVE RTCTypeOK'
    BY <2>4 DEF AnswerArrives, GoConnect
  <2>5. ASSUME NEW k \in Connects, RemoteSet(k) PROVE RTCTypeOK'
    BY <2>5 DEF RemoteSet, GoConnect
  <2>6. ASSUME NEW k \in Connects, FetchFails(k) PROVE RTCTypeOK'
    BY <2>6 DEF FetchFails, GoConnect
  <2>7. ASSUME NEW k \in Connects, ClosedRejects(k) PROVE RTCTypeOK'
    BY <2>7 DEF ClosedRejects
  <2>8. CASE RTCDisconnect
    BY <2>8 DEF RTCDisconnect, CloseChannels
  <2> QED BY <1>1, <2>1, <2>2, <2>3, <2>4, <2>5, <2>6, <2>7, <2>8 DEF AdapterStep
<1>2. CASE HandlerStep
  <2>1. ASSUME NEW k \in Clients, NEW p \in PeerIDs \cup {k}, StoreConnection(k, p)
        PROVE RTCTypeOK'
    BY <2>1 DEF StoreConnection, GoOffer
  <2>2. ASSUME NEW k \in Clients, RegisterPeer(k) PROVE RTCTypeOK'
    <3>1. IsRegistry(peers', Peers, {"webrtc"})
      BY <2>2, AddClientType DEF RegisterPeer
    <3> QED BY <2>2, <3>1 DEF RegisterPeer, GoOffer
  <2>3. ASSUME NEW k \in Clients, ApplyOffer(k) \/ CreateAnswer(k) \/ SendAnswer(k)
        PROVE RTCTypeOK'
    BY <2>3 DEF ApplyOffer, CreateAnswer, SendAnswer, GoOffer
  <2>4. ASSUME NEW k \in Clients, RefuseOffer(k) PROVE RTCTypeOK'
    BY <2>4 DEF RefuseOffer
  <2> QED BY <1>2, <2>1, <2>2, <2>3, <2>4 DEF HandlerStep, HandleOffer
<1>3. CASE ChannelStep
  <2>1. ASSUME NEW k \in Clients, ChannelOpens(k) PROVE RTCTypeOK'
    BY <2>1 DEF ChannelOpens
  <2>2. ASSUME NEW k \in Clients, ChannelCloses(k) PROVE RTCTypeOK'
    BY <2>2 DEF ChannelCloses, CloseChannels
  <2>3. ASSUME NEW k \in Clients, SendText(k) PROVE RTCTypeOK'
    BY <2>3 DEF SendText
  <2>4. ASSUME NEW k \in Clients, OnText(k) PROVE RTCTypeOK'
    <3>1. IsRegistry(peers', Peers, {"webrtc"})
      BY <2>4, RecordMessageType DEF OnText
    <3> QED BY <2>4, <3>1 DEF OnText, GoMessage
  <2>5. ASSUME NEW k \in Clients, TrackText(k) PROVE RTCTypeOK'
    BY <2>5 DEF TrackText, GoMessage
  <2>6. ASSUME NEW k \in Clients, EchoText(k) PROVE RTCTypeOK'
    BY <2>6 DEF EchoText, GoMessage
  <2> QED BY <1>3, <2>1, <2>2, <2>3, <2>4, <2>5, <2>6 DEF ChannelStep, OnMessageText
<1>4. CASE UNCHANGED rtcVars
  BY <1>4
<1> QED BY <1>1, <1>2, <1>3, <1>4, RTCSteps

\* Only a new connect() lets this.pc go without closing it.
LEMMA HeldStep ==
  ASSUME RTCTypeOK, MadeWhenBegun, LiveIsHeld, [RTCNext]_rtcVars
  PROVE  MadeWhenBegun' /\ LiveIsHeld'
<1> USE DEF RTCTypeOK, MadeWhenBegun, LiveIsHeld
<1>1. CASE AdapterStep
  <2>1. ASSUME NEW k \in Connects, NEW p \in PeerIDs, RTCConnect(k, p)
        PROVE  MadeWhenBegun' /\ LiveIsHeld'
    BY <2>1 DEF RTCConnect, GoConnect
  <2>2. ASSUME NEW k \in Connects,
               OfferMade(k) \/ AnswerArrives(k) \/ FetchFails(k) \/ ClosedRejects(k)
        PROVE  MadeWhenBegun' /\ LiveIsHeld'
    <3>1. sig[k] # "none" /\ UNCHANGED <<pc, sig, replaced>>
      BY <2>2 DEF OfferMade, AnswerArrives, FetchFails, ClosedRejects, GoConnect
    <3>2. \A j \in Connects : j # k => step'[j] = step[j]
      BY <2>2 DEF OfferMade, AnswerArrives, FetchFails, ClosedRejects, GoConnect
    <3> QED BY <3>1, <3>2
  <2>3. ASSUME NEW k \in Connects, LocalSet(k) PROVE MadeWhenBegun' /\ LiveIsHeld'
    BY <2>3 DEF LocalSet, GoConnect
  <2>4. ASSUME NEW k \in Connects, RemoteSet(k) PROVE MadeWhenBegun' /\ LiveIsHeld'
    BY <2>4 DEF RemoteSet, GoConnect
  <2>5. CASE RTCDisconnect
    BY <2>5 DEF RTCDisconnect
  <2> QED BY <1>1, <2>1, <2>2, <2>3, <2>4, <2>5 DEF AdapterStep
<1>2. CASE HandlerStep
  <2>1. UNCHANGED <<pc, step, sig, replaced>>
    BY <1>2 DEF HandlerStep, HandleOffer, RefuseOffer, StoreConnection, RegisterPeer,
           ApplyOffer, CreateAnswer, SendAnswer
  <2> QED BY <2>1
<1>3. CASE ChannelStep
  <2>1. UNCHANGED <<pc, step, sig, replaced>>
    BY <1>3 DEF ChannelStep, ChannelOpens, ChannelCloses, SendText, OnMessageText,
           OnText, TrackText, EchoText
  <2> QED BY <2>1
<1>4. CASE UNCHANGED rtcVars
  BY <1>4
<1> QED BY <1>1, <1>2, <1>3, <1>4, RTCSteps

\* A call at an await finds its own connection in this.pc, none, or that of a call
\* that has begun since.
LEMMA AwaitStep ==
  ASSUME RTCTypeOK, AwaitsMix, OnlyOverlapMixes, [RTCNext]_rtcVars
  PROVE  AwaitsMix' /\ OnlyOverlapMixes'
<1> USE DEF RTCTypeOK, AtAwait, AwaitsMix, OnlyOverlapMixes, Mixed
<1>1. CASE AdapterStep
  <2>1. ASSUME NEW k \in Connects, NEW p \in PeerIDs, RTCConnect(k, p)
        PROVE  AwaitsMix' /\ OnlyOverlapMixes'
    <3>1. /\ pc' = {k} /\ step' = [step EXCEPT ![k] = "offer"]
          /\ overlap \subseteq overlap'
          /\ UNCHANGED <<target, answerOf>>
      BY <2>1 DEF RTCConnect, GoConnect
    <3>2. \A j \in Connects : AtAwait(j) => {j, k} \subseteq overlap'
      BY <2>1 DEF RTCConnect, AwaitTogether
    <3> QED BY <3>1, <3>2
  <2>2. ASSUME NEW k \in Connects, OfferMade(k) \/ FetchFails(k) \/ ClosedRejects(k)
        PROVE  AwaitsMix' /\ OnlyOverlapMixes'
    BY <2>2 DEF OfferMade, FetchFails, ClosedRejects, GoConnect
  <2>3. ASSUME NEW k \in Connects, LocalSet(k) PROVE AwaitsMix' /\ OnlyOverlapMixes'
    BY <2>3 DEF LocalSet, GoConnect
  <2>4. ASSUME NEW k \in Connects, AnswerArrives(k)
        PROVE  AwaitsMix' /\ OnlyOverlapMixes'
    BY <2>4 DEF AnswerArrives, GoConnect
  <2>5. ASSUME NEW k \in Connects, RemoteSet(k) PROVE AwaitsMix' /\ OnlyOverlapMixes'
    BY <2>5 DEF RemoteSet, GoConnect
  <2>6. CASE RTCDisconnect
    BY <2>6 DEF RTCDisconnect
  <2> QED BY <1>1, <2>1, <2>2, <2>3, <2>4, <2>5, <2>6 DEF AdapterStep
<1>2. CASE HandlerStep \/ ChannelStep \/ UNCHANGED rtcVars
  <2>1. UNCHANGED <<pc, step, target, answerOf, overlap>>
    BY <1>2 DEF HandlerStep, HandleOffer, RefuseOffer, StoreConnection, RegisterPeer,
           ApplyOffer, CreateAnswer, SendAnswer, ChannelStep, ChannelOpens,
           ChannelCloses, SendText, OnMessageText, OnText, TrackText, EchoText
  <2> QED BY <2>1
<1> QED BY <1>1, <1>2, RTCSteps

\* An answer has been through the handler, whose entries stay.
LEMMA HandledStep ==
  ASSUME RTCTypeOK, OffersHandled, [RTCNext]_rtcVars
  PROVE  OffersHandled'
<1> USE DEF RTCTypeOK, OffersHandled, Registered
<1>1. CASE AdapterStep
  <2>1. ASSUME NEW k \in Connects, NEW p \in PeerIDs, RTCConnect(k, p)
        PROVE  OffersHandled'
    BY <2>1 DEF RTCConnect, GoConnect
  <2>2. ASSUME NEW k \in Connects,
               OfferMade(k) \/ LocalSet(k) \/ FetchFails(k) \/ ClosedRejects(k)
        PROVE  OffersHandled'
    BY <2>2 DEF OfferMade, LocalSet, FetchFails, ClosedRejects, GoConnect
  <2>3. ASSUME NEW k \in Connects, AnswerArrives(k) PROVE OffersHandled'
    BY <2>3 DEF AnswerArrives, GoConnect
  <2>4. ASSUME NEW k \in Connects, RemoteSet(k) PROVE OffersHandled'
    <3>1. step[k] = "remote" /\ UNCHANGED <<hs, peer, connections, superseded, peers>>
      BY <2>4 DEF RemoteSet, GoConnect
    <3>2. hs[k] = "done"
      BY <3>1
    <3>3. ASSUME NEW j \in Connects
          PROVE  /\ step'[j] = "idle" => hs'[j] = "idle"
                 /\ step'[j] = "remote" => hs'[j] = "done"
                 /\ \A i \in answerOf'[j] : hs'[i] = "done"
      <4>1. step'[j] = step[j] \/ step'[j] \in {"done", "failed"}
        BY <2>4 DEF RemoteSet, GoConnect
      <4>2. answerOf'[j] \in {answerOf[j], {k}}
        BY <2>4 DEF RemoteSet
      <4> QED BY <3>1, <3>2, <4>1, <4>2
    <3> QED BY <3>1, <3>3
  <2>5. CASE RTCDisconnect
    BY <2>5 DEF RTCDisconnect
  <2> QED BY <1>1, <2>1, <2>2, <2>3, <2>4, <2>5 DEF AdapterStep
<1>2. CASE HandlerStep
  <2>1. ASSUME NEW k \in Clients, NEW p \in PeerIDs \cup {k}, StoreConnection(k, p)
        PROVE  OffersHandled'
    <3>1. /\ hs[k] = "idle" /\ hs' = [hs EXCEPT ![k] = "add"]
          /\ p \in Peers /\ peer' = [peer EXCEPT ![k] = p]
          /\ connections' = [connections EXCEPT ![p] = {k}]
          /\ superseded' = superseded \cup connections[p]
          /\ UNCHANGED <<step, answerOf, peers>>
      BY <2>1 DEF StoreConnection, GoOffer
    <3>2. \A j \in Connects :
             /\ step[j] = "idle" => hs'[j] = "idle"
             /\ step[j] = "remote" => hs'[j] = "done"
             /\ \A i \in answerOf[j] : hs'[i] = "done"
      BY <2>1, <3>1 DEF StoreConnection
    <3>3. ASSUME NEW j \in Clients, hs'[j] # "idle"
          PROVE  \E i \in connections'[peer'[j]] : i = j \/ j \in superseded'
      <4>1. CASE j = k
        BY <3>1, <4>1
      <4>2. CASE j # k
        <5>1. hs[j] # "idle" /\ peer'[j] = peer[j] /\ peer[j] \in Peers
          BY <3>1, <3>3, <4>2
        <5>2. PICK i \in connections[peer[j]] : i = j \/ j \in superseded
          BY <5>1
        <5>3. CASE peer[j] = p
          <6>1. j \in superseded' /\ connections'[p] = {k}
            BY <3>1, <5>1, <5>2, <5>3
          <6> QED BY <5>1, <5>3, <6>1
        <5>4. CASE peer[j] # p
          BY <3>1, <5>1, <5>2, <5>4
        <5> QED BY <5>3, <5>4
      <4> QED BY <4>1, <4>2
    <3>5. ASSUME NEW q \in Peers, NEW i \in connections'[q]
          PROVE  hs'[i] # "idle" /\ peer'[i] = q
      BY <3>1, <3>5
    <3>4. \A j \in Clients : Registered(j)' => peer'[j] \in DOMAIN peers'
      BY <3>1
    <3> QED BY <3>1, <3>2, <3>3, <3>4, <3>5
  <2>2. ASSUME NEW k \in Clients, RegisterPeer(k) PROVE OffersHandled'
    BY <2>2 DEF RegisterPeer, GoOffer, AddClient
  <2>3. ASSUME NEW k \in Clients,
               ApplyOffer(k) \/ CreateAnswer(k) \/ SendAnswer(k) \/ RefuseOffer(k)
        PROVE  OffersHandled'
    <3>1. /\ UNCHANGED <<step, answerOf, peer, connections, superseded, peers>>
          /\ hs[k] \in {"remote", "answer", "local"}
          /\ \E to \in {"answer", "local", "done", "refused"} :
               hs' = [hs EXCEPT ![k] = to]
      BY <2>3 DEF ApplyOffer, CreateAnswer, SendAnswer, RefuseOffer, GoOffer,
             adapterVars, channelVars
    <3>2. \A j \in Clients : (hs'[j] = "idle" <=> hs[j] = "idle")
      BY <3>1
    <3>3. \A j \in Clients : hs[j] = "done" => hs'[j] = "done"
      BY <3>1
    <3>4. \A j \in Clients : Registered(j)' => Registered(j)
      BY <3>1
    <3> QED BY <3>1, <3>2, <3>3, <3>4
  <2> QED BY <1>2, <2>1, <2>2, <2>3 DEF HandlerStep, HandleOffer
<1>3. CASE ChannelStep
  <2>1. UNCHANGED <<step, answerOf, hs, peer, connections, superseded>>
    BY <1>3 DEF ChannelStep, ChannelOpens, ChannelCloses, SendText, OnMessageText,
           OnText, TrackText, EchoText
  <2>2. DOMAIN peers' = DOMAIN peers
    BY <1>3, RecordMessageType DEF ChannelStep, ChannelOpens, ChannelCloses, SendText,
           OnMessageText, OnText, TrackText, EchoText
  <2> QED BY <2>1, <2>2
<1>4. CASE UNCHANGED rtcVars
  BY <1>4
<1> QED BY <1>1, <1>2, <1>3, <1>4, RTCSteps

\* A channel that nothing was answered for stays silent.
LEMMA SilentStep ==
  ASSUME RTCTypeOK, OffersHandled, SilentBefore, [RTCNext]_rtcVars
  PROVE  SilentBefore'
<1> USE DEF RTCTypeOK, SilentBefore
<1>1. CASE AdapterStep
  <2>1. UNCHANGED <<hs, texts, om, echoes>>
    BY <1>1 DEF AdapterStep, RTCConnect, OfferMade, LocalSet, AnswerArrives, RemoteSet,
           FetchFails, ClosedRejects, RTCDisconnect
  <2>2. \A k \in Clients : chan[k] = "none" => chan'[k] = "none"
    BY <1>1 DEF AdapterStep, RTCConnect, OfferMade, LocalSet, AnswerArrives,
           RemoteSet, FetchFails, ClosedRejects, RTCDisconnect, CloseChannels
  <2> QED BY <2>1, <2>2
<1>2. CASE HandlerStep
  <2>1. UNCHANGED <<chan, texts, om, echoes>>
    BY <1>2 DEF HandlerStep, HandleOffer, RefuseOffer, StoreConnection, RegisterPeer,
           ApplyOffer, CreateAnswer, SendAnswer
  <2>2. \A k \in Clients : hs[k] = "done" => hs'[k] = "done"
    BY <1>2 DEF HandlerStep, HandleOffer, RefuseOffer, StoreConnection, RegisterPeer,
           ApplyOffer, CreateAnswer, SendAnswer, GoOffer
  <2> QED BY <2>1, <2>2
<1>3. CASE ChannelStep
  <2>1. ASSUME NEW k \in Clients, ChannelOpens(k) PROVE SilentBefore'
    BY <2>1 DEF ChannelOpens, CanOpen
  <2>2. ASSUME NEW k \in Clients, ChannelCloses(k) PROVE SilentBefore'
    BY <2>2 DEF ChannelCloses, CloseChannels
  <2>3. ASSUME NEW k \in Clients, SendText(k) PROVE SilentBefore'
    BY <2>3 DEF SendText
  <2>4. ASSUME NEW k \in Clients, OnMessageText(k) PROVE SilentBefore'
    BY <2>4 DEF OnMessageText, OnText, TrackText, EchoText, GoMessage
  <2> QED BY <1>3, <2>1, <2>2, <2>3, <2>4 DEF ChannelStep
<1>4. CASE UNCHANGED rtcVars
  BY <1>4
<1> QED BY <1>1, <1>2, <1>3, <1>4, RTCSteps

\* The summands of HandledFor(p).
Share(p) == [k \in Clients |-> IF peer[k] = p THEN Handled(k) ELSE 0]

\* They are numbers, and so is their sum.
LEMMA HandledType ==
  ASSUME RTCTypeOK
  PROVE  /\ \A k \in Clients : Handled(k) \in Nat
         /\ \A p : \A k \in Clients : Share(p)[k] \in Nat
         /\ \A p : HandledFor(p) \in Nat
<1>1. \A k \in Clients : Handled(k) \in Nat
  BY DEF RTCTypeOK, Handled
<1>2. \A p : \A k \in Clients : Share(p)[k] \in Nat
  BY <1>1 DEF Share
<1>3. ASSUME NEW p PROVE HandledFor(p) \in Nat
  <2>1. Sum(Share(p), Clients) \in Nat
    BY <1>2, FiniteAssumption, SumRemove
  <2> QED BY <2>1 DEF HandledFor, Sum, Share
<1> QED BY <1>1, <1>2, <1>3

\* A step that changes no count of a client, and no peer_id of one that has a count.
LEMMA HandledStays ==
  ASSUME \A k \in Clients : Handled(k)' = Handled(k),
         \A k \in Clients : peer'[k] = peer[k] \/ Handled(k) = 0
  PROVE  \A p : HandledFor(p)' = HandledFor(p)
<1> SUFFICES ASSUME NEW p PROVE HandledFor(p)' = HandledFor(p)
  OBVIOUS
<1> DEFINE f == Share(p)
           g == Share(p)'
<1>1. \A k \in Clients : f[k] = g[k]
  BY DEF Share
<1> HIDE DEF f, g
<1>2. Sum(f, Clients) = Sum(g, Clients)
  BY <1>1, FiniteAssumption, SumSame
<1> QED BY <1>2 DEF f, g, HandledFor, Sum, Share

\* One more message of k is one more of its peer, and of no other.
LEMMA HandledGrows ==
  ASSUME RTCTypeOK, RTCTypeOK', NEW k \in Clients, UNCHANGED peer,
         Handled(k)' = Handled(k) + 1,
         \A j \in Clients \ {k} : Handled(j)' = Handled(j)
  PROVE  \A p : HandledFor(p)' = HandledFor(p) + (IF p = peer[k] THEN 1 ELSE 0)
<1> SUFFICES ASSUME NEW p
             PROVE  HandledFor(p)' = HandledFor(p) + (IF p = peer[k] THEN 1 ELSE 0)
  OBVIOUS
<1> DEFINE f == Share(p)
           g == Share(p)'
<1>1. \A j \in Clients : f[j] \in Nat /\ g[j] \in Nat
  BY HandledType DEF Share, RTCTypeOK, Handled
<1>2. \A j \in Clients \ {k} : f[j] = g[j]
  BY DEF Share
<1>3. g[k] = f[k] + (IF p = peer[k] THEN 1 ELSE 0)
  BY HandledType DEF Share
<1>4. HandledFor(p) = Sum(f, Clients) /\ HandledFor(p)' = Sum(g, Clients)
  BY DEF HandledFor, Sum, Share
<1> HIDE DEF f, g
<1>5. Sum(g, Clients) + f[k] = Sum(f, Clients) + g[k]
  BY <1>1, <1>2, FiniteAssumption, SumChange
<1>6. Sum(f, Clients) \in Nat /\ Sum(g, Clients) \in Nat
  BY <1>1, FiniteAssumption, SumRemove
<1> QED BY <1>1, <1>3, <1>4, <1>5, <1>6

\* Counts follow messages: registering begins at none, and each RecordMessage counts
\* one message of one connection of the peer.
LEMMA CountsStep ==
  ASSUME RTCTypeOK, RTCTypeOK', OffersHandled, SilentBefore, CountsNewest,
         CountsNoneTwice, [RTCNext]_rtcVars
  PROVE  CountsNewest' /\ CountsNoneTwice'
<1> USE DEF RTCTypeOK, CountsNewest, CountsNoneTwice, Registered
<1>1. CASE AdapterStep
  <2>1. UNCHANGED <<hs, om, echoes, peers, newest>>
    BY <1>1 DEF AdapterStep, RTCConnect, OfferMade, LocalSet, AnswerArrives, RemoteSet,
           FetchFails, ClosedRejects, RTCDisconnect
  <2>2. \A k \in Clients : hs[k] # "idle" => peer'[k] = peer[k]
    BY <1>1 DEF AdapterStep, RTCConnect, GoConnect, OfferMade, LocalSet, AnswerArrives,
           RemoteSet, FetchFails, ClosedRejects, RTCDisconnect, OffersHandled
  <2>3. \A k \in Clients : Handled(k)' = Handled(k)
    BY <2>1 DEF Handled
  <2>4. \A k \in Clients : peer'[k] = peer[k] \/ Handled(k) = 0
    BY <2>2 DEF SilentBefore, Handled
  <2>5. \A p : HandledFor(p)' = HandledFor(p)
    BY <2>3, <2>4, HandledStays
  <2> QED BY <2>1, <2>2, <2>3, <2>5
<1>2. CASE HandlerStep
  <2>1. ASSUME NEW k \in Clients, NEW p \in PeerIDs \cup {k}, StoreConnection(k, p)
        PROVE  CountsNewest' /\ CountsNoneTwice'
    <3>1. /\ hs[k] = "idle" /\ hs' = [hs EXCEPT ![k] = "add"]
          /\ peer' = [peer EXCEPT ![k] = p]
          /\ UNCHANGED <<om, echoes, peers, newest>>
      BY <2>1 DEF StoreConnection, GoOffer
    <3>2. \A j \in Clients : Handled(j)' = Handled(j)
      BY <3>1 DEF Handled
    <3>3. \A j \in Clients : peer'[j] = peer[j] \/ Handled(j) = 0
      BY <3>1 DEF SilentBefore, Handled
    <3>4. \A q : HandledFor(q)' = HandledFor(q)
      BY <3>2, <3>3, HandledStays
    <3>5. \A q \in Peers : \A i \in newest[q] : i \in Clients /\ i # k
      BY <3>1
    <3> QED BY <3>1, <3>2, <3>4, <3>5
  <2>2. ASSUME NEW k \in Clients, RegisterPeer(k) PROVE CountsNewest' /\ CountsNoneTwice'
    <3>1. /\ hs[k] = "add" /\ hs' = [hs EXCEPT ![k] = "remote"]
          /\ newest' = [newest EXCEPT ![peer[k]] = {k}]
          /\ UNCHANGED <<om, echoes, peer>>
      BY <2>2 DEF RegisterPeer, GoOffer
    <3>2. \A j \in Clients : Handled(j)' = Handled(j)
      BY <3>1 DEF Handled
    <3>3. Handled(k) = 0
      BY <3>1 DEF SilentBefore, Handled
    <3>4. \A p : HandledFor(p)' = HandledFor(p) /\ HandledFor(p) \in Nat
      BY <3>1, <3>2, HandledStays, HandledType
    <3>5. /\ DOMAIN peers' = DOMAIN peers \cup {peer[k]}
          /\ peers'[peer[k]].messageCount = 0
          /\ \A p \in DOMAIN peers \ {peer[k]} : peers'[p] = peers[p]
      BY <2>2 DEF RegisterPeer, AddClient
    <3>6. CountsNoneTwice'
      BY <3>4, <3>5
    <3>7. ASSUME NEW p \in Peers, NEW i \in newest'[p]
          PROVE  Registered(i)' /\ peer'[i] = p /\ peers'[p].messageCount >= Handled(i)'
      <4>1. CASE p = peer[k]
        BY <3>1, <3>2, <3>3, <3>5, <3>7, <4>1
      <4>2. CASE p # peer[k]
        <5>1. i \in newest[p] /\ Registered(i) /\ peer[i] = p
          BY <3>1, <3>7, <4>2
        <5>2. p \in DOMAIN peers
          BY <5>1 DEF OffersHandled
        <5> QED BY <3>1, <3>2, <3>5, <4>2, <5>1, <5>2
      <4> QED BY <4>1, <4>2
    <3> QED BY <3>6, <3>7
  <2>3. ASSUME NEW k \in Clients,
               ApplyOffer(k) \/ CreateAnswer(k) \/ SendAnswer(k) \/ RefuseOffer(k)
        PROVE  CountsNewest' /\ CountsNoneTwice'
    <3>1. UNCHANGED <<om, echoes, peer, peers, newest>>
      BY <2>3 DEF ApplyOffer, CreateAnswer, SendAnswer, RefuseOffer
    <3>2. \A j \in Clients : Registered(j) => Registered(j)'
      BY <2>3 DEF ApplyOffer, CreateAnswer, SendAnswer, RefuseOffer, GoOffer
    <3>3. \A j \in Clients : Handled(j)' = Handled(j)
      BY <3>1 DEF Handled
    <3>4. \A p : HandledFor(p)' = HandledFor(p)
      BY <3>1, <3>3, HandledStays
    <3> QED BY <3>1, <3>2, <3>3, <3>4
  <2> QED BY <1>2, <2>1, <2>2, <2>3 DEF HandlerStep, HandleOffer
<1>3. CASE ChannelStep
  <2>1. UNCHANGED <<hs, peer, newest>>
    BY <1>3 DEF ChannelStep, ChannelOpens, ChannelCloses, SendText, OnMessageText,
           OnText, TrackText, EchoText
  <2>2. ASSUME NEW k \in Clients, OnText(k) PROVE CountsNewest' /\ CountsNoneTwice'
    <3>1. hs[k] = "done" /\ peer[k] \in DOMAIN peers
      BY <2>2 DEF OnText, SilentBefore, OffersHandled
    <3>2. /\ Handled(k)' = Handled(k) + 1
          /\ \A j \in Clients \ {k} : Handled(j)' = Handled(j)
      BY <2>2 DEF OnText, GoMessage, Handled
    <3>3. \A p : HandledFor(p)' = HandledFor(p) + (IF p = peer[k] THEN 1 ELSE 0)
      BY <2>1, <3>2, HandledGrows
    <3>4. \A p \in DOMAIN peers : peers[p].messageCount \in Nat
      BY DEF IsRegistry, Entry
    <3>5. /\ DOMAIN peers' = DOMAIN peers
          /\ \A p \in DOMAIN peers : p # peer[k] => peers'[p] = peers[p]
          /\ peers'[peer[k]].messageCount = peers[peer[k]].messageCount + 1
      <4>1. peers[peer[k]] \in [protocol : {"webrtc"}, messageCount : Nat]
        BY <3>1 DEF IsRegistry, Entry
      <4> QED BY <2>2, <3>1, <4>1 DEF OnText, RecordMessageOf
    <3>6. (\A p : HandledFor(p) \in Nat) /\ \A j \in Clients : Handled(j) \in Nat
      BY HandledType
    <3>7. ASSUME NEW p \in DOMAIN peers
          PROVE  peers'[p].messageCount <= HandledFor(p)'
      <4>1. /\ peers[p].messageCount \in Nat /\ HandledFor(p) \in Nat
            /\ peers[p].messageCount <= HandledFor(p)
        BY <3>4, <3>6
      <4>2. CASE p = peer[k]
        BY <3>3, <3>5, <4>1, <4>2
      <4>3. CASE p # peer[k]
        BY <3>3, <3>5, <4>1, <4>3
      <4> QED BY <4>2, <4>3
    <3>8. ASSUME NEW p \in Peers, NEW i \in newest[p]
          PROVE  peers'[p].messageCount >= Handled(i)'
      <4>1. Registered(i) /\ peer[i] = p /\ peers[p].messageCount >= Handled(i)
        BY <3>8
      <4>2. i \in Clients /\ p \in DOMAIN peers
        BY <3>8, <4>1 DEF OffersHandled
      <4>3. /\ peers[p].messageCount \in Nat
            /\ Handled(i) \in Nat /\ Handled(k) \in Nat
        BY <3>4, <3>6, <4>2
      <4>4. CASE p # peer[k]
        <5>1. i # k /\ peers'[p] = peers[p]
          BY <3>5, <4>1, <4>2, <4>4
        <5>2. Handled(i)' = Handled(i)
          BY <3>2, <4>2, <5>1
        <5> QED BY <4>1, <5>1, <5>2
      <4>5. CASE p = peer[k]
        <5>1. peers'[p].messageCount = peers[p].messageCount + 1
          BY <3>5, <4>5
        <5>2. Handled(i)' = Handled(i) \/ Handled(i)' = Handled(i) + 1
          BY <3>2, <4>2
        <5> QED BY <4>1, <4>3, <5>1, <5>2
      <4> QED BY <4>4, <4>5
    <3> QED BY <2>1, <3>5, <3>7, <3>8
  <2>3. CASE \E k \in Clients : ChannelOpens(k) \/ ChannelCloses(k) \/ SendText(k)
                                \/ TrackText(k) \/ EchoText(k)
    <3>1. UNCHANGED peers
      BY <2>3 DEF ChannelOpens, ChannelCloses, SendText, TrackText, EchoText
    <3>2. ASSUME NEW j \in Clients PROVE Handled(j)' = Handled(j)
      <4>1. CASE UNCHANGED <<om, echoes>>
        BY <4>1 DEF Handled
      <4>2. ASSUME NEW k \in Clients, TrackText(k) PROVE Handled(j)' = Handled(j)
        BY <4>2 DEF TrackText, GoMessage, Handled
      <4>3. ASSUME NEW k \in Clients, EchoText(k) PROVE Handled(j)' = Handled(j)
        BY <4>3 DEF EchoText, GoMessage, Handled
      <4> QED BY <2>3, <4>1, <4>2, <4>3 DEF ChannelOpens, ChannelCloses, SendText
    <3>3. \A p : HandledFor(p)' = HandledFor(p)
      BY <2>1, <3>2, HandledStays
    <3> QED BY <2>1, <3>1, <3>2, <3>3
  <2> QED BY <1>3, <2>2, <2>3 DEF ChannelStep, OnMessageText
<1>4. CASE UNCHANGED rtcVars
  <2>1. \A j \in Clients : Handled(j)' = Handled(j)
    BY <1>4 DEF Handled
  <2>2. \A p : HandledFor(p)' = HandledFor(p)
    BY <1>4, <2>1, HandledStays
  <2> QED BY <1>4, <2>1, <2>2
<1> QED BY <1>1, <1>2, <1>3, <1>4, RTCSteps

\* The invariant holds in every reachable state.
LEMMA RTCAlways == RTCSpec => []RTCInv
<1>1. RTCInv /\ [RTCNext]_rtcVars => RTCInv'
  <2> SUFFICES ASSUME RTCInv, [RTCNext]_rtcVars PROVE RTCInv'
    OBVIOUS
  <2>1. RTCTypeOK' /\ MadeWhenBegun' /\ LiveIsHeld'
    BY RTCTypeStep, HeldStep DEF RTCInv
  <2>2. AwaitsMix' /\ OnlyOverlapMixes'
    BY AwaitStep DEF RTCInv
  <2>3. OffersHandled' /\ SilentBefore'
    BY HandledStep, SilentStep DEF RTCInv
  <2>4. CountsNewest' /\ CountsNoneTwice'
    BY <2>1, CountsStep DEF RTCInv
  <2> QED BY <2>1, <2>2, <2>3, <2>4 DEF RTCInv
<1> QED BY RTCInitInv, <1>1, PTL DEF RTCSpec

\* disconnect() reaches every connection that no other connect() found in this.pc,
\* and only calls that were at an await together get each other's answers.
THEOREM WebRTCSafe == RTCSpec => [](RTCTypeOK /\ ConnectsKeepApart)
<1>1. RTCInv => RTCTypeOK /\ ConnectsKeepApart
  BY DEF RTCInv, ConnectsKeepApart
<1> QED BY RTCAlways, <1>1, PTL

\* An answered connection has a registered counterpart, and the stored connection of
\* its peer is its own or one that replaced it; the peer's entry counts no message
\* twice, and all those of the connection that was registered last.
THEOREM OffersServed == RTCSpec => []PeersAreServed
<1>1. RTCInv => AnsweredIsServed
  <2> SUFFICES ASSUME RTCInv, NEW j \in Connects, NEW k \in answerOf[j]
               PROVE  /\ hs[k] = "done"
                      /\ peer[k] \in DOMAIN peers
                      /\ \E i \in connections[peer[k]] :
                           peer[i] = peer[k] /\ (i = k \/ k \in superseded)
    BY DEF AnsweredIsServed
  <2>1. k \in Clients /\ hs[k] = "done" /\ peer[k] \in Peers
    BY DEF RTCInv, RTCTypeOK, OffersHandled
  <2>2. peer[k] \in DOMAIN peers
    BY <2>1 DEF RTCInv, OffersHandled, Registered
  <2>3. PICK i \in connections[peer[k]] : i = k \/ k \in superseded
    BY <2>1 DEF RTCInv, OffersHandled
  <2>4. peer[i] = peer[k]
    BY <2>1, <2>3 DEF RTCInv, OffersHandled
  <2> QED BY <2>1, <2>2, <2>3, <2>4
<1>2. RTCInv => PeerCountsMessages
  BY DEF RTCInv, RTCTypeOK, OffersHandled, Registered, CountsNewest, CountsNoneTwice,
         PeerCountsMessages
<1>3. RTCInv => PeersAreServed
  BY <1>1, <1>2 DEF PeersAreServed
<1> QED BY RTCAlways, <1>3, PTL

-----------------------------------------------------------------------------
(* All parts                                                               *)

\* What a step of MCParts does to each part: a step of it, or nothing.
LEMMA PartsStep ==
  ASSUME [Next]_<<part, wsVars, rtcVars, reqVars, gridVars, visVars, pollingVars,
                  trackerVars, heartbeatVars>>
  PROVE  /\ [WSNext]_wsVars /\ [RTCNext]_rtcVars /\ [CallsNext]_reqVars
         /\ [GridNext]_gridVars /\ [VisNext]_visVars /\ [PollNext]_pollingVars
         /\ [TrackerNext]_trackerVars /\ [HeartbeatNext]_heartbeatVars
BY DEF Next

\* MCParts is the conjunction of its parts: whatever holds of each of them holds of
\* the instances that TLC runs together.
THEOREM PartsRun ==
  Spec => /\ WSSpec /\ RTCSpec /\ CallsSpec /\ GridSpec /\ VisSpec /\ PollSpec
          /\ TrackerSpec /\ HeartbeatSpec
<1>1. Init => /\ WSInit /\ RTCInit /\ CallsInit /\ GridInit /\ VisInit /\ PollInit
              /\ TrackerInit /\ HeartbeatInit
  BY DEF Init
<1> QED BY <1>1, PartsStep, PTL
        DEF Spec, WSSpec, RTCSpec, CallsSpec, GridSpec, VisSpec, PollSpec, TrackerSpec,
            HeartbeatSpec

\* PartsTypeOK: every part keeps its types, and the bounds that they state.
THEOREM PartsTypeCorrect == Spec => []PartsTypeOK
<1>1. WSTypeOK /\ RTCTypeOK /\ CallsTypeOK /\ GridTypeOK /\ VisTypeOK /\ PollTypeOK
        /\ TrackerTypeOK /\ HeartbeatTypeOK => PartsTypeOK
  BY DEF PartsTypeOK
<1> QED BY <1>1, PartsRun, WSAdapterSafe, WebRTCSafe, CallsTypeCorrect, GridSafe,
           VisTypeCorrect, PollTypeCorrect, TrackerTypeCorrect, SilentClientsAreLate, PTL
=============================================================================

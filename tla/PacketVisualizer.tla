--------------------------- MODULE PacketVisualizer ---------------------------
(***************************************************************************)
(* The animation of PacketVisualizer (web, PacketVisualizer.tsx).  Events  *)
(* of the EventBus become particles in a ref; a loop of animation frames   *)
(* moves and draws them.  The loop belongs to an effect that is cleaned up *)
(* and run again when a prop changes, while the particles stay.            *)
(*                                                                         *)
(* A particle is how often it has been moved.  One step is one task of the *)
(* browser: an event, a frame with all callbacks that were requested, or a *)
(* change of props with the effects that follow it.                        *)
(***************************************************************************)
EXTENDS Naturals, Sequences, FiniteSets, Filter

CONSTANTS
  Moves,       \* moves until progress is more than 1: 25 of 0.04 each, as the
               \* sum of 25 floats is above 1
  MaxEffects,  \* bound: number of times that the loop is started
  MaxEvents,   \* bound: number of events
  MaxTicks     \* bound: number of frames and starts

ASSUME MovesAssumption == Moves \in Nat \ {0}

VARIABLES
  loop,       \* the effect that runs: empty if not mounted
  scheduled,  \* effects whose render is requested for the next frame
  particles,  \* particlesRef.current
  effects,    \* number of effects begun so far
  ticks,      \* history: frames and starts so far
  births      \* history: the tick at which each event since mounting came

visVars == <<loop, scheduled, particles, effects, ticks, births>>

VisInit ==
  /\ loop = {}
  /\ scheduled = {}
  /\ particles = <<>>
  /\ effects = 0
  /\ ticks = 0
  /\ births = <<>>

\* n moves; a particle whose progress is more than 1 goes.
Moved(ps, n) ==
  Kept([i \in DOMAIN ps |-> ps[i] + n], 0..(Moves - 1))

\* Mutant: the loop goes on until it finds that its effect has been cleaned up.
CancelledLater == scheduled

\* cancelAnimationFrame: animId is the frame that the running effect asked for last.
Cancelled == scheduled \ loop

\* render() is called at once, and asks for the next frame.
StartLoop ==
  /\ effects < MaxEffects /\ ticks < MaxTicks
  /\ effects' = effects + 1
  /\ loop' = {effects'}
  /\ scheduled' = Cancelled \cup loop'
  /\ particles' = Moved(particles, 1)
  /\ ticks' = ticks + 1

VisMount ==
  /\ loop = {}
  /\ StartLoop
  /\ UNCHANGED births

\* Another protocol is selected, the server's state changes, or StrictMode runs the
\* effects once more; the listener may be new, the particles are kept.
PropsChange ==
  /\ loop # {}
  /\ StartLoop
  /\ UNCHANGED births

VisUnmount ==
  /\ loop # {}
  /\ loop' = {}
  /\ scheduled' = Cancelled
  /\ particles' = <<>>
  /\ births' = <<>>
  /\ UNCHANGED <<effects, ticks>>

\* The listener; no adapter emits a topologyState of "waiting".
EventShown ==
  /\ loop # {}
  /\ Len(births) < MaxEvents
  /\ particles' = Append(particles, 0)
  /\ births' = Append(births, ticks)
  /\ UNCHANGED <<loop, scheduled, effects, ticks>>

\* Every render that was requested runs, and requests the next one.  Frames do not
\* come while the page is hidden, for as long as that may be.
Frame ==
  /\ scheduled # {} /\ ticks < MaxTicks
  /\ ticks' = ticks + 1
  /\ particles' = Moved(particles, Cardinality(scheduled))
  /\ UNCHANGED <<loop, scheduled, effects, births>>

VisNext == VisMount \/ PropsChange \/ VisUnmount \/ EventShown \/ Frame

VisSpec == VisInit /\ [][VisNext]_visVars

-----------------------------------------------------------------------------
(* Properties                                                              *)

\* Types; a particle that is kept has not arrived.
VisTypeOK ==
  /\ loop \subseteq Nat /\ \A e, f \in loop : e = f
  /\ scheduled \subseteq Nat
  /\ particles \in Seq(0..(Moves - 1))
  /\ effects \in Nat
  /\ ticks \in Nat
  /\ births \in Seq(0..ticks)

\* However often props change and the component comes and goes, exactly one chain
\* of frames runs while it is mounted, that of the last effect, and none after:
\* the cleanup (line 122) cancels the frame asked for last, not the first one.
OneLoop == scheduled = loop

\* The particles are the events of the last Moves ticks, in order, each moved once
\* a tick: a change of props neither speeds them up nor drops any.
ParticlesKeepPace ==
  LET recent == Kept(births, { b \in 0..ticks : ticks - b < Moves })
  IN  particles = [i \in DOMAIN recent |-> ticks - recent[i]]

\* Both: the animation has its one loop and its pace.
AnimationRuns == OneLoop /\ ParticlesKeepPace
=============================================================================

------------------------------- MODULE MCSSE -------------------------------
(***************************************************************************)
(* Instances of SSE and SSESession for TLC.  Requests are model values     *)
(* that no definition tells apart, so the safety runs use Symmetry.  No    *)
(* guard reads the store, the tracker or last, nor does a property of run  *)
(* sse but its type invariant, so that run tells states apart by the rest: *)
(* the order of the store and the message shown last branch nowhere, and   *)
(* the tracker follows from the program counters.                          *)
(***************************************************************************)
EXTENDS SSESession, TLC

Symmetry == Permutations(Posts) \cup Permutations(Streams)

WithoutStore ==
  <<chanVars, postVars, streamVars, registry, source, asked, current, got, read>>
=============================================================================

---------------------------- MODULE MCTelemetry ----------------------------
(***************************************************************************)
(* Instances of Telemetry for TLC.  Calls are model values that no         *)
(* definition tells apart, hence Symmetry.                                 *)
(***************************************************************************)
EXTENDS Telemetry, TLC

Symmetry == Permutations(Calls)
=============================================================================

------------------------------ MODULE MCWSHub ------------------------------
(***************************************************************************)
(* Instances of WSHub for TLC.  Clients, posters and messages are model    *)
(* values and interchangeable: no definition of WSHub tells two of them    *)
(* apart, so the safety runs use Symmetry (the liveness runs do not).      *)
(***************************************************************************)
EXTENDS WSHub, TLC

Symmetry ==
  Permutations(Clients) \cup Permutations(Posters) \cup Permutations(Messages)
=============================================================================

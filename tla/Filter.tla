-------------------------------- MODULE Filter --------------------------------
(***************************************************************************)
(* What a loop leaves that goes through a list and appends the elements it *)
(* wants to a new one: GetSince of the server's MessageStore, and          *)
(* Array.filter in the browser.                                            *)
(***************************************************************************)
EXTENDS Sequences, SequencesExt

\* The elements of s that are in S.
Kept(s, S) ==
  FoldLeft(LAMBDA kept, x : IF x \in S THEN Append(kept, x) ELSE kept, <<>>, s)
=============================================================================

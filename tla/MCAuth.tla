--------------------------------- MODULE MCAuth ---------------------------------
(* Auth for TLC; the bounds are in the .cfg file. *)
EXTENDS Auth, TLC

\* The wall clock is behind, right or ahead.
MCOffsets == {-5, 0, 5}

Symmetry == Permutations(Callers)
=============================================================================

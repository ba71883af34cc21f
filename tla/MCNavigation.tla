------------------------------ MODULE MCNavigation ------------------------------
(* Navigation for TLC; the bounds are in the .cfg files. *)
EXTENDS Navigation, TLC

\* Starts are interchangeable, and so are awaits.
Symmetry == Permutations(Starts) \cup Permutations(Awaits)
=============================================================================

------------------------------- MODULE MCReplies -------------------------------
(* Replies for TLC; the bounds are in the .cfg files. *)
EXTENDS Replies, TLC

\* The calls of a kind are interchangeable, and so are the chunks.
Symmetry ==
  UNION {Permutations(S) : S \in {Actions, Records, Policies, Sensors, Chunks}}
=============================================================================

------------------------------- MODULE MCEstop -------------------------------
(* Model checking of Estop: the constants are given in the cfg files. *)
EXTENDS Estop
====

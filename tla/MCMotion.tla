------------------------------ MODULE MCMotion ------------------------------
(* Motion for TLC; the bounds are in the .cfg files. *)
EXTENDS Motion
====

------------------------------ MODULE MCSupabase ------------------------------
(* Supabase for TLC; the bounds are in the .cfg files. *)
EXTENDS Supabase
====

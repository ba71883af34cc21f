----------------------------- MODULE MCStreams -----------------------------
(* Streams for TLC; the bounds are in the .cfg files. *)
EXTENDS Streams
CONSTANTS h1, h2, c1, c2

\* Two listeners, of which the second is a coroutine function.
OwnCallback == (h1 :> c1) @@ (h2 :> c2)
=============================================================================

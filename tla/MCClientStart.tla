--------------------------- MODULE MCClientStart ---------------------------
(* Small instances of ClientStart for TLC: the bounds are in the .cfg file. *)
EXTENDS ClientStart

=============================================================================

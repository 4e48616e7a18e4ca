---------------------------- MODULE MCCallSetup ----------------------------
(* Small instances of CallSetup for TLC. *)
EXTENDS CallSetup, TLC

CONSTANTS u1, u2

MCUsers    == {u1, u2}
MCSymmetry == Permutations(MCUsers)

=============================================================================

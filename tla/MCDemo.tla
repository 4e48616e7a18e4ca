------------------------------- MODULE MCDemo -------------------------------
(* Small instances of Demo for TLC. *)
EXTENDS Demo

MCClients == {caller, callee}
MCPeer    == [c \in MCClients |-> IF c = caller THEN callee ELSE caller]
=============================================================================

--------------------------- MODULE MCCoordinator ---------------------------
(* Small instances of Coordinator for TLC. *)
EXTENDS Coordinator

CONSTANTS c1, c2

MCTwoConns == {c1, c2}

\* c1 sends two onions in a message and c2 one.
MCOutgoing == [c \in Conns |-> IF c = c1 THEN 2 ELSE 1]
=============================================================================

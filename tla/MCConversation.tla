--------------------------- MODULE MCConversation ---------------------------
(* Small instances of Conversation for TLC. *)
EXTENDS Conversation

CONSTANTS alice, bob

MCPair     == {alice, bob}
MCPairPeer == [u \in MCPair |-> IF u = alice THEN bob ELSE alice]

MCAlice == {alice}

\* Lines typed.
MCAliceTwo == [u \in MCPair |-> IF u = alice THEN 2 ELSE 0]
=============================================================================

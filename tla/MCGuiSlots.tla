----------------------------- MODULE MCGuiSlots -----------------------------
(* Small instances of GuiSlots for TLC. *)
EXTENDS GuiSlots

CONSTANTS p1, p2

MCPeers    == {p1, p2}
MCSymmetry == Permutations(MCPeers)

=============================================================================

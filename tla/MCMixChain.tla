---------------------------- MODULE MCMixChain ----------------------------
(* Small instances of MixChain for TLC. *)
EXTENDS MixChain

Onion(id, drop, bad) == [id |-> <<0, id>>, drop |-> <<0, drop>>, bad |-> bad]

\* a and b share a dead drop, e is a third one there, c is alone; one onion
\* does not decrypt at the first mixer and one not at the second.
a == Onion(1, 1, 0)
b == Onion(2, 1, 0)
c == Onion(3, 2, 0)
e == Onion(4, 1, 0)
bad1 == Onion(5, 1, 1)
bad2 == Onion(6, 1, 2)

MCBatches == {<<>>, <<a, b>>, <<bad1, b, a>>, <<a, a, b>>, <<a, bad2, c>>, <<e, b, a>>}

MCNoise == [s \in Servers |-> IF s < N THEN 1 ELSE 0]
===========================================================================

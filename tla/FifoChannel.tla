---------------------------- MODULE FifoChannel ----------------------------
(***************************************************************************)
(* What a conversation promises its two users while their clients stay up:  *)
(* one FIFO channel in each direction, on which every text comes out once,  *)
(* in the order it went in, and is only confirmed to its sender (removed    *)
(* from the retransmission queue) after it has come out.                    *)
(***************************************************************************)
EXTENDS Integers, Sequences

CONSTANTS Users, Peer

VARIABLES
    sent,       \* sent[u]: the texts u has queued for its peer
    delivered,  \* delivered[u]: those displayed to the peer
    confirmed   \* confirmed[u]: how many of them u knows to be delivered

chanVars == <<sent, delivered, confirmed>>

Init ==
    /\ sent      = [u \in Users |-> <<>>]
    /\ delivered = [u \in Users |-> <<>>]
    /\ confirmed = [u \in Users |-> 0]

\* u queues its next text.
Send(u) ==
    /\ sent' = [sent EXCEPT ![u] = Append(@, Len(@))]
    /\ UNCHANGED <<delivered, confirmed>>

\* u hears from its peer: some more of the peer's texts come out, and some
\* more of u's own, delivered before, are confirmed.
Receive(u) ==
    /\ \E n \in Len(delivered[Peer[u]])..Len(sent[Peer[u]]) :
         delivered' = [delivered EXCEPT ![Peer[u]] = SubSeq(sent[Peer[u]], 1, n)]
    /\ \E n \in confirmed[u]..Len(delivered[u]) :
         confirmed' = [confirmed EXCEPT ![u] = n]
    /\ UNCHANGED sent

Next == \E u \in Users : Send(u) \/ Receive(u)

Spec == Init /\ [][Next]_chanVars
============================================================================

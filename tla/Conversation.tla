---------------------------- MODULE Conversation ----------------------------
(***************************************************************************)
(* The end-to-end reliability protocol of the chat client                   *)
(* (cmd/gjallarhorn-client/conversation.go): every conversation round a     *)
(* client deposits one fixed-size message in a dead drop that both ends     *)
(* derive from a shared key wheel, and gets back whatever the other end     *)
(* deposited there, or its own message when it was alone.  Rounds overlap,  *)
(* may be processed out of order, and any deposit or reply may be lost; the *)
(* Seq / Ack / Lowest fields make delivery reliable and ordered.            *)
(*                                                                          *)
(* NextMessage and Reply are atomic here.  In the code each takes the       *)
(* conversation's lock several times, but everything between the sections   *)
(* is private to the round (the key is only touched under GuiClient.mu,     *)
(* which Outgoing holds across NextMessage).                                *)
(***************************************************************************)
EXTENDS Integers, Sequences, FiniteSets

CONSTANTS
    Users,          \* the clients of the model
    Peer,           \* Peer[u]: whom u talks to (u itself in a solo conversation)
    MaxRound,       \* bound: rounds the coordinator announces
    MaxTexts,       \* bound: MaxTexts[u] lines u's user types, one fewer after a restart
    Callers,        \* bound: the users who place calls
    MaxCalls,       \* bound: calls placed in all
    MaxRestarts,    \* bound: restarts of the clients of a conversation
    Flights,        \* rounds the coordinator runs at the same time
    Window,         \* rounds a reply may lag before its key is erased
    Overtaking,     \* how many rounds later a round handled earlier may be
    RedialRounds    \* rounds that go by before a restarted client is in a call again

ASSUME PeerAssumption ==
    Peer \in [Users -> Users] /\ \A u \in Users : Peer[Peer[u]] = u

ASSUME BoundsAssumption ==
    /\ MaxTexts \in [Users -> Nat] /\ MaxRestarts \in Nat
    /\ Callers \subseteq Users
    /\ MaxRound \in Nat /\ MaxCalls \in Nat /\ Flights \in Nat
    /\ Window \in Nat /\ Overtaking \in Nat /\ RedialRounds \in Nat

VARIABLES
    \* One Conversation value per client.
    outQueue,        \* texts not yet acknowledged, by RelativeSeq
    lastOut,         \* index (from 0) of the queued text sent last, or -1
    inQueue,         \* texts received ahead of order, by sequence number
    relativeSeq, seqBase, ack,
    session,         \* the key wheel in use (0: not in a call)
    sessionKeyRound, \* the round the wheel has been rolled to
    rounds,          \* rounds whose key is kept to open the reply
    \* The rounds of the service, and the calls of the add-friend/dialing layer.
    latest,          \* the last round announced
    mixed,           \* rounds whose dead drops have been exchanged
    drop,            \* drop[r][u]: what u deposited in the open round r
    mail,            \* mail[u][r]: the reply of round r on its way to u
    calls,           \* calls placed so far
    ringing,         \* ringing[u]: wheels of calls to u not yet received
    floor,           \* u's process takes part in rounds above floor[u]
    done,            \* done[u]: rounds for which u's process ran Outgoing
    \* History.
    inc,             \* inc[u]: how often u's process has restarted
    shown            \* shown[u]: peer texts displayed to u, over all processes

convoVars   == <<outQueue, lastOut, inQueue, relativeSeq, seqBase, ack>>
keyVars     == <<session, sessionKeyRound, rounds>>
callVars    == <<calls, ringing>>
serviceVars == <<latest, mixed>>
processVars == <<floor, done, inc>>

vars == <<convoVars, keyVars, callVars, serviceVars, processVars, drop, mail, shown>>

Rounds == 1..MaxRound

\* A text is identified by the process that queued it and its RelativeSeq.
Text  == [inc : Nat, rel : Nat]
Blank == [inc |-> 0, rel |-> 0]

\* A line in the conversation window: a peer text and the process showing it.
Line == [by : Nat, text : Text]

\* A ConvoMessage sealed by a user under the round key of a wheel (wheel 0:
\* nothing there).
Deposit   == [from : Users, wheel : Nat, seq : Nat, ack : Nat, lowest : BOOLEAN, text : Text]
Nothing(u) ==
    [from |-> u, wheel |-> 0, seq |-> 0, ack |-> 0, lowest |-> FALSE, text |-> Blank]

NoTexts == [s \in {} |-> Blank]

Without(f, S) == [x \in DOMAIN f \ S |-> f[x]]
With(f, k, v) == [x \in DOMAIN f \cup {k} |-> IF x = k THEN v ELSE f[x]]

Solo(u) == Peer[u] = u

-----------------------------------------------------------------------------
Init ==
    /\ outQueue        = [u \in Users |-> <<>>]
    /\ lastOut         = [u \in Users |-> 0]
    /\ inQueue         = [u \in Users |-> NoTexts]
    /\ relativeSeq     = [u \in Users |-> 0]
    /\ seqBase         = [u \in Users |-> 0]
    /\ ack             = [u \in Users |-> 0]
    /\ session         = [u \in Users |-> 0]
    /\ sessionKeyRound = [u \in Users |-> 0]
    /\ rounds          = [u \in Users |-> {}]
    /\ latest          = 0
    /\ mixed           = {}
    /\ drop            = [r \in Rounds |-> [u \in Users |-> Nothing(u)]]
    /\ mail            = [u \in Users |-> [r \in Rounds |-> Nothing(u)]]
    /\ calls           = 0
    /\ ringing         = [u \in Users |-> {}]
    /\ floor           = [u \in Users |-> 0]
    /\ done            = [u \in Users |-> {}]
    /\ inc             = [u \in Users |-> 0]
    /\ shown           = [u \in Users |-> <<>>]

-----------------------------------------------------------------------------
(* The service: rounds are announced in order, up to Flights at a time, and *)
(* each one ends by exchanging its dead drops.  A round that fails is one   *)
(* whose replies are never processed.                                       *)

Announce ==
    /\ latest < MaxRound
    /\ Cardinality((1..latest) \ mixed) < Flights
    /\ latest' = latest + 1
    /\ UNCHANGED <<convoVars, keyVars, callVars, processVars, mixed, drop, mail, shown>>

\* What the last mixer hands back for u's deposit: the other message in the
\* same dead drop, or u's own.  Dead drops are equal when the wheels are.
Exchanged(u, r) ==
    IF drop[r][u].wheel # 0 /\ drop[r][Peer[u]].wheel = drop[r][u].wheel
      THEN drop[r][Peer[u]]
      ELSE drop[r][u]

Mix(r) ==
    /\ r \in (1..latest) \ mixed
    /\ mixed' = mixed \cup {r}
    /\ mail'  = [u \in Users |-> [mail[u] EXCEPT ![r] = Exchanged(u, r)]]
    /\ drop'  = [drop EXCEPT ![r] = [u \in Users |-> Nothing(u)]]
    /\ UNCHANGED <<convoVars, keyVars, callVars, processVars, latest, shown>>

-----------------------------------------------------------------------------
(* Calls: the dialing layer hands both ends the same session key, which     *)
(* activateConvo installs together with a past round of the agreed epoch.   *)

activateConvo(u, wheel) ==
    /\ session'         = [session EXCEPT ![u] = wheel]
    /\ sessionKeyRound' = [sessionKeyRound EXCEPT ![u] = 0]
    /\ lastOut'         = [lastOut EXCEPT ![u] = -1]
    /\ UNCHANGED <<outQueue, inQueue, relativeSeq, seqBase, ack, rounds>>

SendingCall(u) ==
    /\ u \in Callers /\ calls < MaxCalls
    /\ calls'   = calls + 1
    /\ ringing' = [ringing EXCEPT ![Peer[u]] = @ \cup {calls + 1}]
    /\ activateConvo(u, calls + 1)
    /\ UNCHANGED <<serviceVars, processVars, drop, mail, shown>>

ReceivedCall(u, wheel) ==
    /\ wheel \in ringing[u]
    /\ ringing' = [ringing EXCEPT ![u] = @ \ {wheel}]
    /\ activateConvo(u, wheel)
    /\ UNCHANGED <<calls, serviceVars, processVars, drop, mail, shown>>

-----------------------------------------------------------------------------
QueueTextMessage(u) ==
    /\ relativeSeq[u] + inc[u] < MaxTexts[u]
    /\ outQueue'    = [outQueue EXCEPT ![u] = Append(@, relativeSeq[u])]
    /\ relativeSeq' = [relativeSeq EXCEPT ![u] = @ + 1]
    /\ UNCHANGED <<lastOut, inQueue, seqBase, ack, keyVars, callVars,
                   serviceVars, processVars, drop, mail, shown>>

\* The queued text NextMessage turns to, as an index from 0: the one after
\* the text sent last, or the lowest when there is none.
NextOut(u) ==
    IF lastOut[u] # -1 /\ lastOut[u] + 1 < Len(outQueue[u]) THEN lastOut[u] + 1 ELSE 0

\* Mutant: numbering starts at 1 in every process instead of at the round.
BaseIn_FromOne(u, r) == IF seqBase[u] = 0 THEN 1 ELSE seqBase[u]

\* The base of u's sequence numbers once it sends a text in round r.
BaseIn(u, r) == IF seqBase[u] = 0 THEN r + 1 ELSE seqBase[u]

CoverMessage(u) ==
    [from |-> u, wheel |-> session[u], seq |-> 0, ack |-> ack[u], lowest |-> FALSE,
     text |-> Blank]

\* Mutant: every text claims to be the lowest one queued.
TextMessage_AlwaysLowest(u, r) ==
    LET rel == outQueue[u][NextOut(u) + 1]
    IN  [from |-> u, wheel |-> session[u], seq |-> rel + BaseIn(u, r), ack |-> ack[u],
         lowest |-> TRUE, text |-> [inc |-> inc[u], rel |-> rel]]

TextMessage(u, r) ==
    LET rel == outQueue[u][NextOut(u) + 1]
    IN  [from |-> u, wheel |-> session[u], seq |-> rel + BaseIn(u, r), ack |-> ack[u],
         lowest |-> NextOut(u) = 0, text |-> [inc |-> inc[u], rel |-> rel]]

NextMessage(u, r) ==
    IF outQueue[u] = <<>> THEN CoverMessage(u) ELSE TextMessage(u, r)

\* rollKey refuses to go back: such a round gets a random dummy instead.
RolledPast(u, r) == sessionKeyRound[u] > r

\* u's client runs round r, in a goroutine that has slept until the end of the
\* round: rounds overtake each other, but not by any distance.  The onion
\* reaches the coordinator before the deadline (sent) or not: it is late, the
\* round abandoned, or the link down.
Outgoing(u, r, sent) ==
    /\ r \in (floor[u] + 1)..latest
    /\ r \notin done[u] /\ \A q \in done[u] : q <= r + Overtaking
    /\ session[u] # 0
    /\ sent => r \notin mixed /\ ~RolledPast(u, r)
    /\ done' = [done EXCEPT ![u] = @ \cup {r}]
    /\ IF outQueue[u] = <<>>
         THEN UNCHANGED <<seqBase, lastOut>>
         ELSE /\ seqBase' = [seqBase EXCEPT ![u] = BaseIn(u, r)]
              /\ lastOut' = [lastOut EXCEPT ![u] = NextOut(u)]
    /\ IF RolledPast(u, r)
         THEN UNCHANGED <<sessionKeyRound, rounds>>
         ELSE /\ sessionKeyRound' = [sessionKeyRound EXCEPT ![u] = r]
              /\ rounds' = [rounds EXCEPT ![u] = @ \cup {r}]
    /\ drop' = IF sent THEN [drop EXCEPT ![r][u] = NextMessage(u, r)] ELSE drop
    /\ UNCHANGED <<outQueue, inQueue, relativeSeq, ack, session, callVars,
                   serviceVars, floor, inc, mail, shown>>

-----------------------------------------------------------------------------
\* u's own message came back (compared as ciphertexts) and u is not talking
\* to itself.
OwnMessage(u, m) == m.from = u /\ ~Solo(u)

\* Mutant: an acknowledgement is taken to cover the text after it too.
AckedPrefix_OneMore(u, a, n) ==
    /\ \A i \in 1..n : seqBase[u] > 0 /\ outQueue[u][i] + seqBase[u] <= a + 1
    /\ n < Len(outQueue[u]) => ~(seqBase[u] > 0 /\ outQueue[u][n + 1] + seqBase[u] <= a + 1)

\* The first n queued texts are exactly those that an acknowledgement covers.
AckedPrefix(u, a, n) ==
    /\ \A i \in 1..n : seqBase[u] > 0 /\ outQueue[u][i] + seqBase[u] <= a
    /\ n < Len(outQueue[u]) => ~(seqBase[u] > 0 /\ outQueue[u][n + 1] + seqBase[u] <= a)

\* Mutant: lastOut is decremented without looking whether it is positive.
RemoveAcked_NoGuard(u, n) ==
    /\ outQueue' = [outQueue EXCEPT ![u] = SubSeq(@, n + 1, Len(@))]
    /\ lastOut'  = [lastOut EXCEPT ![u] = @ - n]

\* Drop the first n texts and move lastOut along with them.
RemoveAcked(u, n) ==
    /\ outQueue' = [outQueue EXCEPT ![u] = SubSeq(@, n + 1, Len(@))]
    /\ lastOut'  = [lastOut EXCEPT ![u] = IF @ > n THEN @ - n ELSE IF @ > 0 THEN 0 ELSE @]

\* k ends the longest run of received texts that starts right after a.
EndsChain(queue, a, k) ==
    /\ k \in {a} \cup DOMAIN queue
    /\ \A i \in (a + 1)..k : i \in DOMAIN queue
    /\ k + 1 \notin DOMAIN queue
    /\ k >= a

\* The lines displayed for that run.
DisplayMsgs(u, queue, a, k) ==
    [i \in 1..(k - a) |-> [by |-> inc[u], text |-> queue[a + i]]]

\* inQueue once a new text is queued, and what is acknowledged then: a
\* Lowest text does not wait for lower-numbered ones.
Queued(u, m)   == With(inQueue[u], m.seq, m.text)
AckFloor(u, m) == IF m.lowest THEN m.seq - 1 ELSE ack[u]

\* Display and acknowledge the consecutive texts that follow.
Accept(u, m) ==
    \E k \in {AckFloor(u, m)} \cup DOMAIN Queued(u, m) :
      /\ EndsChain(Queued(u, m), AckFloor(u, m), k)
      /\ ack'     = [ack EXCEPT ![u] = k]
      /\ inQueue' = [inQueue EXCEPT ![u] = Without(Queued(u, m), (AckFloor(u, m) + 1)..k)]
      /\ shown'   = [shown EXCEPT ![u] =
                        @ \o DisplayMsgs(u, Queued(u, m), AckFloor(u, m), k)]

\* Mutant: every text is taken for a new one.
IsNew_AnyText(u, m) == m.seq # 0

IsNew(u, m) == m.seq > ack[u]

\* Erase the key of this round and of the rounds too far behind it.
ForgetRounds(u, r) ==
    rounds' = [rounds EXCEPT ![u] = {o \in @ : o # r /\ o + Window >= r}]

\* Reply on a decrypted message of the peer: acknowledgements, then texts.
Receive(u, m) ==
    /\ \E n \in 0..Len(outQueue[u]) : AckedPrefix(u, m.ack, n) /\ RemoveAcked(u, n)
    /\ IF IsNew(u, m) THEN Accept(u, m) ELSE UNCHANGED <<inQueue, ack, shown>>

Reply(u, r) ==
    /\ mail[u][r].wheel # 0
    /\ mail' = [mail EXCEPT ![u][r] = Nothing(u)]
    /\ ForgetRounds(u, r)
    /\ IF r \notin rounds[u] \/ OwnMessage(u, mail[u][r])
         THEN UNCHANGED <<outQueue, lastOut, inQueue, ack, shown>>
         ELSE Receive(u, mail[u][r])
    /\ UNCHANGED <<relativeSeq, seqBase, session, sessionKeyRound, callVars,
                   serviceVars, processVars, drop>>

-----------------------------------------------------------------------------
\* The process dies and comes back with a fresh Conversation: nothing of it is
\* on disk.  To talk again it needs a call, and it only hears of rounds
\* announced from then on.
Restart(u) ==
    /\ inc[u] + inc[Peer[u]] < MaxRestarts
    /\ inc'             = [inc EXCEPT ![u] = @ + 1]
    /\ outQueue'        = [outQueue EXCEPT ![u] = <<>>]
    /\ lastOut'         = [lastOut EXCEPT ![u] = 0]
    /\ inQueue'         = [inQueue EXCEPT ![u] = NoTexts]
    /\ relativeSeq'     = [relativeSeq EXCEPT ![u] = 0]
    /\ seqBase'         = [seqBase EXCEPT ![u] = 0]
    /\ ack'             = [ack EXCEPT ![u] = 0]
    /\ session'         = [session EXCEPT ![u] = 0]
    /\ sessionKeyRound' = [sessionKeyRound EXCEPT ![u] = 0]
    /\ rounds'          = [rounds EXCEPT ![u] = {}]
    /\ floor'           = [floor EXCEPT ![u] = latest + RedialRounds]
    /\ done'            = [done EXCEPT ![u] = {}]
    /\ mail'            = [mail EXCEPT ![u] = [r \in Rounds |-> Nothing(u)]]
    /\ UNCHANGED <<callVars, serviceVars, drop, shown>>

Next ==
    \/ Announce
    \/ \E r \in Rounds : Mix(r)
    \/ \E u \in Users :
         \/ SendingCall(u)
         \/ \E wheel \in 1..MaxCalls : ReceivedCall(u, wheel)
         \/ QueueTextMessage(u)
         \/ \E r \in Rounds, sent \in BOOLEAN : Outgoing(u, r, sent)
         \/ \E r \in Rounds : Reply(u, r)
         \/ Restart(u)

Spec == Init /\ [][Next]_vars

-----------------------------------------------------------------------------
(* Properties. *)

ConvoType ==
    /\ outQueue    \in [Users -> Seq(Nat)]
    /\ lastOut     \in [Users -> Nat \cup {-1}]
    /\ DOMAIN inQueue = Users
    /\ \A u \in Users : DOMAIN inQueue[u] \subseteq Nat
                        /\ \A s \in DOMAIN inQueue[u] : inQueue[u][s] \in Text
    /\ relativeSeq \in [Users -> Nat]
    /\ seqBase     \in [Users -> Nat]
    /\ ack         \in [Users -> Nat]
    /\ shown       \in [Users -> Seq(Line)]

KeyType ==
    /\ session         \in [Users -> Nat]
    /\ sessionKeyRound \in [Users -> Nat]
    /\ rounds          \in [Users -> SUBSET Rounds]
    /\ calls           \in Nat
    /\ ringing         \in [Users -> SUBSET Nat]

ServiceType ==
    /\ latest \in 0..MaxRound
    /\ mixed  \in SUBSET Rounds
    /\ drop   \in [Rounds -> [Users -> Deposit]]
    /\ mail   \in [Users -> [Rounds -> Deposit]]

ProcessType ==
    /\ floor \in [Users -> Nat]
    /\ done  \in [Users -> SUBSET Rounds]
    /\ inc   \in [Users -> Nat]

\* Every variable keeps the type its declaration in conversation.go gives it;
\* in particular lastOut, which Reply decrements, never falls below -1.
TypeOK == ConvoType /\ KeyType /\ ServiceType /\ ProcessType

\* v's user has seen the text that process i of the peer queued as number k.
Displayed(v, i, k) == \E n \in DOMAIN shown[v] : shown[v][n].text = [inc |-> i, rel |-> k]

\* Everything u's current process has queued is still queued for
\* retransmission or has been displayed to the peer.
NoLossFrom(u) ==
    \A k \in 0..(relativeSeq[u] - 1) :
        \/ \E i \in DOMAIN outQueue[u] : outQueue[u][i] = k
        \/ Displayed(Peer[u], inc[u], k)

\* Reply only drops a text from outQueue once the peer has displayed it,
\* whatever rounds are lost or reordered and whoever restarts.
NoLoss == \A u \in Users : NoLossFrom(u)

\* The same as long as u's own process has not restarted: it does not depend
\* on sequence numbers being fresh across restarts.
NoLossBeforeRestart == \A u \in Users : inc[u] = 0 => NoLossFrom(u)

\* One process of u displays the texts of its peer in the order they were
\* typed, each at most once, and never goes back to an older process of it.
DisplayOrder ==
    \A u \in Users : \A i, j \in DOMAIN shown[u] :
        LET a == shown[u][i] b == shown[u][j]
        IN  i < j /\ a.by = b.by =>
              \/ a.text.inc < b.text.inc
              \/ a.text.inc = b.text.inc /\ a.text.rel < b.text.rel

\* A Lowest message makes Reply skip only what its user has seen: before a
\* text is displayed, every earlier text of the same process was.
NoGap ==
    \A u \in Users : \A i \in DOMAIN shown[u] :
        LET t == shown[u][i].text
        IN  \A k \in 0..(t.rel - 1) :
              \E j \in 1..(i - 1) : shown[u][j].text = [inc |-> t.inc, rel |-> k]

(* The inductive invariant behind NoLossBeforeRestart, for texts from u to  *)
(* its peer.                                                                *)

\* How many texts have left u's queue, all of them from its front.
Confirmed(u) == relativeSeq[u] - Len(outQueue[u])

QueueInv(u) ==
    /\ Len(outQueue[u]) <= relativeSeq[u]
    /\ \A i \in 1..Len(outQueue[u]) : outQueue[u][i] = Confirmed(u) + i - 1

SeenBelow(u, k) == \A j \in 0..(k - 1) : Displayed(Peer[u], 0, j)

\* An acknowledgement only covers texts the acknowledging user has seen.
AckInv(u, a) ==
    IF seqBase[u] = 0 THEN a = 0
    ELSE \A s \in seqBase[u]..a : Displayed(Peer[u], 0, s - seqBase[u])

\* Number s stands for text t of u.
TextInv(u, s, t) ==
    seqBase[u] > 0 /\ s >= seqBase[u] /\ t = [inc |-> 0, rel |-> s - seqBase[u]]

MessageInv(u, m) ==
    /\ m.from = u /\ m.seq # 0 =>
         TextInv(u, m.seq, m.text) /\ (m.lowest => SeenBelow(u, m.seq - seqBase[u]))
    /\ m.from = Peer[u] => AckInv(u, m.ack)

DirectionInv(u) ==
    /\ SeenBelow(u, Confirmed(u))
    /\ AckInv(u, ack[Peer[u]])
    /\ \A s \in DOMAIN inQueue[Peer[u]] : TextInv(u, s, inQueue[Peer[u]][s])
    /\ \A r \in Rounds, w \in Users :
         MessageInv(u, drop[r][w]) /\ MessageInv(u, mail[w][r])

OriginInv ==
    \A r \in Rounds, w \in Users :
        drop[r][w].from = w /\ mail[w][r].from \in {w, Peer[w]}

\* Acknowledgements held or in flight, Lowest marks and texts waiting out of
\* order all agree with what the peer has displayed.
DeliveryInv ==
    /\ OriginInv
    /\ \A u \in Users : QueueInv(u) /\ (inc[u] = 0 => DirectionInv(u))

\* With no restarts the two ends of a conversation are two FIFO channels.
Channel == INSTANCE FifoChannel WITH
    sent      <- [u \in Users |-> [i \in 1..relativeSeq[u] |-> i - 1]],
    delivered <- [u \in Users |->
                    [i \in DOMAIN shown[Peer[u]] |-> shown[Peer[u]][i].text.rel]],
    confirmed <- [u \in Users |-> relativeSeq[u] - Len(outQueue[u])]

ImplementsFifo == Channel!Spec
=============================================================================

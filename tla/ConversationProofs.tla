------------------------- MODULE ConversationProofs -------------------------
(***************************************************************************)
(* Proofs about Conversation, for every set of users, every number of       *)
(* rounds, texts, calls and restarts.                                       *)
(***************************************************************************)
EXTENDS Conversation, SequenceTheorems, TLAPS

-----------------------------------------------------------------------------
(* Type correctness. *)

LEMMA InitTypeOK == Init => TypeOK
  BY PeerAssumption, BoundsAssumption
  DEF Init, TypeOK, ConvoType, ConvoType, KeyType, ServiceType, ProcessType, Deposit, Nothing, Text, Blank, NoTexts, Rounds

LEMMA NextMessageType ==
  ASSUME TypeOK, NEW u \in Users, NEW r \in Rounds
  PROVE  NextMessage(u, r) \in Deposit
  <1>1. CoverMessage(u) \in Deposit
    BY DEF CoverMessage, Deposit, Text, Blank, TypeOK, ConvoType, KeyType
  <1>2. ASSUME outQueue[u] # <<>> PROVE TextMessage(u, r) \in Deposit
    <2>1. outQueue[u] \in Seq(Nat)
      BY DEF TypeOK, ConvoType
    <2>2. Len(outQueue[u]) \in Nat \ {0}
      BY <2>1, <1>2
    <2>3. NextOut(u) \in 0..(Len(outQueue[u]) - 1)
      <3>1. lastOut[u] \in Nat \/ lastOut[u] = -1
        BY DEF TypeOK, ConvoType
      <3> QED BY <2>2, <3>1 DEF NextOut
    <2>4. outQueue[u][NextOut(u) + 1] \in Nat
      BY <2>1, <2>2, <2>3
    <2>5. BaseIn(u, r) \in Nat
      BY BoundsAssumption DEF BaseIn, TypeOK, ConvoType, Rounds
    <2>6. (NextOut(u) = 0) \in BOOLEAN
      OBVIOUS
    <2>7. [inc |-> inc[u], rel |-> outQueue[u][NextOut(u) + 1]] \in Text
      BY <2>4 DEF Text, TypeOK, ProcessType
    <2>8. outQueue[u][NextOut(u) + 1] + BaseIn(u, r) \in Nat
      BY <2>4, <2>5
    <2>9. session[u] \in Nat /\ ack[u] \in Nat
      BY DEF TypeOK, ConvoType, KeyType
    <2> QED
      BY <2>6, <2>7, <2>8, <2>9, Zenon DEF TextMessage, Deposit
  <1> QED
    BY <1>1, <1>2 DEF NextMessage

\* Accept on a well-typed message: the texts it can display, and the end k of
\* the run it does display.
LEMMA QueuedTexts ==
  ASSUME TypeOK, NEW u \in Users, NEW m \in Deposit, IsNew(u, m)
  PROVE  /\ AckFloor(u, m) \in Nat /\ AckFloor(u, m) >= ack[u]
         /\ DOMAIN Queued(u, m) = DOMAIN inQueue[u] \cup {m.seq}
         /\ DOMAIN Queued(u, m) \subseteq Nat
         /\ \A s \in DOMAIN Queued(u, m) :
              /\ Queued(u, m)[s] \in Text
              /\ Queued(u, m)[s] = IF s = m.seq THEN m.text ELSE inQueue[u][s]
  <1>1. /\ m.seq \in Nat /\ m.seq > ack[u] /\ m.text \in Text /\ ack[u] \in Nat
    BY DEF TypeOK, ConvoType, Deposit, IsNew
  <1>2. AckFloor(u, m) \in Nat /\ AckFloor(u, m) >= ack[u]
    BY <1>1 DEF AckFloor
  <1> QED BY <1>1, <1>2 DEF Queued, With, TypeOK, ConvoType

LEMMA AcceptEffect ==
  ASSUME TypeOK, NEW u \in Users, NEW m \in Deposit, IsNew(u, m), Accept(u, m)
  PROVE  \E k \in Nat :
           /\ k >= AckFloor(u, m)
           /\ \A i \in (AckFloor(u, m) + 1)..k : i \in DOMAIN Queued(u, m)
           /\ ack'     = [ack EXCEPT ![u] = k]
           /\ inQueue' = [inQueue EXCEPT
                             ![u] = Without(Queued(u, m), (AckFloor(u, m) + 1)..k)]
           /\ \E disp \in Seq(Line) :
                /\ Len(disp) = k - AckFloor(u, m)
                /\ \A i \in 1..(k - AckFloor(u, m)) :
                      disp[i] = [by |-> inc[u], text |-> Queued(u, m)[AckFloor(u, m) + i]]
                /\ shown' = [shown EXCEPT ![u] = @ \o disp]
  <1> DEFINE queue == Queued(u, m)
             start == AckFloor(u, m)
  <1>1. PICK k \in {start} \cup DOMAIN queue :
          /\ EndsChain(queue, start, k)
          /\ ack'     = [ack EXCEPT ![u] = k]
          /\ inQueue' = [inQueue EXCEPT ![u] = Without(queue, (start + 1)..k)]
          /\ shown'   = [shown EXCEPT ![u] = @ \o DisplayMsgs(u, queue, start, k)]
    BY DEF Accept
  <1>2. k \in Nat /\ k >= start /\ start \in Nat
        /\ \A i \in (start + 1)..k : i \in DOMAIN queue
    BY <1>1, QueuedTexts DEF EndsChain
  <1> DEFINE disp == DisplayMsgs(u, queue, start, k)
  <1>3. k - start \in Nat
    BY <1>2
  <1>4. \A i \in 1..(k - start) : [by |-> inc[u], text |-> queue[start + i]] \in Line
    <2> TAKE i \in 1..(k - start)
    <2>1. start + i \in (start + 1)..k
      BY <1>2
    <2>2. queue[start + i] \in Text
      BY <1>2, <2>1, QueuedTexts
    <2>3. inc[u] \in Nat
      BY DEF TypeOK, ProcessType
    <2> QED BY <2>2, <2>3 DEF Line
  <1>5. disp \in [1..(k - start) -> Line]
    BY <1>4 DEF DisplayMsgs
  <1>6. disp \in Seq(Line)
    BY <1>3, <1>5, SeqDef
  <1>7. Len(disp) = k - start
    BY <1>3, <1>5, <1>6, LenProperties
  <1>8. \A i \in 1..(k - start) : disp[i] = [by |-> inc[u], text |-> queue[start + i]]
    BY DEF DisplayMsgs
  <1> HIDE DEF disp, queue, start
  <1>9. \E d \in Seq(Line) :
                /\ Len(d) = k - start
                /\ \A i \in 1..(k - start) :
                      d[i] = [by |-> inc[u], text |-> queue[start + i]]
                /\ shown' = [shown EXCEPT ![u] = @ \o d]
    BY <1>1, <1>6, <1>7, <1>8 DEF disp
  <1> QED BY <1>1, <1>2, <1>9 DEF queue, start

LEMMA AcceptType ==
  ASSUME TypeOK, NEW u \in Users, NEW m \in Deposit, IsNew(u, m), Accept(u, m)
  PROVE  /\ ack' \in [Users -> Nat]
         /\ DOMAIN inQueue' = Users
         /\ \A v \in Users : DOMAIN inQueue'[v] \subseteq Nat
                          /\ \A s \in DOMAIN inQueue'[v] : inQueue'[v][s] \in Text
         /\ shown' \in [Users -> Seq(Line)]
  <1> DEFINE queue == Queued(u, m)
             start == AckFloor(u, m)
  <1>1. /\ DOMAIN queue \subseteq Nat
        /\ \A s \in DOMAIN queue : queue[s] \in Text
    BY QueuedTexts
  <1>2. PICK k \in Nat :
          /\ k >= start
          /\ \A i \in (start + 1)..k : i \in DOMAIN queue
          /\ ack'     = [ack EXCEPT ![u] = k]
          /\ inQueue' = [inQueue EXCEPT ![u] = Without(queue, (start + 1)..k)]
          /\ \E disp \in Seq(Line) :
                /\ Len(disp) = k - start
                /\ \A i \in 1..(k - start) :
                      disp[i] = [by |-> inc[u], text |-> queue[start + i]]
                /\ shown' = [shown EXCEPT ![u] = @ \o disp]
    BY AcceptEffect
  <1> HIDE DEF queue, start
  <1>3. ack' \in [Users -> Nat]
    BY <1>2 DEF TypeOK, ConvoType
  <1>4. DOMAIN inQueue' = Users
    BY <1>2 DEF TypeOK, ConvoType
  <1>5. \A v \in Users : DOMAIN inQueue'[v] \subseteq Nat
                      /\ \A s \in DOMAIN inQueue'[v] : inQueue'[v][s] \in Text
    BY <1>1, <1>2 DEF Without, TypeOK, ConvoType
  <1>6. shown[u] \in Seq(Line)
    BY DEF TypeOK, ConvoType
  <1>7. PICK disp \in Seq(Line) : shown' = [shown EXCEPT ![u] = @ \o disp]
    BY <1>2
  <1>a. shown[u] \o disp \in Seq(Line)
    BY <1>6, ConcatProperties
  <1>8. shown' \in [Users -> Seq(Line)]
    BY <1>7, <1>a DEF TypeOK, ConvoType
  <1> QED BY <1>3, <1>4, <1>5, <1>8

LEMMA RemoveAckedType ==
  ASSUME TypeOK, NEW u \in Users, NEW n \in 0..Len(outQueue[u]), RemoveAcked(u, n)
  PROVE  /\ outQueue' \in [Users -> Seq(Nat)]
         /\ lastOut' \in [Users -> Nat \cup {-1}]
  <1>1. outQueue[u] \in Seq(Nat) /\ n \in Nat /\ Len(outQueue[u]) \in Nat
    BY DEF TypeOK, ConvoType
  <1>2. \A i \in (n + 1)..Len(outQueue[u]) : outQueue[u][i] \in Nat
    BY <1>1, ElementOfSeq
  <1>3. SubSeq(outQueue[u], n + 1, Len(outQueue[u])) \in Seq(Nat)
    BY <1>1, <1>2, SubSeqProperties
  <1>4. lastOut[u] \in Nat \/ lastOut[u] = -1
    BY DEF TypeOK, ConvoType
  <1>5. (IF lastOut[u] > n THEN lastOut[u] - n ELSE IF lastOut[u] > 0 THEN 0 ELSE lastOut[u])
           \in Nat \cup {-1}
    BY <1>1, <1>4
  <1>6. outQueue' \in [Users -> Seq(Nat)]
    BY <1>3 DEF RemoveAcked, TypeOK, ConvoType
  <1>7. lastOut' \in [Users -> Nat \cup {-1}]
    BY <1>5 DEF RemoveAcked, TypeOK, ConvoType
  <1> QED BY <1>6, <1>7

LEMMA NothingType == \A u \in Users : Nothing(u) \in Deposit
  BY DEF Nothing, Deposit, Text, Blank

LEMMA activateType ==
  ASSUME TypeOK, NEW u \in Users, NEW wheel \in Nat, activateConvo(u, wheel),
         UNCHANGED shown
  PROVE  /\ ConvoType'
         /\ session' \in [Users -> Nat] /\ sessionKeyRound' \in [Users -> Nat]
         /\ rounds' \in [Users -> SUBSET Rounds]
  <1>1. ConvoType'
    BY DEF activateConvo, TypeOK, ConvoType
  <1>2. session' \in [Users -> Nat] /\ sessionKeyRound' \in [Users -> Nat]
    BY DEF activateConvo, TypeOK, KeyType
  <1>3. rounds' \in [Users -> SUBSET Rounds]
    BY DEF activateConvo, TypeOK, KeyType
  <1> QED BY <1>1, <1>2, <1>3

LEMMA OutgoingType ==
  ASSUME TypeOK, NEW u \in Users, NEW r \in Rounds, NEW sent \in BOOLEAN, Outgoing(u, r, sent)
  PROVE  TypeOK'
  <1>1. r \in Nat /\ BaseIn(u, r) \in Nat
    BY BoundsAssumption DEF Rounds, BaseIn, TypeOK, ConvoType
  <1>2. NextOut(u) \in Nat
    <2>1. lastOut[u] \in Nat \/ lastOut[u] = -1
      BY DEF TypeOK, ConvoType
    <2> QED BY <2>1 DEF NextOut
  <1>3. seqBase' \in [Users -> Nat]
    <2>1. seqBase \in [Users -> Nat]
      BY DEF TypeOK, ConvoType
    <2>2. seqBase' = seqBase \/ seqBase' = [seqBase EXCEPT ![u] = BaseIn(u, r)]
      BY DEF Outgoing
    <2> QED BY <1>1, <2>1, <2>2
  <1>4. lastOut' \in [Users -> Nat \cup {-1}]
    <2>1. lastOut \in [Users -> Nat \cup {-1}]
      BY DEF TypeOK, ConvoType
    <2>2. lastOut' = lastOut \/ lastOut' = [lastOut EXCEPT ![u] = NextOut(u)]
      BY DEF Outgoing
    <2> QED BY <1>2, <2>1, <2>2
  <1>5. ConvoType'
    BY <1>3, <1>4 DEF Outgoing, TypeOK, ConvoType
  <1>6. sessionKeyRound' \in [Users -> Nat]
    <2>1. sessionKeyRound \in [Users -> Nat]
      BY DEF TypeOK, KeyType
    <2>2. sessionKeyRound' = sessionKeyRound \/ sessionKeyRound' = [sessionKeyRound EXCEPT ![u] = r]
      BY DEF Outgoing
    <2> QED BY <1>1, <2>1, <2>2
  <1>7. rounds' \in [Users -> SUBSET Rounds]
    <2>1. rounds \in [Users -> SUBSET Rounds]
      BY DEF TypeOK, KeyType
    <2>2. rounds' = rounds \/ rounds' = [rounds EXCEPT ![u] = @ \cup {r}]
      BY DEF Outgoing
    <2> QED BY <2>1, <2>2
  <1>8. KeyType'
    BY <1>6, <1>7 DEF Outgoing, TypeOK, KeyType, callVars
  <1>9. drop' \in [Rounds -> [Users -> Deposit]]
    <2>1. drop \in [Rounds -> [Users -> Deposit]]
      BY DEF TypeOK, ServiceType
    <2>2. drop' = drop \/ drop' = [drop EXCEPT ![r][u] = NextMessage(u, r)]
      BY DEF Outgoing
    <2> QED BY <2>1, <2>2, NextMessageType
  <1>10. ServiceType'
    BY <1>9 DEF Outgoing, TypeOK, ServiceType, serviceVars
  <1>11. ProcessType'
    BY DEF Outgoing, TypeOK, ProcessType
  <1> QED BY <1>5, <1>8, <1>10, <1>11 DEF TypeOK

LEMMA ReplyType ==
  ASSUME TypeOK, NEW u \in Users, NEW r \in Rounds, Reply(u, r)
  PROVE  TypeOK'
  <1> DEFINE m == mail[u][r]
  <1>1. m \in Deposit
    BY DEF TypeOK, ServiceType
  <1>2. ConvoType'
    <2>1. CASE r \notin rounds[u] \/ OwnMessage(u, m)
      <3>1. UNCHANGED <<outQueue, lastOut, inQueue, ack, shown>>
        BY <2>1 DEF Reply
      <3> QED BY <3>1 DEF Reply, TypeOK, ConvoType
    <2>2. CASE ~(r \notin rounds[u] \/ OwnMessage(u, m))
      <3>1. Receive(u, m)
        BY <2>2 DEF Reply
      <3>2. PICK n \in 0..Len(outQueue[u]) : RemoveAcked(u, n)
        BY <3>1 DEF Receive
      <3>3. outQueue' \in [Users -> Seq(Nat)] /\ lastOut' \in [Users -> Nat \cup {-1}]
        BY <3>2, RemoveAckedType
      <3>4. /\ ack' \in [Users -> Nat]
            /\ DOMAIN inQueue' = Users
            /\ \A v \in Users : DOMAIN inQueue'[v] \subseteq Nat
                             /\ \A s \in DOMAIN inQueue'[v] : inQueue'[v][s] \in Text
            /\ shown' \in [Users -> Seq(Line)]
        <4>1. CASE IsNew(u, m)
          BY <1>1, <3>1, <4>1, AcceptType DEF Receive
        <4>2. CASE ~IsNew(u, m)
          <5>1. UNCHANGED <<inQueue, ack, shown>>
            BY <3>1, <4>2 DEF Receive
          <5> QED BY <5>1 DEF TypeOK, ConvoType
        <4> QED BY <4>1, <4>2
      <3> QED BY <3>3, <3>4 DEF Reply, TypeOK, ConvoType
    <2> QED BY <2>1, <2>2
  <1>3. mail' \in [Users -> [Rounds -> Deposit]]
    BY NothingType DEF Reply, TypeOK, ServiceType
  <1>4. rounds' \in [Users -> SUBSET Rounds]
    BY DEF Reply, ForgetRounds, TypeOK, KeyType
  <1>5. KeyType'
    BY <1>4 DEF Reply, TypeOK, KeyType, callVars
  <1>6. ServiceType'
    BY <1>3 DEF Reply, TypeOK, ServiceType, serviceVars
  <1>7. ProcessType'
    BY DEF Reply, TypeOK, ProcessType, processVars
  <1> QED BY <1>2, <1>5, <1>6, <1>7 DEF TypeOK

LEMMA RestartType ==
  ASSUME TypeOK, NEW u \in Users, Restart(u)
  PROVE  TypeOK'
  <1>1. mail' \in [Users -> [Rounds -> Deposit]]
    BY NothingType DEF Restart, TypeOK, ServiceType
  <1>2. ServiceType'
    BY <1>1 DEF Restart, TypeOK, ServiceType, serviceVars
  <1>3. floor' \in [Users -> Nat]
    BY BoundsAssumption DEF Restart, TypeOK, ServiceType, ProcessType
  <1>4. done' \in [Users -> SUBSET Rounds] /\ inc' \in [Users -> Nat]
    BY DEF Restart, TypeOK, ProcessType
  <1>5. /\ DOMAIN inQueue' = Users
        /\ \A v \in Users : DOMAIN inQueue'[v] \subseteq Nat
                         /\ \A s \in DOMAIN inQueue'[v] : inQueue'[v][s] \in Text
    BY DEF Restart, TypeOK, ConvoType, NoTexts
  <1>6. ConvoType'
    BY <1>5 DEF Restart, TypeOK, ConvoType
  <1>7. KeyType'
    BY DEF Restart, TypeOK, KeyType, callVars
  <1> QED BY <1>2, <1>3, <1>4, <1>6, <1>7 DEF TypeOK, ProcessType

LEMMA NextTypeOK == TypeOK /\ [Next]_vars => TypeOK'
  <1> SUFFICES ASSUME TypeOK, [Next]_vars PROVE TypeOK'
    OBVIOUS
  <1>1. CASE Announce
    <2>1. latest' \in 0..MaxRound
      BY <1>1, BoundsAssumption DEF Announce, TypeOK, ServiceType
    <2>2. ServiceType'
      BY <1>1, <2>1 DEF Announce, TypeOK, ServiceType
    <2>3. ConvoType' /\ KeyType' /\ ProcessType'
      BY <1>1 DEF Announce, TypeOK, ConvoType, KeyType, ProcessType,
                  convoVars, keyVars, callVars, processVars
    <2> QED BY <2>2, <2>3 DEF TypeOK
  <1>2. ASSUME NEW r \in Rounds, Mix(r) PROVE TypeOK'
    <2>1. \A u \in Users : Exchanged(u, r) \in Deposit
      BY PeerAssumption DEF Exchanged, TypeOK, ServiceType
    <2>2. mail' \in [Users -> [Rounds -> Deposit]]
      BY <1>2, <2>1 DEF Mix, TypeOK, ServiceType
    <2>3. drop' \in [Rounds -> [Users -> Deposit]]
      BY <1>2, NothingType DEF Mix, TypeOK, ServiceType
    <2>4. ServiceType'
      BY <1>2, <2>2, <2>3 DEF Mix, TypeOK, ServiceType
    <2>5. ConvoType' /\ KeyType' /\ ProcessType'
      BY <1>2 DEF Mix, TypeOK, ConvoType, KeyType, ProcessType,
                  convoVars, keyVars, callVars, processVars
    <2> QED BY <2>4, <2>5 DEF TypeOK
  <1>3. ASSUME NEW u \in Users, SendingCall(u) PROVE TypeOK'
    <2>1. calls' \in Nat /\ calls + 1 \in Nat /\ activateConvo(u, calls + 1) /\ UNCHANGED shown
      BY <1>3 DEF SendingCall, TypeOK, KeyType
    <2>2. ringing' \in [Users -> SUBSET Nat]
      <3>1. Peer[u] \in Users /\ ringing \in [Users -> SUBSET Nat]
        BY PeerAssumption DEF TypeOK, KeyType
      <3>2. ringing[Peer[u]] \cup {calls + 1} \in SUBSET Nat
        BY <2>1, <3>1
      <3> QED BY <1>3, <3>1, <3>2 DEF SendingCall
    <2>3. ServiceType' /\ ProcessType'
      BY <1>3 DEF SendingCall, TypeOK, ServiceType, ProcessType, serviceVars, processVars
    <2> QED BY <2>1, <2>2, <2>3, activateType DEF TypeOK, KeyType
  <1>4. ASSUME NEW u \in Users, NEW wheel \in 1..MaxCalls, ReceivedCall(u, wheel)
        PROVE  TypeOK'
    <2>1. calls' \in Nat /\ wheel \in Nat /\ activateConvo(u, wheel) /\ UNCHANGED shown
      BY <1>4, BoundsAssumption DEF ReceivedCall, TypeOK, KeyType
    <2>2. ringing' \in [Users -> SUBSET Nat]
      BY <1>4 DEF ReceivedCall, TypeOK, KeyType
    <2>3. ServiceType' /\ ProcessType'
      BY <1>4 DEF ReceivedCall, TypeOK, ServiceType, ProcessType, serviceVars, processVars
    <2> QED BY <2>1, <2>2, <2>3, activateType DEF TypeOK, KeyType
  <1>5. ASSUME NEW u \in Users, QueueTextMessage(u) PROVE TypeOK'
    <2>1. ConvoType'
      BY <1>5 DEF QueueTextMessage, TypeOK, ConvoType
    <2>2. KeyType' /\ ServiceType' /\ ProcessType'
      BY <1>5 DEF QueueTextMessage, TypeOK, KeyType, ServiceType, ProcessType,
                  keyVars, callVars, serviceVars, processVars
    <2> QED BY <2>1, <2>2 DEF TypeOK
  <1>6. ASSUME NEW u \in Users, NEW r \in Rounds, NEW sent \in BOOLEAN, Outgoing(u, r, sent)
        PROVE  TypeOK'
    BY <1>6, OutgoingType
  <1>7. ASSUME NEW u \in Users, NEW r \in Rounds, Reply(u, r) PROVE TypeOK'
    BY <1>7, ReplyType
  <1>8. ASSUME NEW u \in Users, Restart(u) PROVE TypeOK'
    BY <1>8, RestartType
  <1>9. CASE UNCHANGED vars
    BY <1>9 DEF vars, TypeOK, ConvoType, KeyType, ServiceType, ProcessType,
                convoVars, keyVars, callVars, serviceVars, processVars
  <1> QED
    BY <1>1, <1>2, <1>3, <1>4, <1>5, <1>6, <1>7, <1>8, <1>9 DEF Next

\* Every reachable state of the conversation protocol is well typed: queues
\* hold numbers, lastOut never falls below -1, and what is in a dead drop or
\* a reply is a message.
THEOREM TypeCorrect == Spec => []TypeOK
  BY InitTypeOK, NextTypeOK, PTL DEF Spec

-----------------------------------------------------------------------------
(* No text is lost as long as its sender's process lives. *)

LEMMA InitDelivery == Init => DeliveryInv
  <1> SUFFICES ASSUME Init PROVE DeliveryInv
    OBVIOUS
  <1>1. OriginInv
    BY DEF Init, OriginInv, Nothing
  <1>2. ASSUME NEW u \in Users PROVE QueueInv(u) /\ DirectionInv(u)
    <2>1. Peer[u] \in Users
      BY PeerAssumption
    <2>2. QueueInv(u) /\ Confirmed(u) = 0
      BY DEF Init, QueueInv, Confirmed
    <2>3. SeenBelow(u, Confirmed(u))
      BY <2>2 DEF SeenBelow
    <2>4. AckInv(u, 0) /\ ack[Peer[u]] = 0
      BY <2>1 DEF Init, AckInv
    <2>5. \A w \in Users : MessageInv(u, Nothing(w))
      BY <2>4 DEF MessageInv, Nothing
    <2>6. DOMAIN inQueue[Peer[u]] = {}
      BY <2>1 DEF Init, NoTexts
    <2>7. \A r \in Rounds, w \in Users : drop[r][w] = Nothing(w) /\ mail[w][r] = Nothing(w)
      BY DEF Init
    <2> QED BY <2>2, <2>3, <2>4, <2>5, <2>6, <2>7 DEF DirectionInv
  <1> QED BY <1>1, <1>2 DEF DeliveryInv

\* The parts of the invariant survive a step that keeps u's base and only
\* adds to what the peer has seen.
LEMMA Monotone ==
  ASSUME NEW u \in Users, seqBase'[u] = seqBase[u],
         \A k : Displayed(Peer[u], 0, k) => Displayed(Peer[u], 0, k)'
  PROVE  /\ SeenBelow(u, Confirmed(u)') => SeenBelow(u, Confirmed(u))'
         /\ AckInv(u, ack'[Peer[u]]) => AckInv(u, ack[Peer[u]])'
         /\ (\A x \in DOMAIN inQueue'[Peer[u]] : TextInv(u, x, inQueue'[Peer[u]][x]))
              => (\A x \in DOMAIN inQueue[Peer[u]] : TextInv(u, x, inQueue[Peer[u]][x]))'
         /\ (\A q \in Rounds, w \in Users :
                MessageInv(u, drop'[q][w]) /\ MessageInv(u, mail'[w][q]))
              => (\A q \in Rounds, w \in Users :
                    MessageInv(u, drop[q][w]) /\ MessageInv(u, mail[w][q]))'
  <1>1. SeenBelow(u, Confirmed(u)') => SeenBelow(u, Confirmed(u))'
    BY DEF SeenBelow
  <1>2. AckInv(u, ack'[Peer[u]]) => AckInv(u, ack[Peer[u]])'
    BY DEF AckInv
  <1>3. (\A x \in DOMAIN inQueue'[Peer[u]] : TextInv(u, x, inQueue'[Peer[u]][x]))
           => (\A x \in DOMAIN inQueue[Peer[u]] : TextInv(u, x, inQueue[Peer[u]][x]))'
    BY DEF TextInv
  <1>4. ASSUME NEW q \in Rounds, NEW w \in Users, MessageInv(u, drop'[q][w])
        PROVE  MessageInv(u, drop[q][w])'
    BY <1>4 DEF MessageInv, TextInv, SeenBelow, AckInv
  <1>5. ASSUME NEW q \in Rounds, NEW w \in Users, MessageInv(u, mail'[w][q])
        PROVE  MessageInv(u, mail[w][q])'
    BY <1>5 DEF MessageInv, TextInv, SeenBelow, AckInv
  <1>6. ASSUME \A q \in Rounds, w \in Users :
                 MessageInv(u, drop'[q][w]) /\ MessageInv(u, mail'[w][q])
        PROVE (\A q \in Rounds, w \in Users :
                    MessageInv(u, drop[q][w]) /\ MessageInv(u, mail[w][q]))'
    BY <1>4, <1>5, <1>6
  <1> QED BY <1>1, <1>2, <1>3, <1>6

\* A step after which the pieces hold, read with the old base and the old
\* display, re-establishes the invariant.
LEMMA DirectionStep ==
  ASSUME NEW u \in Users, seqBase'[u] = seqBase[u],
         \A k : Displayed(Peer[u], 0, k) => Displayed(Peer[u], 0, k)',
         SeenBelow(u, Confirmed(u)'),
         AckInv(u, ack'[Peer[u]]),
         \A x \in DOMAIN inQueue'[Peer[u]] : TextInv(u, x, inQueue'[Peer[u]][x]),
         \A q \in Rounds, w \in Users :
            MessageInv(u, drop'[q][w]) /\ MessageInv(u, mail'[w][q])
  PROVE  DirectionInv(u)'
  BY Monotone DEF DirectionInv

LEMMA SameShown ==
  ASSUME UNCHANGED shown
  PROVE  \A v, i, k : Displayed(v, i, k) => Displayed(v, i, k)'
  BY DEF Displayed

\* Nothing in a drop or a reply says nothing.
LEMMA NothingInv ==
  ASSUME TypeOK, NEW u \in Users, NEW w \in Users
  PROVE  MessageInv(u, Nothing(w))
  BY DEF MessageInv, Nothing, AckInv, TypeOK, ConvoType

\* Steps that leave the queues, the acknowledgements and the network alone.
LEMMA DeliveryFrame ==
  ASSUME DeliveryInv,
         UNCHANGED <<outQueue, inQueue, relativeSeq, seqBase, ack, drop, mail, inc, shown>>
  PROVE  DeliveryInv'
  <1>1. OriginInv'
    BY DEF DeliveryInv, OriginInv
  <1>2. ASSUME NEW u \in Users PROVE QueueInv(u)' /\ Confirmed(u)' = Confirmed(u)
    BY DEF DeliveryInv, QueueInv, Confirmed
  <1>3. ASSUME NEW u \in Users, inc'[u] = 0 PROVE DirectionInv(u)'
    <2>1. DirectionInv(u)
      BY <1>3 DEF DeliveryInv
    <2> QED BY <1>2, <2>1, SameShown, DirectionStep DEF DirectionInv
  <1> QED BY <1>1, <1>2, <1>3 DEF DeliveryInv

\* Queueing a text adds it at the back.
LEMMA ConfirmedQueueText ==
  ASSUME TypeOK, DeliveryInv, NEW w \in Users, QueueTextMessage(w), NEW u \in Users
  PROVE  QueueInv(u)' /\ Confirmed(u)' = Confirmed(u)
  <1>1. QueueInv(u) /\ outQueue[u] \in Seq(Nat) /\ relativeSeq[u] \in Nat
    BY DEF DeliveryInv, TypeOK, ConvoType
  <1>2. CASE u = w
    <2>1. /\ outQueue'[u] = Append(outQueue[u], relativeSeq[u])
          /\ relativeSeq'[u] = relativeSeq[u] + 1
      BY <1>2 DEF QueueTextMessage, TypeOK, ConvoType
    <2>2. /\ Len(outQueue'[u]) = Len(outQueue[u]) + 1
          /\ \A i \in 1..Len(outQueue[u]) : outQueue'[u][i] = outQueue[u][i]
          /\ outQueue'[u][Len(outQueue[u]) + 1] = relativeSeq[u]
          /\ Len(outQueue[u]) \in Nat
      BY <1>1, <2>1
    <2>3. Confirmed(u)' = Confirmed(u)
      <3>1. relativeSeq'[u] = relativeSeq[u] + 1 /\ relativeSeq[u] \in Nat
        BY <1>1, <2>1
      <3>2. Len(outQueue'[u]) = Len(outQueue[u]) + 1 /\ Len(outQueue[u]) \in Nat
        BY <2>2
      <3> QED BY <3>1, <3>2 DEF Confirmed
    <2>4. ASSUME NEW i \in 1..Len(outQueue'[u])
          PROVE  outQueue'[u][i] = Confirmed(u) + i - 1
      <3>1. CASE i = Len(outQueue[u]) + 1
        BY <1>1, <2>2, <3>1 DEF QueueInv, Confirmed
      <3>2. CASE i # Len(outQueue[u]) + 1
        <4>1. i \in 1..Len(outQueue[u])
          BY <2>2, <3>2
        <4> QED BY <1>1, <2>2, <4>1 DEF QueueInv
      <3> QED BY <3>1, <3>2
    <2>5. Len(outQueue'[u]) <= relativeSeq'[u]
      BY <1>1, <2>1, <2>2 DEF QueueInv
    <2> QED BY <2>3, <2>4, <2>5 DEF QueueInv
  <1>3. CASE u # w
    <2>1. outQueue'[u] = outQueue[u] /\ relativeSeq'[u] = relativeSeq[u]
      BY <1>3 DEF QueueTextMessage, TypeOK, ConvoType
    <2> QED BY <1>1, <2>1 DEF QueueInv, Confirmed
  <1> QED BY <1>2, <1>3

LEMMA DeliveryQueueText ==
  ASSUME TypeOK, DeliveryInv, NEW w \in Users, QueueTextMessage(w)
  PROVE  DeliveryInv'
  <1>1. OriginInv'
    BY DEF DeliveryInv, OriginInv, QueueTextMessage
  <1>2. ASSUME NEW u \in Users PROVE QueueInv(u)' /\ Confirmed(u)' = Confirmed(u)
    BY ConfirmedQueueText
  <1>3. ASSUME NEW u \in Users, inc'[u] = 0 PROVE DirectionInv(u)'
    <2>1. DirectionInv(u)
      BY <1>3 DEF DeliveryInv, QueueTextMessage, processVars
    <2>2. UNCHANGED <<inQueue, seqBase, ack, drop, mail, shown>>
      BY DEF QueueTextMessage
    <2> QED BY <1>2, <2>1, <2>2, SameShown, DirectionStep DEF DirectionInv
  <1> QED BY <1>1, <1>2, <1>3 DEF DeliveryInv

LEMMA DeliveryMix ==
  ASSUME TypeOK, DeliveryInv, NEW r \in Rounds, Mix(r)
  PROVE  DeliveryInv'
  <1>1. /\ UNCHANGED <<outQueue, inQueue, relativeSeq, seqBase, ack, inc, shown>>
        /\ mail' = [w \in Users |-> [mail[w] EXCEPT ![r] = Exchanged(w, r)]]
        /\ drop' = [drop EXCEPT ![r] = [w \in Users |-> Nothing(w)]]
    BY DEF Mix, convoVars, processVars
  <1>2. ASSUME NEW q \in Rounds, NEW w \in Users
        PROVE  /\ drop'[q][w] = drop[q][w] \/ drop'[q][w] = Nothing(w)
               /\ \/ mail'[w][q] = mail[w][q]
                  \/ mail'[w][q] = drop[q][w]
                  \/ mail'[w][q] = drop[q][Peer[w]]
    <2>1. drop \in [Rounds -> [Users -> Deposit]] /\ mail \in [Users -> [Rounds -> Deposit]]
      BY DEF TypeOK, ServiceType
    <2>2. drop'[q][w] = drop[q][w] \/ drop'[q][w] = Nothing(w)
      BY <1>1, <2>1
    <2>3. mail'[w][q] = mail[w][q] \/ (q = r /\ mail'[w][q] = Exchanged(w, q))
      BY <1>1, <2>1
    <2> QED BY <2>2, <2>3 DEF Exchanged
  <1>3. OriginInv'
    <2> SUFFICES ASSUME NEW q \in Rounds, NEW w \in Users
                 PROVE  drop'[q][w].from = w /\ mail'[w][q].from \in {w, Peer[w]}
      BY DEF OriginInv
    <2>1. /\ drop[q][w].from = w /\ drop[q][Peer[w]].from = Peer[w]
          /\ mail[w][q].from \in {w, Peer[w]}
      BY PeerAssumption DEF DeliveryInv, OriginInv
    <2>2. Nothing(w).from = w
      BY DEF Nothing
    <2>3. drop'[q][w] = drop[q][w] \/ drop'[q][w] = Nothing(w)
      BY <1>2
    <2>4. \/ mail'[w][q] = mail[w][q]
          \/ mail'[w][q] = drop[q][w]
          \/ mail'[w][q] = drop[q][Peer[w]]
      BY <1>2
    <2> QED BY <2>1, <2>2, <2>3, <2>4
  <1>4. ASSUME NEW u \in Users PROVE QueueInv(u)'
    BY <1>1 DEF DeliveryInv, QueueInv, Confirmed
  <1>5. ASSUME NEW u \in Users, inc'[u] = 0 PROVE DirectionInv(u)'
    <2>1. DirectionInv(u)
      BY <1>1, <1>5 DEF DeliveryInv
    <2>2. Confirmed(u)' = Confirmed(u)
      BY <1>1 DEF Confirmed
    <2>6. ASSUME NEW q \in Rounds, NEW w \in Users
          PROVE  MessageInv(u, drop'[q][w]) /\ MessageInv(u, mail'[w][q])
      <3>1. MessageInv(u, drop[q][w]) /\ MessageInv(u, drop[q][Peer[w]]) /\ MessageInv(u, mail[w][q])
        BY <2>1, PeerAssumption DEF DirectionInv
      <3> QED BY <1>2, <3>1, NothingInv
    <2> QED BY <1>1, <2>1, <2>2, <2>6, SameShown, DirectionStep DEF DirectionInv
  <1> QED BY <1>3, <1>4, <1>5 DEF DeliveryInv

\* What u sends in round r.
LEMMA OutMessage ==
  ASSUME TypeOK, DeliveryInv, NEW u \in Users, NEW r \in Rounds
  PROVE  LET m == NextMessage(u, r)
         IN  /\ m.from = u /\ m.ack = ack[u]
             /\ m.seq # 0 =>
                  /\ outQueue[u] # <<>>
                  /\ BaseIn(u, r) \in Nat /\ BaseIn(u, r) > 0
                  /\ m.seq >= BaseIn(u, r)
                  /\ m.text = [inc |-> inc[u], rel |-> m.seq - BaseIn(u, r)]
                  /\ m.lowest => m.seq - BaseIn(u, r) = Confirmed(u)
  <1> DEFINE m == NextMessage(u, r)
  <1>1. CASE outQueue[u] = <<>>
    BY <1>1 DEF NextMessage, CoverMessage
  <1>2. CASE outQueue[u] # <<>>
    <2> DEFINE rel == outQueue[u][NextOut(u) + 1]
    <2>1. outQueue[u] \in Seq(Nat) /\ Len(outQueue[u]) \in Nat \ {0}
      BY <1>2 DEF TypeOK, ConvoType
    <2>2. NextOut(u) \in 0..(Len(outQueue[u]) - 1)
      <3>1. lastOut[u] \in Nat \/ lastOut[u] = -1
        BY DEF TypeOK, ConvoType
      <3> QED BY <2>1, <3>1 DEF NextOut
    <2>3. rel \in Nat
      BY <2>1, <2>2
    <2>4. NextOut(u) = 0 => rel = Confirmed(u)
      <3>1. QueueInv(u) /\ relativeSeq[u] \in Nat
        BY DEF DeliveryInv, TypeOK, ConvoType
      <3> QED BY <2>1, <3>1 DEF QueueInv, Confirmed
    <2>5. BaseIn(u, r) \in Nat /\ BaseIn(u, r) > 0
      BY BoundsAssumption DEF BaseIn, TypeOK, ConvoType, Rounds
    <2>6. /\ m.from = u /\ m.ack = ack[u] /\ m.seq = rel + BaseIn(u, r)
          /\ m.text = [inc |-> inc[u], rel |-> rel] /\ m.lowest = (NextOut(u) = 0)
      BY <1>2 DEF NextMessage, TextMessage
    <2> HIDE DEF m, rel
    <2>7. m.seq - BaseIn(u, r) = rel /\ m.seq >= BaseIn(u, r)
      BY <2>3, <2>5, <2>6
    <2> QED BY <1>2, <2>4, <2>5, <2>6, <2>7 DEF m
  <1> QED BY <1>1, <1>2

LEMMA DeliveryOutgoing ==
  ASSUME TypeOK, DeliveryInv, NEW w \in Users, NEW r \in Rounds, NEW sent \in BOOLEAN,
         Outgoing(w, r, sent)
  PROVE  DeliveryInv'
  <1> DEFINE m == NextMessage(w, r)
  <1>1. UNCHANGED <<outQueue, inQueue, relativeSeq, ack, mail, inc, shown>>
    BY DEF Outgoing
  <1>2. ASSUME NEW q \in Rounds, NEW x \in Users
        PROVE  drop'[q][x] = drop[q][x] \/ (q = r /\ x = w /\ drop'[q][x] = m)
    <2>1. drop \in [Rounds -> [Users -> Deposit]]
      BY DEF TypeOK, ServiceType
    <2>2. drop' = drop \/ drop' = [drop EXCEPT ![r][w] = m]
      BY DEF Outgoing
    <2> QED BY <2>1, <2>2
  <1>3. m.from = w /\ m.ack = ack[w]
    BY OutMessage
  <1>4. m.seq # 0 =>
                  /\ outQueue[w] # <<>>
                  /\ BaseIn(w, r) \in Nat /\ BaseIn(w, r) > 0
                  /\ m.seq >= BaseIn(w, r)
                  /\ m.text = [inc |-> inc[w], rel |-> m.seq - BaseIn(w, r)]
                  /\ m.lowest => m.seq - BaseIn(w, r) = Confirmed(w)
    BY OutMessage
  <1> HIDE DEF m
  <1>5. OriginInv'
    <2> SUFFICES ASSUME NEW q \in Rounds, NEW x \in Users
                 PROVE  drop'[q][x].from = x /\ mail'[x][q].from \in {x, Peer[x]}
      BY DEF OriginInv
    <2>1. drop[q][x].from = x /\ mail[x][q].from \in {x, Peer[x]}
      BY DEF DeliveryInv, OriginInv
    <2>2. drop'[q][x] = drop[q][x] \/ (x = w /\ drop'[q][x] = m)
      BY <1>2
    <2> QED BY <1>1, <1>3, <2>1, <2>2
  <1>6. ASSUME NEW u \in Users PROVE QueueInv(u)' /\ Confirmed(u)' = Confirmed(u)
    BY <1>1 DEF DeliveryInv, QueueInv, Confirmed
  <1>7. ASSUME NEW u \in Users
        PROVE  \/ seqBase'[u] = seqBase[u] /\ (u = w /\ outQueue[w] # <<>> => seqBase[u] = BaseIn(w, r))
               \/ u = w /\ seqBase[u] = 0 /\ seqBase'[u] = BaseIn(w, r)
    <2>1. seqBase \in [Users -> Nat]
      BY DEF TypeOK, ConvoType
    <2>2. \/ outQueue[w] = <<>> /\ seqBase' = seqBase
          \/ seqBase' = [seqBase EXCEPT ![w] = BaseIn(w, r)]
      BY DEF Outgoing
    <2> QED BY <2>1, <2>2 DEF BaseIn
  <1>8. ASSUME NEW u \in Users, inc'[u] = 0 PROVE DirectionInv(u)'
    <2>1. DirectionInv(u) /\ inc[u] = 0
      BY <1>1, <1>8 DEF DeliveryInv
    <2>2. CASE /\ seqBase'[u] = seqBase[u]
               /\ u = w /\ outQueue[w] # <<>> => seqBase[u] = BaseIn(w, r)
      <3>1. MessageInv(u, m)
        <4>1. ASSUME m.from = u, m.seq # 0
              PROVE  TextInv(u, m.seq, m.text) /\ (m.lowest => SeenBelow(u, m.seq - seqBase[u]))
          <5>1. u = w /\ seqBase[u] = BaseIn(w, r)
            BY <1>3, <1>4, <2>2, <4>1
          <5>2. SeenBelow(u, Confirmed(u))
            BY <2>1 DEF DirectionInv
          <5> QED BY <1>4, <2>1, <4>1, <5>1, <5>2 DEF TextInv
        <4>2. ASSUME m.from = Peer[u] PROVE AckInv(u, m.ack)
          BY <1>3, <2>1, <4>2 DEF DirectionInv
        <4> QED BY <4>1, <4>2 DEF MessageInv
      <3>2. ASSUME NEW q \in Rounds, NEW x \in Users
            PROVE  MessageInv(u, drop'[q][x]) /\ MessageInv(u, mail'[x][q])
        <4>1. MessageInv(u, drop[q][x]) /\ MessageInv(u, mail[x][q])
          BY <2>1 DEF DirectionInv
        <4>2. drop'[q][x] = drop[q][x] \/ drop'[q][x] = m
          BY <1>2
        <4> QED BY <1>1, <3>1, <4>1, <4>2
      <3> QED BY <1>1, <1>6, <2>1, <2>2, <3>2, SameShown, DirectionStep DEF DirectionInv
    <2>3. CASE u = w /\ seqBase[u] = 0 /\ seqBase'[u] = BaseIn(w, r)
      <3>1. BaseIn(w, r) \in Nat /\ BaseIn(w, r) > 0
        BY BoundsAssumption DEF BaseIn, TypeOK, ConvoType, Rounds
      <3>2. \A k : Displayed(Peer[u], 0, k) => Displayed(Peer[u], 0, k)'
        BY <1>1, SameShown
      <3>3. SeenBelow(u, Confirmed(u))'
        BY <1>6, <2>1, <3>2 DEF DirectionInv, SeenBelow
      <3>4. ack[Peer[u]] = 0 /\ DOMAIN inQueue[Peer[u]] = {}
        BY <2>1, <2>3 DEF DirectionInv, AckInv, TextInv
      <3>5. AckInv(u, ack[Peer[u]])'
        BY <1>1, <2>3, <3>1, <3>4 DEF AckInv
      <3>6. ASSUME NEW q \in Rounds, NEW x \in Users
            PROVE  MessageInv(u, drop[q][x])' /\ MessageInv(u, mail[x][q])'
        <4>1. MessageInv(u, drop[q][x]) /\ MessageInv(u, mail[x][q])
          BY <2>1 DEF DirectionInv
        <4>2. /\ drop[q][x].from = u => drop[q][x].seq = 0
              /\ drop[q][x].from = Peer[u] => drop[q][x].ack = 0
              /\ mail[x][q].from = u => mail[x][q].seq = 0
              /\ mail[x][q].from = Peer[u] => mail[x][q].ack = 0
          BY <2>3, <4>1 DEF MessageInv, TextInv, AckInv
        <4>3. MessageInv(u, mail[x][q])'
          BY <1>1, <2>3, <3>1, <4>2 DEF MessageInv, AckInv
        <4>4. ASSUME drop'[q][x] = drop[q][x] PROVE MessageInv(u, drop[q][x])'
          BY <2>3, <3>1, <4>2, <4>4 DEF MessageInv, AckInv
        <4>5. ASSUME drop'[q][x] = m PROVE MessageInv(u, drop[q][x])'
          <5>1. ASSUME m.seq # 0
                PROVE  /\ seqBase'[u] > 0 /\ m.seq >= seqBase'[u]
                       /\ m.text = [inc |-> 0, rel |-> m.seq - seqBase'[u]]
                       /\ m.lowest => m.seq - seqBase'[u] = Confirmed(u)
            BY <1>4, <2>1, <2>3, <3>1, <5>1
          <5>2. m.from = Peer[u] => m.ack = 0
            BY <1>3, <2>3, <3>4
          <5>3. \A k : k = Confirmed(u) => \A j \in 0..(k - 1) : Displayed(Peer[u], 0, j)'
            BY <1>6, <3>3 DEF SeenBelow
          <5>4. m.seq # 0 /\ m.lowest =>
                  \A j \in 0..(m.seq - seqBase'[u] - 1) : Displayed(Peer[u], 0, j)'
            BY <5>1, <5>3
          <5> QED BY <2>3, <3>1, <4>5, <5>1, <5>2, <5>4
                  DEF MessageInv, TextInv, AckInv, SeenBelow
        <4> QED BY <1>2, <4>3, <4>4, <4>5
      <3>7. (\A s \in DOMAIN inQueue[Peer[u]] : TextInv(u, s, inQueue[Peer[u]][s]))'
        BY <1>1, <3>4
      <3> QED BY <3>3, <3>5, <3>6, <3>7 DEF DirectionInv
    <2> QED BY <1>7, <2>2, <2>3
  <1> QED BY <1>5, <1>6, <1>8 DEF DeliveryInv

LEMMA DeliveryRestart ==
  ASSUME TypeOK, DeliveryInv, NEW w \in Users, Restart(w)
  PROVE  DeliveryInv'
  <1>1. UNCHANGED <<drop, shown>>
    BY DEF Restart
  <1>2. ASSUME NEW q \in Rounds, NEW x \in Users
        PROVE  mail'[x][q] = mail[x][q] \/ mail'[x][q] = Nothing(x)
    <2>1. mail \in [Users -> [Rounds -> Deposit]]
      BY DEF TypeOK, ServiceType
    <2> QED BY <2>1 DEF Restart
  <1>3. OriginInv'
    <2> SUFFICES ASSUME NEW q \in Rounds, NEW x \in Users
                 PROVE  drop'[q][x].from = x /\ mail'[x][q].from \in {x, Peer[x]}
      BY DEF OriginInv
    <2>1. drop[q][x].from = x /\ mail[x][q].from \in {x, Peer[x]}
      BY DEF DeliveryInv, OriginInv
    <2>2. Nothing(x).from = x
      BY DEF Nothing
    <2> QED BY <1>1, <1>2, <2>1, <2>2
  <1>4. ASSUME NEW u \in Users, u # w
        PROVE  /\ outQueue'[u] = outQueue[u] /\ relativeSeq'[u] = relativeSeq[u]
               /\ seqBase'[u] = seqBase[u] /\ inc'[u] = inc[u]
               /\ ack'[u] = ack[u] /\ inQueue'[u] = inQueue[u]
    BY <1>4 DEF Restart, TypeOK, ConvoType, ProcessType
  <1>5. /\ outQueue'[w] = <<>> /\ relativeSeq'[w] = 0 /\ ack'[w] = 0
        /\ inQueue'[w] = NoTexts /\ inc'[w] # 0
    BY DEF Restart, TypeOK, ConvoType, ProcessType
  <1>6. ASSUME NEW u \in Users PROVE QueueInv(u)'
    <2>1. CASE u = w
      BY <1>5, <2>1 DEF QueueInv, Confirmed
    <2>2. CASE u # w
      BY <1>4, <2>2 DEF DeliveryInv, QueueInv, Confirmed
    <2> QED BY <2>1, <2>2
  <1>7. ASSUME NEW u \in Users, inc'[u] = 0 PROVE DirectionInv(u)'
    <2>1. u # w
      BY <1>5, <1>7
    <2>2. DirectionInv(u) /\ Confirmed(u)' = Confirmed(u) /\ seqBase'[u] = seqBase[u]
      BY <1>4, <1>7, <2>1 DEF DeliveryInv, Confirmed
    <2>3. AckInv(u, 0)
      BY DEF AckInv, TypeOK, ConvoType
    <2>4. Peer[u] \in Users
      BY PeerAssumption
    <2>5. /\ AckInv(u, ack'[Peer[u]])
          /\ \A x \in DOMAIN inQueue'[Peer[u]] : TextInv(u, x, inQueue'[Peer[u]][x])
      <3>1. CASE Peer[u] = w
        <4>1. DOMAIN NoTexts = {}
          BY DEF NoTexts
        <4> QED BY <1>5, <2>3, <3>1, <4>1
      <3>2. CASE Peer[u] # w
        BY <1>4, <2>2, <2>4, <3>2 DEF DirectionInv
      <3> QED BY <3>1, <3>2
    <2>6. ASSUME NEW q \in Rounds, NEW x \in Users
          PROVE  MessageInv(u, drop'[q][x]) /\ MessageInv(u, mail'[x][q])
      <3>1. MessageInv(u, drop[q][x]) /\ MessageInv(u, mail[x][q]) /\ MessageInv(u, Nothing(x))
        BY <2>2, NothingInv DEF DirectionInv
      <3>2. mail'[x][q] = mail[x][q] \/ mail'[x][q] = Nothing(x)
        BY <1>2
      <3> QED BY <1>1, <3>1, <3>2
    <2>7. SeenBelow(u, Confirmed(u)')
      BY <2>2 DEF DirectionInv
    <2> QED BY <1>1, <2>2, <2>5, <2>6, <2>7, SameShown, DirectionStep
  <1> QED BY <1>3, <1>6, <1>7 DEF DeliveryInv

\* Displaying more lines to w keeps what was displayed and adds the new ones.
LEMMA ShownGrows ==
  ASSUME TypeOK, NEW w \in Users, NEW disp \in Seq(Line),
         shown' = [shown EXCEPT ![w] = @ \o disp]
  PROVE  /\ \A v \in Users : \A i, k : Displayed(v, i, k) => Displayed(v, i, k)'
         /\ \A n \in 1..Len(disp) : \A i, k :
              disp[n].text = [inc |-> i, rel |-> k] => Displayed(w, i, k)'
  <1>1. shown \in [Users -> Seq(Line)]
    BY DEF TypeOK, ConvoType
  <1> DEFINE old == shown[w]
             new == old \o disp
  <1>2. /\ new \in Seq(Line)
        /\ Len(new) = Len(old) + Len(disp)
        /\ \A i \in 1..(Len(old) + Len(disp)) :
             new[i] = IF i <= Len(old) THEN old[i] ELSE disp[i - Len(old)]
    BY <1>1, ConcatProperties
  <1>3. /\ Len(old) \in Nat /\ Len(disp) \in Nat
        /\ DOMAIN old = 1..Len(old) /\ DOMAIN new = 1..Len(new)
    BY <1>1, <1>2, LenProperties
  <1>4. shown'[w] = new /\ \A v \in Users \ {w} : shown'[v] = shown[v]
    BY <1>1
  <1> HIDE DEF new
  <1>5. ASSUME NEW n \in 1..Len(old) PROVE n \in DOMAIN shown'[w] /\ shown'[w][n] = shown[w][n]
    BY <1>2, <1>3, <1>4
  <1>6. ASSUME NEW n \in 1..Len(disp)
        PROVE  Len(old) + n \in DOMAIN shown'[w] /\ shown'[w][Len(old) + n] = disp[n]
    <2>1. Len(old) + n \in 1..(Len(old) + Len(disp)) /\ ~(Len(old) + n <= Len(old))
          /\ Len(old) + n - Len(old) = n
      BY <1>3
    <2> HIDE DEF old
    <2> QED BY <1>2, <1>3, <1>4, <2>1
  <1>7. ASSUME NEW v \in Users, NEW i, NEW k, Displayed(v, i, k) PROVE Displayed(v, i, k)'
    <2>1. PICK n \in DOMAIN shown[v] : shown[v][n].text = [inc |-> i, rel |-> k]
      BY <1>7 DEF Displayed
    <2>2. n \in DOMAIN shown'[v] /\ shown'[v][n] = shown[v][n]
      BY <1>3, <1>4, <1>5
    <2> QED BY <2>1, <2>2 DEF Displayed
  <1>8. ASSUME NEW n \in 1..Len(disp), NEW i, NEW k, disp[n].text = [inc |-> i, rel |-> k]
        PROVE  Displayed(w, i, k)'
    BY <1>6, <1>8 DEF Displayed
  <1> QED BY <1>7, <1>8

\* Removing the acknowledged prefix of a queue.
LEMMA RemoveAckedInv ==
  ASSUME TypeOK, DeliveryInv, NEW w \in Users, NEW n \in 0..Len(outQueue[w]),
         RemoveAcked(w, n), UNCHANGED relativeSeq
  PROVE  /\ \A u \in Users : QueueInv(u)'
         /\ \A u \in Users \ {w} : Confirmed(u)' = Confirmed(u)
         /\ Confirmed(w)' = Confirmed(w) + n
  <1>1. /\ outQueue \in [Users -> Seq(Nat)] /\ relativeSeq[w] \in Nat
        /\ n \in Nat /\ n <= Len(outQueue[w]) /\ Len(outQueue[w]) \in Nat
    BY DEF TypeOK, ConvoType
  <1>2. /\ outQueue'[w] = SubSeq(outQueue[w], n + 1, Len(outQueue[w]))
        /\ \A u \in Users \ {w} : outQueue'[u] = outQueue[u]
    BY <1>1 DEF RemoveAcked
  <1>3. \A u \in Users \ {w} : QueueInv(u)' /\ Confirmed(u)' = Confirmed(u)
    BY <1>2 DEF DeliveryInv, QueueInv, Confirmed
  <1>4. /\ Len(outQueue'[w]) = Len(outQueue[w]) - n
        /\ \A i \in 1..(Len(outQueue[w]) - n) : outQueue'[w][i] = outQueue[w][n + i]
    <2>1. \A i \in (n + 1)..Len(outQueue[w]) : outQueue[w][i] \in Nat
      BY <1>1
    <2>2. n + 1 \in Int /\ Len(outQueue[w]) \in Int
      BY <1>1
    <2>3. /\ Len(SubSeq(outQueue[w], n + 1, Len(outQueue[w])))
               = IF n + 1 <= Len(outQueue[w]) THEN Len(outQueue[w]) - (n + 1) + 1 ELSE 0
          /\ \A i \in 1..(Len(outQueue[w]) - (n + 1) + 1) :
               SubSeq(outQueue[w], n + 1, Len(outQueue[w]))[i] = outQueue[w][n + 1 + i - 1]
      BY <2>1, <2>2, SubSeqProperties
    <2>4. Len(outQueue[w]) - (n + 1) + 1 = Len(outQueue[w]) - n
      BY <1>1
    <2>5. \A i \in 1..(Len(outQueue[w]) - n) : n + 1 + i - 1 = n + i
      BY <1>1
    <2>6. (IF n + 1 <= Len(outQueue[w]) THEN Len(outQueue[w]) - (n + 1) + 1 ELSE 0)
            = Len(outQueue[w]) - n
      BY <1>1
    <2> QED BY <1>2, <2>3, <2>4, <2>5, <2>6
  <1>5. Confirmed(w)' = Confirmed(w) + n
    <2>1. Len(outQueue'[w]) = Len(outQueue[w]) - n /\ relativeSeq'[w] = relativeSeq[w]
      BY <1>4
    <2> QED BY <1>1, <2>1 DEF Confirmed
  <1>6. QueueInv(w)'
    <2>1. QueueInv(w) /\ Confirmed(w) \in Int
      BY <1>1 DEF DeliveryInv, Confirmed
    <2>2. Len(outQueue'[w]) <= relativeSeq'[w]
      BY <1>1, <1>4, <2>1 DEF QueueInv
    <2>3. ASSUME NEW i \in 1..Len(outQueue'[w])
          PROVE  outQueue'[w][i] = Confirmed(w) + n + i - 1
      <3>1. n + i \in 1..Len(outQueue[w]) /\ i \in 1..(Len(outQueue[w]) - n)
        BY <1>1, <1>4
      <3>2. outQueue[w][n + i] = Confirmed(w) + (n + i) - 1
        BY <2>1, <3>1 DEF QueueInv
      <3>3. outQueue'[w][i] = Confirmed(w) + (n + i) - 1
        BY <1>4, <3>1, <3>2
      <3> QED BY <1>1, <2>1, <3>1, <3>3
    <2> QED BY <1>5, <2>2, <2>3 DEF QueueInv
  <1> QED BY <1>3, <1>5, <1>6

\* The acknowledged texts have been seen.
LEMMA AckedSeen ==
  ASSUME TypeOK, DeliveryInv, NEW u \in Users, DirectionInv(u),
         NEW a, AckInv(u, a), NEW n \in 0..Len(outQueue[u]), AckedPrefix(u, a, n), a \in Nat
  PROVE  SeenBelow(u, Confirmed(u) + n)
  <1>1. /\ QueueInv(u) /\ outQueue[u] \in Seq(Nat) /\ relativeSeq[u] \in Nat
        /\ n \in Nat /\ n <= Len(outQueue[u]) /\ Len(outQueue[u]) \in Nat /\ seqBase[u] \in Nat
    BY DEF DeliveryInv, TypeOK, ConvoType
  <1>2. Confirmed(u) \in Nat
    BY <1>1 DEF QueueInv, Confirmed
  <1> SUFFICES ASSUME NEW j \in 0..((Confirmed(u) + n) - 1) PROVE Displayed(Peer[u], 0, j)
    BY Zenon DEF SeenBelow
  <1>3. CASE j < Confirmed(u)
    <2>1. j \in 0..(Confirmed(u) - 1)
      BY <1>2, <1>3
    <2> QED BY <2>1 DEF DirectionInv, SeenBelow
  <1>4. CASE j >= Confirmed(u)
    <2> DEFINE i == j - Confirmed(u) + 1
    <2>1. i \in 1..n /\ i \in 1..Len(outQueue[u]) /\ Confirmed(u) + i - 1 = j /\ j \in Nat
      BY <1>1, <1>2, <1>4
    <2> HIDE DEF i
    <2>2. outQueue[u][i] = j
      BY <1>1, <2>1 DEF QueueInv
    <2>3. seqBase[u] > 0 /\ j + seqBase[u] <= a
      BY <2>1, <2>2 DEF AckedPrefix
    <2>4. j + seqBase[u] \in seqBase[u]..a /\ (j + seqBase[u]) - seqBase[u] = j
      BY <1>1, <2>1, <2>3
    <2>5. \A x \in seqBase[u]..a : Displayed(Peer[u], 0, x - seqBase[u])
      BY <2>3, <1>1 DEF AckInv
    <2> QED BY <2>4, <2>5
  <1> QED BY <1>2, <1>3, <1>4

\* Accepting a new text from u's peer-side: what u's peer w acknowledges and
\* queues afterwards.
LEMMA AcceptInv ==
  ASSUME TypeOK, NEW u \in Users, NEW w \in Users, w = Peer[u], DirectionInv(u),
         NEW m \in Deposit, m.from = u, MessageInv(u, m), IsNew(w, m), Accept(w, m),
         UNCHANGED seqBase
  PROVE  /\ AckInv(u, ack[Peer[u]])'
         /\ (\A x \in DOMAIN inQueue[Peer[u]] : TextInv(u, x, inQueue[Peer[u]][x]))'
  <1> DEFINE queue == Queued(w, m)
             start == AckFloor(w, m)
  <1>1. PICK k \in Nat :
          /\ k >= start
          /\ \A i \in (start + 1)..k : i \in DOMAIN queue
          /\ ack'     = [ack EXCEPT ![w] = k]
          /\ inQueue' = [inQueue EXCEPT ![w] = Without(queue, (start + 1)..k)]
          /\ \E disp \in Seq(Line) :
                /\ Len(disp) = k - start
                /\ \A i \in 1..(k - start) :
                      disp[i] = [by |-> inc[w], text |-> queue[start + i]]
                /\ shown' = [shown EXCEPT ![w] = @ \o disp]
    BY AcceptEffect
  <1>2. PICK disp \in Seq(Line) :
                /\ Len(disp) = k - start
                /\ \A i \in 1..(k - start) :
                      disp[i] = [by |-> inc[w], text |-> queue[start + i]]
                /\ shown' = [shown EXCEPT ![w] = @ \o disp]
    BY <1>1
  <1>3. /\ m.seq \in Nat /\ m.seq # 0 /\ ack[w] \in Nat /\ seqBase[u] \in Nat
        /\ seqBase'[u] = seqBase[u]
    BY DEF TypeOK, ConvoType, Deposit, IsNew
  <1>4. TextInv(u, m.seq, m.text) /\ (m.lowest => SeenBelow(u, m.seq - seqBase[u]))
        /\ seqBase[u] > 0
    BY <1>3 DEF MessageInv, TextInv
  <1>5. \A x \in DOMAIN queue : TextInv(u, x, queue[x])
    <2> SUFFICES ASSUME NEW x \in DOMAIN queue PROVE TextInv(u, x, queue[x])
      OBVIOUS
    <2>1. /\ x \in DOMAIN inQueue[w] \cup {m.seq}
          /\ queue[x] = IF x = m.seq THEN m.text ELSE inQueue[w][x]
      BY QueuedTexts
    <2>2. CASE x = m.seq
      BY <1>4, <2>1, <2>2
    <2>3. CASE x # m.seq
      <3>1. x \in DOMAIN inQueue[Peer[u]] /\ queue[x] = inQueue[Peer[u]][x]
        BY <2>1, <2>3
      <3> QED BY <3>1 DEF DirectionInv
    <2> QED BY <2>2, <2>3
  <1>6. start \in Nat
    BY QueuedTexts
  <1>7. \A x \in seqBase[u]..start : Displayed(w, 0, x - seqBase[u])
    <2> TAKE x \in seqBase[u]..start
    <2>1. CASE m.lowest
      <3>1. x - seqBase[u] \in 0..(m.seq - seqBase[u] - 1)
        BY <1>3, <1>6, <2>1 DEF AckFloor
      <3> QED BY <1>4, <2>1, <3>1 DEF SeenBelow
    <2>2. CASE ~m.lowest
      BY <1>4, <2>2 DEF DirectionInv, AckInv, AckFloor
    <2> QED BY <2>1, <2>2
  <1> HIDE DEF queue, start
  <1>8. \A x \in seqBase[u]..k : Displayed(w, 0, x - seqBase[u])'
    <2> TAKE x \in seqBase[u]..k
    <2>1. CASE x <= start
      <3>1. x \in seqBase[u]..start
        BY <1>3, <1>6, <2>1
      <3> QED BY <1>2, <1>7, <3>1, ShownGrows
    <2>2. CASE x > start
      <3>1. x \in (start + 1)..k /\ x - start \in 1..(k - start) /\ start + (x - start) = x
        BY <1>3, <1>6, <2>2
      <3>2. queue[x] = [inc |-> 0, rel |-> x - seqBase[u]]
        BY <1>1, <1>5, <3>1 DEF TextInv
      <3>3. disp[x - start] = [by |-> inc[w], text |-> queue[x]]
        BY <1>2, <3>1
      <3>4. disp[x - start].text = [inc |-> 0, rel |-> x - seqBase[u]]
        BY <3>2, <3>3
      <3>5. x - start \in 1..Len(disp)
        BY <1>2, <3>1
      <3> QED BY <1>2, <3>4, <3>5, ShownGrows
    <2> QED BY <1>3, <1>6, <2>1, <2>2
  <1>9. ack'[Peer[u]] = k
    BY <1>1 DEF TypeOK, ConvoType
  <1>10. AckInv(u, ack[Peer[u]])'
    BY <1>3, <1>4, <1>8, <1>9 DEF AckInv
  <1>11. inQueue'[Peer[u]] = Without(queue, (start + 1)..k)
    BY <1>1 DEF TypeOK, ConvoType
  <1>12. (\A x \in DOMAIN inQueue[Peer[u]] : TextInv(u, x, inQueue[Peer[u]][x]))'
    BY <1>3, <1>5, <1>11 DEF Without, TextInv
  <1> QED BY <1>10, <1>12

LEMMA DeliveryReply ==
  ASSUME TypeOK, DeliveryInv, NEW w \in Users, NEW r \in Rounds, Reply(w, r)
  PROVE  DeliveryInv'
  <1> DEFINE m == mail[w][r]
  <1>1. UNCHANGED <<relativeSeq, seqBase, drop, inc>>
    BY DEF Reply, processVars
  <1>2. ASSUME NEW q \in Rounds, NEW x \in Users
        PROVE  mail'[x][q] = mail[x][q] \/ mail'[x][q] = Nothing(x)
    <2>1. mail \in [Users -> [Rounds -> Deposit]]
      BY DEF TypeOK, ServiceType
    <2>2. mail' = [mail EXCEPT ![w][r] = Nothing(w)]
      BY DEF Reply
    <2> QED BY <2>1, <2>2
  <1>3. OriginInv'
    <2> SUFFICES ASSUME NEW q \in Rounds, NEW x \in Users
                 PROVE  drop'[q][x].from = x /\ mail'[x][q].from \in {x, Peer[x]}
      BY DEF OriginInv
    <2>1. drop[q][x].from = x /\ mail[x][q].from \in {x, Peer[x]}
      BY DEF DeliveryInv, OriginInv
    <2>2. Nothing(x).from = x
      BY DEF Nothing
    <2> QED BY <1>1, <1>2, <2>1, <2>2
  <1>4. ASSUME NEW u \in Users, DirectionInv(u), NEW q \in Rounds, NEW x \in Users
        PROVE  MessageInv(u, drop'[q][x]) /\ MessageInv(u, mail'[x][q])
    <2>1. MessageInv(u, drop[q][x]) /\ MessageInv(u, mail[x][q]) /\ MessageInv(u, Nothing(x))
      BY <1>4, NothingInv DEF DirectionInv
    <2>2. mail'[x][q] = mail[x][q] \/ mail'[x][q] = Nothing(x)
      BY <1>2
    <2> QED BY <1>1, <2>1, <2>2
  <1>5. CASE r \notin rounds[w] \/ OwnMessage(w, m)
    <2>1. UNCHANGED <<outQueue, inQueue, ack, shown>>
      BY <1>5 DEF Reply
    <2>2. ASSUME NEW u \in Users PROVE QueueInv(u)' /\ Confirmed(u)' = Confirmed(u)
      BY <1>1, <2>1 DEF DeliveryInv, QueueInv, Confirmed
    <2>3. ASSUME NEW u \in Users, inc'[u] = 0 PROVE DirectionInv(u)'
      <3>1. DirectionInv(u)
        BY <1>1, <2>3 DEF DeliveryInv
      <3>2. \A q \in Rounds, x \in Users :
               MessageInv(u, drop'[q][x]) /\ MessageInv(u, mail'[x][q])
        BY <1>4, <3>1
      <3> QED BY <1>1, <2>1, <2>2, <3>1, <3>2, SameShown, DirectionStep DEF DirectionInv
    <2> QED BY <1>3, <2>2, <2>3 DEF DeliveryInv
  <1>6. CASE ~(r \notin rounds[w] \/ OwnMessage(w, m))
    <2>1. Receive(w, m)
      BY <1>6 DEF Reply
    <2>2. m \in Deposit /\ m.ack \in Nat
      BY DEF TypeOK, ServiceType, Deposit
    <2>3. m.from = Peer[w]
      BY <1>6 DEF DeliveryInv, OriginInv, OwnMessage, Solo
    <2>4. PICK n \in 0..Len(outQueue[w]) : AckedPrefix(w, m.ack, n) /\ RemoveAcked(w, n)
      BY <2>1 DEF Receive
    <2>5. /\ \A u \in Users : QueueInv(u)'
          /\ \A u \in Users \ {w} : Confirmed(u)' = Confirmed(u)
          /\ Confirmed(w)' = Confirmed(w) + n
      BY <1>1, <2>4, RemoveAckedInv
    <2>6. \A v \in Users : \A k : Displayed(v, 0, k) => Displayed(v, 0, k)'
      <3>1. CASE IsNew(w, m)
        <4>1. Accept(w, m)
          BY <2>1, <3>1 DEF Receive
        <4>2. PICK disp \in Seq(Line) : shown' = [shown EXCEPT ![w] = @ \o disp]
          BY <2>2, <3>1, <4>1, AcceptEffect
        <4> QED BY <4>2, ShownGrows
      <3>2. CASE ~IsNew(w, m)
        BY <2>1, <3>2, SameShown DEF Receive
      <3> QED BY <3>1, <3>2
    <2>7. ASSUME NEW u \in Users, inc'[u] = 0 PROVE DirectionInv(u)'
      <3>1. DirectionInv(u) /\ Peer[u] \in Users /\ seqBase'[u] = seqBase[u]
        BY <1>1, <2>7, PeerAssumption DEF DeliveryInv
      <3>2. SeenBelow(u, Confirmed(u)')
        <4>1. CASE u = w
          <5>1. AckInv(u, m.ack)
            <6>1. MessageInv(u, m)
              BY <3>1, <4>1 DEF DirectionInv
            <6> QED BY <2>3, <4>1, <6>1 DEF MessageInv
          <5>2. SeenBelow(u, Confirmed(u) + n)
            BY <2>2, <2>4, <3>1, <4>1, <5>1, AckedSeen
          <5> QED BY <2>5, <4>1, <5>2
        <4>2. CASE u # w
          BY <2>5, <3>1, <4>2 DEF DirectionInv
        <4> QED BY <4>1, <4>2
      <3>3. \A q \in Rounds, x \in Users :
               MessageInv(u, drop'[q][x]) /\ MessageInv(u, mail'[x][q])
        BY <1>4, <3>1
      <3>4. CASE Peer[u] = w /\ IsNew(w, m)
        <4>1. u = Peer[w]
          BY <3>4, PeerAssumption
        <4>2. MessageInv(u, m)
          BY <3>1 DEF DirectionInv
        <4>3. Accept(w, m)
          BY <2>1, <3>4 DEF Receive
        <4>4. /\ AckInv(u, ack[Peer[u]])'
              /\ (\A x \in DOMAIN inQueue[Peer[u]] : TextInv(u, x, inQueue[Peer[u]][x]))'
          BY <1>1, <2>2, <2>3, <3>1, <3>4, <4>1, <4>2, <4>3, AcceptInv
        <4>5. SeenBelow(u, Confirmed(u))'
          BY <2>6, <3>1, <3>2, Monotone
        <4>6. (\A q \in Rounds, x \in Users :
                  MessageInv(u, drop[q][x]) /\ MessageInv(u, mail[x][q]))'
          BY <2>6, <3>1, <3>3, Monotone
        <4> QED BY <4>4, <4>5, <4>6 DEF DirectionInv
      <3>5. CASE ~(Peer[u] = w /\ IsNew(w, m))
        <4>1. ack'[Peer[u]] = ack[Peer[u]] /\ inQueue'[Peer[u]] = inQueue[Peer[u]]
          <5>1. CASE IsNew(w, m)
            <6>1. Accept(w, m) /\ Peer[u] # w
              BY <2>1, <3>5, <5>1 DEF Receive
            <6>2. \E k : ack' = [ack EXCEPT ![w] = k]
              BY <6>1 DEF Accept
            <6>3. \E f : inQueue' = [inQueue EXCEPT ![w] = f]
              BY <6>1 DEF Accept
            <6> QED BY <3>1, <6>1, <6>2, <6>3 DEF TypeOK, ConvoType
          <5>2. CASE ~IsNew(w, m)
            BY <2>1, <5>2 DEF Receive
          <5> QED BY <5>1, <5>2
        <4>2. /\ AckInv(u, ack'[Peer[u]])
              /\ \A x \in DOMAIN inQueue'[Peer[u]] : TextInv(u, x, inQueue'[Peer[u]][x])
          BY <3>1, <4>1 DEF DirectionInv
        <4> QED BY <2>6, <3>1, <3>2, <3>3, <4>2, DirectionStep
      <3> QED BY <3>4, <3>5
    <2> QED BY <1>3, <2>5, <2>7 DEF DeliveryInv
  <1> QED BY <1>5, <1>6

LEMMA NextDelivery == TypeOK /\ DeliveryInv /\ [Next]_vars => DeliveryInv'
  <1> SUFFICES ASSUME TypeOK, DeliveryInv, [Next]_vars PROVE DeliveryInv'
    OBVIOUS
  <1>1. CASE Announce
    BY <1>1, DeliveryFrame DEF Announce, convoVars, processVars
  <1>2. ASSUME NEW u \in Users, SendingCall(u) PROVE DeliveryInv'
    BY <1>2, DeliveryFrame DEF SendingCall, activateConvo, processVars
  <1>3. ASSUME NEW u \in Users, NEW wheel \in 1..MaxCalls, ReceivedCall(u, wheel)
        PROVE  DeliveryInv'
    BY <1>3, DeliveryFrame DEF ReceivedCall, activateConvo, processVars
  <1>4. CASE UNCHANGED vars
    BY <1>4, DeliveryFrame DEF vars, convoVars, processVars
  <1> QED
    BY <1>1, <1>2, <1>3, <1>4, DeliveryMix, DeliveryQueueText, DeliveryOutgoing,
       DeliveryReply, DeliveryRestart DEF Next

LEMMA DeliveryImpliesNoLoss == TypeOK /\ DeliveryInv => NoLossBeforeRestart
  <1> SUFFICES ASSUME TypeOK, DeliveryInv, NEW u \in Users, inc[u] = 0,
                      NEW k \in 0..(relativeSeq[u] - 1)
               PROVE  \/ \E i \in DOMAIN outQueue[u] : outQueue[u][i] = k
                      \/ Displayed(Peer[u], inc[u], k)
    BY DEF NoLossBeforeRestart, NoLossFrom
  <1>1. /\ QueueInv(u) /\ DirectionInv(u) /\ outQueue[u] \in Seq(Nat)
        /\ relativeSeq[u] \in Nat /\ Len(outQueue[u]) \in Nat
        /\ DOMAIN outQueue[u] = 1..Len(outQueue[u])
    BY DEF DeliveryInv, TypeOK, ConvoType
  <1>2. CASE k < Confirmed(u)
    BY <1>1, <1>2 DEF DirectionInv, SeenBelow, QueueInv, Confirmed
  <1>3. CASE k >= Confirmed(u)
    <2> DEFINE i == k - Confirmed(u) + 1
    <2>1. i \in 1..Len(outQueue[u]) /\ Confirmed(u) + i - 1 = k
      BY <1>1, <1>3 DEF Confirmed, QueueInv
    <2> QED BY <1>1, <2>1 DEF QueueInv
  <1>4. Confirmed(u) \in Int
    BY <1>1 DEF Confirmed
  <1> QED BY <1>2, <1>3, <1>4

\* The inductive invariant holds in every reachable state.
THEOREM DeliveryInvariant == Spec => []DeliveryInv
  BY InitDelivery, NextDelivery, TypeCorrect, PTL DEF Spec

\* Reply never drops a text from outQueue that the peer's user has not seen,
\* for any number of lost, late or reordered rounds, changes of session key
\* and restarts of the peer, as long as the sender's own process lives.
THEOREM NoTextLost == Spec => []NoLossBeforeRestart
  BY DeliveryInvariant, TypeCorrect, DeliveryImpliesNoLoss, PTL
=============================================================================

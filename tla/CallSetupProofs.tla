--------------------------- MODULE CallSetupProofs ---------------------------
(***************************************************************************)
(* TLAPS proofs about CallSetup: the round syncer's agreement claim for     *)
(* every epoch length and every pair of rounds, and from it the agreement   *)
(* of the wheels of every timely call.                                      *)
(***************************************************************************)
EXTENDS CallSetup, TLAPS

\* What \div means for a positive divisor.
LEMMA DivBounds ==
    ASSUME NEW r \in Nat, NEW d \in Nat \ {0}
    PROVE  /\ r \div d \in Nat
           /\ (r \div d) * d <= r
           /\ r < (r \div d) * d + d
  BY Z3

\* Multiplying by a positive number keeps the order of the factors.
LEMMA Scales ==
    ASSUME NEW p \in Nat, NEW q \in Nat, NEW d \in Nat \ {0}, p < q
    PROVE  p * d + d <= q * d
  <1>1. q = p + 1 + (q - p - 1) /\ q - p - 1 \in Nat
    OBVIOUS
  <1>2. q * d = p * d + d + (q - p - 1) * d
    BY <1>1, Z3
  <1>3. (q - p - 1) * d >= 0
    BY <1>1, Z3
  <1> QED
    BY <1>2, <1>3, Z3

\* Going on by at most one epoch from r leads to r's epoch or the next one.
LEMMA NextEpoch ==
    ASSUME NEW r \in Nat, NEW x \in 0..RoundingIncrement
    PROVE  \/ (r + x) \div RoundingIncrement = r \div RoundingIncrement
           \/ (r + x) \div RoundingIncrement = (r \div RoundingIncrement) + 1
  <1> DEFINE d == RoundingIncrement
             p == r \div d
             q == (r + x) \div d
  <1>0. d \in Nat \ {0} /\ r + x \in Nat
    BY CallAssumption
  <1>1. p \in Nat /\ p * d <= r /\ r < p * d + d
    BY <1>0, DivBounds
  <1>2. q \in Nat /\ q * d <= r + x /\ r + x < q * d + d
    BY <1>0, DivBounds
  <1>a. p * d \in Nat /\ q * d \in Nat
    BY <1>0, <1>1, <1>2
  <1>3. ~(q < p)
    <2> SUFFICES ASSUME q < p PROVE FALSE
      OBVIOUS
    <2>1. q * d + d <= p * d
      BY <1>0, <1>1, <1>2, Scales
    <2> HIDE DEF p, q, d
    <2> QED
      BY <2>1, <1>0, <1>1, <1>2, <1>a
  <1>4. ~(p + 1 < q)
    <2> SUFFICES ASSUME p + 1 < q PROVE FALSE
      OBVIOUS
    <2>1. (p + 1) * d + d <= q * d
      BY <1>0, <1>1, <1>2, Scales
    <2>2. (p + 1) * d = p * d + d
      BY <1>0, <1>1, Z3
    <2>3. x <= d
      BY <1>0
    <2> HIDE DEF p, q, d
    <2> QED
      BY <2>1, <2>2, <2>3, <1>0, <1>1, <1>2, <1>a
  <1> HIDE DEF p, q, d
  <1>5. q = p \/ q = p + 1
    BY <1>1, <1>2, <1>3, <1>4
  <1> QED
    BY <1>5 DEF p, q, d

\* The claim in the comment on roundSyncer (conversation.go), for every
\* increment: a callee whose latest round is at most one increment ahead of
\* the caller's computes the caller's epoch.
THEOREM SyncAgreement ==
    ASSUME NEW r \in Nat, NEW x \in 0..RoundingIncrement, r + x < Word
    PROVE  incomingCallConvoRound(r + x, epochIntent(r)) = outgoingCallConvoRound(r)
  <1> DEFINE d == RoundingIncrement
             p == r \div d
             q == (r + x) \div d
  <1>0. d \in Nat \ {0} /\ Word \in Nat /\ r + x \in Nat
    BY CallAssumption
  <1>1. p \in Nat /\ p * d <= r /\ r < p * d + d
    BY <1>0, DivBounds
  <1>a. p * d \in Nat
    BY <1>0, <1>1
  <1>2. q = p \/ q = p + 1
    BY NextEpoch
  <1> HIDE DEF p, q, d
  <1>3. CASE q = p
    BY <1>3 DEF incomingCallConvoRound, outgoingCallConvoRound, epochStart, epochIntent, p, q, d
  <1>4. CASE q = p + 1
    <2>1. q % 2 # p % 2
      BY <1>4, <1>1
    <2>2. q * d - d = p * d
      BY <1>4, <1>0, <1>1, Z3
    <2>3. p * d \in 0..(Word - 1)
      BY <1>0, <1>1, <1>a
    <2>4. (p * d) % Word = p * d
      BY <2>3, <1>0, Z3
    <2> QED
      BY <2>1, <2>2, <2>4
      DEF incomingCallConvoRound, outgoingCallConvoRound, epochStart, epochIntent, p, q, d
  <1> QED
    BY <1>2, <1>3, <1>4

-----------------------------------------------------------------------------
\* Epochs and intents are numbers of the right kind.
LEMMA SyncerTypes ==
    ASSUME NEW r \in Nat, NEW i \in {0, 1}
    PROVE  /\ epochStart(r) \in Nat
           /\ epochIntent(r) \in {0, 1}
           /\ incomingCallConvoRound(r, i) \in Nat
  <1>0. RoundingIncrement \in Nat \ {0} /\ Word \in Nat \ {0}
    BY CallAssumption
  <1>1. r \div RoundingIncrement \in Nat
    BY <1>0, DivBounds
  <1>2. epochStart(r) \in Nat
    BY <1>0, <1>1 DEF epochStart
  <1>3. epochIntent(r) \in {0, 1}
    BY <1>1 DEF epochIntent
  <1>4. (epochStart(r) - RoundingIncrement) % Word \in Nat
    BY <1>0, <1>2
  <1> QED
    BY <1>2, <1>3, <1>4 DEF incomingCallConvoRound

\* Every wheel start was computed by the syncer from a round its end had
\* heard of, and the call carries the intent that goes with the caller's.
WheelInv ==
    /\ \A c \in DOMAIN placed :
         /\ placed[c].seen <= placed[c].at
         /\ placed[c].at <= MaxRound
         /\ placed[c].start = outgoingCallConvoRound(placed[c].seen)
         /\ dialed[c].intent = epochIntent(placed[c].seen)
    /\ \A c \in DOMAIN taken :
         /\ taken[c].seen <= taken[c].at
         /\ taken[c].at <= MaxRound
         /\ taken[c].start = incomingCallConvoRound(taken[c].seen, dialed[c].intent)

\* The inductive invariant.
CallInv == TypeOK /\ WheelInv

\* There are no calls at first.
LEMMA InitCallInv == Init => CallInv
  BY CallAssumption DEF Init, CallInv, TypeOK, WheelInv, CallsPlaced

\* SendingCall adds a call, and the caller's wheel if it is connected.
LEMMA SendingCallInv ==
    ASSUME CallInv, NEW u \in Users, NEW v \in Users, SendingCall(u, v)
    PROVE  CallInv'
  <1> USE DEF CallInv
  <1> DEFINE n == Len(dialed) + 1
             call == [from |-> u, to |-> v, intent |-> CallIntent(u)]
  <1>1. /\ dialed \in Seq(Call) /\ latestRound[u] \in 0..latest /\ latest \in FirstRound..MaxRound
        /\ latestRound[u] \in Nat /\ latest \in Nat /\ n \in Nat
    BY CallAssumption DEF TypeOK
  <1>2. CallIntent(u) \in {0, 1} /\ epochStart(latestRound[u]) \in Nat
    BY <1>1, SyncerTypes DEF CallIntent
  <1>3. call \in Call
    BY <1>2 DEF Call
  <1>4. /\ dialed' = Append(dialed, call) /\ dialed' \in Seq(Call)
        /\ Len(dialed') = n /\ dialed'[n] = call
        /\ \A c \in CallsPlaced : dialed'[c] = dialed[c]
    BY <1>1, <1>3 DEF SendingCall, CallsPlaced
  <1>5. CallsPlaced' = CallsPlaced \cup {n} /\ n \notin CallsPlaced
    BY <1>1, <1>4 DEF CallsPlaced
  <1>6. taken' = taken /\ DOMAIN taken' \subseteq CallsPlaced'
    BY <1>5 DEF SendingCall, TypeOK
  <1>7. TypeOK' /\ WheelInv'
    <2>1. CASE conn[u]
      <3> DEFINE w == [seen |-> latestRound[u], at |-> latest, start |-> epochStart(latestRound[u])]
      <3>1. w \in Wheel
        BY <1>1, <1>2 DEF Wheel
      <3>2. /\ DOMAIN placed' = DOMAIN placed \cup {n} /\ placed'[n] = w
            /\ \A c \in DOMAIN placed : placed'[c] = placed[c]
        BY <2>1, <1>5 DEF SendingCall, Installed, outgoingCallConvoRound, TypeOK
      <3>3. DOMAIN placed' \subseteq CallsPlaced' /\ \A c \in DOMAIN placed' : placed'[c] \in Wheel
        BY <3>1, <3>2, <1>5 DEF TypeOK
      <3>4. TypeOK'
        BY <3>3, <1>4, <1>5, <1>6 DEF SendingCall, TypeOK
      <3>5. w.seen <= w.at /\ w.at <= MaxRound /\ call.intent = epochIntent(w.seen)
        BY <2>1, <1>1, CallAssumption DEF CallIntent
      <3>6. w.start = outgoingCallConvoRound(w.seen)
        BY DEF outgoingCallConvoRound
      <3> HIDE DEF w, call, n
      <3>7. ASSUME NEW c \in DOMAIN placed'
            PROVE  /\ placed'[c].seen <= placed'[c].at
                   /\ placed'[c].at <= MaxRound
                   /\ placed'[c].start = outgoingCallConvoRound(placed'[c].seen)
                   /\ dialed'[c].intent = epochIntent(placed'[c].seen)
        <4>1. CASE c = n
          BY <4>1, <3>2, <3>5, <3>6, <1>4
        <4>2. CASE c \in DOMAIN placed
          BY <4>2, <3>2, <1>4 DEF WheelInv, TypeOK
        <4> QED
          BY <4>1, <4>2, <3>2
      <3>8. WheelInv'
        BY <3>7, <1>4, <1>6 DEF WheelInv, TypeOK
      <3> QED
        BY <3>4, <3>8
    <2>2. CASE ~conn[u]
      <3>1. placed' = placed
        BY <2>2 DEF SendingCall
      <3>2. TypeOK'
        BY <3>1, <1>4, <1>5, <1>6 DEF SendingCall, TypeOK
      <3>3. WheelInv'
        BY <3>1, <1>4, <1>6 DEF WheelInv, TypeOK
      <3> QED
        BY <3>2, <3>3
    <2> QED
      BY <2>1, <2>2
  <1> QED
    BY <1>7

\* ReceivedCall adds the callee's wheel if it is connected.
LEMMA ReceivedCallInv ==
    ASSUME CallInv, NEW u \in Users, NEW c \in ringing, ReceivedCall(u, c)
    PROVE  CallInv'
  <1> USE DEF CallInv
  <1>1. /\ c \in CallsPlaced /\ dialed[c] \in Call
        /\ latestRound[u] \in 0..latest /\ latest \in FirstRound..MaxRound
        /\ latestRound[u] \in Nat /\ latest \in Nat
    BY CallAssumption DEF TypeOK, CallsPlaced
  <1>2. dialed' = dialed /\ CallsPlaced' = CallsPlaced /\ placed' = placed
    BY DEF ReceivedCall, CallsPlaced
  <1>3. dialed[c].intent \in {0, 1}
    BY <1>1 DEF Call
  <1>4. CASE conn[u]
    <2> DEFINE w == [seen |-> latestRound[u], at |-> latest,
                     start |-> incomingCallConvoRound(latestRound[u], dialed[c].intent)]
    <2>1. w \in Wheel
      BY <1>1, <1>3, SyncerTypes DEF Wheel
    <2>2. /\ DOMAIN taken' = DOMAIN taken \cup {c} /\ taken'[c] = w
          /\ \A x \in DOMAIN taken \ {c} : taken'[x] = taken[x]
      BY <1>4 DEF ReceivedCall, Installed
    <2>3. DOMAIN taken' \subseteq CallsPlaced' /\ \A x \in DOMAIN taken' : taken'[x] \in Wheel
      BY <2>1, <2>2, <1>1, <1>2 DEF TypeOK
    <2>4. TypeOK'
      BY <2>3, <1>2 DEF ReceivedCall, TypeOK
    <2>5. w.seen <= w.at /\ w.at <= MaxRound
      BY <1>1, CallAssumption
    <2>6. WheelInv'
      BY <2>2, <2>5, <1>2 DEF WheelInv
    <2> QED
      BY <2>4, <2>6
  <1>5. CASE ~conn[u]
    BY <1>5, <1>2 DEF ReceivedCall, TypeOK, WheelInv
  <1> QED
    BY <1>4, <1>5

\* CallInv is inductive.
LEMMA NextCallInv == CallInv /\ [Next]_vars => CallInv'
  <1> SUFFICES ASSUME CallInv, [Next]_vars PROVE CallInv'
    OBVIOUS
  <1> USE DEF CallInv, TypeOK, WheelInv, CallsPlaced
  <1>1. CASE Announce
    BY <1>1, CallAssumption DEF Announce
  <1>2. CASE \E u \in Users : \E round \in news[u] : setLatestRound(u, round)
    BY <1>2 DEF setLatestRound
  <1>3. CASE \E u \in Users : ConnectConvo(u)
    BY <1>3 DEF ConnectConvo
  <1>4. CASE \E u \in Users : Disconnect(u)
    BY <1>4 DEF Disconnect
  <1>5. CASE \E u \in Users : Restart(u)
    BY <1>5, CallAssumption DEF Restart
  <1>6. CASE \E u \in Users : \E v \in Users : SendingCall(u, v)
    BY <1>6, SendingCallInv
  <1>7. CASE \E u \in Users : \E c \in ringing : ReceivedCall(u, c)
    BY <1>7, ReceivedCallInv
  <1>8. CASE UNCHANGED vars
    BY <1>8 DEF vars
  <1> QED
    BY <1>1, <1>2, <1>3, <1>4, <1>5, <1>6, <1>7, <1>8 DEF Next

\* Both wheels of a timely call start at the same round.
LEMMA CallInvAgrees == CallInv => TimelyCallsAgree
  <1> SUFFICES ASSUME CallInv, NEW c \in DOMAIN placed \cap DOMAIN taken, Timely(c)
               PROVE  placed[c].start = taken[c].start
    BY DEF TimelyCallsAgree
  <1> DEFINE r == placed[c].seen
             x == taken[c].seen - placed[c].seen
  <1>1. /\ placed[c] \in Wheel /\ taken[c] \in Wheel
        /\ placed[c].seen <= placed[c].at /\ taken[c].seen <= taken[c].at
        /\ taken[c].at <= MaxRound
    BY DEF CallInv, TypeOK, WheelInv
  <1>2. /\ r \in Nat /\ placed[c].at \in Nat /\ taken[c].seen \in Nat /\ taken[c].at \in Nat
    BY <1>1 DEF Wheel
  <1>3. x \in 0..RoundingIncrement /\ r + x = taken[c].seen
    BY <1>1, <1>2, CallAssumption DEF Timely
  <1>4. r + x < Word
    BY <1>1, <1>2, <1>3, CallAssumption
  <1>5. incomingCallConvoRound(r + x, epochIntent(r)) = outgoingCallConvoRound(r)
    BY <1>2, <1>3, <1>4, SyncAgreement
  <1> QED
    BY <1>3, <1>5 DEF CallInv, WheelInv

\* Whatever the epoch length, the lag, and the order in which clients
\* connect, restart, hear of rounds and of calls, the two ends of a timely
\* call start their key wheels at the same round (SendingCall and
\* ReceivedCall in alpenhorn.go).
THEOREM CallsAgree == Spec => []TimelyCallsAgree
  BY InitCallInv, NextCallInv, CallInvAgrees, PTL DEF Spec

\* Every reachable state of the two clients of a call is well typed: rounds,
\* wheels and calls placed or taken stay in range, whatever is announced,
\* missed or restarted.
THEOREM TypeCorrect == Spec => []TypeOK
  <1>1. CallInv => TypeOK
    BY DEF CallInv
  <1> QED
    BY <1>1, InitCallInv, NextCallInv, PTL DEF Spec
=============================================================================

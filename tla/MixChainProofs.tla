--------------------------- MODULE MixChainProofs ---------------------------
(***************************************************************************)
(* Proofs about MixChain, for every length of the chain, every batch of     *)
(* client onions, every amount of noise, and every number of crashes and    *)
(* failed calls.                                                            *)
(***************************************************************************)
EXTENDS MixChain, FiniteSetTheorems, WellFoundedInduction, TLAPS

-----------------------------------------------------------------------------
(* What filterIncoming computes. *)

\* The positions that survive the filter.
ValidPositions(msgs) == {i \in DOMAIN msgs : Valid(msgs, i)}

\* incomingIndex numbers the surviving positions from 1 on, one to one.
LEMMA IndexNumbers ==
  ASSUME NEW msgs, NEW n \in Nat, DOMAIN msgs = 1..n
  PROVE  LET x == IncomingIndex(msgs)
             c == Cardinality(ValidPositions(msgs))
         IN  /\ c \in Nat
             /\ x \in [1..n -> 0..c]
             /\ \A i \in 1..n : x[i] > 0 <=> Valid(msgs, i)
             /\ \A i, j \in ValidPositions(msgs) : x[i] = x[j] => i = j
             /\ \A k \in 1..c : \E i \in ValidPositions(msgs) : x[i] = k
  <1> DEFINE x == IncomingIndex(msgs)
             V == ValidPositions(msgs)
             c == Cardinality(V)
             upTo(i) == {j \in 1..i : Valid(msgs, j)}
  <1>1. IsFiniteSet(V) /\ c \in Nat
    <2>1. V \in SUBSET (1..n) BY DEF ValidPositions
    <2>2. IsFiniteSet(1..n) BY FS_Interval
    <2> QED BY <2>1, <2>2, FS_Subset, FS_CardinalityType
  <1>2. ASSUME NEW i \in 1..n
        PROVE  /\ IsFiniteSet(upTo(i)) /\ Cardinality(upTo(i)) \in 0..c
               /\ Valid(msgs, i) => Cardinality(upTo(i)) > 0
    <2>1. upTo(i) \in SUBSET V BY DEF ValidPositions
    <2>2. IsFiniteSet(upTo(i)) /\ Cardinality(upTo(i)) <= c
      BY <1>1, <2>1, FS_Subset
    <2>3. Cardinality(upTo(i)) \in Nat BY <2>2, FS_CardinalityType
    <2>4. Valid(msgs, i) => upTo(i) # {}
      <3>1. i \in 1..i OBVIOUS
      <3> QED BY <3>1
    <2>5. upTo(i) # {} => Cardinality(upTo(i)) # 0 BY <2>2, FS_EmptySet
    <2> HIDE DEF c, upTo
    <2> QED BY <1>1, <2>2, <2>3, <2>4, <2>5
  <1>3. \A i \in 1..n : x[i] = IF Valid(msgs, i) THEN Cardinality(upTo(i)) ELSE 0
    BY DEF IncomingIndex
  <1>4. x = [i \in 1..n |-> x[i]]
    BY DEF IncomingIndex
  <1>5. ASSUME NEW i \in V, NEW j \in V, i < j PROVE x[i] < x[j]
    <2>0. i \in 1..n /\ j \in 1..n /\ Valid(msgs, i) /\ Valid(msgs, j) BY DEF ValidPositions
    <2>1. upTo(i) \in SUBSET upTo(j) BY <1>5, <2>0
    <2>2. j \in upTo(j) /\ j \notin upTo(i) BY <1>5, <2>0
    <2>3. Cardinality(upTo(i)) <= Cardinality(upTo(j)) BY <1>2, <2>0, <2>1, FS_Subset
    <2>4. Cardinality(upTo(j)) # Cardinality(upTo(i)) BY <1>2, <2>0, <2>1, <2>2, FS_Subset
    <2>5. Cardinality(upTo(i)) \in Nat /\ Cardinality(upTo(j)) \in Nat
      BY <1>2, <2>0, FS_CardinalityType
    <2>6. x[i] = Cardinality(upTo(i)) /\ x[j] = Cardinality(upTo(j)) BY <1>3, <2>0
    <2> HIDE DEF upTo, x
    <2> QED BY <2>3, <2>4, <2>5, <2>6
  <1>6. \A i \in 1..n : x[i] \in 0..c /\ (x[i] > 0 <=> Valid(msgs, i))
    <2> SUFFICES ASSUME NEW i \in 1..n PROVE x[i] \in 0..c /\ (x[i] > 0 <=> Valid(msgs, i))
      OBVIOUS
    <2>1. Cardinality(upTo(i)) \in 0..c /\ (Valid(msgs, i) => Cardinality(upTo(i)) > 0)
      BY <1>2
    <2>2. x[i] = IF Valid(msgs, i) THEN Cardinality(upTo(i)) ELSE 0 BY <1>3
    <2> HIDE DEF c, upTo, x
    <2> QED BY <1>1, <2>1, <2>2
  <1>7. \A i, j \in V : x[i] = x[j] => i = j
    <2> SUFFICES ASSUME NEW i \in V, NEW j \in V, i # j PROVE x[i] # x[j]
      OBVIOUS
    <2>1. i \in Nat /\ j \in Nat /\ x[i] \in Nat /\ x[j] \in Nat
      <3>1. i \in 1..n /\ j \in 1..n BY DEF ValidPositions
      <3> HIDE DEF c, x
      <3> QED BY <1>1, <1>6, <3>1
    <2>2. i < j \/ j < i BY <2>1
    <2>3. x[i] < x[j] \/ x[j] < x[i] BY <1>5, <2>2
    <2> HIDE DEF x
    <2> QED BY <2>1, <2>3
  <1>8. \A k \in 1..c : \E i \in V : x[i] = k
    <2> DEFINE f == [i \in V |-> x[i]]
    <2>1. \A i \in V : x[i] \in 1..c
      <3> SUFFICES ASSUME NEW i \in V PROVE x[i] \in 1..c
        OBVIOUS
      <3>1. i \in 1..n /\ Valid(msgs, i) BY DEF ValidPositions
      <3> HIDE DEF c, x
      <3> QED BY <1>1, <1>6, <3>1
    <2>2. f \in Injection(V, 1..c)
      <3> HIDE DEF x, V, c
      <3> QED BY <1>7, <2>1 DEF Injection, IsInjective
    <2>3. IsFiniteSet(1..c) /\ Cardinality(1..c) = c
      <3> HIDE DEF c
      <3> QED BY <1>1, FS_Interval
    <2>4. f \in Surjection(V, 1..c) BY <2>2, <2>3, FS_Injection
    <2> HIDE DEF c, V, x
    <2> QED BY <2>4 DEF Surjection
  <1>9. x \in [1..n -> 0..c]
    <2> HIDE DEF x, c
    <2> QED BY <1>4, <1>6
  <1> QED BY <1>1, <1>6, <1>7, <1>8, <1>9

\* The onions that survive are passed on in the order of incomingIndex.
LEMMA ValidOnions ==
  ASSUME NEW msgs, NEW n \in Nat, DOMAIN msgs = 1..n
  PROVE  LET x == IncomingIndex(msgs)
             v == IncomingValid(msgs)
             c == Cardinality(ValidPositions(msgs))
         IN  /\ v = [k \in 1..c |-> v[k]] /\ Len(v) = c
             /\ \A i \in ValidPositions(msgs) : v[x[i]] = msgs[i]
  <1> DEFINE x == IncomingIndex(msgs)
             v == IncomingValid(msgs)
             V == ValidPositions(msgs)
             c == Cardinality(V)
  <1>1. /\ c \in Nat /\ x \in [1..n -> 0..c]
        /\ \A i \in 1..n : x[i] > 0 <=> Valid(msgs, i)
        /\ \A i, j \in V : x[i] = x[j] => i = j
    BY IndexNumbers
  <1>2. v = [k \in 1..c |-> msgs[CHOOSE i \in 1..n : x[i] = k]]
    BY DEF IncomingValid, ValidPositions
  <1>3. ASSUME NEW i \in V PROVE v[x[i]] = msgs[i]
    <2>1. i \in 1..n /\ Valid(msgs, i) BY DEF ValidPositions
    <2>2. x[i] \in 1..c
      <3> HIDE DEF x, c
      <3> QED BY <1>1, <2>1
    <2> DEFINE w == CHOOSE j \in 1..n : x[j] = x[i]
    <2>3. w \in 1..n /\ x[w] = x[i]
      <3> HIDE DEF x
      <3> QED BY <2>1
    <2>4. w \in V
      <3>1. x[w] > 0 BY <1>1, <2>1, <2>3
      <3> QED BY <1>1, <2>3, <3>1 DEF ValidPositions
    <2>5. w = i BY <1>1, <2>3, <2>4
    <2>6. v[x[i]] = msgs[w] BY <1>2, <2>2
    <2> QED BY <2>5, <2>6
  <1>4. v = [k \in 1..c |-> v[k]] /\ Len(v) = c
    <2> HIDE DEF v, c, x
    <2> QED BY <1>1, <1>2
  <1> QED BY <1>3, <1>4

\* A non-empty set of positions has a smallest one: the intervals that end in
\* them are well-founded by strict inclusion.
LEMMA MinExists ==
  ASSUME NEW S \in SUBSET Nat, S # {}
  PROVE  Min(S) \in S
  <1> DEFINE T == {0..n : n \in S}
             R == StrictSubsetOrdering(Nat)
  <1>1. T \subseteq FiniteSubsetsOf(Nat)
    <2> SUFFICES ASSUME NEW n \in S PROVE (0..n) \in FiniteSubsetsOf(Nat)
      OBVIOUS
    <2>1. IsFiniteSet(0..n) BY FS_Interval
    <2> QED BY <2>1 DEF FiniteSubsetsOf
  <1>2. T # {} OBVIOUS
  <1>3. PICK t \in T : \A u \in T : ~(<<u, t>> \in R)
    BY <1>1, <1>2, FS_StrictSubsetOrderingWellFounded, WFMin
  <1>4. PICK x \in S : t = 0..x OBVIOUS
  <1>5. ASSUME NEW y \in S PROVE x <= y
    <2> SUFFICES ASSUME y < x PROVE FALSE
      OBVIOUS
    <2>1. (0..y) \subseteq (0..x) /\ (0..y) # (0..x)
      <3>1. x \in 0..x /\ x \notin 0..y OBVIOUS
      <3>2. (0..y) \subseteq (0..x) OBVIOUS
      <3> QED BY <3>1, <3>2
    <2>2. <<0..y, 0..x>> \in R
      BY <2>1 DEF StrictSubsetOrdering
    <2>3. (0..y) \in T OBVIOUS
    <2> QED BY <1>3, <1>4, <2>2, <2>3
  <1> QED BY <1>5 DEF Min

\* A shuffle has one position for each onion.
LEMMA PermutationInverse ==
  ASSUME NEW n \in Nat, NEW p \in Permutations(n), NEW k \in 1..n
  PROVE  LET j == CHOOSE j \in DOMAIN p : p[j] = k
         IN  j \in 1..n /\ p[j] = k
  <1>1. p \in Injection(1..n, 1..n)
    BY DEF Permutations, Injection, IsInjective
  <1>2. IsFiniteSet(1..n) BY FS_Interval
  <1>3. p \in Surjection(1..n, 1..n) BY <1>1, <1>2, FS_Injection
  <1>4. \E j \in DOMAIN p : p[j] = k BY <1>3 DEF Surjection
  <1>5. DOMAIN p = 1..n BY <1>3 DEF Surjection
  <1> QED BY <1>4, <1>5

-----------------------------------------------------------------------------
(* What a hop owes to the one before: the onions b that mixer s is called   *)
(* with, and the reply to the one at position i.  HopAnswers(N + 1, ...) is *)
(* what the conversation service owes to the last mixer.                    *)

\* The ids and dead drops that clients and the mixers before s make.
Ids(s) == (0..(s - 1)) \X Nat

\* The onions mixer s may be called with.
Onions(s) == [id : Ids(s), drop : Ids(s), bad : 0..N]

KeyIds == {NoId} \cup (Nat \X Nat)
Reply  == [keys : Seq(KeyIds), body : KeyIds]

\* What the workers make of them.
Decrypted(s, b) == [i \in DOMAIN b |-> IF b[i].bad = s THEN Nil ELSE b[i]]

\* The onion at i is not a copy of an earlier one.
Original(b, i) == \A j \in 1..(i - 1) : b[j] # b[i]

\* The positions of the onions that mixer s passes on.
Passed(s, b) == {i \in DOMAIN b : b[i].bad # s /\ Original(b, i)}

\* The onion at i gets from mixer s to the end of the chain.
Survives(s, b, i) == b[i].bad \notin s..N /\ Original(b, i)

Meets(s, b, i) == {j \in DOMAIN b : Survives(s, b, j) /\ b[j].drop = b[i].drop}

Exchanges(s, b, i, body) ==
    \E j \in Meets(s, b, i) : body = b[j].id /\ (j = i => Meets(s, b, i) = {i})

HopAnswers(s, b, i, reply) ==
    /\ reply \in Reply
    /\ Survives(s, b, i) => /\ reply.keys = [k \in 1..(N - s + 1) |-> b[i].id]
                            /\ Exchanges(s, b, i, reply.body)
    /\ ~Survives(s, b, i) => \E k \in DOMAIN reply.keys : reply.keys[k] = Fresh

LEMMA OnionFields ==
  ASSUME NEW s \in 1..(N + 1), NEW b \in Seq(Onions(s)), NEW i \in DOMAIN b
  PROVE  /\ b[i] \in Onions(s) /\ b[i].bad \in 0..N
         /\ b[i].id \in Ids(s) /\ b[i].drop \in Ids(s)
         /\ b[i].id \in KeyIds
         /\ b[i] # Nil
  <1>1. b[i] \in Onions(s) OBVIOUS
  <1>2. b[i].id \in Ids(s) /\ b[i].drop \in Ids(s) /\ b[i].bad \in 0..N
    BY <1>1 DEF Onions
  <1>3. Ids(s) \subseteq Nat \X Nat
    BY ChainAssumption DEF Ids
  <1>4. NoId \notin Nat \X Nat
    BY DEF NoId
  <1>5. b[i].id # NoId BY <1>2, <1>3, <1>4
  <1>6. b[i] # Nil BY <1>5 DEF Nil
  <1> QED BY <1>1, <1>2, <1>3, <1>6 DEF KeyIds

\* What survives the filter of mixer s: each onion that decrypts, once.
LEMMA ValidDecrypted ==
  ASSUME NEW s \in Servers, NEW b \in Seq(Onions(s))
  PROVE  ValidPositions(Decrypted(s, b)) = Passed(s, b)
  <1> DEFINE d == Decrypted(s, b)
  <1>1. DOMAIN d = DOMAIN b /\ \A i \in DOMAIN b : d[i] = IF b[i].bad = s THEN Nil ELSE b[i]
    BY DEF Decrypted
  <1>2. s \in 1..(N + 1) BY ChainAssumption DEF Servers
  <1> HIDE DEF d
  <1>3. ASSUME NEW i \in DOMAIN b
        PROVE  Valid(d, i) <=> b[i].bad # s /\ Original(b, i)
    <2>1. d[i] # Nil <=> b[i].bad # s
      BY <1>1, <1>2, OnionFields
    <2>2. \A j \in 1..(i - 1) : j \in DOMAIN b
      BY <1>3
    <2>3. ASSUME b[i].bad # s, NEW j \in 1..(i - 1)
          PROVE  d[j] # d[i] <=> b[j] # b[i]
      <3>1. d[i] = b[i] /\ b[i] # Nil BY <1>1, <1>2, <2>3, OnionFields
      <3>2. d[j] = IF b[j].bad = s THEN Nil ELSE b[j] BY <1>1, <2>2
      <3> QED BY <2>3, <3>1, <3>2
    <2> QED BY <2>1, <2>3 DEF Valid, Original
  <1> QED BY <1>1, <1>3 DEF ValidPositions, Passed, d

LEMMA SealReply ==
  ASSUME NEW key \in KeyIds, NEW r \in Reply
  PROVE  /\ Seal(key, r) \in Reply
         /\ Seal(key, r).body = r.body
         /\ Seal(key, r).keys = <<key>> \o r.keys
         /\ Len(r.keys) \in Nat
         /\ r.keys \in Seq(KeyIds)
  <1>1. r.keys \in Seq(KeyIds) /\ r.body \in KeyIds
    BY DEF Reply
  <1>2. Len(r.keys) \in Nat BY <1>1
  <1>3. <<key>> \o r.keys \in Seq(KeyIds)
    <2>1. <<key>> \in Seq(KeyIds) OBVIOUS
    <2> QED BY <1>1, <2>1
  <1>4. Seal(key, r) = [keys |-> <<key>> \o r.keys, body |-> r.body]
    <2> DEFINE k == <<key>> \o r.keys
    <2>1. Seal(key, r) = [r EXCEPT !.keys = k] BY DEF Seal
    <2> HIDE DEF k
    <2>2. [r EXCEPT !.keys = k] = [keys |-> k, body |-> r.body] BY DEF Reply
    <2> QED BY <2>1, <2>2 DEF k
  <1> QED BY <1>1, <1>2, <1>3, <1>4 DEF Reply

\* An onion that is not passed on gets junk under a fresh key.
LEMMA DroppedAnswer ==
  ASSUME NEW s \in Servers, NEW b \in Seq(Onions(s)), NEW i \in DOMAIN b, i \notin Passed(s, b)
  PROVE  HopAnswers(s, b, i, Seal(Fresh, Junk))
  <1>1. Fresh \in KeyIds /\ Junk \in Reply
    BY DEF Fresh, KeyIds, Junk, Reply
  <1>2. Seal(Fresh, Junk) \in Reply /\ Seal(Fresh, Junk).keys = <<Fresh>> \o Junk.keys
    BY <1>1, SealReply
  <1>3. Junk.keys = <<>> BY DEF Junk
  <1>4. <<Fresh>> \o <<>> = <<Fresh>> OBVIOUS
  <1>5. 1 \in DOMAIN Seal(Fresh, Junk).keys /\ Seal(Fresh, Junk).keys[1] = Fresh
    BY <1>2, <1>3, <1>4
  <1>6. ~Survives(s, b, i)
    <2>1. s \in s..N BY ChainAssumption DEF Servers
    <2> QED BY <2>1 DEF Passed, Survives
  <1> QED BY <1>2, <1>5, <1>6 DEF HopAnswers

\* The reply of the next hop to an onion that is passed on, sealed with the key
\* of the onion, is what this hop owes.  The next hop gets the onions nb, all
\* different; e[i] is where the onion at i has gone, and whatever else is there
\* has a dead drop of its own.
LEMMA PassedAnswer ==
  ASSUME NEW s \in Servers, NEW b \in Seq(Onions(s)),
         NEW m \in Nat, NEW nb, DOMAIN nb = 1..m,
         NEW e,
         \A i \in Passed(s, b) : e[i] \in 1..m /\ nb[e[i]] = b[i],
         \A i, j \in Passed(s, b) : e[i] = e[j] => i = j,
         \A k, l \in 1..m : nb[k] = nb[l] => k = l,
         \A k \in 1..m : \/ \E i \in Passed(s, b) : e[i] = k
                         \/ \A i \in DOMAIN b : nb[k].drop # b[i].drop,
         NEW i \in Passed(s, b), NEW r, HopAnswers(s + 1, nb, e[i], r)
  PROVE  HopAnswers(s, b, i, Seal(b[i].id, r))
  <1>0. /\ r \in Reply /\ b[i].id \in KeyIds /\ b[i].bad \in 0..N /\ i \in DOMAIN b
        /\ s \in 1..N /\ N \in Nat
    <2>1. s \in 1..(N + 1) /\ s \in 1..N /\ N \in Nat BY ChainAssumption DEF Servers
    <2> QED BY <2>1, OnionFields DEF HopAnswers, Passed
  <1>1. /\ Seal(b[i].id, r) \in Reply /\ Seal(b[i].id, r).body = r.body
        /\ Seal(b[i].id, r).keys = <<b[i].id>> \o r.keys
        /\ Len(r.keys) \in Nat /\ r.keys \in Seq(KeyIds)
    BY <1>0, SealReply
  <1>2. \A k \in 1..m : Original(nb, k)
    BY DEF Original
  <1>3. ASSUME NEW j \in Passed(s, b)
        PROVE  Survives(s + 1, nb, e[j]) <=> Survives(s, b, j)
    <2>1. b[j].bad # s /\ b[j].bad \in 0..N /\ Original(b, j)
      <3>1. s \in 1..(N + 1) /\ j \in DOMAIN b BY <1>0 DEF Passed
      <3> QED BY <3>1, OnionFields DEF Passed
    <2>2. nb[e[j]].bad = b[j].bad /\ Original(nb, e[j]) BY <1>2
    <2>3. b[j].bad \in s..N <=> b[j].bad \in (s + 1)..N BY <1>0, <2>1
    <2> QED BY <2>1, <2>2, <2>3 DEF Survives
  <1>4. ASSUME NEW j \in DOMAIN b, Survives(s, b, j) PROVE j \in Passed(s, b)
    <2>1. s \in s..N BY <1>0
    <2> QED BY <1>4, <2>1 DEF Survives, Passed
  <1>5. CASE Survives(s, b, i)
    <2>1. /\ r.keys = [k \in 1..(N - (s + 1) + 1) |-> b[i].id]
          /\ Exchanges(s + 1, nb, e[i], r.body)
      BY <1>3, <1>5 DEF HopAnswers
    <2>2. <<b[i].id>> \o r.keys = [k \in 1..(N - s + 1) |-> b[i].id]
      <3> DEFINE id == b[i].id
                 n  == N - s
      <3>1. n \in Nat /\ N - (s + 1) + 1 = n /\ N - s + 1 = n + 1 BY <1>0
      <3>2. r.keys = [k \in 1..n |-> id] BY <2>1, <3>1
      <3>3. r.keys \in Seq(KeyIds) /\ id \in KeyIds BY <1>0, <1>1
      <3> HIDE DEF id, n
      <3>4. Len(r.keys) = n BY <3>1, <3>2
      <3>5. <<id>> \o r.keys \in Seq(KeyIds)
        <4>1. <<id>> \in Seq(KeyIds) BY <3>3
        <4> QED BY <3>3, <4>1
      <3>6. Len(<<id>> \o r.keys) = n + 1 BY <3>1, <3>3, <3>4
      <3>7. \A k \in 1..(n + 1) : (<<id>> \o r.keys)[k] = id BY <3>1, <3>2, <3>3, <3>4
      <3>8. <<id>> \o r.keys = [k \in 1..(n + 1) |-> id]
        <4> DEFINE t == <<id>> \o r.keys
        <4>1. t \in Seq(KeyIds) /\ Len(t) = n + 1 /\ \A k \in 1..(n + 1) : t[k] = id
          BY <3>5, <3>6, <3>7
        <4> HIDE DEF t
        <4>2. t = [k \in 1..Len(t) |-> t[k]] BY <4>1
        <4>3. t = [k \in 1..(n + 1) |-> id] BY <4>1, <4>2
        <4> QED BY <4>3 DEF t
      <3> QED BY <3>1, <3>8 DEF id
    <2>3. Exchanges(s, b, i, r.body)
      <3>1. PICK k \in Meets(s + 1, nb, e[i]) :
                   r.body = nb[k].id /\ (k = e[i] => Meets(s + 1, nb, e[i]) = {e[i]})
        BY <2>1 DEF Exchanges
      <3>2. k \in 1..m /\ nb[k].drop = b[i].drop /\ Survives(s + 1, nb, k)
        BY DEF Meets
      <3>3. PICK j \in Passed(s, b) : e[j] = k BY <1>0, <3>2
      <3>4. nb[k] = b[j] BY <3>3
      <3>5. j \in Meets(s, b, i) BY <1>3, <3>2, <3>3, <3>4 DEF Meets, Passed
      <3>6. ASSUME j = i PROVE Meets(s, b, i) = {i}
        <4>1. Meets(s + 1, nb, e[i]) = {e[i]} BY <3>1, <3>3, <3>6
        <4>2. ASSUME NEW l \in Meets(s, b, i) PROVE l = i
          <5>1. l \in Passed(s, b) /\ Survives(s, b, l) /\ b[l].drop = b[i].drop
            BY <1>4 DEF Meets
          <5>2. e[l] \in Meets(s + 1, nb, e[i]) BY <1>3, <5>1 DEF Meets
          <5> QED BY <4>1, <5>1, <5>2
        <4> QED BY <3>5, <3>6, <4>2
      <3> QED BY <3>1, <3>4, <3>5, <3>6 DEF Exchanges
    <2> QED BY <1>1, <1>5, <2>2, <2>3 DEF HopAnswers
  <1>6. CASE ~Survives(s, b, i)
    <2>1. PICK k \in DOMAIN r.keys : r.keys[k] = Fresh BY <1>3, <1>6 DEF HopAnswers
    <2>2. k + 1 \in DOMAIN (<<b[i].id>> \o r.keys) /\ (<<b[i].id>> \o r.keys)[k + 1] = Fresh
      BY <1>1, <2>1
    <2> QED BY <1>1, <1>6, <2>2 DEF HopAnswers
  <1> QED BY <1>5, <1>6

\* Filtering the decrypted onions of a batch: index and onions passed on.
LEMMA FilterIncomingFacts ==
  ASSUME NEW s \in Servers, NEW b \in Seq(Onions(s))
  PROVE  LET x == IncomingIndex(Decrypted(s, b))
             v == IncomingValid(Decrypted(s, b))
         IN  /\ x \in [DOMAIN b -> 0..Len(v)]
             /\ Len(v) \in Nat /\ v \in Seq(Onions(s))
             /\ \A i \in DOMAIN b : x[i] > 0 <=> i \in Passed(s, b)
             /\ \A i \in Passed(s, b) : x[i] \in 1..Len(v) /\ v[x[i]] = b[i]
             /\ \A i, j \in Passed(s, b) : x[i] = x[j] => i = j
             /\ \A k \in 1..Len(v) : \E i \in Passed(s, b) : x[i] = k
             /\ \A k, l \in 1..Len(v) : v[k] = v[l] => k = l
  <1> DEFINE d == Decrypted(s, b)
             n == Len(b)
             x == IncomingIndex(d)
             v == IncomingValid(d)
             c == Cardinality(ValidPositions(d))
             P == Passed(s, b)
  <1>1. n \in Nat /\ DOMAIN b = 1..n /\ DOMAIN d = 1..n BY DEF Decrypted
  <1>2. ValidPositions(d) = P BY ValidDecrypted
  <1>3. /\ c \in Nat
        /\ x \in [1..n -> 0..c]
        /\ \A i \in 1..n : x[i] > 0 <=> Valid(d, i)
        /\ \A i, j \in P : x[i] = x[j] => i = j
        /\ \A k \in 1..c : \E i \in P : x[i] = k
    <2> HIDE DEF d, n
    <2> QED BY <1>1, <1>2, IndexNumbers
  <1>4. v = [k \in 1..c |-> v[k]] /\ Len(v) = c /\ \A i \in P : v[x[i]] = d[i]
    <2> HIDE DEF d, n
    <2> QED BY <1>1, <1>2, ValidOnions
  <1>5. P \in SUBSET (1..n) /\ \A i \in P : d[i] = b[i] /\ Original(b, i)
    BY <1>1 DEF Passed, Decrypted
  <1>6. \A i \in DOMAIN b : x[i] > 0 <=> i \in P
    BY <1>1, <1>2, <1>3 DEF ValidPositions
  <1>7. \A i \in P : x[i] \in 1..c
    <2> SUFFICES ASSUME NEW i \in P PROVE x[i] \in 1..c
      OBVIOUS
    <2>1. i \in 1..n /\ x[i] > 0 BY <1>1, <1>5, <1>6
    <2> HIDE DEF x, c
    <2> QED BY <1>3, <2>1
  <1>8. v \in Seq(Onions(s))
    <2>1. \A k \in 1..c : v[k] \in Onions(s)
      <3> SUFFICES ASSUME NEW k \in 1..c PROVE v[k] \in Onions(s)
        OBVIOUS
      <3>1. PICK i \in P : x[i] = k BY <1>3
      <3>2. v[k] = b[i] /\ i \in DOMAIN b BY <1>1, <1>4, <1>5, <3>1
      <3> QED BY <3>2
    <2> HIDE DEF v, c
    <2> QED BY <1>3, <1>4, <2>1
  <1>9. ASSUME NEW k \in 1..c, NEW l \in 1..c, v[k] = v[l] PROVE k = l
    <2>1. PICK i \in P : x[i] = k BY <1>3
    <2>2. PICK j \in P : x[j] = l BY <1>3
    <2>3. b[i] = b[j] BY <1>4, <1>5, <1>9, <2>1, <2>2
    <2>4. i \in Nat /\ j \in Nat /\ i \in 1..n /\ j \in 1..n BY <1>1, <1>5
    <2>5. ~(i < j) /\ ~(j < i) BY <1>5, <2>3, <2>4 DEF Original
    <2> QED BY <2>1, <2>2, <2>4, <2>5
  <1> HIDE DEF x, v, c, P
  <1>10. /\ x \in [DOMAIN b -> 0..Len(v)]
         /\ Len(v) \in Nat /\ v \in Seq(Onions(s))
    BY <1>1, <1>3, <1>4, <1>8
  <1>11. /\ \A i \in P : x[i] \in 1..Len(v) /\ v[x[i]] = b[i]
         /\ \A k \in 1..Len(v) : \E i \in P : x[i] = k
         /\ \A k, l \in 1..Len(v) : v[k] = v[l] => k = l
    BY <1>3, <1>4, <1>5, <1>7, <1>9
  <1> QED BY <1>3, <1>6, <1>10, <1>11 DEF x, v, P, d

\* HandleMessages exchanges what meets in a dead drop.
LEMMA HandleMessagesAnswers ==
  ASSUME NEW v \in Seq(Onions(N)), \A k, l \in DOMAIN v : v[k] = v[l] => k = l,
         NEW k \in DOMAIN v
  PROVE  HopAnswers(N + 1, v, k, HandleMessages(v)[k])
  <1> DEFINE same  == {j \in DOMAIN v : v[j].drop = v[k].drop}
             other == IF k # Min(same) THEN Min(same)
                      ELSE IF same = {k} THEN k ELSE Min(same \ {k})
             reply == HandleMessages(v)[k]
  <1>1. N \in 1..(N + 1) /\ N \in Nat BY ChainAssumption
  <1>2. reply = [keys |-> <<>>, body |-> v[other].id]
    BY DEF HandleMessages
  <1>3. Min(same) \in same /\ (same # {k} => Min(same \ {k}) \in same \ {k})
    <2>1. same \in SUBSET Nat /\ k \in same OBVIOUS
    <2>2. same # {k} => same \ {k} # {} BY <2>1
    <2> HIDE DEF same
    <2> QED BY <2>1, <2>2, MinExists
  <1>4. other \in same /\ (other = k => same = {k})
    <2> HIDE DEF same
    <2> QED BY <1>3
  <1>5. \A j \in DOMAIN v : Survives(N + 1, v, j)
    <2> SUFFICES ASSUME NEW j \in DOMAIN v PROVE Survives(N + 1, v, j)
      OBVIOUS
    <2>1. (N + 1)..N = {} BY <1>1
    <2>2. Original(v, j) BY DEF Original
    <2> QED BY <2>1, <2>2 DEF Survives
  <1>6. Meets(N + 1, v, k) = same BY <1>5 DEF Meets
  <1> HIDE DEF same, other, reply
  <1>7. other \in DOMAIN v BY <1>4 DEF same
  <1>8. v[other].id \in KeyIds BY <1>1, <1>7, OnionFields
  <1>9. reply \in Reply
    <2>1. <<>> \in Seq(KeyIds) OBVIOUS
    <2> QED BY <1>2, <1>8, <2>1 DEF Reply
  <1>10. reply.keys = <<>> /\ reply.body = v[other].id BY <1>2
  <1>11. [j \in 1..(N - (N + 1) + 1) |-> v[k].id] = <<>>
    <2>1. N - (N + 1) + 1 = 0 BY <1>1
    <2> QED BY <2>1
  <1>12. Exchanges(N + 1, v, k, reply.body)
    BY <1>4, <1>6, <1>10 DEF Exchanges
  <1> QED BY <1>5, <1>9, <1>10, <1>11, <1>12 DEF HopAnswers, reply

\* The last mixer: its replies are what it owes.
LEMMA LastHopAnswers ==
  ASSUME NEW b \in Seq(Onions(N)), NEW i \in DOMAIN b
  PROVE  LET x == IncomingIndex(Decrypted(N, b))
             v == IncomingValid(Decrypted(N, b))
         IN  HopAnswers(N, b, i, IF x[i] > 0 THEN Seal(b[i].id, HandleMessages(v)[x[i]])
                                             ELSE Seal(Fresh, Junk))
  <1> DEFINE x == IncomingIndex(Decrypted(N, b))
             v == IncomingValid(Decrypted(N, b))
             P == Passed(N, b)
  <1>1. N \in Servers BY ChainAssumption DEF Servers
  <1>2. /\ Len(v) \in Nat /\ v \in Seq(Onions(N))
        /\ \A j \in DOMAIN b : x[j] > 0 <=> j \in P
        /\ \A j \in P : x[j] \in 1..Len(v) /\ v[x[j]] = b[j]
        /\ \A j, k \in P : x[j] = x[k] => j = k
        /\ \A k \in 1..Len(v) : \E j \in P : x[j] = k
        /\ \A k, l \in 1..Len(v) : v[k] = v[l] => k = l
    BY <1>1, FilterIncomingFacts
  <1>3. CASE i \in P
    <2> HIDE DEF x, v
    <2>1. x[i] \in DOMAIN v /\ DOMAIN v = 1..Len(v) BY <1>2, <1>3
    <2>2. HopAnswers(N + 1, v, x[i], HandleMessages(v)[x[i]])
      BY <1>2, <2>1, HandleMessagesAnswers
    <2> DEFINE m == Len(v)
               r == HandleMessages(v)[x[i]]
    <2>3. /\ m \in Nat /\ DOMAIN v = 1..m
          /\ \A j \in Passed(N, b) : x[j] \in 1..m /\ v[x[j]] = b[j]
          /\ \A j, k \in Passed(N, b) : x[j] = x[k] => j = k
          /\ \A k, l \in 1..m : v[k] = v[l] => k = l
          /\ \A k \in 1..m : \/ \E j \in Passed(N, b) : x[j] = k
                            \/ \A j \in DOMAIN b : v[k].drop # b[j].drop
      BY <1>2, <2>1
    <2>4. HopAnswers(N + 1, v, x[i], r) BY <2>2
    <2> HIDE DEF m, r
    <2>5. HopAnswers(N, b, i, Seal(b[i].id, r))
      BY <1>1, <1>3, <2>3, <2>4, PassedAnswer
    <2> QED BY <1>2, <1>3, <2>5 DEF x, v, r
  <1>4. CASE i \notin P
    BY <1>1, <1>2, <1>4, DroppedAnswer
  <1> QED BY <1>3, <1>4

\* What a mixer before the last one sends: the onions it passes on and its own
\* noise, all different, the noise in dead drops of its own.
LEMMA OutgoingFacts ==
  ASSUME NEW s \in Servers, NEW v \in Seq(Onions(s)), \A k, l \in 1..Len(v) : v[k] = v[l] => k = l
  PROVE  LET out == v \o Noise(s)
         IN  /\ Len(out) \in Nat /\ Len(v) \in Nat /\ Len(v) <= Len(out)
             /\ out \in Seq(Onions(s + 1))
             /\ \A k \in 1..Len(v) : out[k] = v[k]
             /\ \A k \in (Len(v) + 1)..Len(out) : out[k].drop \notin Ids(s)
             /\ \A k, l \in 1..Len(out) : out[k] = out[l] => k = l
  <1> DEFINE out == v \o Noise(s)
             c   == Len(v)
             q   == NumNoise[s]
  <1>1. s \in Nat /\ s >= 1 /\ s <= N /\ N \in Nat /\ q \in Nat BY ChainAssumption DEF Servers
  <1>2. Ids(s) \subseteq Ids(s + 1) /\ \A k \in Nat : <<s, k>> \in Ids(s + 1) /\ <<s, k>> \notin Ids(s)
    BY <1>1 DEF Ids
  <1>3. Noise(s) = [k \in 1..q |-> [id |-> <<s, k>>, drop |-> <<s, k>>, bad |-> 0]]
    BY DEF Noise
  <1>4. \A k \in 1..q : [id |-> <<s, k>>, drop |-> <<s, k>>, bad |-> 0] \in Onions(s + 1)
    BY <1>1, <1>2 DEF Onions
  <1>5. Noise(s) \in Seq(Onions(s + 1)) /\ Len(Noise(s)) = q
    <2> HIDE DEF q
    <2> QED BY <1>1, <1>3, <1>4
  <1>6. v \in Seq(Onions(s + 1))
    <2>1. Onions(s) \subseteq Onions(s + 1) BY <1>2 DEF Onions
    <2> QED BY <2>1
  <1>7. c \in Nat OBVIOUS
  <1>8. /\ out \in Seq(Onions(s + 1)) /\ Len(out) = c + q
        /\ \A k \in 1..c : out[k] = v[k]
        /\ \A k \in (c + 1)..(c + q) : out[k] = Noise(s)[k - c]
    <2> DEFINE w == Noise(s)
               O == Onions(s + 1)
    <2>1. w \in Seq(O) /\ v \in Seq(O) /\ Len(w) = q BY <1>5, <1>6
    <2> HIDE DEF w, O, q
    <2>2. v \o w \in Seq(O) BY <2>1
    <2>3. Len(v \o w) = c + q BY <2>1
    <2>4. \A k \in 1..c : (v \o w)[k] = v[k] BY <1>1, <2>1
    <2>5. \A k \in (c + 1)..(c + q) : (v \o w)[k] = w[k - c] BY <1>1, <1>7, <2>1
    <2> QED BY <2>2, <2>3, <2>4, <2>5 DEF w, O
  <1> HIDE DEF out, c, q
  <1>9. \A k \in (c + 1)..(c + q) : out[k].id = <<s, k - c>> /\ out[k].drop = <<s, k - c>>
    <2> SUFFICES ASSUME NEW k \in (c + 1)..(c + q)
                 PROVE  out[k].id = <<s, k - c>> /\ out[k].drop = <<s, k - c>>
      OBVIOUS
    <2>1. k - c \in 1..q BY <1>1, <1>7
    <2>2. out[k] = [id |-> <<s, k - c>>, drop |-> <<s, k - c>>, bad |-> 0]
      BY <1>3, <1>8, <2>1
    <2> QED BY <2>2
  <1>10. \A k \in (c + 1)..(c + q) : out[k].drop \notin Ids(s) /\ out[k].id \notin Ids(s)
    <2> SUFFICES ASSUME NEW k \in (c + 1)..(c + q)
                 PROVE  out[k].drop \notin Ids(s) /\ out[k].id \notin Ids(s)
      OBVIOUS
    <2>1. k - c \in Nat BY <1>1, <1>7
    <2> QED BY <1>2, <1>9, <2>1
  <1>11. \A k \in 1..c : out[k].id \in Ids(s)
    <2> SUFFICES ASSUME NEW k \in 1..c PROVE out[k].id \in Ids(s)
      OBVIOUS
    <2>1. v[k] \in Onions(s) BY DEF c
    <2> QED BY <1>8, <2>1 DEF Onions
  <1>12. ASSUME NEW k \in 1..(c + q), NEW l \in 1..(c + q), out[k] = out[l] PROVE k = l
    <2>1. (k \in 1..c \/ k \in (c + 1)..(c + q)) /\ (l \in 1..c \/ l \in (c + 1)..(c + q))
      BY <1>1, <1>7
    <2>2. CASE k \in 1..c /\ l \in 1..c
      BY <1>8, <1>12, <2>2 DEF c
    <2>3. CASE k \in (c + 1)..(c + q) /\ l \in (c + 1)..(c + q)
      <3>1. <<s, k - c>> = <<s, l - c>> BY <1>9, <1>12, <2>3
      <3>2. k - c = l - c BY <3>1
      <3> QED BY <1>1, <1>7, <3>2
    <2>4. CASE k \in 1..c /\ l \in (c + 1)..(c + q)
      BY <1>10, <1>11, <1>12, <2>4
    <2>5. CASE l \in 1..c /\ k \in (c + 1)..(c + q)
      BY <1>10, <1>11, <1>12, <2>5
    <2> QED BY <2>1, <2>2, <2>3, <2>4, <2>5
  <1>13. Len(out) \in Nat /\ c \in Nat /\ c <= Len(out) BY <1>1, <1>7, <1>8
  <1> QED BY <1>8, <1>10, <1>12, <1>13 DEF out, c

\* The shuffled outgoing onions.
Shuffled(out, p) == [j \in 1..Len(out) |-> out[p[j]]]

\* A mixer before the last one: unshuffled and sealed, the replies of the next
\* one are what it owes.
LEMMA MiddleHopAnswers ==
  ASSUME NEW s \in Servers, s < N, NEW b \in Seq(Onions(s)), NEW i \in DOMAIN b, NEW p, NEW g,
         LET v   == IncomingValid(Decrypted(s, b))
             out == v \o Noise(s)
         IN  /\ p \in Permutations(Len(out))
             /\ \A j \in 1..Len(out) : HopAnswers(s + 1, Shuffled(out, p), j, g[j])
  PROVE  LET x == IncomingIndex(Decrypted(s, b))
         IN  HopAnswers(s, b, i, IF x[i] > 0
                                 THEN Seal(b[i].id, g[CHOOSE j \in DOMAIN p : p[j] = x[i]])
                                 ELSE Seal(Fresh, Junk))
  <1> DEFINE x   == IncomingIndex(Decrypted(s, b))
             v   == IncomingValid(Decrypted(s, b))
             out == v \o Noise(s)
             m   == Len(out)
             nb  == Shuffled(out, p)
             P   == Passed(s, b)
             at(k) == CHOOSE j \in DOMAIN p : p[j] = k
  <1>1. /\ Len(v) \in Nat /\ v \in Seq(Onions(s))
        /\ \A j \in DOMAIN b : x[j] > 0 <=> j \in P
        /\ \A j \in P : x[j] \in 1..Len(v) /\ v[x[j]] = b[j]
        /\ \A j, k \in P : x[j] = x[k] => j = k
        /\ \A k \in 1..Len(v) : \E j \in P : x[j] = k
        /\ \A k, l \in 1..Len(v) : v[k] = v[l] => k = l
    BY FilterIncomingFacts
  <1>2. p \in Permutations(m) /\ \A j \in 1..m : HopAnswers(s + 1, nb, j, g[j])
    OBVIOUS
  <1> HIDE DEF x, v
  <1>3. /\ m \in Nat /\ Len(v) <= m
        /\ \A k \in 1..Len(v) : out[k] = v[k]
        /\ \A k \in (Len(v) + 1)..m : out[k].drop \notin Ids(s)
        /\ \A k, l \in 1..m : out[k] = out[l] => k = l
    BY <1>1, OutgoingFacts
  <1> HIDE DEF out, m
  <1>4. DOMAIN nb = 1..m /\ \A j \in 1..m : nb[j] = out[p[j]]
    BY DEF Shuffled, m
  <1> HIDE DEF nb
  <1>5. p \in [1..m -> 1..m] /\ \A j, k \in 1..m : p[j] = p[k] => j = k
    BY <1>2 DEF Permutations
  <1>6. \A k \in 1..m : at(k) \in 1..m /\ p[at(k)] = k
    BY <1>2, <1>3, PermutationInverse
  <1> HIDE DEF at
  <1>7. \A j \in P : x[j] \in 1..m /\ out[x[j]] = b[j]
    <2> SUFFICES ASSUME NEW j \in P PROVE x[j] \in 1..m /\ out[x[j]] = b[j]
      OBVIOUS
    <2>1. x[j] \in 1..Len(v) /\ v[x[j]] = b[j] BY <1>1
    <2> QED BY <1>1, <1>3, <2>1
  <1> DEFINE e == [j \in P |-> at(x[j])]
  <1>8. \A j \in Passed(s, b) : e[j] \in 1..m /\ nb[e[j]] = b[j]
    BY <1>4, <1>6, <1>7
  <1>9. \A j, k \in Passed(s, b) : e[j] = e[k] => j = k
    <2> SUFFICES ASSUME NEW j \in P, NEW k \in P, at(x[j]) = at(x[k]) PROVE j = k
      OBVIOUS
    <2>1. x[j] = x[k] BY <1>6, <1>7
    <2> QED BY <1>1, <2>1
  <1>10. \A k, l \in 1..m : nb[k] = nb[l] => k = l
    <2> SUFFICES ASSUME NEW k \in 1..m, NEW l \in 1..m, nb[k] = nb[l] PROVE k = l
      OBVIOUS
    <2>1. out[p[k]] = out[p[l]] /\ p[k] \in 1..m /\ p[l] \in 1..m BY <1>4, <1>5
    <2>2. p[k] = p[l] BY <1>3, <2>1
    <2> QED BY <1>5, <2>2
  <1>11. \A k \in 1..m : \/ \E j \in Passed(s, b) : e[j] = k
                         \/ \A j \in DOMAIN b : nb[k].drop # b[j].drop
    <2> SUFFICES ASSUME NEW k \in 1..m
                 PROVE  \/ \E j \in P : at(x[j]) = k
                        \/ \A j \in DOMAIN b : nb[k].drop # b[j].drop
      OBVIOUS
    <2>1. p[k] \in 1..m /\ nb[k] = out[p[k]] BY <1>4, <1>5
    <2>2. CASE p[k] \in 1..Len(v)
      <3>1. PICK j \in P : x[j] = p[k] BY <1>1, <2>2
      <3>2. at(p[k]) \in 1..m /\ p[at(p[k])] = p[k] BY <1>6, <2>1
      <3>3. at(p[k]) = k BY <1>5, <3>2
      <3> QED BY <3>1, <3>3
    <2>3. CASE p[k] \in (Len(v) + 1)..m
      <3>1. nb[k].drop \notin Ids(s) BY <1>3, <2>1, <2>3
      <3>2. s \in 1..(N + 1) BY ChainAssumption DEF Servers
      <3>3. \A j \in DOMAIN b : b[j].drop \in Ids(s) BY <3>2, OnionFields
      <3> QED BY <3>1, <3>3
    <2>4. p[k] \in 1..Len(v) \/ p[k] \in (Len(v) + 1)..m BY <1>1, <1>3, <2>1
    <2> QED BY <2>2, <2>3, <2>4
  <1>12. CASE i \in P
    <2>1. e[i] = at(x[i]) /\ e[i] \in 1..m BY <1>8, <1>12
    <2>2. HopAnswers(s + 1, nb, e[i], g[e[i]]) BY <1>2, <2>1
    <2> DEFINE r == g[e[i]]
    <2>3. HopAnswers(s + 1, nb, e[i], r) BY <2>2
    <2> HIDE DEF e, r
    <2>4. HopAnswers(s, b, i, Seal(b[i].id, r))
      BY <1>3, <1>4, <1>8, <1>9, <1>10, <1>11, <1>12, <2>3, PassedAnswer
    <2> QED BY <1>1, <1>12, <2>1, <2>4 DEF x, at, r
  <1>13. CASE i \notin P
    BY <1>1, <1>13, DroppedAnswer DEF x
  <1> QED BY <1>12, <1>13

-----------------------------------------------------------------------------
(* The inductive invariant. *)

FlagType ==
    /\ coord \in {"creating", "setting", "mixing", "ended"}
    /\ answered \subseteq Servers
    /\ setup \in [Servers -> {"none", "new", "set"}]
    /\ noiseDone \in [Servers -> BOOLEAN] /\ accepting \in [Servers -> BOOLEAN]
    /\ encryptDone \in [Servers -> BOOLEAN] /\ deleting \in [Servers -> BOOLEAN]
    /\ closing \in [Servers -> {"no", "draining", "filtered", "waiting", "closed", "failed"}]
    /\ call \in [Servers -> {"idle", "adding", "closing", "getting", "done", "failed"}]

PerServer ==
    /\ DOMAIN incoming = Servers /\ DOMAIN jobs = Servers
    /\ DOMAIN index = Servers /\ DOMAIN perm = Servers /\ DOMAIN replies = Servers
    /\ DOMAIN batch = Servers /\ DOMAIN stream = Servers /\ DOMAIN got = Servers

\* A round is closed at a mixer once, after its onions were added, and the next
\* mixer is called once, when the onions have been filtered.
Control(s) ==
    /\ closing[s] # "no" => call[s] \notin {"idle", "adding"} /\ ~accepting[s]
    /\ closing[s] \in {"filtered", "waiting", "closed", "failed"} => jobs[s] = {}
    /\ call[s] = "idle" => incoming[s] = <<>> /\ jobs[s] = {} /\ ~accepting[s]
    /\ closing[s] = "waiting" => s < N /\ call[s + 1] # "idle"
    /\ deleting[s] => call[s] = "done"
    /\ encryptDone[s] => closing[s] = "closed"

Successor(s) ==
    s < N /\ call[s + 1] # "idle" =>
        call[s] \notin {"idle", "adding"} /\ closing[s] \notin {"draining", "filtered"}

ControlInv ==
    /\ coord \in {"creating", "setting"} => call[1] = "idle"
    /\ \A s \in Servers : Control(s) /\ Successor(s)

\* While a mixer takes onions: every onion whose stream has ended is in a job or
\* decrypted, and when the round is closed there is one for each position.
Adding(s) ==
    /\ batch[s] \in Seq(Onions(s))
    /\ call[s] # "idle" => DOMAIN stream[s] = DOMAIN batch[s] /\ DOMAIN got[s] = DOMAIN batch[s]
    /\ call[s] = "adding" /\ ~accepting[s] => \A i \in DOMAIN stream[s] : stream[s][i] = "new"
    /\ closing[s] = "no" /\ ~accepting[s] => incoming[s] = <<>> /\ jobs[s] = {}
    /\ accepting[s] \/ closing[s] = "draining" =>
         incoming[s] \in [DOMAIN batch[s] -> Onions(s) \cup {Nil}]
    /\ jobs[s] \subseteq DOMAIN incoming[s]
    /\ call[s] = "adding" \/ closing[s] = "draining" =>
         \A i \in DOMAIN batch[s] :
            (closing[s] = "draining" \/ stream[s][i] = "done") /\ i \notin jobs[s] =>
                incoming[s][i] = Decrypted(s, batch[s])[i]

\* What is filtered and passed on belongs to the onions the mixer was called
\* with, and the next mixer was called with it.
Passing(s) ==
    /\ closing[s] \in {"filtered", "waiting"} =>
         /\ incoming[s] = IncomingValid(Decrypted(s, batch[s]))
         /\ index[s]    = IncomingIndex(Decrypted(s, batch[s]))
    /\ closing[s] = "waiting" =>
         LET out == incoming[s] \o Noise(s)
         IN  perm[s] \in Permutations(Len(out)) /\ batch[s + 1] = Shuffled(out, perm[s])

\* The replies a mixer keeps and those its client has fetched are what it owes.
Answering(s) ==
    /\ closing[s] = "closed" =>
         /\ DOMAIN replies[s] = DOMAIN batch[s]
         /\ \A i \in DOMAIN batch[s] : HopAnswers(s, batch[s], i, replies[s][i])
    /\ call[s] # "idle" =>
         \A i \in DOMAIN batch[s] : got[s][i] = NoReply \/ HopAnswers(s, batch[s], i, got[s][i])
    /\ call[s] = "done" => \A i \in DOMAIN batch[s] : got[s][i] # NoReply

ChainInv ==
    /\ FlagType /\ PerServer /\ ControlInv
    /\ \A s \in Servers : Adding(s) /\ Passing(s) /\ Answering(s)

-----------------------------------------------------------------------------
(* The steps, by what they change of a round's state. *)

\* Setting up and ending the round, and noise.
QuietStep ==
    /\ UNCHANGED <<addVars, closeVars, callVars>>
    /\ coord' \in {"creating", "setting"} => coord \in {"creating", "setting"}

LEMMA StepCases ==
  ASSUME [Next]_vars
  PROVE  \/ QuietStep
         \/ MixOnions
         \/ \E s \in Servers :
              \/ \E i \in DOMAIN stream[s] : AddOnions(s, i) \/ QueueJob(s, i)
              \/ \E i \in jobs[s] : decryptionWorker(s, i)
              \/ \E i \in DOMAIN got[s] : GetOnions(s, i)
              \/ CloseRound(s) \/ FilterIncoming(s) \/ Forward(s) \/ Return(s) \/ ReturnError(s)
              \/ EncryptReplies(s) \/ FinishCall(s) \/ RoundNotFound(s) \/ CallFails(s)
              \/ DeleteRound(s) \/ DeleteFails(s) \/ Crash(s)
  <1> USE DEF setupVars, addVars, closeVars, callVars, boundVars
  <1>1. CASE UNCHANGED vars BY <1>1 DEF vars, QuietStep
  <1>2. CASE Round
    <2>1. CASE \E s \in Servers : NewRound(s) \/ SetRoundSettings(s) \/ SettingsFail(s)
      BY <2>1 DEF NewRound, SetRoundSettings, SettingsFail, QuietStep
    <2>2. CASE AllCreated BY <2>2 DEF AllCreated, QuietStep
    <2>3. CASE EndRound BY <2>3 DEF EndRound, QuietStep
    <2> QED BY <1>2, <2>1, <2>2, <2>3 DEF Round
  <1>3. CASE SetupFails BY <1>3 DEF SetupFails, QuietStep
  <1>4. ASSUME NEW s \in Servers, GenerateNoise(s) PROVE QuietStep
    BY <1>4 DEF GenerateNoise, QuietStep
  <1>5. CASE \E s \in Servers : Mixer(s) \/ Client(s) \/ DeleteRound(s) \/ DeleteFails(s)
                              \/ CallFails(s) \/ Crash(s)
    BY <1>4, <1>5, Zenon DEF Mixer, Client
  <1> QED BY <1>1, <1>2, <1>3, <1>5 DEF Next

-----------------------------------------------------------------------------
(* Types and control. *)

LEMMA ServersNat ==
  /\ N \in Nat /\ N >= 1 /\ 1 \in Servers
  /\ \A s \in Servers : s \in Nat /\ s >= 1 /\ s <= N /\ s \in 1..(N + 1)
  BY ChainAssumption DEF Servers

LEMMA FlagTypeStep ==
  ASSUME FlagType, PerServer, [Next]_vars
  PROVE  FlagType' /\ PerServer'
  <1> USE DEF setupVars, addVars, closeVars, callVars, boundVars, FlagType, PerServer, Forget, StartCall
  <1>1. CASE UNCHANGED vars BY <1>1 DEF vars
  <1>2. ASSUME NEW s \in Servers, NewRound(s) PROVE FlagType' /\ PerServer' BY <1>2 DEF NewRound
  <1>3. ASSUME NEW s \in Servers, SetRoundSettings(s) PROVE FlagType' /\ PerServer'
    BY <1>3 DEF SetRoundSettings
  <1>4. ASSUME NEW s \in Servers, SettingsFail(s) PROVE FlagType' /\ PerServer' BY <1>4 DEF SettingsFail
  <1>5. CASE AllCreated BY <1>5 DEF AllCreated
  <1>6. CASE MixOnions BY <1>6 DEF MixOnions
  <1>7. CASE EndRound BY <1>7 DEF EndRound
  <1>8. CASE SetupFails BY <1>8 DEF SetupFails
  <1>9. ASSUME NEW s \in Servers, GenerateNoise(s) PROVE FlagType' /\ PerServer' BY <1>9 DEF GenerateNoise
  <1>10. ASSUME NEW s \in Servers, FilterIncoming(s) PROVE FlagType' /\ PerServer'
    BY <1>10 DEF FilterIncoming
  <1>11. ASSUME NEW s \in Servers, Forward(s) PROVE FlagType' /\ PerServer'
    BY <1>11 DEF Forward
  <1>12. ASSUME NEW s \in Servers, Return(s) PROVE FlagType' /\ PerServer'
    BY <1>12 DEF Return
  <1>13. ASSUME NEW s \in Servers, ReturnError(s) PROVE FlagType' /\ PerServer' BY <1>13 DEF ReturnError
  <1>14. ASSUME NEW s \in Servers, EncryptReplies(s) PROVE FlagType' /\ PerServer'
    BY <1>14 DEF EncryptReplies
  <1>15. ASSUME NEW s \in Servers, NEW i \in jobs[s], decryptionWorker(s, i)
         PROVE  FlagType' /\ PerServer'
    BY <1>15 DEF decryptionWorker
  <1>16. ASSUME NEW s \in Servers, NEW i \in DOMAIN stream[s], AddOnions(s, i)
         PROVE  FlagType' /\ PerServer'
    BY <1>16 DEF AddOnions
  <1>17. ASSUME NEW s \in Servers, NEW i \in DOMAIN stream[s], QueueJob(s, i)
         PROVE  FlagType' /\ PerServer'
    BY <1>17 DEF QueueJob
  <1>18. ASSUME NEW s \in Servers, NEW i \in DOMAIN got[s], GetOnions(s, i)
         PROVE  FlagType' /\ PerServer'
    BY <1>18 DEF GetOnions
  <1>19. ASSUME NEW s \in Servers, CloseRound(s) PROVE FlagType' /\ PerServer' BY <1>19 DEF CloseRound
  <1>20. ASSUME NEW s \in Servers, FinishCall(s) PROVE FlagType' /\ PerServer' BY <1>20 DEF FinishCall
  <1>21. ASSUME NEW s \in Servers, RoundNotFound(s) PROVE FlagType' /\ PerServer'
    BY <1>21 DEF RoundNotFound
  <1>22. ASSUME NEW s \in Servers, CallFails(s) PROVE FlagType' /\ PerServer' BY <1>22 DEF CallFails
  <1>23. ASSUME NEW s \in Servers, DeleteRound(s) PROVE FlagType' /\ PerServer' BY <1>23 DEF DeleteRound
  <1>24. ASSUME NEW s \in Servers, DeleteFails(s) PROVE FlagType' /\ PerServer' BY <1>24 DEF DeleteFails
  <1>25. ASSUME NEW s \in Servers, Crash(s) PROVE FlagType' /\ PerServer'
    BY <1>25 DEF Crash
  <1> HIDE DEF FlagType, PerServer
  <1> QED
    BY <1>1, <1>2, <1>3, <1>4, <1>5, <1>6, <1>7, <1>8, <1>9, <1>10, <1>11, <1>12, <1>13, <1>14, <1>15,
       <1>16, <1>17, <1>18, <1>19, <1>20, <1>21, <1>22, <1>23, <1>24, <1>25
       DEF Next, Round, Mixer, Client

LEMMA ControlStep ==
  ASSUME FlagType, PerServer, ControlInv, [Next]_vars
  PROVE  ControlInv'
  <1> USE DEF setupVars, addVars, closeVars, callVars, boundVars, ControlInv, Control, Successor
  <1> USE ServersNat DEF FlagType, PerServer
  <1>1. CASE QuietStep BY <1>1 DEF QuietStep
  <1>2. CASE MixOnions BY <1>2 DEF MixOnions, StartCall
  <1>3. ASSUME NEW s \in Servers, NEW i \in DOMAIN stream[s], AddOnions(s, i) PROVE ControlInv'
    <2>1. /\ call[s] = "adding" /\ UNCHANGED <<coord, jobs, closeVars, call, deleting>>
          /\ \A t \in Servers : t # s => accepting'[t] = accepting[t] /\ incoming'[t] = incoming[t]
      BY <1>3 DEF AddOnions
    <2> QED BY <2>1
  <1>4. ASSUME NEW s \in Servers, NEW i \in DOMAIN stream[s], QueueJob(s, i) PROVE ControlInv'
    BY <1>4 DEF QueueJob
  <1>5. ASSUME NEW s \in Servers, NEW i \in jobs[s], decryptionWorker(s, i) PROVE ControlInv'
    BY <1>5 DEF decryptionWorker
  <1>6. ASSUME NEW s \in Servers, NEW i \in DOMAIN got[s], GetOnions(s, i) PROVE ControlInv'
    BY <1>6 DEF GetOnions
  <1>7. ASSUME NEW s \in Servers, CloseRound(s) PROVE ControlInv' BY <1>7 DEF CloseRound
  <1>8. ASSUME NEW s \in Servers, FilterIncoming(s) PROVE ControlInv' BY <1>8 DEF FilterIncoming
  <1>9. ASSUME NEW s \in Servers, Forward(s) PROVE ControlInv'
    <2>1. /\ closing[s] = "filtered" /\ s < N
          /\ closing' = [closing EXCEPT ![s] = "waiting"] /\ call' = [call EXCEPT ![s + 1] = "adding"]
          /\ UNCHANGED <<coord, addVars, encryptDone, deleting>>
      BY <1>9 DEF Forward, StartCall
    <2>2. s + 1 \in Servers BY <2>1 DEF Servers
    <2>3. call[s + 1] = "idle" /\ call[s] \notin {"idle", "adding"} /\ closing[s + 1] = "no"
      BY <2>1, <2>2
    <2>4. ASSUME NEW t \in Servers PROVE (Control(t) /\ Successor(t))'
      <3>1. Control(t) /\ Successor(t) /\ (t + 1 = s + 1 => t = s) /\ t # t + 1 OBVIOUS
      <3>2. closing'[t] = IF t = s THEN "waiting" ELSE closing[t] BY <2>1
      <3>3. call'[t] = IF t = s + 1 THEN "adding" ELSE call[t] BY <2>1
      <3>4. t < N => call'[t + 1] = IF t = s THEN "adding" ELSE call[t + 1] BY <2>1, <3>1 DEF Servers
      <3> QED BY <2>1, <2>2, <2>3, <3>1, <3>2, <3>3, <3>4
    <2>5. coord' \in {"creating", "setting"} => call'[1] = "idle"
      <3>1. s + 1 # 1 OBVIOUS
      <3> QED BY <2>1, <3>1
    <2> QED BY <2>4, <2>5
  <1>10. ASSUME NEW s \in Servers, Return(s) PROVE ControlInv' BY <1>10 DEF Return
  <1>11. ASSUME NEW s \in Servers, ReturnError(s) PROVE ControlInv' BY <1>11 DEF ReturnError
  <1>12. ASSUME NEW s \in Servers, EncryptReplies(s) PROVE ControlInv' BY <1>12 DEF EncryptReplies
  <1>13. ASSUME NEW s \in Servers, FinishCall(s) PROVE ControlInv' BY <1>13 DEF FinishCall
  <1>14. ASSUME NEW s \in Servers, RoundNotFound(s) PROVE ControlInv'
    BY <1>14 DEF RoundNotFound, InProgress
  <1>15. ASSUME NEW s \in Servers, CallFails(s) PROVE ControlInv' BY <1>15 DEF CallFails, InProgress
  <1>16. ASSUME NEW s \in Servers, DeleteRound(s) PROVE ControlInv' BY <1>16 DEF DeleteRound, Forget
  <1>17. ASSUME NEW s \in Servers, DeleteFails(s) PROVE ControlInv' BY <1>17 DEF DeleteFails
  <1>18. ASSUME NEW s \in Servers, Crash(s) PROVE ControlInv'
    <2>1. /\ coord' = coord
          /\ closing' = [closing EXCEPT ![s] = "no"] /\ accepting' = [accepting EXCEPT ![s] = FALSE]
          /\ incoming' = [incoming EXCEPT ![s] = <<>>] /\ jobs' = [jobs EXCEPT ![s] = {}]
          /\ encryptDone' = [encryptDone EXCEPT ![s] = FALSE]
      BY <1>18 DEF Crash, Forget
    <2>2. ASSUME NEW t \in Servers
          PROVE  /\ deleting'[t] => deleting[t]
                 /\ call'[t] = call[t] \/ (call'[t] = "failed" /\ call[t] \in {"adding", "closing", "getting"})
                 /\ t = s => call'[t] # "adding"
      BY <1>18 DEF Crash, InProgress
    <2>3. ASSUME NEW t \in Servers PROVE (Control(t) /\ Successor(t))'
      <3>1. t < N => t + 1 \in Servers BY DEF Servers
      <3>2. CASE t = s BY <2>1, <2>2, <3>1, <3>2
      <3>3. CASE t # s
        <4>1. closing'[t] = closing[t] /\ accepting'[t] = accepting[t] /\ incoming'[t] = incoming[t]
              /\ jobs'[t] = jobs[t] /\ encryptDone'[t] = encryptDone[t]
          BY <2>1, <3>3
        <4>2. Control(t) /\ Successor(t) OBVIOUS
        <4>3. /\ deleting'[t] => deleting[t]
              /\ call'[t] = call[t] \/ (call'[t] = "failed" /\ call[t] \in {"adding", "closing", "getting"})
              /\ t < N => (call'[t + 1] = "idle" <=> call[t + 1] = "idle")
          BY <2>2, <3>1
        <4>4. Control(t)' BY <4>1, <4>2, <4>3
        <4>5. Successor(t)' BY <4>1, <4>2, <4>3
        <4> QED BY <4>4, <4>5
      <3> QED BY <3>2, <3>3
    <2> QED BY <2>1, <2>2, <2>3
  <1> HIDE DEF ControlInv, FlagType, PerServer
  <1> QED
    BY StepCases, <1>1, <1>2, <1>3, <1>4, <1>5, <1>6, <1>7, <1>8, <1>9, <1>10, <1>11, <1>12, <1>13, <1>14,
       <1>15, <1>16, <1>17, <1>18

-----------------------------------------------------------------------------
(* Adding onions. *)

LEMMA AddingFrame ==
  ASSUME NEW t \in Servers, Adding(t),
         batch'[t] = batch[t], stream'[t] = stream[t], DOMAIN got'[t] = DOMAIN got[t],
         accepting'[t] = accepting[t], incoming'[t] = incoming[t], jobs'[t] = jobs[t],
         closing'[t] = closing[t] \/ closing'[t] \notin {"no", "draining"},
         call'[t] = call[t] \/ (call'[t] # "adding" /\ call[t] # "idle")
  PROVE  Adding(t)'
  BY DEF Adding

LEMMA FreshCall ==
  ASSUME NEW t \in Servers, FlagType, ControlInv, Adding(t), call[t] = "idle",
         accepting'[t] = accepting[t], incoming'[t] = incoming[t], jobs'[t] = jobs[t],
         closing'[t] = closing[t], call'[t] = "adding",
         NEW onions \in Seq(Onions(t)),
         batch'[t] = onions, stream'[t] = [i \in DOMAIN onions |-> "new"],
         got'[t] = [i \in DOMAIN onions |-> NoReply]
  PROVE  Adding(t)'
  <1>1. closing[t] = "no" /\ incoming[t] = <<>> /\ jobs[t] = {} /\ ~accepting[t]
    BY DEF ControlInv, Control, FlagType
  <1>2. /\ DOMAIN stream'[t] = DOMAIN onions /\ DOMAIN got'[t] = DOMAIN onions
        /\ \A i \in DOMAIN onions : stream'[t][i] = "new"
    OBVIOUS
  <1>3. batch'[t] \in Seq(Onions(t)) /\ DOMAIN batch'[t] = DOMAIN onions OBVIOUS
  <1>4. /\ closing'[t] = "no" /\ incoming'[t] = <<>> /\ jobs'[t] = {} /\ ~accepting'[t]
        /\ call'[t] = "adding"
    BY <1>1
  <1> QED BY <1>2, <1>3, <1>4 DEF Adding

\* The batch a mixer is called with.
LEMMA ForwardBatch ==
  ASSUME NEW s \in Servers, s < N, Adding(s), Passing(s), closing[s] = "filtered",
         NEW p \in Permutations(Len(incoming[s] \o Noise(s)))
  PROVE  Shuffled(incoming[s] \o Noise(s), p) \in Seq(Onions(s + 1))
  <1> DEFINE out == incoming[s] \o Noise(s)
             m   == Len(out)
  <1>1. incoming[s] = IncomingValid(Decrypted(s, batch[s])) /\ batch[s] \in Seq(Onions(s))
    BY DEF Passing, Adding
  <1>2. m \in Nat /\ out \in Seq(Onions(s + 1))
    BY <1>1, FilterIncomingFacts, OutgoingFacts
  <1> HIDE DEF out, m
  <1>3. p \in [1..m -> 1..m] BY DEF Permutations, m, out
  <1>4. \A j \in 1..m : out[p[j]] \in Onions(s + 1) BY <1>2, <1>3 DEF m
  <1>5. [j \in 1..m |-> out[p[j]]] \in Seq(Onions(s + 1)) BY <1>2, <1>4
  <1> QED BY <1>5 DEF Shuffled, out, m

LEMMA ForwardCall ==
  ASSUME NEW s \in Servers, Forward(s), PerServer, FlagType, ControlInv, \A u \in Servers : Adding(u) /\ Passing(u)
  PROVE  /\ s < N /\ s + 1 \in Servers /\ call[s + 1] = "idle"
         /\ \E p \in Permutations(Len(incoming[s] \o Noise(s))) :
              LET onions == Shuffled(incoming[s] \o Noise(s), p)
              IN  /\ onions \in Seq(Onions(s + 1))
                  /\ perm' = [perm EXCEPT ![s] = p]
                  /\ StartCall(s + 1, onions)
  <1>1. s < N /\ closing[s] = "filtered" BY DEF Forward
  <1>2. s + 1 \in Servers BY <1>1, ServersNat DEF Servers
  <1>3. call[s + 1] = "idle" BY <1>1 DEF ControlInv, Successor
  <1>4. PICK p \in Permutations(Len(incoming[s] \o Noise(s))) :
               perm' = [perm EXCEPT ![s] = p] /\ StartCall(s + 1, Shuffled(incoming[s] \o Noise(s), p))
    BY DEF Forward, Shuffled
  <1>5. Shuffled(incoming[s] \o Noise(s), p) \in Seq(Onions(s + 1)) BY <1>1, ForwardBatch
  <1> QED BY <1>1, <1>2, <1>3, <1>4, <1>5

LEMMA AddOnionsAdding ==
  ASSUME NEW s \in Servers, NEW i \in DOMAIN stream[s], AddOnions(s, i),
         FlagType, PerServer, ControlInv, Adding(s)
  PROVE  Adding(s)'
  <1>1. /\ call[s] = "adding" /\ stream[s][i] = "new" /\ call' = call /\ closing' = closing
        /\ batch' = batch /\ got' = got /\ jobs' = jobs
        /\ stream'[s] = [stream[s] EXCEPT ![i] = "open"]
    BY DEF AddOnions, PerServer, closeVars
  <1>2. closing[s] = "no" BY <1>1 DEF ControlInv, Control, FlagType
  <1>3. /\ batch[s] \in Seq(Onions(s)) /\ jobs[s] \subseteq DOMAIN incoming[s]
        /\ DOMAIN stream[s] = DOMAIN batch[s] /\ DOMAIN got[s] = DOMAIN batch[s]
    BY <1>1 DEF Adding
  <1>4. /\ DOMAIN stream'[s] = DOMAIN batch[s]
        /\ \A j \in DOMAIN batch[s] : stream'[s][j] = "done" => stream[s][j] = "done" /\ j # i
    BY <1>1, <1>3
  <1>5. CASE incoming[s] = <<>>
    <2>1. /\ accepting'[s] = TRUE /\ incoming'[s] = [k \in DOMAIN batch[s] |-> Nil]
      BY <1>5 DEF AddOnions, PerServer, FlagType
    <2>2. i \in DOMAIN batch[s] BY <1>3
    <2>3. ~accepting[s]
      <3>1. DOMAIN incoming[s] # DOMAIN batch[s] BY <1>5, <2>2
      <3> QED BY <3>1 DEF Adding
    <2>4. \A j \in DOMAIN batch[s] : stream[s][j] = "new" BY <1>1, <1>3, <2>3 DEF Adding
    <2>5. incoming'[s] \in [DOMAIN batch[s] -> Onions(s) \cup {Nil}] BY <2>1
    <2>6. \A j \in DOMAIN batch[s] : stream'[s][j] # "done" BY <1>4, <2>4
    <2>7. jobs[s] = {} BY <1>3, <1>5
    <2> QED BY <1>1, <1>2, <1>3, <1>4, <2>1, <2>5, <2>6, <2>7 DEF Adding
  <1>6. CASE incoming[s] # <<>>
    <2>1. accepting' = accepting /\ incoming' = incoming BY <1>6 DEF AddOnions
    <2>2. accepting[s] BY <1>2, <1>6 DEF Adding
    <2> QED BY <1>1, <1>2, <1>3, <1>4, <2>1, <2>2 DEF Adding
  <1> QED BY <1>5, <1>6

LEMMA QueueJobAdding ==
  ASSUME NEW s \in Servers, NEW i \in DOMAIN stream[s], QueueJob(s, i),
         FlagType, PerServer, ControlInv, Adding(s)
  PROVE  Adding(s)'
  <1>1. /\ call[s] = "adding" /\ stream[s][i] = "open" /\ call' = call /\ closing' = closing
        /\ batch' = batch /\ got' = got /\ incoming' = incoming /\ accepting' = accepting
        /\ stream'[s] = [stream[s] EXCEPT ![i] = "done"]
        /\ accepting[s] => jobs'[s] = jobs[s] \cup {i}
    BY DEF QueueJob, PerServer, closeVars
  <1>2. closing[s] = "no" BY <1>1 DEF ControlInv, Control, FlagType
  <1>3. accepting[s] BY <1>1 DEF Adding
  <1>4. /\ DOMAIN stream[s] = DOMAIN batch[s] /\ DOMAIN got[s] = DOMAIN batch[s]
        /\ incoming[s] \in [DOMAIN batch[s] -> Onions(s) \cup {Nil}]
        /\ jobs[s] \subseteq DOMAIN incoming[s]
    BY <1>1, <1>3 DEF Adding
  <1>5. jobs'[s] = jobs[s] \cup {i} /\ jobs'[s] \subseteq DOMAIN incoming[s] BY <1>1, <1>3, <1>4
  <1>6. \A j \in DOMAIN batch[s] : stream'[s][j] = "done" /\ j \notin jobs'[s] => stream[s][j] = "done" /\ j \notin jobs[s]
    BY <1>1, <1>4, <1>5
  <1>7. DOMAIN stream'[s] = DOMAIN batch[s] BY <1>1, <1>4
  <1> QED BY <1>1, <1>2, <1>3, <1>4, <1>5, <1>6, <1>7 DEF Adding

LEMMA DecryptionAdding ==
  ASSUME NEW s \in Servers, NEW i \in jobs[s], decryptionWorker(s, i),
         FlagType, PerServer, ControlInv, Adding(s)
  PROVE  Adding(s)'
  <1> DEFINE o == IF batch[s][i].bad = s THEN Nil ELSE batch[s][i]
  <1>1. /\ UNCHANGED <<closing, call, batch, stream, got, accepting>>
        /\ jobs'[s] = jobs[s] \ {i}
        /\ incoming'[s] = [incoming[s] EXCEPT ![i] = o]
    BY DEF decryptionWorker, PerServer, closeVars, callVars
  <1>2. accepting[s] \/ closing[s] = "draining"
    BY DEF ControlInv, Control, FlagType, Adding
  <1>3. /\ incoming[s] \in [DOMAIN batch[s] -> Onions(s) \cup {Nil}]
        /\ jobs[s] \subseteq DOMAIN batch[s] /\ batch[s] \in Seq(Onions(s))
    BY <1>2 DEF Adding
  <1>4. i \in DOMAIN batch[s] /\ o = Decrypted(s, batch[s])[i] BY <1>3 DEF Decrypted
  <1>5. o \in Onions(s) \cup {Nil}
    <2>1. batch[s][i] \in Onions(s) BY <1>3, <1>4
    <2> QED BY <2>1
  <1> HIDE DEF o
  <1>6. incoming'[s] \in [DOMAIN batch[s] -> Onions(s) \cup {Nil}] BY <1>1, <1>3, <1>5
  <1>7. \A j \in DOMAIN batch[s] : incoming'[s][j] = IF j = i THEN o ELSE incoming[s][j] BY <1>1, <1>3
  <1>8. jobs'[s] \subseteq DOMAIN incoming'[s] BY <1>1, <1>3, <1>6
  <1>9. ASSUME call[s] = "adding" \/ closing[s] = "draining", NEW j \in DOMAIN batch[s],
               closing[s] = "draining" \/ stream[s][j] = "done", j \notin jobs'[s]
        PROVE  incoming'[s][j] = Decrypted(s, batch[s])[j]
    <2>1. CASE j = i BY <1>4, <1>7, <2>1
    <2>2. CASE j # i
      <3>1. j \notin jobs[s] BY <1>1, <1>9, <2>2
      <3> QED BY <1>7, <1>9, <2>2, <3>1 DEF Adding
    <2> QED BY <2>1, <2>2
  <1>10. closing[s] = "no" => accepting[s] BY <1>2
  <1> QED BY <1>1, <1>6, <1>8, <1>9, <1>10 DEF Adding

LEMMA CloseRoundAdding ==
  ASSUME NEW s \in Servers, CloseRound(s), FlagType, PerServer, ControlInv, Adding(s)
  PROVE  Adding(s)'
  <1>1. /\ call[s] = "adding" /\ closing[s] = "no" /\ \A i \in DOMAIN stream[s] : stream[s][i] = "done"
        /\ call'[s] = "closing" /\ closing'[s] = "draining" /\ ~accepting'[s]
        /\ UNCHANGED <<incoming, jobs, batch, stream, got>>
    BY DEF CloseRound, FlagType
  <1>2. DOMAIN stream[s] = DOMAIN batch[s] /\ DOMAIN got[s] = DOMAIN batch[s] BY <1>1 DEF Adding
  <1>3. incoming[s] \in [DOMAIN batch[s] -> Onions(s) \cup {Nil}]
    <2>1. CASE accepting[s] BY <2>1 DEF Adding
    <2>2. CASE ~accepting[s]
      <3>1. incoming[s] = <<>> /\ \A i \in DOMAIN batch[s] : stream[s][i] = "new"
        BY <1>1, <1>2, <2>2 DEF Adding
      <3>2. DOMAIN batch[s] = {} BY <1>1, <1>2, <3>1
      <3>3. <<>> \in [{} -> Onions(s) \cup {Nil}] OBVIOUS
      <3> QED BY <3>1, <3>2, <3>3
    <2> QED BY <2>1, <2>2
  <1>4. \A i \in DOMAIN batch[s] : i \notin jobs[s] => incoming[s][i] = Decrypted(s, batch[s])[i]
    BY <1>1, <1>2 DEF Adding
  <1> QED BY <1>1, <1>2, <1>3, <1>4 DEF Adding

\* A mixer that forgets the round keeps nothing of it; its client is not adding.
LEMMA ForgetAdding ==
  ASSUME NEW s \in Servers, Forget(s), FlagType, PerServer, Adding(s),
         batch' = batch, stream' = stream, got' = got,
         call'[s] # "adding", call[s] = "idle" => call'[s] = "idle", call[s] # "idle" => call'[s] # "idle"
  PROVE  Adding(s)'
  <1>1. ~accepting'[s] /\ incoming'[s] = <<>> /\ jobs'[s] = {} /\ closing'[s] = "no"
    BY DEF Forget, FlagType, PerServer
  <1> QED BY <1>1 DEF Adding

LEMMA AddingStep ==
  ASSUME FlagType, PerServer, ControlInv, \A u \in Servers : Adding(u) /\ Passing(u),
         [Next]_vars, NEW t \in Servers
  PROVE  Adding(t)'
  <1> USE DEF addVars, closeVars, callVars, boundVars
  <1>0. Adding(t) OBVIOUS
  <1>1. CASE QuietStep BY <1>0, <1>1, AddingFrame DEF QuietStep
  <1>2. CASE MixOnions
    <2>1. /\ call[1] = "idle" /\ batch[1] \in Seq(Onions(1)) /\ 1 \in Servers
          /\ UNCHANGED <<addVars, closeVars>>
      BY <1>2, ServersNat DEF MixOnions, ControlInv, Adding
    <2>2. CASE t = 1
      BY <1>0, <1>2, <2>1, <2>2, FreshCall DEF MixOnions, StartCall, PerServer, FlagType
    <2>3. CASE t # 1
      BY <1>0, <1>2, <2>1, <2>3, AddingFrame DEF MixOnions, StartCall, PerServer, FlagType
    <2> QED BY <2>2, <2>3
  <1>3. ASSUME NEW s \in Servers, NEW i \in DOMAIN stream[s], AddOnions(s, i) PROVE Adding(t)'
    <2>1. CASE t # s
      <3>1. /\ stream'[t] = stream[t] /\ accepting'[t] = accepting[t] /\ incoming'[t] = incoming[t]
            /\ UNCHANGED <<jobs, closing, call, batch, got>>
        BY <1>3, <2>1 DEF AddOnions, PerServer, FlagType
      <3> QED BY <1>0, <3>1, AddingFrame
    <2> QED BY <1>0, <1>3, <2>1, AddOnionsAdding
  <1>4. ASSUME NEW s \in Servers, NEW i \in DOMAIN stream[s], QueueJob(s, i) PROVE Adding(t)'
    <2>1. CASE t # s
      <3>1. /\ stream'[t] = stream[t] /\ jobs'[t] = jobs[t]
            /\ UNCHANGED <<accepting, incoming, closing, call, batch, got>>
        BY <1>4, <2>1 DEF QueueJob, PerServer, FlagType
      <3> QED BY <1>0, <3>1, AddingFrame
    <2> QED BY <1>0, <1>4, <2>1, QueueJobAdding
  <1>5. ASSUME NEW s \in Servers, NEW i \in jobs[s], decryptionWorker(s, i) PROVE Adding(t)'
    <2>1. CASE t # s
      <3>1. /\ incoming'[t] = incoming[t] /\ jobs'[t] = jobs[t]
            /\ UNCHANGED <<accepting, stream, closing, call, batch, got>>
        BY <1>5, <2>1 DEF decryptionWorker, PerServer, FlagType
      <3> QED BY <1>0, <3>1, AddingFrame
    <2> QED BY <1>0, <1>5, <2>1, DecryptionAdding
  <1>6. ASSUME NEW s \in Servers, NEW i \in DOMAIN got[s], GetOnions(s, i) PROVE Adding(t)'
    <2>1. /\ UNCHANGED <<accepting, incoming, jobs, stream, closing, call, batch>>
          /\ DOMAIN got'[t] = DOMAIN got[t]
      BY <1>6 DEF GetOnions, PerServer
    <2> QED BY <1>0, <2>1, AddingFrame
  <1>7. ASSUME NEW s \in Servers, CloseRound(s) PROVE Adding(t)'
    <2>1. CASE t # s
      <3>1. /\ call'[t] = call[t] /\ closing'[t] = closing[t] /\ accepting'[t] = accepting[t]
            /\ UNCHANGED <<incoming, jobs, batch, stream, got>>
        BY <1>7, <2>1 DEF CloseRound, PerServer, FlagType
      <3> QED BY <1>0, <3>1, AddingFrame
    <2> QED BY <1>0, <1>7, <2>1, CloseRoundAdding
  <1>8. ASSUME NEW s \in Servers, FilterIncoming(s) PROVE Adding(t)'
    <2>1. CASE t # s
      <3>1. /\ closing'[t] = closing[t] /\ incoming'[t] = incoming[t]
            /\ UNCHANGED <<accepting, jobs, call, batch, stream, got>>
        BY <1>8, <2>1 DEF FilterIncoming, PerServer, FlagType
      <3> QED BY <1>0, <3>1, AddingFrame
    <2>2. CASE t = s
      <3>1. /\ closing[s] = "draining" /\ jobs[s] = {} /\ closing'[s] = "filtered"
            /\ UNCHANGED <<accepting, jobs, call, batch, stream, got>>
        BY <1>8 DEF FilterIncoming, FlagType
      <3>2. ~accepting[s] /\ call[s] \notin {"idle", "adding"} BY <3>1 DEF ControlInv, Control
      <3> QED BY <1>0, <2>2, <3>1, <3>2 DEF Adding
    <2> QED BY <2>1, <2>2
  <1>9. ASSUME NEW s \in Servers, Forward(s) PROVE Adding(t)'
    <2>1. /\ s + 1 \in Servers /\ call[s + 1] = "idle"
          /\ \E p \in Permutations(Len(incoming[s] \o Noise(s))) :
               LET onions == Shuffled(incoming[s] \o Noise(s), p)
               IN  onions \in Seq(Onions(s + 1)) /\ StartCall(s + 1, onions)
      BY <1>9, ForwardCall
    <2>2. PICK onions \in Seq(Onions(s + 1)) : StartCall(s + 1, onions) BY <2>1
    <2>3. closing' = [closing EXCEPT ![s] = "waiting"] /\ UNCHANGED addVars BY <1>9 DEF Forward
    <2>4. CASE t = s + 1
      <3>1. closing'[t] = closing[t] BY <2>3, <2>4, ServersNat DEF FlagType
      <3>2. /\ call'[t] = "adding" /\ batch'[t] = onions
            /\ stream'[t] = [i \in DOMAIN onions |-> "new"] /\ got'[t] = [i \in DOMAIN onions |-> NoReply]
        BY <2>2, <2>4 DEF StartCall, PerServer, FlagType
      <3> QED BY <1>0, <2>1, <2>2, <2>3, <2>4, <3>1, <3>2, FreshCall
    <2>5. CASE t # s + 1
      <3>1. closing'[t] = closing[t] \/ closing'[t] = "waiting" BY <2>3 DEF FlagType
      <3>2. call'[t] = call[t] /\ batch'[t] = batch[t] /\ stream'[t] = stream[t] /\ got'[t] = got[t]
        BY <2>2, <2>5 DEF StartCall, PerServer, FlagType
      <3> QED BY <1>0, <2>3, <3>1, <3>2, AddingFrame
    <2> QED BY <2>4, <2>5
  <1>10. ASSUME NEW s \in Servers, Return(s) \/ ReturnError(s) PROVE Adding(t)'
    <2>1. /\ closing'[t] = closing[t] \/ closing'[t] \in {"closed", "failed"}
          /\ call'[t] = call[t] \/ (call[t] = "closing" /\ call'[t] \in {"getting", "failed"})
          /\ UNCHANGED <<addVars, batch, stream, got>>
      BY <1>10 DEF Return, ReturnError, FlagType
    <2> QED BY <1>0, <2>1, AddingFrame
  <1>11. ASSUME NEW s \in Servers, EncryptReplies(s) PROVE Adding(t)'
    BY <1>0, <1>11, AddingFrame DEF EncryptReplies
  <1>12. ASSUME NEW s \in Servers, FinishCall(s) \/ RoundNotFound(s) \/ CallFails(s) PROVE Adding(t)'
    <2>1. /\ call'[t] = call[t] \/ (call[t] \in {"adding", "closing", "getting"} /\ call'[t] \in {"done", "failed"})
          /\ UNCHANGED <<addVars, closeVars, batch, stream, got>>
      BY <1>12 DEF FinishCall, RoundNotFound, CallFails, InProgress, FlagType
    <2> QED BY <1>0, <2>1, AddingFrame
  <1>13. ASSUME NEW s \in Servers, DeleteFails(s) PROVE Adding(t)'
    BY <1>0, <1>13, AddingFrame DEF DeleteFails
  <1>14. ASSUME NEW s \in Servers, Forget(s), UNCHANGED <<batch, stream, got>>,
                call'[t] = call[t] \/ (call'[t] = "failed" /\ call[t] # "idle"), t = s => call'[t] # "adding"
         PROVE  Adding(t)'
    <2>1. CASE t = s
      BY <1>0, <1>14, <2>1, ForgetAdding
    <2>2. CASE t # s
      <3>1. accepting'[t] = accepting[t] /\ incoming'[t] = incoming[t] /\ jobs'[t] = jobs[t] /\ closing'[t] = closing[t]
        BY <1>14, <2>2 DEF Forget, FlagType, PerServer
      <3> QED BY <1>0, <1>14, <3>1, AddingFrame
    <2> QED BY <2>1, <2>2
  <1>15. ASSUME NEW s \in Servers, DeleteRound(s) PROVE Adding(t)'
    <2>1. Forget(s) /\ UNCHANGED <<call, batch, stream, got>> /\ deleting[s]
      BY <1>15 DEF DeleteRound
    <2>2. call[s] = "done" BY <2>1 DEF ControlInv, Control
    <2> QED BY <1>14, <2>1, <2>2
  <1>16. ASSUME NEW s \in Servers, Crash(s) PROVE Adding(t)'
    <2>1. Forget(s) /\ UNCHANGED <<batch, stream, got>> BY <1>16 DEF Crash
    <2>2. /\ call'[t] = call[t] \/ (call'[t] = "failed" /\ call[t] # "idle")
          /\ t = s => call'[t] # "adding"
      BY <1>16 DEF Crash, InProgress
    <2> QED BY <1>14, <2>1, <2>2
  <1> QED
    BY StepCases, <1>1, <1>2, <1>3, <1>4, <1>5, <1>6, <1>7, <1>8, <1>9, <1>10, <1>11, <1>12, <1>13, <1>15,
       <1>16, Zenon

-----------------------------------------------------------------------------
(* Passing onions on. *)

LEMMA PassingFrame ==
  ASSUME NEW t \in Servers, Passing(t),
         closing'[t] \in {"filtered", "waiting"} =>
            /\ closing'[t] = closing[t] /\ incoming'[t] = incoming[t] /\ batch'[t] = batch[t]
            /\ index'[t] = index[t] /\ perm'[t] = perm[t]
            /\ closing'[t] = "waiting" => batch'[t + 1] = batch[t + 1]
  PROVE  Passing(t)'
  BY DEF Passing

LEMMA FilterPassing ==
  ASSUME NEW s \in Servers, FilterIncoming(s), FlagType, PerServer, Adding(s)
  PROVE  Passing(s)'
  <1>1. /\ closing[s] = "draining" /\ jobs[s] = {} /\ closing'[s] = "filtered" /\ batch' = batch
        /\ index'[s] = IncomingIndex(incoming[s]) /\ incoming'[s] = IncomingValid(incoming[s])
    BY DEF FilterIncoming, FlagType, PerServer, callVars
  <1>2. /\ incoming[s] \in [DOMAIN batch[s] -> Onions(s) \cup {Nil}]
        /\ \A i \in DOMAIN batch[s] : incoming[s][i] = Decrypted(s, batch[s])[i]
    BY <1>1 DEF Adding
  <1> DEFINE d == Decrypted(s, batch[s])
  <1>3. d = [i \in DOMAIN batch[s] |-> d[i]] BY DEF Decrypted
  <1> HIDE DEF d
  <1>4. incoming[s] = d BY <1>2, <1>3 DEF d
  <1> QED BY <1>1, <1>4 DEF Passing, d

LEMMA ForwardPassing ==
  ASSUME NEW s \in Servers, Forward(s), FlagType, PerServer, ControlInv,
         \A u \in Servers : Adding(u) /\ Passing(u)
  PROVE  Passing(s)'
  <1>1. /\ s + 1 \in Servers /\ call[s + 1] = "idle" /\ s # s + 1
        /\ \E p \in Permutations(Len(incoming[s] \o Noise(s))) :
             LET onions == Shuffled(incoming[s] \o Noise(s), p)
             IN  perm' = [perm EXCEPT ![s] = p] /\ StartCall(s + 1, onions)
    BY ForwardCall, ServersNat
  <1>2. PICK p \in Permutations(Len(incoming[s] \o Noise(s))) :
               perm' = [perm EXCEPT ![s] = p] /\ StartCall(s + 1, Shuffled(incoming[s] \o Noise(s), p))
    BY <1>1
  <1>3. closing[s] = "filtered" /\ closing'[s] = "waiting" /\ incoming' = incoming /\ index' = index
    BY DEF Forward, FlagType, addVars
  <1>4. perm'[s] = p BY <1>2 DEF PerServer
  <1>5. batch'[s + 1] = Shuffled(incoming[s] \o Noise(s), p) /\ batch'[s] = batch[s]
    BY <1>1, <1>2 DEF StartCall, PerServer
  <1>6. /\ incoming[s] = IncomingValid(Decrypted(s, batch[s]))
        /\ index[s]    = IncomingIndex(Decrypted(s, batch[s]))
    BY <1>3 DEF Passing
  <1> QED BY <1>2, <1>3, <1>4, <1>5, <1>6 DEF Passing

LEMMA PassingStep ==
  ASSUME FlagType, PerServer, ControlInv, \A u \in Servers : Adding(u) /\ Passing(u),
         [Next]_vars, NEW t \in Servers
  PROVE  Passing(t)'
  <1> USE DEF addVars, closeVars, callVars, boundVars
  <1>0. /\ Passing(t)
        /\ closing[t] \in {"filtered", "waiting"} =>
             jobs[t] = {} /\ call[t] \notin {"idle", "adding"}
    BY DEF ControlInv, Control
  <1>1. CASE QuietStep BY <1>0, <1>1, PassingFrame DEF QuietStep
  <1>2. CASE MixOnions
    <2>1. call[1] = "idle" /\ 1 \in Servers BY <1>2, ServersNat DEF MixOnions, ControlInv
    <2>2. UNCHANGED <<addVars, closeVars>> /\ batch' = [batch EXCEPT ![1] = batch[1]]
      BY <1>2 DEF MixOnions, StartCall
    <2>3. t + 1 # 1 BY ServersNat
    <2>4. batch'[t] = batch[t] /\ batch'[t + 1] = batch[t + 1] BY <2>2, <2>3 DEF PerServer
    <2> QED BY <1>0, <2>2, <2>4, PassingFrame
  <1>3. ASSUME NEW s \in Servers, NEW i \in DOMAIN stream[s], AddOnions(s, i) PROVE Passing(t)'
    <2>1. /\ call[s] = "adding"
          /\ t # s => incoming'[t] = incoming[t]
          /\ UNCHANGED <<closing, index, perm, batch>>
      BY <1>3 DEF AddOnions, PerServer
    <2>2. closing[t] \in {"filtered", "waiting"} => t # s BY <1>0, <2>1
    <2> QED BY <1>0, <2>1, <2>2, PassingFrame
  <1>4. ASSUME NEW s \in Servers, NEW i \in DOMAIN stream[s], QueueJob(s, i) PROVE Passing(t)'
    BY <1>0, <1>4, PassingFrame DEF QueueJob
  <1>5. ASSUME NEW s \in Servers, NEW i \in jobs[s], decryptionWorker(s, i) PROVE Passing(t)'
    <2>1. /\ t # s => incoming'[t] = incoming[t]
          /\ UNCHANGED <<closing, index, perm, batch>>
      BY <1>5 DEF decryptionWorker, PerServer
    <2>2. closing[t] \in {"filtered", "waiting"} => t # s BY <1>0, <1>5
    <2> QED BY <1>0, <2>1, <2>2, PassingFrame
  <1>6. ASSUME NEW s \in Servers, NEW i \in DOMAIN got[s], GetOnions(s, i) PROVE Passing(t)'
    BY <1>0, <1>6, PassingFrame DEF GetOnions
  <1>7. ASSUME NEW s \in Servers, CloseRound(s) PROVE Passing(t)'
    <2>1. /\ closing'[t] = closing[t] \/ closing'[t] = "draining"
          /\ UNCHANGED <<incoming, index, perm, batch>>
      BY <1>7 DEF CloseRound, FlagType
    <2> QED BY <1>0, <2>1, PassingFrame
  <1>8. ASSUME NEW s \in Servers, FilterIncoming(s) PROVE Passing(t)'
    <2>1. CASE t # s
      <3>1. /\ closing'[t] = closing[t] /\ incoming'[t] = incoming[t] /\ index'[t] = index[t]
            /\ UNCHANGED <<perm, batch>>
        BY <1>8, <2>1 DEF FilterIncoming, PerServer, FlagType
      <3> QED BY <1>0, <3>1, PassingFrame
    <2> QED BY <1>8, <2>1, FilterPassing
  <1>9. ASSUME NEW s \in Servers, Forward(s) PROVE Passing(t)'
    <2>1. CASE t # s
      <3>1. s + 1 \in Servers /\ call[s + 1] = "idle" BY <1>9, ForwardCall
      <3>2. closing'[t] = closing[t] /\ index' = index /\ incoming' = incoming
        BY <1>9, <2>1 DEF Forward, FlagType
      <3>3. perm'[t] = perm[t] /\ \A u : u # s + 1 => batch'[u] = batch[u]
        BY <1>9, <2>1 DEF Forward, StartCall, PerServer
      <3>4. t + 1 # s + 1 BY <2>1, ServersNat
      <3>5. closing[t] \in {"filtered", "waiting"} => t # s + 1 BY <1>0, <3>1
      <3> QED BY <1>0, <3>2, <3>3, <3>4, <3>5, PassingFrame
    <2> QED BY <1>9, <2>1, ForwardPassing
  <1>10. ASSUME NEW s \in Servers, Return(s) \/ ReturnError(s) PROVE Passing(t)'
    <2>1. /\ closing'[t] = closing[t] \/ closing'[t] \in {"closed", "failed"}
          /\ UNCHANGED <<incoming, index, perm, batch>>
      BY <1>10 DEF Return, ReturnError, FlagType
    <2> QED BY <1>0, <2>1, PassingFrame
  <1>11. ASSUME NEW s \in Servers,
                EncryptReplies(s) \/ FinishCall(s) \/ RoundNotFound(s) \/ CallFails(s) \/ DeleteFails(s)
         PROVE  Passing(t)'
    BY <1>0, <1>11, PassingFrame DEF EncryptReplies, FinishCall, RoundNotFound, CallFails, DeleteFails
  <1>12. ASSUME NEW s \in Servers, DeleteRound(s) \/ Crash(s) PROVE Passing(t)'
    <2>1. Forget(s) /\ batch' = batch BY <1>12 DEF DeleteRound, Crash
    <2>2. /\ t = s => closing'[t] = "no"
          /\ t # s => /\ closing'[t] = closing[t] /\ incoming'[t] = incoming[t] /\ index'[t] = index[t]
                      /\ perm'[t] = perm[t]
      BY <2>1 DEF Forget, FlagType, PerServer
    <2> QED BY <1>0, <2>1, <2>2, PassingFrame
  <1> QED
    BY StepCases, <1>1, <1>2, <1>3, <1>4, <1>5, <1>6, <1>7, <1>8, <1>9, <1>10, <1>11, <1>12, Zenon

-----------------------------------------------------------------------------
(* Answering. *)

LEMMA AnsweringFrame ==
  ASSUME NEW t \in Servers, Answering(t), batch'[t] = batch[t],
         closing'[t] = "closed" => closing[t] = "closed" /\ replies'[t] = replies[t],
         call'[t] # "idle" => call[t] # "idle" /\ got'[t] = got[t],
         call'[t] = "done" => call[t] = "done"
  PROVE  Answering(t)'
  BY DEF Answering

LEMMA FreshAnswering ==
  ASSUME NEW t \in Servers, closing'[t] # "closed", call'[t] = "adding",
         NEW onions, batch'[t] = onions, got'[t] = [i \in DOMAIN onions |-> NoReply]
  PROVE  Answering(t)'
  BY DEF Answering

LEMMA GetOnionsAnswering ==
  ASSUME NEW s \in Servers, NEW i \in DOMAIN got[s], GetOnions(s, i),
         FlagType, PerServer, ControlInv, Adding(s), Answering(s)
  PROVE  Answering(s)'
  <1>1. /\ call[s] = "getting" /\ encryptDone[s] /\ UNCHANGED <<call, batch, closing, replies>>
        /\ got'[s] = [got[s] EXCEPT ![i] = replies[s][i]]
    BY DEF GetOnions, PerServer, closeVars
  <1>2. closing[s] = "closed" /\ DOMAIN got[s] = DOMAIN batch[s]
    BY <1>1 DEF ControlInv, Control, Adding
  <1>3. HopAnswers(s, batch[s], i, replies[s][i]) BY <1>2 DEF Answering
  <1>4. \A j \in DOMAIN batch[s] : got'[s][j] = IF j = i THEN replies[s][i] ELSE got[s][j]
    BY <1>1, <1>2
  <1>5. \A j \in DOMAIN batch[s] : got'[s][j] = NoReply \/ HopAnswers(s, batch[s], j, got'[s][j])
    BY <1>1, <1>3, <1>4 DEF Answering
  <1> QED BY <1>1, <1>5 DEF Answering

\* The replies a mixer keeps when CloseRound returns.
LEMMA ReturnReplies ==
  ASSUME NEW s \in Servers, Return(s), FlagType, PerServer, ControlInv,
         \A u \in Servers : Adding(u) /\ Passing(u) /\ Answering(u)
  PROVE  /\ DOMAIN replies'[s] = DOMAIN batch[s]
         /\ \A i \in DOMAIN batch[s] : HopAnswers(s, batch[s], i, replies'[s][i])
  <1> DEFINE b == batch[s]
             x == IncomingIndex(Decrypted(s, b))
             v == IncomingValid(Decrypted(s, b))
  <1>1. closing[s] \in {"filtered", "waiting"} BY DEF Return
  <1>2. /\ b \in Seq(Onions(s)) /\ incoming[s] = v /\ index[s] = x
    BY <1>1 DEF Adding, Passing
  <1>3. /\ x \in [DOMAIN b -> 0..Len(v)] /\ Len(v) \in Nat
        /\ \A i \in DOMAIN b : x[i] > 0 => x[i] \in 1..Len(v)
    <2>1. x \in [DOMAIN b -> 0..Len(v)] /\ Len(v) \in Nat BY <1>2, FilterIncomingFacts
    <2> HIDE DEF x, v, b
    <2> QED BY <2>1
  <1>4. CASE s = N
    <2>1. replies'[s] = EncryptedReplies(s, HandleMessages(incoming[s]))
      BY <1>4, ServersNat DEF Return, PerServer
    <2>2. replies'[s] = [i \in DOMAIN b |-> IF x[i] > 0 THEN Seal(b[i].id, HandleMessages(v)[x[i]])
                                                        ELSE Seal(Fresh, Junk)]
      <3> HIDE DEF x, v
      <3> QED BY <1>2, <1>3, <2>1 DEF EncryptedReplies
    <2>3. \A i \in DOMAIN b : HopAnswers(s, b, i, IF x[i] > 0 THEN Seal(b[i].id, HandleMessages(v)[x[i]])
                                                             ELSE Seal(Fresh, Junk))
      BY <1>2, <1>4, LastHopAnswers
    <2> HIDE DEF x, v
    <2> QED BY <2>2, <2>3
  <1>5. CASE s # N
    <2> DEFINE out == v \o Noise(s)
               p   == perm[s]
               g   == got[s + 1]
               at(k) == CHOOSE j \in DOMAIN p : p[j] = k
    <2>1. /\ s < N /\ closing[s] = "waiting" /\ call[s + 1] = "done"
          /\ replies'[s] = EncryptedReplies(s, Unshuffled(s))
      BY <1>5 DEF Return, PerServer
    <2>2. s + 1 \in Servers BY <2>1, ServersNat DEF Servers
    <2>3. p \in Permutations(Len(out)) /\ batch[s + 1] = Shuffled(out, p)
      BY <1>2, <2>1 DEF Passing
    <2>4. DOMAIN batch[s + 1] = 1..Len(out) BY <2>3 DEF Shuffled
    <2>5. \A j \in 1..Len(out) : HopAnswers(s + 1, Shuffled(out, p), j, g[j])
      <3>1. Answering(s + 1) BY <2>2
      <3>2. \A j \in DOMAIN batch[s + 1] : HopAnswers(s + 1, batch[s + 1], j, g[j])
        BY <2>1, <3>1 DEF Answering
      <3> HIDE DEF out, p, g
      <3> QED BY <2>3, <2>4, <3>2
    <2>6. replies'[s] = [i \in DOMAIN b |-> IF x[i] > 0 THEN Seal(b[i].id, g[at(x[i])])
                                                        ELSE Seal(Fresh, Junk)]
      <3>1. \A k \in 1..Len(v) : Unshuffled(s)[k] = g[at(k)]
        BY <1>2 DEF Unshuffled
      <3> HIDE DEF x, v, at, g, p
      <3> QED BY <1>2, <1>3, <2>1, <3>1 DEF EncryptedReplies
    <2>7. \A i \in DOMAIN b : HopAnswers(s, b, i, IF x[i] > 0 THEN Seal(b[i].id, g[at(x[i])])
                                                             ELSE Seal(Fresh, Junk))
      BY <1>2, <2>1, <2>3, <2>5, MiddleHopAnswers
    <2> HIDE DEF x, at
    <2> QED BY <2>6, <2>7
  <1> QED BY <1>4, <1>5

LEMMA AnsweringStep ==
  ASSUME FlagType, PerServer, ControlInv, \A u \in Servers : Adding(u) /\ Passing(u) /\ Answering(u),
         [Next]_vars, NEW t \in Servers
  PROVE  Answering(t)'
  <1> USE DEF addVars, closeVars, callVars, boundVars
  <1>0. Adding(t) /\ Answering(t) OBVIOUS
  <1>1. CASE QuietStep BY <1>0, <1>1, AnsweringFrame DEF QuietStep
  <1>2. CASE MixOnions
    <2>1. call[1] = "idle" /\ 1 \in Servers BY <1>2, ServersNat DEF MixOnions, ControlInv
    <2>2. CASE t = 1
      <3>1. /\ call'[t] = "adding" /\ batch'[t] = batch[1] /\ got'[t] = [i \in DOMAIN batch[1] |-> NoReply]
            /\ closing' = closing
        BY <1>2, <2>2 DEF MixOnions, StartCall, PerServer, FlagType
      <3>2. closing[t] # "closed" BY <2>1, <2>2 DEF ControlInv, Control
      <3> QED BY <3>1, <3>2, FreshAnswering
    <2>3. CASE t # 1
      BY <1>0, <1>2, <2>3, AnsweringFrame DEF MixOnions, StartCall, PerServer, FlagType
    <2> QED BY <2>2, <2>3
  <1>3. ASSUME NEW s \in Servers, NEW i \in DOMAIN stream[s], AddOnions(s, i) \/ QueueJob(s, i) PROVE Answering(t)'
    BY <1>0, <1>3, AnsweringFrame DEF AddOnions, QueueJob
  <1>4. ASSUME NEW s \in Servers, NEW i \in jobs[s], decryptionWorker(s, i) PROVE Answering(t)'
    BY <1>0, <1>4, AnsweringFrame DEF decryptionWorker
  <1>5. ASSUME NEW s \in Servers, NEW i \in DOMAIN got[s], GetOnions(s, i) PROVE Answering(t)'
    <2>1. CASE t # s
      <3>1. got'[t] = got[t] /\ UNCHANGED <<closing, replies, call, batch>>
        BY <1>5, <2>1 DEF GetOnions, PerServer
      <3> QED BY <1>0, <3>1, AnsweringFrame
    <2> QED BY <1>0, <1>5, <2>1, GetOnionsAnswering
  <1>6. ASSUME NEW s \in Servers, CloseRound(s) PROVE Answering(t)'
    <2>1. /\ call'[t] = call[t] \/ (call[t] = "adding" /\ call'[t] = "closing")
          /\ closing'[t] = closing[t] \/ closing'[t] = "draining"
          /\ UNCHANGED <<replies, batch, got>>
      BY <1>6 DEF CloseRound, FlagType
    <2> QED BY <1>0, <2>1, AnsweringFrame
  <1>7. ASSUME NEW s \in Servers, FilterIncoming(s) PROVE Answering(t)'
    <2>1. /\ closing'[t] = closing[t] \/ closing'[t] = "filtered"
          /\ UNCHANGED <<call, replies, batch, got>>
      BY <1>7 DEF FilterIncoming, FlagType
    <2> QED BY <1>0, <2>1, AnsweringFrame
  <1>8. ASSUME NEW s \in Servers, Forward(s) PROVE Answering(t)'
    <2>1. /\ s + 1 \in Servers /\ call[s + 1] = "idle"
          /\ \E p \in Permutations(Len(incoming[s] \o Noise(s))) :
               LET onions == Shuffled(incoming[s] \o Noise(s), p)
               IN  onions \in Seq(Onions(s + 1)) /\ StartCall(s + 1, onions)
      BY <1>8, ForwardCall
    <2>2. PICK onions \in Seq(Onions(s + 1)) : StartCall(s + 1, onions) BY <2>1
    <2>3. closing' = [closing EXCEPT ![s] = "waiting"] /\ replies' = replies BY <1>8 DEF Forward
    <2>4. CASE t = s + 1
      <3>1. closing[t] # "closed" BY <2>1, <2>4 DEF ControlInv, Control
      <3>2. closing'[t] # "closed" BY <2>3, <3>1 DEF FlagType
      <3>3. call'[t] = "adding" /\ batch'[t] = onions /\ got'[t] = [i \in DOMAIN onions |-> NoReply]
        BY <2>2, <2>4 DEF StartCall, PerServer, FlagType
      <3> QED BY <3>2, <3>3, FreshAnswering
    <2>5. CASE t # s + 1
      <3>1. closing'[t] = closing[t] \/ closing'[t] = "waiting" BY <2>3 DEF FlagType
      <3>2. call'[t] = call[t] /\ batch'[t] = batch[t] /\ got'[t] = got[t]
        BY <2>2, <2>5 DEF StartCall, PerServer, FlagType
      <3> QED BY <1>0, <2>3, <3>1, <3>2, AnsweringFrame
    <2> QED BY <2>4, <2>5
  <1>9. ASSUME NEW s \in Servers, Return(s) PROVE Answering(t)'
    <2>1. /\ closing'[t] = IF t = s THEN "closed" ELSE closing[t]
          /\ call'[t] = call[t] \/ (call[t] = "closing" /\ call'[t] = "getting")
          /\ t # s => replies'[t] = replies[t]
          /\ UNCHANGED <<batch, got>>
      BY <1>9 DEF Return, FlagType, PerServer
    <2>2. CASE t # s BY <1>0, <2>1, <2>2, AnsweringFrame
    <2>3. CASE t = s
      <3>1. /\ DOMAIN replies'[s] = DOMAIN batch[s]
            /\ \A i \in DOMAIN batch[s] : HopAnswers(s, batch[s], i, replies'[s][i])
        BY <1>9, ReturnReplies
      <3> QED BY <1>0, <2>1, <2>3, <3>1 DEF Answering
    <2> QED BY <2>2, <2>3
  <1>10. ASSUME NEW s \in Servers, ReturnError(s) PROVE Answering(t)'
    <2>1. /\ closing'[t] = closing[t] \/ closing'[t] = "failed"
          /\ call'[t] = call[t] \/ (call[t] = "closing" /\ call'[t] = "failed")
          /\ UNCHANGED <<replies, batch, got>>
      BY <1>10 DEF ReturnError, FlagType
    <2> QED BY <1>0, <2>1, AnsweringFrame
  <1>11. ASSUME NEW s \in Servers, FinishCall(s) PROVE Answering(t)'
    <2>1. /\ call[s] = "getting" /\ \A i \in DOMAIN got[s] : got[s][i] # NoReply
          /\ call'[t] = IF t = s THEN "done" ELSE call[t]
          /\ UNCHANGED <<closeVars, batch, got>>
      BY <1>11 DEF FinishCall, FlagType
    <2>2. DOMAIN got[s] = DOMAIN batch[s] BY <2>1 DEF Adding
    <2> QED BY <1>0, <2>1, <2>2 DEF Answering
  <1>12. ASSUME NEW s \in Servers, EncryptReplies(s) \/ DeleteFails(s) PROVE Answering(t)'
    BY <1>0, <1>12, AnsweringFrame DEF EncryptReplies, DeleteFails
  <1>13. ASSUME NEW s \in Servers, RoundNotFound(s) \/ CallFails(s) PROVE Answering(t)'
    <2>1. /\ call'[t] = call[t] \/ (call[t] # "idle" /\ call'[t] = "failed")
          /\ UNCHANGED <<closeVars, batch, got>>
      BY <1>13 DEF RoundNotFound, CallFails, InProgress, FlagType
    <2> QED BY <1>0, <2>1, AnsweringFrame
  <1>14. ASSUME NEW s \in Servers, DeleteRound(s) \/ Crash(s) PROVE Answering(t)'
    <2>1. Forget(s) /\ UNCHANGED <<batch, got>> BY <1>14 DEF DeleteRound, Crash
    <2>2. /\ t = s => closing'[t] = "no"
          /\ t # s => closing'[t] = closing[t] /\ replies'[t] = replies[t]
      BY <2>1 DEF Forget, FlagType, PerServer
    <2>3. call'[t] = call[t] \/ (call[t] # "idle" /\ call'[t] = "failed")
      BY <1>14 DEF DeleteRound, Crash, InProgress
    <2> QED BY <1>0, <2>1, <2>2, <2>3, AnsweringFrame
  <1> QED
    BY StepCases, <1>1, <1>2, <1>3, <1>4, <1>5, <1>6, <1>7, <1>8, <1>9, <1>10, <1>11, <1>12, <1>13, <1>14,
       Zenon

-----------------------------------------------------------------------------
(* The theorems. *)

LEMMA InitChain == Init => ChainInv
  <1> SUFFICES ASSUME Init PROVE ChainInv
    OBVIOUS
  <1>1. PICK onions \in Batches : batch = [s \in Servers |-> IF s = 1 THEN onions ELSE <<>>]
    BY DEF Init
  <1>2. FlagType BY DEF Init, FlagType
  <1>3. PerServer BY <1>1 DEF Init, PerServer
  <1>4. ControlInv BY ServersNat DEF Init, ControlInv, Control, Successor, Servers
  <1>5. ASSUME NEW s \in Servers PROVE Adding(s) /\ Passing(s) /\ Answering(s)
    <2>1. batch[s] \in Seq(Onions(s))
      <3>1. Ids(1) = {0} \X Nat BY DEF Ids
      <3>2. onions \in Seq(Onions(1)) BY <3>1, BatchesAssumption DEF Onions
      <3>3. <<>> \in Seq(Onions(s)) OBVIOUS
      <3> QED BY <1>1, <3>2, <3>3
    <2>2. /\ call[s] = "idle" /\ ~accepting[s] /\ incoming[s] = <<>> /\ jobs[s] = {}
          /\ closing[s] = "no"
      BY DEF Init
    <2> QED BY <2>1, <2>2 DEF Adding, Passing, Answering
  <1> QED BY <1>2, <1>3, <1>4, <1>5 DEF ChainInv

LEMMA NextChain == ChainInv /\ [Next]_vars => ChainInv'
  <1> SUFFICES ASSUME ChainInv, [Next]_vars PROVE ChainInv'
    OBVIOUS
  <1>1. /\ FlagType /\ PerServer /\ ControlInv
        /\ \A s \in Servers : Adding(s) /\ Passing(s) /\ Answering(s)
    BY DEF ChainInv
  <1>2. FlagType' /\ PerServer' BY <1>1, FlagTypeStep
  <1>3. ControlInv' BY <1>1, ControlStep
  <1>4. ASSUME NEW t \in Servers PROVE (Adding(t) /\ Passing(t) /\ Answering(t))'
    BY <1>1, AddingStep, PassingStep, AnsweringStep
  <1> QED BY <1>2, <1>3, <1>4 DEF ChainInv

\* ChainInv is an invariant of every round, on a chain of any length.
THEOREM ChainInvariant == Spec => []ChainInv
  <1> QED BY InitChain, NextChain, PTL DEF Spec

\* Type correctness: what a mixer keeps per onion has one entry for each onion
\* it was called with, for a chain of any length (roundState).
THEOREM TypeCorrect == Spec => []TypeOK
  <1>1. ChainInv => TypeOK
    <2> SUFFICES ASSUME ChainInv PROVE TypeOK
      OBVIOUS
    <2>1. /\ FlagType /\ ControlInv
          /\ \A s \in Servers : Adding(s) /\ Passing(s) /\ Answering(s)
      BY DEF ChainInv
    <2>2. ASSUME NEW s \in Servers
          PROVE  /\ jobs[s] \subseteq DOMAIN incoming[s]
                 /\ closing[s] \in {"no", "draining"} => DOMAIN incoming[s] \in {{}, DOMAIN batch[s]}
                 /\ closing[s] \in {"filtered", "waiting"} => index[s] \in [DOMAIN batch[s] -> 0..Len(incoming[s])]
                 /\ closing[s] = "closed" => DOMAIN replies[s] = DOMAIN batch[s]
      <3>1. jobs[s] \subseteq DOMAIN incoming[s] BY <2>1 DEF Adding
      <3>2. closing[s] \in {"no", "draining"} => DOMAIN incoming[s] \in {{}, DOMAIN batch[s]}
        <4>1. DOMAIN <<>> = {} OBVIOUS
        <4>2. closing[s] \in {"no", "draining"} =>
                incoming[s] = <<>> \/ incoming[s] \in [DOMAIN batch[s] -> Onions(s) \cup {Nil}]
          BY <2>1 DEF Adding
        <4> QED BY <4>1, <4>2
      <3>3. closing[s] \in {"filtered", "waiting"} => index[s] \in [DOMAIN batch[s] -> 0..Len(incoming[s])]
        <4>1. batch[s] \in Seq(Onions(s)) BY <2>1 DEF Adding
        <4> QED BY <2>1, <4>1, FilterIncomingFacts DEF Passing
      <3>4. closing[s] = "closed" => DOMAIN replies[s] = DOMAIN batch[s] BY <2>1 DEF Answering
      <3> QED BY <3>1, <3>2, <3>3, <3>4
    <2> QED BY <2>1, <2>2 DEF TypeOK, FlagType
  <1> QED BY <1>1, ChainInvariant, PTL

\* No decryption job of a round is left or can still come once CloseRound has
\* filtered it, at any mixer of a chain of any length.
THEOREM NoJobIsLate == Spec => []NoLateJobs
  <1>1. ChainInv => NoLateJobs
    BY DEF ChainInv, ControlInv, Control, NoLateJobs
  <1> QED BY <1>1, ChainInvariant, PTL

\* Every reply the coordinator gets answers the onion at its position: filters,
\* noise, shuffles and seals of a chain of any length undo each other, whatever
\* the batch, and crashes and failed calls never mix replies up.
THEOREM RepliesDoAnswer == Spec => []RepliesAnswer
  <1>1. ChainInv => RepliesAnswer
    <2> SUFFICES ASSUME ChainInv, call[1] = "done", NEW i \in DOMAIN batch[1]
                 PROVE  Answers(i, got[1][i])
      BY DEF RepliesAnswer
    <2> DEFINE b == batch[1]
    <2>1. 1 \in Servers /\ N \in Nat /\ N >= 1 /\ 1 \in 1..(N + 1) BY ServersNat
    <2>2. b \in Seq(Onions(1)) /\ HopAnswers(1, b, i, got[1][i])
      BY <2>1 DEF ChainInv, Adding, Answering
    <2>3. ASSUME NEW j \in DOMAIN b PROVE Survives(1, b, j) <=> Arrives(j)
      <3>1. b[j].bad \in 0..N BY <2>1, <2>2, OnionFields
      <3>2. b[j].bad \notin 1..N <=> b[j].bad = 0 BY <2>1, <3>1
      <3> QED BY <3>2 DEF Survives, Original, Arrives
    <2>4. Meets(1, b, i) = SameDrop(i) BY <2>3 DEF Meets, SameDrop
    <2>5. N - 1 + 1 = N BY <2>1
    <2>6. Arrives(i) => /\ got[1][i].keys = [s \in Servers |-> b[i].id]
                        /\ Exchanges(1, b, i, got[1][i].body)
      BY <2>2, <2>3, <2>5 DEF HopAnswers, Servers
    <2>7. ~Arrives(i) => \E k \in DOMAIN got[1][i].keys : got[1][i].keys[k] = Fresh
      BY <2>2, <2>3 DEF HopAnswers
    <2> QED BY <2>4, <2>6, <2>7 DEF Exchanges, Answers
  <1> QED BY <1>1, ChainInvariant, PTL
=============================================================================

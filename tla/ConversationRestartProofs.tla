---------------------- MODULE ConversationRestartProofs ----------------------
(***************************************************************************)
(* Proofs about Conversation when clients restart: the sequence numbers of  *)
(* one process of a client do not run into those of the next, so that       *)
(* nothing is lost, shown twice, out of order or with a gap; and, when no   *)
(* client restarts, each direction of a conversation is a FIFO channel.     *)
(***************************************************************************)
EXTENDS ConversationProofs, FiniteSetTheorems

\* Conversation numbers the texts of a process from the round of its first
\* message on, and a process takes up at most one number a round, but for the
\* rounds that were overtaken by its first one and one text it may skip.  That
\* keeps processes apart when a client is in a call again only after more rounds
\* than may overtake each other, or after as many as it may have texts; with no
\* restarts there is nothing to keep apart.
LateRedial ==
    MaxRestarts > 0 => \/ Overtaking + 1 < RedialRounds
                       \/ \A u \in Users : MaxTexts[u] <= RedialRounds

-----------------------------------------------------------------------------
(* The inductive invariant, for texts from u to its peer.  b[i] is the base *)
(* of the sequence numbers of process i of u, 0 if it has sent no text, and *)
(* e[i] how many it has used.  It may have left out one of them, that of    *)
(* text g[i], which it has never turned to (g[i] = e[i] if there is none).  *)
(* All but the last base, and all of e and g, are known to nobody, so that  *)
(* the invariant says that there are such numbers.                          *)

Counts == [Nat -> Nat]

\* The numbers of a process are below those of the next, which are above the
\* rounds the restarted process has missed.
BaseInv(u, b, e) ==
    /\ b[inc[u]] = seqBase[u]
    /\ \A i \in 0..(inc[u] - 1) : b[i] + e[i] <= floor[u] + 1
    /\ \A i, j \in 0..inc[u] : i < j /\ b[j] > 0 => b[i] + e[i] < b[j]
    /\ seqBase[u] > 0 => floor[u] + 1 < seqBase[u] /\ seqBase[u] <= latest + 1
    /\ floor[u] <= latest + RedialRounds

\* The rounds in which u's process may have used up a number.
Handled(u) == {r \in done[u] : r <= latest /\ seqBase[u] <= r + 1 + Overtaking}

\* How far u's process has got with its queue: NextMessage goes on from
\* lastOut, but lastOut is also at the front at first, and when Reply has removed
\* all that was sent, and then the text at the front is left out for now.
SenderInv(u, e, g) ==
    LET n == e[inc[u]]
    IN  /\ Confirmed(u) <= n /\ n <= relativeSeq[u] /\ relativeSeq[u] <= MaxTexts[u]
        /\ lastOut[u] > 0 => Confirmed(u) + lastOut[u] < n
        /\ g[inc[u]] = n \/ (g[inc[u]] = Confirmed(u) /\ g[inc[u]] < n)
        /\ IF seqBase[u] = 0 THEN n = 0
           ELSE /\ seqBase[u] - 1 \in done[u]
                /\ n <= Cardinality(Handled(u)) + 1
                /\ g[inc[u]] = n => n <= Cardinality(Handled(u))

\* Number s stands for text t of u.
Number(u, b, e, g, s, t) ==
    /\ t.inc <= inc[u] /\ t.rel < e[t.inc] /\ t.rel # g[t.inc]
    /\ b[t.inc] > 0 /\ s = b[t.inc] + t.rel

\* The peer has seen the first k texts of process i of u.
Seen(u, i, k) == \A j \in 0..(k - 1) : Displayed(Peer[u], i, j)

\* Nobody acknowledges what u's process has not numbered.
AckBelow(u, e, a) ==
    IF seqBase[u] = 0 THEN a <= floor[u] ELSE a < seqBase[u] + e[inc[u]]

\* An acknowledgement among the numbers of a process covers texts the
\* acknowledging user has seen, and no others.
Ack(u, b, e, a) ==
    /\ AckBelow(u, e, a)
    /\ \A i \in 0..inc[u] :
         b[i] > 0 /\ b[i] <= a /\ a < b[i] + e[i] => Seen(u, i, a - b[i] + 1)

Message(u, b, e, g, m) ==
    /\ m.from = u /\ m.seq # 0 =>
         Number(u, b, e, g, m.seq, m.text) /\ (m.lowest => Seen(u, m.text.inc, m.text.rel))
    /\ m.from = Peer[u] => Ack(u, b, e, m.ack)

WireInv(u, b, e, g) ==
    \A r \in Rounds, w \in Users :
        Message(u, b, e, g, drop[r][w]) /\ Message(u, b, e, g, mail[w][r])

QueuedInv(u, b, e, g) ==
    /\ Ack(u, b, e, ack[Peer[u]])
    /\ \A s \in DOMAIN inQueue[Peer[u]] : Number(u, b, e, g, s, inQueue[Peer[u]][s])

\* What is displayed has a number, which the process displaying it has
\* acknowledged.
ShownInv(u, b, e, g) ==
    \A n \in DOMAIN shown[Peer[u]] :
        LET line == shown[Peer[u]][n]
            s    == b[line.text.inc] + line.text.rel
        IN  /\ line.by <= inc[Peer[u]]
            /\ Number(u, b, e, g, s, line.text)
            /\ line.by = inc[Peer[u]] => s <= ack[Peer[u]]

NumberInv(u, b, e, g) ==
    /\ BaseInv(u, b, e) /\ SenderInv(u, e, g)
    /\ QueuedInv(u, b, e, g) /\ WireInv(u, b, e, g) /\ ShownInv(u, b, e, g)

\* The two parts of the display that the properties are about.
Before(t1, t2) == t1.inc < t2.inc \/ (t1.inc = t2.inc /\ t1.rel < t2.rel)

OrderInv(v) ==
    \A i, j \in DOMAIN shown[v] :
        i < j /\ shown[v][i].by = shown[v][j].by => Before(shown[v][i].text, shown[v][j].text)

GapInv(v) ==
    \A i \in DOMAIN shown[v] : \A k \in 0..(shown[v][i].text.rel - 1) :
        \E j \in 1..(i - 1) : shown[v][j].text = [inc |-> shown[v][i].text.inc, rel |-> k]

\* With no restarts the n-th line displayed is the n-th text typed, and the
\* acknowledgement says how many there are.
ExactInv(u) ==
    /\ inc[u] = 0
    /\ \A n \in DOMAIN shown[Peer[u]] : shown[Peer[u]][n].text = [inc |-> 0, rel |-> n - 1]
    /\ IF shown[Peer[u]] = <<>> THEN ack[Peer[u]] = 0
       ELSE seqBase[u] > 0 /\ ack[Peer[u]] + 1 = seqBase[u] + Len(shown[Peer[u]])

RestartInv ==
    \A u \in Users :
        /\ Seen(u, inc[u], Confirmed(u))
        /\ OrderInv(u) /\ GapInv(u)
        /\ MaxRestarts = 0 => ExactInv(u)
        /\ \E b, e, g \in Counts : NumberInv(u, b, e, g)

-----------------------------------------------------------------------------
(* Numbers. *)

LEMMA UserTypes ==
  ASSUME TypeOK, NEW u \in Users
  PROVE  /\ Peer[u] \in Users /\ Peer[Peer[u]] = u
         /\ inc[u] \in Nat /\ floor[u] \in Nat /\ seqBase[u] \in Nat /\ relativeSeq[u] \in Nat
         /\ ack[u] \in Nat /\ MaxTexts[u] \in Nat /\ latest \in Nat /\ RedialRounds \in Nat
         /\ Overtaking \in Nat /\ shown[u] \in Seq(Line)
         /\ outQueue[u] \in Seq(Nat) /\ Len(outQueue[u]) \in Nat
         /\ DOMAIN inQueue[u] \subseteq Nat
         /\ \A s \in DOMAIN inQueue[u] : inQueue[u][s] \in Text
         /\ \A r \in Rounds : drop[r][u] \in Deposit /\ mail[u][r] \in Deposit
  <1>1. /\ Peer[u] \in Users /\ Peer[Peer[u]] = u
    BY PeerAssumption
  <1>2. inc[u] \in Nat /\ floor[u] \in Nat
    BY DEF TypeOK, ProcessType
  <1>3. /\ seqBase[u] \in Nat /\ relativeSeq[u] \in Nat /\ ack[u] \in Nat
        /\ shown[u] \in Seq(Line) /\ outQueue[u] \in Seq(Nat) /\ Len(outQueue[u]) \in Nat
        /\ DOMAIN inQueue[u] \subseteq Nat
        /\ \A s \in DOMAIN inQueue[u] : inQueue[u][s] \in Text
    BY DEF TypeOK, ConvoType
  <1>4. MaxTexts[u] \in Nat /\ RedialRounds \in Nat /\ Overtaking \in Nat
    BY BoundsAssumption
  <1>5. latest \in Nat /\ \A r \in Rounds : drop[r][u] \in Deposit /\ mail[u][r] \in Deposit
    BY BoundsAssumption DEF TypeOK, ServiceType
  <1> QED
    BY <1>1, <1>2, <1>3, <1>4, <1>5

\* What there is to know of such numbers, without looking at them as functions.
LEMMA CountNat == \A e \in Counts : \A i \in Nat : e[i] \in Nat
  BY DEF Counts

Recount(f, k, n) == [f EXCEPT ![k] = n]

LEMMA CountRecount ==
  ASSUME NEW f \in Counts, NEW k, NEW n, k \in Nat, n \in Nat
  PROVE  /\ Recount(f, k, n) \in Counts /\ Recount(f, k, n)[k] = n
         /\ \A i \in Nat : i # k => Recount(f, k, n)[i] = f[i]
  BY DEF Counts, Recount

LEMMA LineTypes ==
  ASSUME TypeOK, NEW v \in Users
  PROVE  /\ Len(shown[v]) \in Nat /\ DOMAIN shown[v] = 1..Len(shown[v])
         /\ \A n \in DOMAIN shown[v] :
              /\ shown[v][n].by \in Nat /\ shown[v][n].text \in Text
              /\ shown[v][n].text.inc \in Nat /\ shown[v][n].text.rel \in Nat
  <1>1. shown[v] \in Seq(Line)
    BY UserTypes
  <1>2. /\ Len(shown[v]) \in Nat /\ DOMAIN shown[v] = 1..Len(shown[v])
        /\ \A n \in 1..Len(shown[v]) : shown[v][n] \in Line
    BY <1>1, LenProperties, ElementOfSeq
  <1>3. \A l \in Line : l.by \in Nat /\ l.text \in Text /\ l.text.inc \in Nat /\ l.text.rel \in Nat
    BY DEF Line, Text
  <1> QED
    BY <1>2, <1>3

\* A number stands for one text only.
LEMMA NumberOf ==
  ASSUME TypeOK, NEW u \in Users,
         NEW b \in Counts, NEW e \in Counts, NEW g \in Counts, BaseInv(u, b, e),
         NEW s \in Nat, NEW t \in Text, Number(u, b, e, g, s, t),
         NEW i \in 0..inc[u], NEW k \in Nat, b[i] > 0, k < e[i], s = b[i] + k
  PROVE  t.inc = i /\ t.rel = k
  <1>1. /\ t.inc \in Nat /\ t.rel \in Nat /\ inc[u] \in Nat
        /\ i \in Nat /\ b[i] \in Nat /\ b[t.inc] \in Nat /\ e[i] \in Nat /\ e[t.inc] \in Nat
    <2>1. inc[u] \in Nat
      BY UserTypes
    <2>2. t.inc \in Nat /\ t.rel \in Nat
      BY DEF Text
    <2> QED
      BY <2>1, <2>2, CountNat
  <1>2. /\ t.inc \in 0..inc[u] /\ t.rel < e[t.inc] /\ b[t.inc] > 0 /\ s = b[t.inc] + t.rel
    BY <1>1 DEF Number
  <1>3. ~(t.inc < i)
    <2> SUFFICES ASSUME t.inc < i PROVE FALSE
      OBVIOUS
    <2>1. b[t.inc] + e[t.inc] < b[i]
      BY <1>2 DEF BaseInv
    <2> QED
      BY <1>1, <1>2, <2>1
  <1>4. ~(i < t.inc)
    <2> SUFFICES ASSUME i < t.inc PROVE FALSE
      OBVIOUS
    <2>1. b[i] + e[i] < b[t.inc]
      BY <1>2 DEF BaseInv
    <2> QED
      BY <1>1, <1>2, <2>1
  <1>5. t.inc = i
    BY <1>1, <1>3, <1>4
  <1> QED
    BY <1>1, <1>2, <1>5

\* Numbers go up with the texts.
LEMMA NumbersOrdered ==
  ASSUME TypeOK, NEW u \in Users,
         NEW b \in Counts, NEW e \in Counts, NEW g \in Counts, BaseInv(u, b, e),
         NEW s1 \in Nat, NEW t1 \in Text, Number(u, b, e, g, s1, t1),
         NEW s2 \in Nat, NEW t2 \in Text, Number(u, b, e, g, s2, t2), s1 < s2
  PROVE  Before(t1, t2)
  <1>1. /\ t1.inc \in Nat /\ t1.rel \in Nat /\ t2.inc \in Nat /\ t2.rel \in Nat
        /\ inc[u] \in Nat /\ b[t1.inc] \in Nat /\ b[t2.inc] \in Nat
        /\ e[t1.inc] \in Nat /\ e[t2.inc] \in Nat
    <2>1. t1.inc \in Nat /\ t1.rel \in Nat /\ t2.inc \in Nat /\ t2.rel \in Nat
      BY DEF Text
    <2> QED
      BY <2>1, UserTypes, CountNat
  <1>2. /\ t1.inc \in 0..inc[u] /\ t1.rel < e[t1.inc] /\ b[t1.inc] > 0 /\ s1 = b[t1.inc] + t1.rel
        /\ t2.inc \in 0..inc[u] /\ t2.rel < e[t2.inc] /\ b[t2.inc] > 0 /\ s2 = b[t2.inc] + t2.rel
    BY <1>1 DEF Number
  <1>3. ~(t2.inc < t1.inc)
    <2> SUFFICES ASSUME t2.inc < t1.inc PROVE FALSE
      OBVIOUS
    <2>1. b[t2.inc] + e[t2.inc] < b[t1.inc]
      BY <1>2 DEF BaseInv
    <2> QED
      BY <1>1, <1>2, <2>1
  <1>4. t1.inc = t2.inc => t1.rel < t2.rel
    BY <1>1, <1>2
  <1> QED
    BY <1>1, <1>3, <1>4 DEF Before

-----------------------------------------------------------------------------
(* What a step may do to the numbers of u: they stay what they are, and a   *)
(* new base is above every number in use.                                   *)

Grows(u, b, e, g, c, d, h) ==
    /\ inc[u] <= inc'[u] /\ b[inc[u]] = seqBase[u]
    /\ \A i \in 0..inc[u] :
         /\ b[i] > 0 => c[i] = b[i]
         /\ e[i] <= d[i] /\ (i # inc[u] => d[i] = e[i])
         /\ h[i] = g[i] \/ e[i] <= h[i]
    /\ \A i \in 0..inc'[u] :
         c[i] > 0 => \/ i <= inc[u] /\ b[i] > 0
                     \/ seqBase[u] = 0 /\ floor[u] < c[i]
    /\ \A a \in Nat : AckBelow(u, e, a) => AckBelow(u, d, a)'
    /\ \A i, k : Displayed(Peer[u], i, k) => Displayed(Peer[u], i, k)'

\* Such a step keeps what numbers, acknowledgements and messages stand for.
LEMMA Carry ==
  ASSUME TypeOK, TypeOK', NEW u \in Users,
         NEW b \in Counts, NEW e \in Counts, NEW g \in Counts,
         NEW c \in Counts, NEW d \in Counts, NEW h \in Counts,
         Grows(u, b, e, g, c, d, h)
  PROVE  /\ \A s \in Nat, t \in Text : Number(u, b, e, g, s, t) => Number(u, c, d, h, s, t)'
         /\ \A i, k : Seen(u, i, k) => Seen(u, i, k)'
         /\ \A a \in Nat : Ack(u, b, e, a) => Ack(u, c, d, a)'
         /\ \A m \in Deposit : Message(u, b, e, g, m) => Message(u, c, d, h, m)'
  <1>1. /\ inc[u] \in Nat /\ inc'[u] \in Nat /\ floor[u] \in Nat /\ seqBase[u] \in Nat
    <2>1. inc'[u] \in Nat
      BY DEF TypeOK, ProcessType
    <2> QED
      BY <2>1, UserTypes
  <1>2. ASSUME NEW s \in Nat, NEW t \in Text, Number(u, b, e, g, s, t)
        PROVE  Number(u, c, d, h, s, t)'
    <2>1. t.inc \in Nat /\ t.rel \in Nat
      BY DEF Text
    <2>2. /\ t.inc \in 0..inc[u] /\ t.rel < e[t.inc] /\ t.rel # g[t.inc]
          /\ b[t.inc] > 0 /\ s = b[t.inc] + t.rel
      BY <1>1, <1>2, <2>1 DEF Number
    <2>3. /\ c[t.inc] = b[t.inc] /\ e[t.inc] <= d[t.inc]
          /\ h[t.inc] = g[t.inc] \/ e[t.inc] <= h[t.inc]
      BY <2>2 DEF Grows
    <2>a. e[t.inc] \in Nat /\ d[t.inc] \in Nat /\ h[t.inc] \in Nat
      BY <2>1, CountNat
    <2>4. t.rel < d[t.inc] /\ t.rel # h[t.inc]
      BY <2>1, <2>2, <2>3, <2>a
    <2>5. t.inc <= inc'[u]
      BY <1>1, <2>1, <2>2 DEF Grows
    <2> QED
      BY <2>2, <2>3, <2>4, <2>5 DEF Number
  <1>3. ASSUME NEW i, NEW k, Seen(u, i, k) PROVE Seen(u, i, k)'
    BY <1>3 DEF Grows, Seen
  <1>4. ASSUME NEW a \in Nat, Ack(u, b, e, a) PROVE Ack(u, c, d, a)'
    <2>1. AckBelow(u, e, a) /\ AckBelow(u, d, a)'
      BY <1>4 DEF Ack, Grows
    <2>2. ASSUME NEW i \in 0..inc'[u], c[i] > 0, c[i] <= a, a < c[i] + d[i]
          PROVE  Seen(u, i, a - c[i] + 1)'
      <3>1. i \in Nat /\ c[i] \in Nat
        BY <1>1, CountNat
      <3>2. ~(seqBase[u] = 0 /\ floor[u] < c[i])
        BY <1>1, <2>1, <2>2, <3>1 DEF AckBelow
      <3>3. i \in 0..inc[u] /\ b[i] > 0 /\ c[i] = b[i]
        BY <1>1, <2>2, <3>1, <3>2 DEF Grows
      <3>4. a < b[i] + e[i]
        <4>1. CASE i = inc[u]
          <5>1. b[i] = seqBase[u]
            BY <4>1 DEF Grows
          <5> QED
            BY <1>1, <2>1, <3>3, <4>1, <5>1 DEF AckBelow
        <4>2. CASE i # inc[u]
          BY <2>2, <3>3, <4>2 DEF Grows
        <4> QED
          BY <4>1, <4>2
      <3>5. Seen(u, i, a - c[i] + 1)
        BY <1>4, <2>2, <3>3, <3>4 DEF Ack
      <3> QED
        BY <1>3, <3>5
    <2> QED
      BY <2>1, <2>2 DEF Ack
  <1>5. ASSUME NEW m \in Deposit, Message(u, b, e, g, m) PROVE Message(u, c, d, h, m)'
    <2>1. m.seq \in Nat /\ m.text \in Text /\ m.ack \in Nat
      BY DEF Deposit
    <2>2. ASSUME m.from = u, m.seq # 0
          PROVE  /\ Number(u, c, d, h, m.seq, m.text)'
                 /\ m.lowest => Seen(u, m.text.inc, m.text.rel)'
      BY <1>2, <1>3, <1>5, <2>1, <2>2 DEF Message
    <2>3. ASSUME m.from = Peer[u] PROVE Ack(u, c, d, m.ack)'
      BY <1>4, <1>5, <2>1, <2>3 DEF Message
    <2> QED
      BY <2>2, <2>3 DEF Message
  <1> QED
    BY <1>2, <1>3, <1>4, <1>5

LEMMA NextTypes ==
  ASSUME TypeOK', NEW u \in Users
  PROVE  /\ inc'[u] \in Nat /\ floor'[u] \in Nat /\ seqBase'[u] \in Nat
         /\ relativeSeq'[u] \in Nat /\ ack'[u] \in Nat /\ latest' \in Nat
         /\ shown'[u] \in Seq(Line)
         /\ DOMAIN inQueue'[u] \subseteq Nat
         /\ \A s \in DOMAIN inQueue'[u] : inQueue'[u][s] \in Text
         /\ \A r \in Rounds : drop'[r][u] \in Deposit /\ mail'[u][r] \in Deposit
  <1>1. inc'[u] \in Nat /\ floor'[u] \in Nat
    BY DEF TypeOK, ProcessType
  <1>2. /\ seqBase'[u] \in Nat /\ relativeSeq'[u] \in Nat /\ ack'[u] \in Nat
        /\ shown'[u] \in Seq(Line)
        /\ DOMAIN inQueue'[u] \subseteq Nat
        /\ \A s \in DOMAIN inQueue'[u] : inQueue'[u][s] \in Text
    BY DEF TypeOK, ConvoType
  <1>3. latest' \in Nat /\ \A r \in Rounds : drop'[r][u] \in Deposit /\ mail'[u][r] \in Deposit
    BY BoundsAssumption DEF TypeOK, ServiceType
  <1> QED
    BY <1>1, <1>2, <1>3

\* Every part of the invariant but the display, after a step that grows.
LEMMA WireStep ==
  ASSUME TypeOK, TypeOK', NEW u \in Users,
         NEW b \in Counts, NEW e \in Counts, NEW g \in Counts,
         NEW c \in Counts, NEW d \in Counts, NEW h \in Counts,
         Grows(u, b, e, g, c, d, h),
         \A q \in Rounds, w \in Users :
            /\ Message(u, b, e, g, drop'[q][w]) \/ Message(u, c, d, h, drop[q][w])'
            /\ Message(u, b, e, g, mail'[w][q])
  PROVE  WireInv(u, c, d, h)'
  <1> SUFFICES ASSUME NEW q \in Rounds, NEW w \in Users
               PROVE  Message(u, c, d, h, drop[q][w])' /\ Message(u, c, d, h, mail[w][q])'
    BY DEF WireInv
  <1>1. \A m \in Deposit : Message(u, b, e, g, m) => Message(u, c, d, h, m)'
    BY Carry
  <1>2. PICK m1 \in Deposit : m1 = drop'[q][w]
    BY NextTypes
  <1>3. PICK m2 \in Deposit : m2 = mail'[w][q]
    BY NextTypes
  <1>4. Message(u, c, d, h, mail[w][q])'
    <2>1. Message(u, c, d, h, m2)'
      BY <1>1, <1>3
    <2> QED
      BY <1>3, <2>1 DEF Message, Number, Ack, AckBelow, Seen
  <1>5. ASSUME Message(u, b, e, g, drop'[q][w]) PROVE Message(u, c, d, h, drop[q][w])'
    <2>1. Message(u, c, d, h, m1)'
      BY <1>1, <1>2, <1>5
    <2> QED
      BY <1>2, <2>1 DEF Message, Number, Ack, AckBelow, Seen
  <1> QED
    BY <1>4, <1>5

LEMMA QueuedStep ==
  ASSUME TypeOK, TypeOK', NEW u \in Users,
         NEW b \in Counts, NEW e \in Counts, NEW g \in Counts,
         NEW c \in Counts, NEW d \in Counts, NEW h \in Counts,
         Grows(u, b, e, g, c, d, h),
         Ack(u, b, e, ack'[Peer[u]]),
         \A s \in DOMAIN inQueue'[Peer[u]] : Number(u, b, e, g, s, inQueue'[Peer[u]][s])
  PROVE  QueuedInv(u, c, d, h)'
  <1>1. Peer[u] \in Users
    BY UserTypes
  <1>2. PICK a \in Nat : a = ack'[Peer[u]]
    BY <1>1, NextTypes
  <1>3. Ack(u, c, d, a)'
    BY <1>2, Carry
  <1>4. Ack(u, c, d, ack[Peer[u]])'
    BY <1>2, <1>3 DEF Ack, AckBelow, Seen
  <1>5. ASSUME NEW s \in DOMAIN inQueue'[Peer[u]]
        PROVE  Number(u, c, d, h, s, inQueue[Peer[u]][s])'
    <2>1. PICK t \in Text : t = inQueue'[Peer[u]][s]
      BY <1>1, NextTypes
    <2>2. s \in Nat
      BY <1>1, NextTypes
    <2>3. Number(u, c, d, h, s, t)'
      BY <2>1, <2>2, Carry
    <2> QED
      BY <2>1, <2>3 DEF Number
  <1> QED
    BY <1>4, <1>5 DEF QueuedInv

LEMMA ShownStep ==
  ASSUME TypeOK, TypeOK', NEW u \in Users,
         NEW b \in Counts, NEW e \in Counts, NEW g \in Counts,
         NEW c \in Counts, NEW d \in Counts, NEW h \in Counts,
         Grows(u, b, e, g, c, d, h), ShownInv(u, b, e, g), shown'[Peer[u]] = shown[Peer[u]],
         \/ inc'[Peer[u]] = inc[Peer[u]] /\ ack'[Peer[u]] = ack[Peer[u]]
         \/ inc'[Peer[u]] > inc[Peer[u]]
  PROVE  ShownInv(u, c, d, h)'
  <1>1. Peer[u] \in Users
    BY UserTypes
  <1>2. inc[Peer[u]] \in Nat /\ inc'[Peer[u]] \in Nat /\ inc[u] \in Nat
    BY <1>1, UserTypes, NextTypes
  <1> SUFFICES ASSUME NEW n \in DOMAIN shown[Peer[u]]
               PROVE  LET line == shown[Peer[u]][n]
                          s    == c[line.text.inc] + line.text.rel
                      IN  /\ line.by <= inc'[Peer[u]]
                          /\ Number(u, c, d, h, s, line.text)'
                          /\ line.by = inc'[Peer[u]] => s <= ack'[Peer[u]]
    BY DEF ShownInv, Number
  <1> DEFINE line == shown[Peer[u]][n]
             s    == b[line.text.inc] + line.text.rel
  <1>3. /\ line.by <= inc[Peer[u]]
        /\ Number(u, b, e, g, s, line.text)
        /\ line.by = inc[Peer[u]] => s <= ack[Peer[u]]
    BY DEF ShownInv
  <1>4. PICK t \in Text : t = line.text /\ t.inc \in Nat /\ t.rel \in Nat /\ line.by \in Nat
    BY <1>1, LineTypes
  <1>5. c[t.inc] = b[t.inc] /\ s \in Nat
    <2>1. b[t.inc] > 0 /\ t.inc \in 0..inc[u]
      BY <1>2, <1>3, <1>4 DEF Number
    <2>2. b[t.inc] \in Nat
      BY <1>4, CountNat
    <2>3. c[t.inc] = b[t.inc]
      BY <2>1 DEF Grows
    <2> QED
      BY <1>4, <2>2, <2>3
  <1>6. Number(u, c, d, h, s, t)'
    BY <1>3, <1>4, <1>5, Carry
  <1>7. line.by <= inc'[Peer[u]] /\ (line.by = inc'[Peer[u]] => s <= ack'[Peer[u]])
    BY <1>2, <1>3, <1>4
  <1> QED
    BY <1>4, <1>5, <1>6, <1>7 DEF Number

-----------------------------------------------------------------------------
(* How far a process has got with its queue. *)

LEMMA HandledFinite ==
  ASSUME TypeOK, NEW u \in Users
  PROVE  /\ IsFiniteSet(done[u]) /\ IsFiniteSet(Handled(u))
         /\ Handled(u) \subseteq done[u] /\ Cardinality(Handled(u)) \in Nat
  <1>1. IsFiniteSet(Rounds)
    BY BoundsAssumption, FS_Interval DEF Rounds
  <1>2. done[u] \in SUBSET Rounds
    BY DEF TypeOK, ProcessType
  <1>3. IsFiniteSet(done[u])
    BY <1>1, <1>2, FS_Subset
  <1>4. Handled(u) \in SUBSET done[u]
    BY DEF Handled
  <1>5. IsFiniteSet(Handled(u))
    BY <1>3, <1>4, FS_Subset
  <1> QED
    BY <1>3, <1>4, <1>5, FS_CardinalityType

LEMMA HandledNext ==
  ASSUME TypeOK', NEW u \in Users
  PROVE  IsFiniteSet(Handled(u)') /\ Cardinality(Handled(u)') \in Nat
  <1>1. (IsFiniteSet(Handled(u)) /\ Cardinality(Handled(u)) \in Nat)'
    BY HandledFinite, PTL
  <1> QED
    BY <1>1

LEMMA HandledGrows ==
  ASSUME TypeOK, TypeOK', NEW u \in Users,
         seqBase'[u] = seqBase[u], latest <= latest', done[u] \subseteq done'[u]
  PROVE  /\ Handled(u) \in SUBSET Handled(u)' /\ IsFiniteSet(Handled(u)')
         /\ Cardinality(Handled(u)') \in Nat
         /\ Cardinality(Handled(u)) <= Cardinality(Handled(u)')
  <1>2. IsFiniteSet(Handled(u)') /\ Cardinality(Handled(u)') \in Nat
    BY HandledNext
  <1>3. latest \in Nat /\ latest' \in Nat
    BY UserTypes, NextTypes
  <1>4. \A r \in done[u] : r \in Nat
    BY BoundsAssumption DEF TypeOK, ProcessType, Rounds
  <1>5. Handled(u) \in SUBSET Handled(u)'
    BY <1>3, <1>4 DEF Handled
  <1> QED
    BY <1>2, <1>5, FS_Subset

\* A step that sends nothing for u, removes nothing from its queue and at most
\* resets lastOut.
LEMMA SenderKeeps ==
  ASSUME TypeOK, TypeOK', NEW u \in Users, NEW e \in Counts, NEW g \in Counts,
         SenderInv(u, e, g),
         inc'[u] = inc[u], seqBase'[u] = seqBase[u], Confirmed(u)' = Confirmed(u),
         \/ relativeSeq'[u] = relativeSeq[u]
         \/ relativeSeq[u] <= relativeSeq'[u] /\ relativeSeq'[u] <= MaxTexts[u],
         latest <= latest', done[u] \subseteq done'[u],
         lastOut'[u] = lastOut[u] \/ lastOut'[u] = -1
  PROVE  SenderInv(u, e, g)'
  <1> DEFINE n == e[inc[u]]
             k == g[inc[u]]
  <1>1. /\ relativeSeq[u] \in Nat /\ relativeSeq'[u] \in Nat /\ inc[u] \in Nat
        /\ MaxTexts[u] \in Nat /\ n \in Nat
    <2>1. /\ relativeSeq[u] \in Nat /\ relativeSeq'[u] \in Nat /\ inc[u] \in Nat
          /\ MaxTexts[u] \in Nat
      BY UserTypes, NextTypes
    <2> QED
      BY <2>1, CountNat
  <1>2. /\ Cardinality(Handled(u)) \in Nat /\ Cardinality(Handled(u)') \in Nat
        /\ Cardinality(Handled(u)) <= Cardinality(Handled(u)')
    BY HandledFinite, HandledGrows
  <1>3. /\ Confirmed(u) <= n /\ n <= relativeSeq[u] /\ relativeSeq[u] <= MaxTexts[u]
        /\ lastOut[u] > 0 => Confirmed(u) + lastOut[u] < n
        /\ k = n \/ (k = Confirmed(u) /\ k < n)
    BY DEF SenderInv
  <1>4. IF seqBase[u] = 0 THEN n = 0
        ELSE /\ seqBase[u] - 1 \in done[u]
             /\ n <= Cardinality(Handled(u)) + 1
             /\ k = n => n <= Cardinality(Handled(u))
    BY DEF SenderInv
  <1> HIDE DEF n, k
  <1>5. n <= relativeSeq'[u] /\ relativeSeq'[u] <= MaxTexts[u]
    BY <1>1, <1>3
  <1>6. lastOut'[u] > 0 => Confirmed(u) + lastOut'[u] < n
    BY <1>3
  <1>7. IF seqBase[u] = 0 THEN n = 0
        ELSE /\ seqBase[u] - 1 \in done'[u]
             /\ n <= Cardinality(Handled(u)') + 1
             /\ k = n => n <= Cardinality(Handled(u)')
    BY <1>1, <1>2, <1>4
  <1> QED
    BY <1>3, <1>5, <1>6, <1>7 DEF SenderInv, n, k

-----------------------------------------------------------------------------
(* Steps that display nothing. *)

LEMMA NothingSaid ==
  ASSUME TypeOK, NEW u \in Users,
         NEW b \in Counts, NEW e \in Counts, NEW g \in Counts
  PROVE  Ack(u, b, e, 0) /\ \A w \in Users : Message(u, b, e, g, Nothing(w))
  <1>1. AckBelow(u, e, 0)
    <2>1. floor[u] \in Nat /\ seqBase[u] \in Nat /\ inc[u] \in Nat
      BY UserTypes
    <2>2. e[inc[u]] \in Nat
      BY <2>1, CountNat
    <2> QED
      BY <2>1, <2>2 DEF AckBelow
  <1>2. Ack(u, b, e, 0)
    <2>1. inc[u] \in Nat
      BY UserTypes
    <2>2. \A i \in 0..inc[u] : b[i] \in Nat
      BY <2>1, CountNat
    <2> QED
      BY <1>1, <2>2 DEF Ack
  <1> QED
    BY <1>2 DEF Message, Nothing

\* u's process and its base stay; the peer's process stays or starts afresh.
LEMMA KeepNumbers ==
  ASSUME TypeOK, TypeOK', NEW u \in Users,
         NEW b \in Counts, NEW e \in Counts, NEW g \in Counts, NumberInv(u, b, e, g),
         inc'[u] = inc[u], seqBase'[u] = seqBase[u], floor'[u] = floor[u],
         SenderInv(u, e, g)', latest <= latest',
         \A q \in Rounds, w \in Users :
            Message(u, b, e, g, drop'[q][w]) /\ Message(u, b, e, g, mail'[w][q]),
         shown'[Peer[u]] = shown[Peer[u]],
         \/ /\ inc'[Peer[u]] = inc[Peer[u]] /\ ack'[Peer[u]] = ack[Peer[u]]
            /\ inQueue'[Peer[u]] = inQueue[Peer[u]]
         \/ /\ inc'[Peer[u]] > inc[Peer[u]] /\ ack'[Peer[u]] = 0
            /\ inQueue'[Peer[u]] = NoTexts
  PROVE  NumberInv(u, b, e, g)'
  <1>1. Grows(u, b, e, g, b, e, g)
    <2>1. \A a \in Nat : AckBelow(u, e, a) => AckBelow(u, e, a)'
      BY DEF AckBelow
    <2>2. \A i, k : Displayed(Peer[u], i, k) => Displayed(Peer[u], i, k)'
      BY DEF Displayed
    <2>3. /\ inc[u] <= inc'[u] /\ \A i \in 0..inc'[u] : i <= inc[u]
          /\ \A i \in 0..inc[u] : e[i] <= e[i]
      <3>1. inc[u] \in Nat
        BY UserTypes
      <3> QED
        BY <3>1, CountNat
    <2>4. b[inc[u]] = seqBase[u]
      BY DEF NumberInv, BaseInv
    <2> QED
      BY <2>1, <2>2, <2>3, <2>4 DEF Grows
  <1>2. BaseInv(u, b, e)'
    <2>1. BaseInv(u, b, e)
      BY DEF NumberInv
    <2>2. /\ latest \in Nat /\ latest' \in Nat /\ seqBase[u] \in Nat /\ floor[u] \in Nat
          /\ RedialRounds \in Nat
      BY UserTypes, NextTypes
    <2>3. /\ seqBase[u] <= latest + 1 => seqBase[u] <= latest' + 1
          /\ floor[u] <= latest + RedialRounds => floor[u] <= latest' + RedialRounds
      BY <2>2
    <2> QED
      BY <2>1, <2>3 DEF BaseInv
  <1>3. /\ Ack(u, b, e, ack'[Peer[u]])
        /\ \A s \in DOMAIN inQueue'[Peer[u]] : Number(u, b, e, g, s, inQueue'[Peer[u]][s])
    <2>1. QueuedInv(u, b, e, g)
      BY DEF NumberInv
    <2>2. DOMAIN NoTexts = {}
      BY DEF NoTexts
    <2> QED
      BY <2>1, <2>2, NothingSaid DEF QueuedInv
  <1>4. QueuedInv(u, b, e, g)'
    BY <1>1, <1>3, QueuedStep
  <1>5. WireInv(u, b, e, g)'
    BY <1>1, WireStep
  <1>6. ShownInv(u, b, e, g)'
    BY <1>1, ShownStep DEF NumberInv
  <1> QED
    BY <1>2, <1>4, <1>5, <1>6 DEF NumberInv

\* The rest of the invariant, when nothing is displayed.
LEMMA QuietStep ==
  ASSUME TypeOK, TypeOK', RestartInv, shown' = shown,
         \A u \in Users : Seen(u, inc'[u], Confirmed(u)'),
         MaxRestarts = 0 =>
            \A u \in Users :
               /\ inc'[u] = inc[u] /\ ack'[u] = ack[u]
               /\ seqBase[u] > 0 => seqBase'[u] = seqBase[u],
         \A u \in Users : \E b, e, g \in Counts : NumberInv(u, b, e, g)'
  PROVE  RestartInv'
  <1> SUFFICES ASSUME NEW u \in Users
               PROVE  /\ Seen(u, inc[u], Confirmed(u))'
                      /\ OrderInv(u)' /\ GapInv(u)'
                      /\ MaxRestarts = 0 => ExactInv(u)'
    BY DEF RestartInv
  <1>1. Seen(u, inc[u], Confirmed(u))'
    <2>1. \A j \in 0..(Confirmed(u)' - 1) : Displayed(Peer[u], inc'[u], j)
      BY DEF Seen
    <2> QED
      BY <2>1 DEF Seen, Displayed
  <1>2. OrderInv(u)' /\ GapInv(u)'
    BY DEF RestartInv, OrderInv, GapInv
  <1>3. ASSUME MaxRestarts = 0 PROVE ExactInv(u)'
    <2>1. ExactInv(u) /\ Peer[u] \in Users
      BY <1>3, UserTypes DEF RestartInv
    <2>2. /\ inc'[u] = inc[u] /\ ack'[Peer[u]] = ack[Peer[u]]
          /\ seqBase[u] > 0 => seqBase'[u] = seqBase[u]
      BY <1>3, <2>1
    <2> QED
      BY <2>1, <2>2 DEF ExactInv
  <1> QED
    BY <1>1, <1>2, <1>3

LEMMA RestartInvFrame ==
  ASSUME TypeOK, TypeOK', RestartInv,
         UNCHANGED <<outQueue, inQueue, relativeSeq, seqBase, ack, drop, mail, inc, floor,
                     done, shown>>,
         latest <= latest', \A u \in Users : lastOut'[u] = lastOut[u] \/ lastOut'[u] = -1
  PROVE  RestartInv'
  <1>1. ASSUME NEW u \in Users PROVE \E b, e, g \in Counts : NumberInv(u, b, e, g)'
    <2>1. PICK b, e, g \in Counts : NumberInv(u, b, e, g)
      BY DEF RestartInv
    <2>2. \A q \in Rounds, w \in Users :
             Message(u, b, e, g, drop'[q][w]) /\ Message(u, b, e, g, mail'[w][q])
      BY <2>1 DEF NumberInv, WireInv
    <2>3. SenderInv(u, e, g)'
      <3>1. SenderInv(u, e, g)
        BY <2>1 DEF NumberInv
      <3>2. Confirmed(u)' = Confirmed(u)
        BY DEF Confirmed
      <3> QED
        BY <3>1, <3>2, SenderKeeps
    <2>4. NumberInv(u, b, e, g)'
      BY <2>1, <2>2, <2>3, KeepNumbers
    <2> QED
      BY <2>4
  <1>2. \A u \in Users : Seen(u, inc'[u], Confirmed(u)')
    BY DEF RestartInv, Confirmed
  <1> QED
    BY <1>1, <1>2, QuietStep

LEMMA RestartInvQueueText ==
  ASSUME TypeOK, TypeOK', DeliveryInv, RestartInv, NEW w \in Users, QueueTextMessage(w)
  PROVE  RestartInv'
  <1>1. UNCHANGED <<lastOut, inQueue, seqBase, ack, drop, mail, inc, floor, done, latest, shown>>
    BY DEF QueueTextMessage, serviceVars, processVars
  <1>2. ASSUME NEW u \in Users
        PROVE  \/ relativeSeq'[u] = relativeSeq[u]
               \/ relativeSeq[u] <= relativeSeq'[u] /\ relativeSeq'[u] <= MaxTexts[u]
    <2>1. relativeSeq[u] \in Nat /\ MaxTexts[u] \in Nat /\ inc[u] \in Nat /\ inc[w] \in Nat
      BY UserTypes
    <2>2. CASE u = w
      <3>1. relativeSeq'[u] = relativeSeq[u] + 1 /\ relativeSeq[u] + inc[u] < MaxTexts[u]
        BY <2>2 DEF QueueTextMessage, TypeOK, ConvoType
      <3> QED
        BY <2>1, <3>1
    <2>3. CASE u # w
      <3>1. relativeSeq'[u] = relativeSeq[u]
        BY <2>3 DEF QueueTextMessage, TypeOK, ConvoType
      <3> QED
        BY <2>1, <3>1
    <2> QED
      BY <2>2, <2>3
  <1>3. ASSUME NEW u \in Users PROVE \E b, e, g \in Counts : NumberInv(u, b, e, g)'
    <2>1. PICK b, e, g \in Counts : NumberInv(u, b, e, g)
      BY DEF RestartInv
    <2>2. \A q \in Rounds, x \in Users :
             Message(u, b, e, g, drop'[q][x]) /\ Message(u, b, e, g, mail'[x][q])
      BY <1>1, <2>1 DEF NumberInv, WireInv
    <2>4. latest <= latest'
      <3>1. latest \in Nat
        BY UserTypes
      <3> QED
        BY <1>1, <3>1
    <2>3. SenderInv(u, e, g)'
      <3>1. SenderInv(u, e, g)
        BY <2>1 DEF NumberInv
      <3>2. Confirmed(u)' = Confirmed(u)
        BY ConfirmedQueueText
      <3> QED
        BY <1>1, <1>2, <2>4, <3>1, <3>2, SenderKeeps
    <2>5. NumberInv(u, b, e, g)'
      BY <1>1, <2>1, <2>2, <2>3, <2>4, KeepNumbers
    <2> QED
      BY <2>5
  <1>4. ASSUME NEW u \in Users PROVE Confirmed(u)' = Confirmed(u)
    BY ConfirmedQueueText
  <1>5. \A u \in Users : Seen(u, inc'[u], Confirmed(u)')
    BY <1>1, <1>4 DEF RestartInv
  <1> QED
    BY <1>1, <1>3, <1>5, QuietStep

LEMMA RestartInvMix ==
  ASSUME TypeOK, TypeOK', RestartInv, NEW r \in Rounds, Mix(r)
  PROVE  RestartInv'
  <1>1. /\ UNCHANGED <<outQueue, lastOut, inQueue, relativeSeq, seqBase, ack, inc, floor, done,
                        latest, shown>>
        /\ mail' = [w \in Users |-> [mail[w] EXCEPT ![r] = Exchanged(w, r)]]
        /\ drop' = [drop EXCEPT ![r] = [w \in Users |-> Nothing(w)]]
    BY DEF Mix, convoVars, processVars
  <1>2. ASSUME NEW q \in Rounds, NEW w \in Users
        PROVE  /\ drop'[q][w] = drop[q][w] \/ drop'[q][w] = Nothing(w)
               /\ \/ mail'[w][q] = mail[w][q]
                  \/ mail'[w][q] = drop[q][w]
                  \/ mail'[w][q] = drop[q][Peer[w]]
    <2>1. drop \in [Rounds -> [Users -> Deposit]] /\ mail \in [Users -> [Rounds -> Deposit]]
      BY DEF TypeOK, ServiceType
    <2>2. drop'[q][w] = drop[q][w] \/ drop'[q][w] = Nothing(w)
      BY <1>1, <2>1
    <2>3. mail'[w][q] = mail[w][q] \/ (q = r /\ mail'[w][q] = Exchanged(w, q))
      BY <1>1, <2>1
    <2> QED
      BY <2>2, <2>3 DEF Exchanged
  <1>3. ASSUME NEW u \in Users PROVE \E b, e, g \in Counts : NumberInv(u, b, e, g)'
    <2>1. PICK b, e, g \in Counts : NumberInv(u, b, e, g)
      BY DEF RestartInv
    <2>2. ASSUME NEW q \in Rounds, NEW w \in Users
          PROVE  Message(u, b, e, g, drop'[q][w]) /\ Message(u, b, e, g, mail'[w][q])
      <3>1. /\ Message(u, b, e, g, drop[q][w]) /\ Message(u, b, e, g, mail[w][q])
            /\ Message(u, b, e, g, drop[q][Peer[w]])
        BY <2>1, PeerAssumption DEF NumberInv, WireInv
      <3> QED
        BY <1>2, <3>1, NothingSaid
    <2>3. latest <= latest'
      BY <1>1, UserTypes
    <2>4. SenderInv(u, e, g)'
      <3>1. SenderInv(u, e, g)
        BY <2>1 DEF NumberInv
      <3>2. Confirmed(u)' = Confirmed(u)
        BY <1>1 DEF Confirmed
      <3> QED
        BY <1>1, <2>3, <3>1, <3>2, SenderKeeps
    <2>5. NumberInv(u, b, e, g)'
      BY <1>1, <2>1, <2>2, <2>3, <2>4, KeepNumbers
    <2> QED
      BY <2>5
  <1>4. \A u \in Users : Seen(u, inc'[u], Confirmed(u)')
    BY <1>1 DEF RestartInv, Confirmed
  <1> QED
    BY <1>1, <1>3, <1>4, QuietStep

\* The text u sends in round r is one it has queued.
LEMMA OutText ==
  ASSUME TypeOK, DeliveryInv, NEW u \in Users, NEW r \in Rounds, NextMessage(u, r).seq # 0
  PROVE  /\ NextMessage(u, r).text.inc = inc[u]
         /\ NextMessage(u, r).text.rel \in Nat
         /\ NextMessage(u, r).text.rel < relativeSeq[u]
         /\ NextMessage(u, r).text.rel = Confirmed(u) + NextOut(u)
         /\ NextMessage(u, r).seq = BaseIn(u, r) + NextMessage(u, r).text.rel
         /\ NextMessage(u, r).lowest => NextMessage(u, r).text.rel = Confirmed(u)
         /\ outQueue[u] # <<>>
  <1> DEFINE m == NextMessage(u, r)
             rel == outQueue[u][NextOut(u) + 1]
  <1>1. outQueue[u] # <<>>
    BY DEF NextMessage, CoverMessage
  <1>2. /\ outQueue[u] \in Seq(Nat) /\ Len(outQueue[u]) \in Nat \ {0}
        /\ relativeSeq[u] \in Nat
    BY <1>1 DEF TypeOK, ConvoType
  <1>3. NextOut(u) \in 0..(Len(outQueue[u]) - 1)
    <2>1. lastOut[u] \in Nat \/ lastOut[u] = -1
      BY DEF TypeOK, ConvoType
    <2> QED
      BY <1>2, <2>1 DEF NextOut
  <1>4. QueueInv(u)
    BY DEF DeliveryInv
  <1>5. rel = Confirmed(u) + NextOut(u) /\ rel \in Nat /\ rel < relativeSeq[u]
    <2>1. NextOut(u) + 1 \in 1..Len(outQueue[u])
      BY <1>2, <1>3
    <2>2. rel = Confirmed(u) + (NextOut(u) + 1) - 1 /\ Len(outQueue[u]) <= relativeSeq[u]
      BY <1>4, <2>1 DEF QueueInv
    <2> QED
      BY <1>2, <1>3, <2>2 DEF Confirmed
  <1>6. BaseIn(u, r) \in Nat
    BY BoundsAssumption DEF BaseIn, TypeOK, ConvoType, Rounds
  <1>7. /\ m.seq = rel + BaseIn(u, r)
        /\ m.text.inc = inc[u] /\ m.text.rel = rel /\ m.lowest = (NextOut(u) = 0)
    BY <1>1 DEF NextMessage, TextMessage
  <1>8. Confirmed(u) \in Int
    BY <1>2 DEF Confirmed
  <1> HIDE DEF m, rel
  <1>9. NextOut(u) = 0 => rel = Confirmed(u)
    BY <1>5, <1>8
  <1>10. m.seq = BaseIn(u, r) + rel
    BY <1>5, <1>6, <1>7
  <1> QED
    BY <1>1, <1>5, <1>7, <1>9, <1>10 DEF m

\* What sending in round r does to the conversation: the base it sets, if
\* any, is above all numbers in use.
Sends(w, r) ==
    /\ floor[w] < r /\ r <= latest /\ r \in Nat
    /\ r \notin done[w] /\ \A q \in done[w] : q <= r + Overtaking
    /\ done' = [done EXCEPT ![w] = @ \cup {r}]
    /\ UNCHANGED <<outQueue, inQueue, relativeSeq, ack, mail, inc, floor, latest, shown>>
    /\ drop' = drop \/ drop' = [drop EXCEPT ![r][w] = NextMessage(w, r)]
    /\ lastOut' = IF outQueue[w] = <<>> THEN lastOut ELSE [lastOut EXCEPT ![w] = NextOut(w)]
    /\ \/ seqBase' = seqBase /\ (outQueue[w] # <<>> => seqBase[w] = BaseIn(w, r) /\ seqBase[w] # 0)
       \/ /\ outQueue[w] # <<>> /\ seqBase[w] = 0 /\ BaseIn(w, r) = r + 1
          /\ seqBase' = [seqBase EXCEPT ![w] = r + 1]

LEMMA OutgoingSends ==
  ASSUME TypeOK, NEW w \in Users, NEW r \in Rounds, NEW sent \in BOOLEAN, Outgoing(w, r, sent)
  PROVE  Sends(w, r)
  <1>1. r \in Nat /\ floor[w] \in Nat /\ latest \in Nat
    BY UserTypes, BoundsAssumption DEF Rounds
  <1>2. floor[w] < r /\ r <= latest
    BY <1>1 DEF Outgoing
  <1>3. seqBase \in [Users -> Nat]
    BY DEF TypeOK, ConvoType
  <1>4. IF outQueue[w] = <<>> THEN seqBase' = seqBase
        ELSE seqBase' = [seqBase EXCEPT ![w] = BaseIn(w, r)]
    BY DEF Outgoing
  <1>5. \/ seqBase' = seqBase /\ (outQueue[w] # <<>> => seqBase[w] = BaseIn(w, r) /\ seqBase[w] # 0)
        \/ /\ outQueue[w] # <<>> /\ seqBase[w] = 0 /\ BaseIn(w, r) = r + 1
           /\ seqBase' = [seqBase EXCEPT ![w] = r + 1]
    BY <1>1, <1>3, <1>4 DEF BaseIn
  <1>6. /\ UNCHANGED <<outQueue, inQueue, relativeSeq, ack, mail, inc, floor, latest, shown>>
        /\ drop' = drop \/ drop' = [drop EXCEPT ![r][w] = NextMessage(w, r)]
    BY DEF Outgoing, serviceVars
  <1>7. /\ r \notin done[w] /\ \A q \in done[w] : q <= r + Overtaking
        /\ done' = [done EXCEPT ![w] = @ \cup {r}]
        /\ lastOut' = IF outQueue[w] = <<>> THEN lastOut ELSE [lastOut EXCEPT ![w] = NextOut(w)]
    BY DEF Outgoing
  <1> QED
    BY <1>1, <1>2, <1>5, <1>6, <1>7 DEF Sends

\* Where NextMessage turns to in the queue, at text c + j: it goes on by one, or
\* starts over.  c texts are confirmed, n numbers in use after card rounds, g the
\* text left out, and card2 counts the round at hand too.
Turn(c, n, total, g, last, j, card, card2) ==
    /\ c \in Nat /\ n \in Nat /\ total \in Nat /\ g \in Nat /\ last \in Nat \cup {-1}
    /\ j \in Nat /\ card \in Nat /\ card2 \in Nat
    /\ c <= n /\ n <= total /\ (last > 0 => c + last < n) /\ (g = n \/ (g = c /\ g < n))
    /\ n <= card + 1 /\ (g = n => n <= card) /\ card < card2
    /\ j = 0 \/ (last # -1 /\ j = last + 1)
    /\ c + j < total

\* One round more pays for one number more, but for the text left out.
LEMMA NextNumber ==
  ASSUME NEW c, NEW n, NEW total, NEW g, NEW last, NEW j, NEW card, NEW card2,
         Turn(c, n, total, g, last, j, card, card2)
  PROVE  \E n2, h \in Nat :
           /\ n <= n2 /\ n2 <= total /\ (h = g \/ n <= h)
           /\ h = n2 \/ (h = c /\ h < n2)
           /\ n2 <= card2 + 1 /\ (h = n2 => n2 <= card2)
           /\ c + j < n2 /\ c + j # h
  <1> USE DEF Turn
  <1>1. c + j <= n \/ (c + j = n + 1 /\ c = n /\ g = n)
    OBVIOUS
  <1>2. CASE c + j < n /\ c + j = g
    <2> WITNESS n \in Nat, n \in Nat
    <2> QED
      BY <1>2
  <1>3. CASE c + j < n /\ c + j # g
    <2> WITNESS n \in Nat, g \in Nat
    <2> QED
      BY <1>3
  <1>4. CASE c + j = n /\ g < n
    <2> WITNESS n + 1 \in Nat, g \in Nat
    <2> QED
      BY <1>4
  <1>5. CASE c + j = n /\ g = n
    <2> WITNESS n + 1 \in Nat, n + 1 \in Nat
    <2> QED
      BY <1>5
  <1>6. CASE c + j = n + 1 /\ c = n /\ g = n
    <2> WITNESS n + 2 \in Nat, n \in Nat
    <2> QED
      BY <1>6
  <1> QED
    BY <1>1, <1>2, <1>3, <1>4, <1>5, <1>6

\* A round u's process handles counts: it is not far behind the first one.
LEMMA HandledOneMore ==
  ASSUME TypeOK, TypeOK', NEW w \in Users, NEW r \in Rounds, Sends(w, r),
         seqBase'[w] # 0, seqBase[w] # 0 => seqBase[w] - 1 \in done[w]
  PROVE  /\ seqBase'[w] - 1 \in done'[w]
         /\ \E card \in Nat :
              /\ IF seqBase[w] = 0 THEN card = 0 ELSE card = Cardinality(Handled(w))
              /\ card < Cardinality(Handled(w)')
              /\ Cardinality(Handled(w)') \in Nat
  <1>1. /\ seqBase[w] \in Nat /\ seqBase'[w] \in Nat /\ latest \in Nat /\ r \in Nat
        /\ Overtaking \in Nat
    BY UserTypes, NextTypes, BoundsAssumption DEF Rounds
  <1>2. /\ done'[w] = done[w] \cup {r} /\ r \notin done[w]
        /\ \A q \in done[w] : q <= r + Overtaking
        /\ r <= latest /\ latest' = latest
        /\ seqBase'[w] = seqBase[w] \/ (seqBase[w] = 0 /\ seqBase'[w] = r + 1)
    BY DEF Sends, TypeOK, ConvoType, ProcessType
  <1>3. seqBase'[w] - 1 \in done'[w]
    BY <1>1, <1>2
  <1>4. seqBase'[w] <= r + 1 + Overtaking
    BY <1>1, <1>2
  <1>5. r \in Handled(w)'
    BY <1>2, <1>4 DEF Handled
  <1>7. IsFiniteSet(Handled(w)') /\ Cardinality(Handled(w)') \in Nat
    BY HandledNext
  <1>8. CASE seqBase[w] = 0
    <2>1. {r} \in SUBSET (Handled(w)')
      BY <1>5
    <2>2. Cardinality({r}) = 1
      BY FS_Singleton
    <2>3. Cardinality({r}) <= Cardinality(Handled(w)')
      BY <1>7, <2>1, FS_Subset
    <2> QED
      BY <1>3, <1>7, <1>8, <2>2, <2>3
  <1>9. CASE seqBase[w] # 0
    <2>1. seqBase'[w] = seqBase[w] /\ latest <= latest' /\ done[w] \subseteq done'[w]
      BY <1>1, <1>2, <1>9
    <2>2. Handled(w) \in SUBSET Handled(w)'
      BY <2>1, HandledGrows
    <2>3. IsFiniteSet(Handled(w)) /\ r \notin Handled(w) /\ Cardinality(Handled(w)) \in Nat
      BY <1>2, HandledFinite
    <2>4. Cardinality(Handled(w) \cup {r}) = Cardinality(Handled(w)) + 1
      BY <2>3, FS_AddElement
    <2>5. Handled(w) \cup {r} \in SUBSET (Handled(w)')
      BY <1>5, <2>2
    <2>6. Cardinality(Handled(w) \cup {r}) <= Cardinality(Handled(w)')
      BY <1>7, <2>5, FS_Subset
    <2>7. Cardinality(Handled(w)) < Cardinality(Handled(w)')
      BY <1>7, <2>3, <2>4, <2>6
    <2> QED
      BY <1>3, <1>7, <1>9, <2>3, <2>7
  <1> QED
    BY <1>8, <1>9

\* The sender's own progress when it handles a round.
LEMMA SenderSends ==
  ASSUME TypeOK, TypeOK', DeliveryInv, NEW w \in Users, NEW r \in Rounds, Sends(w, r),
         NEW e \in Counts, NEW g \in Counts, SenderInv(w, e, g)
  PROVE  \E d, h \in Counts :
           /\ SenderInv(w, d, h)'
           /\ \A i \in Nat : i # inc[w] => d[i] = e[i]
           /\ e[inc[w]] <= d[inc[w]]
           /\ \A i \in Nat : h[i] = g[i] \/ (i = inc[w] /\ e[i] <= h[i])
           /\ outQueue[w] # <<>> =>
                /\ Confirmed(w) + NextOut(w) < d[inc[w]]
                /\ Confirmed(w) + NextOut(w) # h[inc[w]]
  <1> DEFINE c == Confirmed(w)
             n == e[inc[w]]
             k == g[inc[w]]
             j == NextOut(w)
  <1>1. /\ inc[w] \in Nat /\ seqBase[w] \in Nat /\ seqBase'[w] \in Nat /\ latest \in Nat
        /\ relativeSeq[w] \in Nat /\ Len(outQueue[w]) \in Nat /\ outQueue[w] \in Seq(Nat)
        /\ MaxTexts[w] \in Nat
    BY UserTypes, NextTypes
  <1>2. n \in Nat /\ k \in Nat /\ lastOut[w] \in Nat \cup {-1}
    BY <1>1, CountNat DEF TypeOK, ConvoType
  <1>3. /\ inc' = inc /\ relativeSeq' = relativeSeq /\ latest' = latest /\ outQueue' = outQueue
        /\ done[w] \subseteq done'[w] /\ latest <= latest'
    <2>1. /\ inc' = inc /\ relativeSeq' = relativeSeq /\ latest' = latest /\ outQueue' = outQueue
          /\ done[w] \subseteq done'[w]
      BY DEF Sends, TypeOK, ProcessType
    <2> QED
      BY <1>1, <2>1
  <1>4. Confirmed(w)' = c
    BY <1>3 DEF Confirmed
  <1>5. /\ c <= n /\ n <= relativeSeq[w] /\ relativeSeq[w] <= MaxTexts[w]
        /\ lastOut[w] > 0 => c + lastOut[w] < n
        /\ k = n \/ (k = c /\ k < n)
    BY DEF SenderInv
  <1>6. IF seqBase[w] = 0 THEN n = 0
        ELSE /\ seqBase[w] - 1 \in done[w]
             /\ n <= Cardinality(Handled(w)) + 1
             /\ k = n => n <= Cardinality(Handled(w))
    BY DEF SenderInv
  <1>7. CASE outQueue[w] = <<>>
    <2>1. lastOut'[w] = lastOut[w] /\ seqBase'[w] = seqBase[w]
      BY <1>7 DEF Sends
    <2>2. SenderInv(w, e, g)'
      BY <1>3, <1>4, <2>1, SenderKeeps
    <2>3. e[inc[w]] <= e[inc[w]]
      BY <1>2
    <2> QED
      BY <1>7, <2>2, <2>3
  <1>8. CASE outQueue[w] # <<>>
    <2>1. c \in Nat /\ c + Len(outQueue[w]) = relativeSeq[w]
      <3>1. QueueInv(w)
        BY DEF DeliveryInv
      <3> QED
        BY <1>1, <3>1 DEF QueueInv, Confirmed
    <2>2. /\ lastOut'[w] = j /\ seqBase'[w] # 0
      <3>1. lastOut'[w] = j
        BY <1>8 DEF Sends, TypeOK, ConvoType
      <3>2. seqBase'[w] # 0
        <4>1. r + 1 # 0
          BY BoundsAssumption DEF Rounds
        <4> QED
          BY <1>8, <4>1 DEF Sends, TypeOK, ConvoType
      <3> QED
        BY <3>1, <3>2
    <2>3. /\ j \in Nat /\ j < Len(outQueue[w])
          /\ j = 0 \/ (lastOut[w] # -1 /\ j = lastOut[w] + 1)
      <3>1. Len(outQueue[w]) > 0
        BY <1>1, <1>8, EmptySeq
      <3> QED
        BY <1>1, <1>2, <3>1 DEF NextOut
    <2>4. seqBase[w] # 0 => seqBase[w] - 1 \in done[w]
      BY <1>6
    <2>5. seqBase'[w] - 1 \in done'[w]
      BY <2>2, <2>4, HandledOneMore
    <2>6. PICK card \in Nat :
              /\ IF seqBase[w] = 0 THEN card = 0 ELSE card = Cardinality(Handled(w))
              /\ card < Cardinality(Handled(w)')
              /\ Cardinality(Handled(w)') \in Nat
      BY <2>2, <2>4, HandledOneMore
    <2>7. n <= card + 1 /\ (k = n => n <= card)
      BY <1>6, <2>6
    <2>8. PICK card2 \in Nat : card2 = Cardinality(Handled(w)') /\ card < card2
      BY <2>6
    <2> HIDE DEF c, n, j, k
    <2>9. c + j < relativeSeq[w]
      BY <1>1, <2>1, <2>3
    <2>10. PICK n2, k2 \in Nat :
           /\ n <= n2 /\ n2 <= relativeSeq[w] /\ (k2 = k \/ n <= k2)
           /\ k2 = n2 \/ (k2 = c /\ k2 < n2)
           /\ n2 <= card2 + 1 /\ (k2 = n2 => n2 <= card2)
           /\ c + j < n2 /\ c + j # k2
      <3>1. Turn(c, n, relativeSeq[w], k, lastOut[w], j, card, card2)
        BY <1>1, <1>2, <1>5, <2>1, <2>3, <2>7, <2>8, <2>9 DEF Turn
      <3> QED
        BY <3>1, NextNumber
    <2>d. PICK d \in Counts : d[inc[w]] = n2 /\ \A i \in Nat : i # inc[w] => d[i] = e[i]
      <3>1. /\ Recount(e, inc[w], n2) \in Counts /\ Recount(e, inc[w], n2)[inc[w]] = n2
            /\ \A i \in Nat : i # inc[w] => Recount(e, inc[w], n2)[i] = e[i]
        BY <1>1, CountRecount
      <3> QED
        BY <3>1
    <2>h. PICK h \in Counts : h[inc[w]] = k2 /\ \A i \in Nat : i # inc[w] => h[i] = g[i]
      <3>1. /\ Recount(g, inc[w], k2) \in Counts /\ Recount(g, inc[w], k2)[inc[w]] = k2
            /\ \A i \in Nat : i # inc[w] => Recount(g, inc[w], k2)[i] = g[i]
        BY <1>1, CountRecount
      <3> QED
        BY <3>1
    <2>12. c <= n2 /\ (j > 0 => c + j < n2)
      BY <2>1, <2>3, <2>10
    <2>13. SenderInv(w, d, h)'
      <3>1. d[inc'[w]] = n2 /\ h[inc'[w]] = k2
        BY <1>3, <2>d, <2>h
      <3>2. /\ Confirmed(w)' <= n2 /\ n2 <= relativeSeq'[w] /\ relativeSeq'[w] <= MaxTexts[w]
            /\ lastOut'[w] > 0 => Confirmed(w)' + lastOut'[w] < n2
            /\ k2 = n2 \/ (k2 = Confirmed(w)' /\ k2 < n2)
        BY <1>3, <1>4, <1>5, <2>2, <2>10, <2>12
      <3>3. /\ n2 <= Cardinality(Handled(w)') + 1
            /\ k2 = n2 => n2 <= Cardinality(Handled(w)')
        BY <2>8, <2>10
      <3> QED
        BY <2>2, <2>5, <3>1, <3>2, <3>3 DEF SenderInv
    <2>14. \A i \in Nat : h[i] = g[i] \/ (i = inc[w] /\ e[i] <= h[i])
      BY <2>10, <2>h DEF n, k
    <2> QED
      BY <2>10, <2>13, <2>14, <2>d, <2>h DEF c, n, j
  <1> QED
    BY <1>7, <1>8

LEMMA RestartInvSender ==
  ASSUME TypeOK, TypeOK', DeliveryInv, RestartInv,
         NEW w \in Users, NEW r \in Rounds, Sends(w, r)
  PROVE  \E c, d, h \in Counts : NumberInv(w, c, d, h)'
  <1>m. PICK m \in Deposit : m = NextMessage(w, r)
    BY NextMessageType
  <1>1. /\ UNCHANGED <<outQueue, inQueue, relativeSeq, ack, mail, inc, floor, latest, shown>>
        /\ drop' = drop \/ drop' = [drop EXCEPT ![r][w] = m]
    BY <1>m DEF Sends
  <1>2. PICK b, e, g \in Counts : NumberInv(w, b, e, g)
    BY DEF RestartInv
  <1>3. /\ inc[w] \in Nat /\ floor[w] \in Nat /\ seqBase[w] \in Nat /\ seqBase'[w] \in Nat
        /\ MaxTexts[w] \in Nat /\ latest \in Nat /\ relativeSeq[w] \in Nat /\ Peer[w] \in Users
    BY UserTypes, NextTypes
  <1>4. BaseInv(w, b, e)
    BY <1>2 DEF NumberInv
  <1>5. b[inc[w]] = seqBase[w]
    BY <1>4 DEF BaseInv
  <1>6. /\ floor[w] < r /\ r <= latest /\ r \in Nat
        /\ \/ seqBase'[w] = seqBase[w] /\ (outQueue[w] # <<>> => seqBase[w] = BaseIn(w, r))
           \/ seqBase[w] = 0 /\ BaseIn(w, r) = r + 1 /\ seqBase'[w] = r + 1
    <2>1. seqBase \in [Users -> Nat]
      BY DEF TypeOK, ConvoType
    <2> QED
      BY <2>1 DEF Sends
  <1>b. /\ floor[w] < r /\ r <= latest /\ r \in Nat
        /\ seqBase'[w] = seqBase[w] \/ (seqBase[w] = 0 /\ seqBase'[w] = r + 1)
    BY <1>6
  <1>7. PICK c \in Counts :
          /\ c[inc[w]] = seqBase'[w]
          /\ \A i \in Nat : i # inc[w] => c[i] = b[i]
    <2>1. /\ Recount(b, inc[w], seqBase'[w]) \in Counts
          /\ Recount(b, inc[w], seqBase'[w])[inc[w]] = seqBase'[w]
          /\ \A i \in Nat : i # inc[w] => Recount(b, inc[w], seqBase'[w])[i] = b[i]
      BY <1>3, CountRecount
    <2> QED
      BY <2>1
  <1>d. PICK d, h \in Counts :
           /\ SenderInv(w, d, h)'
           /\ \A i \in Nat : i # inc[w] => d[i] = e[i]
           /\ e[inc[w]] <= d[inc[w]]
           /\ \A i \in Nat : h[i] = g[i] \/ (i = inc[w] /\ e[i] <= h[i])
           /\ outQueue[w] # <<>> =>
                /\ Confirmed(w) + NextOut(w) < d[inc[w]]
                /\ Confirmed(w) + NextOut(w) # h[inc[w]]
    <2>1. SenderInv(w, e, g)
      BY <1>2 DEF NumberInv
    <2> QED
      BY <2>1, SenderSends
  <1>e. \A i \in Nat :
           e[i] \in Nat /\ d[i] \in Nat /\ e[i] <= d[i] /\ (i # inc[w] => d[i] = e[i])
    <2>1. \A i \in Nat : e[i] \in Nat /\ d[i] \in Nat
      BY <1>d, CountNat
    <2>2. \A i \in Nat : i # inc[w] => d[i] = e[i]
      BY <1>d
    <2> TAKE i \in Nat
    <2>3. CASE i = inc[w]
      BY <1>d, <2>1, <2>3
    <2>4. CASE i # inc[w]
      BY <2>1, <2>2, <2>4
    <2> QED
      BY <2>1, <2>2, <2>3, <2>4
  <1>8. Grows(w, b, e, g, c, d, h)
    <2>1. \A a \in Nat : AckBelow(w, e, a) => AckBelow(w, d, a)'
      <3>1. floor'[w] = floor[w] /\ inc'[w] = inc[w]
        BY <1>1
      <3>2. e[inc[w]] \in Nat /\ d[inc[w]] \in Nat /\ e[inc[w]] <= d[inc[w]]
        BY <1>3, <1>e
      <3> QED
        BY <1>3, <1>b, <3>1, <3>2 DEF AckBelow
    <2>2. \A i, k : Displayed(Peer[w], i, k) => Displayed(Peer[w], i, k)'
      BY <1>1, SameShown
    <2>3. \A i \in 0..inc[w] : b[i] > 0 => c[i] = b[i]
      BY <1>3, <1>5, <1>7, <1>b
    <2>4. \A i \in 0..inc[w] :
             c[i] > 0 => \/ i <= inc[w] /\ b[i] > 0
                         \/ seqBase[w] = 0 /\ floor[w] < c[i]
      BY <1>3, <1>5, <1>7, <1>b
    <2>5. \A i \in 0..inc[w] : e[i] <= d[i] /\ (i # inc[w] => d[i] = e[i])
      BY <1>3, <1>e
    <2>6. inc[w] <= inc'[w] /\ inc'[w] = inc[w] /\ \A i \in 0..inc[w] : h[i] = g[i] \/ e[i] <= h[i]
      BY <1>1, <1>3, <1>d
    <2> QED
      BY <1>5, <2>1, <2>2, <2>3, <2>4, <2>5, <2>6 DEF Grows
  <1>9. BaseInv(w, c, d)'
    <2>1. \A i \in 0..(inc[w] - 1) : c[i] = b[i] /\ d[i] = e[i] /\ c[i] + d[i] <= floor[w] + 1
      <3> TAKE i \in 0..(inc[w] - 1)
      <3>1. i \in Nat /\ i # inc[w]
        BY <1>3
      <3>2. c[i] = b[i] /\ d[i] = e[i]
        BY <1>7, <1>e, <3>1
      <3> QED
        BY <1>4, <3>2 DEF BaseInv
    <2>2. seqBase'[w] > 0 => floor[w] + 1 < seqBase'[w] /\ seqBase'[w] <= latest + 1
      BY <1>3, <1>4, <1>b DEF BaseInv
    <2>3. ASSUME NEW i \in 0..inc[w], NEW j \in 0..inc[w], i < j, c[j] > 0
          PROVE  c[i] + d[i] < c[j]
      <3>1. /\ i \in 0..(inc[w] - 1) /\ i \in Nat /\ j \in Nat /\ c[i] \in Nat /\ c[j] \in Nat
            /\ d[i] \in Nat
        BY <1>3, <1>7, <2>3, CountNat
      <3>2. CASE j = inc[w]
        <4>1. c[i] + d[i] <= floor[w] + 1
          BY <2>1, <3>1
        <4>2. floor[w] + 1 < c[j]
          BY <1>7, <2>2, <2>3, <3>2
        <4> QED
          BY <1>3, <3>1, <4>1, <4>2
      <3>3. CASE j # inc[w]
        <4>1. c[j] = b[j] /\ c[i] = b[i] /\ d[i] = e[i]
          BY <1>7, <2>1, <3>1, <3>3
        <4> QED
          BY <1>4, <2>3, <4>1 DEF BaseInv
      <3> QED
        BY <3>2, <3>3
    <2>4. floor[w] <= latest + RedialRounds
      BY <1>4 DEF BaseInv
    <2> QED
      BY <1>1, <1>7, <2>1, <2>2, <2>3, <2>4 DEF BaseInv
  <1>10. QueuedInv(w, c, d, h)'
    BY <1>1, <1>2, <1>8, QueuedStep DEF NumberInv, QueuedInv
  <1>11. ShownInv(w, c, d, h)'
    BY <1>1, <1>2, <1>8, ShownStep DEF NumberInv
  <1>12. ASSUME drop'[r][w] = m PROVE Message(w, c, d, h, drop[r][w])'
    <2>1. m.from = w /\ m.ack = ack[w]
      BY <1>m, OutMessage
    <2>2. ASSUME m.seq # 0
          PROVE  /\ Number(w, c, d, h, m.seq, m.text)'
                 /\ m.lowest => Seen(w, m.text.inc, m.text.rel)'
      <3>1. /\ m.text.inc = inc[w] /\ m.text.rel \in Nat
            /\ m.text.rel = Confirmed(w) + NextOut(w)
            /\ m.seq = BaseIn(w, r) + m.text.rel
            /\ m.lowest => m.text.rel = Confirmed(w)
            /\ outQueue[w] # <<>>
        BY <1>m, <2>2, OutText
      <3>2. c[m.text.inc] = BaseIn(w, r) /\ c[m.text.inc] > 0
        <4>1. BaseIn(w, r) > 0
          BY <1>3, <1>b DEF BaseIn
        <4> QED
          BY <1>6, <1>7, <3>1, <4>1
      <3>3. m.text.rel < d[m.text.inc] /\ m.text.rel # h[m.text.inc]
        BY <1>d, <3>1
      <3>4. m.text.inc <= inc[w]
        BY <1>3, <3>1
      <3>5. Number(w, c, d, h, m.seq, m.text)'
        BY <1>1, <3>1, <3>2, <3>3, <3>4 DEF Number
      <3>6. Seen(w, inc[w], Confirmed(w))
        BY DEF RestartInv
      <3>7. m.lowest => Seen(w, m.text.inc, m.text.rel)
        BY <3>1, <3>6
      <3>8. PICK x, y : x = m.text.inc /\ y = m.text.rel
        OBVIOUS
      <3>9. Seen(w, x, y) => Seen(w, x, y)'
        BY <1>7, <1>8, Carry
      <3> QED
        BY <3>5, <3>7, <3>8, <3>9 DEF Seen
    <2>3. ASSUME m.from = Peer[w] PROVE Ack(w, c, d, m.ack)'
      <3>1. Ack(w, b, e, ack[Peer[w]]) /\ ack[w] \in Nat /\ Peer[w] = w
        BY <1>2, <2>1, <2>3, UserTypes DEF NumberInv, QueuedInv
      <3>2. PICK a \in Nat : a = ack[w]
        BY <3>1
      <3>3. Ack(w, c, d, a)'
        BY <1>7, <1>8, <3>1, <3>2, Carry
      <3> QED
        BY <1>1, <2>1, <3>2, <3>3 DEF Ack, AckBelow, Seen
    <2> QED
      BY <1>12, <2>2, <2>3 DEF Message, Number, Ack, AckBelow, Seen
  <1>13. WireInv(w, c, d, h)'
    <2>1. ASSUME NEW q \in Rounds, NEW x \in Users
          PROVE  /\ Message(w, b, e, g, drop'[q][x]) \/ Message(w, c, d, h, drop[q][x])'
                 /\ Message(w, b, e, g, mail'[x][q])
      <3>1. Message(w, b, e, g, drop[q][x]) /\ Message(w, b, e, g, mail[x][q])
        BY <1>2 DEF NumberInv, WireInv
      <3>2. drop'[q][x] = drop[q][x] \/ (q = r /\ x = w /\ drop'[q][x] = m)
        <4>1. drop \in [Rounds -> [Users -> Deposit]]
          BY DEF TypeOK, ServiceType
        <4> QED
          BY <1>1, <4>1
      <3> QED
        BY <1>1, <1>12, <3>1, <3>2
    <2> QED
      BY <1>7, <1>8, <2>1, WireStep
  <1> QED
    BY <1>7, <1>d, <1>9, <1>10, <1>11, <1>13 DEF NumberInv

LEMMA RestartInvOutgoing ==
  ASSUME TypeOK, TypeOK', DeliveryInv, RestartInv, NEW w \in Users, NEW r \in Rounds, Sends(w, r)
  PROVE  RestartInv'
  <1>1. UNCHANGED <<outQueue, inQueue, relativeSeq, ack, mail, inc, floor, latest, shown>>
    BY DEF Sends
  <1>2. ASSUME NEW u \in Users, u # w PROVE \E b, e, g \in Counts : NumberInv(u, b, e, g)'
    <2>1. PICK b, e, g \in Counts : NumberInv(u, b, e, g)
      BY DEF RestartInv
    <2>2. PICK m \in Deposit : m = NextMessage(w, r)
      BY NextMessageType
    <2>3. m.from = w /\ m.ack = ack[w]
      BY <2>2, OutMessage
    <2>4. Message(u, b, e, g, m)
      BY <1>2, <2>1, <2>3 DEF Message, NumberInv, QueuedInv
    <2>5. ASSUME NEW q \in Rounds, NEW x \in Users
          PROVE  Message(u, b, e, g, drop'[q][x]) /\ Message(u, b, e, g, mail'[x][q])
      <3>1. Message(u, b, e, g, drop[q][x]) /\ Message(u, b, e, g, mail[x][q])
        BY <2>1 DEF NumberInv, WireInv
      <3>2. drop'[q][x] = drop[q][x] \/ drop'[q][x] = m
        <4>1. drop \in [Rounds -> [Users -> Deposit]]
          BY DEF TypeOK, ServiceType
        <4>2. drop' = drop \/ drop' = [drop EXCEPT ![r][w] = m]
          BY <2>2 DEF Sends
        <4> QED
          BY <4>1, <4>2
      <3> QED
        BY <1>1, <2>4, <3>1, <3>2
    <2>6. latest <= latest'
      <3>1. latest \in Nat
        BY UserTypes
      <3> QED
        BY <1>1, <3>1
    <2>7. seqBase'[u] = seqBase[u] /\ lastOut'[u] = lastOut[u] /\ done'[u] = done[u]
      <3>1. /\ seqBase \in [Users -> Nat] /\ lastOut \in [Users -> Nat \cup {-1}]
            /\ done \in [Users -> SUBSET Rounds]
        BY DEF TypeOK, ConvoType, ProcessType
      <3> QED
        BY <1>2, <3>1 DEF Sends
    <2>8. SenderInv(u, e, g)'
      <3>1. SenderInv(u, e, g)
        BY <2>1 DEF NumberInv
      <3>2. Confirmed(u)' = Confirmed(u)
        BY <1>1 DEF Confirmed
      <3> QED
        BY <1>1, <2>6, <2>7, <3>1, <3>2, SenderKeeps
    <2>9. NumberInv(u, b, e, g)'
      BY <1>1, <2>1, <2>5, <2>6, <2>7, <2>8, KeepNumbers
    <2> QED
      BY <2>9
  <1>3. \A u \in Users : \E b, e, g \in Counts : NumberInv(u, b, e, g)'
    BY <1>2, RestartInvSender
  <1>4. \A u \in Users : Seen(u, inc'[u], Confirmed(u)')
    BY <1>1 DEF RestartInv, Confirmed
  <1>5. ASSUME NEW u \in Users, seqBase[u] > 0 PROVE seqBase'[u] = seqBase[u]
    <2>1. seqBase \in [Users -> Nat]
      BY DEF TypeOK, ConvoType
    <2> QED
      BY <1>5, <2>1 DEF Sends
  <1> QED
    BY <1>1, <1>3, <1>4, <1>5, QuietStep

\* The numbers a process uses are below the rounds announced and those it takes
\* to be in a call again: it uses one for a round it has handled, and there
\* are not more of those.
LEMMA SenderBound ==
  ASSUME TypeOK, LateRedial, MaxRestarts > 0, NEW u \in Users,
         NEW b \in Counts, NEW e \in Counts, NEW g \in Counts,
         BaseInv(u, b, e), SenderInv(u, e, g)
  PROVE  seqBase[u] + e[inc[u]] <= latest + RedialRounds + 1
  <1> DEFINE n == e[inc[u]]
  <1>1. /\ inc[u] \in Nat /\ seqBase[u] \in Nat /\ latest \in Nat /\ RedialRounds \in Nat
        /\ Overtaking \in Nat /\ relativeSeq[u] \in Nat /\ MaxTexts[u] \in Nat
    BY UserTypes
  <1>2. n \in Nat
    BY <1>1, CountNat
  <1>3. n <= relativeSeq[u] /\ relativeSeq[u] <= MaxTexts[u]
    BY DEF SenderInv
  <1>4. CASE seqBase[u] = 0
    <2>1. n = 0
      BY <1>4 DEF SenderInv
    <2> QED
      BY <1>1, <1>4, <2>1
  <1>5. CASE seqBase[u] # 0
    <2>1. n <= Cardinality(Handled(u)) + 1
      BY <1>5 DEF SenderInv
    <2>2. seqBase[u] <= latest + 1
      BY <1>1, <1>5 DEF BaseInv
    <2> DEFINE low == seqBase[u] - (1 + Overtaking)
    <2>3. low \in Int /\ low <= latest
      BY <1>1, <2>2
    <2>4. Handled(u) \in SUBSET (low..latest)
      <3>1. \A r \in done[u] : r \in Nat
        BY BoundsAssumption DEF TypeOK, ProcessType, Rounds
      <3> QED
        BY <1>1, <3>1 DEF Handled
    <2> HIDE DEF low
    <2>5. IsFiniteSet(low..latest) /\ Cardinality(low..latest) = latest - low + 1
      <3>1. latest \in Int /\ ~(low > latest)
        BY <1>1, <2>3
      <3>2. /\ IsFiniteSet(low..latest)
            /\ Cardinality(low..latest) = IF low > latest THEN 0 ELSE latest - low + 1
        BY <2>3, <3>1, FS_Interval
      <3> QED
        BY <3>1, <3>2
    <2>6. Cardinality(Handled(u)) <= latest - low + 1 /\ Cardinality(Handled(u)) \in Nat
      BY <2>4, <2>5, FS_Subset, HandledFinite
    <2>7. Cardinality(Handled(u)) <= latest - seqBase[u] + 2 + Overtaking
      BY <1>1, <2>3, <2>6 DEF low
    <2>8. CASE Overtaking + 1 < RedialRounds
      BY <1>1, <1>2, <2>1, <2>6, <2>7, <2>8
    <2>9. CASE MaxTexts[u] <= RedialRounds
      BY <1>1, <1>2, <1>3, <2>2, <2>9
    <2> QED
      BY <2>8, <2>9 DEF LateRedial
  <1> QED
    BY <1>4, <1>5

\* The restarted process: its base is open, and the numbers of the process
\* before it stay below the rounds it takes part in.
LEMMA RestartInvSelf ==
  ASSUME TypeOK, TypeOK', RestartInv, LateRedial, NEW w \in Users, Restart(w)
  PROVE  \E c, d, h \in Counts : NumberInv(w, c, d, h)'
  <1>1. /\ inc'[w] = inc[w] + 1 /\ seqBase'[w] = 0 /\ relativeSeq'[w] = 0
        /\ floor'[w] = latest + RedialRounds /\ outQueue'[w] = <<>> /\ lastOut'[w] = 0
    BY DEF Restart, TypeOK, ConvoType, ProcessType
  <1>2. UNCHANGED <<drop, latest, shown>>
    BY DEF Restart, serviceVars
  <1>3. PICK b, e, g \in Counts : NumberInv(w, b, e, g)
    BY DEF RestartInv
  <1>4. /\ inc[w] \in Nat /\ floor[w] \in Nat /\ seqBase[w] \in Nat /\ RedialRounds \in Nat
        /\ MaxTexts[w] \in Nat /\ latest \in Nat /\ Peer[w] \in Users /\ inc[Peer[w]] \in Nat
    <2>1. Peer[w] \in Users
      BY UserTypes
    <2> QED
      BY <2>1, UserTypes
  <1>5. seqBase[w] + e[inc[w]] <= latest + RedialRounds + 1
    <2>1. MaxRestarts > 0
      <3>1. inc[w] + inc[Peer[w]] < MaxRestarts
        BY DEF Restart
      <3>2. MaxRestarts \in Nat
        BY BoundsAssumption
      <3> QED
        BY <1>4, <3>1, <3>2
    <2> QED
      BY <1>3, <2>1, SenderBound DEF NumberInv
  <1>6. BaseInv(w, b, e)
    BY <1>3 DEF NumberInv
  <1>7. inc[w] + 1 \in Nat /\ 0 \in Nat
    BY <1>4
  <1>w. ASSUME NEW f \in Counts
        PROVE  \E d \in Counts : d[inc[w] + 1] = 0 /\ \A i \in Nat : i # inc[w] + 1 => d[i] = f[i]
    <2>1. /\ Recount(f, inc[w] + 1, 0) \in Counts /\ Recount(f, inc[w] + 1, 0)[inc[w] + 1] = 0
          /\ \A i \in Nat : i # inc[w] + 1 => Recount(f, inc[w] + 1, 0)[i] = f[i]
      BY <1>7, CountRecount
    <2> QED
      BY <2>1
  <1>c. PICK c \in Counts : c[inc[w] + 1] = 0 /\ \A i \in Nat : i # inc[w] + 1 => c[i] = b[i]
    BY <1>w
  <1>d. PICK d \in Counts : d[inc[w] + 1] = 0 /\ \A i \in Nat : i # inc[w] + 1 => d[i] = e[i]
    BY <1>w
  <1>h. PICK h \in Counts : h[inc[w] + 1] = 0 /\ \A i \in Nat : i # inc[w] + 1 => h[i] = g[i]
    BY <1>w
  <1>8. \A i \in 0..inc[w] :
           /\ i \in Nat /\ c[i] = b[i] /\ c[i] \in Nat
           /\ d[i] = e[i] /\ d[i] \in Nat /\ e[i] <= d[i] /\ h[i] = g[i]
    <2> TAKE i \in 0..inc[w]
    <2>1. i \in Nat /\ i # inc[w] + 1
      BY <1>4
    <2> QED
      BY <2>1, <1>c, <1>d, <1>h, CountNat
  <1>s. SenderInv(w, d, h)'
    <2>1. d[inc'[w]] = 0 /\ h[inc'[w]] = 0
      BY <1>1, <1>d, <1>h
    <2>2. Confirmed(w)' = 0
      <3>1. Len(outQueue'[w]) = 0 /\ relativeSeq'[w] = 0
        BY <1>1
      <3> QED
        BY <3>1 DEF Confirmed
    <2> QED
      BY <1>1, <1>4, <2>1, <2>2 DEF SenderInv
  <1>9. Grows(w, b, e, g, c, d, h)
    <2>1. ASSUME NEW a \in Nat, AckBelow(w, e, a) PROVE AckBelow(w, d, a)'
      <3>1. a <= latest + RedialRounds
        <4>1. CASE seqBase[w] = 0
          BY <1>4, <1>6, <2>1, <4>1 DEF AckBelow, BaseInv
        <4>2. CASE seqBase[w] # 0
          <5>1. a < seqBase[w] + e[inc[w]] /\ e[inc[w]] \in Nat
            BY <1>4, <2>1, <4>2, CountNat DEF AckBelow
          <5> QED
            BY <1>4, <1>5, <5>1
        <4> QED
          BY <4>1, <4>2
      <3> QED
        BY <1>1, <3>1 DEF AckBelow
    <2>2. \A i, k : Displayed(Peer[w], i, k) => Displayed(Peer[w], i, k)'
      BY <1>2, SameShown
    <2>3. \A i \in 0..inc'[w] : c[i] > 0 => i <= inc[w] /\ b[i] > 0
      <3> TAKE i \in 0..inc'[w]
      <3>1. CASE i = inc[w] + 1
        BY <1>c, <3>1
      <3>2. CASE i # inc[w] + 1
        <4>1. i \in 0..inc[w]
          BY <1>1, <1>4, <3>2
        <4> QED
          BY <1>4, <1>8, <4>1
      <3> QED
        BY <3>1, <3>2
    <2>4. inc[w] <= inc'[w] /\ inc'[w] # inc[w] /\ b[inc[w]] = seqBase[w]
      BY <1>1, <1>4, <1>6 DEF BaseInv
    <2> QED
      BY <1>8, <2>1, <2>2, <2>3, <2>4 DEF Grows
  <1>10. BaseInv(w, c, d)'
    <2>1. ASSUME NEW i \in 0..inc[w] PROVE c[i] + d[i] <= latest + RedialRounds + 1
      <3>1. CASE i = inc[w]
        <4>1. c[i] = seqBase[w] /\ d[i] = e[inc[w]]
          BY <1>6, <1>8, <3>1 DEF BaseInv
        <4> QED
          BY <1>5, <4>1
      <3>2. CASE i # inc[w]
        <4>1. /\ i \in 0..(inc[w] - 1) /\ c[i] = b[i] /\ c[i] \in Nat
              /\ d[i] = e[i] /\ d[i] \in Nat
          BY <1>4, <1>8, <3>2
        <4>2. c[i] + d[i] <= floor[w] + 1 /\ floor[w] <= latest + RedialRounds
          BY <1>6, <4>1 DEF BaseInv
        <4> QED
          BY <1>4, <4>1, <4>2
      <3> QED
        BY <3>1, <3>2
    <2>2. ASSUME NEW i \in 0..(inc[w] + 1), NEW j \in 0..(inc[w] + 1), i < j, c[j] > 0
          PROVE  c[i] + d[i] < c[j]
      <3>1. j # inc[w] + 1
        BY <1>c, <2>2
      <3>2. i \in 0..inc[w] /\ j \in 0..inc[w]
        BY <1>4, <2>2, <3>1
      <3>3. c[i] = b[i] /\ c[j] = b[j] /\ d[i] = e[i]
        BY <1>8, <3>2
      <3> QED
        BY <1>6, <2>2, <3>2, <3>3 DEF BaseInv
    <2>3. \A i \in 0..(inc'[w] - 1) : c[i] + d[i] <= floor'[w] + 1
      BY <1>1, <1>4, <2>1
    <2>4. \A i, j \in 0..inc'[w] : i < j /\ c[j] > 0 => c[i] + d[i] < c[j]
      BY <1>1, <2>2
    <2>5. floor'[w] <= latest' + RedialRounds /\ ~(seqBase'[w] > 0)
      BY <1>1, <1>2, <1>4
    <2>6. c[inc'[w]] = seqBase'[w]
      BY <1>1, <1>c
    <2> QED
      BY <2>3, <2>4, <2>5, <2>6 DEF BaseInv
  <1>11. WireInv(w, c, d, h)'
    <2>1. ASSUME NEW q \in Rounds, NEW x \in Users
          PROVE  Message(w, b, e, g, drop'[q][x]) /\ Message(w, b, e, g, mail'[x][q])
      <3>1. /\ Message(w, b, e, g, drop[q][x]) /\ Message(w, b, e, g, mail[x][q])
            /\ Message(w, b, e, g, Nothing(x))
        BY <1>3, NothingSaid DEF NumberInv, WireInv
      <3>2. mail'[x][q] = mail[x][q] \/ mail'[x][q] = Nothing(x)
        <4>1. mail \in [Users -> [Rounds -> Deposit]]
          BY DEF TypeOK, ServiceType
        <4> QED
          BY <4>1 DEF Restart
      <3> QED
        BY <1>2, <3>1, <3>2
    <2> QED
      BY <1>9, <2>1, WireStep
  <1>12. /\ Ack(w, b, e, ack'[Peer[w]])
         /\ \A s \in DOMAIN inQueue'[Peer[w]] : Number(w, b, e, g, s, inQueue'[Peer[w]][s])
         /\ \/ inc'[Peer[w]] = inc[Peer[w]] /\ ack'[Peer[w]] = ack[Peer[w]]
            \/ inc'[Peer[w]] > inc[Peer[w]]
    <2>1. CASE Peer[w] = w
      <3>1. ack'[w] = 0 /\ DOMAIN inQueue'[w] = {} /\ inc'[w] > inc[w]
        <4>1. ack'[w] = 0 /\ inQueue'[w] = NoTexts
          BY DEF Restart, TypeOK, ConvoType
        <4>2. DOMAIN NoTexts = {}
          BY DEF NoTexts
        <4>3. inc'[w] > inc[w]
          BY <1>1, <1>4
        <4> QED
          BY <4>1, <4>2, <4>3
      <3> QED
        BY <2>1, <3>1, NothingSaid
    <2>2. CASE Peer[w] # w
      <3>1. /\ ack'[Peer[w]] = ack[Peer[w]] /\ inQueue'[Peer[w]] = inQueue[Peer[w]]
            /\ inc'[Peer[w]] = inc[Peer[w]]
        BY <1>4, <2>2 DEF Restart, TypeOK, ConvoType, ProcessType
      <3> QED
        BY <1>3, <3>1 DEF NumberInv, QueuedInv
    <2> QED
      BY <2>1, <2>2
  <1>13. QueuedInv(w, c, d, h)'
    BY <1>9, <1>12, QueuedStep
  <1>14. ShownInv(w, c, d, h)'
    BY <1>2, <1>3, <1>9, <1>12, ShownStep DEF NumberInv
  <1> QED
    BY <1>s, <1>10, <1>11, <1>13, <1>14 DEF NumberInv

LEMMA RestartInvRestart ==
  ASSUME TypeOK, TypeOK', DeliveryInv, RestartInv, LateRedial, NEW w \in Users, Restart(w)
  PROVE  RestartInv'
  <1>1. UNCHANGED <<drop, latest, shown>>
    BY DEF Restart, serviceVars
  <1>2. ASSUME NEW u \in Users, u # w
        PROVE  /\ outQueue'[u] = outQueue[u] /\ relativeSeq'[u] = relativeSeq[u]
               /\ seqBase'[u] = seqBase[u] /\ inc'[u] = inc[u] /\ floor'[u] = floor[u]
               /\ ack'[u] = ack[u] /\ inQueue'[u] = inQueue[u]
               /\ lastOut'[u] = lastOut[u] /\ done'[u] = done[u]
    BY <1>2 DEF Restart, TypeOK, ConvoType, ProcessType
  <1>3. /\ outQueue'[w] = <<>> /\ relativeSeq'[w] = 0 /\ ack'[w] = 0
        /\ inQueue'[w] = NoTexts /\ inc'[w] > inc[w]
    BY DEF Restart, TypeOK, ConvoType, ProcessType
  <1>4. ASSUME NEW u \in Users, u # w PROVE \E b, e, g \in Counts : NumberInv(u, b, e, g)'
    <2>1. PICK b, e, g \in Counts : NumberInv(u, b, e, g)
      BY DEF RestartInv
    <2>2. ASSUME NEW q \in Rounds, NEW x \in Users
          PROVE  Message(u, b, e, g, drop'[q][x]) /\ Message(u, b, e, g, mail'[x][q])
      <3>1. /\ Message(u, b, e, g, drop[q][x]) /\ Message(u, b, e, g, mail[x][q])
            /\ Message(u, b, e, g, Nothing(x))
        BY <2>1, NothingSaid DEF NumberInv, WireInv
      <3>2. mail'[x][q] = mail[x][q] \/ mail'[x][q] = Nothing(x)
        <4>1. mail \in [Users -> [Rounds -> Deposit]]
          BY DEF TypeOK, ServiceType
        <4> QED
          BY <4>1 DEF Restart
      <3> QED
        BY <1>1, <3>1, <3>2
    <2>3. latest <= latest' /\ Peer[u] \in Users
      <3>1. latest \in Nat /\ Peer[u] \in Users
        BY UserTypes
      <3> QED
        BY <1>1, <3>1
    <2>4. SenderInv(u, e, g)'
      <3>1. SenderInv(u, e, g)
        BY <2>1 DEF NumberInv
      <3>2. Confirmed(u)' = Confirmed(u)
        BY <1>2, <1>4 DEF Confirmed
      <3> QED
        BY <1>2, <1>4, <2>3, <3>1, <3>2, SenderKeeps
    <2>5. \/ /\ inc'[Peer[u]] = inc[Peer[u]] /\ ack'[Peer[u]] = ack[Peer[u]]
             /\ inQueue'[Peer[u]] = inQueue[Peer[u]]
          \/ /\ inc'[Peer[u]] > inc[Peer[u]] /\ ack'[Peer[u]] = 0
             /\ inQueue'[Peer[u]] = NoTexts
      BY <1>2, <1>3, <2>3
    <2>6. NumberInv(u, b, e, g)'
      BY <1>1, <1>2, <1>4, <2>1, <2>2, <2>3, <2>4, <2>5, KeepNumbers
    <2> QED
      BY <2>6
  <1>5. \A u \in Users : \E b, e, g \in Counts : NumberInv(u, b, e, g)'
    BY <1>4, RestartInvSelf
  <1>6. ASSUME NEW u \in Users PROVE Seen(u, inc'[u], Confirmed(u)')
    <2>1. CASE u = w
      <3>1. Confirmed(u)' = 0
        BY <1>3, <2>1 DEF Confirmed
      <3> QED
        BY <3>1 DEF Seen
    <2>2. CASE u # w
      <3>1. Confirmed(u)' = Confirmed(u) /\ inc'[u] = inc[u]
        BY <1>2, <2>2 DEF Confirmed
      <3> QED
        BY <3>1 DEF RestartInv
    <2> QED
      BY <2>1, <2>2
  <1>7. MaxRestarts # 0
    <2>1. inc[w] \in Nat /\ Peer[w] \in Users
      BY UserTypes
    <2>2. inc[Peer[w]] \in Nat
      BY <2>1, UserTypes
    <2> QED
      BY <2>1, <2>2, BoundsAssumption DEF Restart
  <1> QED
    BY <1>1, <1>5, <1>6, <1>7, QuietStep

-----------------------------------------------------------------------------
(* Reply: texts are displayed, acknowledged and taken off the queue. *)

LEMMA ShownAppend ==
  ASSUME TypeOK, NEW w \in Users, NEW disp \in Seq(Line),
         shown' = [shown EXCEPT ![w] = @ \o disp]
  PROVE  /\ Len(shown[w]) \in Nat /\ Len(disp) \in Nat
         /\ Len(shown'[w]) = Len(shown[w]) + Len(disp)
         /\ DOMAIN shown[w] = 1..Len(shown[w])
         /\ DOMAIN shown'[w] = 1..(Len(shown[w]) + Len(disp))
         /\ \A n \in 1..Len(shown[w]) : shown'[w][n] = shown[w][n]
         /\ \A n \in 1..Len(disp) : shown'[w][Len(shown[w]) + n] = disp[n]
         /\ \A v \in Users \ {w} : shown'[v] = shown[v]
  <1>1. shown \in [Users -> Seq(Line)]
    BY DEF TypeOK, ConvoType
  <1> DEFINE old == shown[w]
             new == old \o disp
  <1>2. /\ new \in Seq(Line)
        /\ Len(new) = Len(old) + Len(disp)
        /\ \A i \in 1..(Len(old) + Len(disp)) :
             new[i] = IF i <= Len(old) THEN old[i] ELSE disp[i - Len(old)]
    BY <1>1, ConcatProperties
  <1>3. /\ Len(old) \in Nat /\ Len(disp) \in Nat
        /\ DOMAIN old = 1..Len(old) /\ DOMAIN new = 1..Len(new)
    BY <1>1, <1>2, LenProperties
  <1>4. shown'[w] = new /\ \A v \in Users \ {w} : shown'[v] = shown[v]
    BY <1>1
  <1> HIDE DEF new
  <1>5. \A n \in 1..Len(old) : shown'[w][n] = shown[w][n]
    BY <1>2, <1>3, <1>4
  <1>6. ASSUME NEW n \in 1..Len(disp) PROVE shown'[w][Len(old) + n] = disp[n]
    <2>1. Len(old) + n \in 1..(Len(old) + Len(disp)) /\ ~(Len(old) + n <= Len(old))
          /\ Len(old) + n - Len(old) = n
      BY <1>3
    <2> HIDE DEF old
    <2>2. new[Len(old) + n] = disp[n]
      BY <1>2, <2>1
    <2> QED
      BY <1>4, <2>2
  <1> QED
    BY <1>2, <1>3, <1>4, <1>5, <1>6

\* Nobody acknowledges more than the number of a text.
LEMMA NumberBelow ==
  ASSUME TypeOK, NEW u \in Users,
         NEW b \in Counts, NEW e \in Counts, NEW g \in Counts, BaseInv(u, b, e),
         NEW s \in Nat, NEW t \in Text, Number(u, b, e, g, s, t), NEW a \in Nat, a <= s
  PROVE  AckBelow(u, e, a)
  <1>1. /\ inc[u] \in Nat /\ seqBase[u] \in Nat /\ floor[u] \in Nat
    BY UserTypes
  <1>2. t.inc \in Nat /\ t.rel \in Nat
    BY DEF Text
  <1>3. /\ t.inc <= inc[u] /\ t.rel < e[t.inc] /\ b[t.inc] > 0 /\ s = b[t.inc] + t.rel
        /\ b[t.inc] \in Nat /\ e[t.inc] \in Nat
    BY <1>2, CountNat DEF Number
  <1>4. CASE t.inc = inc[u]
    <2>1. b[t.inc] = seqBase[u]
      BY <1>4 DEF BaseInv
    <2> QED
      BY <1>1, <1>2, <1>3, <1>4, <2>1 DEF AckBelow
  <1>5. CASE t.inc # inc[u]
    <2>1. t.inc \in 0..(inc[u] - 1)
      BY <1>1, <1>2, <1>3, <1>5
    <2>2. b[t.inc] + e[t.inc] <= floor[u] + 1
      BY <2>1 DEF BaseInv
    <2>3. seqBase[u] > 0 => floor[u] + 1 < seqBase[u]
      BY DEF BaseInv
    <2>4. a <= floor[u]
      BY <1>1, <1>2, <1>3, <2>2
    <2>5. e[inc[u]] \in Nat
      BY <1>1, CountNat
    <2> QED
      BY <1>1, <2>3, <2>4, <2>5 DEF AckBelow
  <1> QED
    BY <1>4, <1>5

\* What Reply takes to be acknowledged before it displays the run that
\* follows, is seen: a Lowest mark only says so of texts that are.
LEMMA FloorAck ==
  ASSUME TypeOK, NEW u \in Users, NEW w \in Users, w = Peer[u],
         NEW b \in Counts, NEW e \in Counts, NEW g \in Counts, NumberInv(u, b, e, g),
         NEW m \in Deposit, m.from = u, Message(u, b, e, g, m), IsNew(w, m)
  PROVE  Ack(u, b, e, AckFloor(w, m))
  <1>1. /\ m.seq \in Nat /\ m.text \in Text /\ ack[w] \in Nat /\ m.seq > ack[w]
        /\ m.text.inc \in Nat /\ m.text.rel \in Nat
    <2>1. m.seq \in Nat /\ m.text \in Text
      BY DEF Deposit
    <2>2. ack[w] \in Nat
      BY UserTypes
    <2>3. m.text.inc \in Nat /\ m.text.rel \in Nat
      BY <2>1 DEF Text
    <2> QED
      BY <2>1, <2>2, <2>3 DEF IsNew
  <1>2. CASE ~m.lowest
    BY <1>2 DEF AckFloor, NumberInv, QueuedInv
  <1>3. CASE m.lowest
    <2> DEFINE i0 == m.text.inc
               k0 == m.text.rel
    <2>1. Number(u, b, e, g, m.seq, m.text) /\ Seen(u, i0, k0)
      BY <1>1, <1>3 DEF Message
    <2>2. AckFloor(w, m) = m.seq - 1
      BY <1>3 DEF AckFloor
    <2>3. BaseInv(u, b, e)
      BY DEF NumberInv
    <2>a. inc[u] \in Nat
      BY UserTypes
    <2>4. inc[u] \in Nat /\ m.seq - 1 \in Nat /\ m.seq - 1 <= m.seq
      BY <1>1, <2>a
    <2>5. AckBelow(u, e, m.seq - 1)
      BY <1>1, <2>1, <2>3, <2>4, NumberBelow
    <2>6. /\ i0 \in 0..inc[u] /\ k0 < e[i0] /\ b[i0] > 0 /\ m.seq = b[i0] + k0
          /\ b[i0] \in Nat /\ k0 \in Nat /\ i0 \in Nat /\ e[i0] \in Nat
      BY <1>1, <2>1, <2>4, CountNat DEF Number
    <2> HIDE DEF i0, k0
    <2>7. ASSUME NEW i \in 0..inc[u], b[i] > 0, b[i] <= m.seq - 1, m.seq - 1 < b[i] + e[i]
          PROVE  Seen(u, i, (m.seq - 1) - b[i] + 1)
      <3>1. i \in Nat /\ b[i] \in Nat /\ e[i] \in Nat
        BY <2>4, CountNat
      <3>2. ~(i < i0)
        <4>1. i < i0 => b[i] + e[i] < b[i0]
          BY <2>3, <2>6 DEF BaseInv
        <4> QED
          BY <2>4, <2>6, <2>7, <3>1, <4>1
      <3>3. ~(i0 < i)
        <4>1. i0 < i => b[i0] + e[i0] < b[i]
          BY <2>3, <2>6, <2>7 DEF BaseInv
        <4> QED
          BY <2>4, <2>6, <2>7, <3>1, <4>1
      <3>4. i = i0
        BY <2>6, <3>1, <3>2, <3>3
      <3>5. (m.seq - 1) - b[i] + 1 = k0
        BY <1>1, <2>6, <3>4
      <3> QED
        BY <2>1, <3>4, <3>5
    <2> QED
      BY <2>2, <2>5, <2>7 DEF Ack
  <1> QED
    BY <1>2, <1>3

\* Those of the queued texts after number a up to number k are texts of u.
RunInv(u, b, e, g, queue, a, k) ==
    \A s \in (a + 1)..k : queue[s] \in Text /\ Number(u, b, e, g, s, queue[s])

\* A text numbered up to the end k of the run that starts after a has been
\* seen, or is in the run.
LEMMA InRun ==
  ASSUME TypeOK, NEW u \in Users,
         NEW b \in Counts, NEW e \in Counts, NEW g \in Counts, BaseInv(u, b, e),
         NEW a \in Nat, NEW k \in Nat, Ack(u, b, e, a),
         NEW queue, RunInv(u, b, e, g, queue, a, k),
         NEW i \in 0..inc[u], b[i] > 0, NEW j \in Nat, j < e[i],
         b[i] + j <= k, a < b[i] + e[i]
  PROVE  \/ Displayed(Peer[u], i, j)
         \/ b[i] + j \in (a + 1)..k /\ queue[b[i] + j].inc = i /\ queue[b[i] + j].rel = j
  <1>1. inc[u] \in Nat /\ i \in Nat /\ b[i] \in Nat
    <2>1. inc[u] \in Nat
      BY UserTypes
    <2> QED
      BY <2>1, CountNat
  <1>2. CASE b[i] + j <= a
    <2>1. Seen(u, i, a - b[i] + 1)
      <3>1. b[i] <= a
        BY <1>1, <1>2
      <3> QED
        BY <3>1 DEF Ack
    <2>2. j \in 0..(a - b[i] + 1 - 1)
      BY <1>1, <1>2
    <2> QED
      BY <1>1, <2>1, <2>2 DEF Seen
  <1>3. CASE b[i] + j > a
    <2>1. b[i] + j \in (a + 1)..k /\ b[i] + j \in Nat
      BY <1>1, <1>3
    <2>2. queue[b[i] + j] \in Text /\ Number(u, b, e, g, b[i] + j, queue[b[i] + j])
      BY <2>1 DEF RunInv
    <2>3. queue[b[i] + j].inc = i /\ queue[b[i] + j].rel = j
      BY <2>1, <2>2, NumberOf
    <2> QED
      BY <2>1, <2>3
  <1> QED
    BY <1>1, <1>2, <1>3

\* Process w shows the queued texts after number a up to number k, below
\* the lines there are.
Displays(w, queue, a, k) ==
    /\ ack[w] <= a /\ a <= k
    /\ ack' = [ack EXCEPT ![w] = k]
    /\ Len(shown[w]) \in Nat /\ DOMAIN shown[w] = 1..Len(shown[w])
    /\ Len(shown'[w]) = Len(shown[w]) + (k - a)
    /\ DOMAIN shown'[w] = 1..(Len(shown[w]) + (k - a))
    /\ \A n \in 1..Len(shown[w]) : shown'[w][n] = shown[w][n]
    /\ \A s \in (a + 1)..k :
         shown'[w][Len(shown[w]) + (s - a)] = [by |-> inc[w], text |-> queue[s]]
    /\ \A v \in Users \ {w} : shown'[v] = shown[v]

LEMMA AcceptDisplays ==
  ASSUME TypeOK, NEW w \in Users, NEW m \in Deposit, IsNew(w, m), Accept(w, m)
  PROVE  \E k \in Nat :
           /\ Displays(w, Queued(w, m), AckFloor(w, m), k)
           /\ \A i \in (AckFloor(w, m) + 1)..k : i \in DOMAIN Queued(w, m)
           /\ inQueue' = [inQueue EXCEPT
                             ![w] = Without(Queued(w, m), (AckFloor(w, m) + 1)..k)]
  <1> DEFINE queue == Queued(w, m)
             a == AckFloor(w, m)
             L == Len(shown[w])
  <1>1. PICK k \in Nat :
          /\ k >= a
          /\ \A i \in (a + 1)..k : i \in DOMAIN queue
          /\ ack'     = [ack EXCEPT ![w] = k]
          /\ inQueue' = [inQueue EXCEPT ![w] = Without(queue, (a + 1)..k)]
          /\ \E disp \in Seq(Line) :
                /\ Len(disp) = k - a
                /\ \A i \in 1..(k - a) : disp[i] = [by |-> inc[w], text |-> queue[a + i]]
                /\ shown' = [shown EXCEPT ![w] = @ \o disp]
    BY AcceptEffect
  <1>2. PICK disp \in Seq(Line) :
                /\ Len(disp) = k - a
                /\ \A i \in 1..(k - a) : disp[i] = [by |-> inc[w], text |-> queue[a + i]]
                /\ shown' = [shown EXCEPT ![w] = @ \o disp]
    BY <1>1
  <1>3. a \in Nat /\ ack[w] <= a
    <2>1. a \in Nat /\ a >= ack[w] /\ ack[w] \in Nat
      BY QueuedTexts, UserTypes
    <2> QED
      BY <2>1
  <1>4. /\ L \in Nat /\ Len(disp) \in Nat
        /\ Len(shown'[w]) = L + Len(disp)
        /\ DOMAIN shown[w] = 1..L
        /\ DOMAIN shown'[w] = 1..(L + Len(disp))
        /\ \A n \in 1..L : shown'[w][n] = shown[w][n]
        /\ \A n \in 1..Len(disp) : shown'[w][L + n] = disp[n]
        /\ \A v \in Users \ {w} : shown'[v] = shown[v]
    BY <1>2, ShownAppend
  <1> HIDE DEF L, a, queue
  <1>5. ASSUME NEW s \in (a + 1)..k
        PROVE  shown'[w][L + (s - a)] = [by |-> inc[w], text |-> queue[s]]
    <2>1. s - a \in 1..(k - a) /\ a + (s - a) = s
      BY <1>3
    <2>2. disp[s - a] = [by |-> inc[w], text |-> queue[s]]
      BY <1>2, <2>1
    <2> QED
      BY <1>2, <1>4, <2>1, <2>2
  <1>6. a <= k
    BY <1>1, <1>3
  <1>7. Displays(w, queue, a, k)
    BY <1>1, <1>2, <1>3, <1>4, <1>5, <1>6 DEF Displays, L
  <1> QED
    BY <1>1, <1>7 DEF queue, a

LEMMA RunLine ==
  ASSUME TypeOK, NEW w \in Users, NEW a \in Nat, NEW k \in Nat, NEW queue,
         Displays(w, queue, a, k)
  PROVE  /\ \A s \in (a + 1)..k : Len(shown[w]) + (s - a) \in DOMAIN shown'[w]
         /\ \A n \in DOMAIN shown'[w] :
              n \in 1..Len(shown[w]) \/ \E s \in (a + 1)..k : n = Len(shown[w]) + (s - a)
  <1> DEFINE L == Len(shown[w])
  <1>1. L \in Nat /\ a <= k /\ DOMAIN shown'[w] = 1..(L + (k - a))
    BY DEF Displays
  <1> HIDE DEF L
  <1>2. ASSUME NEW n \in DOMAIN shown'[w], ~(n \in 1..L)
        PROVE  \E s \in (a + 1)..k : n = L + (s - a)
    <2>1. a + (n - L) \in (a + 1)..k /\ n = L + ((a + (n - L)) - a)
      BY <1>1, <1>2
    <2> QED
      BY <2>1
  <1> QED
    BY <1>1, <1>2 DEF L

LEMMA TextFields ==
  \A t \in Text : t = [inc |-> t.inc, rel |-> t.rel] /\ t.inc \in Nat /\ t.rel \in Nat
  BY DEF Text

LEMMA RunDisplayed ==
  ASSUME TypeOK, NEW w \in Users, NEW a \in Nat, NEW k \in Nat, NEW queue,
         Displays(w, queue, a, k)
  PROVE  /\ \A v \in Users : \A i, j : Displayed(v, i, j) => Displayed(v, i, j)'
         /\ \A s \in (a + 1)..k : \A i, j :
              queue[s] = [inc |-> i, rel |-> j] => Displayed(w, i, j)'
  <1>1. \A v \in Users : \A i, j : Displayed(v, i, j) => Displayed(v, i, j)'
    BY DEF Displays, Displayed
  <1>2. ASSUME NEW s \in (a + 1)..k, NEW i, NEW j, queue[s] = [inc |-> i, rel |-> j]
        PROVE  Displayed(w, i, j)'
    <2>1. /\ Len(shown[w]) + (s - a) \in DOMAIN shown'[w]
          /\ shown'[w][Len(shown[w]) + (s - a)] = [by |-> inc[w], text |-> queue[s]]
      BY RunLine DEF Displays
    <2>2. shown'[w][Len(shown[w]) + (s - a)].text = [inc |-> i, rel |-> j]
      BY <1>2, <2>1
    <2> QED
      BY <2>1, <2>2 DEF Displayed
  <1> QED
    BY <1>1, <1>2

\* After the run is shown its end is what is acknowledged.
LEMMA AcceptAck ==
  ASSUME TypeOK, TypeOK', NEW u \in Users, NEW w \in Users, w = Peer[u],
         NEW b \in Counts, NEW e \in Counts, NEW g \in Counts, BaseInv(u, b, e),
         NEW a \in Nat, NEW k \in Nat, NEW queue,
         Ack(u, b, e, a), RunInv(u, b, e, g, queue, a, k), Displays(w, queue, a, k),
         inc'[u] = inc[u], seqBase'[u] = seqBase[u], floor'[u] = floor[u]
  PROVE  Ack(u, b, e, ack[Peer[u]])'
  <1>1. inc[u] \in Nat
    BY UserTypes
  <1>2. a <= k /\ ack'[w] = k
    <2>1. ack \in [Users -> Nat]
      BY DEF TypeOK, ConvoType
    <2> QED
      BY <2>1 DEF Displays
  <1>3. AckBelow(u, e, k)
    <2>1. CASE k = a
      BY <2>1 DEF Ack
    <2>2. CASE k # a
      <3>1. k \in (a + 1)..k
        BY <1>2, <2>2
      <3>2. queue[k] \in Text /\ Number(u, b, e, g, k, queue[k])
        BY <3>1 DEF RunInv
      <3>3. k <= k
        OBVIOUS
      <3> QED
        BY <3>2, <3>3, NumberBelow
    <2> QED
      BY <2>1, <2>2
  <1>4. AckBelow(u, e, k)'
    BY <1>3 DEF AckBelow
  <1>5. ASSUME NEW i \in 0..inc[u], b[i] > 0, b[i] <= k, k < b[i] + e[i],
               NEW j \in 0..(k - b[i] + 1 - 1)
        PROVE  Displayed(w, i, j)'
    <2>1. i \in Nat /\ b[i] \in Nat /\ e[i] \in Nat
      BY <1>1, CountNat
    <2>2. j \in Nat /\ j < e[i] /\ b[i] + j <= k /\ a < b[i] + e[i]
      BY <1>1, <1>2, <1>5, <2>1
    <2>3. \A s \in (a + 1)..k : queue[s] \in Text /\ Number(u, b, e, g, s, queue[s])
      BY DEF RunInv
    <2>4. CASE Displayed(Peer[u], i, j)
      BY <2>4, RunDisplayed
    <2>5. CASE b[i] + j \in (a + 1)..k /\ queue[b[i] + j].inc = i /\ queue[b[i] + j].rel = j
      <3>1. queue[b[i] + j] = [inc |-> i, rel |-> j]
        BY <2>3, <2>5, TextFields
      <3> QED
        BY <2>5, <3>1, RunDisplayed
    <2>6. \/ Displayed(Peer[u], i, j)
          \/ b[i] + j \in (a + 1)..k /\ queue[b[i] + j].inc = i /\ queue[b[i] + j].rel = j
      BY <1>5, <2>2, InRun
    <2> QED
      BY <2>4, <2>5, <2>6
  <1>6. ASSUME NEW i \in 0..inc[u], b[i] > 0, b[i] <= k, k < b[i] + e[i]
        PROVE  Seen(u, i, k - b[i] + 1)'
    <2>1. i \in Nat /\ b[i] \in Nat
      BY <1>1, CountNat
    <2> QED
      BY <1>5, <1>6, <2>1 DEF Seen
  <1>7. Ack(u, b, e, k)'
    BY <1>4, <1>6 DEF Ack
  <1> QED
    BY <1>2, <1>7 DEF Ack, AckBelow, Seen

LEMMA AcceptShown ==
  ASSUME TypeOK, TypeOK', NEW u \in Users, NEW w \in Users, w = Peer[u],
         NEW b \in Counts, NEW e \in Counts, NEW g \in Counts,
         BaseInv(u, b, e), ShownInv(u, b, e, g),
         NEW a \in Nat, NEW k \in Nat, NEW queue,
         RunInv(u, b, e, g, queue, a, k), Displays(w, queue, a, k),
         inc'[u] = inc[u], relativeSeq'[u] = relativeSeq[u], inc'[w] = inc[w]
  PROVE  ShownInv(u, b, e, g)'
  <1>1. ack[w] \in Nat /\ inc[w] \in Nat
    BY UserTypes
  <1>2. ack[w] <= a /\ a <= k /\ ack'[w] = k
    <2>1. ack \in [Users -> Nat]
      BY DEF TypeOK, ConvoType
    <2> QED
      BY <2>1 DEF Displays
  <1> SUFFICES ASSUME NEW n \in DOMAIN shown'[w]
               PROVE  LET line == shown'[w][n]
                          s    == b[line.text.inc] + line.text.rel
                      IN  /\ line.by <= inc[w]
                          /\ Number(u, b, e, g, s, line.text)
                          /\ line.by = inc[w] => s <= k
    BY <1>2 DEF ShownInv, Number
  <1>3. CASE n \in 1..Len(shown[w])
    <2>1. n \in DOMAIN shown[w] /\ shown'[w][n] = shown[w][n]
      BY <1>3 DEF Displays
    <2> DEFINE line == shown[w][n]
               s    == b[line.text.inc] + line.text.rel
    <2>2. /\ line.by <= inc[w] /\ Number(u, b, e, g, s, line.text)
          /\ line.by = inc[w] => s <= ack[w]
      BY <2>1 DEF ShownInv
    <2>3. s \in Nat
      <3>1. line.text.inc \in Nat /\ line.text.rel \in Nat
        BY <2>1, LineTypes
      <3> QED
        BY <3>1, CountNat
    <2> HIDE DEF s
    <2>4. line.by = inc[w] => s <= k
      BY <1>1, <1>2, <2>2, <2>3
    <2> QED
      BY <2>1, <2>2, <2>4 DEF s
  <1>4. ASSUME NEW x \in (a + 1)..k, n = Len(shown[w]) + (x - a)
        PROVE  LET line == shown'[w][n]
                   s    == b[line.text.inc] + line.text.rel
               IN  /\ line.by <= inc[w]
                   /\ Number(u, b, e, g, s, line.text)
                   /\ line.by = inc[w] => s <= k
    <2>1. shown'[w][n] = [by |-> inc[w], text |-> queue[x]]
      BY <1>4 DEF Displays
    <2>2. shown'[w][n].by = inc[w] /\ shown'[w][n].text = queue[x]
      BY <2>1
    <2>3. Number(u, b, e, g, x, queue[x])
      BY DEF RunInv
    <2>4. x = b[queue[x].inc] + queue[x].rel
      BY <2>3 DEF Number
    <2>5. x <= k /\ inc[w] <= inc[w]
      BY <1>1
    <2> QED
      BY <2>2, <2>3, <2>4, <2>5
  <1> QED
    BY <1>3, <1>4, RunLine

\* A run goes up from what the process has acknowledged.
LEMMA AcceptOrder ==
  ASSUME TypeOK, NEW u \in Users, NEW w \in Users, w = Peer[u],
         NEW b \in Counts, NEW e \in Counts, NEW g \in Counts,
         BaseInv(u, b, e), ShownInv(u, b, e, g), OrderInv(w),
         NEW a \in Nat, NEW k \in Nat, NEW queue,
         RunInv(u, b, e, g, queue, a, k), Displays(w, queue, a, k)
  PROVE  OrderInv(w)'
  <1> DEFINE L == Len(shown[w])
  <1> SUFFICES ASSUME NEW i \in DOMAIN shown'[w], NEW j \in DOMAIN shown'[w], i < j,
                      shown'[w][i].by = shown'[w][j].by
               PROVE  Before(shown'[w][i].text, shown'[w][j].text)
    BY DEF OrderInv, Before
  <1>1. /\ L \in Nat /\ DOMAIN shown[w] = 1..L
        /\ DOMAIN shown'[w] = 1..(L + (k - a))
        /\ \A n \in 1..L : shown'[w][n] = shown[w][n]
    BY DEF Displays
  <1>a. ack[w] <= a /\ a <= k
    BY DEF Displays
  <1>b. \A s \in (a + 1)..k : shown'[w][L + (s - a)] = [by |-> inc[w], text |-> queue[s]]
    BY DEF Displays
  <1>2. ack[w] \in Nat
    BY UserTypes
  <1> HIDE DEF L
  <1>3. CASE i \in 1..L /\ j \in 1..L
    BY <1>1, <1>3 DEF OrderInv
  <1>4. ASSUME NEW y \in (a + 1)..k, j = L + (y - a)
        PROVE  Before(shown'[w][i].text, shown'[w][j].text)
    <2>1. shown'[w][j].by = inc[w] /\ shown'[w][j].text = queue[y]
      <3>1. shown'[w][j] = [by |-> inc[w], text |-> queue[y]]
        BY <1>4, <1>b
      <3> QED
        BY <3>1
    <2>2. queue[y] \in Text /\ Number(u, b, e, g, y, queue[y]) /\ y \in Nat
      BY DEF RunInv
    <2>3. CASE i \in 1..L
      <3> DEFINE t == shown[w][i].text
                 s == b[t.inc] + t.rel
      <3>1. i \in DOMAIN shown[w] /\ shown'[w][i] = shown[w][i]
        BY <1>1, <2>3
      <3>2. shown[w][i].by = inc[w]
        BY <2>1, <3>1
      <3>3. Number(u, b, e, g, s, t) /\ s <= ack[w]
        BY <3>1, <3>2 DEF ShownInv
      <3>4. t \in Text /\ t.inc \in Nat /\ t.rel \in Nat
        BY <3>1, LineTypes
      <3>5. s \in Nat
        BY <3>4, CountNat
      <3> HIDE DEF s, t
      <3>6. s < y
        BY <1>2, <1>a, <2>2, <3>3, <3>5
      <3>7. Before(t, queue[y])
        BY <2>2, <3>3, <3>4, <3>5, <3>6, NumbersOrdered
      <3> QED
        BY <2>1, <3>1, <3>7 DEF t
    <2>4. ASSUME NEW x \in (a + 1)..k, i = L + (x - a)
          PROVE  Before(shown'[w][i].text, shown'[w][j].text)
      <3>1. shown'[w][i].text = queue[x]
        <4>1. shown'[w][i] = [by |-> inc[w], text |-> queue[x]]
          BY <2>4, <1>b
        <4> QED
          BY <4>1
      <3>2. queue[x] \in Text /\ Number(u, b, e, g, x, queue[x]) /\ x \in Nat
        BY DEF RunInv
      <3>3. x < y
        BY <1>1, <1>4, <2>4
      <3> QED
        BY <2>1, <2>2, <3>1, <3>2, <3>3, NumbersOrdered
    <2> QED
      BY <2>3, <2>4, RunLine DEF L
  <1>5. j \in 1..L => i \in 1..L
    BY <1>1
  <1> QED
    BY <1>3, <1>4, <1>5, RunLine DEF L

\* Before a text of the run is shown, all earlier ones of its process are.
LEMMA AcceptGap ==
  ASSUME TypeOK, NEW u \in Users, NEW w \in Users, w = Peer[u],
         NEW b \in Counts, NEW e \in Counts, NEW g \in Counts, BaseInv(u, b, e), GapInv(w),
         NEW a \in Nat, NEW k \in Nat, NEW queue,
         Ack(u, b, e, a), RunInv(u, b, e, g, queue, a, k), Displays(w, queue, a, k)
  PROVE  GapInv(w)'
  <1> DEFINE L == Len(shown[w])
  <1> SUFFICES ASSUME NEW n \in DOMAIN shown'[w], NEW j \in 0..(shown'[w][n].text.rel - 1)
               PROVE  \E p \in 1..(n - 1) :
                        shown'[w][p].text = [inc |-> shown'[w][n].text.inc, rel |-> j]
    BY DEF GapInv
  <1>1. /\ L \in Nat /\ DOMAIN shown[w] = 1..L
        /\ DOMAIN shown'[w] = 1..(L + (k - a))
        /\ \A p \in 1..L : shown'[w][p] = shown[w][p]
    BY DEF Displays
  <1>a. L \in Nat /\ a <= k
    BY DEF Displays
  <1>b. \A s \in (a + 1)..k : shown'[w][L + (s - a)] = [by |-> inc[w], text |-> queue[s]]
    BY DEF Displays
  <1> HIDE DEF L
  <1>2. CASE n \in 1..L
    <2>1. shown'[w][n] = shown[w][n] /\ n \in DOMAIN shown[w]
      BY <1>1, <1>2
    <2>2. PICK p \in 1..(n - 1) : shown[w][p].text = [inc |-> shown[w][n].text.inc, rel |-> j]
      BY <2>1 DEF GapInv
    <2>3. p \in 1..L
      BY <1>1, <1>2
    <2> QED
      BY <1>1, <2>1, <2>2, <2>3
  <1>3. ASSUME NEW y \in (a + 1)..k, n = L + (y - a)
        PROVE  \E p \in 1..(n - 1) :
                  shown'[w][p].text = [inc |-> shown'[w][n].text.inc, rel |-> j]
    <2> DEFINE i == queue[y].inc
    <2>1. shown'[w][n].text = queue[y]
      <3>1. shown'[w][n] = [by |-> inc[w], text |-> queue[y]]
        BY <1>3, <1>b
      <3> QED
        BY <3>1
    <2>2. queue[y] \in Text /\ Number(u, b, e, g, y, queue[y]) /\ y \in Nat
      BY DEF RunInv
    <2>3. i \in Nat /\ queue[y].rel \in Nat /\ inc[u] \in Nat
      BY <2>2, TextFields, UserTypes
    <2>4. /\ i \in 0..inc[u] /\ b[i] > 0 /\ b[i] \in Nat /\ e[i] \in Nat
          /\ queue[y].rel < e[i] /\ y = b[i] + queue[y].rel
      BY <2>2, <2>3, CountNat DEF Number
    <2>5. j \in Nat /\ j < queue[y].rel
      BY <2>1, <2>3
    <2> HIDE DEF i
    <2>6. j < e[i] /\ b[i] + j <= k /\ a < b[i] + e[i] /\ b[i] + j < y
      BY <2>2, <2>3, <2>4, <2>5
    <2>7. CASE Displayed(Peer[u], i, j)
      <3>1. PICK p \in DOMAIN shown[w] : shown[w][p].text = [inc |-> i, rel |-> j]
        BY <2>7 DEF Displayed
      <3>2. p \in 1..L /\ shown'[w][p] = shown[w][p]
        BY <1>1, <3>1
      <3>3. p \in 1..(n - 1)
        BY <1>3, <1>a, <3>2
      <3> QED
        BY <2>1, <3>1, <3>2, <3>3 DEF i
    <2>8. CASE b[i] + j \in (a + 1)..k /\ queue[b[i] + j].inc = i /\ queue[b[i] + j].rel = j
      <3> DEFINE x == b[i] + j
                 p == L + (x - a)
      <3>1. queue[x] = [inc |-> i, rel |-> j]
        BY <2>8, TextFields DEF RunInv
      <3>2. x \in (a + 1)..k /\ x < y
        BY <2>6, <2>8
      <3> HIDE DEF x
      <3>3. shown'[w][p].text = [inc |-> i, rel |-> j]
        <4>1. shown'[w][p] = [by |-> inc[w], text |-> queue[x]]
          BY <1>b, <3>2
        <4> QED
          BY <3>1, <4>1
      <3>4. p \in 1..(n - 1)
        BY <1>3, <1>a, <3>2
      <3> HIDE DEF p
      <3> QED
        BY <2>1, <3>3, <3>4 DEF i
    <2>9. \/ Displayed(Peer[u], i, j)
          \/ b[i] + j \in (a + 1)..k /\ queue[b[i] + j].inc = i /\ queue[b[i] + j].rel = j
      BY <2>4, <2>5, <2>6, InRun
    <2> QED
      BY <2>7, <2>8, <2>9
  <1> QED
    BY <1>2, <1>3, RunLine DEF L

\* A run ends where there is no text to follow.
LEMMA RunEnds ==
  ASSUME TypeOK, NEW w \in Users, NEW m \in Deposit, Accept(w, m)
  PROVE  ack'[w] + 1 \notin DOMAIN Queued(w, m)
  <1>1. PICK k : ack' = [ack EXCEPT ![w] = k] /\ k + 1 \notin DOMAIN Queued(w, m)
    BY DEF Accept, EndsChain
  <1>2. ack'[w] = k
    BY <1>1 DEF TypeOK, ConvoType
  <1> QED
    BY <1>1, <1>2

LEMMA EmptyShown ==
  ASSUME NEW q \in Seq(Line)
  PROVE  q = <<>> <=> Len(q) = 0
  <1>1. Len(<<>>) = 0 /\ (q # <<>> => Len(q) \in Nat \ {0})
    BY EmptySeq
  <1> QED
    BY <1>1

\* The number of the first text of a run, from what is acknowledged (or
\* that all before it is seen) and the number of lines there are.
LEMMA AfterLast ==
  ASSUME NEW base \in Nat, NEW L \in Nat, NEW a \in Nat, NEW first \in Nat, NEW rel \in Nat,
         base > 1, IF L = 0 THEN a = 0 ELSE a + 1 = base + L,
         first = base + rel,
         \/ first = a + 1
         \/ first > a /\ rel <= L
  PROVE  first = base + L
  OBVIOUS

\* With no restarts a run starts with the text after the last one displayed.
LEMMA SeenCount ==
  ASSUME TypeOK, NEW u \in Users, ExactInv(u), NEW rel \in Nat, Seen(u, 0, rel)
  PROVE  rel <= Len(shown[Peer[u]])
  <1> DEFINE w == Peer[u]
             L == Len(shown[w])
  <1>1. L \in Nat /\ DOMAIN shown[w] = 1..L
    BY UserTypes, LineTypes
  <1>2. CASE rel = 0
    BY <1>1, <1>2
  <1>3. CASE rel # 0
    <2>1. rel - 1 \in 0..(rel - 1)
      BY <1>3
    <2>2. Displayed(w, 0, rel - 1)
      BY <2>1 DEF Seen
    <2>3. PICK n \in DOMAIN shown[w] : shown[w][n].text = [inc |-> 0, rel |-> rel - 1]
      BY <2>2 DEF Displayed
    <2>4. shown[w][n].text = [inc |-> 0, rel |-> n - 1]
      BY DEF ExactInv
    <2>5. shown[w][n].text.rel = rel - 1
      BY <2>3
    <2>6. shown[w][n].text.rel = n - 1
      BY <2>4
    <2>7. n \in 1..L /\ L \in Nat
      BY <1>1
    <2>8. n - 1 = rel - 1
      BY <2>5, <2>6
    <2> HIDE DEF L, w
    <2> QED
      BY <2>7, <2>8 DEF L, w
  <1> QED
    BY <1>2, <1>3

LEMMA FloorExact ==
  ASSUME TypeOK, NEW u \in Users, NEW w \in Users, w = Peer[u],
         NEW b \in Counts, NEW e \in Counts, NEW g \in Counts, NumberInv(u, b, e, g), ExactInv(u),
         NEW m \in Deposit, m.from = u, Message(u, b, e, g, m), IsNew(w, m),
         NEW t \in Text, Number(u, b, e, g, AckFloor(w, m) + 1, t),
         m.lowest => t = m.text
  PROVE  seqBase[u] > 0 /\ AckFloor(w, m) + 1 = seqBase[u] + Len(shown[w])
  <1> DEFINE L == Len(shown[w])
             first == AckFloor(w, m) + 1
  <1>1. seqBase[u] \in Nat /\ floor[u] \in Nat /\ ack[w] \in Nat /\ L \in Nat
    BY UserTypes, LineTypes
  <1>2. t.inc \in Nat /\ t.rel \in Nat
    BY DEF Text
  <1>3. t.inc = 0 /\ seqBase[u] > 0 /\ first = seqBase[u] + t.rel
    <2>1. inc[u] = 0
      BY DEF ExactInv
    <2>2. b[inc[u]] = seqBase[u]
      BY DEF NumberInv, BaseInv
    <2>3. t.inc <= inc[u] /\ b[t.inc] > 0 /\ first = b[t.inc] + t.rel
      BY DEF Number
    <2>4. t.inc = 0
      BY <1>2, <2>1, <2>3
    <2> QED
      BY <2>1, <2>2, <2>3, <2>4
  <1>4. IF L = 0 THEN ack[w] = 0 ELSE ack[w] + 1 = seqBase[u] + L
    BY UserTypes, EmptyShown DEF ExactInv
  <1>5. seqBase[u] > 1
    <2>1. floor[u] + 1 < seqBase[u]
      BY <1>3 DEF NumberInv, BaseInv
    <2> QED
      BY <1>1, <2>1
  <1>6. first \in Nat
    <2>1. AckFloor(w, m) \in Nat
      BY QueuedTexts
    <2> QED
      BY <2>1
  <1>7. first = ack[w] + 1 \/ (first > ack[w] /\ t.rel <= L)
    <2>1. m.seq \in Nat /\ m.seq > ack[w]
      BY DEF Deposit, IsNew
    <2>2. CASE ~m.lowest
      BY <2>2 DEF AckFloor
    <2>3. CASE m.lowest
      <3>1. AckFloor(w, m) = m.seq - 1
        BY <2>3 DEF AckFloor
      <3>2. first = m.seq
        BY <2>1, <3>1
      <3>3. m.seq # 0
        BY <1>1, <2>1
      <3>4. Seen(u, 0, t.rel)
        BY <1>3, <2>3, <3>3 DEF Message
      <3> QED
        BY <1>2, <2>1, <3>2, <3>4, SeenCount
    <2> QED
      BY <2>2, <2>3
  <1> HIDE DEF L, first
  <1>8. first = seqBase[u] + L
    BY <1>1, <1>2, <1>3, <1>4, <1>5, <1>6, <1>7, AfterLast
  <1> QED
    BY <1>3, <1>8 DEF L, first

FirstNext(u, w, a, k) ==
    IF k > a THEN seqBase[u] > 0 /\ a + 1 = seqBase[u] + Len(shown[w]) ELSE a = ack[w]

LEMMA AcceptExact ==
  ASSUME TypeOK, TypeOK', NEW u \in Users, NEW w \in Users, w = Peer[u],
         NEW b \in Counts, NEW e \in Counts, NEW g \in Counts, BaseInv(u, b, e), ExactInv(u),
         NEW a \in Nat, NEW k \in Nat, NEW queue,
         RunInv(u, b, e, g, queue, a, k), Displays(w, queue, a, k),
         FirstNext(u, w, a, k), inc'[u] = inc[u], seqBase'[u] = seqBase[u]
  PROVE  ExactInv(u)'
  <1> DEFINE L == Len(shown[w])
  <1>1. /\ seqBase[u] \in Nat /\ ack[w] \in Nat /\ inc[u] = 0
    BY UserTypes DEF ExactInv
  <1>2. /\ L \in Nat /\ DOMAIN shown[w] = 1..L /\ a <= k
        /\ Len(shown'[w]) = L + (k - a) /\ DOMAIN shown'[w] = 1..(L + (k - a))
        /\ \A n \in 1..L : shown'[w][n] = shown[w][n]
    BY DEF Displays
  <1>3. ack'[w] = k
    <2>1. ack \in [Users -> Nat]
      BY DEF TypeOK, ConvoType
    <2> QED
      BY <2>1 DEF Displays
  <1>4. /\ shown[w] = <<>> <=> L = 0
        /\ shown'[w] = <<>> <=> Len(shown'[w]) = 0
    BY UserTypes, NextTypes, EmptyShown
  <1>5. ASSUME NEW n \in DOMAIN shown'[w] PROVE shown'[w][n].text = [inc |-> 0, rel |-> n - 1]
    <2>1. CASE n \in 1..L
      BY <1>2, <2>1 DEF ExactInv
    <2>2. ASSUME NEW y \in (a + 1)..k, n = L + (y - a)
          PROVE  shown'[w][n].text = [inc |-> 0, rel |-> n - 1]
      <3>1. shown'[w][n] = [by |-> inc[w], text |-> queue[y]]
        BY <2>2 DEF Displays
      <3>2. shown'[w][n].text = queue[y]
        BY <3>1
      <3>3. queue[y] \in Text /\ Number(u, b, e, g, y, queue[y])
        BY DEF RunInv
      <3>4. queue[y] = [inc |-> queue[y].inc, rel |-> queue[y].rel]
        BY <3>3, TextFields
      <3>a. queue[y].inc \in Nat /\ queue[y].rel \in Nat
        BY <3>3, TextFields
      <3>5. queue[y].inc <= inc[u] /\ y = b[queue[y].inc] + queue[y].rel
        BY <3>3 DEF Number
      <3>6. queue[y].inc = 0
        BY <1>1, <3>a, <3>5
      <3>7. b[0] = seqBase[u]
        BY <1>1 DEF BaseInv
      <3>8. k > a
        BY <1>2
      <3>9. a + 1 = seqBase[u] + L
        BY <3>8 DEF FirstNext
      <3>10. y = seqBase[u] + queue[y].rel
        BY <3>5, <3>6, <3>7
      <3>11. queue[y].rel = n - 1
        <4>1. L \in Nat /\ y \in Nat
          BY <1>2
        <4> HIDE DEF L
        <4> QED
          BY <1>1, <2>2, <3>a, <3>9, <3>10, <4>1
      <3> QED
        BY <3>2, <3>4, <3>6, <3>11
    <2> QED
      BY <2>1, <2>2, RunLine
  <1>6. IF shown'[w] = <<>> THEN ack'[w] = 0
        ELSE seqBase[u] > 0 /\ ack'[w] + 1 = seqBase[u] + Len(shown'[w])
    <2>1. CASE k = a
      <3>1. IF shown[w] = <<>> THEN ack[w] = 0
            ELSE seqBase[u] > 0 /\ ack[w] + 1 = seqBase[u] + L
        BY DEF ExactInv
      <3>2. Len(shown'[w]) = L
        BY <1>2, <2>1
      <3>3. a = ack[w]
        BY <2>1 DEF FirstNext
      <3> HIDE DEF L
      <3> QED
        BY <1>3, <1>4, <2>1, <3>1, <3>2, <3>3
    <2>2. CASE k > a
      <3>1. seqBase[u] > 0 /\ a + 1 = seqBase[u] + L
        BY <2>2 DEF FirstNext
      <3>2. Len(shown'[w]) # 0 /\ k + 1 = seqBase[u] + Len(shown'[w])
        <4>1. L \in Nat
          BY <1>2
        <4>2. Len(shown'[w]) = L + (k - a)
          BY <1>2
        <4> HIDE DEF L
        <4>3. L + (k - a) # 0 /\ k + 1 = seqBase[u] + (L + (k - a))
          BY <1>1, <2>2, <3>1, <4>1
        <4> QED
          BY <4>2, <4>3
      <3>3. shown'[w] # <<>>
        BY <1>4, <3>2
      <3> QED
        BY <1>3, <3>1, <3>2, <3>3
    <2> QED
      BY <1>2, <2>1, <2>2
  <1> QED
    BY <1>1, <1>5, <1>6 DEF ExactInv

\* What acknowledgement a says of the texts of u's own process.
OwnAck(u, a) == seqBase[u] > 0 /\ seqBase[u] <= a => Seen(u, inc[u], a - seqBase[u] + 1)

LEMMA AckOwn ==
  ASSUME TypeOK, NEW u \in Users,
         NEW b \in Counts, NEW e \in Counts, NEW g \in Counts, BaseInv(u, b, e),
         NEW a \in Nat, Ack(u, b, e, a)
  PROVE  OwnAck(u, a)
  <1> SUFFICES ASSUME seqBase[u] > 0, seqBase[u] <= a
               PROVE  Seen(u, inc[u], a - seqBase[u] + 1)
    BY DEF OwnAck
  <1>1. seqBase[u] \in Nat /\ inc[u] \in Nat
    BY UserTypes
  <1>2. b[inc[u]] = seqBase[u]
    BY DEF BaseInv
  <1>3. inc[u] \in 0..inc[u]
    BY <1>1
  <1>4. a < seqBase[u] + e[inc[u]]
    BY <1>1 DEF Ack, AckBelow
  <1> QED
    BY <1>2, <1>3, <1>4 DEF Ack

\* The texts an acknowledgement removes have been seen.
LEMMA RemovedSeen ==
  ASSUME TypeOK, DeliveryInv, NEW u \in Users,
         Seen(u, inc[u], Confirmed(u)), NEW a, OwnAck(u, a),
         NEW n \in 0..Len(outQueue[u]), AckedPrefix(u, a, n), a \in Nat
  PROVE  Seen(u, inc[u], Confirmed(u) + n)
  <1>1. /\ QueueInv(u) /\ outQueue[u] \in Seq(Nat) /\ relativeSeq[u] \in Nat
        /\ n \in Nat /\ n <= Len(outQueue[u]) /\ Len(outQueue[u]) \in Nat /\ seqBase[u] \in Nat
    BY DEF DeliveryInv, TypeOK, ConvoType
  <1>2. Confirmed(u) \in Nat
    BY <1>1 DEF QueueInv, Confirmed
  <1> SUFFICES ASSUME NEW j \in 0..((Confirmed(u) + n) - 1) PROVE Displayed(Peer[u], inc[u], j)
    BY Zenon DEF Seen
  <1>3. CASE j < Confirmed(u)
    <2>1. j \in 0..(Confirmed(u) - 1)
      BY <1>2, <1>3
    <2> QED
      BY <2>1 DEF Seen
  <1>4. CASE j >= Confirmed(u)
    <2> DEFINE i == j - Confirmed(u) + 1
    <2>1. i \in 1..n /\ i \in 1..Len(outQueue[u]) /\ Confirmed(u) + i - 1 = j /\ j \in Nat
      BY <1>1, <1>2, <1>4
    <2> HIDE DEF i
    <2>2. outQueue[u][i] = j
      BY <1>1, <2>1 DEF QueueInv
    <2>3. seqBase[u] > 0 /\ j + seqBase[u] <= a
      BY <2>1, <2>2 DEF AckedPrefix
    <2>4. seqBase[u] <= a
      BY <1>1, <2>1, <2>3
    <2>5. Seen(u, inc[u], a - seqBase[u] + 1)
      BY <2>3, <2>4 DEF OwnAck
    <2>6. \A x \in 0..((a - seqBase[u] + 1) - 1) : Displayed(Peer[u], inc[u], x)
      BY <2>5, Zenon DEF Seen
    <2>7. j \in 0..((a - seqBase[u] + 1) - 1)
      BY <1>1, <2>1, <2>3
    <2> QED
      BY <2>6, <2>7, Zenon
  <1> QED
    BY <1>2, <1>3, <1>4

\* What stays in place of u when its peer displays texts.
LEMMA AcceptGrows ==
  ASSUME TypeOK, NEW u \in Users, NEW w \in Users, w = Peer[u],
         NEW b \in Counts, NEW e \in Counts, NEW g \in Counts, BaseInv(u, b, e),
         NEW a \in Nat, NEW k \in Nat, NEW queue, Displays(w, queue, a, k),
         UNCHANGED <<seqBase, inc, floor>>
  PROVE  Grows(u, b, e, g, b, e, g)
  <1>1. \A x \in Nat : AckBelow(u, e, x) => AckBelow(u, e, x)'
    BY DEF AckBelow
  <1>2. \A i, j : Displayed(Peer[u], i, j) => Displayed(Peer[u], i, j)'
    BY RunDisplayed
  <1>3. inc[u] \in Nat
    BY UserTypes
  <1>4. /\ inc[u] <= inc'[u] /\ \A i \in 0..inc'[u] : i <= inc[u]
        /\ \A i \in 0..inc[u] : e[i] <= e[i]
    BY <1>3, CountNat
  <1>5. b[inc[u]] = seqBase[u]
    BY DEF BaseInv
  <1> QED
    BY <1>1, <1>2, <1>4, <1>5 DEF Grows

LEMMA AcceptStep ==
  ASSUME TypeOK, TypeOK', NEW u \in Users, NEW w \in Users, w = Peer[u],
         NEW b \in Counts, NEW e \in Counts, NEW g \in Counts,
         NumberInv(u, b, e, g), OrderInv(w), GapInv(w),
         NEW m \in Deposit, m.from = u, Message(u, b, e, g, m), IsNew(w, m), Accept(w, m),
         UNCHANGED <<relativeSeq, seqBase, inc, floor, latest>>, SenderInv(u, e, g)',
         \A q \in Rounds, x \in Users :
            Message(u, b, e, g, drop'[q][x]) /\ Message(u, b, e, g, mail'[x][q])
  PROVE  /\ NumberInv(u, b, e, g)' /\ OrderInv(w)' /\ GapInv(w)'
         /\ ExactInv(u) => ExactInv(u)'
         /\ \A v \in Users : \A i, j : Displayed(v, i, j) => Displayed(v, i, j)'
         /\ \A v \in Users \ {w} :
              shown'[v] = shown[v] /\ ack'[v] = ack[v] /\ inQueue'[v] = inQueue[v]
  <1> DEFINE queue == Queued(w, m)
             a == AckFloor(w, m)
  <1>1. PICK k \in Nat :
           /\ Displays(w, queue, a, k)
           /\ \A i \in (a + 1)..k : i \in DOMAIN queue
           /\ inQueue' = [inQueue EXCEPT ![w] = Without(queue, (a + 1)..k)]
    BY AcceptDisplays
  <1>2. /\ a \in Nat /\ DOMAIN queue = DOMAIN inQueue[w] \cup {m.seq}
        /\ DOMAIN queue \subseteq Nat
        /\ \A s \in DOMAIN queue :
             queue[s] \in Text /\ queue[s] = IF s = m.seq THEN m.text ELSE inQueue[w][s]
    BY QueuedTexts
  <1>3. m.seq # 0 /\ m.seq > ack[w] /\ m.seq \in Nat /\ ack[w] \in Nat
    <2>1. ack[w] \in Nat /\ m.seq \in Nat
      BY UserTypes DEF Deposit
    <2> QED
      BY <2>1 DEF IsNew
  <1>4. BaseInv(u, b, e) /\ QueuedInv(u, b, e, g) /\ ShownInv(u, b, e, g)
    BY DEF NumberInv
  <1>5. \A s \in DOMAIN queue : Number(u, b, e, g, s, queue[s])
    <2>1. Number(u, b, e, g, m.seq, m.text)
      BY <1>3 DEF Message
    <2>2. \A s \in DOMAIN inQueue[w] : Number(u, b, e, g, s, inQueue[w][s])
      BY <1>4 DEF QueuedInv
    <2> QED
      BY <1>2, <2>1, <2>2
  <1>6. Ack(u, b, e, a)
    BY FloorAck
  <1>7. RunInv(u, b, e, g, queue, a, k)
    BY <1>1, <1>2, <1>5 DEF RunInv
  <1>8. ack'[w] = k /\ a <= k /\ \A v \in Users \ {w} : ack'[v] = ack[v]
    <2>1. ack \in [Users -> Nat]
      BY DEF TypeOK, ConvoType
    <2> QED
      BY <1>1, <2>1 DEF Displays
  <1>9. m.lowest => k # a
    <2> SUFFICES ASSUME m.lowest, k = a PROVE FALSE
      OBVIOUS
    <2>1. a = m.seq - 1
      BY DEF AckFloor
    <2>2. k + 1 = m.seq
      BY <1>3, <2>1
    <2>3. k + 1 \notin DOMAIN queue
      BY <1>8, RunEnds
    <2> QED
      BY <1>2, <2>2, <2>3
  <1>10. ~m.lowest => a = ack[w]
    BY DEF AckFloor
  <1>11. ASSUME ExactInv(u) PROVE FirstNext(u, w, a, k)
    <2>1. CASE k = a
      BY <1>2, <1>9, <1>10, <2>1 DEF FirstNext
    <2>2. CASE k # a
      <3>a. a \in Nat /\ a <= k
        BY <1>2, <1>8
      <3>b. a + 1 \in (a + 1)..k
        <4> HIDE DEF a
        <4> QED
          BY <2>2, <3>a
      <3>1. a + 1 \in DOMAIN queue
        BY <1>1, <3>b
      <3>2. queue[a + 1] \in Text /\ Number(u, b, e, g, a + 1, queue[a + 1])
        BY <1>2, <1>5, <3>1
      <3>3. m.lowest => queue[a + 1] = m.text
        <4>1. m.lowest => a + 1 = m.seq
          BY <1>3 DEF AckFloor
        <4> QED
          BY <1>2, <3>1, <4>1
      <3>4. seqBase[u] > 0 /\ a + 1 = seqBase[u] + Len(shown[w])
        BY <1>11, <3>2, <3>3, FloorExact
      <3>5. k > a
        BY <1>2, <1>8, <2>2
      <3> QED
        BY <3>4, <3>5 DEF FirstNext
    <2> QED
      BY <2>1, <2>2
  <1> HIDE DEF queue, a
  <1>12. Grows(u, b, e, g, b, e, g)
    BY <1>1, <1>2, <1>4, AcceptGrows
  <1>13. OrderInv(w)' /\ GapInv(w)'
    BY <1>1, <1>2, <1>4, <1>6, <1>7, AcceptOrder, AcceptGap
  <1>14. ShownInv(u, b, e, g)'
    BY <1>1, <1>2, <1>4, <1>7, AcceptShown
  <1>15. ExactInv(u) => ExactInv(u)'
    BY <1>1, <1>2, <1>4, <1>7, <1>11, AcceptExact
  <1>16. QueuedInv(u, b, e, g)'
    <2>1. Ack(u, b, e, ack[Peer[u]])'
      BY <1>1, <1>2, <1>4, <1>6, <1>7, AcceptAck
    <2>2. inQueue'[w] = Without(queue, (a + 1)..k)
      BY <1>1 DEF TypeOK, ConvoType
    <2>3. \A s \in DOMAIN inQueue'[w] : Number(u, b, e, g, s, inQueue'[w][s])
      BY <1>5, <2>2 DEF Without
    <2>4. (\A s \in DOMAIN inQueue[w] : Number(u, b, e, g, s, inQueue[w][s]))'
      BY <2>3 DEF Number
    <2> QED
      BY <2>1, <2>4 DEF QueuedInv
  <1>17. WireInv(u, b, e, g)'
    BY <1>12, WireStep
  <1>18. BaseInv(u, b, e)'
    BY <1>4 DEF BaseInv
  <1>19. \A v \in Users : \A i, j : Displayed(v, i, j) => Displayed(v, i, j)'
    BY <1>1, <1>2, RunDisplayed
  <1>20. \A v \in Users \ {w} : shown'[v] = shown[v] /\ inQueue'[v] = inQueue[v]
    BY <1>1 DEF Displays, TypeOK, ConvoType
  <1> QED
    BY <1>8, <1>13, <1>14, <1>15, <1>16, <1>17, <1>18, <1>19, <1>20 DEF NumberInv

\* What Reply makes of an acknowledgement.
LEMMA ReplyConfirms ==
  ASSUME TypeOK, DeliveryInv, RestartInv, NEW w \in Users, NEW r \in Rounds, Reply(w, r)
  PROVE  /\ \A u \in Users : Seen(u, inc[u], Confirmed(u)')
         /\ \A u \in Users \ {w} : Confirmed(u)' = Confirmed(u)
         /\ \E n \in Nat : Confirmed(w)' = Confirmed(w) + n
  <1>1. UNCHANGED relativeSeq
    BY DEF Reply
  <1>2. \A u \in Users : Seen(u, inc[u], Confirmed(u))
    BY DEF RestartInv
  <1>3. PICK m \in Deposit : m = mail[w][r]
    BY UserTypes
  <1>4. CASE r \notin rounds[w] \/ OwnMessage(w, m)
    <2>1. UNCHANGED outQueue
      BY <1>3, <1>4 DEF Reply
    <2>2. \A u \in Users : Confirmed(u)' = Confirmed(u)
      BY <1>1, <2>1 DEF Confirmed
    <2>3. Confirmed(w) = Confirmed(w) + 0
      <3>1. relativeSeq[w] \in Nat /\ Len(outQueue[w]) \in Nat
        BY UserTypes
      <3> QED
        BY <3>1 DEF Confirmed
    <2> QED
      BY <1>2, <2>2, <2>3
  <1>5. CASE ~(r \notin rounds[w] \/ OwnMessage(w, m))
    <2>1. Receive(w, m)
      BY <1>3, <1>5 DEF Reply
    <2>2. m.from = Peer[w] /\ m.ack \in Nat
      <3>1. m.from = Peer[w]
        BY <1>3, <1>5 DEF DeliveryInv, OriginInv, OwnMessage, Solo
      <3> QED
        BY <3>1 DEF Deposit
    <2>3. PICK n \in 0..Len(outQueue[w]) : AckedPrefix(w, m.ack, n) /\ RemoveAcked(w, n)
      BY <2>1 DEF Receive
    <2>4. /\ \A u \in Users \ {w} : Confirmed(u)' = Confirmed(u)
          /\ Confirmed(w)' = Confirmed(w) + n
      BY <1>1, <2>3, RemoveAckedInv
    <2>5. Seen(w, inc[w], Confirmed(w) + n)
      <3>1. PICK b, e, g \in Counts : NumberInv(w, b, e, g)
        BY DEF RestartInv
      <3>2. Message(w, b, e, g, m) /\ BaseInv(w, b, e)
        BY <1>3, <3>1 DEF NumberInv, WireInv
      <3>3. Ack(w, b, e, m.ack)
        BY <2>2, <3>2 DEF Message
      <3>4. OwnAck(w, m.ack)
        BY <2>2, <3>2, <3>3, AckOwn
      <3> QED
        BY <1>2, <2>2, <2>3, <3>4, RemovedSeen
    <2>6. n \in Nat
      OBVIOUS
    <2> QED
      BY <1>2, <2>4, <2>5, <2>6
  <1> QED
    BY <1>4, <1>5

\* An acknowledgement removes texts that have a number, and not the one left
\* out, which has not been seen.
LEMMA RemovedNumbered ==
  ASSUME TypeOK, DeliveryInv, NEW u \in Users,
         NEW b \in Counts, NEW e \in Counts, NEW g \in Counts, NumberInv(u, b, e, g),
         NEW a \in Nat, Ack(u, b, e, a),
         NEW n \in Nat, n <= Len(outQueue[u]), AckedPrefix(u, a, n)
  PROVE  /\ Confirmed(u) + n <= e[inc[u]]
         /\ g[inc[u]] < e[inc[u]] => n = 0
  <1> DEFINE c == Confirmed(u)
             x == e[inc[u]]
             y == g[inc[u]]
  <1>1. /\ inc[u] \in Nat /\ seqBase[u] \in Nat /\ relativeSeq[u] \in Nat
        /\ Len(outQueue[u]) \in Nat
    BY UserTypes
  <1>2. x \in Nat /\ y \in Nat
    BY <1>1, CountNat
  <1>3. QueueInv(u)
    BY DEF DeliveryInv
  <1>4. c \in Nat
    BY <1>1, <1>3 DEF QueueInv, Confirmed
  <1>5. SenderInv(u, e, g) /\ BaseInv(u, b, e) /\ ShownInv(u, b, e, g)
    BY DEF NumberInv
  <1>6. c <= x /\ (y = x \/ (y = c /\ y < x))
    BY <1>5 DEF SenderInv
  <1>7. CASE n = 0
    <2> HIDE DEF c, x, y
    <2>1. c + n <= x
      BY <1>2, <1>4, <1>6, <1>7
    <2> QED
      BY <1>7, <2>1 DEF c, x, y
  <1>8. CASE n > 0
    <2>1. n \in 1..n /\ n \in 1..Len(outQueue[u])
      BY <1>1, <1>8
    <2>2. outQueue[u][n] = c + n - 1
      BY <1>3, <2>1 DEF QueueInv
    <2>3. seqBase[u] > 0 /\ outQueue[u][n] + seqBase[u] <= a
      BY <2>1 DEF AckedPrefix
    <2>4. a < seqBase[u] + x
      BY <1>1, <2>3 DEF Ack, AckBelow
    <2>5. c + n <= x
      <3> HIDE DEF c, x, y
      <3> QED
        BY <1>1, <1>2, <1>4, <2>2, <2>3, <2>4
    <2>6. ASSUME y < x PROVE FALSE
      <3>1. y = c
        <4> HIDE DEF c, x, y
        <4> QED
          BY <1>2, <1>6, <2>6
      <3>2. seqBase[u] <= a /\ c \in 0..((a - seqBase[u] + 1) - 1)
        <4> HIDE DEF c
        <4> QED
          BY <1>1, <1>4, <1>8, <2>2, <2>3
      <3>3. Seen(u, inc[u], a - seqBase[u] + 1)
        BY <1>5, <2>3, <3>2, AckOwn DEF OwnAck
      <3>4. Displayed(Peer[u], inc[u], c)
        BY <3>2, <3>3, Zenon DEF Seen
      <3> HIDE DEF c
      <3>5. PICK k \in DOMAIN shown[Peer[u]] :
              shown[Peer[u]][k].text = [inc |-> inc[u], rel |-> c]
        BY <3>4 DEF Displayed
      <3>6. PICK s : Number(u, b, e, g, s, shown[Peer[u]][k].text)
        BY <1>5, <3>5 DEF ShownInv
      <3>7. shown[Peer[u]][k].text.inc = inc[u] /\ shown[Peer[u]][k].text.rel = c
        BY <3>5
      <3> QED
        BY <3>1, <3>6, <3>7 DEF Number
    <2> QED
      BY <2>5, <2>6
  <1> QED
    BY <1>7, <1>8

\* Reply keeps the process's progress: lastOut moves along with the queue.
LEMMA ReplySender ==
  ASSUME TypeOK, TypeOK', DeliveryInv, NEW w \in Users, NEW r \in Rounds, Reply(w, r),
         NEW u \in Users,
         NEW b \in Counts, NEW e \in Counts, NEW g \in Counts, NumberInv(u, b, e, g)
  PROVE  SenderInv(u, e, g)'
  <1>1. /\ UNCHANGED <<relativeSeq, seqBase, inc, latest, done>> /\ latest <= latest'
    <2>1. UNCHANGED <<relativeSeq, seqBase, inc, latest, done>> /\ latest \in Nat
      BY UserTypes DEF Reply, processVars, serviceVars
    <2> QED
      BY <2>1
  <1>2. SenderInv(u, e, g)
    BY DEF NumberInv
  <1>3. PICK m \in Deposit : m = mail[w][r]
    BY UserTypes
  <1>4. CASE outQueue'[u] = outQueue[u] /\ lastOut'[u] = lastOut[u]
    <2>1. Confirmed(u)' = Confirmed(u)
      BY <1>1, <1>4 DEF Confirmed
    <2> QED
      BY <1>1, <1>2, <1>4, <2>1, SenderKeeps
  <1>5. ASSUME Receive(w, m), u = w, m.from = Peer[w]
        PROVE  SenderInv(u, e, g)'
    <2> DEFINE c == Confirmed(u)
               x == e[inc[u]]
               y == g[inc[u]]
    <2>1. PICK n \in 0..Len(outQueue[u]) : AckedPrefix(u, m.ack, n) /\ RemoveAcked(u, n)
      BY <1>5 DEF Receive
    <2>2. /\ inc[u] \in Nat /\ Len(outQueue[u]) \in Nat /\ relativeSeq[u] \in Nat /\ m.ack \in Nat
      BY UserTypes DEF Deposit
    <2>3. n \in Nat /\ n <= Len(outQueue[u]) /\ x \in Nat /\ y \in Nat
      BY <2>2, CountNat
    <2>4. Ack(u, b, e, m.ack)
      BY <1>3, <1>5 DEF NumberInv, WireInv, Message
    <2>5. c + n <= x /\ (y < x => n = 0)
      BY <2>1, <2>2, <2>3, <2>4, RemovedNumbered
    <2>6. c \in Nat
      <3>1. QueueInv(u)
        BY DEF DeliveryInv
      <3> QED
        BY <2>2, <3>1 DEF QueueInv, Confirmed
    <2>7. Confirmed(u)' = c + n
      BY <1>1, <2>1, RemoveAckedInv
    <2>8. /\ lastOut[u] \in Nat \cup {-1}
          /\ lastOut'[u] = IF lastOut[u] > n THEN lastOut[u] - n
                           ELSE IF lastOut[u] > 0 THEN 0 ELSE lastOut[u]
      BY <2>1 DEF RemoveAcked, TypeOK, ConvoType
    <2>9. /\ c <= x /\ x <= relativeSeq[u] /\ relativeSeq[u] <= MaxTexts[u]
          /\ lastOut[u] > 0 => c + lastOut[u] < x
          /\ y = x \/ (y = c /\ y < x)
      BY <1>2 DEF SenderInv
    <2>10. IF seqBase[u] = 0 THEN x = 0
           ELSE /\ seqBase[u] - 1 \in done[u]
                /\ x <= Cardinality(Handled(u)) + 1
                /\ y = x => x <= Cardinality(Handled(u))
      BY <1>2 DEF SenderInv
    <2>11. Handled(u)' = Handled(u)
      BY <1>1 DEF Handled
    <2> HIDE DEF c, x, y
    <2>12. lastOut'[u] > 0 => (c + n) + lastOut'[u] < x
      BY <2>3, <2>6, <2>8, <2>9
    <2>13. y = x \/ (y = c + n /\ y < x)
      BY <2>3, <2>5, <2>6, <2>9
    <2>14. x = e[inc'[u]] /\ y = g[inc'[u]]
      BY <1>1 DEF x, y
    <2>15. IF seqBase'[u] = 0 THEN x = 0
           ELSE /\ seqBase'[u] - 1 \in done'[u]
                /\ x <= Cardinality(Handled(u)') + 1
                /\ y = x => x <= Cardinality(Handled(u)')
      BY <1>1, <2>10, <2>11
    <2>16. Confirmed(u)' <= x /\ x <= relativeSeq'[u] /\ relativeSeq'[u] <= MaxTexts[u]
      BY <1>1, <2>5, <2>7, <2>9
    <2>17. /\ lastOut'[u] > 0 => Confirmed(u)' + lastOut'[u] < x
           /\ y = x \/ (y = Confirmed(u)' /\ y < x)
      BY <2>7, <2>12, <2>13
    <2> QED
      BY <2>14, <2>15, <2>16, <2>17 DEF SenderInv
  <1>6. CASE r \notin rounds[w] \/ OwnMessage(w, m)
    BY <1>3, <1>4, <1>6 DEF Reply
  <1>7. CASE ~(r \notin rounds[w] \/ OwnMessage(w, m))
    <2>1. Receive(w, m)
      BY <1>3, <1>7 DEF Reply
    <2>2. m.from = Peer[w]
      BY <1>3, <1>7 DEF DeliveryInv, OriginInv, OwnMessage, Solo
    <2>3. CASE u = w
      BY <1>5, <2>1, <2>2, <2>3
    <2>4. CASE u # w
      BY <1>4, <2>1, <2>4 DEF Receive, RemoveAcked, TypeOK, ConvoType
    <2> QED
      BY <2>3, <2>4
  <1> QED
    BY <1>6, <1>7

LEMMA RestartInvReply ==
  ASSUME TypeOK, TypeOK', DeliveryInv, RestartInv, NEW w \in Users, NEW r \in Rounds, Reply(w, r)
  PROVE  RestartInv'
  <1>1. UNCHANGED <<relativeSeq, seqBase, drop, inc, floor, latest>>
    BY DEF Reply, processVars, serviceVars
  <1>2. ASSUME NEW q \in Rounds, NEW x \in Users
        PROVE  mail'[x][q] = mail[x][q] \/ mail'[x][q] = Nothing(x)
    <2>1. mail \in [Users -> [Rounds -> Deposit]]
      BY DEF TypeOK, ServiceType
    <2>2. mail' = [mail EXCEPT ![w][r] = Nothing(w)]
      BY DEF Reply
    <2> QED
      BY <2>1, <2>2
  <1>3. ASSUME NEW u \in Users,
               NEW b \in Counts, NEW e \in Counts, NEW g \in Counts, NumberInv(u, b, e, g)
        PROVE  \A q \in Rounds, x \in Users :
                  Message(u, b, e, g, drop'[q][x]) /\ Message(u, b, e, g, mail'[x][q])
    <2> TAKE q \in Rounds, x \in Users
    <2>1. /\ Message(u, b, e, g, drop[q][x]) /\ Message(u, b, e, g, mail[x][q])
          /\ Message(u, b, e, g, Nothing(x))
      BY <1>3, NothingSaid DEF NumberInv, WireInv
    <2>2. mail'[x][q] = mail[x][q] \/ mail'[x][q] = Nothing(x)
      BY <1>2
    <2> QED
      BY <1>1, <2>1, <2>2
  \* The numbers of a user to whose peer nothing new is displayed.
  <1>4. ASSUME NEW u \in Users,
               NEW b \in Counts, NEW e \in Counts, NEW g \in Counts, NumberInv(u, b, e, g),
               shown'[Peer[u]] = shown[Peer[u]], ack'[Peer[u]] = ack[Peer[u]],
               inQueue'[Peer[u]] = inQueue[Peer[u]]
        PROVE  NumberInv(u, b, e, g)'
    <2>1. latest <= latest'
      BY <1>1, UserTypes
    <2>2. SenderInv(u, e, g)'
      BY <1>4, ReplySender
    <2>3. \A q \in Rounds, x \in Users :
             Message(u, b, e, g, drop'[q][x]) /\ Message(u, b, e, g, mail'[x][q])
      BY <1>3, <1>4
    <2> QED
      BY <1>1, <1>4, <2>1, <2>2, <2>3, KeepNumbers
  <1>5. PICK m \in Deposit : m = mail[w][r]
    BY UserTypes
  <1>6. CASE r \notin rounds[w] \/ OwnMessage(w, m)
    <2>1. UNCHANGED <<outQueue, inQueue, ack, shown>>
      BY <1>5, <1>6 DEF Reply
    <2>2. \A u \in Users : Seen(u, inc'[u], Confirmed(u)')
      BY <1>1, <2>1 DEF RestartInv, Confirmed
    <2>3. ASSUME NEW u \in Users PROVE \E b, e, g \in Counts : NumberInv(u, b, e, g)'
      BY <1>4, <2>1 DEF RestartInv
    <2> QED
      BY <1>1, <2>1, <2>2, <2>3, QuietStep
  <1>7. CASE ~(r \notin rounds[w] \/ OwnMessage(w, m))
    <2>1. Receive(w, m)
      BY <1>5, <1>7 DEF Reply
    <2>2. m.from = Peer[w] /\ m.ack \in Nat
      <3>1. m.from = Peer[w]
        BY <1>5, <1>7 DEF DeliveryInv, OriginInv, OwnMessage, Solo
      <3> QED
        BY <3>1 DEF Deposit
    <2>5. ASSUME NEW u \in Users PROVE Seen(u, inc'[u], Confirmed(u)')
      BY <1>1, ReplyConfirms
    <2>6. CASE ~IsNew(w, m)
      <3>1. UNCHANGED <<inQueue, ack, shown>>
        BY <2>1, <2>6 DEF Receive
      <3>2. ASSUME NEW u \in Users PROVE \E b, e, g \in Counts : NumberInv(u, b, e, g)'
        BY <1>4, <3>1 DEF RestartInv
      <3> QED
        BY <1>1, <2>5, <3>1, <3>2, QuietStep
    <2>7. CASE IsNew(w, m)
      <3> DEFINE p == Peer[w]
      <3>1. Accept(w, m)
        BY <2>1, <2>7 DEF Receive
      <3>2. p \in Users /\ w = Peer[p] /\ m.from = p
        BY <2>2, PeerAssumption
      <3>3. PICK c, d, h \in Counts : NumberInv(p, c, d, h)
        BY <3>2 DEF RestartInv
      <3>4. Message(p, c, d, h, m)
        BY <1>5, <3>3 DEF NumberInv, WireInv
      <3>5. OrderInv(w) /\ GapInv(w)
        BY DEF RestartInv
      <3>6. \A q \in Rounds, x \in Users :
               Message(p, c, d, h, drop'[q][x]) /\ Message(p, c, d, h, mail'[x][q])
        BY <1>3, <3>2, <3>3
      <3> HIDE DEF p
      <3>a. SenderInv(p, d, h)'
        BY <3>2, <3>3, ReplySender
      <3>7. /\ NumberInv(p, c, d, h)' /\ OrderInv(w)' /\ GapInv(w)'
            /\ ExactInv(p) => ExactInv(p)'
            /\ \A v \in Users : \A i, j : Displayed(v, i, j) => Displayed(v, i, j)'
            /\ \A v \in Users \ {w} :
                 shown'[v] = shown[v] /\ ack'[v] = ack[v] /\ inQueue'[v] = inQueue[v]
        BY <1>1, <2>7, <3>1, <3>2, <3>3, <3>4, <3>5, <3>6, <3>a, AcceptStep
      <3> SUFFICES ASSUME NEW u \in Users
                   PROVE  /\ Seen(u, inc[u], Confirmed(u))'
                          /\ OrderInv(u)' /\ GapInv(u)'
                          /\ MaxRestarts = 0 => ExactInv(u)'
                          /\ \E b, e, g \in Counts : NumberInv(u, b, e, g)'
        BY DEF RestartInv
      <3>8. Seen(u, inc[u], Confirmed(u))'
        <4>1. \A j \in 0..(Confirmed(u)' - 1) : Displayed(Peer[u], inc'[u], j)
          BY <2>5 DEF Seen
        <4>2. Peer[u] \in Users
          BY UserTypes
        <4>3. ASSUME NEW j \in 0..(Confirmed(u)' - 1) PROVE Displayed(Peer[u], inc[u], j)'
          <5>1. PICK i : i = inc'[u]
            OBVIOUS
          <5>2. Displayed(Peer[u], i, j)'
            BY <3>7, <4>1, <4>2, <5>1
          <5> QED
            BY <5>1, <5>2 DEF Displayed
        <4> QED
          BY <4>3 DEF Seen
      <3>9. OrderInv(u)' /\ GapInv(u)'
        <4>1. CASE u = w
          BY <3>7, <4>1
        <4>2. CASE u # w
          <5>1. shown'[u] = shown[u]
            BY <3>7, <4>2
          <5>2. OrderInv(u) /\ GapInv(u)
            BY DEF RestartInv
          <5>3. OrderInv(u)'
            BY <5>1, <5>2 DEF OrderInv
          <5> QED
            BY <5>1, <5>2, <5>3 DEF GapInv
        <4> QED
          BY <4>1, <4>2
      <3>10. CASE u = p
        <4>1. MaxRestarts = 0 => ExactInv(u)'
          BY <3>7, <3>10 DEF RestartInv
        <4>2. NumberInv(u, c, d, h)'
          BY <3>7, <3>10
        <4> QED
          BY <3>8, <3>9, <4>1, <4>2
      <3>11. CASE u # p
        <4>1. Peer[u] \in Users \ {w}
          BY <3>2, <3>11, PeerAssumption
        <4>2. /\ shown'[Peer[u]] = shown[Peer[u]] /\ ack'[Peer[u]] = ack[Peer[u]]
              /\ inQueue'[Peer[u]] = inQueue[Peer[u]]
          BY <3>7, <4>1
        <4>3. \E b, e, g \in Counts : NumberInv(u, b, e, g)'
          BY <1>4, <4>2 DEF RestartInv
        <4>4. MaxRestarts = 0 => ExactInv(u)'
          BY <1>1, <4>2 DEF RestartInv, ExactInv
        <4> QED
          BY <3>8, <3>9, <4>3, <4>4
      <3> QED
        BY <3>10, <3>11
    <2> QED
      BY <2>6, <2>7
  <1> QED
    BY <1>6, <1>7

-----------------------------------------------------------------------------
(* The theorems. *)

LEMMA InitRestartInv == Init => RestartInv
  <1> SUFFICES ASSUME Init, NEW u \in Users
               PROVE  /\ Seen(u, inc[u], Confirmed(u))
                      /\ OrderInv(u) /\ GapInv(u)
                      /\ MaxRestarts = 0 => ExactInv(u)
                      /\ \E b, e, g \in Counts : NumberInv(u, b, e, g)
    BY DEF RestartInv
  <1>1. TypeOK
    BY InitTypeOK
  <1>2. Peer[u] \in Users /\ MaxTexts[u] \in Nat /\ RedialRounds \in Nat
    BY <1>1, UserTypes
  <1>3. /\ inc[u] = 0 /\ seqBase[u] = 0 /\ floor[u] = 0 /\ relativeSeq[u] = 0 /\ latest = 0
        /\ outQueue[u] = <<>> /\ lastOut[u] = 0 /\ shown[u] = <<>> /\ shown[Peer[u]] = <<>>
        /\ ack[Peer[u]] = 0 /\ inQueue[Peer[u]] = NoTexts
    BY <1>2 DEF Init
  <1>4. Confirmed(u) = 0
    <2>1. Len(outQueue[u]) = 0
      BY <1>3
    <2>2. relativeSeq[u] = 0
      BY <1>3
    <2> QED
      BY <2>1, <2>2 DEF Confirmed
  <1>5. Seen(u, inc[u], Confirmed(u)) /\ OrderInv(u) /\ GapInv(u) /\ ExactInv(u)
    BY <1>3, <1>4 DEF Seen, OrderInv, GapInv, ExactInv
  <1> DEFINE b == [n \in Nat |-> 0]
  <1>6. b \in Counts /\ \A n \in Nat : b[n] = 0
    BY DEF Counts
  <1> HIDE DEF b
  <1>7. BaseInv(u, b, b) /\ SenderInv(u, b, b)
    <2>1. b[0] = 0 /\ \A i \in 0..0 : b[i] = 0
      BY <1>6
    <2>2. BaseInv(u, b, b)
      BY <1>2, <1>3, <2>1 DEF BaseInv
    <2> QED
      BY <1>2, <1>3, <1>4, <2>1, <2>2 DEF SenderInv
  <1>8. QueuedInv(u, b, b, b)
    <2>1. DOMAIN NoTexts = {}
      BY DEF NoTexts
    <2> QED
      BY <1>1, <1>3, <1>6, <2>1, NothingSaid DEF QueuedInv
  <1>9. WireInv(u, b, b, b)
    <2>1. \A r \in Rounds, w \in Users : drop[r][w] = Nothing(w) /\ mail[w][r] = Nothing(w)
      BY DEF Init
    <2> QED
      BY <1>1, <1>6, <2>1, NothingSaid DEF WireInv
  <1>10. ShownInv(u, b, b, b)
    BY <1>3 DEF ShownInv
  <1> QED
    BY <1>5, <1>6, <1>7, <1>8, <1>9, <1>10 DEF NumberInv

LEMMA NextRestartInv ==
  ASSUME LateRedial, TypeOK, TypeOK', DeliveryInv, RestartInv, [Next]_vars
  PROVE  RestartInv'
  <1>0. latest \in Nat
    BY BoundsAssumption DEF TypeOK, ServiceType
  <1>1. CASE Announce
    <2>1. /\ UNCHANGED <<outQueue, lastOut, inQueue, relativeSeq, seqBase, ack, drop, mail, inc,
                          floor, done, shown>>
          /\ latest' = latest + 1
      BY <1>1 DEF Announce, convoVars, processVars
    <2>2. latest <= latest'
      BY <1>0, <2>1
    <2> QED
      BY <2>1, <2>2, RestartInvFrame
  <1>2. ASSUME UNCHANGED <<outQueue, inQueue, relativeSeq, seqBase, ack, drop, mail, inc, floor,
                           done, shown, latest>>,
               \A u \in Users : lastOut'[u] = lastOut[u] \/ lastOut'[u] = -1
        PROVE  RestartInv'
    <2>1. latest <= latest'
      BY <1>0, <1>2
    <2> QED
      BY <1>2, <2>1, RestartInvFrame
  <1>3. ASSUME NEW u \in Users, SendingCall(u) PROVE RestartInv'
    BY <1>2, <1>3 DEF SendingCall, activateConvo, processVars, serviceVars, TypeOK, ConvoType
  <1>4. ASSUME NEW u \in Users, NEW wheel \in 1..MaxCalls, ReceivedCall(u, wheel)
        PROVE  RestartInv'
    BY <1>2, <1>4 DEF ReceivedCall, activateConvo, processVars, serviceVars, TypeOK, ConvoType
  <1>5. CASE UNCHANGED vars
    BY <1>2, <1>5 DEF vars, convoVars, processVars, serviceVars
  <1>6. ASSUME NEW u \in Users, NEW r \in Rounds, NEW sent \in BOOLEAN, Outgoing(u, r, sent)
        PROVE  RestartInv'
    BY <1>6, OutgoingSends, RestartInvOutgoing
  <1> QED
    BY <1>1, <1>3, <1>4, <1>5, <1>6, RestartInvMix, RestartInvQueueText,
       RestartInvReply, RestartInvRestart DEF Next

LEMMA RestartImpliesNoLoss == TypeOK /\ DeliveryInv /\ RestartInv => NoLoss
  <1> SUFFICES ASSUME TypeOK, DeliveryInv, RestartInv, NEW u \in Users,
                      NEW k \in 0..(relativeSeq[u] - 1)
               PROVE  \/ \E i \in DOMAIN outQueue[u] : outQueue[u][i] = k
                      \/ Displayed(Peer[u], inc[u], k)
    BY DEF NoLoss, NoLossFrom
  <1>1. /\ QueueInv(u) /\ outQueue[u] \in Seq(Nat)
        /\ relativeSeq[u] \in Nat /\ Len(outQueue[u]) \in Nat
        /\ DOMAIN outQueue[u] = 1..Len(outQueue[u])
    BY DEF DeliveryInv, TypeOK, ConvoType
  <1>2. Seen(u, inc[u], Confirmed(u)) /\ Confirmed(u) \in Int
    BY <1>1 DEF RestartInv, Confirmed
  <1>3. CASE k < Confirmed(u)
    <2>1. k \in 0..(Confirmed(u) - 1)
      BY <1>2, <1>3
    <2> QED
      BY <1>2, <2>1 DEF Seen
  <1>4. CASE k >= Confirmed(u)
    <2> DEFINE i == k - Confirmed(u) + 1
    <2>1. i \in 1..Len(outQueue[u]) /\ Confirmed(u) + i - 1 = k
      BY <1>1, <1>4 DEF Confirmed, QueueInv
    <2> QED
      BY <1>1, <2>1 DEF QueueInv
  <1> QED
    BY <1>2, <1>3, <1>4

LEMMA RestartImpliesOrder == RestartInv => DisplayOrder /\ NoGap
  BY DEF RestartInv, OrderInv, GapInv, Before, DisplayOrder, NoGap

\* The inductive invariant holds in every reachable state.
THEOREM RestartInvariant ==
  ASSUME LateRedial
  PROVE  Spec => []RestartInv
  <1>1. TypeOK /\ TypeOK' /\ DeliveryInv /\ RestartInv /\ [Next]_vars => RestartInv'
    BY NextRestartInv
  <1> QED
    BY <1>1, InitRestartInv, TypeCorrect, DeliveryInvariant, PTL DEF Spec

\* Reply never drops a text from outQueue that the peer's user has not seen,
\* whatever rounds are lost, late or reordered and whichever of the two
\* processes restarts, as often as they may.
THEOREM NoTextLostEver ==
  ASSUME LateRedial
  PROVE  Spec => []NoLoss
  BY RestartInvariant, TypeCorrect, DeliveryInvariant, RestartImpliesNoLoss, PTL

\* A process displays its peer's texts in the order they were typed, none
\* twice, and never one of an older process after one of a newer.
THEOREM DisplayedInOrder ==
  ASSUME LateRedial
  PROVE  Spec => []DisplayOrder
  BY RestartInvariant, RestartImpliesOrder, PTL

\* A text is displayed after all earlier ones of the process that typed it,
\* although Lowest makes Reply skip the numbers it has not received.
THEOREM DisplayedWithoutGaps ==
  ASSUME LateRedial
  PROVE  Spec => []NoGap
  BY RestartInvariant, RestartImpliesOrder, PTL

-----------------------------------------------------------------------------
(* With no restarts the conversation implements FifoChannel: the texts u    *)
(* has queued are the numbers below relativeSeq[u], those displayed to its  *)
(* peer a prefix of them.                                                   *)

Numbered(n) == [i \in 1..n |-> i - 1]

LEMMA NumberedSeq ==
  ASSUME NEW n \in Nat
  PROVE  /\ Numbered(n) \in Seq(Int) /\ Len(Numbered(n)) = n
         /\ Append(Numbered(n), n) = Numbered(n + 1)
         /\ \A k \in 0..n : SubSeq(Numbered(n), 1, k) = Numbered(k)
  <1>1. ASSUME NEW k \in Nat
        PROVE  Numbered(k) \in Seq(Int) /\ Len(Numbered(k)) = k /\ DOMAIN Numbered(k) = 1..k
    <2>1. Numbered(k) \in [1..k -> Int]
      BY DEF Numbered
    <2>2. Numbered(k) \in Seq(Int)
      BY <2>1, SeqDef
    <2> QED
      BY <2>1, <2>2, LenProperties
  <1>2. \A k \in Nat : \A i \in 1..k : Numbered(k)[i] = i - 1
    BY DEF Numbered
  <1>3. Append(Numbered(n), n) = Numbered(n + 1)
    <2> DEFINE s == Append(Numbered(n), n)
               t == Numbered(n + 1)
    <2>1. /\ s \in Seq(Int) /\ Len(s) = n + 1
          /\ \A i \in 1..n : s[i] = Numbered(n)[i]
          /\ s[n + 1] = n
      BY <1>1, AppendProperties
    <2>2. t \in Seq(Int) /\ Len(t) = n + 1
      BY <1>1
    <2>3. ASSUME NEW i \in 1..(n + 1) PROVE s[i] = t[i]
      <3>1. t[i] = i - 1
        BY <1>2
      <3>2. CASE i \in 1..n
        BY <1>2, <2>1, <3>1, <3>2
      <3>3. CASE i = n + 1
        <4>1. t[n + 1] = n
          BY <3>1, <3>3
        <4> QED
          BY <2>1, <3>3, <4>1
      <3>4. i \in 1..n \/ i = n + 1
        <4> HIDE DEF s, t
        <4> QED
          OBVIOUS
      <3> QED
        BY <3>2, <3>3, <3>4
    <2> HIDE DEF s, t
    <2>4. Len(s) = Len(t) /\ \A i \in 1..Len(s) : s[i] = t[i]
      BY <2>1, <2>2, <2>3
    <2>5. s = t
      BY <2>1, <2>2, <2>4, SeqEqual
    <2> QED
      BY <2>5 DEF s, t
  <1>4. ASSUME NEW k \in 0..n PROVE SubSeq(Numbered(n), 1, k) = Numbered(k)
    <2> DEFINE q == Numbered(n)
               s == SubSeq(q, 1, k)
               t == Numbered(k)
    <2>1. q \in Seq(Int) /\ Len(q) = n /\ k \in Nat /\ k \in Int /\ 1 \in Int
      BY <1>1
    <2>2. \A i \in 1..k : q[i] \in Int
      BY <1>2
    <2>3. /\ s \in Seq(Int)
          /\ Len(s) = IF 1 <= k THEN k - 1 + 1 ELSE 0
          /\ \A i \in 1..(k - 1 + 1) : s[i] = q[1 + i - 1]
      BY <2>1, <2>2, SubSeqProperties
    <2>4. Len(s) = k
      BY <2>1, <2>3
    <2>5. t \in Seq(Int) /\ Len(t) = k
      BY <1>1, <2>1
    <2>6. ASSUME NEW i \in 1..k PROVE s[i] = t[i]
      <3>1. i \in 1..(k - 1 + 1) /\ 1 + i - 1 = i /\ i \in 1..n
        BY <2>1
      <3>2. s[i] = q[i]
        BY <2>3, <3>1
      <3>3. q[i] = i - 1 /\ t[i] = i - 1
        BY <1>2, <2>1, <3>1
      <3> QED
        BY <3>2, <3>3
    <2> HIDE DEF s, t
    <2>7. Len(s) = Len(t) /\ \A i \in 1..Len(s) : s[i] = t[i]
      BY <2>4, <2>5, <2>6
    <2>8. s = t
      BY <2>3, <2>5, <2>7, SeqEqual
    <2> QED
      BY <2>8 DEF s, t
  <1> QED
    BY <1>1, <1>3, <1>4

\* The three variables of the channels.
ChannelSent      == [u \in Users |-> [i \in 1..relativeSeq[u] |-> i - 1]]
ChannelDelivered ==
    [u \in Users |-> [i \in DOMAIN shown[Peer[u]] |-> shown[Peer[u]][i].text.rel]]
ChannelConfirmed == [u \in Users |-> relativeSeq[u] - Len(outQueue[u])]

LEMMA ChannelState ==
  ASSUME TypeOK, RestartInv, MaxRestarts = 0
  PROVE  /\ ChannelSent = [u \in Users |-> Numbered(relativeSeq[u])]
         /\ ChannelDelivered = [u \in Users |-> Numbered(Len(shown[Peer[u]]))]
         /\ ChannelConfirmed = [u \in Users |-> Confirmed(u)]
         /\ \A u \in Users : Len(shown[Peer[u]]) <= relativeSeq[u]
  <1>1. ChannelSent = [u \in Users |-> Numbered(relativeSeq[u])]
    BY DEF ChannelSent, Numbered
  <1>2. ChannelConfirmed = [u \in Users |-> Confirmed(u)]
    BY DEF ChannelConfirmed, Confirmed
  <1>3. ASSUME NEW u \in Users
        PROVE  [i \in DOMAIN shown[Peer[u]] |-> shown[Peer[u]][i].text.rel]
                  = Numbered(Len(shown[Peer[u]]))
    <2>1. Peer[u] \in Users
      BY UserTypes
    <2>2. DOMAIN shown[Peer[u]] = 1..Len(shown[Peer[u]])
      BY <2>1, LineTypes
    <2>3. ASSUME NEW i \in DOMAIN shown[Peer[u]] PROVE shown[Peer[u]][i].text.rel = i - 1
      <3>1. shown[Peer[u]][i].text = [inc |-> 0, rel |-> i - 1]
        BY DEF RestartInv, ExactInv
      <3> QED
        BY <3>1
    <2> QED
      BY <2>2, <2>3 DEF Numbered
  <1>4. ChannelDelivered = [u \in Users |-> Numbered(Len(shown[Peer[u]]))]
    BY <1>3 DEF ChannelDelivered
  <1>5. ASSUME NEW u \in Users PROVE Len(shown[Peer[u]]) <= relativeSeq[u]
    <2> DEFINE L == Len(shown[Peer[u]])
    <2>1. Peer[u] \in Users /\ relativeSeq[u] \in Nat
      BY UserTypes
    <2>2. L \in Nat /\ DOMAIN shown[Peer[u]] = 1..L
      BY <2>1, LineTypes
    <2>3. CASE L = 0
      BY <2>1, <2>3
    <2>4. CASE L # 0
      <3>1. L \in DOMAIN shown[Peer[u]]
        BY <2>2, <2>4
      <3>2. PICK b, e, g \in Counts : NumberInv(u, b, e, g)
        BY DEF RestartInv
      <3>3. PICK s : Number(u, b, e, g, s, shown[Peer[u]][L].text)
        BY <3>1, <3>2 DEF NumberInv, ShownInv
      <3>4. ExactInv(u)
        BY DEF RestartInv
      <3>5. shown[Peer[u]][L].text = [inc |-> 0, rel |-> L - 1] /\ inc[u] = 0
        BY <3>1, <3>4 DEF ExactInv
      <3>6. shown[Peer[u]][L].text.inc = 0 /\ shown[Peer[u]][L].text.rel = L - 1
        BY <3>5
      <3>7. L - 1 < relativeSeq[u]
        <4>1. L - 1 < e[0]
          BY <3>3, <3>6 DEF Number
        <4>2. e[0] <= relativeSeq[u] /\ e[0] \in Nat
          BY <3>2, <3>5, CountNat DEF NumberInv, SenderInv
        <4> HIDE DEF L
        <4> QED
          BY <2>1, <2>2, <4>1, <4>2 DEF L
      <3> HIDE DEF L
      <3> QED
        BY <2>1, <2>2, <3>7 DEF L
    <2> QED
      BY <2>3, <2>4
  <1> QED
    BY <1>1, <1>2, <1>4, <1>5

\* How a reply changes the channels of a conversation.
LEMMA ReplyChannel ==
  ASSUME TypeOK, TypeOK', DeliveryInv, RestartInv, RestartInv', MaxRestarts = 0,
         NEW w \in Users, NEW r \in Rounds, Reply(w, r)
  PROVE  /\ relativeSeq' = relativeSeq
         /\ \A v \in Users \ {w} : shown'[v] = shown[v]
         /\ Len(shown'[w]) \in Len(shown[w])..relativeSeq[Peer[w]]
         /\ \A u \in Users \ {w} : Confirmed(u)' = Confirmed(u)
         /\ Confirmed(w)' \in Confirmed(w)..Len(shown[Peer[w]])
  <1>1. relativeSeq' = relativeSeq
    BY DEF Reply
  <1>2. Peer[w] \in Users /\ Peer[Peer[w]] = w
    BY UserTypes
  <1>3. /\ \A v \in Users \ {w} : shown'[v] = shown[v]
        /\ Len(shown[w]) <= Len(shown'[w])
    <2>1. PICK m \in Deposit : m = mail[w][r]
      BY UserTypes
    <2>2. CASE UNCHANGED shown
      <3>1. Len(shown[w]) \in Nat
        BY LineTypes
      <3> QED
        BY <2>2, <3>1
    <2>3. CASE IsNew(w, m) /\ Accept(w, m)
      <3>1. PICK k \in Nat : Displays(w, Queued(w, m), AckFloor(w, m), k)
        BY <2>3, AcceptDisplays
      <3>2. AckFloor(w, m) \in Nat
        BY <2>3, QueuedTexts
      <3>3. AckFloor(w, m) <= k /\ Len(shown[w]) \in Nat
        BY <3>1 DEF Displays
      <3>4. Len(shown'[w]) = Len(shown[w]) + (k - AckFloor(w, m))
        BY <3>1 DEF Displays
      <3>5. Len(shown[w]) <= Len(shown[w]) + (k - AckFloor(w, m))
        BY <3>2, <3>3
      <3>6. \A v \in Users \ {w} : shown'[v] = shown[v]
        BY <3>1 DEF Displays
      <3> QED
        BY <3>4, <3>5, <3>6
    <2> QED
      BY <2>1, <2>2, <2>3 DEF Reply, Receive
  <1>4. Len(shown'[w]) \in Len(shown[w])..relativeSeq[Peer[w]]
    <2>1. (\A u \in Users : Len(shown[Peer[u]]) <= relativeSeq[u])'
      BY ChannelState, PTL
    <2>2. Len(shown'[w]) <= relativeSeq[Peer[w]]
      BY <1>1, <1>2, <2>1
    <2>3. Len(shown[w]) \in Nat
      BY LineTypes
    <2>4. Len(shown'[w]) \in Nat
      BY NextTypes, LenProperties
    <2>5. relativeSeq[Peer[w]] \in Nat
      BY <1>2, UserTypes
    <2> QED
      BY <1>3, <2>2, <2>3, <2>4, <2>5
  <1>5. Confirmed(w)' \in Confirmed(w)..Len(shown[Peer[w]])
    <2>1. PICK n \in Nat : Confirmed(w)' = Confirmed(w) + n
      BY ReplyConfirms
    <2>2. inc[w] = 0 /\ ExactInv(w)
      BY DEF RestartInv, ExactInv
    <2>3. Seen(w, 0, Confirmed(w) + n)
      BY <2>1, <2>2, ReplyConfirms
    <2>4. Confirmed(w) \in Nat
      <3>1. QueueInv(w) /\ relativeSeq[w] \in Nat /\ Len(outQueue[w]) \in Nat
        BY UserTypes DEF DeliveryInv
      <3> QED
        BY <3>1 DEF QueueInv, Confirmed
    <2>5. Confirmed(w) + n <= Len(shown[Peer[w]])
      BY <2>2, <2>3, <2>4, SeenCount
    <2>6. Len(shown[Peer[w]]) \in Nat
      BY <1>2, LineTypes
    <2>7. Confirmed(w) + n \in Confirmed(w)..Len(shown[Peer[w]])
      BY <2>4, <2>5, <2>6
    <2> QED
      BY <2>1, <2>7
  <1> QED
    BY <1>1, <1>3, <1>4, <1>5, ReplyConfirms

LEMMA InitChannel == Init => Channel!Init
  <1> SUFFICES ASSUME Init PROVE Channel!Init
    OBVIOUS
  <1>1. TypeOK /\ RestartInv
    BY InitTypeOK, InitRestartInv
  <1>2. \A u \in Users : /\ relativeSeq[u] = 0 /\ shown[Peer[u]] = <<>> /\ outQueue[u] = <<>>
    BY PeerAssumption DEF Init
  <1>3. Numbered(0) = <<>>
    BY NumberedSeq, EmptySeq
  <1>4. ChannelSent = [u \in Users |-> <<>>]
    BY <1>2, <1>3 DEF ChannelSent, Numbered
  <1>5. ChannelDelivered = [u \in Users |-> <<>>]
    <2>1. ASSUME NEW u \in Users
          PROVE  [i \in DOMAIN shown[Peer[u]] |-> shown[Peer[u]][i].text.rel] = <<>>
      BY <1>2
    <2> QED
      BY <2>1 DEF ChannelDelivered
  <1>6. ChannelConfirmed = [u \in Users |-> 0]
    <2>1. ASSUME NEW u \in Users PROVE relativeSeq[u] - Len(outQueue[u]) = 0
      <3>1. Len(outQueue[u]) = 0
        BY <1>2
      <3>2. relativeSeq[u] = 0
        BY <1>2
      <3> QED
        BY <3>1, <3>2
    <2> QED
      BY <2>1 DEF ChannelConfirmed
  <1> QED
    BY <1>4, <1>5, <1>6 DEF Channel!Init, ChannelSent, ChannelDelivered, ChannelConfirmed

LEMMA SendChannel ==
  ASSUME TypeOK, DeliveryInv, NEW w \in Users, QueueTextMessage(w)
  PROVE  Channel!Send(w)
  <1>1. relativeSeq \in [Users -> Nat] /\ relativeSeq' = [relativeSeq EXCEPT ![w] = @ + 1]
    BY DEF TypeOK, ConvoType, QueueTextMessage
  <1>2. UNCHANGED shown
    BY DEF QueueTextMessage
  <1>3. \A u \in Users : Confirmed(u)' = Confirmed(u)
    BY ConfirmedQueueText
  <1>4. ChannelSent' = [ChannelSent EXCEPT ![w] = Append(@, Len(@))]
    <2>1. ChannelSent = [u \in Users |-> Numbered(relativeSeq[u])]
      BY DEF ChannelSent, Numbered
    <2>2. ChannelSent' = [u \in Users |-> Numbered(relativeSeq'[u])]
      BY DEF ChannelSent, Numbered
    <2>3. Numbered(relativeSeq'[w]) =
            Append(Numbered(relativeSeq[w]), Len(Numbered(relativeSeq[w])))
      <3>1. relativeSeq[w] \in Nat /\ relativeSeq'[w] = relativeSeq[w] + 1
        BY <1>1
      <3> QED
        BY <3>1, NumberedSeq
    <2>4. \A u \in Users \ {w} : relativeSeq'[u] = relativeSeq[u]
      BY <1>1
    <2> QED
      BY <2>1, <2>2, <2>3, <2>4
  <1>5. ChannelDelivered' = ChannelDelivered
    BY <1>2 DEF ChannelDelivered
  <1>6. ChannelConfirmed' = ChannelConfirmed
    BY <1>3 DEF ChannelConfirmed, Confirmed
  <1> QED
    BY <1>4, <1>5, <1>6 DEF Channel!Send, ChannelSent, ChannelDelivered, ChannelConfirmed

LEMMA ReceiveChannel ==
  ASSUME TypeOK, TypeOK', DeliveryInv, RestartInv, RestartInv', MaxRestarts = 0,
         NEW w \in Users, NEW r \in Rounds, Reply(w, r)
  PROVE  Channel!Receive(w)
  <1> DEFINE p == Peer[w]
  <1>1. p \in Users /\ Peer[p] = w /\ relativeSeq[p] \in Nat /\ Len(shown[w]) \in Nat
    BY UserTypes, LineTypes
  <1>2. /\ ChannelSent = [u \in Users |-> Numbered(relativeSeq[u])]
        /\ ChannelDelivered = [u \in Users |-> Numbered(Len(shown[Peer[u]]))]
        /\ ChannelConfirmed = [u \in Users |-> Confirmed(u)]
    BY ChannelState
  <1>3. /\ ChannelDelivered' = [u \in Users |-> Numbered(Len(shown'[Peer[u]]))]
        /\ ChannelConfirmed' = [u \in Users |-> Confirmed(u)']
    <2>1. (/\ ChannelDelivered = [u \in Users |-> Numbered(Len(shown[Peer[u]]))]
           /\ ChannelConfirmed = [u \in Users |-> Confirmed(u)])'
      BY ChannelState, PTL
    <2> QED
      BY <2>1 DEF Numbered, Confirmed
  <1>4. /\ relativeSeq' = relativeSeq
        /\ \A v \in Users \ {w} : shown'[v] = shown[v]
        /\ Len(shown'[w]) \in Len(shown[w])..relativeSeq[p]
        /\ \A u \in Users \ {w} : Confirmed(u)' = Confirmed(u)
        /\ Confirmed(w)' \in Confirmed(w)..Len(shown[p])
    BY ReplyChannel
  <1>5. ChannelSent' = ChannelSent
    BY <1>4 DEF ChannelSent
  <1>6. /\ Len(ChannelSent[p]) = relativeSeq[p]
        /\ Len(ChannelDelivered[p]) = Len(shown[w])
        /\ Len(ChannelDelivered[w]) = Len(shown[p])
    <2>1. Len(shown[p]) \in Nat
      BY <1>1, LineTypes
    <2> QED
      BY <1>1, <1>2, <2>1, NumberedSeq
  <1>7. PICK n \in Len(shown[w])..relativeSeq[p] : n = Len(shown'[w])
    BY <1>4
  <1>8. SubSeq(ChannelSent[p], 1, n) = Numbered(n)
    <2>1. n \in 0..relativeSeq[p]
      BY <1>1
    <2> QED
      BY <1>1, <1>2, <2>1, NumberedSeq
  <1>9. ChannelDelivered' = [ChannelDelivered EXCEPT ![p] = SubSeq(ChannelSent[p], 1, n)]
    <2>1. \A u \in Users \ {p} : Peer[u] \in Users \ {w}
      BY PeerAssumption
    <2>2. \A u \in Users \ {p} : shown'[Peer[u]] = shown[Peer[u]]
      BY <1>4, <2>1
    <2> QED
      BY <1>1, <1>2, <1>3, <1>7, <1>8, <2>2
  <1>10. PICK c \in Confirmed(w)..Len(shown[p]) : c = Confirmed(w)'
    BY <1>4
  <1>11. ChannelConfirmed' = [ChannelConfirmed EXCEPT ![w] = c]
    BY <1>2, <1>3, <1>4, <1>10
  <1>12. ChannelConfirmed[w] = Confirmed(w)
    BY <1>2
  <1>13. /\ \E k \in Len(ChannelDelivered[Peer[w]])..Len(ChannelSent[Peer[w]]) :
              ChannelDelivered' =
                 [ChannelDelivered EXCEPT ![Peer[w]] = SubSeq(ChannelSent[Peer[w]], 1, k)]
         /\ \E k \in ChannelConfirmed[w]..Len(ChannelDelivered[w]) :
              ChannelConfirmed' = [ChannelConfirmed EXCEPT ![w] = k]
    BY <1>6, <1>9, <1>11, <1>12
  <1> QED
    BY <1>5, <1>13 DEF Channel!Receive, ChannelSent, ChannelDelivered, ChannelConfirmed

LEMMA NextChannel ==
  ASSUME TypeOK, TypeOK', DeliveryInv, RestartInv, RestartInv', MaxRestarts = 0, [Next]_vars
  PROVE  [Channel!Next]_(Channel!chanVars)
  <1>1. ASSUME UNCHANGED <<relativeSeq, shown, outQueue>> PROVE UNCHANGED Channel!chanVars
    BY <1>1 DEF Channel!chanVars
  <1>2. CASE Announce \/ UNCHANGED vars
    BY <1>1, <1>2 DEF Announce, vars, convoVars
  <1>3. ASSUME NEW r \in Rounds, Mix(r) PROVE UNCHANGED Channel!chanVars
    BY <1>1, <1>3 DEF Mix, convoVars
  <1>4. ASSUME NEW u \in Users,
               SendingCall(u) \/ \E wheel \in 1..MaxCalls : ReceivedCall(u, wheel)
        PROVE  UNCHANGED Channel!chanVars
    BY <1>1, <1>4 DEF SendingCall, ReceivedCall, activateConvo
  <1>5. ASSUME NEW u \in Users, NEW r \in Rounds, NEW sent \in BOOLEAN, Outgoing(u, r, sent)
        PROVE  UNCHANGED Channel!chanVars
    BY <1>1, <1>5 DEF Outgoing
  <1>6. ASSUME NEW u \in Users, QueueTextMessage(u) PROVE Channel!Next
    BY <1>6, SendChannel DEF Channel!Next
  <1>7. ASSUME NEW u \in Users, NEW r \in Rounds, Reply(u, r) PROVE Channel!Next
    BY <1>7, ReceiveChannel DEF Channel!Next
  <1>8. ASSUME NEW u \in Users, Restart(u) PROVE FALSE
    <2>1. inc[u] \in Nat /\ inc[Peer[u]] \in Nat
      BY UserTypes
    <2>2. inc[u] + inc[Peer[u]] < 0
      BY <1>8 DEF Restart
    <2> QED
      BY <2>1, <2>2
  <1> QED
    BY <1>2, <1>3, <1>4, <1>5, <1>6, <1>7, <1>8 DEF Next

\* With no restarts each direction of a conversation is a FIFO channel: every
\* text is displayed once, in the order typed, and leaves its sender's queue
\* only then, whatever rounds are lost, late or out of order.
THEOREM FifoRefinement ==
  ASSUME MaxRestarts = 0
  PROVE  Spec => ImplementsFifo
  <1>1. LateRedial
    BY DEF LateRedial
  <1>2. TypeOK /\ TypeOK' /\ DeliveryInv /\ RestartInv /\ RestartInv' /\ [Next]_vars
          => [Channel!Next]_(Channel!chanVars)
    BY NextChannel
  <1>3. Spec => []RestartInv
    BY <1>1, RestartInvariant
  <1> QED
    BY <1>2, <1>3, InitChannel, TypeCorrect, DeliveryInvariant, PTL
       DEF Spec, ImplementsFifo, Channel!Spec
=============================================================================

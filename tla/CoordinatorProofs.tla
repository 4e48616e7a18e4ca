------------------------- MODULE CoordinatorProofs -------------------------
(***************************************************************************)
(* Proofs about Coordinator, for every number of clients, flights, rounds   *)
(* and crashes, and every skip and save interval SkipAssumption allows.     *)
(***************************************************************************)
EXTENDS Coordinator, FiniteSetTheorems, WellFoundedInduction, TLAPS

-----------------------------------------------------------------------------
(* Type correctness. *)

LEMMA BundleType ==
  ASSUME NEW b \in Bundles
  PROVE  b.round \in RoundNumbers /\ b.sender \in Conns
  BY DEF Bundles, Bundle

LEMMA InitTypeOK == Init => TypeOK
  <1> SUFFICES ASSUME Init PROVE TypeOK
    OBVIOUS
  <1>1. CounterType
    BY ConstantsAssumption DEF Init, CounterType
  <1>2. FlagType
    BY Zenon DEF Init, FlagType
  <1>3. RoundType
    BY DEF Init, RoundType, Phases
  <1> QED BY <1>1, <1>2, <1>3 DEF TypeOK

LEMMA NextTypeOK == TypeOK /\ [Next]_vars => TypeOK'
  <1> SUFFICES ASSUME TypeOK, [Next]_vars PROVE TypeOK'
    OBVIOUS
  <1> USE DEF processVars, roundVars, historyVars
  <1>1. CounterType'
    <2> SUFFICES ASSUME CounterType, RoundType PROVE CounterType'
      BY DEF TypeOK
    <2> USE ConstantsAssumption DEF CounterType
    <2>1. CASE Crash
      BY <2>1 DEF Crash
    <2>2. CASE Run
      BY <2>2 DEF Run
    <2>3. CASE StartRound
      <3>1. round + 1 \in RoundNumbers
        BY <2>3 DEF StartRound, RoundNumbers
      <3> QED BY <2>3, <3>1 DEF StartRound, Save
    <2>4. ASSUME NEW s \in saves, PersistRead(s) PROVE CounterType'
      BY <2>4 DEF PersistRead, Save
    <2>5. ASSUME NEW s \in saves, PersistWrite(s) PROVE CounterType'
      BY <2>5 DEF PersistWrite
    <2>6. ASSUME NEW s \in saves, PersistFail(s) PROVE CounterType'
      BY <2>6 DEF PersistFail, Crash
    <2>7. ASSUME NEW r \in RoundNumbers, RunRound(r) PROVE CounterType'
      BY <2>7 DEF RunRound, CheckConfig, Announce, GiveUp, Deadline, MixOnions, MixFail, EndRound
    <2>8. CASE UpdateConfig \/ Close \/ Shutdown
      BY <2>8 DEF UpdateConfig, Close, Shutdown
    <2>9. ASSUME NEW c \in Conns, NEW r \in RoundNumbers, LookupRound(c, r) PROVE CounterType'
      BY <2>9 DEF LookupRound
    <2>10. ASSUME NEW b \in arriving, AddBundle(b) PROVE CounterType'
      BY <2>10 DEF AddBundle
    <2>11. CASE UNCHANGED vars
      BY <2>11 DEF vars
    <2> HIDE DEF CounterType
    <2> QED
      BY <2>1, <2>2, <2>3, <2>4, <2>5, <2>6, <2>7, <2>8, <2>9, <2>10, <2>11 DEF Next
  <1>2. FlagType'
    <2> SUFFICES ASSUME FlagType PROVE FlagType'
      BY DEF TypeOK
    <2> USE DEF FlagType
    <2>1. CASE Crash
      BY <2>1, Zenon DEF Crash
    <2>2. CASE Run \/ UpdateConfig \/ Close \/ Shutdown
      BY <2>2, Zenon DEF Run, UpdateConfig, Close, Shutdown
    <2>3. CASE StartRound
      BY <2>3, Zenon DEF StartRound
    <2>4. ASSUME NEW s \in saves, PersistRead(s) \/ PersistWrite(s) PROVE FlagType'
      BY <2>4, Zenon DEF PersistRead, PersistWrite
    <2>5. ASSUME NEW s \in saves, PersistFail(s) PROVE FlagType'
      BY <2>1, <2>5, Zenon DEF PersistFail
    <2>6. ASSUME NEW r \in RoundNumbers, RunRound(r) PROVE FlagType'
      BY <2>6, Zenon DEF RunRound, CheckConfig, Announce, GiveUp, Deadline, MixOnions, MixFail, EndRound
    <2>7. ASSUME NEW c \in Conns, NEW r \in RoundNumbers, LookupRound(c, r) PROVE FlagType'
      BY <2>7, Zenon DEF LookupRound
    <2>8. ASSUME NEW b \in arriving, AddBundle(b) PROVE FlagType'
      BY <2>8, Zenon DEF AddBundle
    <2>9. CASE UNCHANGED vars
      BY <2>9, Zenon DEF vars
    <2> HIDE DEF FlagType
    <2> QED BY <2>1, <2>2, <2>3, <2>4, <2>5, <2>6, <2>7, <2>8, <2>9 DEF Next
  <1>3. RoundType'
    <2> SUFFICES ASSUME RoundType PROVE RoundType'
      BY DEF TypeOK
    <2> USE DEF RoundType
    <2>1. CASE Crash
      BY <2>1 DEF Crash, Phases
    <2>2. CASE Run \/ UpdateConfig \/ Close \/ Shutdown
      BY <2>2 DEF Run, UpdateConfig, Close, Shutdown
    <2>3. CASE StartRound
      BY <2>3 DEF StartRound, Phases
    <2>4. ASSUME NEW s \in saves, PersistRead(s) \/ PersistWrite(s) PROVE RoundType'
      BY <2>4 DEF PersistRead, PersistWrite
    <2>5. ASSUME NEW s \in saves, PersistFail(s) PROVE RoundType'
      BY <2>1, <2>5 DEF PersistFail
    <2>6. ASSUME NEW r \in RoundNumbers, RunRound(r) PROVE RoundType'
      <3>1. CASE CheckConfig(r) \/ GiveUp(r) \/ Deadline(r) \/ MixFail(r)
        BY <3>1 DEF CheckConfig, GiveUp, Deadline, MixFail, Phases
      <3>2. CASE Announce(r)
        BY <3>2 DEF Announce, Phases
      <3>3. CASE MixOnions(r)
        BY <3>3 DEF MixOnions, Phases
      <3>4. CASE EndRound(r)
        BY <3>4 DEF EndRound, Phases
      <3> HIDE DEF RoundType
      <3> QED BY <2>6, <3>1, <3>2, <3>3, <3>4 DEF RunRound
    <2>7. ASSUME NEW c \in Conns, NEW r \in RoundNumbers, LookupRound(c, r) PROVE RoundType'
      <3>1. Bundle(c, r) \in Bundles
        BY DEF Bundles
      <3> QED BY <2>7, <3>1 DEF LookupRound
    <2>8. ASSUME NEW b \in arriving, AddBundle(b) PROVE RoundType'
      <3>1. b \in Bundles /\ b.round \in RoundNumbers
        BY BundleType
      <3> QED BY <2>8, <3>1 DEF AddBundle
    <2>9. CASE UNCHANGED vars
      BY <2>9 DEF vars
    <2> HIDE DEF RoundType
    <2> QED BY <2>1, <2>2, <2>3, <2>4, <2>5, <2>6, <2>7, <2>8, <2>9 DEF Next
  <1> QED BY <1>1, <1>2, <1>3 DEF TypeOK

\* Every reachable state of the coordinator has its type: in particular the
\* counters and the flights channel stay within their bounds.
THEOREM TypeCorrect == Spec => []TypeOK
  BY InitTypeOK, NextTypeOK, PTL DEF Spec

-----------------------------------------------------------------------------
(* Flight tokens. *)

\* The rounds whose goroutine is running.
ActiveRounds == {r \in RoundNumbers : Active(r)}

\* No goroutine survives a crash, and a running round has been numbered.
NoneWhenDown == ~up => ~looping /\ \A r \in RoundNumbers : ~Active(r)

ActiveNumbered == \A r \in RoundNumbers : Active(r) => r <= round

TokenInv == TypeOK /\ NoneWhenDown /\ ActiveNumbered /\ TokensConserved

\* Numbering a round adds one goroutine, the end of a round removes one.
LEMMA ActiveFinite == IsFiniteSet(ActiveRounds) /\ Cardinality(ActiveRounds) \in Nat
  <1>1. IsFiniteSet(RoundNumbers)
    BY ConstantsAssumption, FS_Interval DEF RoundNumbers
  <1>2. IsFiniteSet(ActiveRounds)
    BY <1>1, FS_Subset DEF ActiveRounds
  <1> QED BY <1>2, FS_CardinalityType

\* A step of a round between its start and its end keeps the set of running
\* rounds; EndRound and StartRound change it by one.
LEMMA ActiveKept ==
  ASSUME NEW r \in RoundNumbers, phase \in [RoundNumbers -> Phases], Active(r), Active(r)',
         \A q \in RoundNumbers \ {r} : phase'[q] = phase[q]
  PROVE  ActiveRounds' = ActiveRounds
  BY DEF ActiveRounds, Active

LEMMA InitToken == Init => TokenInv
  <1> SUFFICES ASSUME Init PROVE TokenInv
    OBVIOUS
  <1>1. TypeOK
    BY InitTypeOK
  <1>2. \A r \in RoundNumbers : ~Active(r)
    BY DEF Init, Active
  <1>3. TokensConserved
    <2>1. {r \in RoundNumbers : Active(r)} = {}
      BY <1>2
    <2>2. flights = NumInFlight
      BY DEF Init
    <2> QED BY <2>1, <2>2, FS_EmptySet, ConstantsAssumption DEF TokensConserved
  <1>4. up
    BY DEF Init
  <1> QED BY <1>1, <1>2, <1>3, <1>4 DEF TokenInv, NoneWhenDown, ActiveNumbered

LEMMA NextToken == TokenInv /\ [Next]_vars => TokenInv'
  <1> SUFFICES ASSUME TokenInv, [Next]_vars PROVE TokenInv'
    OBVIOUS
  <1> USE DEF processVars, roundVars, historyVars
  <1> DEFINE Kept == NoneWhenDown /\ ActiveNumbered /\ TokensConserved
  <1>0. TypeOK /\ CounterType /\ RoundType
    BY DEF TokenInv, TypeOK
  <1>12. TypeOK'
    BY <1>0, NextTypeOK
  <1> SUFFICES Kept'
    BY <1>12 DEF TokenInv
  <1>1. CASE Crash
    <2>1. ~up' /\ ~looping' /\ \A r \in RoundNumbers : ~Active(r)'
      BY <1>1 DEF Crash, Active
    <2> QED BY <2>1 DEF NoneWhenDown, ActiveNumbered, TokensConserved
  <1>2. CASE Run
    <2>1. \A r \in RoundNumbers : ~Active(r)'
      BY <1>2 DEF Run, TokenInv, NoneWhenDown, Active
    <2>2. ActiveRounds' = {}
      BY <2>1 DEF ActiveRounds
    <2>3. TokensConserved'
      BY <1>2, <2>2, FS_EmptySet, ConstantsAssumption DEF Run, TokensConserved, ActiveRounds
    <2>4. up'
      BY <1>2 DEF Run
    <2> QED BY <2>1, <2>3, <2>4 DEF NoneWhenDown, ActiveNumbered
  <1>3. CASE StartRound
    <2> DEFINE r == round + 1
    <2>1. r \in RoundNumbers /\ up /\ up'
      BY <1>0, <1>3, ConstantsAssumption DEF StartRound, RoundNumbers, TokenInv, NoneWhenDown, CounterType
    <2>2. r \notin ActiveRounds
      BY <1>0, <2>1 DEF ActiveRounds, TokenInv, ActiveNumbered, CounterType
    <2>3. ActiveRounds' = ActiveRounds \cup {r}
      BY <1>0, <1>3, <2>1 DEF ActiveRounds, Active, StartRound, RoundType
    <2>4. Cardinality(ActiveRounds') = Cardinality(ActiveRounds) + 1
      BY <2>2, <2>3, ActiveFinite, FS_AddElement
    <2>5. TokensConserved'
      BY <1>0, <1>3, <2>1, <2>4, ActiveFinite, ConstantsAssumption
         DEF StartRound, TokensConserved, TokenInv, ActiveRounds, CounterType
    <2>6. ActiveNumbered'
      BY <1>0, <1>3, <2>1 DEF StartRound, ActiveNumbered, TokenInv, Active, RoundType, CounterType, RoundNumbers
    <2> QED BY <2>1, <2>5, <2>6 DEF NoneWhenDown
  <1>4. ASSUME NEW r \in RoundNumbers, RunRound(r) PROVE Kept'
    <2>1. Active(r)
      BY <1>4 DEF RunRound, CheckConfig, Announce, GiveUp, Deadline, MixOnions, MixFail, EndRound, Active
    <2>2. up /\ up' = up /\ looping' = looping /\ round' = round
      BY <1>4, <2>1 DEF TokenInv, NoneWhenDown, RunRound, CheckConfig, Announce, GiveUp, Deadline,
                        MixOnions, MixFail, EndRound
    <2>3. \A q \in RoundNumbers \ {r} : phase'[q] = phase[q]
      BY <1>0, <1>4 DEF RoundType, RunRound, CheckConfig, Announce, GiveUp, Deadline, MixOnions, MixFail, EndRound
    <2>4. NoneWhenDown'
      BY <2>2 DEF NoneWhenDown
    <2>5. ActiveNumbered'
      BY <2>1, <2>2, <2>3 DEF ActiveNumbered, TokenInv, Active
    <2>6. CASE EndRound(r)
      <3>1. ActiveRounds' = ActiveRounds \ {r} /\ r \in ActiveRounds
        BY <1>0, <2>1, <2>6 DEF ActiveRounds, Active, EndRound, RoundType
      <3>2. Cardinality(ActiveRounds') = Cardinality(ActiveRounds) - 1
        BY <3>1, ActiveFinite, FS_RemoveElement
      <3>3. Cardinality(ActiveRounds) > 0
        BY <3>1, ActiveFinite, FS_EmptySet
      <3>4. TokensConserved'
        BY <1>0, <2>2, <2>6, <3>2, <3>3, ActiveFinite, ConstantsAssumption
           DEF EndRound, TokensConserved, TokenInv, ActiveRounds, CounterType
      <3> QED BY <2>4, <2>5, <3>4
    <2>7. CASE ~EndRound(r)
      <3>1. Active(r)' /\ flights' = flights
        BY <1>0, <1>4, <2>7 DEF RoundType, Active, RunRound, CheckConfig, Announce, GiveUp, Deadline, MixOnions, MixFail
      <3>2. ActiveRounds' = ActiveRounds
        BY <1>0, <2>1, <2>3, <3>1, ActiveKept DEF RoundType
      <3>3. TokensConserved'
        BY <2>2, <3>1, <3>2 DEF TokensConserved, TokenInv, ActiveRounds
      <3> QED BY <2>4, <2>5, <3>3
    <2> QED BY <2>6, <2>7
  <1>5. CASE UNCHANGED <<up, round, flights, phase>> /\ (looping' => looping)
    BY <1>5 DEF TokenInv, NoneWhenDown, ActiveNumbered, TokensConserved, Active
  <1>6. CASE UpdateConfig \/ Close \/ Shutdown
    BY <1>5, <1>6 DEF UpdateConfig, Close, Shutdown
  <1>7. ASSUME NEW s \in saves, PersistRead(s) \/ PersistWrite(s) PROVE Kept'
    BY <1>5, <1>7 DEF PersistRead, PersistWrite
  <1>8. ASSUME NEW s \in saves, PersistFail(s) PROVE Kept'
    BY <1>1, <1>5, <1>8 DEF PersistFail
  <1>9. ASSUME NEW c \in Conns, NEW r \in RoundNumbers, LookupRound(c, r) PROVE Kept'
    BY <1>5, <1>9 DEF LookupRound
  <1>10. ASSUME NEW b \in arriving, AddBundle(b) PROVE Kept'
    BY <1>5, <1>10 DEF AddBundle
  <1>11. CASE UNCHANGED vars
    BY <1>5, <1>11 DEF vars
  <1> HIDE DEF Kept
  <1> QED BY <1>1, <1>2, <1>3, <1>4, <1>6, <1>7, <1>8, <1>9, <1>10, <1>11 DEF Next

\* The flights channel is a semaphore on every path of runRound and across
\* Close, crashes and restarts: tokens plus running rounds make its capacity,
\* so no round ends without its token and none puts back two.
THEOREM TokensAreConserved == Spec => []TokensConserved
  <1>1. TokenInv => TokensConserved
    BY DEF TokenInv
  <1> QED BY <1>1, InitToken, NextToken, PTL DEF Spec

-----------------------------------------------------------------------------
(* Unique round numbers. *)

\* A save that is running was begun by a round that is at most PersistDelay
\* behind the counter, and what it has read is not older than that round.
SavesTimely ==
    \A s \in saves :
        /\ s.at <= round /\ round <= s.at + PersistDelay
        /\ s.value # 0 => s.at <= s.value

\* From round t on, every round that is due to save has a save running.
SavingSince(t) ==
    \A m \in (t + 1)..round : PersistDue(m) => \E s \in saves : s.at = m

\* The file lags behind such a round by at most PersistDelay, once it has been
\* written; before that, it holds what this process began with.
FileFollows ==
    up /\ allSaved =>
        \E t \in Nat : t <= round /\ SavingSince(t) /\ (saved => t <= disk + PersistDelay)

BaseFromFile == up /\ ~saved => base = disk + RoundSkip

\* What a crash leaves behind covers every round the process started.
FileCovers == ~up => ~looping /\ saves = {} /\ (allSaved => round <= disk + RoundSkip)

StartsCounted ==
    allSaved => \A r \in RoundNumbers : starts[r] <= 1 /\ (starts[r] # 0 => r <= round)

UniqueInv ==
    TypeOK /\ SavesTimely /\ FileFollows /\ BaseFromFile /\ FileCovers /\ StartsCounted

\* One of any PersistEvery consecutive rounds is due to save.
LEMMA SomeDue ==
  ASSUME NEW t \in Nat
  PROVE  \E m \in (t + 1)..(t + PersistEvery) : PersistDue(m)
  <1> USE ConstantsAssumption
  <1> DEFINE q == t \div PersistEvery
             m == t + PersistEvery - (t % PersistEvery)
  <1>1. t % PersistEvery \in 0..(PersistEvery - 1)
    OBVIOUS
  <1>2. m \in (t + 1)..(t + PersistEvery)
    BY <1>1
  <1>3. q \in Nat /\ t = PersistEvery * q + (t % PersistEvery)
    OBVIOUS
  <1>4. m = PersistEvery * (q + 1)
    BY <1>1, <1>3
  <1>5. m % PersistEvery = 0
    <2> DEFINE d == (q + 1) - (m \div PersistEvery)
               e == m % PersistEvery
    <2>1. m \div PersistEvery \in Nat /\ e \in 0..(PersistEvery - 1)
          /\ m = PersistEvery * (m \div PersistEvery) + e
      BY <1>2
    <2>2. d \in Int /\ e = PersistEvery * d
      BY <1>3, <1>4, <2>1
    <2> HIDE DEF d, e
    <2>3. e \in 0..(PersistEvery - 1) => e = 0
      BY <2>2
    <2> QED BY <2>1, <2>3 DEF e
  <1> QED BY <1>2, <1>5 DEF PersistDue

\* What makes the skip large enough: the counter is ahead of the file by at
\* most a save interval, the delay of the save that wrote it, and the delay of
\* the one that follows.
LEMMA FileLag ==
  ASSUME CounterType, SavesTimely, FileFollows, up, allSaved, saved
  PROVE  round <= disk + RoundSkip
  <1> USE ConstantsAssumption DEF CounterType
  <1>1. PICK t \in Nat : t <= round /\ SavingSince(t) /\ t <= disk + PersistDelay
    BY DEF FileFollows
  <1>2. PICK m \in (t + 1)..(t + PersistEvery) : PersistDue(m)
    BY SomeDue
  <1>3. CASE m <= round
    <2>1. m \in (t + 1)..round
      BY <1>3
    <2>2. PICK s \in saves : s.at = m
      BY <1>1, <1>2, <2>1 DEF SavingSince
    <2>3. round <= m + PersistDelay
      BY <2>2 DEF SavesTimely
    <2> QED BY <1>1, <2>3, SkipAssumption
  <1>4. CASE m > round
    BY <1>1, <1>4, SkipAssumption
  <1> QED BY <1>3, <1>4

LEMMA InitUnique == Init => UniqueInv
  <1> SUFFICES ASSUME Init PROVE UniqueInv
    OBVIOUS
  <1>1. TypeOK
    BY InitTypeOK
  <1>2. SavesTimely
    BY DEF Init, SavesTimely
  <1>3. FileFollows
    <2>1. round \in Nat /\ round <= round
      BY ConstantsAssumption DEF Init
    <2>2. SavingSince(round)
      BY <2>1 DEF SavingSince
    <2>3. ~saved
      BY DEF Init
    <2> QED BY <2>1, <2>2, <2>3 DEF FileFollows
  <1>4. BaseFromFile
    <2>1. base = disk + RoundSkip
      BY ConstantsAssumption DEF Init
    <2> QED BY <2>1 DEF BaseFromFile
  <1>5. FileCovers
    BY DEF Init, FileCovers
  <1>6. StartsCounted
    <2>1. \A r \in RoundNumbers : starts[r] = 0
      BY DEF Init
    <2> QED BY <2>1 DEF StartsCounted
  <1> QED BY <1>1, <1>2, <1>3, <1>4, <1>5, <1>6 DEF UniqueInv

\* A crash of the process, alone or because a save failed.
LEMMA CrashUnique ==
  ASSUME UniqueInv, Crash
  PROVE  (SavesTimely /\ FileFollows /\ BaseFromFile /\ FileCovers /\ StartsCounted)'
  <1> USE DEF UniqueInv
  <1>1. ~up' /\ ~looping' /\ saves' = {}
    BY DEF Crash
  <1>2. round' = round /\ disk' = disk /\ starts' = starts /\ up
        /\ (allSaved' => allSaved /\ (saved \/ round = base))
    BY DEF Crash
  <1>3. ASSUME allSaved' PROVE round <= disk + RoundSkip
    <2>1. CASE saved
      BY <1>2, <1>3, <2>1, FileLag DEF TypeOK
    <2>2. CASE ~saved
      <3>1. round = disk + RoundSkip
        BY <1>2, <1>3, <2>2 DEF BaseFromFile
      <3>2. round \in Nat
        BY DEF TypeOK, CounterType
      <3> QED BY <3>1, <3>2
    <2> QED BY <2>1, <2>2
  <1>4. FileCovers'
    BY <1>1, <1>2, <1>3 DEF FileCovers
  <1>5. StartsCounted'
    BY <1>2 DEF StartsCounted
  <1> QED BY <1>1, <1>4, <1>5 DEF SavesTimely, FileFollows, BaseFromFile

\* A restart continues above every round that was started.
LEMMA RunUnique ==
  ASSUME UniqueInv, Run
  PROVE  (SavesTimely /\ FileFollows /\ BaseFromFile /\ FileCovers /\ StartsCounted)'
  <1> USE DEF UniqueInv
  <1>1. saves' = {} /\ ~saved' /\ up' /\ allSaved' = allSaved
    BY DEF Run, FileCovers
  <1>2. round' = disk' + RoundSkip /\ base' = disk' + RoundSkip /\ disk' = disk /\ starts' = starts
    BY DEF Run
  <1>3. round' \in Nat /\ (allSaved => round <= round')
    BY <1>2, ConstantsAssumption DEF Run, FileCovers, TypeOK, CounterType
  <1>4. FileFollows'
    <2>1. SavingSince(round)'
      <3>1. \A n \in Nat : (n + 1)..n = {}
        OBVIOUS
      <3>2. (round' + 1)..round' = {}
        BY <1>3, <3>1, Zenon
      <3> QED BY <3>2, Zenon DEF SavingSince
    <2>2. round' <= round'
      BY <1>3
    <2> QED BY <1>1, <1>3, <2>1, <2>2 DEF FileFollows
  <1>5. StartsCounted'
    <2> SUFFICES ASSUME allSaved, NEW r \in RoundNumbers
                 PROVE  starts[r] <= 1 /\ (starts[r] # 0 => r <= round')
      BY <1>1, <1>2 DEF StartsCounted
    <2>1. starts[r] <= 1 /\ (starts[r] # 0 => r <= round)
      BY DEF StartsCounted
    <2>2. r \in Nat /\ round \in Nat
      BY DEF RoundNumbers, TypeOK, CounterType
    <2> QED BY <1>3, <2>1, <2>2
  <1> QED BY <1>1, <1>2, <1>4, <1>5 DEF SavesTimely, BaseFromFile, FileCovers

LEMMA StartUnique ==
  ASSUME UniqueInv, StartRound
  PROVE  (SavesTimely /\ FileFollows /\ BaseFromFile /\ FileCovers /\ StartsCounted)'
  <1> USE ConstantsAssumption DEF UniqueInv
  <1> DEFINE r == round + 1
  <1>1. CounterType /\ round \in Nat /\ r \in RoundNumbers
    BY DEF TypeOK, CounterType, StartRound, RoundNumbers
  <1>2. up /\ up' = up /\ allSaved' = allSaved /\ saved' = saved /\ base' = base
    BY DEF StartRound, FileCovers
  <1>3. round' = r /\ disk' = disk /\ saves \subseteq saves'
        /\ \A s \in saves' : s \in saves \/ s = Save(r, 0)
    BY DEF StartRound
  <1>4. PersistDue(r) => Save(r, 0) \in saves'
    BY DEF StartRound
  <1>5. SavesTimely'
    <2> SUFFICES ASSUME NEW s \in saves'
                 PROVE  s.at <= r /\ r <= s.at + PersistDelay /\ (s.value # 0 => s.at <= s.value)
      BY <1>3 DEF SavesTimely
    <2>1. CASE s \in saves
      BY <1>1, <2>1 DEF SavesTimely, StartRound, CounterType, RoundNumbers
    <2>2. CASE s = Save(r, 0)
      BY <1>1, <2>2 DEF Save
    <2> QED BY <1>3, <2>1, <2>2
  <1>6. FileFollows'
    <2> SUFFICES ASSUME allSaved
                 PROVE  \E t \in Nat : t <= r /\ SavingSince(t)' /\ (saved => t <= disk + PersistDelay)
      BY <1>2, <1>3 DEF FileFollows
    <2>1. PICK t \in Nat : t <= round /\ SavingSince(t) /\ (saved => t <= disk + PersistDelay)
      BY <1>2 DEF FileFollows
    <2>2. SavingSince(t)'
      <3> SUFFICES ASSUME NEW m \in (t + 1)..r, PersistDue(m)
                   PROVE  \E s \in saves' : s.at = m
        BY <1>3 DEF SavingSince, PersistDue
      <3>1. CASE m \in (t + 1)..round
        BY <1>3, <2>1, <3>1 DEF SavingSince
      <3>2. CASE m = r
        BY <1>4, <3>2 DEF Save
      <3> QED BY <1>1, <3>1, <3>2
    <2>3. t <= r
      BY <1>1, <2>1
    <2> QED BY <2>1, <2>2, <2>3
  <1>7. StartsCounted'
    <2> SUFFICES ASSUME allSaved, NEW q \in RoundNumbers
                 PROVE  starts'[q] <= 1 /\ (starts'[q] # 0 => q <= r)
      BY <1>2, <1>3 DEF StartsCounted
    <2>1. starts[q] \in Nat /\ starts[q] <= 1 /\ (starts[q] # 0 => q <= round)
      BY DEF StartsCounted, TypeOK, CounterType
    <2>2. starts'[q] = IF q = r THEN starts[q] + 1 ELSE starts[q]
      BY <1>1 DEF StartRound, CounterType
    <2>3. q \in Nat
      BY DEF RoundNumbers
    <2> QED BY <1>1, <2>1, <2>2, <2>3
  <1> QED BY <1>2, <1>3, <1>5, <1>6, <1>7 DEF BaseFromFile, FileCovers

LEMMA ReadUnique ==
  ASSUME UniqueInv, NEW s \in saves, PersistRead(s)
  PROVE  (SavesTimely /\ FileFollows /\ BaseFromFile /\ FileCovers /\ StartsCounted)'
  <1> USE DEF UniqueInv
  <1>1. UNCHANGED <<disk, up, looping, round, starts, base, saved, allSaved>>
    BY DEF PersistRead, processVars, historyVars
  <1>2. saves' = (saves \ {s}) \cup {Save(s.at, round)} /\ up
    BY DEF PersistRead, FileCovers
  <1>3. SavesTimely'
    BY <1>1, <1>2 DEF SavesTimely, Save
  <1>4. ASSUME NEW t \in Nat, SavingSince(t) PROVE SavingSince(t)'
    <2> SUFFICES ASSUME NEW m \in (t + 1)..round, PersistDue(m)
                 PROVE  \E x \in saves' : x.at = m
      BY <1>1 DEF SavingSince, PersistDue
    <2>1. PICK x \in saves : x.at = m
      BY <1>4 DEF SavingSince
    <2>2. CASE x = s
      <3>1. Save(s.at, round) \in saves' /\ Save(s.at, round).at = s.at
        BY <1>2 DEF Save
      <3> QED BY <2>1, <2>2, <3>1
    <2>3. CASE x # s
      BY <1>2, <2>1, <2>3
    <2> QED BY <2>2, <2>3
  <1>5. FileFollows'
    BY <1>1, <1>4 DEF FileFollows
  <1> QED BY <1>1, <1>2, <1>3, <1>5 DEF BaseFromFile, FileCovers, StartsCounted

\* A save that is over puts the file at most PersistDelay behind a round from
\* which on saves are running, also when it overwrites a later one.
LEMMA WriteUnique ==
  ASSUME UniqueInv, NEW s \in saves, PersistWrite(s)
  PROVE  (SavesTimely /\ FileFollows /\ BaseFromFile /\ FileCovers /\ StartsCounted)'
  <1> USE DEF UniqueInv
  <1>1. UNCHANGED <<up, looping, round, starts, base, allSaved>>
    BY DEF PersistWrite, processVars
  <1>2. saves' = saves \ {s} /\ disk' = s.value /\ saved' /\ up
    BY DEF PersistWrite, FileCovers
  <1>3. s.at \in Nat /\ s.value \in Nat /\ s.at <= s.value /\ s.at <= round
        /\ round <= s.at + PersistDelay /\ round \in Nat
    BY DEF TypeOK, CounterType, SavesTimely, PersistWrite, RoundNumbers
  <1>4. FileFollows'
    <2> SUFFICES ASSUME allSaved
                 PROVE  \E t \in Nat : t <= round /\ SavingSince(t)' /\ t <= s.value + PersistDelay
      BY <1>1, <1>2 DEF FileFollows
    <2>1. PICK t \in Nat : t <= round /\ SavingSince(t)
      BY <1>2 DEF FileFollows
    <2>2. CASE s.at <= t
      <3>1. SavingSince(t)'
        BY <1>1, <1>2, <1>3, <2>1, <2>2 DEF SavingSince, PersistDue
      <3>2. t <= s.value + PersistDelay
        BY <1>3, <2>1, ConstantsAssumption
      <3> QED BY <2>1, <3>1, <3>2
    <2>3. CASE t < s.at
      <3>1. SavingSince(s.at)'
        <4> SUFFICES ASSUME NEW m \in (s.at + 1)..round, PersistDue(m)
                     PROVE  \E x \in saves' : x.at = m
          BY <1>1 DEF SavingSince, PersistDue
        <4>1. m \in (t + 1)..round /\ m # s.at
          BY <1>3, <2>3
        <4> QED BY <1>2, <2>1, <4>1 DEF SavingSince
      <3>2. s.at <= s.value + PersistDelay
        BY <1>3, ConstantsAssumption
      <3> QED BY <1>3, <3>1, <3>2
    <2> QED BY <1>3, <2>2, <2>3
  <1>5. SavesTimely'
    BY <1>1, <1>2 DEF SavesTimely
  <1> QED BY <1>1, <1>2, <1>4, <1>5 DEF BaseFromFile, FileCovers, StartsCounted

LEMMA NextUnique == UniqueInv /\ [Next]_vars => UniqueInv'
  <1> SUFFICES ASSUME UniqueInv, [Next]_vars PROVE UniqueInv'
    OBVIOUS
  <1> USE DEF processVars, roundVars, historyVars
  <1> DEFINE Rest == SavesTimely /\ FileFollows /\ BaseFromFile /\ FileCovers /\ StartsCounted
  <1>1. TypeOK'
    BY NextTypeOK DEF UniqueInv
  <1> SUFFICES Rest'
    BY <1>1 DEF UniqueInv
  <1>2. CASE Crash
    BY <1>2, CrashUnique
  <1>3. CASE Run
    BY <1>3, RunUnique
  <1>4. CASE StartRound
    BY <1>4, StartUnique
  <1>5. ASSUME NEW s \in saves, PersistRead(s) PROVE Rest'
    BY <1>5, ReadUnique
  <1>6. ASSUME NEW s \in saves, PersistWrite(s) PROVE Rest'
    BY <1>6, WriteUnique
  <1>7. ASSUME NEW s \in saves, PersistFail(s) PROVE Rest'
    <2>1. CASE closed
      <3>1. UNCHANGED <<disk, up, looping, round, starts, base, saved>> /\ ~allSaved'
            /\ saves' \subseteq saves
        BY <1>7, <2>1 DEF PersistFail
      <3> QED BY <3>1 DEF UniqueInv, SavesTimely, FileFollows, BaseFromFile, FileCovers, StartsCounted
    <2> QED BY <1>2, <1>7, <2>1 DEF PersistFail
  <1>8. CASE UNCHANGED <<disk, up, round, saves, starts, base, saved, allSaved>> /\ (looping' => looping)
    BY <1>8 DEF UniqueInv, SavesTimely, FileFollows, SavingSince, PersistDue, BaseFromFile,
                FileCovers, StartsCounted
  <1>9. CASE UpdateConfig \/ Close \/ Shutdown
    BY <1>8, <1>9 DEF UpdateConfig, Close, Shutdown
  <1>10. ASSUME NEW r \in RoundNumbers, RunRound(r) PROVE Rest'
    BY <1>8, <1>10 DEF RunRound, CheckConfig, Announce, GiveUp, Deadline, MixOnions, MixFail, EndRound
  <1>11. ASSUME NEW c \in Conns, NEW r \in RoundNumbers, LookupRound(c, r) PROVE Rest'
    BY <1>8, <1>11 DEF LookupRound
  <1>12. ASSUME NEW b \in arriving, AddBundle(b) PROVE Rest'
    BY <1>8, <1>12 DEF AddBundle
  <1>13. CASE UNCHANGED vars
    BY <1>8, <1>13 DEF vars
  <1> HIDE DEF Rest
  <1> QED BY <1>2, <1>3, <1>4, <1>5, <1>6, <1>7, <1>9, <1>10, <1>11, <1>12, <1>13 DEF Next

\* Round numbers stay unique across crashes although the counter is saved only
\* every PersistEvery rounds, by goroutines that may overtake one another: the
\* skip of a restart covers an interval and two delays.
THEOREM UniqueAcrossRestarts == Spec => []UniqueWhenSaved
  <1>1. UniqueInv => UniqueWhenSaved
    BY DEF UniqueInv, StartsCounted, UniqueWhenSaved
  <1> QED BY <1>1, InitUnique, NextUnique, PTL DEF Spec
-----------------------------------------------------------------------------
(* What the loop of mixOnions computes. *)

\* Induction, for a set of numbers: the intervals that end in a number outside
\* of it are well-founded by strict inclusion, and a smallest one cannot be.
LEMMA AllNumbers ==
  ASSUME NEW S \in SUBSET Nat, 0 \in S, \A n \in S : n + 1 \in S
  PROVE  S = Nat
  <1> SUFFICES ASSUME Nat \ S # {} PROVE FALSE
    OBVIOUS
  <1> DEFINE T == {0..n : n \in Nat \ S}
             R == StrictSubsetOrdering(Nat)
  <1>1. T \subseteq FiniteSubsetsOf(Nat)
    <2> SUFFICES ASSUME NEW n \in Nat \ S PROVE (0..n) \in FiniteSubsetsOf(Nat)
      OBVIOUS
    <2>1. IsFiniteSet(0..n) BY FS_Interval
    <2> QED BY <2>1 DEF FiniteSubsetsOf
  <1>2. T # {} OBVIOUS
  <1>3. PICK t \in T : \A u \in T : ~(<<u, t>> \in R)
    BY <1>1, <1>2, FS_StrictSubsetOrderingWellFounded, WFMin
  <1>4. PICK x \in Nat \ S : t = 0..x OBVIOUS
  <1>5. x # 0 /\ x - 1 \in Nat OBVIOUS
  <1>6. x - 1 \notin S
    <2> SUFFICES ASSUME x - 1 \in S PROVE FALSE
      OBVIOUS
    <2>1. (x - 1) + 1 \in S OBVIOUS
    <2> QED BY <1>5, <2>1
  <1>7. (0..(x - 1)) \in T BY <1>5, <1>6
  <1>8. <<0..(x - 1), 0..x>> \in R
    <2>1. x \in 0..x /\ x \notin 0..(x - 1) BY <1>5
    <2>2. (0..(x - 1)) \subseteq (0..x) BY <1>5
    <2>3. (0..(x - 1)) # (0..x) BY <2>1
    <2>4. (0..(x - 1)) \in SUBSET Nat /\ (0..x) \in SUBSET Nat BY <1>5
    <2> QED BY <2>2, <2>3, <2>4 DEF StrictSubsetOrdering
  <1> QED BY <1>3, <1>4, <1>7, <1>8

\* Bundles whose onions are taken from the set O.
BundlesOf(O) == [sender : Conns, round : RoundNumbers, onions : Seq(O)]

LEMMA BundleOnions ==
  ASSUME NEW O, NEW bundles \in Seq(BundlesOf(O))
  PROVE  Len(bundles) \in Nat /\ \A i \in 1..Len(bundles) : bundles[i].onions \in Seq(O)
  <1>1. Len(bundles) \in Nat /\ \A i \in 1..Len(bundles) : bundles[i] \in BundlesOf(O)
    OBVIOUS
  <1> QED BY <1>1 DEF BundlesOf

\* What the first n steps of the loop leave in the batch.
Steps(bundles, n, f) ==
    f[0] = <<>> /\ \A i \in 1..n : f[i] = f[i - 1] \o bundles[i].onions

\* The loop can be run to its end.
LEMMA StepsExist ==
  ASSUME NEW O, NEW bundles \in Seq(BundlesOf(O))
  PROVE  \E f \in [0..Len(bundles) -> Seq(O)] : Steps(bundles, Len(bundles), f)
  <1> DEFINE L == Len(bundles)
             S == {n \in Nat : n <= L => \E f \in [0..n -> Seq(O)] : Steps(bundles, n, f)}
  <1>0. L \in Nat /\ \A i \in 1..L : bundles[i].onions \in Seq(O)
    BY BundleOnions
  <1> HIDE DEF L
  <1>1. 0 \in S
    <2> DEFINE f == [i \in 0..0 |-> <<>>]
    <2>1. f \in [0..0 -> Seq(O)] /\ Steps(bundles, 0, f)
      BY DEF Steps
    <2> QED BY <2>1
  <1>2. ASSUME NEW n \in S PROVE n + 1 \in S
    <2> SUFFICES ASSUME n + 1 <= L
                 PROVE  \E f \in [0..(n + 1) -> Seq(O)] : Steps(bundles, n + 1, f)
      OBVIOUS
    <2>1. PICK f \in [0..n -> Seq(O)] : Steps(bundles, n, f)
      <3>1. n <= L BY <1>0
      <3> QED BY <3>1
    <2>2. bundles[n + 1].onions \in Seq(O)
      BY <1>0
    <2> DEFINE e == f[n] \o bundles[n + 1].onions
               g == [i \in 0..(n + 1) |-> IF i <= n THEN f[i] ELSE e]
    <2>3. e \in Seq(O)
      <3>1. f[n] \in Seq(O) OBVIOUS
      <3> QED BY <2>2, <3>1
    <2> HIDE DEF e
    <2>4. g \in [0..(n + 1) -> Seq(O)]
      BY <2>3
    <2>5. ASSUME NEW i \in 1..(n + 1) PROVE g[i] = g[i - 1] \o bundles[i].onions
      <3>1. CASE i <= n
        <4>1. i \in 1..n /\ i - 1 \in 0..n BY <3>1
        <4>2. f[i] = f[i - 1] \o bundles[i].onions
          BY <2>1, <4>1 DEF Steps
        <4>3. g[i] = f[i] /\ g[i - 1] = f[i - 1] BY <4>1
        <4> QED BY <4>2, <4>3
      <3>2. CASE i = n + 1
        <4>1. g[i] = e /\ g[i - 1] = f[n] BY <3>2
        <4> QED BY <3>2, <4>1 DEF e
      <3>3. i <= n \/ i = n + 1 OBVIOUS
      <3> QED BY <3>1, <3>2, <3>3
    <2>6. g[0] = <<>>
      BY <2>1 DEF Steps
    <2>7. Steps(bundles, n + 1, g)
      BY <2>5, <2>6 DEF Steps
    <2> QED BY <2>4, <2>7
  <1>3. S = Nat
    <2> HIDE DEF S
    <2>1. S \in SUBSET Nat BY DEF S
    <2> QED BY <1>1, <1>2, <2>1, AllNumbers
  <1>4. L \in S BY <1>0, <1>3
  <1> QED BY <1>0, <1>4 DEF L

\* Joined is what the loop computes.
LEMMA JoinedSteps ==
  ASSUME NEW O, NEW bundles \in Seq(BundlesOf(O))
  PROVE  /\ Joined(bundles) \in [0..Len(bundles) -> Seq(O)]
         /\ Steps(bundles, Len(bundles), Joined(bundles))
  <1> DEFINE L == Len(bundles)
             Is(f) == f = [i \in 0..L |-> IF i = 0 THEN <<>> ELSE f[i - 1] \o bundles[i].onions]
  <1>0. L \in Nat /\ \A i \in 1..L : bundles[i].onions \in Seq(O)
    BY BundleOnions
  <1>1. PICK f \in [0..L -> Seq(O)] : Steps(bundles, L, f)
    BY StepsExist
  <1>2. Is(f)
    BY <1>1 DEF Steps
  <1>3. Joined(bundles) = CHOOSE g : Is(g)
    BY DEF Joined
  <1>4. Is(Joined(bundles))
    BY <1>2, <1>3
  <1> DEFINE J == Joined(bundles)
  <1> HIDE DEF J, L
  <1>5. J[0] = <<>> /\ \A i \in 1..L : J[i] = J[i - 1] \o bundles[i].onions
    <2>1. J = [i \in 0..L |-> IF i = 0 THEN <<>> ELSE J[i - 1] \o bundles[i].onions]
      BY <1>4 DEF J
    <2>2. \A i \in 0..L : J[i] = IF i = 0 THEN <<>> ELSE J[i - 1] \o bundles[i].onions
      BY <2>1
    <2>3. 0 \in 0..L /\ \A i \in 1..L : i \in 0..L /\ i # 0 BY <1>0
    <2> QED BY <2>2, <2>3
  <1>6. \A i \in 0..L : J[i] \in Seq(O)
    <2> DEFINE S == {n \in Nat : n <= L => J[n] \in Seq(O)}
    <2>1. 0 \in S
      <3>1. <<>> \in Seq(O) OBVIOUS
      <3> QED BY <1>5, <3>1
    <2>2. ASSUME NEW n \in S PROVE n + 1 \in S
      <3> SUFFICES ASSUME n + 1 <= L PROVE J[n + 1] \in Seq(O)
        OBVIOUS
      <3>0. n \in Nat /\ n + 1 \in 1..L /\ (n + 1) - 1 = n BY <1>0
      <3>1. J[n] \in Seq(O) BY <1>0, <3>0
      <3>2. bundles[n + 1].onions \in Seq(O) BY <1>0, <3>0
      <3>3. J[n + 1] = J[n] \o bundles[n + 1].onions BY <1>5, <3>0
      <3> QED BY <3>1, <3>2, <3>3
    <2>3. S = Nat
      <3> HIDE DEF S
      <3>1. S \in SUBSET Nat BY DEF S
      <3> QED BY <2>1, <2>2, <3>1, AllNumbers
    <2>4. \A n \in Nat : n <= L => J[n] \in Seq(O) BY <2>3
    <2>5. \A i \in 0..L : i \in Nat /\ i <= L BY <1>0
    <2> QED BY <2>4, <2>5
  <1>7. J \in [0..L -> Seq(O)]
    <2>1. J = [i \in 0..L |-> IF i = 0 THEN <<>> ELSE J[i - 1] \o bundles[i].onions]
      BY <1>4 DEF J
    <2>2. DOMAIN J = 0..L /\ J = [i \in 0..L |-> J[i]] BY <2>1
    <2> QED BY <1>6, <2>2
  <1> QED BY <1>5, <1>7 DEF J, L, Steps

\* What a step of the loop has put into the batch stays where it is.
LEMMA JoinedKeeps ==
  ASSUME NEW O, NEW bundles \in Seq(BundlesOf(O)), NEW i \in 0..Len(bundles)
  PROVE  LET J == Joined(bundles)
             B == J[Len(bundles)]
         IN  Len(J[i]) <= Len(B) /\ \A k \in 1..Len(J[i]) : B[k] = J[i][k]
  <1> DEFINE L == Len(bundles)
             J == Joined(bundles)
             Keeps(n) == Len(J[i]) <= Len(J[n]) /\ \A k \in 1..Len(J[i]) : J[n][k] = J[i][k]
             S == {m \in Nat : i + m <= L => Keeps(i + m)}
  <1>0. J \in [0..L -> Seq(O)] /\ \A n \in 1..L : J[n] = J[n - 1] \o bundles[n].onions
    BY JoinedSteps DEF Steps
  <1>a. L \in Nat /\ \A n \in 1..L : bundles[n].onions \in Seq(O)
    BY BundleOnions
  <1> HIDE DEF J, L
  <1>b. i \in 0..L BY DEF L
  <1>1. 0 \in S
    BY <1>0, <1>a, <1>b
  <1>2. ASSUME NEW m \in S PROVE m + 1 \in S
    <2> SUFFICES ASSUME i + (m + 1) <= L PROVE Keeps(i + (m + 1))
      OBVIOUS
    <2> DEFINE n == i + m
    <2>1. n \in 0..L /\ n + 1 \in 1..L /\ i + (m + 1) = n + 1 BY <1>a, <1>b
    <2>2. Keeps(n) BY <1>a, <1>b
    <2>3. J[n] \in Seq(O) /\ J[i] \in Seq(O) /\ bundles[n + 1].onions \in Seq(O)
      BY <1>0, <1>a, <1>b, <2>1
    <2>4. J[n + 1] = J[n] \o bundles[n + 1].onions
      <3>1. (n + 1) - 1 = n OBVIOUS
      <3> QED BY <1>0, <2>1, <3>1
    <2> HIDE DEF n
    <2>5. ASSUME NEW x \in Seq(O), NEW y \in Seq(O), NEW z \in Seq(O),
                 Len(x) <= Len(y), \A k \in 1..Len(x) : y[k] = x[k]
          PROVE  Len(x) <= Len(y \o z) /\ \A k \in 1..Len(x) : (y \o z)[k] = x[k]
      BY <2>5
    <2>6. Len(J[i]) <= Len(J[n]) /\ \A k \in 1..Len(J[i]) : J[n][k] = J[i][k]
      BY <2>2
    <2>7. /\ Len(J[i]) <= Len(J[n] \o bundles[n + 1].onions)
          /\ \A k \in 1..Len(J[i]) : (J[n] \o bundles[n + 1].onions)[k] = J[i][k]
      BY <2>3, <2>5, <2>6
    <2>8. Keeps(n + 1)
      BY <2>4, <2>7
    <2> QED BY <2>1, <2>8
  <1>3. S = Nat
    <2> HIDE DEF S
    <2>1. S \in SUBSET Nat BY DEF S
    <2> QED BY <1>1, <1>2, <2>1, AllNumbers
  <1>4. L - i \in Nat /\ i + (L - i) = L /\ L <= L
    <2> HIDE DEF S, Keeps
    <2> QED BY <1>a, <1>b
  <1>5. Keeps(L)
    <2>1. L - i \in S
      <3> HIDE DEF S
      <3> QED BY <1>3, <1>4
    <2>2. i + (L - i) <= L => Keeps(i + (L - i))
      <3> HIDE DEF Keeps
      <3> QED BY <2>1
    <2> HIDE DEF Keeps
    <2> QED BY <1>4, <2>2
  <1> QED BY <1>5 DEF J, L

\* An onion has a sender, a round and a place in its message.
Onion == Conns \X RoundNumbers \X Nat

LEMMA BundleFields ==
  /\ Bundles \subseteq BundlesOf(Onion)
  /\ \A b \in Bundles : b.sender \in Conns /\ b.onions \in Seq(Onion)
  <1>1. ASSUME NEW c \in Conns, NEW r \in RoundNumbers PROVE Bundle(c, r) \in BundlesOf(Onion)
    <2>1. NumOutgoing[c] \in Nat BY ConstantsAssumption
    <2>2. [i \in 1..NumOutgoing[c] |-> <<c, r, i>>] \in Seq(Onion)
      BY <2>1 DEF Onion
    <2> QED BY <2>2 DEF Bundle, BundlesOf
  <1>2. Bundles \subseteq BundlesOf(Onion) BY <1>1 DEF Bundles
  <1> QED BY <1>2 DEF BundlesOf

\* The range of bundle i in the replies holds the replies to its onions.
LEMMA RangeAnswers ==
  ASSUME TypeOK, NEW r \in RoundNumbers, NEW i \in DOMAIN onions[r]
  PROVE  LET b == onions[r][i].onions
         IN  ReplyTo(r, i).onions = [k \in DOMAIN b |-> <<"reply", b[k]>>]
  <1> DEFINE bundles == onions[r]
             L == Len(bundles)
             J == Joined(bundles)
             b == bundles[i].onions
             B == Batch(r)
             start == Len(J[i - 1])
             M == MixReplies(r)
  <1>1. bundles \in Seq(BundlesOf(Onion)) /\ b \in Seq(Onion)
    BY BundleFields DEF TypeOK, RoundType
  <1>2. i \in 1..L /\ L \in Nat
    BY <1>1
  <1>3. J \in [0..L -> Seq(Onion)] /\ J[i] = J[i - 1] \o b
    BY <1>1, <1>2, JoinedSteps DEF Steps
  <1>4. Len(J[i]) <= Len(B) /\ \A k \in 1..Len(J[i]) : B[k] = J[i][k]
    <2>1. i \in 0..L BY <1>2
    <2>2. \A O : bundles \in Seq(BundlesOf(O)) =>
            Len(J[i]) <= Len(J[L]) /\ \A k \in 1..Len(J[i]) : J[L][k] = J[i][k]
      BY <2>1, JoinedKeeps
    <2> QED BY <1>1, <2>2 DEF Batch
  <1>5. B \in Seq(Onion)
    <2>1. L \in 0..L /\ B = J[L]
      BY <1>2 DEF Batch
    <2> HIDE DEF B, J, L
    <2> QED BY <1>3, <2>1
  <1> DEFINE p == J[i - 1]
             q == J[i]
  <1>6. p \in Seq(Onion) /\ q \in Seq(Onion)
    <2>1. i \in 0..L /\ i - 1 \in 0..L BY <1>2
    <2>2. J \in [0..L -> Seq(Onion)] BY <1>3
    <2> HIDE DEF J, L
    <2> QED BY <2>1, <2>2
  <1>7. M = [k \in 1..Len(B) |-> <<"reply", B[k]>>]
    BY <1>5 DEF MixReplies
  <1>8. ReplyTo(r, i).onions = SubSeq(M, start + 1, start + Len(b))
    BY DEF ReplyTo, SenderRange
  <1>9. q = p \o b BY <1>3
  <1>10. Len(q) <= Len(B) /\ \A k \in 1..Len(q) : B[k] = q[k] BY <1>4
  <1> HIDE DEF b, B, M, J, p, q
  <1>11. Len(q) = Len(p) + Len(b) /\ \A k \in 1..Len(b) : q[Len(p) + k] = b[k]
    BY <1>1, <1>6, <1>9
  <1>12. ASSUME NEW k \in 1..Len(b)
         PROVE  Len(p) + k \in 1..Len(B) /\ B[Len(p) + k] = b[k]
    BY <1>1, <1>5, <1>6, <1>10, <1>11
  <1>13. M \in Seq({"reply"} \X Onion)
    BY <1>5, <1>7
  <1>14. Len(M) = Len(B) BY <1>5, <1>7
  <1>15. Len(p) + Len(b) <= Len(M) BY <1>10, <1>11, <1>14
  <1> DEFINE s == SubSeq(M, Len(p) + 1, Len(p) + Len(b))
  <1>16. s = [k \in 1..Len(b) |-> M[Len(p) + k]]
    BY <1>1, <1>6, <1>13, <1>15
  <1>17. s = [k \in 1..Len(b) |-> <<"reply", b[k]>>]
    BY <1>7, <1>12, <1>16
  <1>18. DOMAIN b = 1..Len(b) BY <1>1
  <1>19. ReplyTo(r, i).onions = s BY <1>8 DEF p
  <1>20. ReplyTo(r, i).onions = [k \in DOMAIN b |-> <<"reply", b[k]>>] BY <1>17, <1>18, <1>19
  <1> QED BY <1>20 DEF b
-----------------------------------------------------------------------------
(* Replies. *)

\* The onions of a round that was mixed are those it was mixed with: it is
\* past its deadline, and its number does not come back while the process runs.
AnsweredOver ==
    \A r \in answered : r <= round /\ ~open[r] /\ phase[r] \in {"ending", "none"}

MixingClosed == \A r \in RoundNumbers : phase[r] = "mixing" => ~open[r]

\* Replies are to rounds that were mixed, and none are left after a crash.
RepliesAnswered ==
    /\ DOMAIN replies = Conns
    /\ \A c \in Conns : \A m \in replies[c] : m.round \in answered
    /\ ~up => answered = {}

MatchInv ==
    /\ TokenInv
    /\ AnsweredOver /\ MixingClosed /\ RepliesAnswered /\ RepliesMatch

\* What client c got in round r, and what it should get.
Got(r, c)  == {m.onions : m \in {x \in replies[c] : x.round = r}}
Owed(r, c) ==
    {[k \in DOMAIN b.onions |-> <<"reply", b.onions[k]>>] :
       b \in {onions[r][i] : i \in {j \in DOMAIN onions[r] : onions[r][j].sender = c}}}

LEMMA MatchByRound == RepliesMatch <=> \A r \in answered, c \in Conns : Got(r, c) = Owed(r, c)
  BY DEF RepliesMatch, Got, Owed

\* A step that leaves the mixed rounds, their onions and all replies alone.
LEMMA MatchFrame ==
  ASSUME MatchInv, UNCHANGED <<replies, answered>>,
         \A r \in answered : onions'[r] = onions[r] /\ open'[r] = open[r]
                             /\ phase'[r] \in {"ending", "none"},
         round' >= round, round' \in Nat,
         MixingClosed', ~up' => ~up
  PROVE  AnsweredOver' /\ MixingClosed' /\ RepliesAnswered' /\ RepliesMatch'
  <1>1. AnsweredOver'
    BY DEF MatchInv, TokenInv, AnsweredOver, TypeOK, CounterType, RoundType, RoundNumbers
  <1>2. RepliesAnswered'
    BY DEF MatchInv, RepliesAnswered
  <1>3. \A r \in answered, c \in Conns : Got(r, c)' = Got(r, c) /\ Owed(r, c)' = Owed(r, c)
    BY DEF Got, Owed
  <1>4. \A r \in answered, c \in Conns : Got(r, c) = Owed(r, c)
    BY MatchByRound DEF MatchInv
  <1>5. RepliesMatch'
    <2>1. \A r \in answered', c \in Conns : Got(r, c)' = Owed(r, c)'
      BY <1>3, <1>4
    <2> QED BY <2>1 DEF RepliesMatch, Got, Owed
  <1> QED BY <1>1, <1>2, <1>5

LEMMA InitMatch == Init => MatchInv
  <1> SUFFICES ASSUME Init PROVE MatchInv
    OBVIOUS
  <1>1. TokenInv
    BY InitToken
  <1>2. answered = {} /\ replies = [c \in Conns |-> {}] /\ up
    BY DEF Init
  <1>3. MixingClosed
    BY DEF Init, MixingClosed
  <1> QED BY <1>1, <1>2, <1>3 DEF MatchInv, AnsweredOver, RepliesAnswered, RepliesMatch

LEMMA CrashMatch ==
  ASSUME Crash
  PROVE  AnsweredOver' /\ MixingClosed' /\ RepliesAnswered' /\ RepliesMatch'
  <1>1. answered' = {} /\ replies' = [c \in Conns |-> {}]
        /\ \A r \in RoundNumbers : phase'[r] = "none"
    BY DEF Crash
  <1> QED BY <1>1 DEF AnsweredOver, MixingClosed, RepliesAnswered, RepliesMatch

\* mixOnions: every bundle of the round gets the replies to its onions, and no
\* other round is concerned.
LEMMA MixOnionsMatch ==
  ASSUME MatchInv, NEW r \in RoundNumbers, MixOnions(r)
  PROVE  AnsweredOver' /\ MixingClosed' /\ RepliesAnswered' /\ RepliesMatch'
  <1>0. /\ phase \in [RoundNumbers -> Phases] /\ answered \subseteq RoundNumbers
        /\ phase[r] = "mixing" /\ r <= round /\ ~open[r] /\ up /\ TypeOK
    BY DEF MatchInv, TokenInv, MixOnions, MixingClosed, ActiveNumbered, NoneWhenDown, Active, TypeOK, RoundType
  <1>1. r \notin answered
    BY <1>0 DEF MatchInv, AnsweredOver
  <1>2. UNCHANGED <<round, open, onions, up>> /\ phase' = [phase EXCEPT ![r] = "ending"]
    BY DEF MixOnions, processVars
  <1> DEFINE Senders(c) == {j \in DOMAIN onions[r] : onions[r][j].sender = c}
             New(c) == {ReplyTo(r, i) : i \in Senders(c)}
  <1>3. /\ DOMAIN replies' = Conns /\ \A c \in Conns : replies'[c] = replies[c] \cup New(c)
        /\ answered' = IF onions[r] = <<>> THEN answered ELSE answered \cup {r}
    BY DEF MixOnions
  <1>4. \A c \in Conns : \A m \in New(c) : m.round = r
    BY DEF ReplyTo
  <1>5. onions[r] = <<>> => \A c \in Conns : New(c) = {}
    OBVIOUS
  <1>6. AnsweredOver'
    BY <1>0, <1>2, <1>3 DEF AnsweredOver, MatchInv
  <1>7. MixingClosed'
    BY <1>0, <1>2 DEF MixingClosed, MatchInv
  <1>8. RepliesAnswered'
    <2>1. ASSUME NEW c \in Conns, NEW m \in replies'[c] PROVE m.round \in answered'
      <3>1. CASE m \in replies[c]
        BY <1>3, <3>1 DEF MatchInv, RepliesAnswered
      <3>2. CASE m \in New(c)
        <4>1. onions[r] # <<>> BY <1>5, <3>2
        <4>2. m.round = r BY <1>4, <3>2
        <4> QED BY <1>3, <4>1, <4>2
      <3> QED BY <1>3, <2>1, <3>1, <3>2
    <2>2. up' BY <1>0, <1>2
    <2> QED BY <1>3, <2>1, <2>2 DEF RepliesAnswered
  <1>9. ASSUME NEW q \in answered', NEW c \in Conns PROVE Got(q, c)' = Owed(q, c)'
    <2>1. Owed(q, c)' = Owed(q, c)
      BY <1>2 DEF Owed
    <2>2. CASE q # r
      <3>1. q \in answered BY <1>3, <1>9, <2>2
      <3>2. {x \in replies'[c] : x.round = q} = {x \in replies[c] : x.round = q}
        BY <1>3, <1>4, <2>2
      <3>3. Got(q, c)' = Got(q, c)
        BY <3>2 DEF Got
      <3>4. Got(q, c) = Owed(q, c)
        BY <3>1, MatchByRound DEF MatchInv
      <3> QED BY <2>1, <3>3, <3>4
    <2>3. CASE q = r
      <3>1. {x \in replies'[c] : x.round = r} = New(c)
        <4>1. \A x \in replies[c] : x.round # r
          BY <1>1 DEF MatchInv, RepliesAnswered
        <4> QED BY <1>3, <1>4, <4>1
      <3>2. Got(q, c)' = {m.onions : m \in New(c)}
        BY <2>3, <3>1 DEF Got
      <3>3. {m.onions : m \in New(c)} = {ReplyTo(r, i).onions : i \in Senders(c)}
        OBVIOUS
      <3> DEFINE Due(i) == [k \in DOMAIN onions[r][i].onions |-> <<"reply", onions[r][i].onions[k]>>]
      <3>4. \A i \in Senders(c) : ReplyTo(r, i).onions = Due(i)
        BY <1>0, RangeAnswers
      <3>5. Owed(q, c) = {Due(i) : i \in Senders(c)}
        BY <2>3 DEF Owed
      <3> HIDE DEF Due
      <3>6. {ReplyTo(r, i).onions : i \in Senders(c)} = Owed(q, c)
        BY <3>4, <3>5
      <3> QED BY <2>1, <3>2, <3>3, <3>6
    <2> QED BY <2>2, <2>3
  <1>10. RepliesMatch'
    BY <1>9 DEF RepliesMatch, Got, Owed
  <1> QED BY <1>6, <1>7, <1>8, <1>10

LEMMA NextMatch == MatchInv /\ [Next]_vars => MatchInv'
  <1> SUFFICES ASSUME MatchInv, [Next]_vars PROVE MatchInv'
    OBVIOUS
  <1> USE DEF processVars, roundVars, historyVars
  <1> DEFINE Kept == AnsweredOver' /\ MixingClosed' /\ RepliesAnswered' /\ RepliesMatch'
  <1>0. /\ TypeOK /\ CounterType /\ RoundType /\ NoneWhenDown /\ ActiveNumbered
        /\ AnsweredOver /\ MixingClosed /\ RepliesAnswered
    BY DEF MatchInv, TokenInv, TypeOK
  <1>1. TokenInv' BY NextToken DEF MatchInv
  <1> SUFFICES Kept
    BY <1>1 DEF MatchInv
  <1>2. TypeOK' /\ CounterType' /\ RoundType' BY <1>1 DEF TokenInv, TypeOK
  <1>3. ASSUME UNCHANGED <<replies, answered, round, up>>, MixingClosed',
               \A q \in answered : onions'[q] = onions[q] /\ open'[q] = open[q]
                                   /\ phase'[q] \in {"ending", "none"}
        PROVE  Kept
    <2>1. round' >= round /\ round' \in Nat BY <1>0, <1>3 DEF CounterType
    <2> QED BY <1>3, <2>1, MatchFrame
  <1>4. CASE UNCHANGED <<replies, answered, round, up, open, phase, onions>>
    <2>1. MixingClosed' BY <1>0, <1>4 DEF MixingClosed
    <2> QED BY <1>0, <1>3, <1>4, <2>1 DEF AnsweredOver
  <1>5. CASE Crash
    BY <1>5, CrashMatch
  <1>6. CASE Run
    <2>1. answered = {} /\ answered' = {} /\ replies' = replies /\ up'
      BY <1>0, <1>6 DEF Run, RepliesAnswered
    <2>2. \A c \in Conns : replies[c] = {}
      BY <1>0, <2>1 DEF RepliesAnswered
    <2>3. MixingClosed'
      BY <1>0, <1>6 DEF Run, MixingClosed
    <2> QED BY <1>0, <2>1, <2>2, <2>3 DEF AnsweredOver, RepliesAnswered, RepliesMatch
  <1>7. CASE UpdateConfig \/ Close \/ Shutdown
    BY <1>4, <1>7 DEF UpdateConfig, Close, Shutdown
  <1>8. CASE StartRound
    <2> DEFINE r == round + 1
    <2>1. r \in RoundNumbers /\ round \in Nat
      BY <1>0, <1>8 DEF StartRound, RoundNumbers, CounterType
    <2>2. phase' = [phase EXCEPT ![r] = "begun"] /\ round' = r
          /\ UNCHANGED <<replies, answered, up, open, onions>>
      BY <1>8 DEF StartRound
    <2>3. r \notin answered
      BY <1>0, <2>1 DEF AnsweredOver
    <2>4. MixingClosed'
      BY <1>0, <2>1, <2>2 DEF MixingClosed, RoundType
    <2>5. \A q \in answered : phase'[q] = phase[q]
      BY <1>0, <2>1, <2>2, <2>3 DEF RoundType
    <2>6. round' >= round /\ round' \in Nat BY <2>1, <2>2
    <2> HIDE DEF r
    <2> QED BY <1>0, <2>2, <2>4, <2>5, <2>6, MatchFrame DEF AnsweredOver
  <1>9. ASSUME NEW s \in saves, PersistRead(s) \/ PersistWrite(s) PROVE Kept
    BY <1>4, <1>9 DEF PersistRead, PersistWrite
  <1>10. ASSUME NEW s \in saves, PersistFail(s) PROVE Kept
    BY <1>4, <1>5, <1>10 DEF PersistFail
  <1>11. ASSUME NEW r \in RoundNumbers, RunRound(r) PROVE Kept
    <2>1. CASE MixOnions(r)
      BY <2>1, MixOnionsMatch
    <2>2. CASE EndRound(r)
      <3>1. UNCHANGED <<replies, answered, round, up, open, onions>> /\ phase' = [phase EXCEPT ![r] = "none"]
        BY <2>2 DEF EndRound
      <3>2. MixingClosed'
        BY <1>0, <3>1 DEF MixingClosed, RoundType
      <3>3. \A q \in answered : phase'[q] \in {"ending", "none"}
        BY <1>0, <3>1 DEF RoundType, AnsweredOver
      <3> QED BY <1>3, <3>1, <3>2, <3>3
    <2>3. CASE CheckConfig(r) \/ Announce(r) \/ GiveUp(r) \/ Deadline(r) \/ MixFail(r)
      <3>1. r \notin answered
        BY <1>0, <2>3 DEF AnsweredOver, CheckConfig, Announce, GiveUp, Deadline, MixFail
      <3>2. UNCHANGED <<replies, answered, round, up>>
        BY <2>3 DEF CheckConfig, Announce, GiveUp, Deadline, MixFail
      <3>3. \A q \in RoundNumbers \ {r} :
              onions'[q] = onions[q] /\ open'[q] = open[q] /\ phase'[q] = phase[q]
        BY <1>0, <2>3 DEF RoundType, CheckConfig, Announce, GiveUp, Deadline, MixFail
      <3>4. phase'[r] = "mixing" => ~open'[r]
        BY <1>0, <2>3 DEF RoundType, CheckConfig, Announce, GiveUp, Deadline, MixFail
      <3>5. MixingClosed'
        BY <1>0, <3>3, <3>4 DEF MixingClosed
      <3>6. \A q \in answered : q \in RoundNumbers \ {r}
        BY <1>0, <3>1 DEF RoundType
      <3> QED BY <1>0, <1>3, <3>2, <3>3, <3>5, <3>6 DEF AnsweredOver
    <2> QED BY <1>11, <2>1, <2>2, <2>3 DEF RunRound
  <1>12. ASSUME NEW c \in Conns, NEW r \in RoundNumbers, LookupRound(c, r) PROVE Kept
    BY <1>4, <1>12 DEF LookupRound
  <1>13. ASSUME NEW b \in arriving, AddBundle(b) PROVE Kept
    <2>1. UNCHANGED <<replies, answered, round, up, open, phase>>
      BY <1>13 DEF AddBundle
    <2>2. \A q \in RoundNumbers : ~open[q] => onions'[q] = onions[q]
      BY <1>0, <1>13 DEF AddBundle, RoundType
    <2>3. MixingClosed' BY <1>0, <2>1 DEF MixingClosed
    <2>4. \A q \in answered : q \in RoundNumbers BY <1>0 DEF RoundType
    <2> QED BY <1>0, <1>3, <2>1, <2>2, <2>3, <2>4 DEF AnsweredOver
  <1>14. CASE UNCHANGED vars
    BY <1>4, <1>14 DEF vars
  <1> HIDE DEF Kept
  <1> QED
    BY <1>5, <1>6, <1>7, <1>8, <1>9, <1>10, <1>11, <1>12, <1>13, <1>14 DEF Next

\* Whatever bundles come in, in whatever order, for any number of clients and
\* onions in a message, and however often the coordinator crashes: when a round
\* has been mixed, every client has got, for each of its bundles, the replies to
\* the onions in it in their order, and nothing else (incomingOnion, runRound and
\* the ranges of mixOnions).
THEOREM RepliesDoMatch == Spec => []RepliesMatch
  <1>1. MatchInv => RepliesMatch
    BY DEF MatchInv
  <1> QED BY <1>1, InitMatch, NextMatch, PTL DEF Spec
=============================================================================

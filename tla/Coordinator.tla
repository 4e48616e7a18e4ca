---------------------------- MODULE Coordinator ----------------------------
(***************************************************************************)
(* The coordinator (coordinator/server.go, coordinator/persist.go): a loop  *)
(* that numbers and starts rounds while it holds a flight token, one        *)
(* goroutine per round that sets the round up with the mixers, announces    *)
(* it, closes it at its deadline, mixes what came in and hands the replies  *)
(* back, a handler for incoming onions, a goroutine every few rounds that   *)
(* saves the round counter, and crashes that leave only the saved counter.  *)
(*                                                                          *)
(* Time is abstracted: a deadline may fall at any moment.  What the mix     *)
(* chain returns for an onion is named after that onion (MixChain models    *)
(* the chain itself).                                                       *)
(***************************************************************************)
EXTENDS Integers, Sequences, FiniteSets

CONSTANTS
    Conns,          \* websocket connections of clients
    NumInFlight,    \* rounds that may run at the same time
    RoundSkip,      \* added to the saved counter when the loop starts
    PersistEvery,   \* the counter is saved in rounds that are multiples of this
    PersistDelay,   \* timing assumption: rounds started before a save is over
    NumOutgoing,    \* NumOutgoing[c]: onions in each message of client c
    MaxRound,       \* bound: highest round number
    MaxCrashes,     \* bound: crashes of the coordinator
    MayClose        \* bound: whether Close is called (only tests do)

ASSUME ConstantsAssumption ==
    /\ NumInFlight \in Nat \ {0} /\ PersistEvery \in Nat \ {0}
    /\ RoundSkip \in Nat /\ PersistDelay \in Nat
    /\ NumOutgoing \in [Conns -> Nat \ {0}] /\ MaxRound \in Nat /\ MaxCrashes \in Nat
    /\ MayClose \in BOOLEAN

\* The skip covers the rounds that one save, and an older one that overtakes
\* it, can be behind (100 rounds with a save every 20 in the code).
ASSUME SkipAssumption == PersistEvery + 2 * PersistDelay <= RoundSkip

VARIABLES
    \* The file at PersistPath: the saved round counter.
    disk,
    \* The process.
    up,             \* the process runs
    looping,        \* the loop has not returned
    closed,         \* Close was called (and the shutdown channel is closed)
    fresh,          \* the config loop's last fetch succeeded
    round,          \* the round counter
    flights,        \* tokens in the flights channel
    saves,          \* running Persist goroutines
    phase,          \* phase[r]: how far the goroutine of round r is
    rounds,         \* the map of registered rounds, by number
    open,           \* open[r]: roundState.open
    onions,         \* onions[r]: bundles accepted, in order of arrival
    arriving,       \* onion messages whose handler has found the round
    \* What this process has sent: replies[c] is the set of reply messages to c
    \* (connections do not survive the process).
    replies,
    \* History.
    starts,         \* starts[r]: how often a round numbered r was started
    base,           \* the counter when this process's loop began
    saved,          \* this process has completed a save
    allSaved,       \* every process saved before it crashed, and no save was lost
    answered,       \* rounds with onions that were mixed without error
    crashes

processVars == <<up, looping, closed, fresh, round, flights>>
roundVars   == <<phase, rounds, open, onions, arriving, replies>>
historyVars == <<starts, base, saved, allSaved, answered, crashes>>

vars == <<disk, processVars, saves, roundVars, historyVars>>

RoundNumbers == 1..MaxRound

Phases == {"none", "begun", "stale", "settings", "announced", "mixing", "ending"}

\* The goroutine of round r is running.
Active(r) == phase[r] # "none"

\* An onion is named by its sender, its round and its place in the message.
Bundle(c, r) ==
    [sender |-> c, round |-> r, onions |-> [i \in 1..NumOutgoing[c] |-> <<c, r, i>>]]

\* A Persist goroutine: the round that started it, and the value it has read
\* from the counter (0: not read yet).
Save(at, value) == [at |-> at, value |-> value]

-----------------------------------------------------------------------------
(* Start of the process: LoadPersistedState, Run, and the loop's first steps. *)

Init ==
    /\ disk     = 0
    /\ up       = TRUE
    /\ looping  = TRUE
    /\ closed   = FALSE
    /\ fresh    = FALSE
    /\ round    = RoundSkip
    /\ flights  = NumInFlight
    /\ saves    = {}
    /\ phase    = [r \in RoundNumbers |-> "none"]
    /\ rounds   = {}
    /\ open     = [r \in RoundNumbers |-> FALSE]
    /\ onions   = [r \in RoundNumbers |-> <<>>]
    /\ arriving = {}
    /\ replies  = [c \in Conns |-> {}]
    /\ starts   = [r \in RoundNumbers |-> 0]
    /\ base     = RoundSkip
    /\ saved    = FALSE
    /\ allSaved = TRUE
    /\ answered = {}
    /\ crashes  = 0

\* Everything in memory is lost.
Crash ==
    /\ up /\ crashes < MaxCrashes
    /\ up'       = FALSE
    /\ looping'  = FALSE
    /\ saves'    = {}
    /\ phase'    = [r \in RoundNumbers |-> "none"]
    /\ rounds'   = {}
    /\ open'     = [r \in RoundNumbers |-> FALSE]
    /\ onions'   = [r \in RoundNumbers |-> <<>>]
    /\ arriving' = {}
    /\ replies'  = [c \in Conns |-> {}]
    /\ crashes'  = crashes + 1
    /\ allSaved' = (allSaved /\ (saved \/ round = base))
    /\ answered' = {}
    /\ UNCHANGED <<disk, closed, fresh, round, flights, starts, base, saved>>

\* Mutant: the loop starts right after the saved counter.
Run_NoSkip ==
    /\ ~up
    /\ up'       = TRUE
    /\ looping'  = TRUE
    /\ closed'   = FALSE
    /\ fresh'    = FALSE
    /\ round'    = disk
    /\ flights'  = NumInFlight
    /\ base'     = disk
    /\ saved'    = FALSE
    /\ UNCHANGED <<disk, saves, roundVars, starts, allSaved, answered, crashes>>

Run ==
    /\ ~up
    /\ up'       = TRUE
    /\ looping'  = TRUE
    /\ closed'   = FALSE
    /\ fresh'    = FALSE
    /\ round'    = disk + RoundSkip
    /\ flights'  = NumInFlight
    /\ base'     = disk + RoundSkip
    /\ saved'    = FALSE
    /\ UNCHANGED <<disk, saves, roundVars, starts, allSaved, answered, crashes>>

\* updateConfigLoop: a fetch succeeds or fails.
UpdateConfig ==
    /\ up
    /\ fresh' = ~fresh
    /\ UNCHANGED <<disk, up, looping, closed, round, flights, saves, roundVars, historyVars>>

Close ==
    /\ MayClose /\ up /\ ~closed
    /\ closed' = TRUE
    /\ UNCHANGED <<disk, up, looping, fresh, round, flights, saves, roundVars, historyVars>>

-----------------------------------------------------------------------------
(* The loop.  Its select takes a flight token or notices the shutdown, in   *)
(* either order when both are ready.                                        *)

\* Mutant: the loop looks at shutdown only when it has no token.
Shutdown_WhenBusy ==
    /\ looping /\ closed /\ flights = 0
    /\ looping' = FALSE
    /\ UNCHANGED <<disk, up, closed, fresh, round, flights, saves, roundVars, historyVars>>

Shutdown ==
    /\ looping /\ closed
    /\ looping' = FALSE
    /\ UNCHANGED <<disk, up, closed, fresh, round, flights, saves, roundVars, historyVars>>

PersistDue(r) == r % PersistEvery = 0

StartRound ==
    LET r == round + 1 IN
    /\ looping /\ flights > 0
    /\ r <= MaxRound
    /\ \A s \in saves : r <= s.at + PersistDelay
    /\ flights' = flights - 1
    /\ round'   = r
    /\ saves'   = IF PersistDue(r) THEN saves \cup {Save(r, 0)} ELSE saves
    /\ phase'   = [phase EXCEPT ![r] = "begun"]
    /\ starts'  = [starts EXCEPT ![r] = @ + 1]
    /\ UNCHANGED <<disk, up, looping, closed, fresh, rounds, open, onions, arriving,
                   replies, base, saved, allSaved, answered, crashes>>

-----------------------------------------------------------------------------
(* Persist: read the counter, then replace the file by renaming a new one.  *)

PersistRead(s) ==
    /\ s \in saves /\ s.value = 0
    /\ saves' = (saves \ {s}) \cup {Save(s.at, round)}
    /\ UNCHANGED <<disk, processVars, roundVars, historyVars>>

PersistWrite(s) ==
    /\ s \in saves /\ s.value # 0
    /\ saves' = saves \ {s}
    /\ disk'  = s.value
    /\ saved' = TRUE
    /\ UNCHANGED <<processVars, roundVars, starts, base, allSaved, answered, crashes>>

\* A failed write leaves the file alone.  The goroutine panics, which ends the
\* process, unless the server was closed.
PersistFail(s) ==
    /\ s \in saves /\ s.value # 0
    /\ \/ ~closed /\ Crash
       \/ /\ closed /\ saves' = saves \ {s}
          /\ allSaved' = FALSE
          /\ UNCHANGED <<disk, processVars, roundVars, starts, base, saved,
                         answered, crashes>>

-----------------------------------------------------------------------------
(* runRound. *)

\* Read the config; give up after a pause if it is stale.
CheckConfig(r) ==
    /\ phase[r] = "begun"
    /\ phase' = [phase EXCEPT ![r] = IF fresh THEN "settings" ELSE "stale"]
    /\ UNCHANGED <<disk, processVars, saves, rounds, open, onions, arriving, replies,
                   historyVars>>

\* mixnetClient.NewRound succeeded on every mixer: register and broadcast.
Announce(r) ==
    /\ phase[r] = "settings"
    /\ phase'  = [phase EXCEPT ![r] = "announced"]
    /\ rounds' = rounds \cup {r}
    /\ open'   = [open EXCEPT ![r] = TRUE]
    /\ onions' = [onions EXCEPT ![r] = <<>>]
    /\ UNCHANGED <<disk, processVars, saves, arriving, replies, historyVars>>

\* Mutant: a round with a stale config waits for ever.
GiveUp_NotStale(r) ==
    /\ \/ phase[r] = "settings"
       \/ phase[r] = "announced" /\ closed
    /\ phase' = [phase EXCEPT ![r] = "ending"]
    /\ UNCHANGED <<disk, processVars, saves, rounds, open, onions, arriving, replies,
                   historyVars>>

\* Mutant: the early ways out put the token back themselves.
GiveUp_ReturnToken(r) ==
    /\ \/ phase[r] = "stale"
       \/ phase[r] = "settings"
       \/ phase[r] = "announced" /\ closed
    /\ phase'   = [phase EXCEPT ![r] = "ending"]
    /\ flights' = flights + 1
    /\ UNCHANGED <<disk, up, looping, closed, fresh, round, saves, rounds, open, onions,
                   arriving, replies, historyVars>>

\* The ways a round ends early: stale config, NewRound failed on a mixer, or
\* shutdown during the wait for the deadline.
GiveUp(r) ==
    /\ \/ phase[r] = "stale"
       \/ phase[r] = "settings"
       \/ phase[r] = "announced" /\ closed
    /\ phase' = [phase EXCEPT ![r] = "ending"]
    /\ UNCHANGED <<disk, processVars, saves, rounds, open, onions, arriving, replies,
                   historyVars>>

\* The deadline: stop accepting onions and take what has come in.
Deadline(r) ==
    /\ phase[r] = "announced"
    /\ phase' = [phase EXCEPT ![r] = "mixing"]
    /\ open'  = [open EXCEPT ![r] = FALSE]
    /\ UNCHANGED <<disk, processVars, saves, rounds, onions, arriving, replies, historyVars>>

\* The batch as the loop of mixOnions builds it: Joined(bundles)[i] has the
\* onions of the first i bundles.
Joined(bundles) ==
    LET upTo[i \in 0..Len(bundles)] ==
          IF i = 0 THEN <<>> ELSE upTo[i - 1] \o bundles[i].onions
    IN  upTo

Batch(r) == Joined(onions[r])[Len(onions[r])]

\* Where the onions of bundle i start and end in the batch of a round.
SenderRange(r, i) ==
    LET start == Len(Joined(onions[r])[i - 1])
    IN  [start |-> start, end |-> start + Len(onions[r][i].onions)]

\* What RunRoundBidirectional returns: the chain's reply for each onion of the
\* batch (MixChain models how it comes about).
MixReplies(r) == [k \in DOMAIN Batch(r) |-> <<"reply", Batch(r)[k]>>]

\* What is sent back to the sender of bundle i.
ReplyTo(r, i) ==
    [round |-> r, bundle |-> i,
     onions |-> SubSeq(MixReplies(r), SenderRange(r, i).start + 1, SenderRange(r, i).end)]

\* mixOnions, when RunRoundBidirectional succeeds.
MixOnions(r) ==
    /\ phase[r] = "mixing"
    /\ phase'   = [phase EXCEPT ![r] = "ending"]
    /\ replies' = [c \in Conns |->
                     replies[c] \cup {ReplyTo(r, i) :
                        i \in {j \in DOMAIN onions[r] : onions[r][j].sender = c}}]
    /\ answered' = IF onions[r] = <<>> THEN answered ELSE answered \cup {r}
    /\ UNCHANGED <<disk, processVars, saves, rounds, open, onions, arriving, starts, base,
                   saved, allSaved, crashes>>

\* mixOnions, when it fails: clients only get an error.
MixFail(r) ==
    /\ phase[r] = "mixing"
    /\ phase' = [phase EXCEPT ![r] = "ending"]
    /\ UNCHANGED <<disk, processVars, saves, rounds, open, onions, arriving, replies,
                   historyVars>>

\* Mutant: no token goes back once the server is closed.
EndRound_KeepToken(r) ==
    /\ phase[r] = "ending"
    /\ phase'   = [phase EXCEPT ![r] = "none"]
    /\ rounds'  = rounds \ {r}
    /\ flights' = IF flights < NumInFlight /\ ~closed THEN flights + 1 ELSE flights
    /\ UNCHANGED <<disk, up, looping, closed, fresh, round, saves, open, onions, arriving,
                   replies, historyVars>>

\* The deferred delete, and the flight token goes back if there is room.
EndRound(r) ==
    /\ phase[r] = "ending"
    /\ phase'   = [phase EXCEPT ![r] = "none"]
    /\ rounds'  = rounds \ {r}
    /\ flights' = IF flights < NumInFlight THEN flights + 1 ELSE flights
    /\ UNCHANGED <<disk, up, looping, closed, fresh, round, saves, open, onions, arriving,
                   replies, historyVars>>

-----------------------------------------------------------------------------
(* incomingOnion: the round is looked up under the server's lock, the        *)
(* onions are added under the round's lock if it is still open.              *)

\* The client's runRound sends one message per round and connection.
HasSent(c, r) ==
    \/ \E i \in DOMAIN onions[r] : onions[r][i].sender = c
    \/ \E b \in arriving : b.sender = c /\ b.round = r

LookupRound(c, r) ==
    /\ r \in rounds
    /\ ~HasSent(c, r)
    /\ arriving' = arriving \cup {Bundle(c, r)}
    /\ UNCHANGED <<disk, processVars, saves, phase, rounds, open, onions, replies, historyVars>>

\* Mutant: the round's open flag is not looked at.
AddBundle_NotChecked(b) ==
    LET r == b.round IN
    /\ b \in arriving
    /\ arriving' = arriving \ {b}
    /\ onions'   = [onions EXCEPT ![r] = Append(@, b)]
    /\ UNCHANGED <<disk, processVars, saves, phase, rounds, open, replies, historyVars>>

AddBundle(b) ==
    LET r == b.round IN
    /\ b \in arriving
    /\ arriving' = arriving \ {b}
    /\ onions'   = IF open[r] THEN [onions EXCEPT ![r] = Append(@, b)] ELSE onions
    /\ UNCHANGED <<disk, processVars, saves, phase, rounds, open, replies, historyVars>>

-----------------------------------------------------------------------------
RunRound(r) ==
    CheckConfig(r) \/ Announce(r) \/ GiveUp(r) \/ Deadline(r) \/ MixOnions(r)
    \/ MixFail(r) \/ EndRound(r)

Next ==
    \/ Crash \/ Run \/ UpdateConfig \/ Close \/ Shutdown \/ StartRound
    \/ \E s \in saves : PersistRead(s) \/ PersistWrite(s) \/ PersistFail(s)
    \/ \E r \in RoundNumbers : RunRound(r)
    \/ \E c \in Conns, r \in RoundNumbers : LookupRound(c, r)
    \/ \E b \in arriving : AddBundle(b)

Spec == Init /\ [][Next]_vars

\* A select with a ready case does not wait for ever, timers fire, and the
\* mixers answer the coordinator's calls, which have no timeout of their own.
Fairness == WF_vars(Shutdown) /\ \A r \in RoundNumbers : WF_vars(RunRound(r))

FairSpec == Spec /\ Fairness

-----------------------------------------------------------------------------
(* Properties. *)

Bundles == {Bundle(c, r) : c \in Conns, r \in RoundNumbers}

CounterType ==
    /\ disk \in Nat /\ round \in Nat /\ base \in Nat
    /\ flights \in 0..NumInFlight
    /\ crashes \in 0..MaxCrashes
    /\ starts \in [RoundNumbers -> Nat]
    /\ saves \subseteq [at : RoundNumbers, value : Nat]

FlagType ==
    /\ up \in BOOLEAN /\ looping \in BOOLEAN /\ closed \in BOOLEAN /\ fresh \in BOOLEAN
    /\ saved \in BOOLEAN /\ allSaved \in BOOLEAN

RoundType ==
    /\ phase  \in [RoundNumbers -> Phases]
    /\ rounds \subseteq RoundNumbers
    /\ open   \in [RoundNumbers -> BOOLEAN]
    /\ onions \in [RoundNumbers -> Seq(Bundles)]
    /\ arriving \subseteq Bundles
    /\ answered \subseteq RoundNumbers

\* Every variable has its type.
TypeOK == CounterType /\ FlagType /\ RoundType

\* Every onion the coordinator took in before the deadline of a round is
\* answered when the round is mixed, its sender gets the replies to its own
\* onions in the order it sent them, and nobody gets anything else: the batch
\* mixOnions sees, and the ranges it cuts the replies by, match what
\* incomingOnion accepted.
RepliesMatch ==
    \A r \in answered, c \in Conns :
        {m.onions : m \in {x \in replies[c] : x.round = r}}
          = {[k \in DOMAIN b.onions |-> <<"reply", b.onions[k]>>] :
               b \in {onions[r][i] : i \in {j \in DOMAIN onions[r] : onions[r][j].sender = c}}}

\* The flights channel is a semaphore: tokens and running rounds add up to
\* its capacity, on every path a round can end, also after Close.
TokensConserved ==
    up => flights + Cardinality({r \in RoundNumbers : Active(r)}) = NumInFlight

\* Saving the counter every PersistEvery rounds and skipping RoundSkip ahead
\* on a restart keeps round numbers unique, even when a slow save overwrites
\* a later one, as long as no process crashes before its first save and no
\* save fails after Close.
UniqueWhenSaved == allSaved => \A r \in RoundNumbers : starts[r] <= 1

\* No round number is ever used twice.
RoundsUnique == \A r \in RoundNumbers : starts[r] <= 1

\* Every round ends: its token goes back and it leaves the map.
RoundsEnd == \A r \in RoundNumbers : Active(r) ~> ~Active(r)

\* Close ends the loop and every running round.
CloseCompletes == closed ~> ~looping /\ \A r \in RoundNumbers : ~Active(r)
=============================================================================

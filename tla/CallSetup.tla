----------------------------- MODULE CallSetup -----------------------------
(***************************************************************************)
(* How the two ends of a call agree on the round at which their key wheels  *)
(* start.  The dialing protocol gives both ends the same session key and    *)
(* carries a one-bit intent, but no round number.  Each end reads the       *)
(* latest round its own client has heard of (LatestRound in client.go) and  *)
(* rounds it to an epoch (roundSyncer in conversation.go); the intent is    *)
(* the parity of the caller's epoch, which tells a callee that is already   *)
(* in the next epoch to go back by one.                                     *)
(*                                                                          *)
(* A call that finds no free slot is held with the same wheel start, so     *)
(* slots make no difference here.                                           *)
(***************************************************************************)
EXTENDS Integers, Sequences, FiniteSets

CONSTANTS
    Users,              \* the clients
    RoundingIncrement,  \* rounds per epoch
    Word,               \* round numbers are taken modulo this (2^32)
    Lag,                \* rounds by which an up-to-date client may be behind
    FirstRound,         \* the service's round when the model begins
    MaxRound,           \* bound: rounds announced
    MaxCalls,           \* bound: calls placed
    MaxOutages          \* bound: disconnections and restarts of clients

ASSUME CallAssumption ==
    /\ RoundingIncrement \in Nat \ {0}
    /\ Word \in Nat /\ Lag \in Nat
    /\ FirstRound \in Nat /\ MaxRound \in Nat /\ MaxCalls \in Nat /\ MaxOutages \in Nat
    /\ FirstRound <= MaxRound /\ MaxRound < Word

VARIABLES
    latest,         \* the round the coordinator announced last
    \* Client.conn (nil or not) and Client.latestRound of each user.
    conn, latestRound,
    news,           \* news[u]: announcements on their way to u
    \* The dialing service (external).
    dialed,         \* the calls placed: who calls whom, with which intent
    ringing,        \* calls not yet delivered
    \* The wheel starts computed for a call by its caller and by its callee.
    placed, taken,
    outages

vars == <<latest, conn, latestRound, news, dialed, ringing, placed, taken, outages>>

RoundNumbers == 0..(Word - 1)

-----------------------------------------------------------------------------
(* roundSyncer. *)

epochStart(round) == (round \div RoundingIncrement) * RoundingIncrement

\* Mutant: the intent is the number of the epoch, not its parity.
epochIntent_NoParity(round) == round \div RoundingIncrement

epochIntent(round) == (round \div RoundingIncrement) % 2

outgoingCallConvoRound(round) == epochStart(round)

\* Mutant: the callee goes by its own epoch.
incomingCallConvoRound_OwnEpoch(round, intent) == epochStart(round)

\* An unsigned subtraction: it wraps in the first epoch.
incomingCallConvoRound(round, intent) ==
    IF epochIntent(round) = intent
      THEN epochStart(round)
      ELSE (epochStart(round) - RoundingIncrement) % Word

-----------------------------------------------------------------------------
Call  == [from : Users, to : Users, intent : {0, 1}]

\* A keywheelStart: its round, with the latest round it was computed from
\* and, as history, the service's round at that moment.
Wheel == [seen : Nat, at : Nat, start : Nat]

CallsPlaced == 1..Len(dialed)

Installed(wheels, c, wheel) == [x \in DOMAIN wheels \cup {c} |-> IF x = c THEN wheel ELSE wheels[x]]

Init ==
    /\ latest      = FirstRound
    /\ conn        = [u \in Users |-> FALSE]
    /\ latestRound = [u \in Users |-> 0]
    /\ news        = [u \in Users |-> {}]
    /\ dialed      = <<>>
    /\ ringing     = {}
    /\ placed      = <<>>
    /\ taken       = <<>>
    /\ outages     = 0

-----------------------------------------------------------------------------
(* Rounds reach the clients that are connected, in any order. *)

Announce ==
    /\ latest < MaxRound
    /\ latest' = latest + 1
    /\ news'   = [u \in Users |-> IF conn[u] THEN news[u] \cup {latest + 1} ELSE news[u]]
    /\ UNCHANGED <<conn, latestRound, dialed, ringing, placed, taken, outages>>

setLatestRound(u, round) ==
    /\ round \in news[u]
    /\ news'        = [news EXCEPT ![u] = @ \ {round}]
    /\ latestRound' = [latestRound EXCEPT ![u] = IF round > @ THEN round ELSE @]
    /\ UNCHANGED <<latest, conn, dialed, ringing, placed, taken, outages>>

ConnectConvo(u) ==
    /\ ~conn[u]
    /\ conn' = [conn EXCEPT ![u] = TRUE]
    /\ UNCHANGED <<latest, latestRound, news, dialed, ringing, placed, taken, outages>>

\* The connection ends.  The latest round is kept, and grows old.
Disconnect(u) ==
    /\ conn[u] /\ outages < MaxOutages
    /\ outages' = outages + 1
    /\ conn'    = [conn EXCEPT ![u] = FALSE]
    /\ news'    = [news EXCEPT ![u] = {}]
    /\ UNCHANGED <<latest, latestRound, dialed, ringing, placed, taken>>

\* A new process has heard of no round.
Restart(u) ==
    /\ outages < MaxOutages
    /\ outages'     = outages + 1
    /\ conn'        = [conn EXCEPT ![u] = FALSE]
    /\ news'        = [news EXCEPT ![u] = {}]
    /\ latestRound' = [latestRound EXCEPT ![u] = 0]
    /\ UNCHANGED <<latest, dialed, ringing, placed, taken>>

-----------------------------------------------------------------------------
(* The dialing client's callbacks. *)

\* A disconnected caller returns early: the call goes out all the same, with
\* the intent it was queued with, /call's friend.Call(0).
CallIntent(u) == IF conn[u] THEN epochIntent(latestRound[u]) ELSE 0

SendingCall(u, v) ==
    /\ Len(dialed) < MaxCalls
    /\ dialed'  = Append(dialed, [from |-> u, to |-> v, intent |-> CallIntent(u)])
    /\ ringing' = ringing \cup {Len(dialed) + 1}
    /\ placed'  = IF conn[u]
                    THEN Installed(placed, Len(dialed) + 1,
                                   [seen  |-> latestRound[u], at |-> latest,
                                    start |-> outgoingCallConvoRound(latestRound[u])])
                    ELSE placed
    /\ UNCHANGED <<latest, conn, latestRound, news, taken, outages>>

\* A disconnected callee drops the call.
ReceivedCall(u, c) ==
    /\ c \in ringing /\ dialed[c].to = u
    /\ ringing' = ringing \ {c}
    /\ taken'   = IF conn[u]
                    THEN Installed(taken, c,
                                   [seen  |-> latestRound[u], at |-> latest,
                                    start |-> incomingCallConvoRound(latestRound[u], dialed[c].intent)])
                    ELSE taken
    /\ UNCHANGED <<latest, conn, latestRound, news, dialed, placed, outages>>

-----------------------------------------------------------------------------
Next ==
    \/ Announce
    \/ \E u \in Users :
         \/ \E round \in news[u] : setLatestRound(u, round)
         \/ ConnectConvo(u)
         \/ Disconnect(u)
         \/ Restart(u)
         \/ \E v \in Users : SendingCall(u, v)
         \/ \E c \in ringing : ReceivedCall(u, c)

Spec == Init /\ [][Next]_vars

-----------------------------------------------------------------------------
\* The variables have their types.
TypeOK ==
    /\ latest \in FirstRound..MaxRound
    /\ conn \in [Users -> BOOLEAN]
    /\ latestRound \in [Users -> 0..latest]
    /\ news \in [Users -> SUBSET (0..latest)]
    /\ dialed \in Seq(Call)
    /\ ringing \subseteq CallsPlaced
    /\ DOMAIN placed \subseteq CallsPlaced /\ \A c \in DOMAIN placed : placed[c] \in Wheel
    /\ DOMAIN taken \subseteq CallsPlaced /\ \A c \in DOMAIN taken : taken[c] \in Wheel
    /\ outages \in Nat

\* The two ends computed a wheel start from fresh knowledge, and the call
\* was on its way for long enough for the callee to hear of the caller's
\* round, but for less than an epoch.
Timely(c) ==
    /\ placed[c].seen >= placed[c].at - Lag
    /\ taken[c].seen >= taken[c].at - Lag
    /\ taken[c].at - placed[c].at \in Lag..(RoundingIncrement - Lag)

\* Both ends of a timely call start their key wheels at the same round,
\* although an epoch may begin, announcements may overtake each other and
\* either client may lag, reconnect or restart in between (roundSyncer).
TimelyCallsAgree ==
    \A c \in DOMAIN placed \cap DOMAIN taken : Timely(c) => placed[c].start = taken[c].start

\* A wheel starts at a round that has already been announced, as the comment
\* on roundSyncer says, so that both ends can roll it up to the next round.
AgreedRoundIsPast ==
    /\ \A c \in DOMAIN placed : placed[c].start <= placed[c].at
    /\ \A c \in DOMAIN taken : taken[c].start <= taken[c].at

=============================================================================

---------------------------- MODULE RoundClient ----------------------------
(***************************************************************************)
(* The conversation client (client.go) under the terminal client's connect  *)
(* loop (connect.go), once ClientStart has started that: it dials the       *)
(* coordinator, hears of rounds, runs each in a goroutine that seals the    *)
(* round's messages and sends them on the connection that announced it, and *)
(* opens the replies with the keys it kept.  Connections drop, configs      *)
(* change, the process and the coordinator crash, and a coordinator that    *)
(* crashed may number rounds again from an earlier point (Coordinator shows *)
(* how).                                                                    *)
(*                                                                          *)
(* Time is abstracted: a round may be found to be too late at each of the   *)
(* places where the code looks.  The messages of one round are one bundle;  *)
(* its keys are either stored or not.  typesocket is external: messages of  *)
(* a connection may be handled in any order, and none is handled once Serve *)
(* has returned.                                                            *)
(***************************************************************************)
EXTENDS Integers, FiniteSets

CONSTANTS
    MaxRound,       \* bound: highest round number
    MaxConfig,      \* bound: configs published
    MaxFaults       \* bound: connections dropped, closed or not made, restarts of the
                    \* client and crashes of the coordinator

ASSUME BoundsAssumption ==
    /\ MaxRound \in Nat /\ MaxConfig \in Nat \ {0} /\ MaxFaults \in Nat

VARIABLES
    \* The config server and the coordinator.
    published,      \* the newest config
    coordConfig,    \* the config the coordinator uses for new rounds
    round,          \* the coordinator's round counter
    open,           \* open[r]: the config under which round r is open
    onions,         \* bundles the coordinator has accepted
    wire,           \* messages to the client
    \* The connect loop and the connections, numbered as they are made.
    loop,           \* where the loop is ("off": not started)
    fetched,        \* the config ConnectConvo fetched
    conns,          \* connections made so far
    serving,        \* connections whose Serve has not returned
    ending,         \* goroutines between their report on disconnect and conn = nil
    \* The Client.
    conn,           \* the current connection (0: nil)
    latestRound,
    config,         \* convoConfig (0: nil)
    disk,           \* the config in the client's file (0: no file)
    rounds,         \* the rounds map
    pendingRounds,  \* GuiClient.pendingRounds
    faults          \* history: faults so far

serviceVars == <<published, coordConfig, round, open, onions>>
linkVars    == <<loop, fetched, conns, serving, ending>>
roundVars   == <<rounds, pendingRounds>>

clientVars == <<serviceVars, wire, linkVars, conn, latestRound, config, disk, roundVars, faults>>

Rounds  == 1..MaxRound
Configs == 1..MaxConfig

NewRound(c, r, conf) == [type |-> "newround", conn |-> c, round |-> r, config |-> conf]
ReplyMsg(c, r, conf) == [type |-> "reply", conn |-> c, round |-> r, config |-> conf]
OnionMsg(c, r, conf) == [conn |-> c, round |-> r, config |-> conf]

\* A roundState with its runRound goroutine: "running" until the messages are
\* sealed, then "sealed", and "over" when the goroutine has returned.
RoundState == [config : Configs, conn : Nat, phase : {"running", "sealed", "over"},
               keys : BOOLEAN]

NoRounds == [r \in {} |-> 0]

Without(f, k) == [x \in DOMAIN f \ {k} |-> f[x]]
With(f, k, v) == [x \in DOMAIN f \cup {k} |-> IF x = k THEN v ELSE f[x]]

\* What is left on the wire when connections end.
Undelivered(cs) == {m \in wire : m.conn \notin cs}

\* A fault happens.
Fault == faults < MaxFaults /\ faults' = faults + 1

RoundInit ==
    /\ published = 1 /\ coordConfig = 1 /\ round = 0
    /\ open = NoRounds /\ onions = {} /\ wire = {}
    /\ loop = "off" /\ fetched = 1 /\ conns = 0 /\ serving = {} /\ ending = {}
    /\ conn = 0 /\ latestRound = 0 /\ config = 0 /\ disk = 0
    /\ rounds = NoRounds /\ pendingRounds = {}
    /\ faults = 0

-----------------------------------------------------------------------------
(* The config server and the coordinator. *)

Publish ==
    /\ published < MaxConfig
    /\ published' = published + 1
    /\ UNCHANGED <<coordConfig, round, open, onions, wire, linkVars, conn, latestRound,
                   config, disk, roundVars, faults>>

UpdateConfig ==
    /\ coordConfig # published
    /\ coordConfig' = published
    /\ UNCHANGED <<published, round, open, onions, wire, linkVars, conn, latestRound,
                   config, disk, roundVars, faults>>

Announce ==
    /\ round < MaxRound
    /\ round' = round + 1
    /\ open'  = With(open, round + 1, coordConfig)
    /\ wire'  = wire \cup {NewRound(c, round + 1, coordConfig) : c \in serving}
    /\ UNCHANGED <<published, coordConfig, onions, linkVars, conn, latestRound, config,
                   disk, roundVars, faults>>

\* The deadline: the round is mixed, and unless that fails the replies go to
\* the connections the onions came from.
MixOnions(r, ok) ==
    /\ r \in DOMAIN open
    /\ open'   = Without(open, r)
    /\ onions' = {o \in onions : o.round # r}
    /\ wire'   = IF ok THEN wire \cup {ReplyMsg(o.conn, r, o.config) :
                                         o \in {o \in onions : o.round = r /\ o.conn \in serving}}
                       ELSE wire
    /\ UNCHANGED <<published, coordConfig, round, linkVars, conn, latestRound, config,
                   disk, roundVars, faults>>

\* The coordinator dies and comes back with an earlier round counter.
CoordinatorCrash ==
    /\ Fault
    /\ round' \in 0..round
    /\ open' = NoRounds /\ onions' = {} /\ wire' = {}
    /\ serving' = {} /\ ending' = ending \cup serving
    /\ UNCHANGED <<published, coordConfig, loop, fetched, conns, conn, latestRound,
                   config, disk, roundVars>>

-----------------------------------------------------------------------------
(* ConnectConvo, called by connectLoop. *)

\* Mutant: the config fetched for the previous connection is used again.
CurrentConfig_Cached == fetched

CurrentConfig == published

FetchConfig ==
    /\ loop = "dial"
    /\ loop'    = "dialing"
    /\ fetched' = CurrentConfig
    /\ UNCHANGED <<serviceVars, wire, conns, serving, ending, conn, latestRound, config,
                   disk, roundVars, faults>>

Dial ==
    /\ loop = "dialing"
    /\ loop'    = "connected"
    /\ conns'   = conns + 1
    /\ serving' = serving \cup {conns + 1}
    /\ conn'    = conns + 1
    /\ config'  = fetched
    /\ UNCHANGED <<serviceVars, wire, fetched, ending, latestRound, disk, roundVars, faults>>

ConnectFails ==
    /\ loop \in {"dial", "dialing"} /\ Fault
    /\ loop'     = "sleep"
    /\ UNCHANGED <<serviceVars, wire, fetched, conns, serving, ending, conn, latestRound,
                   config, disk, roundVars>>

\* Mutant: Serve's error is reported but the connection goes on being served.
Hangup_StillServed(c) ==
    /\ serving' = serving
    /\ ending'  = ending \cup {c}
    /\ wire'    = wire

\* Serve returns and its goroutine reports on the disconnect channel.
Hangup(c) ==
    /\ serving' = serving \ {c}
    /\ ending'  = ending \cup {c}
    /\ wire'    = Undelivered({c})

Drop(c) ==
    /\ c \in serving /\ Fault
    /\ Hangup(c)
    /\ UNCHANGED <<serviceVars, loop, fetched, conns, conn, latestRound, config, disk,
                   roundVars>>

CloseConvo ==
    /\ conn # 0 /\ Fault
    /\ conn' = 0
    /\ Hangup(conn)
    /\ UNCHANGED <<serviceVars, loop, fetched, conns, latestRound, config, disk, roundVars>>

\* The end of the goroutine started by ConnectConvo.  It does not look
\* whether conn is still its own connection.
ClearConn(c) ==
    /\ c \in ending
    /\ ending' = ending \ {c}
    /\ conn'   = 0
    /\ UNCHANGED <<serviceVars, wire, loop, fetched, conns, serving, latestRound, config,
                   disk, roundVars, faults>>

Disconnected ==
    /\ loop = "connected" /\ conns \notin serving
    /\ loop' = "sleep"
    /\ UNCHANGED <<serviceVars, wire, fetched, conns, serving, ending, conn, latestRound,
                   config, disk, roundVars, faults>>

\* Mutant: the loop dials again at once.
Slept_NotAtAll == TRUE

\* connectRetry: ten seconds, in which a goroutine that only has to take a
\* lock and assign conn gets to do so.
Slept == ending = {}

Reconnect ==
    /\ loop = "sleep" /\ Slept
    /\ loop' = "dial"
    /\ UNCHANGED <<serviceVars, wire, fetched, conns, serving, ending, conn, latestRound,
                   config, disk, roundVars, faults>>

\* The process dies (also when it cannot save a config: newConvoRound
\* panics).  Only the file is left.
Die ==
    /\ loop' = "off" /\ serving' = {} /\ ending' = {} /\ conn' = 0
    /\ wire' = {}
    /\ latestRound' = 0 /\ config' = 0
    /\ rounds' = NoRounds /\ pendingRounds' = {}
    /\ UNCHANGED <<serviceVars, fetched, conns, disk>>

-----------------------------------------------------------------------------
(* newConvoRound. *)

setLatestRound(r) == latestRound' = IF r > latestRound THEN r ELSE latestRound

Announcement(m) ==
    /\ m \in wire /\ m.type = "newround"
    /\ wire' = wire \ {m}
    /\ setLatestRound(m.round)
    /\ UNCHANGED <<serviceVars, linkVars, conn, pendingRounds, faults>>

\* The client does not join: it is too late, it knows the round already, or
\* the announced config cannot be had.
IgnoreRound(m) ==
    /\ Announcement(m)
    /\ UNCHANGED <<rounds, config, disk>>

\* Mutant: the entries of earlier rounds are dropped, so that failed rounds
\* leave none behind.
Joined_ForgetOlder(m) ==
    [r \in {m.round} |->
        [config |-> m.config, conn |-> m.conn, phase |-> "running", keys |-> FALSE]]

Joined(m) ==
    With(rounds, m.round,
         [config |-> m.config, conn |-> m.conn, phase |-> "running", keys |-> FALSE])

\* Mutant: the cached config is used whatever the announcement says.
JoinRound_Cached(m) ==
    /\ Announcement(m)
    /\ m.round \notin DOMAIN rounds
    /\ rounds' = With(rounds, m.round, [config |-> config, conn |-> m.conn,
                                        phase |-> "running", keys |-> FALSE])
    /\ UNCHANGED <<config, disk>>

persistLocked == disk' = config'

\* The config is the one at hand, or a chain from it to the announced one is
\* fetched, which is possible only if that one is newer.
JoinRound(m) ==
    /\ Announcement(m)
    /\ m.round \notin DOMAIN rounds
    /\ rounds' = Joined(m)
    /\ \/ /\ m.config = config
          /\ UNCHANGED <<config, disk>>
       \/ /\ m.config > config
          /\ config' = m.config
          /\ persistLocked

-----------------------------------------------------------------------------
(* runRound, a goroutine per joined round.  It may outlive its connection. *)

roundFrame == UNCHANGED <<wire, linkVars, conn, latestRound, config, disk, faults>>

\* Bad signatures, or too late.
QuitRound(r) ==
    /\ r \in DOMAIN rounds /\ rounds[r].phase = "running"
    /\ rounds' = [rounds EXCEPT ![r].phase = "over"]
    /\ UNCHANGED <<serviceVars, pendingRounds>>
    /\ roundFrame

\* Outgoing, which also notes the active conversations, and the sealing.
SealOnions(r) ==
    /\ r \in DOMAIN rounds /\ rounds[r].phase = "running"
    /\ rounds' = [rounds EXCEPT ![r].phase = "sealed", ![r].keys = TRUE]
    /\ pendingRounds' = pendingRounds \cup {r}
    /\ UNCHANGED serviceVars
    /\ roundFrame

\* The bundle reaches the coordinator unless its connection is gone, the
\* round is closed, or the client abandons the round.
SendOnions(r, sent) ==
    /\ r \in DOMAIN rounds /\ rounds[r].phase = "sealed"
    /\ sent => rounds[r].conn \in serving /\ r \in DOMAIN open
    /\ rounds' = [rounds EXCEPT ![r].phase = "over"]
    /\ onions' = IF sent THEN onions \cup {OnionMsg(rounds[r].conn, r, rounds[r].config)}
                         ELSE onions
    /\ UNCHANGED <<published, coordConfig, round, open, pendingRounds>>
    /\ roundFrame

-----------------------------------------------------------------------------
\* The reply's round is known, its keys were kept, and the handler knows to
\* which conversations its parts belong.
Expected(r) == r \in DOMAIN rounds /\ rounds[r].keys /\ r \in pendingRounds

\* openReplyOnion with the handler's Replies; every error leaves the state.
openReplyOnion(m) ==
    /\ m \in wire /\ m.type = "reply"
    /\ wire' = wire \ {m}
    /\ IF Expected(m.round)
         THEN /\ rounds'        = Without(rounds, m.round)
              /\ pendingRounds' = pendingRounds \ {m.round}
         ELSE UNCHANGED roundVars
    /\ UNCHANGED <<serviceVars, linkVars, conn, latestRound, config, disk, faults>>

-----------------------------------------------------------------------------
RoundNext ==
    \/ Publish \/ UpdateConfig \/ Announce \/ CoordinatorCrash
    \/ \E r \in DOMAIN open, ok \in BOOLEAN : MixOnions(r, ok)
    \/ FetchConfig \/ Dial \/ ConnectFails \/ Disconnected \/ Reconnect
    \/ \E c \in serving : Drop(c)
    \/ \E c \in ending : ClearConn(c)
    \/ CloseConvo
    \/ \E m \in wire : IgnoreRound(m) \/ JoinRound(m) \/ openReplyOnion(m)
    \/ \E r \in DOMAIN rounds :
         \/ QuitRound(r) \/ SealOnions(r)
         \/ \E sent \in BOOLEAN : SendOnions(r, sent)

-----------------------------------------------------------------------------
\* The variables have their types; a connection is being served or its end
\* is being handled, never both.
TypeOK ==
    /\ published \in Configs /\ coordConfig \in Configs /\ fetched \in Configs
    /\ config \in Configs \cup {0} /\ disk \in Configs \cup {0}
    /\ round \in 0..MaxRound /\ latestRound \in 0..MaxRound
    /\ DOMAIN open \subseteq Rounds /\ \A r \in DOMAIN open : open[r] \in Configs
    /\ DOMAIN rounds \subseteq Rounds /\ \A r \in DOMAIN rounds : rounds[r] \in RoundState
    /\ pendingRounds \subseteq Rounds
    /\ loop \in {"off", "dial", "dialing", "connected", "sleep"}
    /\ conns \in Nat /\ conn \in 0..conns
    /\ serving \subseteq 1..conns /\ ending \subseteq (1..conns) \ serving

\* A reply that arrives finds its round, its onion keys and the list of
\* conversations it is for, whatever connections, processes and rounds came
\* and went since the onions were sent (client.go openReplyOnion, gui.go
\* Replies).
ReplyExpected == \A m \in wire : m.type = "reply" => Expected(m.round)

\* The coordinator mixes an onion under the config whose mixers' keys its
\* sender verified, although either side may have moved to a newer config
\* and the number of the round may have been used before.
OnionsMatchConfig ==
    \A o \in onions : o.round \in DOMAIN open => o.config = open[o.round]

\* While a connection is being served, it is the client's current one, so
\* that LatestRound works: the end of an earlier connection has not wiped it
\* (the unconditional conn = nil in ConnectConvo).
ConnCurrent == \A c \in serving : conn = c

\* A running client never goes back to an older config, neither on a new
\* connection nor because of an announcement; nor does its file.
ConfigForward ==
    [][(config' # 0 => config' >= config) /\ disk' >= disk]_clientVars

\* Once its connect loop has been started, a client that is not connected or
\* lost its connection is connected in the end, and LatestRound knows it.
RejoinsService == []<>(conn \in serving \/ loop = "off")

=============================================================================

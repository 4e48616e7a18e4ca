-------------------------- MODULE ClientStartProofs --------------------------
(***************************************************************************)
(* Proofs about ClientStart and the part of RoundClient it composes, for    *)
(* every number of rounds, configs, faults, PKG servers and RegisterAll     *)
(* goroutines.                                                              *)
(***************************************************************************)
EXTENDS ClientStart, TLAPS

-----------------------------------------------------------------------------
(* The parts of the inductive invariant. *)

\* The connect loop makes one connection at a time: while one is served, no
\* goroutine of an earlier one is left to wipe conn, and when the loop dials,
\* there is neither.
LinkInv ==
    /\ loop \in {"off", "dial", "dialing", "connected", "sleep"}
    /\ conns \in Nat /\ conn \in 0..conns
    /\ serving \subseteq 1..conns /\ ending \subseteq (1..conns) \ serving
    /\ serving # {} => loop = "connected" /\ ending = {} /\ conn = conns /\ serving = {conns}
    /\ conn # 0 => conn \in serving \cup ending
    /\ loop \in {"off", "dial", "dialing"} => ending = {}

\* Messages are in transit only on the connection that is being served.
MessageType ==
    /\ wire \subseteq [type : {"newround", "reply"}, conn : serving, round : Rounds, config : Configs]
    /\ onions \subseteq [conn : 1..conns, round : Rounds, config : Configs]

\* The client's rounds and the coordinator's.
RoundsType ==
    /\ DOMAIN rounds \subseteq Rounds
    /\ \A r \in DOMAIN rounds : rounds[r] \in RoundState /\ rounds[r].conn \in 1..conns
    /\ pendingRounds \subseteq Rounds
    /\ round \in 0..MaxRound /\ latestRound \in 0..MaxRound
    /\ DOMAIN open \subseteq 1..round /\ \A r \in DOMAIN open : open[r] \in Configs

\* No config is newer than the published one; the file is not ahead of the
\* client, nor the client ahead of the config it is about to connect with.
ConfigInv ==
    /\ published \in Configs /\ coordConfig \in 1..published /\ fetched \in 1..published
    /\ config \in 0..published /\ disk \in 0..published
    /\ \A m \in wire : m.type = "newround" => m.config <= published
    /\ loop = "dialing" => config <= fetched
    /\ loop # "off" => boot = "run"
    /\ IF boot = "run" THEN disk <= config ELSE config = 0

\* What the client knows of a round through the connection that is being
\* served agrees with the round of that number which the coordinator has open.
NumberInv ==
    /\ \A o \in onions : o.round <= round
    /\ \A m \in wire : m.type = "newround" =>
          m.round <= round /\ (m.round \in DOMAIN open => m.config = open[m.round])
    /\ \A r \in DOMAIN rounds : rounds[r].conn \in serving =>
          r <= round /\ (r \in DOMAIN open => rounds[r].config = open[r])
    /\ OnionsMatchConfig

\* The client waits for a reply of round r sealed under conf.
Awaited(r, conf) == Expected(r) /\ rounds[r].phase = "over" /\ rounds[r].config = conf

\* A round is answered at most once: its onions are with the coordinator or
\* its reply is on the wire.
ReplyInv ==
    /\ \A r \in DOMAIN rounds : rounds[r].phase = "sealed" => Expected(r)
    /\ \A m \in wire : m.type = "reply" => Awaited(m.round, m.config)
    /\ \A o \in onions : o.conn \in serving =>
          /\ Awaited(o.round, o.config)
          /\ \A m \in wire : m.type = "reply" => m.round # o.round

\* The second file is written after the first, and both before anything is
\* registered; a goroutine that has met no error knows the servers it is done
\* with to have the identity.
IdentityInv ==
    /\ pkg \in [PKGs -> Nat] /\ identities \in Nat /\ clientFile \in Nat
    /\ keywheelFile # 0 => clientFile = keywheelFile
    /\ boot = "keywheel" => keywheelFile = 0 /\ identity = clientFile /\ identity # 0
    /\ boot \in {"vuvuzela", "run"} =>
          identity # 0 /\ identity = clientFile /\ identity = keywheelFile
    /\ BagToSet(registering) \subseteq [todo : SUBSET PKGs, allOK : BOOLEAN]
    /\ BagToSet(registering) # {} => boot = "run"
    /\ \A g \in BagToSet(registering) : g.allOK => \A p \in PKGs \ g.todo : pkg[p] = identity
    /\ RegisteredIdentityKept /\ ConnectsRegistered

ClientInv ==
    LinkInv /\ MessageType /\ RoundsType /\ ConfigInv /\ NumberInv /\ ReplyInv /\ IdentityInv

-----------------------------------------------------------------------------
(* Connections. *)

LEMMA LinkStep ==
  ASSUME ClientInv, [Next]_vars
  PROVE  LinkInv'
  <1> USE DEF linkVars, clientVars, startVars, fileVars, pkgFrame, bootFrame, roundFrame
  <1>0. LinkInv
    BY DEF ClientInv
  <1>1. CASE UNCHANGED <<loop, conns, serving, ending, conn>>
    BY <1>0, <1>1 DEF LinkInv
  <1>2. CASE Exit \/ LoadAlpenhornState \/ generateAlpenhornClient \/ PersistKeywheel
    BY <1>1, <1>2 DEF Exit, LoadAlpenhornState, generateAlpenhornClient, PersistKeywheel
  <1>3. CASE LoadVuvuzelaState \/ generateVuvuzelaClient
    BY <1>1, <1>3 DEF LoadVuvuzelaState, generateVuvuzelaClient, RunGui
  <1>4. CASE Connect
    BY <1>0, <1>4 DEF LinkInv, Connect, EnsureConnected
  <1>5. CASE Restart
    <2>1. loop' = "off" /\ serving' = {} /\ ending' = {} /\ conn' = 0 /\ conns' = conns
      BY <1>5 DEF Restart, Die
    <2> QED BY <1>0, <2>1 DEF LinkInv
  <1>6. ASSUME NEW silent \in SUBSET PKGs, RegisterAll(silent) PROVE LinkInv'
    BY <1>1, <1>6 DEF RegisterAll
  <1>7. ASSUME NEW g \in BagToSet(registering), NEW p \in g.todo, NEW ok \in BOOLEAN, Register(g, p, ok)
        PROVE  LinkInv'
    <2>1. UNCHANGED <<conns, serving, ending, conn>> /\ (loop' = loop \/ EnsureConnected)
      BY <1>7 DEF Register
    <2> QED BY <1>0, <2>1 DEF LinkInv, EnsureConnected
  <1>8. CASE Publish \/ UpdateConfig \/ Announce
    BY <1>1, <1>8 DEF Publish, UpdateConfig, Announce
  <1>9. ASSUME NEW r \in DOMAIN open, NEW ok \in BOOLEAN, MixOnions(r, ok) PROVE LinkInv'
    BY <1>1, <1>9 DEF MixOnions
  <1>10. CASE CoordinatorCrash
    BY <1>0, <1>10 DEF LinkInv, CoordinatorCrash
  <1>11. CASE FetchConfig \/ ConnectFails \/ Disconnected \/ Reconnect
    BY <1>0, <1>11 DEF LinkInv, FetchConfig, ConnectFails, Disconnected, Reconnect, Slept
  <1>12. CASE Dial
    BY <1>0, <1>12 DEF LinkInv, Dial
  <1>13. ASSUME NEW c \in serving, Drop(c) PROVE LinkInv'
    BY <1>0, <1>13 DEF LinkInv, Drop, Hangup
  <1>14. ASSUME NEW c \in ending, ClearConn(c) PROVE LinkInv'
    BY <1>0, <1>14 DEF LinkInv, ClearConn
  <1>15. CASE CloseConvo
    BY <1>0, <1>15 DEF LinkInv, CloseConvo, Hangup
  <1>16. ASSUME NEW m \in wire, IgnoreRound(m) \/ JoinRound(m) \/ openReplyOnion(m) PROVE LinkInv'
    BY <1>1, <1>16 DEF IgnoreRound, JoinRound, Announcement, openReplyOnion
  <1>17. ASSUME NEW r \in DOMAIN rounds, QuitRound(r) \/ SealOnions(r) PROVE LinkInv'
    BY <1>1, <1>17 DEF QuitRound, SealOnions
  <1>18. ASSUME NEW r \in DOMAIN rounds, NEW sent \in BOOLEAN, SendOnions(r, sent) PROVE LinkInv'
    BY <1>1, <1>18 DEF SendOnions
  <1>19. CASE UNCHANGED vars
    BY <1>1, <1>19 DEF vars
  <1> QED
    BY <1>2, <1>3, <1>4, <1>5, <1>6, <1>7, <1>8, <1>9, <1>10, <1>11, <1>12, <1>13, <1>14, <1>15,
       <1>16, <1>17, <1>18, <1>19 DEF Next, RoundNext

-----------------------------------------------------------------------------
(* Registration. *)

LEMMA BagAdd ==
  ASSUME NEW B, NEW x
  PROVE  BagToSet(B (+) SetToBag({x})) = BagToSet(B) \cup {x}
  BY DEF BagToSet, SetToBag, (+)

LEMMA BagTake ==
  ASSUME NEW B, NEW x
  PROVE  BagToSet(B (-) SetToBag({x})) \subseteq BagToSet(B)
  BY DEF BagToSet, SetToBag, (-)

LEMMA NoGoroutines == BagToSet(EmptyBag) = {}
  BY DEF BagToSet, EmptyBag, SetToBag

LEMMA RegisterStep ==
  ASSUME ClientInv, NEW g \in BagToSet(registering), NEW p \in g.todo, NEW ok \in BOOLEAN,
         Register(g, p, ok)
  PROVE  IdentityInv'
  <1>0. IdentityInv
    BY DEF ClientInv
  <1>1. UNCHANGED <<boot, identity, clientFile, keywheelFile, identities>> /\ boot = "run"
    BY <1>0 DEF Register, pkgFrame, fileVars, IdentityInv
  <1>2. identity \in Nat /\ identity # 0 /\ identity = clientFile /\ identity = keywheelFile
    BY <1>0, <1>1 DEF IdentityInv
  <1>3. g \in [todo : SUBSET PKGs, allOK : BOOLEAN]
    BY <1>0 DEF IdentityInv
  <1>4. pkg \in [PKGs -> Nat] /\ p \in PKGs
    BY <1>0, <1>3 DEF IdentityInv
  <1>5. pkg' \in [PKGs -> Nat] /\ (ok => pkg'[p] = identity)
        /\ \A q \in PKGs : (pkg[q] = identity => pkg'[q] = identity) /\ pkg'[q] \in {pkg[q], identity}
    BY <1>2, <1>4 DEF Register
  <1>6. RegisteredIdentityKept'
    BY <1>0, <1>1, <1>2, <1>5 DEF IdentityInv, RegisteredIdentityKept
  <1>7. \A h \in BagToSet(registering) : h.allOK => \A q \in PKGs \ h.todo : pkg'[q] = identity
    BY <1>0, <1>5 DEF IdentityInv
  <1>8. CASE g.todo = {p}
    <2>1. BagToSet(registering') \subseteq BagToSet(registering)
      BY <1>8, BagTake DEF Register
    <2>2. loop' = loop \/ (g.allOK /\ ok)
      BY <1>8 DEF Register
    <2>3. g.allOK /\ ok => \A q \in PKGs : pkg'[q] = identity
      BY <1>5, <1>7, <1>8
    <2>4. ConnectsRegistered'
      BY <1>0, <1>1, <1>5, <2>2, <2>3 DEF IdentityInv, ConnectsRegistered
    <2> QED BY <1>0, <1>1, <1>5, <1>6, <1>7, <2>1, <2>4 DEF IdentityInv
  <1>9. CASE g.todo # {p}
    <2> DEFINE h == [g EXCEPT !.todo = @ \ {p}, !.allOK = @ /\ ok]
    <2>1. BagToSet(registering') \subseteq BagToSet(registering) \cup {h}
      <3> DEFINE rest == registering (-) SetToBag({g})
      <3>1. registering' = rest (+) SetToBag({h})
        BY <1>9 DEF Register
      <3>2. BagToSet(rest) \subseteq BagToSet(registering)
        BY BagTake
      <3> HIDE DEF rest, h
      <3> QED BY <3>1, <3>2, BagAdd
    <2>2. loop' = loop
      BY <1>9 DEF Register
    <2>3. h \in [todo : SUBSET PKGs, allOK : BOOLEAN] /\ h.todo = g.todo \ {p}
          /\ (h.allOK => g.allOK /\ ok)
      BY <1>3
    <2> HIDE DEF h
    <2>4. h.allOK => \A q \in PKGs \ h.todo : pkg'[q] = identity
      BY <1>5, <1>7, <2>3
    <2>5. ConnectsRegistered'
      BY <1>0, <1>1, <1>5, <2>2 DEF IdentityInv, ConnectsRegistered
    <2> QED BY <1>0, <1>1, <1>5, <1>6, <1>7, <2>1, <2>3, <2>4, <2>5 DEF IdentityInv
  <1> QED BY <1>8, <1>9

LEMMA IdentityStep ==
  ASSUME ClientInv, [Next]_vars
  PROVE  IdentityInv'
  <1> USE DEF linkVars, clientVars, startVars, fileVars, pkgFrame, bootFrame
  <1>0. IdentityInv /\ (loop # "off" => boot = "run")
    BY DEF ClientInv, ConfigInv
  <1>1. CASE UNCHANGED <<startVars>> /\ (loop = "off" => loop' = "off")
    BY <1>0, <1>1 DEF IdentityInv, RegisteredIdentityKept, ConnectsRegistered
  <1>2. CASE Exit
    BY <1>0, <1>2 DEF IdentityInv, RegisteredIdentityKept, ConnectsRegistered, Exit
  <1>3. CASE LoadAlpenhornState
    BY <1>0, <1>3 DEF IdentityInv, RegisteredIdentityKept, ConnectsRegistered, LoadAlpenhornState
  <1>4. CASE generateAlpenhornClient
    <2>1. keywheelFile = 0 /\ \A p \in PKGs : pkg[p] = 0
      BY <1>0, <1>4 DEF IdentityInv, RegisteredIdentityKept, generateAlpenhornClient, NotExist
    <2> QED BY <1>0, <1>4, <2>1
            DEF IdentityInv, RegisteredIdentityKept, ConnectsRegistered, generateAlpenhornClient
  <1>5. CASE PersistKeywheel
    BY <1>0, <1>5 DEF IdentityInv, RegisteredIdentityKept, ConnectsRegistered, PersistKeywheel
  <1>6. CASE LoadVuvuzelaState \/ generateVuvuzelaClient
    BY <1>0, <1>6 DEF IdentityInv, RegisteredIdentityKept, ConnectsRegistered, LoadVuvuzelaState,
                      generateVuvuzelaClient, RunGui
  <1>7. CASE Connect
    <2>1. \A p \in PKGs : pkg[p] = identity
      BY <1>7 DEF Connect, CheckPKGStatus, StatusOK
    <2> QED BY <1>0, <1>7, <2>1 DEF IdentityInv, RegisteredIdentityKept, ConnectsRegistered, Connect
  <1>8. CASE Restart
    <2>1. loop' = "off" /\ boot' = "alpenhorn" /\ registering' = EmptyBag
          /\ UNCHANGED <<clientFile, keywheelFile, pkg, identities>>
      BY <1>8 DEF Restart, Die
    <2> QED BY <1>0, <2>1, NoGoroutines DEF IdentityInv, RegisteredIdentityKept, ConnectsRegistered
  <1>9. ASSUME NEW silent \in SUBSET PKGs, RegisterAll(silent) PROVE IdentityInv'
    <2> DEFINE g == [todo |-> Unregistered \ silent,
                     allOK |-> StatusOK \cup Unregistered = PKGs /\ silent = {}]
    <2>1. BagToSet(registering') = BagToSet(registering) \cup {g}
      BY <1>9, BagAdd DEF RegisterAll
    <2>2. g \in [todo : SUBSET PKGs, allOK : BOOLEAN]
      BY DEF Unregistered
    <2>3. g.allOK => \A p \in PKGs \ g.todo : pkg[p] = identity
      BY DEF Unregistered, StatusOK
    <2>4. UNCHANGED <<boot, identity, clientFile, keywheelFile, identities, pkg, loop>> /\ boot = "run"
      BY <1>9 DEF RegisterAll
    <2> HIDE DEF g
    <2> QED BY <1>0, <2>1, <2>2, <2>3, <2>4 DEF IdentityInv, RegisteredIdentityKept, ConnectsRegistered
  <1>10. ASSUME NEW g \in BagToSet(registering), NEW p \in g.todo, NEW ok \in BOOLEAN, Register(g, p, ok)
         PROVE  IdentityInv'
    BY <1>10, RegisterStep
  <1>11. ASSUME RoundNext, UNCHANGED startVars PROVE IdentityInv'
    <2>1. loop = "off" => loop' = "off"
      BY <1>11 DEF RoundNext, Publish, UpdateConfig, Announce, CoordinatorCrash, MixOnions, FetchConfig,
         Dial, ConnectFails, Disconnected, Reconnect, Drop, ClearConn, CloseConvo, IgnoreRound,
         JoinRound, Announcement, openReplyOnion, QuitRound, SealOnions, SendOnions, roundFrame
    <2> QED BY <1>1, <1>11, <2>1
  <1>12. CASE UNCHANGED vars
    BY <1>1, <1>12 DEF vars
  <1> QED
    BY <1>2, <1>3, <1>4, <1>5, <1>6, <1>7, <1>8, <1>9, <1>10, <1>11, <1>12 DEF Next

-----------------------------------------------------------------------------
(* Messages and rounds. *)

LEMMA MessageStep ==
  ASSUME ClientInv, [Next]_vars
  PROVE  MessageType'
  <1> USE DEF serviceVars, linkVars, roundVars, clientVars, startVars, fileVars, pkgFrame, bootFrame, roundFrame
  <1>0. MessageType /\ LinkInv /\ RoundsType /\ ConfigInv
    BY DEF ClientInv
  <1>1. CASE UNCHANGED <<wire, onions, serving, conns>>
    BY <1>0, <1>1 DEF MessageType
  <1>2. CASE Exit \/ LoadAlpenhornState \/ generateAlpenhornClient \/ PersistKeywheel
    BY <1>1, <1>2 DEF Exit, LoadAlpenhornState, generateAlpenhornClient, PersistKeywheel
  <1>3. CASE LoadVuvuzelaState \/ generateVuvuzelaClient
    BY <1>1, <1>3 DEF LoadVuvuzelaState, generateVuvuzelaClient, RunGui
  <1>4. CASE Connect
    BY <1>1, <1>4 DEF Connect
  <1>5. CASE Restart
    BY <1>0, <1>5 DEF MessageType, Restart, Die
  <1>6. ASSUME NEW silent \in SUBSET PKGs, RegisterAll(silent) PROVE MessageType'
    BY <1>1, <1>6 DEF RegisterAll
  <1>7. ASSUME NEW g \in BagToSet(registering), NEW p \in g.todo, NEW ok \in BOOLEAN, Register(g, p, ok)
        PROVE  MessageType'
    BY <1>1, <1>7 DEF Register
  <1>8. CASE Publish \/ UpdateConfig \/ FetchConfig \/ ConnectFails \/ Disconnected \/ Reconnect
    BY <1>1, <1>8 DEF Publish, UpdateConfig, FetchConfig, ConnectFails, Disconnected, Reconnect
  <1>9. CASE Announce
    <2>1. round + 1 \in Rounds /\ coordConfig \in Configs
      BY <1>0, <1>9, BoundsAssumption DEF Announce, RoundsType, ConfigInv, Rounds, Configs
    <2> QED BY <1>0, <1>9, <2>1 DEF MessageType, Announce, NewRound
  <1>10. ASSUME NEW r \in DOMAIN open, NEW ok \in BOOLEAN, MixOnions(r, ok) PROVE MessageType'
    <2>1. \A o \in onions : o.round \in Rounds /\ o.config \in Configs
      BY <1>0 DEF MessageType
    <2>2. onions' \subseteq onions /\ UNCHANGED <<serving, conns>>
      BY <1>10 DEF MixOnions
    <2>3. \A m \in wire' : m \in wire \/ \E o \in onions :
             o.round = r /\ o.conn \in serving /\ m = ReplyMsg(o.conn, r, o.config)
      BY <1>10 DEF MixOnions
    <2> QED BY <1>0, <2>1, <2>2, <2>3 DEF MessageType, ReplyMsg
  <1>11. CASE CoordinatorCrash
    BY <1>0, <1>11 DEF MessageType, CoordinatorCrash
  <1>12. CASE Dial
    BY <1>0, <1>12 DEF MessageType, LinkInv, Dial
  <1>13. ASSUME NEW c \in serving, Drop(c) PROVE MessageType'
    BY <1>0, <1>13 DEF MessageType, Drop, Hangup, Undelivered
  <1>14. ASSUME NEW c \in ending, ClearConn(c) PROVE MessageType'
    BY <1>1, <1>14 DEF ClearConn
  <1>15. CASE CloseConvo
    BY <1>0, <1>15 DEF MessageType, CloseConvo, Hangup, Undelivered
  <1>16. ASSUME NEW m \in wire, IgnoreRound(m) \/ JoinRound(m) \/ openReplyOnion(m) PROVE MessageType'
    <2>1. wire' \subseteq wire /\ UNCHANGED <<onions, serving, conns>>
      BY <1>16 DEF IgnoreRound, JoinRound, Announcement, openReplyOnion
    <2> QED BY <1>0, <2>1 DEF MessageType
  <1>17. ASSUME NEW r \in DOMAIN rounds, QuitRound(r) \/ SealOnions(r) PROVE MessageType'
    BY <1>1, <1>17 DEF QuitRound, SealOnions
  <1>18. ASSUME NEW r \in DOMAIN rounds, NEW sent \in BOOLEAN, SendOnions(r, sent) PROVE MessageType'
    <2>1. r \in Rounds /\ rounds[r].config \in Configs /\ rounds[r].conn \in 1..conns
      BY <1>0 DEF RoundsType, RoundState
    <2> QED BY <1>0, <1>18, <2>1 DEF MessageType, SendOnions, OnionMsg
  <1>19. CASE UNCHANGED vars
    BY <1>1, <1>19 DEF vars
  <1> QED
    BY <1>2, <1>3, <1>4, <1>5, <1>6, <1>7, <1>8, <1>9, <1>10, <1>11, <1>12, <1>13, <1>14, <1>15,
       <1>16, <1>17, <1>18, <1>19 DEF Next, RoundNext

LEMMA RoundsStep ==
  ASSUME ClientInv, [Next]_vars
  PROVE  RoundsType'
  <1> USE DEF serviceVars, linkVars, roundVars, clientVars, startVars, fileVars, pkgFrame, bootFrame, roundFrame
  <1>0. MessageType /\ LinkInv /\ RoundsType /\ ConfigInv
    BY DEF ClientInv
  <1>1. CASE UNCHANGED <<round, open, rounds, pendingRounds, latestRound, conns>>
    BY <1>0, <1>1 DEF RoundsType
  <1>2. CASE Exit \/ LoadAlpenhornState \/ generateAlpenhornClient \/ PersistKeywheel
    BY <1>1, <1>2 DEF Exit, LoadAlpenhornState, generateAlpenhornClient, PersistKeywheel
  <1>3. CASE LoadVuvuzelaState \/ generateVuvuzelaClient
    BY <1>1, <1>3 DEF LoadVuvuzelaState, generateVuvuzelaClient, RunGui
  <1>4. CASE Connect
    BY <1>1, <1>4 DEF Connect
  <1>5. CASE Restart
    <2>1. rounds' = NoRounds /\ pendingRounds' = {} /\ latestRound' = 0 /\ UNCHANGED <<round, open, conns>>
      BY <1>5 DEF Restart, Die
    <2> QED BY <1>0, <2>1, BoundsAssumption DEF RoundsType, NoRounds
  <1>6. ASSUME NEW silent \in SUBSET PKGs, RegisterAll(silent) PROVE RoundsType'
    BY <1>1, <1>6 DEF RegisterAll
  <1>7. ASSUME NEW g \in BagToSet(registering), NEW p \in g.todo, NEW ok \in BOOLEAN, Register(g, p, ok)
        PROVE  RoundsType'
    BY <1>1, <1>7 DEF Register
  <1>8. CASE Publish \/ UpdateConfig \/ FetchConfig \/ ConnectFails \/ Disconnected \/ Reconnect
    BY <1>1, <1>8 DEF Publish, UpdateConfig, FetchConfig, ConnectFails, Disconnected, Reconnect
  <1>9. CASE Announce
    <2>1. round \in Nat /\ round' = round + 1 /\ round' \in 0..MaxRound /\ coordConfig \in Configs
      BY <1>0, <1>9, BoundsAssumption DEF Announce, RoundsType, ConfigInv, Configs
    <2>2. open' = With(open, round + 1, coordConfig) /\ UNCHANGED <<rounds, pendingRounds, latestRound, conns>>
      BY <1>9 DEF Announce
    <2>3. DOMAIN open' \subseteq 1..round' /\ \A r \in DOMAIN open' : open'[r] \in Configs
      BY <1>0, <2>1, <2>2 DEF RoundsType, With
    <2> QED BY <1>0, <2>1, <2>2, <2>3 DEF RoundsType
  <1>10. ASSUME NEW r \in DOMAIN open, NEW ok \in BOOLEAN, MixOnions(r, ok) PROVE RoundsType'
    BY <1>0, <1>10 DEF MixOnions, RoundsType, Without
  <1>11. CASE CoordinatorCrash
    <2>1. round' \in 0..MaxRound /\ open' = NoRounds /\ UNCHANGED <<rounds, pendingRounds, latestRound, conns>>
      BY <1>0, <1>11, BoundsAssumption DEF CoordinatorCrash, RoundsType
    <2> QED BY <1>0, <2>1 DEF RoundsType, NoRounds
  <1>12. CASE Dial
    BY <1>0, <1>12 DEF RoundsType, LinkInv, Dial
  <1>13. ASSUME NEW c \in serving, Drop(c) PROVE RoundsType'
    BY <1>1, <1>13 DEF Drop
  <1>14. ASSUME NEW c \in ending, ClearConn(c) PROVE RoundsType'
    BY <1>1, <1>14 DEF ClearConn
  <1>15. CASE CloseConvo
    BY <1>1, <1>15 DEF CloseConvo
  <1>16. ASSUME NEW m \in wire, IgnoreRound(m) \/ JoinRound(m) PROVE RoundsType'
    <2>1. m.round \in Rounds /\ m.config \in Configs /\ m.conn \in 1..conns /\ m.conn \in Nat
      BY <1>0 DEF MessageType, LinkInv
    <2>2. UNCHANGED <<round, open, conns, pendingRounds>> /\ latestRound' \in {latestRound, m.round}
      BY <1>16 DEF IgnoreRound, JoinRound, Announcement, setLatestRound
    <2>3. latestRound' \in 0..MaxRound
      BY <1>0, <2>1, <2>2 DEF RoundsType, Rounds
    <2>4. rounds' = rounds \/ rounds' = Joined(m)
      BY <1>16 DEF IgnoreRound, JoinRound
    <2>5. DOMAIN rounds' \subseteq Rounds
          /\ \A r \in DOMAIN rounds' : rounds'[r] \in RoundState /\ rounds'[r].conn \in 1..conns
      <3> DEFINE new == [config |-> m.config, conn |-> m.conn, phase |-> "running", keys |-> FALSE]
      <3>1. new \in RoundState /\ new.conn = m.conn
        BY <2>1 DEF RoundState
      <3>2. rounds' = rounds \/ rounds' = With(rounds, m.round, new)
        BY <2>4 DEF Joined
      <3> HIDE DEF new
      <3> QED BY <1>0, <2>1, <3>1, <3>2 DEF RoundsType, With
    <2> QED BY <1>0, <2>2, <2>3, <2>5 DEF RoundsType
  <1>17. ASSUME NEW m \in wire, openReplyOnion(m) PROVE RoundsType'
    <2>1. UNCHANGED <<round, open, conns, latestRound>> /\ pendingRounds' \subseteq pendingRounds
          /\ (rounds' = rounds \/ rounds' = Without(rounds, m.round))
      BY <1>17 DEF openReplyOnion
    <2> QED BY <1>0, <2>1 DEF RoundsType, Without
  <1>18. ASSUME NEW r \in DOMAIN rounds,
                QuitRound(r) \/ SealOnions(r) \/ \E sent \in BOOLEAN : SendOnions(r, sent)
         PROVE  RoundsType'
    <2>1. UNCHANGED <<round, open, conns, latestRound>> /\ pendingRounds' \subseteq pendingRounds \cup {r}
      BY <1>18 DEF QuitRound, SealOnions, SendOnions
    <2>2. \E ph \in {"sealed", "over"}, k \in {rounds[r].keys, TRUE} :
             rounds' = [rounds EXCEPT ![r].phase = ph, ![r].keys = k]
      BY <1>0, <1>18 DEF QuitRound, SealOnions, SendOnions, RoundsType, RoundState
    <2>3. DOMAIN rounds' \subseteq Rounds
          /\ \A q \in DOMAIN rounds' : rounds'[q] \in RoundState /\ rounds'[q].conn \in 1..conns
      BY <1>0, <2>2 DEF RoundsType, RoundState
    <2> QED BY <1>0, <2>1, <2>3 DEF RoundsType
  <1>19. CASE UNCHANGED vars
    BY <1>1, <1>19 DEF vars
  <1> QED
    BY <1>2, <1>3, <1>4, <1>5, <1>6, <1>7, <1>8, <1>9, <1>10, <1>11, <1>12, <1>13, <1>14, <1>15,
       <1>16, <1>17, <1>18, <1>19 DEF Next, RoundNext

-----------------------------------------------------------------------------
(* Configs. *)

LEMMA ConfigStep ==
  ASSUME ClientInv, [Next]_vars
  PROVE  ConfigInv' /\ (config' # 0 => config' >= config) /\ disk' >= disk
  <1> DEFINE Goal == ConfigInv' /\ (config' # 0 => config' >= config) /\ disk' >= disk
  <1> SUFFICES Goal
    OBVIOUS
  <1> USE DEF serviceVars, linkVars, roundVars, clientVars, startVars, fileVars, pkgFrame, bootFrame, roundFrame
  <1>0. MessageType /\ LinkInv /\ ConfigInv
    BY DEF ClientInv
  <1>nat. config \in Nat /\ disk \in Nat /\ published \in Nat
    BY <1>0, BoundsAssumption DEF ConfigInv, Configs
  <1>1. ASSUME UNCHANGED <<published, coordConfig, fetched, config, disk, boot>>, wire' \subseteq wire,
               loop' # "off" => boot = "run", loop' # "dialing" \/ loop' = loop
        PROVE  Goal
    BY <1>0, <1>nat, <1>1 DEF ConfigInv
  <1>2. CASE Exit \/ LoadAlpenhornState \/ generateAlpenhornClient \/ PersistKeywheel
    BY <1>0, <1>nat, <1>2
       DEF ConfigInv, Exit, LoadAlpenhornState, generateAlpenhornClient, PersistKeywheel
  <1>3. CASE LoadVuvuzelaState \/ generateVuvuzelaClient
    BY <1>0, <1>nat, <1>3 DEF ConfigInv, LoadVuvuzelaState, generateVuvuzelaClient, RunGui, persistLocked
  <1>4. CASE Connect
    BY <1>0, <1>1, <1>4 DEF Connect, EnsureConnected
  <1>5. CASE Restart
    <2>1. loop' = "off" /\ config' = 0 /\ wire' = {} /\ boot' = "alpenhorn"
          /\ UNCHANGED <<published, coordConfig, fetched, disk>>
      BY <1>5 DEF Restart, Die
    <2> QED BY <1>0, <1>nat, <2>1 DEF ConfigInv
  <1>6. ASSUME NEW silent \in SUBSET PKGs, RegisterAll(silent) PROVE Goal
    BY <1>0, <1>1, <1>6 DEF RegisterAll, ConfigInv
  <1>7. ASSUME NEW g \in BagToSet(registering), NEW p \in g.todo, NEW ok \in BOOLEAN, Register(g, p, ok)
        PROVE  Goal
    <2>1. boot = "run"
      BY <1>7 DEF ClientInv, IdentityInv
    <2> QED BY <1>1, <1>7, <2>1 DEF Register, EnsureConnected
  <1>8. ASSUME RoundNext, UNCHANGED startVars PROVE Goal
    <2>0. UNCHANGED boot
      BY <1>8
    <2>1. CASE Publish
      BY <1>0, <1>nat, <2>0, <2>1, BoundsAssumption DEF ConfigInv, Publish, Configs, MessageType
    <2>2. CASE UpdateConfig
      BY <1>0, <1>nat, <2>0, <2>2 DEF ConfigInv, UpdateConfig
    <2>3. CASE Announce
      <3>1. UNCHANGED <<published, coordConfig, fetched, config, disk, loop>>
            /\ \A m \in wire' : m \in wire \/ m.config = coordConfig
        BY <2>3 DEF Announce, NewRound
      <3> QED BY <1>0, <1>nat, <2>0, <3>1 DEF ConfigInv
    <2>4. ASSUME NEW r \in DOMAIN open, NEW ok \in BOOLEAN, MixOnions(r, ok) PROVE Goal
      <3>1. UNCHANGED <<published, coordConfig, fetched, config, disk, loop>>
            /\ \A m \in wire' : m \in wire \/ m.type # "newround"
        BY <2>4 DEF MixOnions, ReplyMsg
      <3> QED BY <1>0, <1>nat, <2>0, <3>1 DEF ConfigInv
    <2>5. CASE CoordinatorCrash
      BY <1>0, <1>1, <2>0, <2>5 DEF ConfigInv, CoordinatorCrash
    <2>6. CASE FetchConfig
      BY <1>0, <1>nat, <2>0, <2>6 DEF ConfigInv, FetchConfig, CurrentConfig
    <2>7. CASE ConnectFails \/ Disconnected \/ Reconnect
      BY <1>0, <1>1, <2>0, <2>7 DEF ConfigInv, ConnectFails, Disconnected, Reconnect
    <2>8. CASE Dial
      BY <1>0, <1>nat, <2>0, <2>8 DEF ConfigInv, Dial
    <2>9. ASSUME NEW c \in serving, Drop(c) PROVE Goal
      BY <1>0, <1>1, <2>0, <2>9 DEF ConfigInv, Drop, Hangup, Undelivered
    <2>10. ASSUME NEW c \in ending, ClearConn(c) PROVE Goal
      BY <1>0, <1>1, <2>0, <2>10 DEF ConfigInv, ClearConn
    <2>11. CASE CloseConvo
      BY <1>0, <1>1, <2>0, <2>11 DEF ConfigInv, CloseConvo, Hangup, Undelivered
    <2>12. ASSUME NEW m \in wire, IgnoreRound(m) \/ openReplyOnion(m) PROVE Goal
      BY <1>0, <1>1, <2>0, <2>12 DEF ConfigInv, IgnoreRound, Announcement, openReplyOnion
    <2>13. ASSUME NEW m \in wire, JoinRound(m) PROVE Goal
      <3>1. loop = "connected" /\ m.config \in Nat /\ m.config <= published
        BY <1>0, <2>13 DEF MessageType, LinkInv, ConfigInv, JoinRound, Announcement, Configs
      <3>2. /\ \/ UNCHANGED <<config, disk>>
               \/ m.config > config /\ config' = m.config /\ disk' = m.config
            /\ UNCHANGED <<published, coordConfig, fetched, loop>> /\ wire' \subseteq wire
        BY <2>13 DEF JoinRound, Announcement, persistLocked
      <3> QED BY <1>0, <1>nat, <2>0, <3>1, <3>2 DEF ConfigInv
    <2>14. ASSUME NEW r \in DOMAIN rounds,
                  QuitRound(r) \/ SealOnions(r) \/ \E sent \in BOOLEAN : SendOnions(r, sent)
           PROVE  Goal
      BY <1>0, <1>1, <2>0, <2>14 DEF ConfigInv, QuitRound, SealOnions, SendOnions
    <2> HIDE DEF Goal
    <2> QED
      BY <1>8, <2>1, <2>2, <2>3, <2>4, <2>5, <2>6, <2>7, <2>8, <2>9, <2>10, <2>11, <2>12, <2>13,
         <2>14 DEF RoundNext
  <1>9. CASE UNCHANGED vars
    BY <1>0, <1>1, <1>9 DEF vars, ConfigInv
  <1> HIDE DEF Goal
  <1> QED BY <1>2, <1>3, <1>4, <1>5, <1>6, <1>7, <1>8, <1>9 DEF Next

-----------------------------------------------------------------------------
(* Round numbers: what the two sides know of a round agrees. *)

LEMMA NumberStep ==
  ASSUME ClientInv, [Next]_vars
  PROVE  NumberInv'
  <1> USE DEF serviceVars, linkVars, roundVars, clientVars, startVars, fileVars, pkgFrame, bootFrame, roundFrame
  <1>0. MessageType /\ LinkInv /\ RoundsType /\ ConfigInv /\ NumberInv
    BY DEF ClientInv
  <1>1. ASSUME UNCHANGED <<round, open, onions, rounds>>, wire' \subseteq wire, serving' \subseteq serving
        PROVE  NumberInv'
    BY <1>0, <1>1 DEF NumberInv, OnionsMatchConfig
  <1>2. CASE Exit \/ LoadAlpenhornState \/ generateAlpenhornClient \/ PersistKeywheel
    BY <1>1, <1>2 DEF Exit, LoadAlpenhornState, generateAlpenhornClient, PersistKeywheel
  <1>3. CASE LoadVuvuzelaState \/ generateVuvuzelaClient
    BY <1>1, <1>3 DEF LoadVuvuzelaState, generateVuvuzelaClient, RunGui
  <1>4. CASE Connect
    BY <1>1, <1>4 DEF Connect
  <1>5. CASE Restart
    <2>1. rounds' = NoRounds /\ wire' = {} /\ UNCHANGED <<round, open, onions>>
      BY <1>5 DEF Restart, Die
    <2> QED BY <1>0, <2>1 DEF NumberInv, OnionsMatchConfig, NoRounds
  <1>6. ASSUME NEW silent \in SUBSET PKGs, RegisterAll(silent) PROVE NumberInv'
    BY <1>1, <1>6 DEF RegisterAll
  <1>7. ASSUME NEW g \in BagToSet(registering), NEW p \in g.todo, NEW ok \in BOOLEAN, Register(g, p, ok)
        PROVE  NumberInv'
    BY <1>1, <1>7 DEF Register
  <1>8. CASE Publish \/ UpdateConfig \/ FetchConfig \/ ConnectFails \/ Disconnected \/ Reconnect
    BY <1>1, <1>8 DEF Publish, UpdateConfig, FetchConfig, ConnectFails, Disconnected, Reconnect
  <1>9. CASE Announce
    <2> DEFINE n == round + 1
    <2>1. round \in Nat /\ round' = n /\ n \notin DOMAIN open /\ open' = With(open, n, coordConfig)
          /\ UNCHANGED <<onions, rounds, serving>>
      BY <1>0, <1>9, BoundsAssumption DEF Announce, RoundsType
    <2>2. \A r : r \in DOMAIN open' /\ r # n => r \in DOMAIN open /\ open'[r] = open[r]
      BY <2>1 DEF With
    <2>3. n \in DOMAIN open' /\ open'[n] = coordConfig
      BY <2>1 DEF With
    <2>4. \A o \in onions : o.round \in Nat /\ o.round <= round
      BY <1>0 DEF NumberInv, MessageType, Rounds
    <2>5. \A m \in wire' : \/ m \in wire
                           \/ m.round = n /\ m.config = coordConfig
      BY <1>9 DEF Announce, NewRound
    <2>6. \A m \in wire : m.round \in Nat
      BY <1>0 DEF MessageType, Rounds
    <2>7. \A r \in DOMAIN rounds : r \in Nat
      BY <1>0 DEF RoundsType, Rounds
    <2> HIDE DEF n
    <2>8. n \in Nat /\ \A k \in Nat : k <= round => k <= n /\ k # n
      BY <2>1 DEF n
    <2>9. OnionsMatchConfig'
      BY <1>0, <2>1, <2>2, <2>4, <2>8 DEF NumberInv, OnionsMatchConfig
    <2>10. \A o \in onions' : o.round <= round'
      BY <2>1, <2>4, <2>8
    <2>11. \A m \in wire' : m.type = "newround" =>
              m.round <= round' /\ (m.round \in DOMAIN open' => m.config = open'[m.round])
      BY <1>0, <2>1, <2>2, <2>3, <2>5, <2>6, <2>8 DEF NumberInv
    <2>12. \A r \in DOMAIN rounds' : rounds'[r].conn \in serving' =>
              r <= round' /\ (r \in DOMAIN open' => rounds'[r].config = open'[r])
      BY <1>0, <2>1, <2>2, <2>7, <2>8 DEF NumberInv
    <2> QED BY <2>9, <2>10, <2>11, <2>12 DEF NumberInv
  <1>10. ASSUME NEW r \in DOMAIN open, NEW ok \in BOOLEAN, MixOnions(r, ok) PROVE NumberInv'
    <2>1. open' = Without(open, r) /\ onions' \subseteq onions /\ UNCHANGED <<round, rounds, serving>>
      BY <1>10 DEF MixOnions
    <2>2. \A q \in DOMAIN open' : q \in DOMAIN open /\ open'[q] = open[q]
      BY <2>1 DEF Without
    <2>3. \A m \in wire' : m \in wire \/ m.type # "newround"
      BY <1>10 DEF MixOnions, ReplyMsg
    <2> QED BY <1>0, <2>1, <2>2, <2>3 DEF NumberInv, OnionsMatchConfig
  <1>11. CASE CoordinatorCrash
    BY <1>11 DEF NumberInv, OnionsMatchConfig, CoordinatorCrash
  <1>12. CASE Dial
    <2>1. UNCHANGED <<round, open, onions, rounds, wire>> /\ serving' = serving \cup {conns + 1}
      BY <1>12 DEF Dial
    <2>2. \A r \in DOMAIN rounds : rounds[r].conn # conns + 1
      BY <1>0 DEF RoundsType, LinkInv
    <2> QED BY <1>0, <2>1, <2>2 DEF NumberInv, OnionsMatchConfig
  <1>13. ASSUME NEW c \in serving, Drop(c) PROVE NumberInv'
    BY <1>1, <1>13 DEF Drop, Hangup, Undelivered
  <1>14. ASSUME NEW c \in ending, ClearConn(c) PROVE NumberInv'
    BY <1>1, <1>14 DEF ClearConn
  <1>15. CASE CloseConvo
    BY <1>1, <1>15 DEF CloseConvo, Hangup, Undelivered
  <1>16. ASSUME NEW m \in wire, IgnoreRound(m) PROVE NumberInv'
    BY <1>1, <1>16 DEF IgnoreRound, Announcement
  <1>17. ASSUME NEW m \in wire, JoinRound(m) PROVE NumberInv'
    <2>1. m.type = "newround" /\ wire' \subseteq wire /\ UNCHANGED <<round, open, onions, serving>>
          /\ rounds' = Joined(m)
      BY <1>17 DEF JoinRound, Announcement
    <2>2. \A r \in DOMAIN rounds' : \/ r = m.round /\ rounds'[r].config = m.config
                                    \/ r \in DOMAIN rounds /\ rounds'[r] = rounds[r]
      BY <2>1 DEF Joined, With
    <2> QED BY <1>0, <2>1, <2>2 DEF NumberInv, OnionsMatchConfig
  <1>18. ASSUME NEW m \in wire, openReplyOnion(m) PROVE NumberInv'
    <2>1. wire' \subseteq wire /\ UNCHANGED <<round, open, onions, serving>>
          /\ (rounds' = rounds \/ rounds' = Without(rounds, m.round))
      BY <1>18 DEF openReplyOnion
    <2>2. \A r \in DOMAIN rounds' : r \in DOMAIN rounds /\ rounds'[r] = rounds[r]
      BY <2>1 DEF Without
    <2> QED BY <1>0, <2>1, <2>2 DEF NumberInv, OnionsMatchConfig
  <1>19. ASSUME NEW r \in DOMAIN rounds, QuitRound(r) \/ SealOnions(r) PROVE NumberInv'
    <2>1. UNCHANGED <<round, open, onions, wire, serving>> /\ DOMAIN rounds' = DOMAIN rounds
          /\ \A q \in DOMAIN rounds : rounds'[q].conn = rounds[q].conn /\ rounds'[q].config = rounds[q].config
      BY <1>0, <1>19 DEF QuitRound, SealOnions, RoundsType, RoundState
    <2> QED BY <1>0, <2>1 DEF NumberInv, OnionsMatchConfig
  <1>20. ASSUME NEW r \in DOMAIN rounds, NEW sent \in BOOLEAN, SendOnions(r, sent) PROVE NumberInv'
    <2>1. UNCHANGED <<round, open, wire, serving>> /\ DOMAIN rounds' = DOMAIN rounds
          /\ \A q \in DOMAIN rounds : rounds'[q].conn = rounds[q].conn /\ rounds'[q].config = rounds[q].config
      BY <1>0, <1>20 DEF SendOnions, RoundsType, RoundState
    <2>2. \A o \in onions' : \/ o \in onions
                             \/ /\ o.round = r /\ o.config = rounds[r].config
                                /\ rounds[r].conn \in serving /\ r \in DOMAIN open
      <3> DEFINE new == OnionMsg(rounds[r].conn, r, rounds[r].config)
      <3>1. \/ onions' = onions
            \/ onions' = onions \cup {new} /\ rounds[r].conn \in serving /\ r \in DOMAIN open
        BY <1>20, Zenon DEF SendOnions
      <3>2. new.round = r /\ new.config = rounds[r].config
        BY DEF OnionMsg
      <3> HIDE DEF new
      <3> QED BY <3>1, <3>2
    <2> QED BY <1>0, <2>1, <2>2 DEF NumberInv, OnionsMatchConfig
  <1>21. CASE UNCHANGED vars
    BY <1>1, <1>21 DEF vars
  <1> QED
    BY <1>2, <1>3, <1>4, <1>5, <1>6, <1>7, <1>8, <1>9, <1>10, <1>11, <1>12, <1>13, <1>14, <1>15,
       <1>16, <1>17, <1>18, <1>19, <1>20, <1>21 DEF Next, RoundNext

-----------------------------------------------------------------------------
(* Replies. *)

LEMMA ReplyStep ==
  ASSUME ClientInv, [Next]_vars
  PROVE  ReplyInv'
  <1> USE DEF serviceVars, linkVars, roundVars, clientVars, startVars, fileVars, pkgFrame, bootFrame, roundFrame
  <1>0. MessageType /\ LinkInv /\ RoundsType /\ ReplyInv
    BY DEF ClientInv
  <1>1. ASSUME UNCHANGED <<onions, rounds, pendingRounds>>, wire' \subseteq wire, serving' \subseteq serving
        PROVE  ReplyInv'
    BY <1>0, <1>1 DEF ReplyInv, Awaited, Expected
  <1>2. CASE Exit \/ LoadAlpenhornState \/ generateAlpenhornClient \/ PersistKeywheel
    BY <1>1, <1>2 DEF Exit, LoadAlpenhornState, generateAlpenhornClient, PersistKeywheel
  <1>3. CASE LoadVuvuzelaState \/ generateVuvuzelaClient
    BY <1>1, <1>3 DEF LoadVuvuzelaState, generateVuvuzelaClient, RunGui
  <1>4. CASE Connect
    BY <1>1, <1>4 DEF Connect
  <1>5. CASE Restart
    <2>1. serving' = {} /\ wire' = {} /\ rounds' = NoRounds
      BY <1>5 DEF Restart, Die
    <2> QED BY <2>1 DEF ReplyInv, NoRounds
  <1>6. ASSUME NEW silent \in SUBSET PKGs, RegisterAll(silent) PROVE ReplyInv'
    BY <1>1, <1>6 DEF RegisterAll
  <1>7. ASSUME NEW g \in BagToSet(registering), NEW p \in g.todo, NEW ok \in BOOLEAN, Register(g, p, ok)
        PROVE  ReplyInv'
    BY <1>1, <1>7 DEF Register
  <1>8. CASE Publish \/ UpdateConfig \/ FetchConfig \/ ConnectFails \/ Disconnected \/ Reconnect
    BY <1>1, <1>8 DEF Publish, UpdateConfig, FetchConfig, ConnectFails, Disconnected, Reconnect
  <1>9. CASE Announce
    <2>1. UNCHANGED <<onions, rounds, pendingRounds, serving>>
          /\ \A m \in wire' : m \in wire \/ m.type # "reply"
      BY <1>9 DEF Announce, NewRound
    <2> QED BY <1>0, <2>1 DEF ReplyInv, Awaited, Expected
  <1>10. ASSUME NEW r \in DOMAIN open, NEW ok \in BOOLEAN, MixOnions(r, ok) PROVE ReplyInv'
    <2>1. onions' = {o \in onions : o.round # r} /\ UNCHANGED <<rounds, pendingRounds, serving>>
      BY <1>10 DEF MixOnions
    <2>2. \A m \in wire' : m \in wire \/ \E o \in onions :
             o.round = r /\ o.conn \in serving /\ m.round = r /\ m.config = o.config
      BY <1>10 DEF MixOnions, ReplyMsg
    <2>3. \A c, q : (Awaited(q, c)' <=> Awaited(q, c)) /\ (Expected(q)' <=> Expected(q))
      BY <2>1 DEF Awaited, Expected
    <2> QED BY <1>0, <2>1, <2>2, <2>3 DEF ReplyInv
  <1>11. CASE CoordinatorCrash
    BY <1>0, <1>11 DEF ReplyInv, Expected, CoordinatorCrash
  <1>12. CASE Dial
    <2>1. UNCHANGED <<onions, rounds, pendingRounds, wire>> /\ serving' = serving \cup {conns + 1}
      BY <1>12 DEF Dial
    <2>2. \A o \in onions : o.conn # conns + 1
      BY <1>0 DEF MessageType, LinkInv
    <2> QED BY <1>0, <2>1, <2>2 DEF ReplyInv, Awaited, Expected
  <1>13. ASSUME NEW c \in serving, Drop(c) PROVE ReplyInv'
    BY <1>1, <1>13 DEF Drop, Hangup, Undelivered
  <1>14. ASSUME NEW c \in ending, ClearConn(c) PROVE ReplyInv'
    BY <1>1, <1>14 DEF ClearConn
  <1>15. CASE CloseConvo
    BY <1>1, <1>15 DEF CloseConvo, Hangup, Undelivered
  <1>16. ASSUME NEW m \in wire, IgnoreRound(m) PROVE ReplyInv'
    BY <1>1, <1>16 DEF IgnoreRound, Announcement
  <1>17. ASSUME NEW m \in wire, JoinRound(m) PROVE ReplyInv'
    <2>1. wire' \subseteq wire /\ UNCHANGED <<onions, serving, pendingRounds>>
          /\ rounds' = Joined(m) /\ m.round \notin DOMAIN rounds
      BY <1>17 DEF JoinRound, Announcement
    <2>2. \A q \in DOMAIN rounds : q \in DOMAIN rounds' /\ rounds'[q] = rounds[q]
      BY <2>1 DEF Joined, With
    <2>3. \A c, q : (Awaited(q, c) => Awaited(q, c)') /\ (Expected(q) => Expected(q)')
      BY <2>1, <2>2 DEF Awaited, Expected
    <2>4. \A q \in DOMAIN rounds' : q \in DOMAIN rounds \/ rounds'[q].phase = "running"
      BY <2>1 DEF Joined, With
    <2> QED BY <1>0, <2>1, <2>2, <2>3, <2>4 DEF ReplyInv
  <1>18. ASSUME NEW m \in wire, openReplyOnion(m) PROVE ReplyInv'
    <2>1. m.type = "reply" /\ wire' = wire \ {m} /\ UNCHANGED <<onions, serving>>
      BY <1>18 DEF openReplyOnion
    <2>2. Awaited(m.round, m.config) /\ Expected(m.round)
      BY <1>0, <2>1 DEF ReplyInv, Awaited
    <2>3. rounds' = Without(rounds, m.round) /\ pendingRounds' = pendingRounds \ {m.round}
      BY <1>18, <2>2 DEF openReplyOnion
    <2>4. \A c, q : q # m.round => (Awaited(q, c) => Awaited(q, c)') /\ (Expected(q) => Expected(q)')
      BY <2>3 DEF Awaited, Expected, Without
    <2>7. \A q \in DOMAIN rounds' : q # m.round /\ q \in DOMAIN rounds /\ rounds'[q] = rounds[q]
      BY <2>3 DEF Without
    <2>5. \A x \in wire' : x.type = "reply" => x.round # m.round
      <3> SUFFICES ASSUME NEW x \in wire, x.type = "reply", x.round = m.round PROVE x = m
        BY <2>1
      <3>1. x.config = m.config
        BY <1>0, <2>2 DEF ReplyInv, Awaited
      <3>2. x.conn = m.conn
        BY <1>0 DEF MessageType, LinkInv
      <3>3. x \in [type : {"newround", "reply"}, conn : serving, round : Rounds, config : Configs]
            /\ m \in [type : {"newround", "reply"}, conn : serving, round : Rounds, config : Configs]
        BY <1>0 DEF MessageType
      <3> QED BY <2>1, <3>1, <3>2, <3>3
    <2>6. \A o \in onions : o.conn \in serving => o.round # m.round
      BY <1>0, <2>1 DEF ReplyInv
    <2> QED BY <1>0, <2>1, <2>4, <2>5, <2>6, <2>7 DEF ReplyInv
  <1>19. ASSUME NEW r \in DOMAIN rounds, QuitRound(r) \/ SealOnions(r) PROVE ReplyInv'
    <2>1. UNCHANGED <<onions, wire, serving>> /\ pendingRounds \subseteq pendingRounds'
          /\ DOMAIN rounds' = DOMAIN rounds /\ rounds[r].phase = "running"
          /\ \A q \in DOMAIN rounds : q # r => rounds'[q] = rounds[q]
      BY <1>19 DEF QuitRound, SealOnions
    <2>2. \A c, q : (Awaited(q, c) => Awaited(q, c)') /\ (q # r => (Expected(q) => Expected(q)'))
      BY <2>1 DEF Awaited, Expected
    <2>3. rounds'[r].phase = "sealed" => Expected(r)'
      <3>1. CASE QuitRound(r)
        BY <1>0, <3>1 DEF QuitRound, RoundsType, RoundState
      <3>2. CASE SealOnions(r)
        <4>1. r \in DOMAIN rounds' /\ r \in pendingRounds'
          BY <3>2 DEF SealOnions
        <4>2. rounds'[r].keys = TRUE
          BY <1>0, <3>2 DEF SealOnions, RoundsType, RoundState
        <4> QED BY <4>1, <4>2, Zenon DEF Expected
      <3> QED BY <1>19, <3>1, <3>2
    <2> QED BY <1>0, <2>1, <2>2, <2>3 DEF ReplyInv
  <1>20. ASSUME NEW r \in DOMAIN rounds, NEW sent \in BOOLEAN, SendOnions(r, sent) PROVE ReplyInv'
    <2>1. UNCHANGED <<wire, serving, pendingRounds>>
          /\ DOMAIN rounds' = DOMAIN rounds /\ rounds[r].phase = "sealed"
          /\ \A q \in DOMAIN rounds : q # r => rounds'[q] = rounds[q]
      BY <1>20 DEF SendOnions
    <2>2. \A c, q : (Awaited(q, c) => Awaited(q, c)' /\ q # r) /\ (q # r => (Expected(q) => Expected(q)'))
      BY <2>1 DEF Awaited, Expected
    <2>3. Expected(r)
      BY <1>0, <2>1 DEF ReplyInv
    <2>4. rounds'[r].phase = "over" /\ rounds'[r].config = rounds[r].config /\ rounds'[r].keys = rounds[r].keys
      BY <1>0, <1>20 DEF SendOnions, RoundsType, RoundState
    <2>5. Awaited(r, rounds[r].config)'
      BY <2>1, <2>3, <2>4 DEF Awaited, Expected
    <2>6. \A o \in onions' : o \in onions \/ (o.round = r /\ o.config = rounds[r].config)
      <3> DEFINE new == OnionMsg(rounds[r].conn, r, rounds[r].config)
      <3>1. \/ onions' = onions
            \/ onions' = onions \cup {new} /\ rounds[r].conn \in serving /\ r \in DOMAIN open
        BY <1>20, Zenon DEF SendOnions
      <3>2. new.round = r /\ new.config = rounds[r].config
        BY DEF OnionMsg
      <3> HIDE DEF new
      <3> QED BY <3>1, <3>2
    <2>7. \A m \in wire : m.type = "reply" => m.round # r
      BY <1>0, <2>2 DEF ReplyInv
    <2> QED BY <1>0, <2>1, <2>2, <2>4, <2>5, <2>6, <2>7 DEF ReplyInv
  <1>21. CASE UNCHANGED vars
    BY <1>1, <1>21 DEF vars
  <1> QED
    BY <1>2, <1>3, <1>4, <1>5, <1>6, <1>7, <1>8, <1>9, <1>10, <1>11, <1>12, <1>13, <1>14, <1>15,
       <1>16, <1>17, <1>18, <1>19, <1>20, <1>21 DEF Next, RoundNext

-----------------------------------------------------------------------------
LEMMA InitInv == Init => ClientInv
  <1> SUFFICES ASSUME Init PROVE ClientInv
    OBVIOUS
  <1> USE DEF Init, RoundInit, NoRounds
  <1>1. LinkInv
    BY DEF LinkInv
  <1>2. MessageType
    BY DEF MessageType
  <1>3. RoundsType
    BY BoundsAssumption DEF RoundsType
  <1>4. ConfigInv
    BY BoundsAssumption DEF ConfigInv, Configs
  <1>5. NumberInv
    BY DEF NumberInv, OnionsMatchConfig
  <1>6. ReplyInv
    BY DEF ReplyInv
  <1>7. IdentityInv
    BY NoGoroutines DEF IdentityInv, RegisteredIdentityKept, ConnectsRegistered
  <1> QED BY <1>1, <1>2, <1>3, <1>4, <1>5, <1>6, <1>7 DEF ClientInv

LEMMA NextInv == ClientInv /\ [Next]_vars => ClientInv'
  BY LinkStep, MessageStep, RoundsStep, ConfigStep, NumberStep, ReplyStep, IdentityStep DEF ClientInv

\* Every reachable state of the terminal client has its type; a connection is
\* served or being ended, never both.
THEOREM TypeCorrect == Spec => []TypeOK
  <1>1. ClientInv => TypeOK
    <2> SUFFICES ASSUME ClientInv PROVE TypeOK
      OBVIOUS
    <2>1. LinkInv /\ RoundsType /\ ConfigInv
      BY DEF ClientInv
    <2>2. \A n \in Configs : 1..n \subseteq Configs /\ 0..n \subseteq Configs \cup {0}
      BY BoundsAssumption DEF Configs
    <2>3. 1..round \subseteq Rounds
      BY <2>1, BoundsAssumption DEF RoundsType, Rounds
    <2> QED BY <2>1, <2>2, <2>3 DEF TypeOK, LinkInv, RoundsType, ConfigInv
  <1> QED BY <1>1, InitInv, NextInv, PTL DEF Spec

\* Every reply finds its round, its keys and its conversations: the rounds map
\* is keyed by number, and numbers come again after a crash of the coordinator,
\* but a round is answered once and only on the connection it was sent on.
THEOREM RepliesAreExpected == Spec => []ReplyExpected
  <1>1. ClientInv => ReplyExpected
    BY DEF ClientInv, ReplyInv, ReplyExpected, Awaited
  <1> QED BY <1>1, InitInv, NextInv, PTL DEF Spec

\* No onion is mixed under another config than the one it was sealed for, also
\* when a goroutine outlives its connection and its round's number is reused.
THEOREM OnionsMatch == Spec => []OnionsMatchConfig
  <1>1. ClientInv => OnionsMatchConfig
    BY DEF ClientInv, NumberInv
  <1> QED BY <1>1, InitInv, NextInv, PTL DEF Spec

\* The goroutine of an earlier connection, which sets conn to nil without
\* looking, is done before the next connection is made.
THEOREM ConnIsCurrent == Spec => []ConnCurrent
  <1>1. ClientInv => ConnCurrent
    BY DEF ClientInv, LinkInv, ConnCurrent
  <1> QED BY <1>1, InitInv, NextInv, PTL DEF Spec

\* A client that was cut short while it generated its identity never ends up
\* with another identity than the one the PKG servers hold for its name.
THEOREM IdentityIsKept == Spec => []RegisteredIdentityKept
  <1>1. ClientInv => RegisteredIdentityKept
    BY DEF ClientInv, IdentityInv
  <1> QED BY <1>1, InitInv, NextInv, PTL DEF Spec

\* However many goroutines register at a time, the one that starts the connect
\* loop has seen every server hold the running client's identity.
THEOREM ConnectsWhenRegistered == Spec => []ConnectsRegistered
  <1>1. ClientInv => ConnectsRegistered
    BY DEF ClientInv, IdentityInv
  <1> QED BY <1>1, InitInv, NextInv, PTL DEF Spec

\* No step of a running client takes its config or its file back to an older
\* one.
THEOREM ConfigsGoForward == Spec => ConfigForward
  <1>1. ClientInv /\ [Next]_vars => [(config' # 0 => config' >= config) /\ disk' >= disk]_clientVars
    BY ConfigStep
  <1> QED BY <1>1, InitInv, NextInv, PTL DEF Spec, ConfigForward
=============================================================================

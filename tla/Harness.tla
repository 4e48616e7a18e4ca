------------------------------- MODULE Harness -------------------------------
(***************************************************************************)
(* The in-process stand-up of all services (internal/testharness): New      *)
(* starts one component after another, any of which may fail, and notes for *)
(* each what Close has to do; Close does it in reverse.  What exists outside *)
(* of memory is a set of resources: directories, listeners, servers,        *)
(* published configs, and the sockets of the clients (TestClient).  The     *)
(* servers themselves are modelled elsewhere (Coordinator, MixChain) or     *)
(* external (package neverlur).                                             *)
(***************************************************************************)
EXTENDS Integers, Sequences, SequencesExt

CONSTANTS
    Clients,        \* the clients made with ClientFor
    NumMixers       \* options.gjallarhornMixers

ASSUME HarnessAssumption == NumMixers \in Nat

VARIABLES
    up,             \* the resources that exist
    started,        \* how many of the start steps New has taken
    cleanups        \* Harness.cleanups not yet run; one is the set it takes down

harnessVars == <<up, started, cleanups>>

Res(kind)       == <<kind, 0>>
Dir(c)          == <<"dir", c>>
Socket(c, s)    == <<s, c>>
TmpDir          == Res("tmpDir")
Services        == <<"AddFriend", "Dialing", "Convo">>
Sockets(c)      == {Socket(c, s) : s \in ToSet(Services)}
Dirs            == {TmpDir} \cup {Dir(c) : c \in Clients}
ConvoMixers     == {<<"convoMixer", i>> : i \in 1..NumMixers}
Configs         == {Res("AddFriend config"), Res("Dialing config"), Res("Convo config")}

-----------------------------------------------------------------------------
\* A step of New: what it brings up, which cleanups it appends, and whether
\* the code has an error path for it.
Step(opens, appends, fails) == [opens |-> opens, appends |-> appends, fails |-> fails]

\* A component with a cleanup of its own.
Component(kind, fails) == Step({Res(kind)}, <<{Res(kind)}>>, fails)

\* Mutant: only the coordinator started last is noted for Close.
CoordinatorCleanups_One == <<{Res("dialing")}>>

\* Both coordinators are noted once both are running.
CoordinatorCleanups == <<{Res("dialing")}, {Res("addFriend")}>>

\* Sign a config with the harness guardian and publish it.
PublishConfig(service) == Step({Res(service)}, <<>>, TRUE)

\* Closing an HTTP server closes the listener it serves; a config is there as
\* long as the config server is.
NeverlurServers ==
    << Step({Res("cfgHTTP")}, <<{Res("cfgHTTP")} \cup Configs>>, TRUE),
       Step({Res("coordListener")}, <<>>, TRUE),
       Component("cdn", FALSE),
       Component("mixchain", FALSE),
       Component("pkg", TRUE) >>

NeverlurConfigs == << PublishConfig("AddFriend config"), PublishConfig("Dialing config") >>

NeverlurCoordinators ==
    << Step({Res("addFriend")}, <<>>, TRUE),
       Step({Res("dialing")}, CoordinatorCleanups, TRUE),
       Step({Res("coordHTTP")}, <<{Res("coordHTTP"), Res("coordListener")}>>, FALSE) >>

startNeverlurSide == NeverlurServers \o NeverlurConfigs \o NeverlurCoordinators

\* One listener after another; the mixers serve on them once all are there.
launchConvoMixchain ==
    [i \in 1..NumMixers |-> Step({<<"convoMixer", i>>}, <<>>, TRUE)]

startGjallarhornSide ==
    << Step({Res("convoListener")}, <<>>, TRUE) >>
    \o launchConvoMixchain \o
    << Step({}, <<ConvoMixers>>, FALSE),
       PublishConfig("Convo config"),
       Component("convoSrv", TRUE),
       Step({Res("convoHTTP")}, <<{Res("convoHTTP"), Res("convoListener")}>>, FALSE) >>

StartSteps == startNeverlurSide \o startGjallarhornSide

HarnessInit == up = {} /\ started = 0 /\ cleanups = <<>>

Running == started = Len(StartSteps)

\* New takes its next step ...
StartNext ==
    /\ started < Len(StartSteps)
    /\ started'  = started + 1
    /\ up'       = up \cup StartSteps[started + 1].opens
    /\ cleanups' = cleanups \o StartSteps[started + 1].appends

\* ... or finds that it fails.  Nothing New started is taken down.
StartFails ==
    /\ started < Len(StartSteps) /\ StartSteps[started + 1].fails
    /\ UNCHANGED harnessVars

\* Mutant: Close goes through the cleanups in the order of their starts.
CloseNext_Forward ==
    /\ cleanups # <<>>
    /\ up'       = up \ Head(cleanups)
    /\ cleanups' = Tail(cleanups)
    /\ UNCHANGED started

\* One iteration of Close.  closeOnce: no cleanup runs a second time.
CloseNext ==
    /\ cleanups # <<>>
    /\ up'       = up \ Last(cleanups)
    /\ cleanups' = Front(cleanups)
    /\ UNCHANGED started

Closed == cleanups = <<>> /\ UNCHANGED harnessVars

-----------------------------------------------------------------------------
\* What a resource works with: the directory its state is in, the config a
\* coordinator fetches and the servers that config names, the coordinator
\* behind an HTTP server, and the HTTP server a client is connected to.
Uses(x) ==
    CASE x[1] \in {"cfgHTTP", "cdn"} -> {TmpDir}
      [] x[1] = "addFriend" -> {TmpDir, Res("AddFriend config"), Res("cdn"), Res("mixchain"), Res("pkg")}
      [] x[1] = "dialing"   -> {TmpDir, Res("Dialing config"), Res("cdn"), Res("mixchain")}
      [] x[1] = "coordHTTP" -> {Res("coordListener"), Res("addFriend"), Res("dialing")}
      [] x[1] = "convoSrv"  -> {TmpDir, Res("Convo config")} \cup ConvoMixers
      [] x[1] = "convoHTTP" -> {Res("convoListener"), Res("convoSrv")}
      [] x[1] \in {"AddFriend", "Dialing"} -> {Res("coordHTTP"), Dir(x[2])}
      [] x[1] = "Convo"     -> {Res("convoHTTP"), Dir(x[2])}
      [] OTHER -> {}
=============================================================================

-------------------------------- MODULE Demo --------------------------------
(***************************************************************************)
(* The scripted conversation of cmd/gjallarhorn-conversation-demo, which is *)
(* also that of e2e/first_message_test.go: main boots the harness, makes    *)
(* and starts two clients, lets them become friends, calls, sends one text  *)
(* and compares the first message the callee gets with it.  It runs beside  *)
(* the rounds of the services and the callbacks of the clients.             *)
(*                                                                          *)
(* The program may end in four ways: main returns, main calls log.Fatalf    *)
(* (which runs no deferred function), the harness calls tb.Fatalf (which    *)
(* runs the cleanups first), or a panic unwinds main.  up is what the       *)
(* program has left then, before the operating system takes it away.        *)
(***************************************************************************)
EXTENDS TestClient

CONSTANTS
    caller, callee, \* alice and bob
    MaxDrops        \* bound: sockets that drop

ASSUME DemoAssumption ==
    /\ Clients = {caller, callee} /\ caller # callee /\ Peer[caller] = callee
    /\ MaxDrops \in Nat

VARIABLES
    pc,             \* where main is
    ending,         \* how the program ends ("": not decided)
    connected,      \* sockets the running Start has connected
    tbCleanups,     \* stdoutTB.cleanups not yet run
    handshake,      \* the add-friend and dialing layers (external)
    friends,        \* friends[c]: c has its peer as a friend
    got,            \* the first message main took from RecvCh
    drops           \* sockets dropped so far

scriptVars == <<pc, ending, connected, tbCleanups>>
layerVars  == <<handshake, friends>>

vars == <<harnessVars, testClientVars, scriptVars, layerVars, got, drops>>

Body    == 1
Nothing == -1

Init ==
    /\ HarnessInit /\ TestClientInit
    /\ pc = "tmpDir" /\ ending = "" /\ connected = 0 /\ tbCleanups = <<>>
    /\ handshake = "none" /\ friends = [c \in Clients |-> FALSE]
    /\ got = Nothing /\ drops = 0

\* main moves on; what it leaves alone.
Goto(to) == pc' = to
quiet    == UNCHANGED <<testClientVars, layerVars, got, drops>>

-----------------------------------------------------------------------------
(* stdoutTB. *)

\* A cleanup is named after what it removes; h.Close after the harness.
TempDir(d) ==
    /\ up' = up \cup {d}
    /\ tbCleanups' = Append(tbCleanups, d)

HarnessClose == Res("harness")

\* Fatalf runs the cleanups and leaves.
Fatalf == ending' = "tb.Fatalf" /\ Goto("cleanup")

\* runCleanups, last one first.  Removing a directory is one step, h.Close
\* one per component.
RunCleanup ==
    /\ pc = "cleanup" /\ tbCleanups # <<>>
    /\ \/ /\ Last(tbCleanups) # HarnessClose
          /\ up' = up \ {Last(tbCleanups)}
          /\ tbCleanups' = Front(tbCleanups)
          /\ UNCHANGED <<started, cleanups>>
       \/ Last(tbCleanups) = HarnessClose /\ CloseNext /\ UNCHANGED tbCleanups
       \/ Last(tbCleanups) = HarnessClose /\ Closed /\ tbCleanups' = Front(tbCleanups)
    /\ UNCHANGED <<pc, ending, connected>>
    /\ quiet

CleanedUp ==
    /\ pc = "cleanup" /\ tbCleanups = <<>>
    /\ Goto("exit")
    /\ UNCHANGED <<harnessVars, ending, connected, tbCleanups>>
    /\ quiet

-----------------------------------------------------------------------------
(* New, ClientFor and Start. *)

MakeTmpDir ==
    /\ pc = "tmpDir"
    /\ \/ TempDir(TmpDir) /\ Goto("new") /\ UNCHANGED ending
       \/ Fatalf /\ UNCHANGED <<up, tbCleanups>>
    /\ UNCHANGED <<started, cleanups, connected>>
    /\ quiet

\* The harness's Close is registered when everything has started.
New ==
    /\ pc = "new"
    /\ \/ StartNext /\ UNCHANGED <<pc, ending, tbCleanups>>
       \/ StartFails /\ Fatalf /\ UNCHANGED tbCleanups
       \/ /\ Running
          /\ tbCleanups' = Append(tbCleanups, HarnessClose)
          /\ Goto("caller")
          /\ UNCHANGED <<harnessVars, ending>>
    /\ UNCHANGED connected
    /\ quiet

\* A key or the directory cannot be made, or the client cannot bootstrap or
\* register with the PKG, for which it has its directory already.
ClientFor(c, next) ==
    /\ \/ TempDir(Dir(c)) /\ ((Goto(next) /\ UNCHANGED ending) \/ Fatalf)
       \/ Fatalf /\ UNCHANGED <<up, tbCleanups>>
    /\ UNCHANGED <<started, cleanups, connected>>
    /\ quiet

MakeCaller == pc = "caller" /\ ClientFor(caller, "callee")
MakeCallee == pc = "callee" /\ ClientFor(callee, "startCaller")

\* Start(c) connects one socket after another and closes what it has when one
\* fails.
StartClient(c, next) ==
    /\ \/ /\ connected < Len(Services)
          /\ Connect(c, connected)
          /\ connected' = connected + 1
          /\ UNCHANGED pc
       \/ /\ connected < Len(Services)
          /\ Rollback(c, connected)
          /\ connected' = 0
          /\ Goto(IF c = caller THEN "callerFailed" ELSE "calleeFailed")
       \/ /\ connected = Len(Services)
          /\ connected' = 0
          /\ Goto(next)
          /\ UNCHANGED up
    /\ UNCHANGED <<started, cleanups, ending, tbCleanups>>
    /\ quiet

StartCaller == pc = "startCaller" /\ StartClient(caller, "startCallee")
StartCallee == pc = "startCallee" /\ StartClient(callee, "befriend")

-----------------------------------------------------------------------------
(* The scripted conversation.  A wait ends when what it waits for is there  *)
(* or, as all other calls that may fail, in log.Fatalf.                     *)

\* A statement of the script that only moves main and the layers below.
Script(from, to) ==
    /\ pc = from /\ Goto(to)
    /\ UNCHANGED <<harnessVars, testClientVars, ending, connected, tbCleanups, friends, got, drops>>

SendFriendRequest == Script("befriend", "waitRequest") /\ handshake' = "requested"

Approve ==
    /\ handshake = "received"
    /\ Script("waitRequest", "waitFriends") /\ handshake' = "approved"

BothFriends == \A c \in Clients : friends[c]

WaitFriends == BothFriends /\ Script("waitFriends", "call") /\ UNCHANGED handshake

Call == Script("call", "waitState") /\ handshake' = "calling"

\* Both nil checks see a type word.
BothStates == \A c \in Clients : ConvoState[c].word # "nil"

WaitConvoState == BothStates /\ Script("waitState", "show") /\ UNCHANGED handshake

\* main prints the states: a method call on a torn value panics, and the
\* deferred functions run.
ShowStates ==
    /\ pc = "show"
    /\ \/ /\ \A c \in Clients : ConvoState[c].word = "set"
          /\ Goto("send") /\ UNCHANGED ending
       \/ /\ \E c \in Clients : ConvoState[c].word = "torn"
          /\ Goto("stopCallee") /\ ending' = "panic"
    /\ UNCHANGED <<harnessVars, connected, tbCleanups>>
    /\ quiet

Send ==
    /\ pc = "send"
    /\ SendMessage(caller, Body)
    /\ Goto("receive")
    /\ UNCHANGED <<harnessVars, ending, connected, tbCleanups, layerVars, got, drops>>

\* The message is taken; if it is another one, main ends in log.Fatalf.
Receive ==
    /\ pc = "receive" /\ recvCh[callee] # <<>>
    /\ recvCh' = [recvCh EXCEPT ![callee] = Tail(@)]
    /\ got'    = Head(recvCh[callee]).Body
    /\ IF got' = Body THEN ending' = "return" /\ Goto("stopCallee")
                      ELSE ending' = "log.Fatalf" /\ Goto("exit")
    /\ UNCHANGED <<harnessVars, ConvoState, outQueue, convoRounds, sent, connected, tbCleanups,
                   layerVars, drops>>

\* Mutant: main waits for the message for ever.
MayFail_NoTimeout ==
    {"caller", "startCaller", "callerFailed", "calleeFailed", "befriend", "waitRequest",
     "waitFriends", "call", "waitState"}

\* Where main may call log.Fatalf: bindings that do not verify, calls that
\* return an error, and waits that time out.
MayFail ==
    {"caller", "startCaller", "callerFailed", "calleeFailed", "befriend", "waitRequest",
     "waitFriends", "call", "waitState", "receive"}

LogFatalf ==
    /\ pc \in MayFail
    /\ pc = "startCaller" => connected = 0
    /\ pc = "waitFriends" => ~BothFriends
    /\ pc = "waitState" => ~BothStates
    /\ ending' = "log.Fatalf" /\ Goto("exit")
    /\ UNCHANGED <<harnessVars, connected, tbCleanups>>
    /\ quiet

\* The deferred functions of main, last one first.
StopClient(c, from, to) ==
    /\ pc = from
    /\ Stop(c)
    /\ Goto(to)
    /\ UNCHANGED <<started, cleanups, ending, connected, tbCleanups>>
    /\ quiet

StopCallee == StopClient(callee, "stopCallee", "stopCaller")
StopCaller == StopClient(caller, "stopCaller", "cleanup")

Main ==
    \/ MakeTmpDir \/ New \/ MakeCaller \/ MakeCallee
    \/ StartCaller \/ StartCallee
    \/ SendFriendRequest \/ Approve \/ WaitFriends \/ Call \/ WaitConvoState
    \/ ShowStates \/ Send \/ Receive \/ LogFatalf
    \/ StopCallee \/ StopCaller \/ RunCleanup \/ CleanedUp

-----------------------------------------------------------------------------
(* The add-friend and dialing layers (external): each step needs the socket *)
(* of the client it happens at.                                             *)

Layer(c, s) ==
    /\ Socket(c, s) \in up
    /\ UNCHANGED <<harnessVars, outQueue, recvCh, convoRounds, sent, scriptVars, got, drops>>

\* The request is pushed on the callee's channel, which is never full here.
ReceivedFriendRequest ==
    /\ Layer(callee, "AddFriend") /\ handshake = "requested"
    /\ handshake' = "received"
    /\ UNCHANGED <<friends, ConvoState>>

ConfirmedFriend(c) ==
    /\ Layer(c, "AddFriend") /\ handshake = "approved" /\ ~friends[c]
    /\ friends' = [friends EXCEPT ![c] = TRUE]
    /\ UNCHANGED <<handshake, ConvoState>>

\* The call is sent in a dialing round, and received after that; r is where
\* its key wheel starts.
CallWord(c) ==
    /\ Layer(c, "Dialing") /\ handshake = "calling"
    /\ c = callee => ConvoState[caller].word = "set"
    /\ StoreWord(c)
    /\ UNCHANGED layerVars

SendingCall(r) ==
    /\ Layer(caller, "Dialing") /\ StoreState(caller, 1, r)
    /\ UNCHANGED layerVars

ReceivedCall ==
    /\ Layer(callee, "Dialing") /\ StoreState(callee, 1, ConvoState[caller].round)
    /\ UNCHANGED layerVars

Layers ==
    \/ ReceivedFriendRequest \/ ReceivedCall
    \/ \E c \in Clients : ConfirmedFriend(c) \/ CallWord(c)
    \/ \E r \in Rounds : SendingCall(r)

Drop(c, s) ==
    /\ drops < MaxDrops /\ drops' = drops + 1
    /\ Disconnect(c, s)
    /\ UNCHANGED <<scriptVars, layerVars, got>>

Live == pc # "exit"

Next ==
    \/ Main
    \/ Live /\ Layers
    \/ Live /\ ConvoNext /\ UNCHANGED <<scriptVars, layerVars, got, drops>>
    \/ Live /\ \E c \in Clients, s \in ToSet(Services) : Drop(c, s)

\* main is a running goroutine, and none of its waits is without a timeout.
Spec     == Init /\ [][Next]_vars
FairSpec == Spec /\ WF_vars(Main)

-----------------------------------------------------------------------------
\* The variables have their types; RecvCh never holds more than it has room
\* for.
TypeOK ==
    /\ started \in 0..Len(StartSteps) /\ connected \in 0..Len(Services)
    /\ ConvoState \in [Clients -> {NilState, TornState} \cup {State(1, r) : r \in Rounds}]
    /\ \A c \in Clients : /\ outQueue[c] \in Seq({Body})
                          /\ recvCh[c] \in Seq(Incoming) /\ Len(recvCh[c]) <= RecvCap
    /\ latest \in 0..MaxRound /\ mixed \subseteq Rounds /\ deposits \subseteq Message
    /\ ending \in {"", "return", "log.Fatalf", "tb.Fatalf", "panic"}
    /\ got \in {Nothing, Cover, Body}

\* Once New is past a component, and until it is closed, everything that
\* component works with is there: New starts and Close stops them in orders
\* that fit together, clients are stopped before servers, and directories go
\* last.  The one exception is a harness whose New failed.
DependenciesUp ==
    Running \/ ending = "" => \A x \in up : Uses(x) \subseteq up

\* Nothing half-open is left: a Start that returns an error has closed every
\* socket it had opened, and a program that does not end in main's own
\* log.Fatalf leaves no directory behind and, if New had returned, no server,
\* listener or socket either (Stop, Close and the cleanups).
CleanExit ==
    /\ pc = "callerFailed" => up \cap Sockets(caller) = {}
    /\ pc = "calleeFailed" => up \cap Sockets(callee) = {}
    /\ pc = "exit" /\ ending # "log.Fatalf" =>
         up \cap Dirs = {} /\ (Running => up = {})

\* How often the text exists: in the queue, at the coordinator, on the way
\* back, in RecvCh and with main.
Copies(t) ==
    LET In(s) == Cardinality({i \in DOMAIN s : s[i] = t})
        Read(s) == Cardinality({i \in DOMAIN s : s[i].Body = t})
    IN  In(outQueue[caller]) + In(outQueue[callee])
        + Cardinality({m \in deposits : m.body = t})
        + Cardinality({rp \in replies : rp.msg.body = t})
        + Read(recvCh[caller]) + Read(recvCh[callee])
        + (IF got = t THEN 1 ELSE 0)

\* A text is in one place at most, from SendMessage to RecvCh, with
\* overlapping rounds, lost onions and dropped sockets: it is never sent in
\* two rounds.
SentOnce == Copies(Body) <= 1

\* A text on RecvCh was sent by the peer it is attributed to, although a
\* client that is alone in its dead drop gets its own message back.
FromPeer ==
    \A c \in Clients : \A i \in DOMAIN recvCh[c] :
        LET m == recvCh[c][i] IN m.Body # Cover => m.Body \in sent[m.FromPeer]

\* The program ends, whatever is lost, late or torn.
ScriptEnds == <>(pc = "exit")

\* "wait for bob.RecvCh; assert plaintext matches" (main.go, step g): the
\* first message bob gets is the text alice sent.
FirstMessageIsText == got \in {Nothing, Body}
=============================================================================

----------------------------- MODULE DemoProofs -----------------------------
(***************************************************************************)
(* Proofs about Demo (with TestClient and Harness), for every number of     *)
(* mixers, rounds, flights and dropped sockets, and every capacity of       *)
(* RecvCh.                                                                  *)
(***************************************************************************)
EXTENDS Demo, FiniteSetTheorems, TLAPS

-----------------------------------------------------------------------------
(* Types. *)

Bodies == {Cover, Body}
Msg    == [from : Clients, round : Rounds, call : {0, 1}, body : Bodies]
InMsg  == [FromPeer : Clients, Body : Bodies, Round : Rounds]
States == {NilState, TornState} \cup {State(1, r) : r \in Rounds}

DataType ==
    /\ ConvoState \in [Clients -> States]
    /\ outQueue \in [Clients -> Seq({Body})]
    /\ recvCh \in [Clients -> Seq(InMsg)]
    /\ sent \in [Clients -> SUBSET {Body}]
    /\ latest \in 0..MaxRound /\ mixed \subseteq Rounds /\ done \in [Clients -> SUBSET Rounds]
    /\ deposits \subseteq Msg /\ replies \subseteq [to : Clients, msg : Msg]
    /\ got \in {Nothing, Cover, Body}

RoomType == \A c \in Clients : Len(recvCh[c]) <= RecvCap

ScriptType ==
    /\ started \in 0..Len(StartSteps) /\ connected \in 0..Len(Services)
    /\ ending \in {"", "return", "log.Fatalf", "tb.Fatalf", "panic"}

\* The two clients are each other's peers.
LEMMA PeerFacts ==
  /\ caller \in Clients /\ callee \in Clients /\ caller # callee
  /\ Peer[caller] = callee /\ Peer[callee] = caller
  /\ \A c \in Clients : c = caller \/ c = callee
  /\ \A c, d \in Clients : d # c => d = Peer[c]
  BY DemoAssumption, TestClientAssumption

-----------------------------------------------------------------------------
(* The steps, by what they change of the clients' data. *)

DataVars == <<clientVars, convoRounds, sent, got>>

LEMMA StepCases ==
  ASSUME [Next]_vars
  PROVE  \/ UNCHANGED DataVars
         \/ Send \/ Receive
         \/ \E c \in Clients : CallWord(c)
         \/ \E r \in Rounds : SendingCall(r)
         \/ ReceivedCall
         \/ /\ UNCHANGED <<scriptVars, layerVars, got, drops>>
            /\ \/ Announce
               \/ \E r \in Rounds : Mix(r)
               \/ \E c \in Clients, r \in Rounds, intime \in BOOLEAN : Outgoing(c, r, intime)
               \/ \E rp \in replies : Replies(rp.to, rp.msg)
  <1> USE DEF DataVars, clientVars, convoRounds, testClientVars, quiet
  <1>1. CASE UNCHANGED vars BY <1>1 DEF vars
  <1>2. CASE MakeTmpDir \/ New \/ MakeCaller \/ MakeCallee
    BY <1>2 DEF MakeTmpDir, New, MakeCaller, MakeCallee, ClientFor
  <1>3. CASE StartCaller \/ StartCallee
    BY <1>3 DEF StartCaller, StartCallee, StartClient
  <1>4. CASE SendFriendRequest \/ Approve \/ WaitFriends \/ Call \/ WaitConvoState
    BY <1>4 DEF SendFriendRequest, Approve, WaitFriends, Call, WaitConvoState, Script
  <1>5. CASE ShowStates \/ LogFatalf \/ StopCallee \/ StopCaller \/ RunCleanup \/ CleanedUp
    BY <1>5 DEF ShowStates, LogFatalf, StopCallee, StopCaller, StopClient, RunCleanup, CleanedUp
  <1>6. CASE ReceivedFriendRequest \/ \E c \in Clients : ConfirmedFriend(c)
    BY <1>6 DEF ReceivedFriendRequest, ConfirmedFriend, Layer
  <1>7. CASE \E c \in Clients, s \in ToSet(Services) : Drop(c, s)
    BY <1>7 DEF Drop, Disconnect
  <1>8. CASE Main
    BY <1>2, <1>3, <1>4, <1>5, <1>8 DEF Main
  <1>9. CASE Layers
    BY <1>6, <1>9 DEF Layers
  <1>10. CASE ConvoNext /\ UNCHANGED <<scriptVars, layerVars, got, drops>>
    BY <1>10 DEF ConvoNext
  <1> QED BY <1>1, <1>7, <1>8, <1>9, <1>10 DEF Next

LEMMA MessageType ==
  ASSUME DataType, NEW c \in Clients, NEW r \in Rounds
  PROVE  /\ MessageOf(c, r) \in Msg
         /\ MessageOf(c, r).from = c /\ MessageOf(c, r).round = r
         /\ MessageOf(c, r).body = Body =>
              ConvoState[c].word = "set" /\ outQueue[c] # <<>>
  <1>1. ConvoState[c].call \in {0, 1}
    BY DEF DataType, States, NilState, TornState, State
  <1>2. outQueue[c] \in Seq({Body}) BY DEF DataType
  <1>3. outQueue[c] # <<>> => Head(outQueue[c]) = Body
    BY <1>2
  <1>4. Body # Cover BY DEF Body, Cover
  <1>5. Sealed(c, r) \in Msg /\ coverDeadDrop(c, r) \in Msg
    BY <1>1, <1>3 DEF Sealed, coverDeadDrop, Msg, Bodies
  <1>6. /\ Sealed(c, r).from = c /\ Sealed(c, r).round = r
        /\ coverDeadDrop(c, r).from = c /\ coverDeadDrop(c, r).round = r
        /\ coverDeadDrop(c, r).body = Cover
        /\ outQueue[c] = <<>> => Sealed(c, r).body = Cover
    BY DEF Sealed, coverDeadDrop
  <1> QED BY <1>4, <1>5, <1>6 DEF MessageOf

\* A message is exchanged for one of the same round, its own or the peer's.
LEMMA ExchangedFacts ==
  ASSUME NEW m \in deposits
  PROVE  /\ Exchanged(m) \in deposits
         /\ Exchanged(m).round = m.round
         /\ Exchanged(m) = m \/ (Exchanged(m).from # m.from /\ Exchanged(m).call = m.call /\ m.call # 0)
         /\ (m.call # 0 /\ \E o \in deposits : o.round = m.round /\ o.call = m.call /\ o.from # m.from)
              => Exchanged(m).from # m.from
  BY DEF Exchanged

LEMMA DataTypeStep ==
  ASSUME DataType, RoomType, [Next]_vars
  PROVE  DataType' /\ RoomType'
  <1> USE DEF clientVars, convoRounds, testClientVars
  <1> USE DEF DataType
  <1>0. RecvCap \in Nat /\ MaxRound \in Nat BY TestClientAssumption
  <1>1. CASE UNCHANGED DataVars BY <1>1 DEF DataVars, RoomType
  <1>2. CASE Send
    <2>1. /\ outQueue' = [outQueue EXCEPT ![caller] = Append(@, Body)]
          /\ sent' = [sent EXCEPT ![caller] = @ \cup {Body}]
          /\ UNCHANGED <<ConvoState, recvCh, convoRounds, got>>
      BY <1>2 DEF Send, SendMessage
    <2>2. Append(outQueue[caller], Body) \in Seq({Body}) BY PeerFacts
    <2>3. outQueue' \in [Clients -> Seq({Body})] BY <2>1, <2>2
    <2>4. sent' \in [Clients -> SUBSET {Body}] BY <2>1
    <2>5. RoomType' BY <2>1 DEF RoomType
    <2> QED BY <2>1, <2>3, <2>4, <2>5
  <1>3. CASE Receive
    <2>1. /\ recvCh[callee] # <<>> /\ recvCh' = [recvCh EXCEPT ![callee] = Tail(@)]
          /\ got' = Head(recvCh[callee]).Body
          /\ UNCHANGED <<ConvoState, outQueue, convoRounds, sent>>
      BY <1>3 DEF Receive
    <2>2. recvCh[callee] \in Seq(InMsg) BY PeerFacts
    <2>3. Tail(recvCh[callee]) \in Seq(InMsg) /\ Head(recvCh[callee]) \in InMsg
      BY <2>1, <2>2
    <2>4. Len(Tail(recvCh[callee])) <= Len(recvCh[callee])
      BY <2>1, <2>2
    <2>5. got' \in {Nothing, Cover, Body} BY <2>1, <2>3 DEF InMsg, Bodies
    <2>6. recvCh' \in [Clients -> Seq(InMsg)] BY <2>1, <2>3
    <2>7. RoomType'
      <3> SUFFICES ASSUME NEW c \in Clients PROVE Len(recvCh'[c]) <= RecvCap
        BY DEF RoomType
      <3>1. Len(recvCh[c]) <= RecvCap BY DEF RoomType
      <3>2. CASE c # callee BY <2>1, <3>1, <3>2
      <3>3. CASE c = callee
        <4>1. recvCh'[c] = Tail(recvCh[callee]) BY <2>1, <3>3
        <4>2. Len(recvCh[callee]) \in Nat /\ Len(recvCh'[c]) \in Nat BY <2>2, <2>3, <4>1
        <4> QED BY <1>0, <2>4, <3>1, <3>3, <4>1, <4>2
      <3> QED BY <3>2, <3>3
    <2> QED BY <2>1, <2>5, <2>6, <2>7
  <1>4. CASE \/ \E c \in Clients : CallWord(c)
             \/ \E r \in Rounds : SendingCall(r)
             \/ ReceivedCall
    <2>1. UNCHANGED <<outQueue, recvCh, convoRounds, sent, got>>
      BY <1>4 DEF CallWord, SendingCall, ReceivedCall, Layer
    <2>2. TornState \in States /\ \A r \in Rounds : State(1, r) \in States BY DEF States
    <2>3. ConvoState[caller].round \in Rounds \cup {0}
      BY PeerFacts DEF States, NilState, TornState, State
    <2>4. ConvoState' \in [Clients -> States]
      <3>1. ASSUME NEW c \in Clients, CallWord(c) PROVE ConvoState' \in [Clients -> States]
        BY <2>2, <3>1 DEF CallWord, StoreWord
      <3>2. ASSUME NEW r \in Rounds, SendingCall(r) PROVE ConvoState' \in [Clients -> States]
        BY <2>2, <3>2 DEF SendingCall, StoreState
      <3>3. ASSUME ReceivedCall PROVE ConvoState' \in [Clients -> States]
        BY <2>2, <2>3, <3>3 DEF ReceivedCall, StoreState
      <3> QED BY <1>4, <3>1, <3>2, <3>3
    <2> QED BY <2>1, <2>4 DEF RoomType
  <1>5. ASSUME Announce, UNCHANGED got PROVE DataType' /\ RoomType'
    <2>1. /\ latest < MaxRound /\ latest' = latest + 1
          /\ UNCHANGED <<ConvoState, outQueue, recvCh, mixed, done, deposits, replies, sent>>
      BY <1>5 DEF Announce
    <2>2. latest' \in 0..MaxRound BY <1>0, <2>1
    <2> QED BY <1>5, <2>1, <2>2 DEF RoomType
  <1>6. ASSUME NEW r \in Rounds, Mix(r), UNCHANGED got PROVE DataType' /\ RoomType'
    <2>1. /\ mixed' = mixed \cup {r} /\ deposits' = {m \in deposits : m.round # r}
          /\ replies' = replies \cup {[to |-> m.from, msg |-> Exchanged(m)] :
                                        m \in {m \in deposits : m.round = r}}
          /\ UNCHANGED <<ConvoState, outQueue, recvCh, latest, done, sent>>
      BY <1>6 DEF Mix
    <2>2. \A m \in deposits : [to |-> m.from, msg |-> Exchanged(m)] \in [to : Clients, msg : Msg]
      BY ExchangedFacts DEF Msg
    <2>3. replies' \subseteq [to : Clients, msg : Msg] BY <2>1, <2>2
    <2> QED BY <1>6, <2>1, <2>3 DEF RoomType
  <1>7. ASSUME NEW c \in Clients, NEW r \in Rounds, NEW intime \in BOOLEAN, Outgoing(c, r, intime),
               UNCHANGED got
        PROVE  DataType' /\ RoomType'
    <2>1. /\ done' = [done EXCEPT ![c] = @ \cup {r}] /\ TakeText(c)
          /\ deposits' = IF intime THEN deposits \cup {MessageOf(c, r)} ELSE deposits
          /\ UNCHANGED <<ConvoState, recvCh, latest, mixed, replies, sent>>
      BY <1>7 DEF Outgoing
    <2>2. deposits' \subseteq Msg BY <2>1, MessageType
    <2>3. outQueue' \in [Clients -> Seq({Body})]
      <3>1. outQueue[c] # <<>> => Tail(outQueue[c]) \in Seq({Body}) OBVIOUS
      <3> QED BY <2>1, <3>1 DEF TakeText
    <2>4. done' \in [Clients -> SUBSET Rounds] BY <2>1
    <2> QED BY <1>7, <2>1, <2>2, <2>3, <2>4 DEF RoomType
  <1>8. ASSUME NEW rp \in replies, Replies(rp.to, rp.msg), UNCHANGED got PROVE DataType' /\ RoomType'
    <2> DEFINE c  == rp.to
               m  == rp.msg
               in == [FromPeer |-> Peer[c], Body |-> m.body, Round |-> m.round]
    <2>1. c \in Clients /\ m \in Msg /\ Peer[c] \in Clients BY TestClientAssumption
    <2>2. in \in InMsg BY <2>1 DEF InMsg, Msg
    <2>3. /\ recvCh' = IF Opens(c, m) /\ HasRoom(c)
                         THEN [recvCh EXCEPT ![c] = Append(@, in)] ELSE recvCh
          /\ replies' \subseteq replies
          /\ UNCHANGED <<ConvoState, outQueue, latest, mixed, done, deposits, sent>>
      BY <1>8 DEF Replies
    <2> HIDE DEF c, m, in
    <2>4. Append(recvCh[c], in) \in Seq(InMsg) /\ Len(Append(recvCh[c], in)) = Len(recvCh[c]) + 1
          /\ Len(recvCh[c]) \in Nat
      BY <2>1, <2>2
    <2>5. recvCh' \in [Clients -> Seq(InMsg)] BY <2>1, <2>3, <2>4
    <2>6. RoomType'
      <3> SUFFICES ASSUME NEW d \in Clients PROVE Len(recvCh'[d]) <= RecvCap
        BY DEF RoomType
      <3>1. Len(recvCh[d]) <= RecvCap BY DEF RoomType
      <3>2. CASE recvCh'[d] = recvCh[d] BY <3>1, <3>2
      <3>3. CASE recvCh'[d] # recvCh[d]
        <4>1. d = c /\ HasRoom(c) /\ recvCh'[c] = Append(recvCh[c], in) BY <2>1, <2>3, <3>3
        <4>2. Len(recvCh[c]) < RecvCap BY <4>1 DEF HasRoom
        <4> QED BY <1>0, <2>4, <4>1, <4>2
      <3> QED BY <3>2, <3>3
    <2> QED BY <1>8, <2>3, <2>5, <2>6
  <1> HIDE DEF DataType
  <1> QED BY StepCases, <1>1, <1>2, <1>3, <1>4, <1>5, <1>6, <1>7, <1>8, Zenon

-----------------------------------------------------------------------------
(* Where the text is. *)

PreSend == {"tmpDir", "new", "caller", "callee", "startCaller", "startCallee", "befriend", "waitRequest",
            "waitFriends", "call", "waitState", "show", "send"}

DepositsWith == {m \in deposits : m.body = Body}
RepliesWith  == {rp \in replies : rp.msg.body = Body}
ReadsWith(c) == {i \in DOMAIN recvCh[c] : recvCh[c][i].Body = Body}

\* Every text anywhere was sent by the client it comes from.
Origin ==
    /\ pc \in PreSend => sent[caller] = {}
    /\ sent[callee] = {}
    /\ \A c \in Clients : outQueue[c] # <<>> => Body \in sent[c]
    /\ \A m \in deposits : m.body = Body => Body \in sent[m.from]
    /\ \A rp \in replies : rp.msg.body = Body => Body \in sent[rp.msg.from]
    /\ \A c \in Clients : \A i \in DOMAIN recvCh[c] :
         recvCh[c][i].FromPeer = Peer[c] /\ (recvCh[c][i].Body = Body => Body \in sent[Peer[c]])
    /\ got = Body => Body \in sent[caller]

Unique(S) == \A x, y \in S : x = y

\* A client has one message at most in a round.
Deposited ==
    \A m \in deposits : /\ m.round \in done[m.from]
                        /\ \A n \in deposits : n.from = m.from /\ n.round = m.round => n = m

\* The text is in one place at most, and there only once.
Once ==
    /\ Len(outQueue[caller]) <= 1 /\ outQueue[callee] = <<>>
    /\ Unique(DepositsWith) /\ Unique(RepliesWith)
    /\ \A c \in Clients : Unique(ReadsWith(c))
    /\ outQueue[caller] # <<>> =>
         /\ DepositsWith = {} /\ RepliesWith = {} /\ \A c \in Clients : ReadsWith(c) = {}
         /\ got # Body
    /\ DepositsWith # {} => RepliesWith = {} /\ (\A c \in Clients : ReadsWith(c) = {}) /\ got # Body
    /\ RepliesWith # {} => (\A c \in Clients : ReadsWith(c) = {}) /\ got # Body
    /\ \A c \in Clients : ReadsWith(c) # {} => got # Body /\ \A d \in Clients : d # c => ReadsWith(d) = {}

\* main does not come back to where it has sent nothing.
LEMMA PreSendStep ==
  ASSUME [Next]_vars
  PROVE  Send \/ (sent' = sent /\ (pc' \in PreSend => pc \in PreSend))
  <1> USE DEF quiet, testClientVars, clientVars, convoRounds, scriptVars, PreSend, Goto, Fatalf
  <1>1. CASE UNCHANGED vars BY <1>1 DEF vars
  <1>2. CASE MakeTmpDir BY <1>2 DEF MakeTmpDir
  <1>3. CASE New BY <1>3 DEF New
  <1>4. CASE MakeCaller \/ MakeCallee BY <1>4 DEF MakeCaller, MakeCallee, ClientFor
  <1>5. CASE StartCaller \/ StartCallee BY <1>5 DEF StartCaller, StartCallee, StartClient
  <1>6. CASE SendFriendRequest \/ Approve \/ WaitFriends \/ Call \/ WaitConvoState
    BY <1>6 DEF SendFriendRequest, Approve, WaitFriends, Call, WaitConvoState, Script
  <1>7. CASE ShowStates \/ LogFatalf BY <1>7 DEF ShowStates, LogFatalf
  <1>8. CASE StopCallee \/ StopCaller \/ RunCleanup \/ CleanedUp
    BY <1>8 DEF StopCallee, StopCaller, StopClient, RunCleanup, CleanedUp
  <1>9. CASE Receive BY <1>9 DEF Receive
  <1>10. CASE Layers
    BY <1>10 DEF Layers, ReceivedFriendRequest, ReceivedCall, ConfirmedFriend, CallWord, SendingCall, Layer
  <1>11. CASE ConvoNext /\ UNCHANGED <<scriptVars, layerVars, got, drops>>
    BY <1>11 DEF ConvoNext, Announce, Mix, Outgoing, Replies
  <1>12. CASE \E c \in Clients, s \in ToSet(Services) : Drop(c, s)
    BY <1>12 DEF Drop, Disconnect
  <1> QED BY <1>1, <1>2, <1>3, <1>4, <1>5, <1>6, <1>7, <1>8, <1>9, <1>10, <1>11, <1>12 DEF Next, Main

\* Before main has sent it, the text is nowhere.
LEMMA NowhereBefore ==
  ASSUME DataType, Origin, sent[caller] = {}
  PROVE  /\ \A c \in Clients : outQueue[c] = <<>>
         /\ DepositsWith = {} /\ RepliesWith = {} /\ \A c \in Clients : ReadsWith(c) = {}
         /\ got # Body
  <1>1. \A c \in Clients : sent[c] = {} BY PeerFacts DEF Origin
  <1>2. \A m \in deposits : m.from \in Clients BY DEF DataType, Msg
  <1>3. \A rp \in replies : rp.msg.from \in Clients BY DEF DataType, Msg
  <1>4. \A c \in Clients : Peer[c] \in Clients BY TestClientAssumption
  <1> QED BY <1>1, <1>2, <1>3, <1>4, PeerFacts DEF Origin, DepositsWith, RepliesWith, ReadsWith

\* What a message that is read leaves on RecvCh.
LEMMA ReceivedOrigin ==
  ASSUME NEW s \in Seq(InMsg), s # <<>>
  PROVE  /\ Head(s) \in InMsg /\ Head(s) = s[1] /\ 1 \in DOMAIN s
         /\ DOMAIN Tail(s) = 1..(Len(s) - 1) /\ DOMAIN s = 1..Len(s) /\ Len(s) \in Nat
         /\ \A i \in DOMAIN Tail(s) : i + 1 \in DOMAIN s /\ Tail(s)[i] = s[i + 1]
  OBVIOUS

LEMMA OriginStep ==
  ASSUME DataType, Origin, [Next]_vars
  PROVE  Origin'
  <1> USE DEF clientVars, convoRounds, testClientVars
  <1>0. Send \/ (sent' = sent /\ (pc' \in PreSend => pc \in PreSend)) BY PreSendStep
  <1>1. CASE Send
    <2>1. /\ outQueue' = [outQueue EXCEPT ![caller] = Append(@, Body)]
          /\ sent' = [sent EXCEPT ![caller] = @ \cup {Body}]
          /\ pc' = "receive"
          /\ UNCHANGED <<recvCh, deposits, replies, got>>
      BY <1>1 DEF Send, SendMessage, Goto
    <2>2. sent'[callee] = {} /\ \A c \in Clients : sent[c] \subseteq sent'[c]
      BY <2>1, PeerFacts DEF Origin, DataType
    <2>3. \A c \in Clients : outQueue'[c] # <<>> => Body \in sent'[c]
      BY <2>1, <2>2 DEF Origin, DataType
    <2>4. /\ \A m \in deposits : m.from \in Clients
          /\ \A rp \in replies : rp.msg.from \in Clients
          /\ \A c \in Clients : Peer[c] \in Clients
      BY TestClientAssumption DEF DataType, Msg
    <2> QED BY <2>1, <2>2, <2>3, <2>4, PeerFacts DEF Origin, PreSend
  <1>2. CASE ~Send
    <2>0. sent' = sent /\ (pc' \in PreSend => pc \in PreSend) BY <1>0, <1>2
    <2>1. CASE UNCHANGED <<outQueue, recvCh, deposits, replies, got>>
      BY <2>0, <2>1 DEF Origin
    <2>2. CASE Receive
      <3>1. /\ recvCh[callee] # <<>> /\ recvCh' = [recvCh EXCEPT ![callee] = Tail(@)]
            /\ got' = Head(recvCh[callee]).Body
            /\ UNCHANGED <<outQueue, deposits, replies>>
        BY <2>2 DEF Receive
      <3>2. recvCh[callee] \in Seq(InMsg) /\ callee \in Clients BY PeerFacts DEF DataType
      <3>3. got' = Body => Body \in sent[caller]
        <4>1. got' = recvCh[callee][1].Body /\ 1 \in DOMAIN recvCh[callee]
          BY <3>1, <3>2, ReceivedOrigin
        <4> QED BY <3>2, <4>1, PeerFacts DEF Origin
      <3>4. ASSUME NEW c \in Clients, NEW i \in DOMAIN recvCh'[c]
            PROVE  /\ recvCh'[c][i].FromPeer = Peer[c]
                   /\ recvCh'[c][i].Body = Body => Body \in sent[Peer[c]]
        <4>1. CASE c # callee
          <5>1. recvCh'[c] = recvCh[c] BY <3>1, <4>1 DEF DataType
          <5> QED BY <5>1 DEF Origin
        <4>2. CASE c = callee
          <5>1. recvCh'[c] = Tail(recvCh[c]) BY <3>1, <4>2 DEF DataType
          <5>2. i + 1 \in DOMAIN recvCh[c] /\ recvCh'[c][i] = recvCh[c][i + 1]
            BY <3>1, <3>2, <4>2, <5>1, ReceivedOrigin
          <5> QED BY <5>2 DEF Origin
        <4> QED BY <4>1, <4>2
      <3> QED BY <2>0, <3>1, <3>3, <3>4 DEF Origin
    <2>3. ASSUME NEW r \in Rounds, Mix(r), UNCHANGED got PROVE Origin'
      <3>1. /\ deposits' \subseteq deposits
            /\ \A rp \in replies' : rp \in replies \/ rp.msg \in deposits
            /\ UNCHANGED <<outQueue, recvCh>>
        BY <2>3, ExchangedFacts DEF Mix
      <3> QED BY <2>0, <2>3, <3>1 DEF Origin
    <2>4. ASSUME NEW c \in Clients, NEW r \in Rounds, NEW intime \in BOOLEAN, Outgoing(c, r, intime),
                 UNCHANGED got
          PROVE  Origin'
      <3>1. /\ deposits' = IF intime THEN deposits \cup {MessageOf(c, r)} ELSE deposits
            /\ TakeText(c)
            /\ UNCHANGED <<recvCh, replies>>
        BY <2>4 DEF Outgoing
      <3>2. \A d \in Clients : outQueue'[d] # <<>> => outQueue[d] # <<>>
        BY <3>1 DEF TakeText, DataType
      <3>3. MessageOf(c, r).from = c /\ (MessageOf(c, r).body = Body => outQueue[c] # <<>>)
        BY MessageType
      <3>4. \A m \in deposits' : m.body = Body => Body \in sent[m.from]
        BY <3>1, <3>3 DEF Origin
      <3> QED BY <2>0, <2>4, <3>1, <3>2, <3>4 DEF Origin
    <2>5. ASSUME NEW rp \in replies, Replies(rp.to, rp.msg), UNCHANGED got PROVE Origin'
      <3> DEFINE c  == rp.to
                 m  == rp.msg
                 in == [FromPeer |-> Peer[c], Body |-> m.body, Round |-> m.round]
      <3>1. c \in Clients /\ m \in Msg /\ m.from \in Clients BY DEF DataType, Msg
      <3>2. /\ recvCh' = IF Opens(c, m) /\ HasRoom(c)
                           THEN [recvCh EXCEPT ![c] = Append(@, in)] ELSE recvCh
            /\ replies' \subseteq replies
            /\ UNCHANGED <<outQueue, deposits>>
        BY <2>5 DEF Replies
      <3>3. Opens(c, m) => m.from = Peer[c] BY <3>1, PeerFacts DEF Opens
      <3>4. in.FromPeer = Peer[c] /\ in.Body = m.body OBVIOUS
      <3>5. m.body = Body => Body \in sent[m.from] BY DEF Origin
      <3> HIDE DEF c, m, in
      <3>6. ASSUME NEW d \in Clients, NEW i \in DOMAIN recvCh'[d]
            PROVE  /\ recvCh'[d][i].FromPeer = Peer[d]
                   /\ recvCh'[d][i].Body = Body => Body \in sent[Peer[d]]
        <4>1. CASE recvCh'[d] = recvCh[d] BY <4>1 DEF Origin
        <4>2. CASE recvCh'[d] # recvCh[d]
          <5>1. d = c /\ Opens(c, m) /\ recvCh'[d] = Append(recvCh[d], in) BY <3>1, <3>2, <4>2 DEF DataType
          <5>2. recvCh[d] \in Seq(InMsg) BY DEF DataType
          <5>3. (i \in DOMAIN recvCh[d] /\ recvCh'[d][i] = recvCh[d][i]) \/ recvCh'[d][i] = in
            BY <5>1, <5>2
          <5> QED BY <3>3, <3>4, <3>5, <5>1, <5>3 DEF Origin
        <4> QED BY <4>1, <4>2
      <3> QED BY <2>0, <2>5, <3>2, <3>6 DEF Origin
    <2>6. CASE UNCHANGED DataVars BY <2>1, <2>6 DEF DataVars
    <2>7. CASE \/ \E c \in Clients : CallWord(c)
               \/ \E r \in Rounds : SendingCall(r)
               \/ ReceivedCall
      BY <2>1, <2>7 DEF CallWord, SendingCall, ReceivedCall, Layer
    <2>8. CASE Announce /\ UNCHANGED got BY <2>1, <2>8 DEF Announce
    <2> QED BY StepCases, <1>2, <2>2, <2>3, <2>4, <2>5, <2>6, <2>7, <2>8, Zenon
  <1> QED BY <1>1, <1>2

LEMMA DepositedStep ==
  ASSUME DataType, Deposited, [Next]_vars
  PROVE  Deposited'
  <1> USE DEF clientVars, convoRounds, testClientVars
  <1>1. CASE UNCHANGED <<deposits, done>> BY <1>1 DEF Deposited
  <1>2. ASSUME NEW r \in Rounds, Mix(r) PROVE Deposited'
    BY <1>2 DEF Mix, Deposited
  <1>3. ASSUME NEW c \in Clients, NEW r \in Rounds, NEW intime \in BOOLEAN, Outgoing(c, r, intime)
        PROVE  Deposited'
    <2>1. /\ r \notin done[c] /\ done' = [done EXCEPT ![c] = @ \cup {r}]
          /\ deposits' = IF intime THEN deposits \cup {MessageOf(c, r)} ELSE deposits
      BY <1>3 DEF Outgoing
    <2>2. MessageOf(c, r).from = c /\ MessageOf(c, r).round = r BY MessageType
    <2>3. /\ \A d \in Clients : done[d] \subseteq done'[d]
          /\ r \in done'[c]
      BY <2>1 DEF DataType
    <2>4. \A m \in deposits : m.from \in Clients BY DEF DataType, Msg
    <2>5. \A m \in deposits : ~(m.from = c /\ m.round = r) BY <2>1 DEF Deposited
    <2> QED BY <2>1, <2>2, <2>3, <2>4, <2>5 DEF Deposited
  <1>4. CASE Announce BY <1>1, <1>4 DEF Announce
  <1>5. CASE \E rp \in replies : Replies(rp.to, rp.msg) BY <1>1, <1>5 DEF Replies
  <1>6. CASE UNCHANGED DataVars BY <1>1, <1>6 DEF DataVars
  <1>7. CASE \/ \E c \in Clients : CallWord(c)
             \/ \E r \in Rounds : SendingCall(r)
             \/ ReceivedCall
    BY <1>1, <1>7 DEF CallWord, SendingCall, ReceivedCall, Layer
  <1>8. CASE Send \/ Receive BY <1>1, <1>8 DEF Send, Receive, SendMessage
  <1> QED BY StepCases, <1>2, <1>3, <1>4, <1>5, <1>6, <1>7, <1>8, Zenon

\* Two messages of a round are not exchanged for the same one.
LEMMA ExchangedOnce ==
  ASSUME DataType, Deposited,
         NEW m \in deposits, NEW n \in deposits, Exchanged(m) = Exchanged(n)
  PROVE  m = n
  <1> DEFINE d == Exchanged(m)
  <1>1. /\ d \in deposits /\ d.round = m.round /\ d.round = n.round
        /\ d = m \/ (d.from # m.from /\ d.call = m.call /\ m.call # 0)
        /\ d = n \/ (d.from # n.from /\ d.call = n.call /\ n.call # 0)
    BY ExchangedFacts
  <1>2. d.from \in Clients /\ m.from \in Clients /\ n.from \in Clients BY <1>1 DEF DataType, Msg
  <1>3. CASE d # m /\ d # n
    <2>1. m.from = n.from /\ m.round = n.round BY <1>1, <1>2, <1>3, PeerFacts
    <2> QED BY <2>1 DEF Deposited
  <1>4. CASE d = m /\ d # n
    <2>1. n.round = m.round /\ n.call = m.call /\ n.from # m.from /\ m.call # 0 BY <1>1, <1>4
    <2>2. Exchanged(m).from # m.from BY <2>1, ExchangedFacts
    <2> QED BY <1>4, <2>2
  <1>5. CASE d # m /\ d = n
    <2>1. m.round = n.round /\ m.call = n.call /\ m.from # n.from /\ n.call # 0 BY <1>1, <1>5
    <2>2. Exchanged(n).from # n.from BY <2>1, ExchangedFacts
    <2> QED BY <1>5, <2>2
  <1> QED BY <1>3, <1>4, <1>5

\* A queue of one text is empty when the text is taken.
LEMMA OneText ==
  ASSUME NEW s \in Seq({Body}), s # <<>>, Len(s) <= 1
  PROVE  Tail(s) = <<>>
  <1>1. Len(s) \in Nat /\ Len(s) # 0 OBVIOUS
  <1>2. Len(s) = 1
    <2>1. \A n \in Nat : n # 0 /\ n <= 1 => n = 1 OBVIOUS
    <2> QED BY <1>1, <2>1, Zenon
  <1>3. Tail(s) \in Seq({Body}) /\ Len(Tail(s)) = 0 BY <1>2
  <1> QED BY <1>3

LEMMA OnceStep ==
  ASSUME DataType, Origin, Deposited, Once, [Next]_vars
  PROVE  Once'
  <1> USE DEF clientVars, convoRounds, testClientVars
  <1>0. caller \in Clients /\ callee \in Clients /\ caller # callee BY PeerFacts
  <1>1. CASE UNCHANGED <<outQueue, recvCh, deposits, replies, got>>
    BY <1>1 DEF Once, Unique, DepositsWith, RepliesWith, ReadsWith
  <1>2. CASE Send
    <2>1. /\ pc = "send"
          /\ outQueue' = [outQueue EXCEPT ![caller] = Append(@, Body)]
          /\ UNCHANGED <<recvCh, deposits, replies, got>>
      BY <1>2 DEF Send, SendMessage
    <2>2. sent[caller] = {} BY <2>1 DEF Origin, PreSend
    <2>3. /\ \A c \in Clients : outQueue[c] = <<>>
          /\ DepositsWith = {} /\ RepliesWith = {} /\ \A c \in Clients : ReadsWith(c) = {}
          /\ got # Body
      BY <2>2, NowhereBefore
    <2>4. DepositsWith' = {} /\ RepliesWith' = {} /\ (\A c \in Clients : ReadsWith(c)' = {}) /\ got' # Body
      BY <2>1, <2>3 DEF DepositsWith, RepliesWith, ReadsWith
    <2>5. outQueue'[callee] = <<>> /\ Len(outQueue'[caller]) <= 1
      BY <1>0, <2>1, <2>3 DEF DataType
    <2> QED BY <2>4, <2>5 DEF Once, Unique
  <1>3. CASE Receive
    <2>1. /\ recvCh[callee] # <<>> /\ recvCh' = [recvCh EXCEPT ![callee] = Tail(@)]
          /\ got' = Head(recvCh[callee]).Body
          /\ UNCHANGED <<outQueue, deposits, replies>>
      BY <1>3 DEF Receive
    <2>2. recvCh[callee] \in Seq(InMsg) BY <1>0 DEF DataType
    <2>3. /\ 1 \in DOMAIN recvCh[callee] /\ got' = recvCh[callee][1].Body
          /\ DOMAIN recvCh'[callee] \subseteq Nat \ {0}
          /\ \A i \in DOMAIN recvCh'[callee] :
               i + 1 \in DOMAIN recvCh[callee] /\ recvCh'[callee][i] = recvCh[callee][i + 1]
      <3>1. recvCh'[callee] = Tail(recvCh[callee]) BY <1>0, <2>1 DEF DataType
      <3>2. /\ Head(recvCh[callee]) = recvCh[callee][1] /\ 1 \in DOMAIN recvCh[callee]
            /\ DOMAIN Tail(recvCh[callee]) = 1..(Len(recvCh[callee]) - 1) /\ Len(recvCh[callee]) \in Nat
            /\ \A i \in DOMAIN Tail(recvCh[callee]) :
                 i + 1 \in DOMAIN recvCh[callee] /\ Tail(recvCh[callee])[i] = recvCh[callee][i + 1]
        BY <1>0, <2>1, <2>2, ReceivedOrigin
      <3>3. DOMAIN Tail(recvCh[callee]) \subseteq Nat \ {0} BY <3>2
      <3> QED BY <2>1, <3>1, <3>2, <3>3
    <2>4. \A c \in Clients : c # callee => ReadsWith(c)' = ReadsWith(c)
      BY <2>1 DEF ReadsWith, DataType
    <2>5. \A i \in ReadsWith(callee)' : i \in Nat \ {0} /\ i + 1 \in ReadsWith(callee)
      BY <2>3 DEF ReadsWith
    <2>6. got' = Body => 1 \in ReadsWith(callee) BY <2>3 DEF ReadsWith
    <2>7. Unique(ReadsWith(callee)) BY <1>0 DEF Once
    <2>8. Unique(ReadsWith(callee)')
      <3> SUFFICES ASSUME NEW x \in ReadsWith(callee)', NEW y \in ReadsWith(callee)' PROVE x = y
        BY DEF Unique
      <3>1. x + 1 = y + 1 BY <2>5, <2>7 DEF Unique
      <3> QED BY <2>5, <3>1
    <2>9. got' = Body => ReadsWith(callee)' = {}
      <3> SUFFICES ASSUME got' = Body, NEW x \in ReadsWith(callee)' PROVE FALSE
        OBVIOUS
      <3>1. x + 1 = 1 BY <2>5, <2>6, <2>7 DEF Unique
      <3> QED BY <2>5, <3>1
    <2>10. DepositsWith' = DepositsWith /\ RepliesWith' = RepliesWith
      BY <2>1 DEF DepositsWith, RepliesWith
    <2>11. ReadsWith(callee)' # {} => ReadsWith(callee) # {} BY <2>5
    <2>12. \A c \in Clients : Unique(ReadsWith(c)') BY <2>4, <2>8 DEF Once
    <2>13. \A c \in Clients : ReadsWith(c)' # {} => ReadsWith(c) # {} BY <2>4, <2>11
    <2>14. got' = Body => /\ \A c \in Clients : ReadsWith(c)' = {}
                          /\ ReadsWith(callee) # {}
      BY <1>0, <2>4, <2>6, <2>9 DEF Once
    <2> HIDE DEF Once
    <2>15. /\ Len(outQueue'[caller]) <= 1 /\ outQueue'[callee] = <<>>
           /\ Unique(DepositsWith') /\ Unique(RepliesWith')
      BY <2>1, <2>10 DEF Once
    <2>16. outQueue'[caller] # <<>> =>
             /\ DepositsWith' = {} /\ RepliesWith' = {} /\ \A c \in Clients : ReadsWith(c)' = {}
             /\ got' # Body
      BY <1>0, <2>1, <2>10, <2>13, <2>14 DEF Once
    <2>17. DepositsWith' # {} => RepliesWith' = {} /\ (\A c \in Clients : ReadsWith(c)' = {}) /\ got' # Body
      BY <1>0, <2>1, <2>10, <2>13, <2>14 DEF Once
    <2>18. RepliesWith' # {} => (\A c \in Clients : ReadsWith(c)' = {}) /\ got' # Body
      BY <1>0, <2>1, <2>10, <2>13, <2>14 DEF Once
    <2>19. \A c \in Clients : ReadsWith(c)' # {} => got' # Body /\ \A d \in Clients : d # c => ReadsWith(d)' = {}
      BY <1>0, <2>13, <2>14 DEF Once
    <2> QED BY <2>12, <2>15, <2>16, <2>17, <2>18, <2>19 DEF Once, Unique
  <1>4. ASSUME NEW r \in Rounds, Mix(r), UNCHANGED got PROVE Once'
    <2>1. /\ deposits' = {m \in deposits : m.round # r}
          /\ replies' = replies \cup {[to |-> m.from, msg |-> Exchanged(m)] :
                                        m \in {m \in deposits : m.round = r}}
          /\ UNCHANGED <<outQueue, recvCh>>
      BY <1>4 DEF Mix
    <2>2. ReadsWith(caller)' = ReadsWith(caller) /\ \A c \in Clients : ReadsWith(c)' = ReadsWith(c)
      BY <2>1 DEF ReadsWith
    <2>3. DepositsWith' = {m \in DepositsWith : m.round # r}
      BY <2>1 DEF DepositsWith
    <2>4. \A rp \in RepliesWith' :
            rp \in RepliesWith
            \/ \E m \in deposits : /\ m.round = r /\ rp = [to |-> m.from, msg |-> Exchanged(m)]
                                   /\ Exchanged(m) \in DepositsWith /\ Exchanged(m).round = r
      <3> SUFFICES ASSUME NEW rp \in RepliesWith', rp \notin RepliesWith
                   PROVE  \E m \in deposits : /\ m.round = r /\ rp = [to |-> m.from, msg |-> Exchanged(m)]
                                              /\ Exchanged(m) \in DepositsWith /\ Exchanged(m).round = r
        OBVIOUS
      <3>1. rp \in replies' /\ rp \notin replies /\ rp.msg.body = Body BY DEF RepliesWith
      <3>2. PICK m \in deposits : m.round = r /\ rp = [to |-> m.from, msg |-> Exchanged(m)]
        BY <2>1, <3>1
      <3>3. rp.msg = Exchanged(m) BY <3>2
      <3>4. Exchanged(m) \in deposits /\ Exchanged(m).round = m.round BY ExchangedFacts
      <3> QED BY <3>1, <3>2, <3>3, <3>4 DEF DepositsWith
    <2>5. CASE \E d \in DepositsWith : d.round = r
      <3>1. PICK d \in DepositsWith : d.round = r BY <2>5
      <3>2. DepositsWith' = {} BY <2>3, <3>1 DEF Once, Unique
      <3>3. RepliesWith = {} /\ (\A c \in Clients : ReadsWith(c) = {}) /\ got # Body /\ outQueue[caller] = <<>>
        BY <3>1 DEF Once
      <3>4. Unique(RepliesWith')
        <4> SUFFICES ASSUME NEW x \in RepliesWith', NEW y \in RepliesWith' PROVE x = y
          BY DEF Unique
        <4>1. PICK m \in deposits : x = [to |-> m.from, msg |-> Exchanged(m)] /\ Exchanged(m) \in DepositsWith
          BY <2>4, <3>3
        <4>2. PICK n \in deposits : y = [to |-> n.from, msg |-> Exchanged(n)] /\ Exchanged(n) \in DepositsWith
          BY <2>4, <3>3
        <4>3. Exchanged(m) = Exchanged(n) BY <4>1, <4>2 DEF Once, Unique
        <4>4. m = n BY <4>3, ExchangedOnce
        <4> QED BY <4>1, <4>2, <4>4
      <3> QED BY <1>4, <2>1, <2>2, <3>2, <3>3, <3>4 DEF Once, Unique
    <2>6. CASE ~\E d \in DepositsWith : d.round = r
      <3>1. DepositsWith' = DepositsWith BY <2>3, <2>6
      <3>2. RepliesWith' \subseteq RepliesWith BY <2>4, <2>6
      <3>3. RepliesWith' = RepliesWith BY <2>1, <3>2 DEF RepliesWith
      <3> QED BY <1>4, <2>1, <2>2, <3>1, <3>3 DEF Once, Unique
    <2> QED BY <2>5, <2>6
  <1>5. ASSUME NEW c \in Clients, NEW r \in Rounds, NEW intime \in BOOLEAN, Outgoing(c, r, intime),
               UNCHANGED got
        PROVE  Once'
    <2>1. /\ deposits' = IF intime THEN deposits \cup {MessageOf(c, r)} ELSE deposits
          /\ TakeText(c)
          /\ UNCHANGED <<recvCh, replies>>
      BY <1>5 DEF Outgoing
    <2>2. MessageOf(c, r).body = Body => ConvoState[c].word = "set" /\ outQueue[c] # <<>> BY MessageType
    <2>3. RepliesWith' = RepliesWith /\ \A d \in Clients : ReadsWith(d)' = ReadsWith(d)
      BY <2>1 DEF RepliesWith, ReadsWith
    <2>4. DepositsWith' = DepositsWith \/ (DepositsWith' = DepositsWith \cup {MessageOf(c, r)}
                                           /\ MessageOf(c, r).body = Body)
      BY <2>1 DEF DepositsWith
    <2>5. outQueue[caller] \in Seq({Body}) /\ outQueue[callee] \in Seq({Body}) BY <1>0 DEF DataType
    <2>6. CASE ConvoState[c].word = "set" /\ outQueue[c] # <<>>
      <3>1. c = caller BY <2>6, PeerFacts DEF Once
      <3>2. outQueue'[caller] = Tail(outQueue[caller]) /\ outQueue'[callee] = outQueue[callee]
        BY <1>0, <2>1, <2>6, <3>1 DEF TakeText, DataType
      <3>3. Len(outQueue[caller]) <= 1 /\ outQueue[caller] # <<>> BY <2>6, <3>1 DEF Once
      <3>4. outQueue'[caller] = <<>> BY <2>5, <3>2, <3>3, OneText
      <3>5. Len(outQueue'[caller]) <= 1 BY <3>4
      <3>6. DepositsWith = {} /\ RepliesWith = {} /\ (\A d \in Clients : ReadsWith(d) = {}) /\ got # Body
        BY <2>6, <3>1 DEF Once
      <3>7. Unique(DepositsWith') BY <2>4, <3>6 DEF Unique
      <3>8. RepliesWith' = {} /\ (\A d \in Clients : ReadsWith(d)' = {}) /\ got' # Body
        BY <1>5, <2>3, <3>6
      <3>9. outQueue'[callee] = <<>> BY <3>2 DEF Once
      <3> QED BY <3>4, <3>5, <3>7, <3>8, <3>9 DEF Once, Unique
    <2>7. CASE ~(ConvoState[c].word = "set" /\ outQueue[c] # <<>>)
      <3>1. outQueue' = outQueue BY <2>1, <2>7 DEF TakeText
      <3>2. DepositsWith' = DepositsWith BY <2>2, <2>4, <2>7
      <3> QED BY <1>5, <2>3, <3>1, <3>2 DEF Once, Unique
    <2> QED BY <2>6, <2>7
  <1>6. ASSUME NEW rp \in replies, Replies(rp.to, rp.msg), UNCHANGED got PROVE Once'
    <2> DEFINE c  == rp.to
               m  == rp.msg
               in == [FromPeer |-> Peer[c], Body |-> m.body, Round |-> m.round]
    <2>1. c \in Clients /\ rp = [to |-> c, msg |-> m] BY DEF DataType
    <2>2. /\ recvCh' = IF Opens(c, m) /\ HasRoom(c)
                         THEN [recvCh EXCEPT ![c] = Append(@, in)] ELSE recvCh
          /\ replies' = replies \ {rp}
          /\ UNCHANGED <<outQueue, deposits>>
      BY <1>6, <2>1 DEF Replies
    <2>3. in.Body = m.body OBVIOUS
    <2>4. m.body = Body => rp \in RepliesWith BY DEF RepliesWith
    <2>5. RepliesWith' = RepliesWith \ {rp} BY <2>2 DEF RepliesWith
    <2>6. DepositsWith' = DepositsWith BY <2>2 DEF DepositsWith
    <2> HIDE DEF c, m, in
    <2>7. recvCh[c] \in Seq(InMsg) /\ \A d \in Clients : d # c => recvCh'[d] = recvCh[d]
      BY <2>1, <2>2 DEF DataType
    <2>8. \A d \in Clients : d # c => ReadsWith(d)' = ReadsWith(d)
      BY <2>7 DEF ReadsWith
    <2>9. recvCh'[c] = recvCh[c] \/ recvCh'[c] = Append(recvCh[c], in)
      BY <2>1, <2>2 DEF DataType
    <2>10. \A i \in ReadsWith(c)' : i \in ReadsWith(c) \/ (i = Len(recvCh[c]) + 1 /\ m.body = Body)
      <3>1. CASE recvCh'[c] = recvCh[c] BY <3>1 DEF ReadsWith
      <3>2. CASE recvCh'[c] = Append(recvCh[c], in)
        <4> SUFFICES ASSUME NEW i \in DOMAIN recvCh'[c], recvCh'[c][i].Body = Body
                     PROVE  i \in ReadsWith(c) \/ (i = Len(recvCh[c]) + 1 /\ m.body = Body)
          BY DEF ReadsWith
        <4>1. (i \in DOMAIN recvCh[c] /\ recvCh'[c][i] = recvCh[c][i])
              \/ (i = Len(recvCh[c]) + 1 /\ recvCh'[c][i] = in)
          BY <2>7, <3>2
        <4> QED BY <2>3, <4>1 DEF ReadsWith
      <3> QED BY <2>9, <3>1, <3>2
    <2>11. CASE m.body = Body
      <3>1. RepliesWith' = {} BY <2>4, <2>5, <2>11 DEF Once, Unique
      <3>2. (\A d \in Clients : ReadsWith(d) = {}) /\ got # Body /\ DepositsWith = {}
            /\ outQueue[caller] = <<>>
        BY <2>4, <2>11 DEF Once
      <3>3. Unique(ReadsWith(c)') BY <2>1, <2>10, <3>2 DEF Unique
      <3>4. \A d \in Clients : d # c => ReadsWith(d)' = {} BY <2>8, <3>2
      <3>5. \A d \in Clients : Unique(ReadsWith(d)') BY <3>3, <3>4 DEF Unique
      <3>6. Len(outQueue'[caller]) <= 1 /\ outQueue'[callee] = <<>> /\ outQueue'[caller] = <<>>
        BY <2>2, <3>2 DEF Once
      <3> QED BY <1>6, <2>6, <3>1, <3>2, <3>4, <3>5, <3>6 DEF Once, Unique
    <2>12. CASE m.body # Body
      <3>1. RepliesWith' \subseteq RepliesWith BY <2>5
      <3>2. \A d \in Clients : ReadsWith(d)' \subseteq ReadsWith(d) BY <2>8, <2>10, <2>12
      <3>3. Len(outQueue'[caller]) <= 1 /\ outQueue'[callee] = <<>> BY <2>2 DEF Once
      <3>4. Unique(DepositsWith') /\ Unique(RepliesWith') /\ \A d \in Clients : Unique(ReadsWith(d)')
        BY <2>6, <3>1, <3>2 DEF Once, Unique
      <3> QED BY <1>6, <2>2, <2>6, <3>1, <3>2, <3>3, <3>4 DEF Once, Unique
    <2> QED BY <2>11, <2>12
  <1>7. CASE UNCHANGED DataVars BY <1>1, <1>7 DEF DataVars
  <1>8. CASE \/ \E c \in Clients : CallWord(c)
             \/ \E r \in Rounds : SendingCall(r)
             \/ ReceivedCall
    BY <1>1, <1>8 DEF CallWord, SendingCall, ReceivedCall, Layer
  <1>9. CASE Announce /\ UNCHANGED got BY <1>1, <1>9 DEF Announce
  <1> QED BY StepCases, <1>2, <1>3, <1>4, <1>5, <1>6, <1>7, <1>8, <1>9, Zenon

\* A set without two elements has one at most.
LEMMA UniqueCard ==
  ASSUME NEW S, Unique(S)
  PROVE  /\ Cardinality(S) \in {0, 1}
         /\ S = {} => Cardinality(S) = 0
  <1>1. CASE S = {} BY <1>1, FS_EmptySet
  <1>2. CASE S # {}
    <2>1. PICK x : x \in S BY <1>2
    <2>2. S = {x} BY <2>1 DEF Unique
    <2>3. Cardinality(S) = 1 BY <2>2, FS_Singleton
    <2> QED BY <1>2, <2>3
  <1> QED BY <1>1, <1>2

\* What Once says, counted.
LEMMA OneCopy ==
  ASSUME DataType, Once
  PROVE  SentOnce
  <1> DEFINE In(s)   == {i \in DOMAIN s : s[i] = Body}
             a == Cardinality(In(outQueue[caller]))
             b == Cardinality(In(outQueue[callee]))
             d == Cardinality(DepositsWith)
             e == Cardinality(RepliesWith)
             f == Cardinality(ReadsWith(caller))
             g == Cardinality(ReadsWith(callee))
             h == IF got = Body THEN 1 ELSE 0
  <1>0. caller \in Clients /\ callee \in Clients /\ caller # callee BY PeerFacts
  <1>1. Copies(Body) = a + b + d + e + f + g + h
    BY DEF Copies, DepositsWith, RepliesWith, ReadsWith
  <1>2. In(<<>>) = {} OBVIOUS
  <1>3. Unique(In(outQueue[caller]))
    <2>1. outQueue[caller] \in Seq({Body}) /\ Len(outQueue[caller]) <= 1
      BY <1>0 DEF DataType, Once
    <2>2. ASSUME NEW i \in DOMAIN outQueue[caller] PROVE i = 1
      <3>1. i \in 1..Len(outQueue[caller]) /\ Len(outQueue[caller]) \in Nat BY <2>1
      <3> HIDE DEF Once
      <3>2. \A n \in Nat : n <= 1 => \A j \in 1..n : j = 1 OBVIOUS
      <3> QED BY <2>1, <3>1, <3>2, Zenon
    <2> QED BY <2>2 DEF Unique
  <1>4. a \in {0, 1} /\ (outQueue[caller] = <<>> => a = 0)
    BY <1>2, <1>3, UniqueCard
  <1>5. b = 0
    <2>1. In(outQueue[callee]) = {} BY <1>2 DEF Once
    <2> QED BY <2>1, FS_EmptySet
  <1>6. d \in {0, 1} /\ (DepositsWith = {} => d = 0) BY UniqueCard DEF Once
  <1>7. e \in {0, 1} /\ (RepliesWith = {} => e = 0) BY UniqueCard DEF Once
  <1>8. f \in {0, 1} /\ (ReadsWith(caller) = {} => f = 0) BY <1>0, UniqueCard DEF Once
  <1>9. g \in {0, 1} /\ (ReadsWith(callee) = {} => g = 0) BY <1>0, UniqueCard DEF Once
  <1>10. h \in {0, 1} /\ (got # Body => h = 0) OBVIOUS
  <1> HIDE DEF a, b, d, e, f, g, h, In
  <1>11. /\ a = 1 => d = 0 /\ e = 0 /\ f = 0 /\ g = 0 /\ h = 0
         /\ d = 1 => e = 0 /\ f = 0 /\ g = 0 /\ h = 0
         /\ e = 1 => f = 0 /\ g = 0 /\ h = 0
         /\ f = 1 => g = 0 /\ h = 0
         /\ g = 1 => h = 0
    BY <1>0, <1>4, <1>6, <1>7, <1>8, <1>9, <1>10 DEF Once
  <1>12. a + b + d + e + f + g + h <= 1
    BY <1>4, <1>5, <1>6, <1>7, <1>8, <1>9, <1>10, <1>11
  <1> QED BY <1>1, <1>12 DEF SentOnce

\* What is on RecvCh was sent by the peer.
LEMMA ReadFromPeer ==
  ASSUME DataType, Origin
  PROVE  FromPeer
  <1> SUFFICES ASSUME NEW c \in Clients, NEW i \in DOMAIN recvCh[c], recvCh[c][i].Body # Cover
               PROVE  recvCh[c][i].Body \in sent[recvCh[c][i].FromPeer]
    BY DEF FromPeer
  <1>1. recvCh[c][i] \in InMsg BY DEF DataType
  <1>2. recvCh[c][i].Body = Body BY <1>1 DEF InMsg, Bodies
  <1> QED BY <1>2 DEF Origin

-----------------------------------------------------------------------------
(* The data of the clients: the theorems. *)

DemoInv == DataType /\ RoomType /\ Origin /\ Deposited /\ Once

LEMMA InitDemo == Init => DemoInv
  <1> SUFFICES ASSUME Init PROVE DemoInv OBVIOUS
  <1>1. /\ ConvoState = [c \in Clients |-> NilState]
        /\ outQueue = [c \in Clients |-> <<>>] /\ recvCh = [c \in Clients |-> <<>>]
        /\ latest = 0 /\ mixed = {} /\ done = [c \in Clients |-> {}]
        /\ deposits = {} /\ replies = {} /\ sent = [c \in Clients |-> {}]
        /\ got = Nothing
    BY DEF Init, TestClientInit
  <1>2. 0 \in 0..MaxRound /\ RecvCap \in Nat BY TestClientAssumption
  <1>3. DataType /\ RoomType BY <1>1, <1>2 DEF DataType, RoomType, States
  <1>4. Nothing # Body BY DEF Nothing, Body
  <1>5. Origin BY <1>1, <1>4, PeerFacts DEF Origin
  <1>6. Deposited BY <1>1 DEF Deposited
  <1>7. DepositsWith = {} /\ RepliesWith = {} /\ \A c \in Clients : ReadsWith(c) = {}
    BY <1>1 DEF DepositsWith, RepliesWith, ReadsWith
  <1>8. outQueue[caller] = <<>> /\ outQueue[callee] = <<>> BY <1>1, PeerFacts
  <1>9. Len(outQueue[caller]) <= 1 BY <1>8
  <1>10. Once BY <1>1, <1>4, <1>7, <1>8, <1>9 DEF Once, Unique
  <1> QED BY <1>3, <1>5, <1>6, <1>10 DEF DemoInv

LEMMA NextDemo == DemoInv /\ [Next]_vars => DemoInv'
  BY DataTypeStep, OriginStep, DepositedStep, OnceStep DEF DemoInv

\* The invariant the theorems below rest on: what is on its way is typed, was
\* sent by the client it comes from, and is in one place.
THEOREM DemoInvariant == Spec => []DemoInv
  BY InitDemo, NextDemo, PTL DEF Spec

\* A text handed to SendMessage is in one place at most - the queue, the
\* coordinator, a reply, RecvCh or main's hands - whatever rounds overlap,
\* onions are late and sockets drop (takeText and Replies of convohandler.go).
THEOREM TextIsSentOnce == Spec => []SentOnce
  <1>1. DemoInv => SentOnce BY OneCopy DEF DemoInv
  <1> QED BY <1>1, DemoInvariant, PTL

\* A text on RecvCh was accepted by the SendMessage of the peer it is
\* attributed to: a client alone in its dead drop gets its own message back,
\* and does not open it.
THEOREM TextsAreFromPeer == Spec => []FromPeer
  <1>1. DemoInv => FromPeer BY ReadFromPeer DEF DemoInv
  <1> QED BY <1>1, DemoInvariant, PTL

-----------------------------------------------------------------------------
(* The steps of New, one by one. *)

Kinds    == {"cfgHTTP", "coordListener", "cdn", "mixchain", "pkg", "AddFriend config", "Dialing config",
             "addFriend", "dialing", "coordHTTP", "convoListener", "Convo config", "convoSrv", "convoHTTP"}
Things   == {Res(kind) : kind \in Kinds} \cup ConvoMixers
StepType == [opens : SUBSET Things, appends : Seq(SUBSET Things), fails : BOOLEAN]

LEMMA Concatenated ==
  ASSUME NEW S, NEW s \in Seq(S), NEW t \in Seq(S)
  PROVE  /\ s \o t \in Seq(S) /\ Len(s \o t) = Len(s) + Len(t)
         /\ \A i \in 1..Len(s) : (s \o t)[i] = s[i]
         /\ \A i \in 1..Len(t) : (s \o t)[Len(s) + i] = t[i]
  OBVIOUS

LEMMA StepTyped ==
  ASSUME NEW opens \in SUBSET Things, NEW appends \in Seq(SUBSET Things), NEW fails \in BOOLEAN
  PROVE  /\ Step(opens, appends, fails) \in StepType
         /\ Step(opens, appends, fails).opens = opens
         /\ Step(opens, appends, fails).appends = appends
  BY DEF Step, StepType

\* What Close has to do after New, in the order of the starts.
Cfg    == {Res("cfgHTTP")} \cup Configs
Coord  == {Res("coordHTTP"), Res("coordListener")}
Convo  == {Res("convoHTTP"), Res("convoListener")}

LEMMA ThingsTyped ==
  /\ \A kind \in Kinds : Res(kind) \in Things /\ {Res(kind)} \in SUBSET Things
  /\ Cfg \in SUBSET Things /\ Coord \in SUBSET Things /\ Convo \in SUBSET Things
  /\ ConvoMixers \in SUBSET Things
  /\ \A i \in 1..NumMixers : {<<"convoMixer", i>>} \in SUBSET Things
  <1>1. ASSUME NEW kind \in Kinds PROVE Res(kind) \in Things
    BY DEF Things
  <1>2. ASSUME NEW i \in 1..NumMixers PROVE <<"convoMixer", i>> \in Things
    BY DEF Things, ConvoMixers
  <1>3. /\ Res("cfgHTTP") \in Things /\ Res("coordHTTP") \in Things /\ Res("coordListener") \in Things
        /\ Res("convoHTTP") \in Things /\ Res("convoListener") \in Things
        /\ Res("AddFriend config") \in Things /\ Res("Dialing config") \in Things
        /\ Res("Convo config") \in Things
    BY <1>1 DEF Kinds
  <1>4. Cfg \in SUBSET Things /\ Coord \in SUBSET Things /\ Convo \in SUBSET Things
    BY <1>3 DEF Cfg, Configs, Coord, Convo
  <1>5. ConvoMixers \in SUBSET Things BY <1>2 DEF ConvoMixers
  <1> QED BY <1>1, <1>2, <1>4, <1>5

LEMMA NeverlurSteps ==
  LET s == startNeverlurSide
  IN  /\ s \in Seq(StepType) /\ Len(s) = 10
      /\ s[1].opens = {Res("cfgHTTP")} /\ s[1].appends = <<Cfg>>
      /\ s[2].opens = {Res("coordListener")} /\ s[2].appends = <<>>
      /\ s[3].opens = {Res("cdn")} /\ s[3].appends = <<{Res("cdn")}>>
      /\ s[4].opens = {Res("mixchain")} /\ s[4].appends = <<{Res("mixchain")}>>
      /\ s[5].opens = {Res("pkg")} /\ s[5].appends = <<{Res("pkg")}>>
      /\ s[6].opens = {Res("AddFriend config")} /\ s[6].appends = <<>>
      /\ s[7].opens = {Res("Dialing config")} /\ s[7].appends = <<>>
      /\ s[8].opens = {Res("addFriend")} /\ s[8].appends = <<>>
      /\ s[9].opens = {Res("dialing")} /\ s[9].appends = <<{Res("dialing")}, {Res("addFriend")}>>
      /\ s[10].opens = {Res("coordHTTP")} /\ s[10].appends = <<Coord>>
  <1> DEFINE S == StepType
  <1>1. ASSUME NEW kind \in Kinds
        PROVE  /\ \A a \in Seq(SUBSET Things), f \in BOOLEAN : Step({Res(kind)}, a, f) \in StepType
               /\ \A f \in BOOLEAN : Component(kind, f) \in StepType
               /\ PublishConfig(kind) \in StepType
    <2>1. {Res(kind)} \in SUBSET Things BY ThingsTyped
    <2> DEFINE x == {Res(kind)}
    <2>2. <<x>> \in Seq(SUBSET Things) /\ <<>> \in Seq(SUBSET Things)
      <3> HIDE DEF x
      <3>1. x \in SUBSET Things BY <2>1 DEF x
      <3> QED BY <3>1
    <2>3. \A a \in Seq(SUBSET Things), f \in BOOLEAN : Step({Res(kind)}, a, f) \in StepType
      BY <2>1, StepTyped
    <2> QED BY <2>2, <2>3 DEF Component, PublishConfig
  <1>2. <<Cfg>> \in Seq(SUBSET Things) /\ <<>> \in Seq(SUBSET Things) /\ <<Coord>> \in Seq(SUBSET Things)
    BY ThingsTyped
  <1>3. CoordinatorCleanups \in Seq(SUBSET Things)
        /\ CoordinatorCleanups = <<{Res("dialing")}, {Res("addFriend")}>>
    <2>1. {Res("dialing")} \in SUBSET Things /\ {Res("addFriend")} \in SUBSET Things
      BY ThingsTyped DEF Kinds
    <2> QED BY <2>1 DEF CoordinatorCleanups
  <1> DEFINE a1 == Step({Res("cfgHTTP")}, <<Cfg>>, TRUE)
             a2 == Step({Res("coordListener")}, <<>>, TRUE)
             a3 == Component("cdn", FALSE)
             a4 == Component("mixchain", FALSE)
             a5 == Component("pkg", TRUE)
             a6 == PublishConfig("AddFriend config")
             a7 == PublishConfig("Dialing config")
             a8 == Step({Res("addFriend")}, <<>>, TRUE)
             a9 == Step({Res("dialing")}, CoordinatorCleanups, TRUE)
             a10 == Step({Res("coordHTTP")}, <<Coord>>, FALSE)
  <1>4. /\ a1 \in S /\ a2 \in S /\ a3 \in S /\ a4 \in S /\ a5 \in S
        /\ a6 \in S /\ a7 \in S /\ a8 \in S /\ a9 \in S /\ a10 \in S
    <2>1. TRUE \in BOOLEAN /\ FALSE \in BOOLEAN OBVIOUS
    <2> QED BY <1>1, <1>2, <1>3, <2>1 DEF Kinds
  <1>5. startNeverlurSide = (<<a1, a2, a3, a4, a5>> \o <<a6, a7>>) \o <<a8, a9, a10>>
    BY DEF startNeverlurSide, NeverlurServers, NeverlurConfigs, NeverlurCoordinators, Cfg, Coord
  <1>6. /\ a1.opens = {Res("cfgHTTP")} /\ a1.appends = <<Cfg>>
        /\ a2.opens = {Res("coordListener")} /\ a2.appends = <<>>
        /\ a3.opens = {Res("cdn")} /\ a3.appends = <<{Res("cdn")}>>
        /\ a4.opens = {Res("mixchain")} /\ a4.appends = <<{Res("mixchain")}>>
        /\ a5.opens = {Res("pkg")} /\ a5.appends = <<{Res("pkg")}>>
        /\ a6.opens = {Res("AddFriend config")} /\ a6.appends = <<>>
        /\ a7.opens = {Res("Dialing config")} /\ a7.appends = <<>>
        /\ a8.opens = {Res("addFriend")} /\ a8.appends = <<>>
        /\ a9.opens = {Res("dialing")} /\ a9.appends = <<{Res("dialing")}, {Res("addFriend")}>>
        /\ a10.opens = {Res("coordHTTP")} /\ a10.appends = <<Coord>>
    BY <1>3 DEF Step, Component, PublishConfig
  <1> HIDE DEF a1, a2, a3, a4, a5, a6, a7, a8, a9, a10, S
  <1> DEFINE p == <<a1, a2, a3, a4, a5>>
             q == <<a6, a7>>
             t == <<a8, a9, a10>>
             u == p \o q
             s == u \o t
  <1>7. p \in Seq(S) /\ q \in Seq(S) /\ t \in Seq(S) BY <1>4
  <1>8. /\ Len(p) = 5 /\ Len(q) = 2 /\ Len(t) = 3
        /\ p[1] = a1 /\ p[2] = a2 /\ p[3] = a3 /\ p[4] = a4 /\ p[5] = a5
        /\ q[1] = a6 /\ q[2] = a7 /\ t[1] = a8 /\ t[2] = a9 /\ t[3] = a10
    OBVIOUS
  <1>9. startNeverlurSide = s BY <1>5
  <1> HIDE DEF p, q, t
  <1>10. /\ u \in Seq(S) /\ Len(u) = Len(p) + Len(q)
         /\ \A i \in 1..Len(p) : u[i] = p[i]
         /\ \A i \in 1..Len(q) : u[Len(p) + i] = q[i]
    BY <1>7, Concatenated
  <1> HIDE DEF u
  <1>11. /\ s \in Seq(S) /\ Len(s) = Len(u) + Len(t)
         /\ \A i \in 1..Len(u) : s[i] = u[i]
         /\ \A i \in 1..Len(t) : s[Len(u) + i] = t[i]
    <2>1. u \in Seq(S) /\ t \in Seq(S) BY <1>7, <1>10
    <2> QED BY <2>1, Concatenated
  <1> HIDE DEF s
  <1>12. /\ s[1] = a1 /\ s[2] = a2 /\ s[3] = a3 /\ s[4] = a4 /\ s[5] = a5
         /\ s[6] = a6 /\ s[7] = a7 /\ s[8] = a8 /\ s[9] = a9 /\ s[10] = a10
    BY <1>8, <1>10, <1>11
  <1>13. s \in Seq(StepType) /\ Len(s) = 10 BY <1>8, <1>10, <1>11 DEF S
  <1> QED BY <1>6, <1>9, <1>12, <1>13

LEMMA GjallarhornSteps ==
  LET s == startGjallarhornSide
      M == NumMixers
  IN  /\ s \in Seq(StepType) /\ Len(s) = M + 5
      /\ s[1].opens = {Res("convoListener")} /\ s[1].appends = <<>>
      /\ \A i \in 1..M : s[i + 1].opens = {<<"convoMixer", i>>} /\ s[i + 1].appends = <<>>
      /\ s[M + 2].opens = {} /\ s[M + 2].appends = <<ConvoMixers>>
      /\ s[M + 3].opens = {Res("Convo config")} /\ s[M + 3].appends = <<>>
      /\ s[M + 4].opens = {Res("convoSrv")} /\ s[M + 4].appends = <<{Res("convoSrv")}>>
      /\ s[M + 5].opens = {Res("convoHTTP")} /\ s[M + 5].appends = <<Convo>>
  <1> DEFINE S == StepType
             M == NumMixers
             a1 == Step({Res("convoListener")}, <<>>, TRUE)
             a2 == Step({}, <<ConvoMixers>>, FALSE)
             a3 == PublishConfig("Convo config")
             a4 == Component("convoSrv", TRUE)
             a5 == Step({Res("convoHTTP")}, <<Convo>>, FALSE)
             p == <<a1>>
             q == launchConvoMixchain
             t == <<a2, a3, a4, a5>>
             u == p \o q
             s == u \o t
  <1>1. /\ {Res("convoListener")} \in SUBSET Things /\ {Res("Convo config")} \in SUBSET Things
        /\ {Res("convoSrv")} \in SUBSET Things /\ {Res("convoHTTP")} \in SUBSET Things
        /\ {} \in SUBSET Things /\ ConvoMixers \in SUBSET Things /\ Convo \in SUBSET Things
        /\ \A i \in 1..NumMixers : {<<"convoMixer", i>>} \in SUBSET Things
    BY ThingsTyped DEF Kinds
  <1>2. \A X \in SUBSET Things : <<X>> \in Seq(SUBSET Things) /\ <<>> \in Seq(SUBSET Things)
    OBVIOUS
  <1>3. TRUE \in BOOLEAN /\ FALSE \in BOOLEAN OBVIOUS
  <1>4. a1 \in S /\ a2 \in S /\ a3 \in S /\ a4 \in S /\ a5 \in S
    BY <1>1, <1>2, <1>3, StepTyped DEF PublishConfig, Component
  <1>5. \A i \in 1..M : q[i] \in S /\ q[i].opens = {<<"convoMixer", i>>} /\ q[i].appends = <<>>
    <2> SUFFICES ASSUME NEW i \in 1..M
                 PROVE  q[i] \in S /\ q[i].opens = {<<"convoMixer", i>>} /\ q[i].appends = <<>>
      OBVIOUS
    <2>1. q[i] = Step({<<"convoMixer", i>>}, <<>>, TRUE) BY DEF launchConvoMixchain
    <2>2. {<<"convoMixer", i>>} \in SUBSET Things /\ <<>> \in Seq(SUBSET Things) BY <1>1, <1>2
    <2> DEFINE X == {<<"convoMixer", i>>}
    <2> HIDE DEF X
    <2>3. X \in SUBSET Things /\ q[i] = Step(X, <<>>, TRUE) BY <2>1, <2>2 DEF X
    <2>4. /\ Step(X, <<>>, TRUE) \in StepType /\ Step(X, <<>>, TRUE).opens = X
          /\ Step(X, <<>>, TRUE).appends = <<>>
      BY <1>3, <2>2, <2>3, StepTyped, Zenon
    <2> QED BY <2>3, <2>4 DEF X
  <1>6. /\ a1.opens = {Res("convoListener")} /\ a1.appends = <<>>
        /\ a2.opens = {} /\ a2.appends = <<ConvoMixers>>
        /\ a3.opens = {Res("Convo config")} /\ a3.appends = <<>>
        /\ a4.opens = {Res("convoSrv")} /\ a4.appends = <<{Res("convoSrv")}>>
        /\ a5.opens = {Res("convoHTTP")} /\ a5.appends = <<Convo>>
    BY DEF Step, Component, PublishConfig
  <1>7. startGjallarhornSide = s BY DEF startGjallarhornSide, Convo
  <1>8. M \in Nat BY HarnessAssumption
  <1> HIDE DEF a1, a2, a3, a4, a5, S
  <1>9. q \in Seq(S) /\ Len(q) = M
    <2>1. q = [i \in 1..M |-> q[i]] BY DEF launchConvoMixchain
    <2> HIDE DEF q, M
    <2>2. q \in [1..M -> S] BY <1>5, <2>1
    <2> QED BY <1>8, <2>2
  <1>10. p \in Seq(S) /\ t \in Seq(S) BY <1>4
  <1>11. /\ Len(p) = 1 /\ Len(t) = 4 /\ p[1] = a1
         /\ t[1] = a2 /\ t[2] = a3 /\ t[3] = a4 /\ t[4] = a5
    OBVIOUS
  <1> HIDE DEF p, q, t, M
  <1>12. /\ u \in Seq(S) /\ Len(u) = Len(p) + Len(q)
         /\ \A i \in 1..Len(p) : u[i] = p[i]
         /\ \A i \in 1..Len(q) : u[Len(p) + i] = q[i]
    BY <1>9, <1>10, Concatenated
  <1> HIDE DEF u
  <1>13. /\ s \in Seq(S) /\ Len(s) = Len(u) + Len(t)
         /\ \A i \in 1..Len(u) : s[i] = u[i]
         /\ \A i \in 1..Len(t) : s[Len(u) + i] = t[i]
    <2>1. u \in Seq(S) /\ t \in Seq(S) BY <1>10, <1>12
    <2> QED BY <2>1, Concatenated
  <1> HIDE DEF s
  <1>14. Len(u) = M + 1 /\ Len(s) = M + 5 BY <1>8, <1>9, <1>11, <1>12, <1>13
  <1>15. s[1] = a1 /\ \A i \in 1..M : s[i + 1] = q[i]
    <2>1. u[1] = a1 BY <1>11, <1>12
    <2>2. \A i \in 1..M : u[i + 1] = q[i] BY <1>8, <1>9, <1>11, <1>12
    <2>3. \A i \in 1..(M + 1) : s[i] = u[i] BY <1>13, <1>14
    <2>4. 1 \in 1..(M + 1) /\ \A i \in 1..M : i + 1 \in 1..(M + 1) BY <1>8
    <2> QED BY <2>1, <2>2, <2>3, <2>4
  <1>16. s[M + 2] = a2 /\ s[M + 3] = a3 /\ s[M + 4] = a4 /\ s[M + 5] = a5
    <2>1. \A i \in 1..4 : s[M + 1 + i] = t[i] BY <1>11, <1>13, <1>14
    <2>2. M + 2 = M + 1 + 1 /\ M + 3 = M + 1 + 2 /\ M + 4 = M + 1 + 3 /\ M + 5 = M + 1 + 4 BY <1>8
    <2>3. 1 \in 1..4 /\ 2 \in 1..4 /\ 3 \in 1..4 /\ 4 \in 1..4 OBVIOUS
    <2> QED BY <1>11, <2>1, <2>2, <2>3
  <1>17. s \in Seq(StepType) BY <1>13 DEF S
  <1> QED BY <1>5, <1>6, <1>7, <1>14, <1>15, <1>16, <1>17 DEF M

LEMMA StartStepsFacts ==
  LET s == StartSteps
      M == NumMixers
  IN  /\ Len(s) = M + 15
      /\ s[1].opens = {Res("cfgHTTP")} /\ s[1].appends = <<Cfg>>
      /\ s[2].opens = {Res("coordListener")} /\ s[2].appends = <<>>
      /\ s[3].opens = {Res("cdn")} /\ s[3].appends = <<{Res("cdn")}>>
      /\ s[4].opens = {Res("mixchain")} /\ s[4].appends = <<{Res("mixchain")}>>
      /\ s[5].opens = {Res("pkg")} /\ s[5].appends = <<{Res("pkg")}>>
      /\ s[6].opens = {Res("AddFriend config")} /\ s[6].appends = <<>>
      /\ s[7].opens = {Res("Dialing config")} /\ s[7].appends = <<>>
      /\ s[8].opens = {Res("addFriend")} /\ s[8].appends = <<>>
      /\ s[9].opens = {Res("dialing")} /\ s[9].appends = <<{Res("dialing")}, {Res("addFriend")}>>
      /\ s[10].opens = {Res("coordHTTP")} /\ s[10].appends = <<Coord>>
      /\ s[11].opens = {Res("convoListener")} /\ s[11].appends = <<>>
      /\ \A i \in 1..M : s[i + 11].opens = {<<"convoMixer", i>>} /\ s[i + 11].appends = <<>>
      /\ s[M + 12].opens = {} /\ s[M + 12].appends = <<ConvoMixers>>
      /\ s[M + 13].opens = {Res("Convo config")} /\ s[M + 13].appends = <<>>
      /\ s[M + 14].opens = {Res("convoSrv")} /\ s[M + 14].appends = <<{Res("convoSrv")}>>
      /\ s[M + 15].opens = {Res("convoHTTP")} /\ s[M + 15].appends = <<Convo>>
  <1> DEFINE M == NumMixers
             p == startNeverlurSide
             q == startGjallarhornSide
             s == p \o q
  <1>1. StartSteps = s BY DEF StartSteps
  <1>2. p \in Seq(StepType) /\ Len(p) = 10 BY NeverlurSteps
  <1>3. q \in Seq(StepType) /\ Len(q) = M + 5 BY GjallarhornSteps
  <1>4. M \in Nat BY HarnessAssumption
  <1> HIDE DEF p, q, M
  <1>5. /\ Len(s) = Len(p) + Len(q)
        /\ \A i \in 1..Len(p) : s[i] = p[i]
        /\ \A i \in 1..Len(q) : s[Len(p) + i] = q[i]
    <2>1. p \in Seq(StepType) /\ q \in Seq(StepType) BY <1>2, <1>3
    <2> QED BY <2>1, Concatenated
  <1> HIDE DEF s
  <1>6. Len(s) = M + 15 BY <1>2, <1>3, <1>4, <1>5
  <1>7. \A i \in 1..10 : s[i] = p[i] BY <1>2, <1>5
  <1>8. /\ s[1] = p[1] /\ s[2] = p[2] /\ s[3] = p[3] /\ s[4] = p[4] /\ s[5] = p[5]
        /\ s[6] = p[6] /\ s[7] = p[7] /\ s[8] = p[8] /\ s[9] = p[9] /\ s[10] = p[10]
    BY <1>7
  <1>9. \A i \in 1..(M + 5) : s[10 + i] = q[i] BY <1>2, <1>3, <1>5
  <1>10. s[11] = q[1] /\ \A i \in 1..M : s[i + 11] = q[i + 1]
    <2>1. 1 \in 1..(M + 5) /\ 10 + 1 = 11 BY <1>4
    <2>2. \A i \in 1..M : i + 1 \in 1..(M + 5) /\ 10 + (i + 1) = i + 11 BY <1>4
    <2> QED BY <1>9, <2>1, <2>2
  <1>11. s[M + 12] = q[M + 2] /\ s[M + 13] = q[M + 3] /\ s[M + 14] = q[M + 4] /\ s[M + 15] = q[M + 5]
    <2>1. /\ M + 2 \in 1..(M + 5) /\ 10 + (M + 2) = M + 12
          /\ M + 3 \in 1..(M + 5) /\ 10 + (M + 3) = M + 13
          /\ M + 4 \in 1..(M + 5) /\ 10 + (M + 4) = M + 14
          /\ M + 5 \in 1..(M + 5) /\ 10 + (M + 5) = M + 15
      BY <1>4
    <2> QED BY <1>9, <2>1
  <1>12. /\ s[1].opens = {Res("cfgHTTP")} /\ s[1].appends = <<Cfg>>
         /\ s[2].opens = {Res("coordListener")} /\ s[2].appends = <<>>
         /\ s[3].opens = {Res("cdn")} /\ s[3].appends = <<{Res("cdn")}>>
         /\ s[4].opens = {Res("mixchain")} /\ s[4].appends = <<{Res("mixchain")}>>
         /\ s[5].opens = {Res("pkg")} /\ s[5].appends = <<{Res("pkg")}>>
         /\ s[6].opens = {Res("AddFriend config")} /\ s[6].appends = <<>>
         /\ s[7].opens = {Res("Dialing config")} /\ s[7].appends = <<>>
         /\ s[8].opens = {Res("addFriend")} /\ s[8].appends = <<>>
         /\ s[9].opens = {Res("dialing")} /\ s[9].appends = <<{Res("dialing")}, {Res("addFriend")}>>
         /\ s[10].opens = {Res("coordHTTP")} /\ s[10].appends = <<Coord>>
    BY <1>8, NeverlurSteps DEF p
  <1>13. /\ s[11].opens = {Res("convoListener")} /\ s[11].appends = <<>>
         /\ \A i \in 1..M : s[i + 11].opens = {<<"convoMixer", i>>} /\ s[i + 11].appends = <<>>
         /\ s[M + 12].opens = {} /\ s[M + 12].appends = <<ConvoMixers>>
         /\ s[M + 13].opens = {Res("Convo config")} /\ s[M + 13].appends = <<>>
         /\ s[M + 14].opens = {Res("convoSrv")} /\ s[M + 14].appends = <<{Res("convoSrv")}>>
         /\ s[M + 15].opens = {Res("convoHTTP")} /\ s[M + 15].appends = <<Convo>>
    BY <1>10, <1>11, GjallarhornSteps DEF q, M
  <1> QED BY <1>1, <1>6, <1>12, <1>13 DEF M

-----------------------------------------------------------------------------
(* What Close does, and what works with what. *)

LEMMA UsesFacts ==
  /\ Uses(Res("cfgHTTP")) = {TmpDir} /\ Uses(Res("cdn")) = {TmpDir}
  /\ \A kind \in {"coordListener", "mixchain", "pkg", "AddFriend config", "Dialing config",
                  "Convo config", "convoListener", "tmpDir"} : Uses(Res(kind)) = {}
  /\ Uses(Res("addFriend")) =
       {TmpDir, Res("AddFriend config"), Res("cdn"), Res("mixchain"), Res("pkg")}
  /\ Uses(Res("dialing")) = {TmpDir, Res("Dialing config"), Res("cdn"), Res("mixchain")}
  /\ Uses(Res("coordHTTP")) = {Res("coordListener"), Res("addFriend"), Res("dialing")}
  /\ Uses(Res("convoSrv")) = {TmpDir, Res("Convo config")} \cup ConvoMixers
  /\ Uses(Res("convoHTTP")) = {Res("convoListener"), Res("convoSrv")}
  /\ \A i : Uses(<<"convoMixer", i>>) = {}
  /\ \A c : Uses(Dir(c)) = {}
  /\ \A c : /\ Uses(Socket(c, "AddFriend")) = {Res("coordHTTP"), Dir(c)}
            /\ Uses(Socket(c, "Dialing")) = {Res("coordHTTP"), Dir(c)}
            /\ Uses(Socket(c, "Convo")) = {Res("convoHTTP"), Dir(c)}
  <1>1. \A k, i : <<k, i>>[1] = k /\ <<k, i>>[2] = i OBVIOUS
  <1>2. \A kind : Res(kind)[1] = kind BY DEF Res
  <1>3. \A c, s : Socket(c, s)[1] = s /\ Socket(c, s)[2] = c /\ Dir(c)[1] = "dir" BY DEF Socket, Dir
  <1>4. ASSUME NEW x, x[1] \in {"cfgHTTP", "cdn"} PROVE Uses(x) = {TmpDir} BY <1>4 DEF Uses
  <1> DEFINE Alone == {"coordListener", "mixchain", "pkg", "AddFriend config", "Dialing config",
                       "Convo config", "convoListener", "tmpDir", "dir", "convoMixer"}
  <1>5. ASSUME NEW x, x[1] \in Alone PROVE Uses(x) = {}
    BY <1>5 DEF Uses
  <1> HIDE DEF Alone
  <1>6. ASSUME NEW x, x[1] = "addFriend"
        PROVE  Uses(x) = {TmpDir, Res("AddFriend config"), Res("cdn"), Res("mixchain"), Res("pkg")}
    BY <1>6 DEF Uses
  <1>7. ASSUME NEW x, x[1] = "dialing"
        PROVE  Uses(x) = {TmpDir, Res("Dialing config"), Res("cdn"), Res("mixchain")}
    BY <1>7 DEF Uses
  <1>8. ASSUME NEW x, x[1] = "coordHTTP"
        PROVE  Uses(x) = {Res("coordListener"), Res("addFriend"), Res("dialing")}
    BY <1>8 DEF Uses
  <1>9. ASSUME NEW x, x[1] = "convoSrv" PROVE Uses(x) = {TmpDir, Res("Convo config")} \cup ConvoMixers
    BY <1>9 DEF Uses
  <1>10. ASSUME NEW x, x[1] = "convoHTTP" PROVE Uses(x) = {Res("convoListener"), Res("convoSrv")}
    BY <1>10 DEF Uses
  <1>11. ASSUME NEW x, x[1] \in {"AddFriend", "Dialing"} PROVE Uses(x) = {Res("coordHTTP"), Dir(x[2])}
    BY <1>11 DEF Uses
  <1>12. ASSUME NEW x, x[1] = "Convo" PROVE Uses(x) = {Res("convoHTTP"), Dir(x[2])}
    BY <1>12 DEF Uses
  <1>13. ASSUME NEW c
         PROVE  /\ Uses(Socket(c, "AddFriend")) = {Res("coordHTTP"), Dir(c)}
                /\ Uses(Socket(c, "Dialing")) = {Res("coordHTTP"), Dir(c)}
                /\ Uses(Socket(c, "Convo")) = {Res("convoHTTP"), Dir(c)}
                /\ Uses(Dir(c)) = {}
    <2>1. Socket(c, "AddFriend")[1] = "AddFriend" /\ Socket(c, "AddFriend")[2] = c BY <1>3
    <2>2. Socket(c, "Dialing")[1] = "Dialing" /\ Socket(c, "Dialing")[2] = c BY <1>3
    <2>3. Socket(c, "Convo")[1] = "Convo" /\ Socket(c, "Convo")[2] = c BY <1>3
    <2>4. Dir(c)[1] \in Alone BY <1>3 DEF Alone
    <2>5. Uses(Socket(c, "AddFriend")) = {Res("coordHTTP"), Dir(c)} BY <1>11, <2>1
    <2>6. Uses(Socket(c, "Dialing")) = {Res("coordHTTP"), Dir(c)} BY <1>11, <2>2
    <2>7. Uses(Socket(c, "Convo")) = {Res("convoHTTP"), Dir(c)} BY <1>12, <2>3
    <2>8. Uses(Dir(c)) = {} BY <1>5, <2>4, Zenon
    <2> QED BY <2>5, <2>6, <2>7, <2>8
  <1>14. ASSUME NEW i PROVE Uses(<<"convoMixer", i>>) = {}
    <2> DEFINE x == <<"convoMixer", i>>
    <2>1. x[1] \in Alone BY <1>1 DEF Alone
    <2> HIDE DEF x
    <2>2. Uses(x) = {} BY <1>5, <2>1, Zenon
    <2> QED BY <2>2 DEF x
  <1>15. ASSUME NEW kind \in {"coordListener", "mixchain", "pkg", "AddFriend config", "Dialing config",
                              "Convo config", "convoListener", "tmpDir"}
         PROVE  Uses(Res(kind)) = {}
    <2>1. Res(kind)[1] \in Alone BY <1>2 DEF Alone
    <2> QED BY <1>5, <2>1, Zenon
  <1>16. Uses(Res("cfgHTTP")) = {TmpDir} BY <1>2, <1>4
  <1>17. Uses(Res("cdn")) = {TmpDir} BY <1>2, <1>4
  <1>18. Uses(Res("addFriend")) = {TmpDir, Res("AddFriend config"), Res("cdn"), Res("mixchain"), Res("pkg")}
    BY <1>2, <1>6
  <1>19. Uses(Res("dialing")) = {TmpDir, Res("Dialing config"), Res("cdn"), Res("mixchain")}
    BY <1>2, <1>7
  <1>20. Uses(Res("coordHTTP")) = {Res("coordListener"), Res("addFriend"), Res("dialing")}
    BY <1>2, <1>8
  <1>21. Uses(Res("convoSrv")) = {TmpDir, Res("Convo config")} \cup ConvoMixers BY <1>2, <1>9
  <1>22. Uses(Res("convoHTTP")) = {Res("convoListener"), Res("convoSrv")} BY <1>2, <1>10
  <1> QED BY <1>13, <1>14, <1>15, <1>16, <1>17, <1>18, <1>19, <1>20, <1>21, <1>22

\* All cleanups of the harness, in the order of the starts.
FullCleanups ==
    << Cfg, {Res("cdn")}, {Res("mixchain")}, {Res("pkg")}, {Res("dialing")}, {Res("addFriend")},
       Coord, ConvoMixers, {Res("convoSrv")}, Convo >>

\* The cleanup that takes down a thing of a kind.
Owner(kind) ==
    CASE kind \in {"cfgHTTP", "AddFriend config", "Dialing config", "Convo config"} -> 1
      [] kind = "cdn" -> 2
      [] kind = "mixchain" -> 3
      [] kind = "pkg" -> 4
      [] kind = "dialing" -> 5
      [] kind = "addFriend" -> 6
      [] kind \in {"coordHTTP", "coordListener"} -> 7
      [] kind = "convoMixer" -> 8
      [] kind = "convoSrv" -> 9
      [] kind \in {"convoHTTP", "convoListener"} -> 10

Covered(n) == UNION {FullCleanups[i] : i \in 1..n}

LEMMA FullFacts ==
  LET f == FullCleanups
  IN  /\ f[1] = Cfg /\ f[2] = {Res("cdn")} /\ f[3] = {Res("mixchain")} /\ f[4] = {Res("pkg")}
      /\ f[5] = {Res("dialing")} /\ f[6] = {Res("addFriend")} /\ f[7] = Coord
      /\ f[8] = ConvoMixers /\ f[9] = {Res("convoSrv")} /\ f[10] = Convo
      /\ \A i \in 1..10 : f[i] \in SUBSET Things
  <1>1. /\ FullCleanups[1] = Cfg /\ FullCleanups[2] = {Res("cdn")} /\ FullCleanups[3] = {Res("mixchain")}
        /\ FullCleanups[4] = {Res("pkg")} /\ FullCleanups[5] = {Res("dialing")}
        /\ FullCleanups[6] = {Res("addFriend")} /\ FullCleanups[7] = Coord
        /\ FullCleanups[8] = ConvoMixers /\ FullCleanups[9] = {Res("convoSrv")} /\ FullCleanups[10] = Convo
    BY DEF FullCleanups
  <1>2. /\ Cfg \in SUBSET Things /\ {Res("cdn")} \in SUBSET Things /\ {Res("mixchain")} \in SUBSET Things
        /\ {Res("pkg")} \in SUBSET Things /\ {Res("dialing")} \in SUBSET Things
        /\ {Res("addFriend")} \in SUBSET Things /\ Coord \in SUBSET Things
        /\ ConvoMixers \in SUBSET Things /\ {Res("convoSrv")} \in SUBSET Things /\ Convo \in SUBSET Things
    BY ThingsTyped DEF Kinds
  <1>3. \A i \in 1..10 : i \in {1, 2, 3, 4, 5, 6, 7, 8, 9, 10} OBVIOUS
  <1> HIDE DEF FullCleanups
  <1> QED BY <1>1, <1>2, <1>3

\* No two cleanups take down the same thing.
LEMMA OneOwner ==
  ASSUME NEW i \in 1..10, NEW x \in FullCleanups[i]
  PROVE  Owner(x[1]) = i
  <1>1. \A kind : Res(kind)[1] = kind BY DEF Res
  <1>2. \A j : <<"convoMixer", j>>[1] = "convoMixer" OBVIOUS
  <1>3. CASE i = 1
    <2>1. x \in Cfg BY <1>3, FullFacts
    <2>2. x[1] \in {"cfgHTTP", "AddFriend config", "Dialing config", "Convo config"}
      BY <1>1, <2>1 DEF Cfg, Configs
    <2> QED BY <1>3, <2>2 DEF Owner
  <1>4. CASE i = 2
    <2>1. x[1] = "cdn" BY <1>1, <1>4, FullFacts
    <2> QED BY <1>4, <2>1 DEF Owner
  <1>5. CASE i = 3
    <2>1. x[1] = "mixchain" BY <1>1, <1>5, FullFacts
    <2> QED BY <1>5, <2>1 DEF Owner
  <1>6. CASE i = 4
    <2>1. x[1] = "pkg" BY <1>1, <1>6, FullFacts
    <2> QED BY <1>6, <2>1 DEF Owner
  <1>7. CASE i = 5
    <2>1. x[1] = "dialing" BY <1>1, <1>7, FullFacts
    <2> QED BY <1>7, <2>1 DEF Owner
  <1>8. CASE i = 6
    <2>1. x[1] = "addFriend" BY <1>1, <1>8, FullFacts
    <2> QED BY <1>8, <2>1 DEF Owner
  <1>9. CASE i = 7
    <2>1. x[1] \in {"coordHTTP", "coordListener"} BY <1>1, <1>9, FullFacts DEF Coord
    <2> QED BY <1>9, <2>1 DEF Owner
  <1>10. CASE i = 8
    <2>1. x[1] = "convoMixer" BY <1>2, <1>10, FullFacts DEF ConvoMixers
    <2> QED BY <1>10, <2>1 DEF Owner
  <1>11. CASE i = 9
    <2>1. x[1] = "convoSrv" BY <1>1, <1>11, FullFacts
    <2> QED BY <1>11, <2>1 DEF Owner
  <1>12. CASE i = 10
    <2>1. x[1] \in {"convoHTTP", "convoListener"} BY <1>1, <1>12, FullFacts DEF Convo
    <2> QED BY <1>12, <2>1 DEF Owner
  <1>13. i \in {1, 2, 3, 4, 5, 6, 7, 8, 9, 10} OBVIOUS
  <1> QED BY <1>3, <1>4, <1>5, <1>6, <1>7, <1>8, <1>9, <1>10, <1>11, <1>12, <1>13

\* One cleanup takes down exactly what it owns.
LEMMA CoveredFront ==
  ASSUME NEW n \in 1..10
  PROVE  Covered(n) \ FullCleanups[n] = Covered(n - 1)
  <1>1. ASSUME NEW x \in Covered(n) \ FullCleanups[n] PROVE x \in Covered(n - 1)
    <2>1. PICK i \in 1..n : x \in FullCleanups[i] BY DEF Covered
    <2>2. i # n BY <2>1
    <2>3. i \in 1..(n - 1) BY <2>2
    <2> QED BY <2>1, <2>3 DEF Covered
  <1>2. ASSUME NEW x \in Covered(n - 1) PROVE x \in Covered(n) \ FullCleanups[n]
    <2>1. PICK i \in 1..(n - 1) : x \in FullCleanups[i] BY DEF Covered
    <2>2. i \in 1..n /\ i \in 1..10 /\ i # n OBVIOUS
    <2>3. x \notin FullCleanups[n]
      <3> SUFFICES ASSUME x \in FullCleanups[n] PROVE FALSE OBVIOUS
      <3>1. Owner(x[1]) = i BY <2>1, <2>2, OneOwner
      <3>2. Owner(x[1]) = n BY OneOwner
      <3> QED BY <2>2, <3>1, <3>2
    <2> QED BY <2>1, <2>2, <2>3 DEF Covered
  <1> QED BY <1>1, <1>2

\* What a cleanup takes down works only with what later cleanups, those of
\* earlier starts, take down, or with its own.
LEMMA CoveredResolved ==
  ASSUME NEW n \in 0..10, NEW x \in Covered(n)
  PROVE  Uses(x) \subseteq {TmpDir} \cup Covered(n)
  <1>1. PICK i \in 1..n : x \in FullCleanups[i] BY DEF Covered
  <1>2. \A j \in 1..n : FullCleanups[j] \subseteq Covered(n) BY DEF Covered
  <1>3. CASE i \in {1, 2, 3, 4, 8}
    <2>1. x \in Cfg \/ x = Res("cdn") \/ x = Res("mixchain") \/ x = Res("pkg") \/ x \in ConvoMixers
      BY <1>1, <1>3, FullFacts
    <2>2. ASSUME x \in Cfg PROVE Uses(x) \subseteq {TmpDir} BY <2>2, UsesFacts DEF Cfg, Configs
    <2>3. ASSUME x \in ConvoMixers PROVE Uses(x) \subseteq {TmpDir} BY <2>3, UsesFacts DEF ConvoMixers
    <2>4. ASSUME x = Res("cdn") PROVE Uses(x) \subseteq {TmpDir} BY <2>4, UsesFacts
    <2>5. ASSUME x = Res("mixchain") PROVE Uses(x) \subseteq {TmpDir} BY <2>5, UsesFacts
    <2>6. ASSUME x = Res("pkg") PROVE Uses(x) \subseteq {TmpDir} BY <2>6, UsesFacts
    <2> QED BY <2>1, <2>2, <2>3, <2>4, <2>5, <2>6
  <1>4. CASE i = 5
    <2>1. Uses(x) = {TmpDir, Res("Dialing config"), Res("cdn"), Res("mixchain")}
      BY <1>1, <1>4, FullFacts, UsesFacts
    <2>2. Res("Dialing config") \in FullCleanups[1] /\ Res("cdn") \in FullCleanups[2]
          /\ Res("mixchain") \in FullCleanups[3]
      BY FullFacts DEF Cfg, Configs
    <2>3. 1 \in 1..n /\ 2 \in 1..n /\ 3 \in 1..n BY <1>1, <1>4
    <2> QED BY <1>2, <2>1, <2>2, <2>3
  <1>5. CASE i = 6
    <2>1. Uses(x) = {TmpDir, Res("AddFriend config"), Res("cdn"), Res("mixchain"), Res("pkg")}
      BY <1>1, <1>5, FullFacts, UsesFacts
    <2>2. /\ Res("AddFriend config") \in FullCleanups[1] /\ Res("cdn") \in FullCleanups[2]
          /\ Res("mixchain") \in FullCleanups[3] /\ Res("pkg") \in FullCleanups[4]
      BY FullFacts DEF Cfg, Configs
    <2>3. 1 \in 1..n /\ 2 \in 1..n /\ 3 \in 1..n /\ 4 \in 1..n BY <1>1, <1>5
    <2> QED BY <1>2, <2>1, <2>2, <2>3
  <1>6. CASE i = 7
    <2>1. Uses(x) \subseteq {Res("coordListener"), Res("addFriend"), Res("dialing")}
      BY <1>1, <1>6, FullFacts, UsesFacts DEF Coord
    <2>2. /\ Res("coordListener") \in FullCleanups[7] /\ Res("addFriend") \in FullCleanups[6]
          /\ Res("dialing") \in FullCleanups[5]
      BY FullFacts DEF Coord
    <2>3. 5 \in 1..n /\ 6 \in 1..n /\ 7 \in 1..n BY <1>1, <1>6
    <2> QED BY <1>2, <2>1, <2>2, <2>3
  <1>7. CASE i = 9
    <2>1. Uses(x) = {TmpDir, Res("Convo config")} \cup ConvoMixers BY <1>1, <1>7, FullFacts, UsesFacts
    <2>2. Res("Convo config") \in FullCleanups[1] /\ ConvoMixers = FullCleanups[8]
      BY FullFacts DEF Cfg, Configs
    <2>3. 1 \in 1..n /\ 8 \in 1..n BY <1>1, <1>7
    <2>4. Res("Convo config") \in Covered(n) /\ ConvoMixers \subseteq Covered(n) BY <1>2, <2>2, <2>3
    <2> QED BY <2>1, <2>4
  <1>8. CASE i = 10
    <2>1. Uses(x) \subseteq {Res("convoListener"), Res("convoSrv")}
      BY <1>1, <1>8, FullFacts, UsesFacts DEF Convo
    <2>2. Res("convoListener") \in FullCleanups[10] /\ Res("convoSrv") \in FullCleanups[9]
      BY FullFacts DEF Convo
    <2>3. 9 \in 1..n /\ 10 \in 1..n BY <1>1, <1>8
    <2> QED BY <1>2, <2>1, <2>2, <2>3
  <1>9. i \in {1, 2, 3, 4, 5, 6, 7, 8, 9, 10} OBVIOUS
  <1> QED BY <1>3, <1>4, <1>5, <1>6, <1>7, <1>8, <1>9

-----------------------------------------------------------------------------
(* What New has started after k steps. *)

Opened(k) == UNION {StartSteps[i].opens : i \in 1..k}

LEMMA OpenedFacts ==
  /\ Opened(0) = {}
  /\ \A k \in Nat : Opened(k + 1) = Opened(k) \cup StartSteps[k + 1].opens
  <1>1. Opened(0) = {} BY DEF Opened
  <1>2. ASSUME NEW k \in Nat PROVE Opened(k + 1) = Opened(k) \cup StartSteps[k + 1].opens
    <2>1. \A i : i \in 1..(k + 1) <=> (i \in 1..k \/ i = k + 1) BY <1>2
    <2> QED BY <2>1 DEF Opened
  <1> QED BY <1>1, <1>2

\* Where a step is in New.
LEMMA WhichStep ==
  ASSUME NEW i \in 1..(NumMixers + 15)
  PROVE  \/ i \in {1, 2, 3, 4, 5, 6, 7, 8, 9, 10, 11}
         \/ \E j \in 1..NumMixers : i = j + 11
         \/ i \in {NumMixers + 12, NumMixers + 13, NumMixers + 14, NumMixers + 15}
  <1>1. NumMixers \in Nat BY HarnessAssumption
  <1>2. CASE i <= 11 BY <1>2
  <1>3. CASE i > 11 /\ i <= NumMixers + 11
    <2>1. i - 11 \in 1..NumMixers /\ i = (i - 11) + 11 BY <1>1, <1>3
    <2> QED BY <2>1
  <1>4. CASE i > NumMixers + 11 BY <1>1, <1>4
  <1> QED BY <1>1, <1>2, <1>3, <1>4

\* A step of New starts what works only with what New has started by then.
LEMMA OpenedResolved ==
  ASSUME NEW k \in 0..Len(StartSteps), NEW x \in Opened(k)
  PROVE  Uses(x) \subseteq {TmpDir} \cup Opened(k)
  <1> DEFINE M == NumMixers
  <1>0. M \in Nat /\ Len(StartSteps) = M + 15 BY HarnessAssumption, StartStepsFacts
  <1>1. PICK i \in 1..k : x \in StartSteps[i].opens BY DEF Opened
  <1>2. \A j \in 1..k : StartSteps[j].opens \subseteq Opened(k) BY DEF Opened
  <1>3. i \in 1..(M + 15) BY <1>0, <1>1
  <1>4. CASE i \in {1, 2, 3, 4, 5, 6, 7, 11}
    <2>1. \/ x = Res("cfgHTTP") \/ x = Res("coordListener") \/ x = Res("cdn") \/ x = Res("mixchain")
          \/ x = Res("pkg") \/ x = Res("AddFriend config") \/ x = Res("Dialing config")
          \/ x = Res("convoListener")
      BY <1>1, <1>4, StartStepsFacts
    <2>2. Uses(x) \subseteq {TmpDir} BY <2>1, UsesFacts
    <2> QED BY <2>2
  <1>5. CASE i = 8
    <2>1. Uses(x) = {TmpDir, Res("AddFriend config"), Res("cdn"), Res("mixchain"), Res("pkg")}
      BY <1>1, <1>5, StartStepsFacts, UsesFacts
    <2>2. 3 \in 1..k /\ 4 \in 1..k /\ 5 \in 1..k /\ 6 \in 1..k BY <1>1, <1>5
    <2>3. /\ Res("AddFriend config") \in Opened(k) /\ Res("cdn") \in Opened(k)
          /\ Res("mixchain") \in Opened(k) /\ Res("pkg") \in Opened(k)
      BY <1>2, <2>2, StartStepsFacts
    <2> QED BY <2>1, <2>3
  <1>6. CASE i = 9
    <2>1. Uses(x) = {TmpDir, Res("Dialing config"), Res("cdn"), Res("mixchain")}
      BY <1>1, <1>6, StartStepsFacts, UsesFacts
    <2>2. 3 \in 1..k /\ 4 \in 1..k /\ 7 \in 1..k BY <1>1, <1>6
    <2>3. Res("Dialing config") \in Opened(k) /\ Res("cdn") \in Opened(k) /\ Res("mixchain") \in Opened(k)
      BY <1>2, <2>2, StartStepsFacts
    <2> QED BY <2>1, <2>3
  <1>7. CASE i = 10
    <2>1. Uses(x) = {Res("coordListener"), Res("addFriend"), Res("dialing")}
      BY <1>1, <1>7, StartStepsFacts, UsesFacts
    <2>2. 2 \in 1..k /\ 8 \in 1..k /\ 9 \in 1..k BY <1>1, <1>7
    <2>3. Res("coordListener") \in Opened(k) /\ Res("addFriend") \in Opened(k) /\ Res("dialing") \in Opened(k)
      BY <1>2, <2>2, StartStepsFacts
    <2> QED BY <2>1, <2>3
  <1>8. CASE \E j \in 1..M : i = j + 11
    <2>1. PICK j \in 1..M : i = j + 11 BY <1>8
    <2>2. x = <<"convoMixer", j>> BY <1>1, <2>1, StartStepsFacts
    <2>3. Uses(x) = {} BY <2>2, UsesFacts
    <2> QED BY <2>3
  <1>9. CASE i = M + 12
    <2>1. x \in {} BY <1>1, <1>9, StartStepsFacts
    <2> QED BY <2>1
  <1>10. CASE i = M + 13
    <2>1. x = Res("Convo config") BY <1>1, <1>10, StartStepsFacts
    <2>2. Uses(x) = {} BY <2>1, UsesFacts
    <2> QED BY <2>2
  <1>11. CASE i = M + 14
    <2>1. x = Res("convoSrv") BY <1>1, <1>11, StartStepsFacts
    <2>2. Uses(x) = {TmpDir, Res("Convo config")} \cup ConvoMixers BY <2>1, UsesFacts
    <2>3. M + 13 \in 1..k /\ \A j \in 1..M : j + 11 \in 1..k BY <1>0, <1>1, <1>11
    <2>4. Res("Convo config") \in Opened(k) BY <1>2, <2>3, StartStepsFacts
    <2>5. ASSUME NEW j \in 1..M PROVE <<"convoMixer", j>> \in Opened(k)
      <3>1. StartSteps[j + 11].opens = {<<"convoMixer", j>>} BY StartStepsFacts
      <3>2. StartSteps[j + 11].opens \subseteq Opened(k) BY <1>2, <2>3
      <3> QED BY <3>1, <3>2
    <2>6. ConvoMixers \subseteq Opened(k) BY <2>5 DEF ConvoMixers
    <2> QED BY <2>2, <2>4, <2>6
  <1>12. CASE i = M + 15
    <2>1. x = Res("convoHTTP") BY <1>1, <1>12, StartStepsFacts
    <2>2. Uses(x) = {Res("convoListener"), Res("convoSrv")} BY <2>1, UsesFacts
    <2>3. 11 \in 1..k /\ M + 14 \in 1..k BY <1>0, <1>1, <1>12
    <2>4. Res("convoListener") \in Opened(k) /\ Res("convoSrv") \in Opened(k)
      BY <1>2, <2>3, StartStepsFacts
    <2> QED BY <2>2, <2>4
  <1> HIDE DEF M
  <1>13. \/ i \in {1, 2, 3, 4, 5, 6, 7, 8, 9, 10, 11}
         \/ \E j \in 1..M : i = j + 11
         \/ i \in {M + 12, M + 13, M + 14, M + 15}
    BY <1>3, WhichStep DEF M
  <1> QED BY <1>4, <1>5, <1>6, <1>7, <1>8, <1>9, <1>10, <1>11, <1>12, <1>13

\* When New is done, what it has started is what Close takes down.
LEMMA AllCovered == Opened(Len(StartSteps)) = Covered(10)
  <1> DEFINE M == NumMixers
             A == Opened(Len(StartSteps))
             B == Covered(10)
  <1>0. M \in Nat /\ Len(StartSteps) = M + 15 BY HarnessAssumption, StartStepsFacts
  <1>1. \A i \in 1..(M + 15) : StartSteps[i].opens \subseteq A BY <1>0 DEF Opened
  <1>2. \A i \in 1..10 : FullCleanups[i] \subseteq B BY DEF Covered
  <1> HIDE DEF A, B, M
  <1>3. /\ 1 \in 1..10 /\ 2 \in 1..10 /\ 3 \in 1..10 /\ 4 \in 1..10 /\ 5 \in 1..10 /\ 6 \in 1..10
        /\ 7 \in 1..10 /\ 8 \in 1..10 /\ 9 \in 1..10 /\ 10 \in 1..10
    OBVIOUS
  <1>4. /\ 1 \in 1..(M + 15) /\ 2 \in 1..(M + 15) /\ 3 \in 1..(M + 15) /\ 4 \in 1..(M + 15)
        /\ 5 \in 1..(M + 15) /\ 6 \in 1..(M + 15) /\ 7 \in 1..(M + 15) /\ 8 \in 1..(M + 15)
        /\ 9 \in 1..(M + 15) /\ 10 \in 1..(M + 15) /\ 11 \in 1..(M + 15) /\ M + 13 \in 1..(M + 15)
        /\ M + 14 \in 1..(M + 15) /\ M + 15 \in 1..(M + 15) /\ \A j \in 1..M : j + 11 \in 1..(M + 15)
    BY <1>0
  <1>5. Cfg \subseteq B /\ Coord \subseteq B /\ ConvoMixers \subseteq B /\ Convo \subseteq B
    BY <1>2, <1>3, FullFacts
  <1>6. /\ Res("cdn") \in B /\ Res("mixchain") \in B /\ Res("pkg") \in B /\ Res("dialing") \in B
        /\ Res("addFriend") \in B /\ Res("convoSrv") \in B
    BY <1>2, <1>3, FullFacts
  <1>7. /\ Res("cfgHTTP") \in B /\ Res("AddFriend config") \in B /\ Res("Dialing config") \in B
        /\ Res("Convo config") \in B /\ Res("coordHTTP") \in B /\ Res("coordListener") \in B
        /\ Res("convoHTTP") \in B /\ Res("convoListener") \in B
    BY <1>5 DEF Cfg, Configs, Coord, Convo
  <1>8. ASSUME NEW i \in 1..(M + 15) PROVE StartSteps[i].opens \subseteq B
    <2>1. CASE i \in {1, 2, 3, 4, 5, 6, 7, 8, 9, 10, 11}
      <3>1. CASE i \in {1, 2, 3, 4} BY <1>6, <1>7, <3>1, StartStepsFacts
      <3>2. CASE i \in {5, 6, 7, 8} BY <1>6, <1>7, <3>2, StartStepsFacts
      <3>3. CASE i \in {9, 10, 11} BY <1>6, <1>7, <3>3, StartStepsFacts
      <3> QED BY <2>1, <3>1, <3>2, <3>3
    <2>2. CASE \E j \in 1..M : i = j + 11
      <3>1. PICK j \in 1..M : i = j + 11 BY <2>2
      <3>2. StartSteps[i].opens = {<<"convoMixer", j>>} BY <3>1, StartStepsFacts DEF M
      <3>3. <<"convoMixer", j>> \in ConvoMixers BY DEF ConvoMixers, M
      <3> QED BY <1>5, <3>2, <3>3
    <2>3. CASE i \in {M + 12, M + 13, M + 14, M + 15} BY <1>6, <1>7, <2>3, StartStepsFacts DEF M
    <2> QED BY <2>1, <2>2, <2>3, WhichStep DEF M
  <1>9. A \subseteq B BY <1>0, <1>8 DEF A, Opened
  <1>10. /\ Res("cfgHTTP") \in A /\ Res("coordListener") \in A /\ Res("cdn") \in A /\ Res("mixchain") \in A
         /\ Res("pkg") \in A /\ Res("AddFriend config") \in A /\ Res("Dialing config") \in A
         /\ Res("addFriend") \in A /\ Res("dialing") \in A /\ Res("coordHTTP") \in A
         /\ Res("convoListener") \in A
    BY <1>1, <1>4, StartStepsFacts
  <1>11. Res("Convo config") \in A /\ Res("convoSrv") \in A /\ Res("convoHTTP") \in A
    BY <1>1, <1>4, StartStepsFacts DEF M
  <1>12. ASSUME NEW j \in 1..M PROVE <<"convoMixer", j>> \in A
    <2>1. StartSteps[j + 11].opens = {<<"convoMixer", j>>} BY StartStepsFacts DEF M
    <2> QED BY <1>1, <1>4, <2>1
  <1>13. ConvoMixers \subseteq A BY <1>12 DEF ConvoMixers, M
  <1>14. Cfg \subseteq A /\ Coord \subseteq A /\ Convo \subseteq A
    BY <1>10, <1>11 DEF Cfg, Configs, Coord, Convo
  <1>15. ASSUME NEW i \in 1..10 PROVE FullCleanups[i] \subseteq A
    <2>1. i \in {1, 2, 3, 4, 5, 6, 7, 8, 9, 10} OBVIOUS
    <2> QED BY <1>10, <1>11, <1>13, <1>14, <2>1, FullFacts
  <1>16. B \subseteq A BY <1>15 DEF B, Covered
  <1>17. A = B BY <1>9, <1>16
  <1> QED BY <1>17 DEF A, B

\* The cleanups s are the first ones of the harness.
Noted(s) ==
    /\ s \in Seq(SUBSET Things) /\ Len(s) <= 10
    /\ \A i \in 1..Len(s) : s[i] = FullCleanups[i]

\* How many cleanups New has noted after k steps.
NotedAt(k, n) ==
    \/ k = 0 /\ n = 0
    \/ k \in 1..2 /\ n = 1
    \/ k = 3 /\ n = 2
    \/ k = 4 /\ n = 3
    \/ k \in 5..8 /\ n = 4
    \/ k = 9 /\ n = 6
    \/ k \in 10..(NumMixers + 11) /\ n = 7
    \/ k \in (NumMixers + 12)..(NumMixers + 13) /\ n = 8
    \/ k = NumMixers + 14 /\ n = 9
    \/ k = NumMixers + 15 /\ n = 10

LEMMA NotedOne ==
  ASSUME NEW s, Noted(s), NEW x, Len(s) <= 9, x = FullCleanups[Len(s) + 1]
  PROVE  Noted(s \o <<x>>) /\ Len(s \o <<x>>) = Len(s) + 1
  <1> DEFINE t == <<x>>
             u == s \o t
  <1>1. s \in Seq(SUBSET Things) /\ Len(s) \in Nat BY DEF Noted
  <1>2. Len(s) + 1 \in 1..10 BY <1>1
  <1>3. x \in SUBSET Things BY <1>2, FullFacts
  <1>4. t \in Seq(SUBSET Things) /\ Len(t) = 1 /\ t[1] = x BY <1>3
  <1> HIDE DEF t
  <1>5. /\ u \in Seq(SUBSET Things) /\ Len(u) = Len(s) + Len(t)
        /\ \A i \in 1..Len(s) : u[i] = s[i]
        /\ \A i \in 1..Len(t) : u[Len(s) + i] = t[i]
    BY <1>1, <1>4, Concatenated
  <1> HIDE DEF u
  <1>6. Len(u) = Len(s) + 1 /\ u[Len(s) + 1] = x
    <2>1. 1 \in 1..Len(t) BY <1>4
    <2> QED BY <1>4, <1>5, <2>1
  <1>7. ASSUME NEW i \in 1..Len(u) PROVE u[i] = FullCleanups[i]
    <2>1. CASE i \in 1..Len(s) BY <1>5, <2>1 DEF Noted
    <2>2. CASE i \notin 1..Len(s)
      <3>1. i = Len(s) + 1 BY <1>1, <1>6, <2>2
      <3> QED BY <1>6, <3>1
    <2> QED BY <2>1, <2>2
  <1>8. Len(u) <= 10 BY <1>1, <1>6
  <1>9. Noted(u) BY <1>5, <1>7, <1>8 DEF Noted
  <1> QED BY <1>6, <1>9 DEF u, t

LEMMA NotedTwo ==
  ASSUME NEW s, Noted(s), NEW x, NEW y, Len(s) <= 8, x = FullCleanups[Len(s) + 1], y = FullCleanups[Len(s) + 2]
  PROVE  Noted(s \o <<x, y>>) /\ Len(s \o <<x, y>>) = Len(s) + 2
  <1> DEFINE t == <<x, y>>
             u == s \o t
  <1>1. s \in Seq(SUBSET Things) /\ Len(s) \in Nat BY DEF Noted
  <1>2. Len(s) + 1 \in 1..10 /\ Len(s) + 2 \in 1..10 BY <1>1
  <1>3. x \in SUBSET Things /\ y \in SUBSET Things BY <1>2, FullFacts
  <1>4. t \in Seq(SUBSET Things) /\ Len(t) = 2 /\ t[1] = x /\ t[2] = y BY <1>3
  <1> HIDE DEF t
  <1>5. /\ u \in Seq(SUBSET Things) /\ Len(u) = Len(s) + Len(t)
        /\ \A i \in 1..Len(s) : u[i] = s[i]
        /\ \A i \in 1..Len(t) : u[Len(s) + i] = t[i]
    BY <1>1, <1>4, Concatenated
  <1> HIDE DEF u
  <1>6. Len(u) = Len(s) + 2 /\ u[Len(s) + 1] = x /\ u[Len(s) + 2] = y
    <2>1. 1 \in 1..Len(t) /\ 2 \in 1..Len(t) BY <1>4
    <2> QED BY <1>4, <1>5, <2>1
  <1>7. ASSUME NEW i \in 1..Len(u) PROVE u[i] = FullCleanups[i]
    <2>1. CASE i \in 1..Len(s) BY <1>5, <2>1 DEF Noted
    <2>2. CASE i \notin 1..Len(s)
      <3>1. i = Len(s) + 1 \/ i = Len(s) + 2 BY <1>1, <1>6, <2>2
      <3> QED BY <1>6, <3>1
    <2> QED BY <2>1, <2>2
  <1>8. Len(u) <= 10 BY <1>1, <1>6
  <1>9. Noted(u) BY <1>5, <1>7, <1>8 DEF Noted
  <1> QED BY <1>6, <1>9 DEF u, t

LEMMA NotedStep ==
  ASSUME NEW k \in 0..(NumMixers + 14), NEW s, Noted(s), NotedAt(k, Len(s))
  PROVE  LET t == s \o StartSteps[k + 1].appends
         IN  Noted(t) /\ NotedAt(k + 1, Len(t))
  <1> DEFINE M == NumMixers
             a == StartSteps[k + 1].appends
             t == s \o a
             n == Len(s)
  <1>0. M \in Nat BY HarnessAssumption
  <1>1. s \in Seq(SUBSET Things) /\ n \in Nat BY DEF Noted
  <1> SUFFICES Noted(t) /\ NotedAt(k + 1, Len(t)) OBVIOUS
  <1>2. ASSUME a = <<>> PROVE Noted(t) /\ Len(t) = n
    <2>1. s \o <<>> = s BY <1>1
    <2> QED BY <1>2, <2>1
  <1>3. ASSUME NEW x, a = <<x>>, n <= 9, x = FullCleanups[n + 1] PROVE Noted(t) /\ Len(t) = n + 1
    BY <1>3, NotedOne
  <1> HIDE DEF a, t, M, n
  <1>4. CASE k = 0
    <2>1. n = 0 /\ a = <<Cfg>>
      <3>1. n = 0 BY <1>0, <1>4 DEF NotedAt, M, n
      <3>2. StartSteps[1].appends = <<Cfg>> BY StartStepsFacts
      <3>3. k + 1 = 1 BY <1>4
      <3> QED BY <3>1, <3>2, <3>3 DEF a
    <2>2. Noted(t) /\ Len(t) = 1 BY <1>3, <2>1, FullFacts
    <2> QED BY <1>4, <2>2 DEF NotedAt
  <1>5. CASE k = 1
    <2>1. n = 1 /\ a = <<>>
      <3>1. n = 1 BY <1>0, <1>5 DEF NotedAt, M, n
      <3>2. StartSteps[2].appends = <<>> BY StartStepsFacts
      <3>3. k + 1 = 2 BY <1>5
      <3> QED BY <3>1, <3>2, <3>3 DEF a
    <2> QED BY <1>2, <1>5, <2>1 DEF NotedAt
  <1>6. CASE k = 2
    <2>1. n = 1 /\ a = <<{Res("cdn")}>>
      <3>1. n = 1 BY <1>0, <1>6 DEF NotedAt, M, n
      <3>2. StartSteps[3].appends = <<{Res("cdn")}>> BY StartStepsFacts
      <3>3. k + 1 = 3 BY <1>6
      <3> QED BY <3>1, <3>2, <3>3 DEF a
    <2>2. Noted(t) /\ Len(t) = 2 BY <1>3, <2>1, FullFacts
    <2> QED BY <1>6, <2>2 DEF NotedAt
  <1>7. CASE k = 3
    <2>1. n = 2 /\ a = <<{Res("mixchain")}>>
      <3>1. n = 2 BY <1>0, <1>7 DEF NotedAt, M, n
      <3>2. StartSteps[4].appends = <<{Res("mixchain")}>> BY StartStepsFacts
      <3>3. k + 1 = 4 BY <1>7
      <3> QED BY <3>1, <3>2, <3>3 DEF a
    <2>2. Noted(t) /\ Len(t) = 3 BY <1>3, <2>1, FullFacts
    <2> QED BY <1>7, <2>2 DEF NotedAt
  <1>8. CASE k = 4
    <2>1. n = 3 /\ a = <<{Res("pkg")}>>
      <3>1. n = 3 BY <1>0, <1>8 DEF NotedAt, M, n
      <3>2. StartSteps[5].appends = <<{Res("pkg")}>> BY StartStepsFacts
      <3>3. k + 1 = 5 BY <1>8
      <3> QED BY <3>1, <3>2, <3>3 DEF a
    <2>2. Noted(t) /\ Len(t) = 4 BY <1>3, <2>1, FullFacts
    <2> QED BY <1>8, <2>2 DEF NotedAt
  <1>9. CASE k \in 5..7
    <2>1. n = 4 BY <1>0, <1>9 DEF NotedAt, M, n
    <2>2. k \in {5, 6, 7} BY <1>9
    <2>3. a = <<>>
      <3>1. StartSteps[6].appends = <<>> /\ StartSteps[7].appends = <<>> /\ StartSteps[8].appends = <<>>
        BY StartStepsFacts
      <3>2. k + 1 = 6 \/ k + 1 = 7 \/ k + 1 = 8 BY <2>2
      <3> QED BY <3>1, <3>2 DEF a
    <2> QED BY <1>2, <1>9, <2>1, <2>3 DEF NotedAt
  <1>10. CASE k = 8
    <2>1. n = 4 /\ a = <<{Res("dialing")}, {Res("addFriend")}>>
      <3>1. n = 4 BY <1>0, <1>10 DEF NotedAt, M, n
      <3>2. StartSteps[9].appends = <<{Res("dialing")}, {Res("addFriend")}>> BY StartStepsFacts
      <3>3. k + 1 = 9 BY <1>10
      <3> QED BY <3>1, <3>2, <3>3 DEF a
    <2>2. Noted(t) /\ Len(t) = 6
      <3> DEFINE x == {Res("dialing")}
                 y == {Res("addFriend")}
      <3>1. x = FullCleanups[5] /\ y = FullCleanups[6] /\ t = s \o <<x, y>> BY <2>1, FullFacts DEF t
      <3> HIDE DEF x, y
      <3>2. Len(s) = 4 BY <2>1 DEF n
      <3>3. Len(s) <= 8 /\ x = FullCleanups[Len(s) + 1] /\ y = FullCleanups[Len(s) + 2] BY <3>1, <3>2
      <3>4. Noted(s \o <<x, y>>) /\ Len(s \o <<x, y>>) = Len(s) + 2 BY <3>3, NotedTwo
      <3> QED BY <3>1, <3>2, <3>4
    <2> QED BY <1>10, <2>2 DEF NotedAt
  <1>11. CASE k = 9
    <2>1. n = 6 /\ a = <<Coord>>
      <3>1. n = 6 BY <1>0, <1>11 DEF NotedAt, M, n
      <3>2. StartSteps[10].appends = <<Coord>> BY StartStepsFacts
      <3>3. k + 1 = 10 BY <1>11
      <3> QED BY <3>1, <3>2, <3>3 DEF a
    <2>2. Noted(t) /\ Len(t) = 7 BY <1>3, <2>1, FullFacts
    <2> QED BY <1>0, <1>11, <2>2 DEF NotedAt, M
  <1>12. CASE k = 10
    <2>1. n = 7 /\ a = <<>>
      <3>1. n = 7 BY <1>0, <1>12 DEF NotedAt, M, n
      <3>2. StartSteps[11].appends = <<>> BY StartStepsFacts
      <3>3. k + 1 = 11 BY <1>12
      <3> QED BY <3>1, <3>2, <3>3 DEF a
    <2> QED BY <1>0, <1>2, <1>12, <2>1 DEF NotedAt, M
  <1>13. CASE k \in 11..(M + 10)
    <2>1. n = 7 BY <1>0, <1>13 DEF NotedAt, M, n
    <2>2. k - 10 \in 1..M /\ (k - 10) + 11 = k + 1 BY <1>0, <1>13
    <2>3. StartSteps[(k - 10) + 11].appends = <<>> BY <2>2, StartStepsFacts DEF M
    <2>4. a = <<>> BY <2>2, <2>3 DEF a
    <2>5. k + 1 \in 10..(M + 11) BY <1>0, <1>13
    <2> QED BY <1>2, <2>1, <2>4, <2>5 DEF NotedAt, M
  <1>14. CASE k = M + 11
    <2>1. n = 7 BY <1>0, <1>14 DEF NotedAt, M, n
    <2>2. k + 1 = M + 12 BY <1>0, <1>14
    <2>3. a = <<ConvoMixers>> BY <2>2, StartStepsFacts DEF a, M
    <2>4. Noted(t) /\ Len(t) = 8 BY <1>3, <2>1, <2>3, FullFacts
    <2> QED BY <1>0, <2>2, <2>4 DEF NotedAt, M
  <1>15. CASE k = M + 12
    <2>1. n = 8 BY <1>0, <1>15 DEF NotedAt, M, n
    <2>2. k + 1 = M + 13 BY <1>0, <1>15
    <2>3. a = <<>> BY <2>2, StartStepsFacts DEF a, M
    <2> QED BY <1>0, <1>2, <2>1, <2>2, <2>3 DEF NotedAt, M
  <1>16. CASE k = M + 13
    <2>1. n = 8 BY <1>0, <1>16 DEF NotedAt, M, n
    <2>2. k + 1 = M + 14 BY <1>0, <1>16
    <2>3. a = <<{Res("convoSrv")}>> BY <2>2, StartStepsFacts DEF a, M
    <2>4. Noted(t) /\ Len(t) = 9 BY <1>3, <2>1, <2>3, FullFacts
    <2> QED BY <1>0, <2>2, <2>4 DEF NotedAt, M
  <1>17. CASE k = M + 14
    <2>1. n = 9 BY <1>0, <1>17 DEF NotedAt, M, n
    <2>2. k + 1 = M + 15 BY <1>0, <1>17
    <2>3. a = <<Convo>> BY <2>2, StartStepsFacts DEF a, M
    <2>4. Noted(t) /\ Len(t) = 10 BY <1>3, <2>1, <2>3, FullFacts
    <2> QED BY <1>0, <2>2, <2>4 DEF NotedAt, M
  <1>18. \/ k \in {0, 1, 2, 3, 4, 8, 9, 10} \/ k \in 5..7 \/ k \in 11..(M + 10)
         \/ k \in {M + 11, M + 12, M + 13, M + 14}
    <2>1. k \in 0..(M + 14) BY DEF M
    <2> QED BY <1>0, <2>1
  <1> QED BY <1>4, <1>5, <1>6, <1>7, <1>8, <1>9, <1>10, <1>11, <1>12, <1>13, <1>14, <1>15, <1>16, <1>17, <1>18

-----------------------------------------------------------------------------
(* Everything that is up, and who takes it down. *)

Tb1    == <<TmpDir>>
Tb2    == <<TmpDir, HarnessClose>>
Tb3    == <<TmpDir, HarnessClose, Dir(caller)>>
TbFull == <<TmpDir, HarnessClose, Dir(caller), Dir(callee)>>

\* main has both clients.
ScriptPcs == {"startCaller", "startCallee", "callerFailed", "calleeFailed", "befriend", "waitRequest",
              "waitFriends", "call", "waitState", "show", "send", "receive", "stopCallee", "stopCaller"}

\* main has left through log.Fatalf, and nothing was taken down.
Fatal == pc = "exit" /\ ending = "log.Fatalf"

Booting == {"tmpDir", "new"}
Making  == {"caller", "callee"}
Leaving == {"cleanup", "exit"}

PcInv ==
    /\ pc \in Booting \cup Making \cup ScriptPcs \cup Leaving
    /\ ending = "log.Fatalf" => pc = "exit"
    /\ pc \in {"stopCallee", "stopCaller"} \cup Leaving => ending # ""
    /\ pc \notin {"startCaller", "startCallee"} => connected = 0

\* stdoutTB's cleanups are where main is.
TbInv ==
    /\ pc = "tmpDir" => tbCleanups = <<>>
    /\ pc = "new" => tbCleanups = Tb1
    /\ pc = "caller" => tbCleanups = Tb2
    /\ pc = "callee" => tbCleanups = Tb3
    /\ pc \in ScriptPcs => tbCleanups = TbFull
    /\ tbCleanups \in {<<>>, Tb1, Tb2, Tb3, TbFull}
    /\ pc = "exit" /\ ending # "log.Fatalf" => tbCleanups = <<>>

\* A directory is there while its cleanup is to run.
DirInv == \A d \in Dirs : d \in up <=> d \in ToSet(tbCleanups)

\* The servers, listeners and configs are those New has started, or those the
\* cleanups of the harness still have to take down.
ThingInv ==
    /\ pc = "tmpDir" => started = 0
    /\ pc \in Booting => /\ up \cap Things = Opened(started)
                         /\ Noted(cleanups) /\ NotedAt(started, Len(cleanups))
    /\ pc \in Making \cup ScriptPcs \/ Fatal => Running /\ Len(cleanups) = 10
    /\ pc \notin Booting /\ Running => Noted(cleanups) /\ up \cap Things = Covered(Len(cleanups))
    /\ pc \in Leaving /\ Running /\ tbCleanups \in {<<>>, Tb1} => cleanups = <<>>
    /\ pc \in Leaving /\ ~Running => tbCleanups \in {<<>>, Tb1}

\* Sockets exist only while main has both clients.
SocketInv ==
    /\ up \subseteq Dirs \cup Things \cup Sockets(caller) \cup Sockets(callee)
    /\ \A x \in Sockets(caller) \cup Sockets(callee) :
         x \in up => tbCleanups = TbFull /\ (pc \in ScriptPcs \/ Fatal)
    /\ pc \in {"startCaller", "callerFailed", "calleeFailed", "stopCaller"} => up \cap Sockets(callee) = {}
    /\ pc = "callerFailed" => up \cap Sockets(caller) = {}
    /\ pc = "startCaller" => \A i \in 1..3 : Socket(caller, Services[i]) \in up => i <= connected
    /\ pc = "startCallee" => \A i \in 1..3 : Socket(callee, Services[i]) \in up => i <= connected

HarnessInv == ScriptType /\ PcInv /\ TbInv /\ DirInv /\ ThingInv /\ SocketInv

\* Directories, the things of the harness and sockets are different things.
LEMMA Apart ==
  /\ \A x \in Things : x \notin Dirs /\ x \notin Sockets(caller) /\ x \notin Sockets(callee)
  /\ \A x \in Dirs : x \notin Sockets(caller) /\ x \notin Sockets(callee)
  /\ \A x \in Sockets(caller) : x \notin Sockets(callee)
  /\ Dirs = {TmpDir, Dir(caller), Dir(callee)}
  /\ TmpDir # Dir(caller) /\ TmpDir # Dir(callee) /\ Dir(caller) # Dir(callee)
  /\ HarnessClose \notin Dirs
  <1>1. \A kind : Res(kind)[1] = kind BY DEF Res
  <1>2. \A k, i : <<k, i>>[1] = k OBVIOUS
  <1>3. \A c, s : Socket(c, s)[1] = s /\ Socket(c, s)[2] = c BY DEF Socket
  <1>4. \A c : Dir(c)[1] = "dir" /\ Dir(c)[2] = c BY DEF Dir
  <1>5. Dirs = {TmpDir, Dir(caller), Dir(callee)} BY DemoAssumption DEF Dirs
  <1>6. TmpDir[1] = "tmpDir" BY <1>1 DEF TmpDir
  <1>7. \A x \in Dirs : x[1] \in {"tmpDir", "dir"} BY <1>4, <1>5, <1>6
  <1>8. ToSet(Services) = {"AddFriend", "Dialing", "Convo"}
    BY DEF Services, ToSet
  <1>9. \A c : \A x \in Sockets(c) : x[1] \in {"AddFriend", "Dialing", "Convo"} /\ x[2] = c
    BY <1>3, <1>8 DEF Sockets
  <1>10. \A x \in Things : x[1] \in Kinds \cup {"convoMixer"}
    BY <1>1, <1>2 DEF Things, ConvoMixers
  <1>11. \A k \in Kinds \cup {"convoMixer"} : k \notin {"tmpDir", "dir", "AddFriend", "Dialing", "Convo"}
    BY DEF Kinds
  <1>12. \A x \in Things : x \notin Dirs /\ x \notin Sockets(caller) /\ x \notin Sockets(callee)
    <2> SUFFICES ASSUME NEW x \in Things
                 PROVE  x \notin Dirs /\ x \notin Sockets(caller) /\ x \notin Sockets(callee)
      OBVIOUS
    <2>1. x[1] \notin {"tmpDir", "dir", "AddFriend", "Dialing", "Convo"} BY <1>10, <1>11
    <2> QED BY <1>7, <1>9, <2>1
  <1>13. \A x \in Dirs : x \notin Sockets(caller) /\ x \notin Sockets(callee) BY <1>7, <1>9
  <1>14. \A x \in Sockets(caller) : x \notin Sockets(callee) BY <1>9, PeerFacts
  <1>15. TmpDir # Dir(caller) /\ TmpDir # Dir(callee) BY <1>4, <1>6
  <1>16. Dir(caller) # Dir(callee) BY <1>4, PeerFacts
  <1>17. HarnessClose \notin Dirs
    <2>1. HarnessClose[1] = "harness" BY <1>1 DEF HarnessClose
    <2> QED BY <1>7, <2>1
  <1> QED BY <1>5, <1>12, <1>13, <1>14, <1>15, <1>16, <1>17

LEMMA SocketFacts ==
  ASSUME NEW c
  PROVE  /\ Len(Services) = 3
         /\ Sockets(c) = {Socket(c, "AddFriend"), Socket(c, "Dialing"), Socket(c, "Convo")}
         /\ \A i \in 1..3 : Socket(c, Services[i]) \in Sockets(c)
         /\ \A x \in Sockets(c) : \E i \in 1..3 : x = Socket(c, Services[i])
         /\ \A i, j \in 1..3 : Socket(c, Services[i]) = Socket(c, Services[j]) => i = j
  <1>1. \A s : Socket(c, s)[1] = s BY DEF Socket
  <1>2. ToSet(Services) = {"AddFriend", "Dialing", "Convo"} BY DEF Services, ToSet
  <1>3. Services[1] = "AddFriend" /\ Services[2] = "Dialing" /\ Services[3] = "Convo" /\ Len(Services) = 3
    BY DEF Services
  <1>4. Sockets(c) = {Socket(c, "AddFriend"), Socket(c, "Dialing"), Socket(c, "Convo")}
    BY <1>2 DEF Sockets
  <1>5. \A i \in 1..3 : i \in {1, 2, 3} OBVIOUS
  <1>6. \A i \in 1..3 : Socket(c, Services[i]) \in Sockets(c) BY <1>3, <1>4, <1>5
  <1>7. \A x \in Sockets(c) : \E i \in 1..3 : x = Socket(c, Services[i])
    <2>1. 1 \in 1..3 /\ 2 \in 1..3 /\ 3 \in 1..3 OBVIOUS
    <2> QED BY <1>3, <1>4, <2>1
  <1>8. \A i, j \in 1..3 : Socket(c, Services[i]) = Socket(c, Services[j]) => i = j
    <2>1. \A i, j \in 1..3 : Services[i] = Services[j] => i = j BY <1>3, <1>5
    <2> QED BY <1>1, <2>1
  <1> QED BY <1>3, <1>4, <1>6, <1>7, <1>8

LEMMA SameSequence ==
  ASSUME NEW S, NEW s \in Seq(S), NEW t \in Seq(S), Len(s) = Len(t), \A i \in 1..Len(s) : s[i] = t[i]
  PROVE  s = t
  OBVIOUS

LEMMA AppendedTuples ==
  ASSUME NEW a, NEW b, NEW c, NEW d
  PROVE  /\ Append(<<>>, a) = <<a>> /\ Append(<<a>>, b) = <<a, b>>
         /\ Append(<<a, b>>, c) = <<a, b, c>> /\ Append(<<a, b, c>>, d) = <<a, b, c, d>>
  <1> DEFINE S == {a, b, c, d}
  <1>1. /\ <<>> \in Seq(S) /\ <<a>> \in Seq(S) /\ <<a, b>> \in Seq(S) /\ <<a, b, c>> \in Seq(S)
        /\ <<a, b, c, d>> \in Seq(S)
    OBVIOUS
  <1>2. a \in S /\ b \in S /\ c \in S /\ d \in S OBVIOUS
  <1> HIDE DEF S
  <1>3. Append(<<>>, a) = <<a>> BY <1>1, <1>2, SameSequence
  <1>4. Append(<<a>>, b) = <<a, b>>
    <2> DEFINE s == Append(<<a>>, b)
    <2>1. s \in Seq(S) /\ Len(s) = 2 /\ s[1] = a /\ s[2] = b BY <1>1, <1>2
    <2>2. Len(<<a, b>>) = 2 /\ <<a, b>>[1] = a /\ <<a, b>>[2] = b OBVIOUS
    <2>3. \A i \in 1..2 : i \in {1, 2} OBVIOUS
    <2> QED BY <1>1, <2>1, <2>2, <2>3, SameSequence
  <1>5. Append(<<a, b>>, c) = <<a, b, c>>
    <2> DEFINE s == Append(<<a, b>>, c)
               t == <<a, b, c>>
    <2>1. s \in Seq(S) /\ Len(s) = 3 /\ s[1] = a /\ s[2] = b /\ s[3] = c BY <1>1, <1>2
    <2>2. t \in Seq(S) /\ Len(t) = 3 /\ t[1] = a /\ t[2] = b /\ t[3] = c BY <1>1
    <2>3. \A i \in 1..3 : i \in {1, 2, 3} OBVIOUS
    <2> HIDE DEF s, t
    <2>4. s = t BY <2>1, <2>2, <2>3, SameSequence
    <2> QED BY <2>4 DEF s, t
  <1>6. Append(<<a, b, c>>, d) = <<a, b, c, d>>
    <2> DEFINE s == Append(<<a, b, c>>, d)
               t == <<a, b, c, d>>
    <2>1. s \in Seq(S) /\ Len(s) = 4 /\ s[1] = a /\ s[2] = b /\ s[3] = c /\ s[4] = d BY <1>1, <1>2
    <2>2. t \in Seq(S) /\ Len(t) = 4 /\ t[1] = a /\ t[2] = b /\ t[3] = c /\ t[4] = d BY <1>1
    <2>3. \A i \in 1..4 : i \in {1, 2, 3, 4} OBVIOUS
    <2> HIDE DEF s, t
    <2>4. s = t BY <2>1, <2>2, <2>3, SameSequence
    <2> QED BY <2>4 DEF s, t
  <1> QED BY <1>3, <1>4, <1>5, <1>6

LEMMA FrontOfAppend ==
  ASSUME NEW S, NEW s \in Seq(S), NEW x \in S
  PROVE  Front(Append(s, x)) = s
  <1> DEFINE t == Append(s, x)
             u == Front(t)
  <1>1. t \in Seq(S) /\ Len(t) = Len(s) + 1 /\ \A i \in 1..Len(s) : t[i] = s[i] OBVIOUS
  <1> HIDE DEF t
  <1>2. u = SubSeq(t, 1, Len(t) - 1) BY DEF Front
  <1>3. Len(t) - 1 = Len(s) /\ Len(s) \in Nat BY <1>1
  <1>4. u = SubSeq(t, 1, Len(s)) BY <1>2, <1>3
  <1> HIDE DEF u
  <1>5. u \in Seq(S) /\ Len(u) = Len(s) /\ \A i \in 1..Len(s) : u[i] = t[i] BY <1>1, <1>3, <1>4
  <1>6. u = s BY <1>1, <1>5, SameSequence
  <1> QED BY <1>6 DEF u, t

LEMMA FrontsOfTuples ==
  ASSUME NEW a, NEW b, NEW c, NEW d
  PROVE  /\ Front(<<a>>) = <<>> /\ Front(<<a, b>>) = <<a>>
         /\ Front(<<a, b, c>>) = <<a, b>> /\ Front(<<a, b, c, d>>) = <<a, b, c>>
  <1> DEFINE S == {a, b, c, d}
  <1>1. <<>> \in Seq(S) /\ <<a>> \in Seq(S) /\ <<a, b>> \in Seq(S) /\ <<a, b, c>> \in Seq(S) OBVIOUS
  <1>2. a \in S /\ b \in S /\ c \in S /\ d \in S OBVIOUS
  <1> HIDE DEF S
  <1>3. Front(Append(<<>>, a)) = <<>> BY <1>1, <1>2, FrontOfAppend
  <1>4. Front(Append(<<a>>, b)) = <<a>> BY <1>1, <1>2, FrontOfAppend
  <1>5. Front(Append(<<a, b>>, c)) = <<a, b>> BY <1>1, <1>2, FrontOfAppend
  <1>6. Front(Append(<<a, b, c>>, d)) = <<a, b, c>> BY <1>1, <1>2, FrontOfAppend
  <1> QED BY <1>3, <1>4, <1>5, <1>6, AppendedTuples

\* What stdoutTB's cleanups hold, and what its last one leaves.
LEMMA TbFacts ==
  /\ ToSet(<<>>) = {} /\ ToSet(Tb1) = {TmpDir} /\ ToSet(Tb2) = {TmpDir, HarnessClose}
  /\ ToSet(Tb3) = {TmpDir, HarnessClose, Dir(caller)}
  /\ ToSet(TbFull) = {TmpDir, HarnessClose, Dir(caller), Dir(callee)}
  /\ Append(<<>>, TmpDir) = Tb1 /\ Append(Tb1, HarnessClose) = Tb2
  /\ Append(Tb2, Dir(caller)) = Tb3 /\ Append(Tb3, Dir(callee)) = TbFull
  /\ Last(Tb1) = TmpDir /\ Front(Tb1) = <<>>
  /\ Last(Tb2) = HarnessClose /\ Front(Tb2) = Tb1
  /\ Last(Tb3) = Dir(caller) /\ Front(Tb3) = Tb2
  /\ Last(TbFull) = Dir(callee) /\ Front(TbFull) = Tb3
  /\ Tb1 # <<>> /\ Tb2 # <<>> /\ Tb3 # <<>> /\ TbFull # <<>>
  /\ Tb1 # Tb2 /\ Tb1 # Tb3 /\ Tb1 # TbFull /\ Tb2 # Tb3 /\ Tb2 # TbFull /\ Tb3 # TbFull
  <1> DEFINE a == TmpDir
             b == HarnessClose
             c == Dir(caller)
             d == Dir(callee)
  <1>1. Tb1 = <<a>> /\ Tb2 = <<a, b>> /\ Tb3 = <<a, b, c>> /\ TbFull = <<a, b, c, d>>
    BY DEF Tb1, Tb2, Tb3, TbFull
  <1> HIDE DEF a, b, c, d
  <1>2. ToSet(<<>>) = {} /\ ToSet(<<a>>) = {a} /\ ToSet(<<a, b>>) = {a, b} BY DEF ToSet
  <1>3. ToSet(<<a, b, c>>) = {a, b, c} BY DEF ToSet
  <1>4. ToSet(<<a, b, c, d>>) = {a, b, c, d} BY DEF ToSet
  <1>5. /\ Append(<<>>, a) = <<a>> /\ Append(<<a>>, b) = <<a, b>>
        /\ Append(<<a, b>>, c) = <<a, b, c>> /\ Append(<<a, b, c>>, d) = <<a, b, c, d>>
    BY AppendedTuples
  <1>6. Last(<<a>>) = a /\ Last(<<a, b>>) = b /\ Last(<<a, b, c>>) = c /\ Last(<<a, b, c, d>>) = d
    BY DEF Last
  <1>7. Front(<<a>>) = <<>> /\ Front(<<a, b>>) = <<a>> BY FrontsOfTuples
  <1>8. Front(<<a, b, c>>) = <<a, b>> BY FrontsOfTuples
  <1>9. Front(<<a, b, c, d>>) = <<a, b, c>> BY FrontsOfTuples
  <1>10. Len(<<a>>) = 1 /\ Len(<<a, b>>) = 2 /\ Len(<<a, b, c>>) = 3 /\ Len(<<a, b, c, d>>) = 4 /\ Len(<<>>) = 0
    OBVIOUS
  <1> QED BY <1>1, <1>2, <1>3, <1>4, <1>5, <1>6, <1>7, <1>8, <1>9, <1>10 DEF a, b, c, d

-----------------------------------------------------------------------------
(* The steps keep HarnessInv. *)

LEMMA ThreeServices == Len(Services) = 3 /\ 0 \in 0..Len(Services)
  <1>1. Len(Services) = 3 BY DEF Services
  <1> QED BY <1>1

LEMMA ManySteps == Len(StartSteps) \in Nat /\ Len(StartSteps) = NumMixers + 15
  <1>1. Len(StartSteps) = NumMixers + 15 BY StartStepsFacts
  <1> QED BY <1>1, HarnessAssumption

upVars == <<up, started, cleanups, tbCleanups>>

LEMMA HarnessFrame ==
  ASSUME HarnessInv, UNCHANGED <<harnessVars, scriptVars>>
  PROVE  HarnessInv'
  <1> USE DEF harnessVars, scriptVars
  <1>1. ScriptType' BY DEF HarnessInv, ScriptType
  <1>2. PcInv' BY DEF HarnessInv, PcInv
  <1>3. TbInv' /\ DirInv' BY DEF HarnessInv, TbInv, DirInv
  <1>4. Running' = Running /\ Fatal' = Fatal BY DEF Running, Fatal
  <1>5. ThingInv' BY <1>4 DEF HarnessInv, ThingInv, Noted, NotedAt
  <1>6. SocketInv' BY <1>4 DEF HarnessInv, SocketInv
  <1> QED BY <1>1, <1>2, <1>3, <1>5, <1>6 DEF HarnessInv

\* A step of main within the script.
LEMMA ScriptMove ==
  ASSUME HarnessInv, UNCHANGED upVars, connected' = 0, pc \in ScriptPcs, pc \notin {"startCaller", "startCallee"},
         pc' \in ScriptPcs \ {"startCaller", "startCallee", "callerFailed", "calleeFailed", "stopCaller"},
         ending' \in {"", "return", "panic"}, pc' = "stopCallee" => ending' # ""
  PROVE  HarnessInv'
  <1> USE DEF upVars
  <1>1. ScriptType'
    <2>1. 0 \in 0..Len(Services) BY ThreeServices
    <2> QED BY <2>1 DEF HarnessInv, ScriptType
  <1>2. PcInv' BY DEF PcInv, Leaving, ScriptPcs
  <1>3. tbCleanups = TbFull BY DEF HarnessInv, TbInv
  <1>4. TbInv' BY <1>3 DEF TbInv, ScriptPcs
  <1>5. DirInv' BY DEF HarnessInv, DirInv
  <1>6. Running /\ Len(cleanups) = 10 BY DEF HarnessInv, ThingInv
  <1>7. pc \notin Booting /\ pc' \notin Booting /\ pc' \notin Leaving /\ pc' # "tmpDir"
    BY DEF Booting, Leaving, ScriptPcs
  <1>8. Noted(cleanups) /\ up \cap Things = Covered(Len(cleanups)) BY <1>6, <1>7 DEF HarnessInv, ThingInv
  <1>9. ThingInv' BY <1>6, <1>7, <1>8 DEF ThingInv, Running, Noted
  <1>10. SocketInv' BY <1>3 DEF HarnessInv, SocketInv
  <1> QED BY <1>1, <1>2, <1>4, <1>5, <1>9, <1>10 DEF HarnessInv

\* main leaves through log.Fatalf.
LEMMA FatalMove ==
  ASSUME HarnessInv, UNCHANGED upVars, connected = 0, connected' = 0,
         pc \in ScriptPcs \cup {"caller"}, pc' = "exit", ending' = "log.Fatalf"
  PROVE  HarnessInv'
  <1> USE DEF upVars
  <1>1. ScriptType' BY DEF HarnessInv, ScriptType
  <1>2. PcInv' BY DEF PcInv, Leaving
  <1>3. tbCleanups \in {Tb2, TbFull} BY DEF HarnessInv, TbInv
  <1>4. TbInv' BY <1>3 DEF TbInv, ScriptPcs
  <1>5. DirInv' BY DEF HarnessInv, DirInv
  <1>6. Running /\ Len(cleanups) = 10 BY DEF HarnessInv, ThingInv, Making
  <1>7. pc \notin Booting /\ pc' \notin Booting /\ pc' # "tmpDir" /\ pc' \notin Making \cup ScriptPcs
    BY DEF Booting, ScriptPcs, Making
  <1>8. Noted(cleanups) /\ up \cap Things = Covered(Len(cleanups)) BY <1>6, <1>7 DEF HarnessInv, ThingInv
  <1>9. tbCleanups \notin {<<>>, Tb1} BY <1>3, TbFacts
  <1>10. ThingInv' BY <1>6, <1>7, <1>8, <1>9 DEF ThingInv, Running, Noted
  <1>11. Fatal' BY DEF Fatal
  <1>12. SocketInv' BY <1>11 DEF HarnessInv, SocketInv
  <1> QED BY <1>1, <1>2, <1>4, <1>5, <1>10, <1>12 DEF HarnessInv

\* main leaves through tb.Fatalf or the end of its deferred functions.
LEMMA LeaveMove ==
  ASSUME HarnessInv, UNCHANGED <<started, cleanups>>, connected' = 0,
         pc' = "cleanup", ending' \in {"return", "panic", "tb.Fatalf"},
         \/ pc \in Booting /\ started < Len(StartSteps) /\ tbCleanups' \in {<<>>, Tb1}
         \/ pc \in Making \cup ScriptPcs /\ tbCleanups' \in {Tb2, Tb3, TbFull},
         DirInv', up' \subseteq up \cup Dirs, up' \cap Things = up \cap Things,
         up' \cap Sockets(caller) = {}, up' \cap Sockets(callee) = {}
  PROVE  HarnessInv'
  <1>1. ScriptType'
    <2>1. 0 \in 0..Len(Services) BY ThreeServices
    <2> QED BY <2>1 DEF HarnessInv, ScriptType
  <1>2. PcInv' BY DEF PcInv, Leaving
  <1>3. TbInv' BY DEF HarnessInv, TbInv, ScriptPcs
  <1>4. DirInv' OBVIOUS
  <1>5. pc' \notin Booting /\ pc' \notin Making \cup ScriptPcs /\ ~Fatal' /\ pc' # "tmpDir"
    BY DEF Booting, Making, ScriptPcs, Fatal
  <1>6. ThingInv'
    <2>1. CASE pc \in Booting /\ started < Len(StartSteps) /\ tbCleanups' \in {<<>>, Tb1}
      <3>1. started \in Nat /\ Len(StartSteps) \in Nat
        <4>1. started \in 0..Len(StartSteps) BY DEF HarnessInv, ScriptType
        <4> QED BY <4>1, ManySteps
      <3>2. ~Running' BY <2>1, <3>1 DEF Running
      <3> QED BY <1>5, <2>1, <3>2 DEF ThingInv
    <2>2. CASE pc \in Making \cup ScriptPcs /\ tbCleanups' \in {Tb2, Tb3, TbFull}
      <3>1. Running /\ pc \notin Booting BY <2>2 DEF HarnessInv, ThingInv, Making, ScriptPcs, Booting
      <3>2. Noted(cleanups) /\ up \cap Things = Covered(Len(cleanups)) BY <3>1 DEF HarnessInv, ThingInv
      <3>3. tbCleanups' \notin {<<>>, Tb1} BY <2>2, TbFacts
      <3> QED BY <1>5, <3>1, <3>2, <3>3 DEF ThingInv, Running, Noted
    <2> QED BY <2>1, <2>2
  <1>7. SocketInv'
    <2>1. up' \subseteq Dirs \cup Things \cup Sockets(caller) \cup Sockets(callee) BY DEF HarnessInv, SocketInv
    <2> QED BY <2>1 DEF SocketInv
  <1> QED BY <1>1, <1>2, <1>3, <1>4, <1>6, <1>7 DEF HarnessInv

\* A directory is made and its cleanup noted.
LEMMA DirMade ==
  ASSUME HarnessInv, NEW d \in Dirs, TempDir(d),
         \/ pc = "tmpDir" /\ d = TmpDir
         \/ pc = "caller" /\ d = Dir(caller)
         \/ pc = "callee" /\ d = Dir(callee)
  PROVE  /\ tbCleanups' = (CASE pc = "tmpDir" -> Tb1 [] pc = "caller" -> Tb3 [] pc = "callee" -> TbFull)
         /\ DirInv'
         /\ up' \subseteq up \cup Dirs /\ up' \cap Things = up \cap Things
         /\ up' \cap Sockets(caller) = {} /\ up' \cap Sockets(callee) = {}
         /\ up' \subseteq Dirs \cup Things
  <1>1. up' = up \cup {d} /\ tbCleanups' = Append(tbCleanups, d) BY DEF TempDir
  <1>2. \/ pc = "tmpDir" /\ tbCleanups = <<>> /\ tbCleanups' = Tb1 /\ d = TmpDir
        \/ pc = "caller" /\ tbCleanups = Tb2 /\ tbCleanups' = Tb3 /\ d = Dir(caller)
        \/ pc = "callee" /\ tbCleanups = Tb3 /\ tbCleanups' = TbFull /\ d = Dir(callee)
    BY <1>1, TbFacts DEF HarnessInv, TbInv
  <1>3. DirInv'
    <2>1. ToSet(tbCleanups') = ToSet(tbCleanups) \cup {d} BY <1>2, TbFacts
    <2>2. \A e \in Dirs : e \in up' <=> e \in ToSet(tbCleanups') BY <1>1, <2>1 DEF HarnessInv, DirInv
    <2> QED BY <2>2 DEF DirInv, ToSet
  <1>4. up' \subseteq up \cup Dirs /\ up' \cap Things = up \cap Things BY <1>1, Apart
  <1>5. \A x \in Sockets(caller) \cup Sockets(callee) : x \notin up
    BY <1>2, TbFacts DEF HarnessInv, SocketInv
  <1>6. up' \cap Sockets(caller) = {} /\ up' \cap Sockets(callee) = {} BY <1>1, <1>5, Apart
  <1>7. up' \subseteq Dirs \cup Things BY <1>1, <1>5 DEF HarnessInv, SocketInv
  <1> QED BY <1>2, <1>3, <1>4, <1>6, <1>7

LEMMA MakeTmpDirStep ==
  ASSUME HarnessInv, MakeTmpDir
  PROVE  HarnessInv'
  <1>1. pc = "tmpDir" /\ UNCHANGED <<started, cleanups, connected>> BY DEF MakeTmpDir
  <1>2. connected = 0 /\ tbCleanups = <<>> /\ started = 0 BY <1>1 DEF HarnessInv, PcInv, TbInv, ThingInv
  <1>3. CASE TempDir(TmpDir) /\ Goto("new") /\ UNCHANGED ending
    <2>1. /\ tbCleanups' = Tb1 /\ DirInv' /\ up' \cap Things = up \cap Things
          /\ up' \cap Sockets(caller) = {} /\ up' \cap Sockets(callee) = {} /\ up' \subseteq Dirs \cup Things
      BY <1>1, <1>3, DirMade, Apart
    <2>2. pc' = "new" /\ ending' = ending BY <1>3 DEF Goto
    <2>3. ScriptType' BY <1>1, <2>2 DEF HarnessInv, ScriptType
    <2>4. PcInv' BY <1>1, <1>2, <2>2 DEF HarnessInv, PcInv, Booting, Leaving
    <2>5. TbInv' BY <2>1, <2>2 DEF TbInv, ScriptPcs
    <2>6. ThingInv'
      <3>1. up \cap Things = Opened(started) /\ Noted(cleanups) /\ NotedAt(started, Len(cleanups))
        BY <1>1 DEF HarnessInv, ThingInv, Booting
      <3>2. pc' \in Booting /\ pc' \notin Making \cup ScriptPcs /\ ~Fatal' /\ pc' \notin Leaving /\ pc' # "tmpDir"
        BY <2>2 DEF Booting, Making, ScriptPcs, Fatal, Leaving
      <3> QED BY <1>1, <2>1, <3>1, <3>2 DEF ThingInv, Noted, NotedAt
    <2>7. SocketInv' BY <2>1, <2>2 DEF SocketInv
    <2> QED BY <2>1, <2>3, <2>4, <2>5, <2>6, <2>7 DEF HarnessInv
  <1>4. CASE Fatalf /\ UNCHANGED <<up, tbCleanups>>
    <2>1. pc' = "cleanup" /\ ending' = "tb.Fatalf" /\ UNCHANGED <<up, tbCleanups>> BY <1>4 DEF Fatalf, Goto
    <2>2. started < Len(StartSteps) /\ pc \in Booting BY <1>1, <1>2, ManySteps, HarnessAssumption DEF Booting
    <2>3. \A x \in Sockets(caller) \cup Sockets(callee) : x \notin up
      BY <1>2, TbFacts DEF HarnessInv, SocketInv
    <2>4. up' \cap Sockets(caller) = {} /\ up' \cap Sockets(callee) = {} BY <2>1, <2>3
    <2>5. DirInv' BY <2>1 DEF HarnessInv, DirInv
    <2> QED BY <1>1, <1>2, <2>1, <2>2, <2>4, <2>5, LeaveMove
  <1> QED BY <1>3, <1>4 DEF MakeTmpDir

LEMMA MakeClientStep ==
  ASSUME HarnessInv, MakeCaller \/ MakeCallee
  PROVE  HarnessInv'
  <1> DEFINE c    == IF pc = "caller" THEN caller ELSE callee
             next == IF pc = "caller" THEN "callee" ELSE "startCaller"
  <1>1. pc \in {"caller", "callee"} /\ ClientFor(c, next) BY DEF MakeCaller, MakeCallee
  <1>2. /\ \/ TempDir(Dir(c)) /\ ((Goto(next) /\ UNCHANGED ending) \/ Fatalf)
           \/ Fatalf /\ UNCHANGED <<up, tbCleanups>>
        /\ UNCHANGED <<started, cleanups, connected>>
    BY <1>1 DEF ClientFor
  <1>3. Running /\ Len(cleanups) = 10 /\ pc \notin Booting
    BY <1>1 DEF HarnessInv, ThingInv, Making, Booting
  <1>4. Noted(cleanups) /\ up \cap Things = Covered(Len(cleanups)) BY <1>3 DEF HarnessInv, ThingInv
  <1>5. connected = 0 /\ tbCleanups \in {Tb2, Tb3} /\ pc \in Making
    BY <1>1 DEF HarnessInv, PcInv, TbInv, Making
  <1>6. ASSUME TempDir(Dir(c))
        PROVE  /\ tbCleanups' = (IF pc = "caller" THEN Tb3 ELSE TbFull)
               /\ DirInv'
               /\ up' \subseteq up \cup Dirs /\ up' \cap Things = up \cap Things
               /\ up' \cap Sockets(caller) = {} /\ up' \cap Sockets(callee) = {}
               /\ up' \subseteq Dirs \cup Things
    BY <1>1, <1>6, DirMade, Apart
  <1>7. CASE TempDir(Dir(c)) /\ Goto(next) /\ UNCHANGED ending
    <2>1. \/ pc = "caller" /\ pc' = "callee" /\ tbCleanups' = Tb3
          \/ pc = "callee" /\ pc' = "startCaller" /\ tbCleanups' = TbFull
      BY <1>1, <1>6, <1>7 DEF Goto
    <2>2. ScriptType' BY <1>2, <1>7 DEF HarnessInv, ScriptType
    <2>3. ending' # "log.Fatalf" BY <1>1, <1>7 DEF HarnessInv, PcInv
    <2>4. PcInv' BY <1>2, <1>5, <2>1, <2>3 DEF PcInv, Leaving, Making, ScriptPcs
    <2>5. TbInv' BY <2>1 DEF TbInv, ScriptPcs
    <2>6. pc' \notin Booting /\ pc' \notin Leaving /\ pc' # "tmpDir" BY <2>1 DEF Booting, Leaving
    <2>7. ThingInv' BY <1>2, <1>3, <1>4, <1>6, <1>7, <2>6 DEF ThingInv, Running, Noted
    <2>8. SocketInv'
      <3>1. /\ up' \subseteq Dirs \cup Things
            /\ up' \cap Sockets(caller) = {} /\ up' \cap Sockets(callee) = {}
        BY <1>6, <1>7
      <3>2. \A i \in 1..3 : Socket(caller, Services[i]) \in Sockets(caller)
                            /\ Socket(callee, Services[i]) \in Sockets(callee)
        BY SocketFacts
      <3> QED BY <3>1, <3>2 DEF SocketInv
    <2> QED BY <1>6, <1>7, <2>2, <2>4, <2>5, <2>7, <2>8 DEF HarnessInv
  <1>8. CASE TempDir(Dir(c)) /\ Fatalf
    <2>1. pc' = "cleanup" /\ ending' = "tb.Fatalf" BY <1>8 DEF Fatalf, Goto
    <2>2. tbCleanups' \in {Tb2, Tb3, TbFull} BY <1>6, <1>8
    <2> QED BY <1>2, <1>5, <1>6, <1>8, <2>1, <2>2, LeaveMove
  <1>9. CASE Fatalf /\ UNCHANGED <<up, tbCleanups>>
    <2>1. pc' = "cleanup" /\ ending' = "tb.Fatalf" /\ UNCHANGED <<up, tbCleanups>> BY <1>9 DEF Fatalf, Goto
    <2>2. tbCleanups' \in {Tb2, Tb3, TbFull} BY <1>5, <2>1
    <2>3. \A x \in Sockets(caller) \cup Sockets(callee) : x \notin up
      BY <1>5, TbFacts DEF HarnessInv, SocketInv
    <2>4. up' \cap Sockets(caller) = {} /\ up' \cap Sockets(callee) = {} BY <2>1, <2>3
    <2>5. DirInv' BY <2>1 DEF HarnessInv, DirInv
    <2> QED BY <1>2, <1>5, <2>1, <2>2, <2>4, <2>5, LeaveMove
  <1> QED BY <1>2, <1>7, <1>8, <1>9

LEMMA NewStep ==
  ASSUME HarnessInv, New
  PROVE  HarnessInv'
  <1>1. pc = "new" /\ UNCHANGED connected BY DEF New
  <1>2. connected = 0 /\ tbCleanups = Tb1 BY <1>1 DEF HarnessInv, PcInv, TbInv
  <1>3. up \cap Things = Opened(started) /\ Noted(cleanups) /\ NotedAt(started, Len(cleanups))
    BY <1>1 DEF HarnessInv, ThingInv, Booting
  <1>4. started \in Nat /\ started <= Len(StartSteps)
    <2>1. started \in 0..Len(StartSteps) BY DEF HarnessInv, ScriptType
    <2> QED BY <2>1, ManySteps
  <1>5. \A x \in Sockets(caller) \cup Sockets(callee) : x \notin up
    BY <1>2, TbFacts DEF HarnessInv, SocketInv
  <1>6. CASE StartNext /\ UNCHANGED <<pc, ending, tbCleanups>>
    <2> DEFINE new == StartSteps[started + 1].opens
    <2>1. /\ started < Len(StartSteps) /\ started' = started + 1 /\ up' = up \cup new
          /\ cleanups' = cleanups \o StartSteps[started + 1].appends
          /\ UNCHANGED <<pc, ending, tbCleanups>>
      BY <1>6 DEF StartNext
    <2>2. started' \in 0..Len(StartSteps) BY <1>4, <2>1, ManySteps
    <2>3. ScriptType' BY <1>1, <2>1, <2>2 DEF HarnessInv, ScriptType
    <2>4. PcInv' BY <1>1, <2>1 DEF HarnessInv, PcInv
    <2>5. TbInv' BY <2>1 DEF HarnessInv, TbInv
    <2>6. Opened(started + 1) = Opened(started) \cup new BY <1>4, OpenedFacts
    <2>7. Opened(started + 1) \subseteq Things
      <3>1. started + 1 \in 0..Len(StartSteps) BY <2>1, <2>2
      <3>2. Opened(started + 1) \subseteq Opened(Len(StartSteps))
        <4>1. \A i \in 1..(started + 1) : i \in 1..Len(StartSteps) BY <3>1, <1>4, ManySteps
        <4> QED BY <4>1 DEF Opened
      <3>3. Covered(10) \subseteq Things BY FullFacts DEF Covered
      <3> QED BY <3>2, <3>3, AllCovered
    <2> HIDE DEF new
    <2>8. \A x \in new : x \in Things BY <2>6, <2>7
    <2>9. DirInv' BY <2>1, <2>8, Apart DEF HarnessInv, DirInv
    <2>10. up' \cap Things = Opened(started') BY <1>3, <2>1, <2>6, <2>8
    <2>11. Noted(cleanups') /\ NotedAt(started', Len(cleanups'))
      <3>1. started \in 0..(NumMixers + 14) BY <1>4, <2>1, ManySteps, HarnessAssumption
      <3> DEFINE t == cleanups \o StartSteps[started + 1].appends
      <3>2. Noted(t) /\ NotedAt(started + 1, Len(t)) BY <1>3, <3>1, NotedStep
      <3> HIDE DEF t
      <3>3. cleanups' = t BY <2>1 DEF t
      <3> QED BY <2>1, <3>2, <3>3
    <2>12. ThingInv'
      <3>1. pc' = "new" /\ pc' \in Booting /\ pc' \notin Making \cup ScriptPcs /\ ~Fatal' /\ pc' \notin Leaving
        BY <1>1, <2>1 DEF Booting, Making, ScriptPcs, Fatal, Leaving
      <3> QED BY <2>10, <2>11, <3>1 DEF ThingInv, Noted, NotedAt
    <2>13. SocketInv'
      <3>1. up' \subseteq Dirs \cup Things \cup Sockets(caller) \cup Sockets(callee)
        BY <2>1, <2>8 DEF HarnessInv, SocketInv
      <3>2. \A x \in Sockets(caller) \cup Sockets(callee) : x \notin up' BY <1>5, <2>1, <2>8, Apart
      <3>3. pc' = "new" BY <1>1, <2>1
      <3> QED BY <3>1, <3>2, <3>3 DEF SocketInv
    <2> QED BY <2>3, <2>4, <2>5, <2>9, <2>12, <2>13 DEF HarnessInv
  <1>7. CASE StartFails /\ Fatalf /\ UNCHANGED tbCleanups
    <2>1. /\ pc' = "cleanup" /\ ending' = "tb.Fatalf" /\ started < Len(StartSteps)
          /\ UNCHANGED <<up, started, cleanups, tbCleanups>>
      BY <1>7 DEF StartFails, Fatalf, Goto, harnessVars
    <2>2. up' \cap Sockets(caller) = {} /\ up' \cap Sockets(callee) = {} BY <1>5, <2>1
    <2>3. DirInv' BY <2>1 DEF HarnessInv, DirInv
    <2>4. pc \in Booting /\ tbCleanups' \in {<<>>, Tb1} BY <1>1, <1>2, <2>1 DEF Booting
    <2> QED BY <1>1, <1>2, <2>1, <2>2, <2>3, <2>4, LeaveMove
  <1>8. CASE /\ Running
             /\ tbCleanups' = Append(tbCleanups, HarnessClose)
             /\ Goto("caller")
             /\ UNCHANGED <<harnessVars, ending>>
    <2>1. pc' = "caller" /\ tbCleanups' = Tb2 /\ UNCHANGED <<up, started, cleanups, ending>>
      BY <1>2, <1>8, TbFacts DEF Goto, harnessVars
    <2>2. ScriptType' BY <1>1, <2>1 DEF HarnessInv, ScriptType
    <2>3. PcInv' BY <1>1, <1>2, <2>1 DEF HarnessInv, PcInv, Making, Leaving
    <2>4. TbInv' BY <2>1 DEF TbInv, ScriptPcs
    <2>5. DirInv'
      <3>1. ToSet(Tb2) = ToSet(Tb1) \cup {HarnessClose} BY TbFacts
      <3>2. \A d \in Dirs : d \in up' <=> d \in ToSet(Tb2)
        BY <1>2, <2>1, <3>1, Apart DEF HarnessInv, DirInv
      <3> QED BY <2>1, <3>2 DEF DirInv, ToSet
    <2>6. Len(cleanups) = 10
      <3>1. started = NumMixers + 15 BY <1>8, ManySteps DEF Running
      <3> QED BY <1>3, <3>1, HarnessAssumption DEF NotedAt
    <2>7. up \cap Things = Covered(Len(cleanups)) BY <1>3, <1>8, <2>6, AllCovered DEF Running
    <2>8. ThingInv'
      <3>1. pc' \notin Booting /\ pc' \notin Leaving /\ pc' # "tmpDir" BY <2>1 DEF Booting, Leaving
      <3> QED BY <1>3, <1>8, <2>1, <2>6, <2>7, <3>1 DEF ThingInv, Running, Noted
    <2>9. SocketInv'
      <3>1. up' \subseteq Dirs \cup Things \cup Sockets(caller) \cup Sockets(callee)
        BY <2>1 DEF HarnessInv, SocketInv
      <3> QED BY <1>5, <2>1, <3>1 DEF SocketInv
    <2> QED BY <2>2, <2>3, <2>4, <2>5, <2>8, <2>9 DEF HarnessInv
  <1> QED BY <1>6, <1>7, <1>8 DEF New

\* Sockets come and go while main has both clients.
LEMMA SocketMove ==
  ASSUME HarnessInv, UNCHANGED <<started, cleanups, tbCleanups>>, SocketInv', PcInv', ScriptType',
         pc \in ScriptPcs, pc' \in ScriptPcs,
         \A x \in Dirs \cup Things : x \in up' <=> x \in up
  PROVE  HarnessInv'
  <1>1. tbCleanups = TbFull BY DEF HarnessInv, TbInv
  <1>2. TbInv' BY <1>1 DEF TbInv, ScriptPcs
  <1>3. DirInv' BY DEF HarnessInv, DirInv
  <1>4. Running /\ Len(cleanups) = 10 BY DEF HarnessInv, ThingInv
  <1>5. pc \notin Booting /\ pc' \notin Booting /\ pc' \notin Leaving /\ pc' # "tmpDir"
    BY DEF Booting, Leaving, ScriptPcs
  <1>6. Noted(cleanups) /\ up \cap Things = Covered(Len(cleanups)) BY <1>4, <1>5 DEF HarnessInv, ThingInv
  <1>7. up' \cap Things = up \cap Things OBVIOUS
  <1>8. ThingInv' BY <1>4, <1>5, <1>6, <1>7 DEF ThingInv, Running, Noted
  <1> QED BY <1>2, <1>3, <1>8 DEF HarnessInv

LEMMA StartCallerStep ==
  ASSUME HarnessInv, StartCaller
  PROVE  HarnessInv'
  <1> DEFINE sock(i) == Socket(caller, Services[i])
  <1>1. pc = "startCaller" /\ StartClient(caller, "startCallee") BY DEF StartCaller
  <1>2. /\ \/ /\ connected < Len(Services) /\ Connect(caller, connected)
              /\ connected' = connected + 1 /\ UNCHANGED pc
           \/ /\ connected < Len(Services) /\ Rollback(caller, connected)
              /\ connected' = 0 /\ Goto("callerFailed")
           \/ /\ connected = Len(Services) /\ connected' = 0 /\ Goto("startCallee") /\ UNCHANGED up
        /\ UNCHANGED <<started, cleanups, ending, tbCleanups>>
    BY <1>1, PeerFacts DEF StartClient
  <1>0. connected \in 0..3 BY ThreeServices DEF HarnessInv, ScriptType
  <1>3. connected \in 0..3 /\ started \in 0..Len(StartSteps)
        /\ ending \in {"", "return", "log.Fatalf", "tb.Fatalf", "panic"}
    BY ThreeServices DEF HarnessInv, ScriptType
  <1>4. tbCleanups = TbFull /\ ending # "log.Fatalf" /\ pc \in ScriptPcs
    BY <1>1 DEF HarnessInv, TbInv, PcInv, ScriptPcs
  <1>5. /\ up \subseteq Dirs \cup Things \cup Sockets(caller) \cup Sockets(callee)
        /\ \A i \in 1..3 : sock(i) \in up => i <= connected
        /\ up \cap Sockets(callee) = {}
    BY <1>1 DEF HarnessInv, SocketInv
  <1>6. /\ \A i \in 1..3 : sock(i) \in Sockets(caller)
        /\ \A x \in Sockets(caller) : \E i \in 1..3 : x = sock(i)
        /\ \A i, j \in 1..3 : sock(i) = sock(j) => i = j
        /\ Len(Services) = 3
    BY SocketFacts
  <1>7. \A x \in Dirs \cup Things : x \notin Sockets(caller) BY Apart
  <1> HIDE DEF sock
  <1>8. CASE connected < Len(Services) /\ Connect(caller, connected) /\ connected' = connected + 1 /\ UNCHANGED pc
    <2>0. connected < 3 /\ connected' = connected + 1 BY <1>8, ThreeServices
    <2>1. connected + 1 \in 1..3 /\ connected' \in 0..3 BY <1>0, <2>0
    <2>2. up' = up \cup {sock(connected + 1)} BY <1>8 DEF Connect, sock
    <2>3. ScriptType' BY <1>2, <1>3, <1>6, <2>1 DEF ScriptType
    <2>4. PcInv' BY <1>1, <1>2, <1>4, <1>8 DEF PcInv, ScriptPcs, Leaving
    <2>5. \A i \in 1..3 : sock(i) \in up' => i <= connected'
      <3> SUFFICES ASSUME NEW i \in 1..3, sock(i) \in up' PROVE i <= connected'
        OBVIOUS
      <3>1. CASE sock(i) \in up
        <4>1. i <= connected BY <1>5, <3>1
        <4> QED BY <1>0, <2>0, <4>1
      <3>2. CASE sock(i) = sock(connected + 1)
        <4>1. i = connected + 1 BY <1>6, <2>1, <3>2
        <4> QED BY <1>8, <4>1
      <3> QED BY <2>2, <3>1, <3>2
    <2>6. SocketInv'
      <3>1. up' \subseteq Dirs \cup Things \cup Sockets(caller) \cup Sockets(callee)
        BY <1>5, <1>6, <2>1, <2>2
      <3>2. \A i \in 1..3 : Socket(caller, Services[i]) \in up' => i <= connected' BY <2>5 DEF sock
      <3>3. pc' = "startCaller" /\ pc' \in ScriptPcs /\ tbCleanups' = TbFull BY <1>1, <1>2, <1>4, <1>8
      <3>4. up' \cap Sockets(callee) = {} BY <1>5, <1>6, <2>1, <2>2, Apart
      <3> QED BY <3>1, <3>2, <3>3, <3>4 DEF SocketInv
    <2>7. \A x \in Dirs \cup Things : x \in up' <=> x \in up BY <1>6, <1>7, <2>1, <2>2
    <2>8. pc' \in ScriptPcs BY <1>4, <1>8
    <2> QED BY <1>2, <1>4, <2>3, <2>4, <2>6, <2>7, <2>8, SocketMove
  <1>9. CASE connected < Len(Services) /\ Rollback(caller, connected) /\ connected' = 0 /\ Goto("callerFailed")
    <2>1. up' = up \ {sock(i) : i \in 1..connected} /\ pc' = "callerFailed" /\ connected' = 0
      BY <1>9 DEF Rollback, Goto, sock
    <2>2. ScriptType' BY <1>2, <1>3, <2>1, ThreeServices DEF ScriptType
    <2>3. PcInv' BY <1>2, <1>4, <2>1 DEF PcInv, ScriptPcs, Leaving
    <2>4. \A x \in Sockets(caller) : x \notin up'
      <3> SUFFICES ASSUME NEW x \in Sockets(caller), x \in up' PROVE FALSE
        OBVIOUS
      <3>1. PICK i \in 1..3 : x = sock(i) BY <1>6
      <3>2. i <= connected BY <1>5, <2>1, <3>1
      <3>3. i \in 1..connected BY <1>0, <3>2
      <3> QED BY <2>1, <3>1, <3>3
    <2>5. \A i \in 1..connected : sock(i) \in Sockets(caller)
      <3>1. \A i \in 1..connected : i \in 1..3 BY <1>0
      <3> QED BY <1>6, <3>1
    <2>6. \A x \in Dirs \cup Things : x \in up' <=> x \in up BY <1>7, <2>1, <2>5
    <2>7. pc' \in ScriptPcs BY <2>1 DEF ScriptPcs
    <2>8. SocketInv'
      <3>1. up' \subseteq up BY <2>1
      <3> QED BY <1>2, <1>4, <1>5, <2>1, <2>4, <2>7, <3>1 DEF SocketInv
    <2> QED BY <1>2, <1>4, <2>2, <2>3, <2>6, <2>7, <2>8, SocketMove
  <1>10. CASE connected = Len(Services) /\ connected' = 0 /\ Goto("startCallee") /\ UNCHANGED up
    <2>1. pc' = "startCallee" /\ connected' = 0 /\ up' = up BY <1>10 DEF Goto
    <2>2. ScriptType' BY <1>2, <1>3, <2>1, ThreeServices DEF ScriptType
    <2>3. PcInv' BY <1>2, <1>4, <2>1 DEF PcInv, ScriptPcs, Leaving
    <2>4. pc' \in ScriptPcs BY <2>1 DEF ScriptPcs
    <2>5. SocketInv'
      <3>1. \A i \in 1..3 : Socket(callee, Services[i]) \in Sockets(callee) BY SocketFacts
      <3>2. \A i \in 1..3 : Socket(callee, Services[i]) \notin up BY <1>5, <3>1
      <3> QED BY <1>2, <1>4, <1>5, <2>1, <2>4, <3>2 DEF SocketInv
    <2> QED BY <1>2, <1>4, <2>1, <2>2, <2>3, <2>4, <2>5, SocketMove
  <1> QED BY <1>2, <1>8, <1>9, <1>10

LEMMA StartCalleeStep ==
  ASSUME HarnessInv, StartCallee
  PROVE  HarnessInv'
  <1> DEFINE sock(i) == Socket(callee, Services[i])
  <1>1. pc = "startCallee" /\ StartClient(callee, "befriend") BY DEF StartCallee
  <1>2. /\ \/ /\ connected < Len(Services) /\ Connect(callee, connected)
              /\ connected' = connected + 1 /\ UNCHANGED pc
           \/ /\ connected < Len(Services) /\ Rollback(callee, connected)
              /\ connected' = 0 /\ Goto("calleeFailed")
           \/ /\ connected = Len(Services) /\ connected' = 0 /\ Goto("befriend") /\ UNCHANGED up
        /\ UNCHANGED <<started, cleanups, ending, tbCleanups>>
    BY <1>1, PeerFacts DEF StartClient
  <1>0. connected \in 0..3 BY ThreeServices DEF HarnessInv, ScriptType
  <1>3. connected \in 0..3 /\ started \in 0..Len(StartSteps)
        /\ ending \in {"", "return", "log.Fatalf", "tb.Fatalf", "panic"}
    BY ThreeServices DEF HarnessInv, ScriptType
  <1>4. tbCleanups = TbFull /\ ending # "log.Fatalf" /\ pc \in ScriptPcs
    BY <1>1 DEF HarnessInv, TbInv, PcInv, ScriptPcs
  <1>5. /\ up \subseteq Dirs \cup Things \cup Sockets(caller) \cup Sockets(callee)
        /\ \A i \in 1..3 : sock(i) \in up => i <= connected
    BY <1>1 DEF HarnessInv, SocketInv
  <1>6. /\ \A i \in 1..3 : sock(i) \in Sockets(callee)
        /\ \A x \in Sockets(callee) : \E i \in 1..3 : x = sock(i)
        /\ \A i, j \in 1..3 : sock(i) = sock(j) => i = j
        /\ Len(Services) = 3
    BY SocketFacts
  <1>7. \A x \in Dirs \cup Things : x \notin Sockets(callee) BY Apart
  <1> HIDE DEF sock
  <1>8. CASE connected < Len(Services) /\ Connect(callee, connected) /\ connected' = connected + 1 /\ UNCHANGED pc
    <2>0. connected < 3 /\ connected' = connected + 1 BY <1>8, ThreeServices
    <2>1. connected + 1 \in 1..3 /\ connected' \in 0..3 BY <1>0, <2>0
    <2>2. up' = up \cup {sock(connected + 1)} BY <1>8 DEF Connect, sock
    <2>3. ScriptType' BY <1>2, <1>3, <1>6, <2>1 DEF ScriptType
    <2>4. PcInv' BY <1>1, <1>2, <1>4, <1>8 DEF PcInv, ScriptPcs, Leaving
    <2>5. \A i \in 1..3 : sock(i) \in up' => i <= connected'
      <3> SUFFICES ASSUME NEW i \in 1..3, sock(i) \in up' PROVE i <= connected'
        OBVIOUS
      <3>1. CASE sock(i) \in up
        <4>1. i <= connected BY <1>5, <3>1
        <4> QED BY <1>0, <2>0, <4>1
      <3>2. CASE sock(i) = sock(connected + 1)
        <4>1. i = connected + 1 BY <1>6, <2>1, <3>2
        <4> QED BY <1>8, <4>1
      <3> QED BY <2>2, <3>1, <3>2
    <2>6. SocketInv'
      <3>1. up' \subseteq Dirs \cup Things \cup Sockets(caller) \cup Sockets(callee)
        BY <1>5, <1>6, <2>1, <2>2
      <3>2. \A i \in 1..3 : Socket(callee, Services[i]) \in up' => i <= connected' BY <2>5 DEF sock
      <3>3. pc' = "startCallee" /\ pc' \in ScriptPcs /\ tbCleanups' = TbFull BY <1>1, <1>2, <1>4, <1>8
      <3> QED BY <3>1, <3>2, <3>3 DEF SocketInv
    <2>7. \A x \in Dirs \cup Things : x \in up' <=> x \in up BY <1>6, <1>7, <2>1, <2>2
    <2>8. pc' \in ScriptPcs BY <1>4, <1>8
    <2> QED BY <1>2, <1>4, <2>3, <2>4, <2>6, <2>7, <2>8, SocketMove
  <1>9. CASE connected < Len(Services) /\ Rollback(callee, connected) /\ connected' = 0 /\ Goto("calleeFailed")
    <2>1. up' = up \ {sock(i) : i \in 1..connected} /\ pc' = "calleeFailed" /\ connected' = 0
      BY <1>9 DEF Rollback, Goto, sock
    <2>2. ScriptType' BY <1>2, <1>3, <2>1, ThreeServices DEF ScriptType
    <2>3. PcInv' BY <1>2, <1>4, <2>1 DEF PcInv, ScriptPcs, Leaving
    <2>4. \A x \in Sockets(callee) : x \notin up'
      <3> SUFFICES ASSUME NEW x \in Sockets(callee), x \in up' PROVE FALSE
        OBVIOUS
      <3>1. PICK i \in 1..3 : x = sock(i) BY <1>6
      <3>2. i <= connected BY <1>5, <2>1, <3>1
      <3>3. i \in 1..connected BY <1>0, <3>2
      <3> QED BY <2>1, <3>1, <3>3
    <2>5. \A i \in 1..connected : sock(i) \in Sockets(callee)
      <3>1. \A i \in 1..connected : i \in 1..3 BY <1>0
      <3> QED BY <1>6, <3>1
    <2>6. \A x \in Dirs \cup Things : x \in up' <=> x \in up BY <1>7, <2>1, <2>5
    <2>7. pc' \in ScriptPcs BY <2>1 DEF ScriptPcs
    <2>8. SocketInv'
      <3>1. up' \subseteq up BY <2>1
      <3> QED BY <1>2, <1>4, <1>5, <2>1, <2>4, <2>7, <3>1 DEF SocketInv
    <2> QED BY <1>2, <1>4, <2>2, <2>3, <2>6, <2>7, <2>8, SocketMove
  <1>10. CASE connected = Len(Services) /\ connected' = 0 /\ Goto("befriend") /\ UNCHANGED up
    <2>1. pc' = "befriend" /\ connected' = 0 /\ up' = up BY <1>10 DEF Goto
    <2>2. ScriptType' BY <1>2, <1>3, <2>1, ThreeServices DEF ScriptType
    <2>3. PcInv' BY <1>2, <1>4, <2>1 DEF PcInv, ScriptPcs, Leaving
    <2>4. pc' \in ScriptPcs BY <2>1 DEF ScriptPcs
    <2>5. SocketInv'
      <3> QED BY <1>2, <1>4, <1>5, <2>1, <2>4 DEF SocketInv
    <2> QED BY <1>2, <1>4, <2>1, <2>2, <2>3, <2>4, <2>5, SocketMove
  <1> QED BY <1>2, <1>8, <1>9, <1>10


\* A socket drops.
LEMMA DropStep ==
  ASSUME HarnessInv, NEW c \in Clients, NEW s \in ToSet(Services), Drop(c, s)
  PROVE  HarnessInv'
  <1> DEFINE x == Socket(c, s)
  <1>1. up' = up \ {x} /\ x \in up /\ UNCHANGED <<started, cleanups, pc, ending, connected, tbCleanups>>
    BY DEF Drop, Disconnect, scriptVars
  <1>2. x \in Sockets(caller) \cup Sockets(callee)
    <2>1. x \in Sockets(c) BY DEF Sockets
    <2> QED BY <2>1, PeerFacts
  <1> HIDE DEF x
  <1>3. ScriptType' BY <1>1 DEF HarnessInv, ScriptType
  <1>4. PcInv' BY <1>1 DEF HarnessInv, PcInv
  <1>5. TbInv' BY <1>1 DEF HarnessInv, TbInv
  <1>6. \A y \in Dirs \cup Things : y \in up' <=> y \in up BY <1>1, <1>2, Apart
  <1>7. DirInv' BY <1>1, <1>6 DEF HarnessInv, DirInv
  <1>8. up' \cap Things = up \cap Things BY <1>6
  <1>9. Running' = Running /\ Fatal' = Fatal BY <1>1 DEF Running, Fatal
  <1>10. ThingInv' BY <1>1, <1>8, <1>9 DEF HarnessInv, ThingInv, Noted, NotedAt
  <1>11. up' \subseteq up BY <1>1
  <1>12. SocketInv' BY <1>1, <1>9, <1>11 DEF HarnessInv, SocketInv
  <1> QED BY <1>3, <1>4, <1>5, <1>7, <1>10, <1>12 DEF HarnessInv

LEMMA StopStep ==
  ASSUME HarnessInv, StopCallee \/ StopCaller
  PROVE  HarnessInv'
  <1>1. CASE StopCallee
    <2>1. /\ pc = "stopCallee" /\ pc' = "stopCaller" /\ up' = up \ Sockets(callee)
          /\ UNCHANGED <<started, cleanups, ending, connected, tbCleanups>>
      BY <1>1 DEF StopCallee, StopClient, Stop, Goto
    <2>2. ScriptType' BY <2>1 DEF HarnessInv, ScriptType
    <2>3. PcInv' BY <2>1 DEF HarnessInv, PcInv, ScriptPcs, Leaving
    <2>4. pc \in ScriptPcs /\ pc' \in ScriptPcs BY <2>1 DEF ScriptPcs
    <2>5. tbCleanups = TbFull BY <2>4 DEF HarnessInv, TbInv
    <2>6. SocketInv'
      <3>1. up \subseteq Dirs \cup Things \cup Sockets(caller) \cup Sockets(callee) BY DEF HarnessInv, SocketInv
      <3>2. up' \cap Sockets(callee) = {} BY <2>1
      <3> QED BY <2>1, <2>4, <2>5, <3>1, <3>2 DEF SocketInv
    <2>7. \A x \in Dirs \cup Things : x \in up' <=> x \in up BY <2>1, Apart
    <2> QED BY <2>1, <2>2, <2>3, <2>4, <2>6, <2>7, SocketMove
  <1>2. CASE StopCaller
    <2>1. /\ pc = "stopCaller" /\ pc' = "cleanup" /\ up' = up \ Sockets(caller)
          /\ UNCHANGED <<started, cleanups, ending, connected, tbCleanups>>
      BY <1>2 DEF StopCaller, StopClient, Stop, Goto
    <2>2. up \cap Sockets(callee) = {} BY <2>1 DEF HarnessInv, SocketInv
    <2>3. up' \cap Sockets(caller) = {} /\ up' \cap Sockets(callee) = {} BY <2>1, <2>2
    <2>4. connected = 0 /\ pc \in ScriptPcs /\ tbCleanups = TbFull
      BY <2>1 DEF HarnessInv, PcInv, TbInv, ScriptPcs
    <2>5. \A x \in Dirs \cup Things : x \in up' <=> x \in up BY <2>1, Apart
    <2>6. DirInv' BY <2>1, <2>5 DEF HarnessInv, DirInv
    <2>7. up' \subseteq up \cup Dirs /\ up' \cap Things = up \cap Things BY <2>1, <2>5
    <2>8. ending \in {"return", "panic", "tb.Fatalf"}
      BY <2>1 DEF HarnessInv, PcInv, ScriptType
    <2>9. tbCleanups' \in {Tb2, Tb3, TbFull} BY <2>1, <2>4
    <2>10. ending' \in {"return", "panic", "tb.Fatalf"} BY <2>1, <2>8
    <2> QED BY <2>1, <2>3, <2>4, <2>6, <2>7, <2>9, <2>10, LeaveMove
  <1> QED BY <1>1, <1>2

LEMMA FirstOnes ==
  ASSUME NEW S, NEW s \in Seq(S), Len(s) \in 1..10
  PROVE  LET t == SubSeq(s, 1, Len(s) - 1)
         IN  t \in Seq(S) /\ Len(t) = Len(s) - 1 /\ \A i \in 1..(Len(s) - 1) : t[i] = s[i]
  <1> DEFINE n == Len(s) - 1
  <1>1. n \in Nat /\ Len(s) = n + 1
    <2>1. \A k \in 1..10 : k - 1 \in Nat /\ k = (k - 1) + 1 OBVIOUS
    <2> QED BY <2>1, Zenon
  <1> HIDE DEF n
  <1>2. SubSeq(s, 1, n) \in Seq(S) /\ Len(SubSeq(s, 1, n)) = n /\ \A i \in 1..n : SubSeq(s, 1, n)[i] = s[i]
    BY <1>1
  <1> QED BY <1>2 DEF n

\* Close runs the last of the harness's cleanups.
LEMMA NotedFront ==
  ASSUME NEW s, Noted(s), s # <<>>
  PROVE  /\ Noted(Front(s)) /\ Len(s) \in 1..10 /\ Len(Front(s)) = Len(s) - 1
         /\ Last(s) = FullCleanups[Len(s)]
  <1> DEFINE t == Front(s)
  <1>1. s \in Seq(SUBSET Things) /\ Len(s) <= 10 /\ Len(s) \in Nat /\ Len(s) # 0 BY DEF Noted
  <1>2. Len(s) \in 1..10
    <2>1. \A n \in Nat : n # 0 /\ n <= 10 => n \in 1..10 OBVIOUS
    <2> QED BY <1>1, <2>1, Zenon
  <1>3. t = SubSeq(s, 1, Len(s) - 1) BY DEF Front
  <1> HIDE DEF t
  <1>4. t \in Seq(SUBSET Things) /\ Len(t) = Len(s) - 1 /\ \A i \in 1..(Len(s) - 1) : t[i] = s[i]
    BY <1>1, <1>2, <1>3, FirstOnes
  <1>5. \A i \in 1..(Len(s) - 1) : i \in 1..Len(s) BY <1>2
  <1>6. \A i \in 1..Len(t) : t[i] = FullCleanups[i] BY <1>4, <1>5 DEF Noted
  <1>7. Len(t) <= 10
    <2>1. Len(t) = Len(s) - 1 BY <1>4
    <2>2. \A n \in 1..10 : n - 1 <= 10 OBVIOUS
    <2> QED BY <1>2, <2>1, <2>2, Zenon
  <1>8. Noted(t) BY <1>4, <1>6, <1>7 DEF Noted
  <1>9. Last(s) = FullCleanups[Len(s)]
    <2>1. Last(s) = s[Len(s)] BY DEF Last
    <2>2. Len(s) \in 1..Len(s) BY <1>2
    <2> QED BY <2>1, <2>2 DEF Noted
  <1> QED BY <1>2, <1>4, <1>8, <1>9 DEF t

LEMMA RunCleanupStep ==
  ASSUME HarnessInv, RunCleanup
  PROVE  HarnessInv'
  <1>1. pc = "cleanup" /\ tbCleanups # <<>> /\ UNCHANGED <<pc, ending, connected>> BY DEF RunCleanup
  <1>2. tbCleanups \in {Tb1, Tb2, Tb3, TbFull} BY <1>1 DEF HarnessInv, TbInv
  <1>3. pc \in Leaving /\ pc \notin ScriptPcs /\ pc \notin Booting /\ pc \notin Making /\ ~Fatal
    BY <1>1 DEF Leaving, ScriptPcs, Booting, Making, Fatal
  <1>4. \A x \in Sockets(caller) \cup Sockets(callee) : x \notin up BY <1>3 DEF HarnessInv, SocketInv
  <1>5. up \subseteq Dirs \cup Things BY <1>4 DEF HarnessInv, SocketInv
  <1>6. PcInv' BY <1>1 DEF HarnessInv, PcInv
  <1>7. ~Fatal' BY <1>1 DEF Fatal
  <1>8. ASSUME up' \subseteq up PROVE SocketInv'
    <2>1. up' \subseteq Dirs \cup Things BY <1>5, <1>8
    <2>2. \A x \in Sockets(caller) \cup Sockets(callee) : x \notin up' BY <1>4, <1>8
    <2> QED BY <1>1, <2>1, <2>2 DEF SocketInv
  <1>9. ASSUME tbCleanups' \in {<<>>, Tb1, Tb2, Tb3, TbFull} PROVE TbInv'
    BY <1>1, <1>9 DEF TbInv, ScriptPcs
  <1>10. ASSUME UNCHANGED started PROVE ScriptType' /\ Running' = Running
    BY <1>1, <1>10 DEF HarnessInv, ScriptType, Running
  <1>11. Running => Noted(cleanups) /\ up \cap Things = Covered(Len(cleanups))
    BY <1>3 DEF HarnessInv, ThingInv
  <1>12. /\ Running /\ tbCleanups \in {<<>>, Tb1} => cleanups = <<>>
         /\ ~Running => tbCleanups \in {<<>>, Tb1}
    BY <1>3 DEF HarnessInv, ThingInv
  <1>13. /\ Dirs = {TmpDir, Dir(caller), Dir(callee)} /\ HarnessClose \notin Dirs
         /\ TmpDir # Dir(caller) /\ TmpDir # Dir(callee) /\ Dir(caller) # Dir(callee)
    BY Apart
  <1>14. CASE /\ Last(tbCleanups) # HarnessClose
              /\ up' = up \ {Last(tbCleanups)}
              /\ tbCleanups' = Front(tbCleanups)
              /\ UNCHANGED <<started, cleanups>>
    <2> DEFINE d == Last(tbCleanups)
    <2>1. \/ tbCleanups = Tb1 /\ tbCleanups' = <<>> /\ d = TmpDir
          \/ tbCleanups = Tb3 /\ tbCleanups' = Tb2 /\ d = Dir(caller)
          \/ tbCleanups = TbFull /\ tbCleanups' = Tb3 /\ d = Dir(callee)
      BY <1>2, <1>14, TbFacts
    <2>2. up' = up \ {d} /\ UNCHANGED <<started, cleanups>> BY <1>14
    <2> HIDE DEF d
    <2>3. d \in Dirs BY <1>13, <2>1
    <2>4. DirInv'
      <3>1. ToSet(tbCleanups') = ToSet(tbCleanups) \ {d} BY <1>13, <2>1, TbFacts
      <3>2. \A e \in Dirs : e \in up' <=> e \in ToSet(tbCleanups') BY <2>2, <3>1 DEF HarnessInv, DirInv
      <3> QED BY <3>2 DEF DirInv, ToSet
    <2>5. up' \cap Things = up \cap Things BY <2>2, <2>3, Apart
    <2>6. ThingInv'
      <3>1. Running' = Running BY <1>10, <2>2
      <3>2. /\ tbCleanups' \in {<<>>, Tb1} => tbCleanups = Tb1
            /\ tbCleanups = Tb1 => tbCleanups' = <<>>
            /\ tbCleanups # <<>>
        BY <2>1, TbFacts
      <3>3. Running => Noted(cleanups)' /\ up' \cap Things = Covered(Len(cleanups'))
        BY <1>11, <2>2, <2>5 DEF Noted
      <3>4. /\ Running /\ tbCleanups' \in {<<>>, Tb1} => cleanups' = <<>>
            /\ ~Running => tbCleanups' \in {<<>>, Tb1}
        BY <1>12, <2>2, <3>2
      <3> QED BY <1>1, <1>3, <1>7, <3>1, <3>3, <3>4 DEF ThingInv
    <2>7. TbInv' BY <1>9, <2>1
    <2>8. SocketInv' BY <1>8, <2>2
    <2>9. ScriptType' BY <1>10, <2>2
    <2> QED BY <1>6, <2>4, <2>6, <2>7, <2>8, <2>9 DEF HarnessInv
  <1>15. ASSUME Last(tbCleanups) = HarnessClose PROVE tbCleanups = Tb2 /\ Running
    <2>1. tbCleanups = Tb2 BY <1>2, <1>13, <1>15, TbFacts
    <2> QED BY <1>12, <2>1, TbFacts
  <1>16. CASE Last(tbCleanups) = HarnessClose /\ CloseNext /\ UNCHANGED tbCleanups
    <2> DEFINE n == Len(cleanups)
    <2>1. /\ cleanups # <<>> /\ up' = up \ Last(cleanups) /\ cleanups' = Front(cleanups)
          /\ UNCHANGED <<started, tbCleanups>>
      BY <1>16 DEF CloseNext
    <2>2. tbCleanups = Tb2 /\ Running BY <1>15, <1>16
    <2>3. /\ Noted(Front(cleanups)) /\ n \in 1..10 /\ Len(Front(cleanups)) = n - 1
          /\ Last(cleanups) = FullCleanups[n]
      BY <1>11, <2>1, <2>2, NotedFront
    <2> HIDE DEF n
    <2>4. FullCleanups[n] \subseteq Things BY <2>3, FullFacts
    <2>5. up' \cap Things = Covered(n - 1)
      <3>1. up \cap Things = Covered(n) BY <1>11, <2>2 DEF n
      <3>2. Covered(n) \ FullCleanups[n] = Covered(n - 1) BY <2>3, CoveredFront
      <3>3. up' \cap Things = (up \cap Things) \ FullCleanups[n] BY <2>1, <2>3
      <3> QED BY <3>1, <3>2, <3>3
    <2>6. DirInv' BY <2>1, <2>3, <2>4, Apart DEF HarnessInv, DirInv
    <2>7. ThingInv'
      <3>1. Running' BY <1>10, <2>1, <2>2
      <3>2. tbCleanups' \notin {<<>>, Tb1} BY <2>1, <2>2, TbFacts
      <3>3. Noted(cleanups') /\ Len(cleanups') = n - 1 BY <2>1, <2>3
      <3>4. up' \cap Things = Covered(Len(cleanups')) BY <2>5, <3>3
      <3> QED BY <1>1, <1>3, <1>7, <3>1, <3>2, <3>3, <3>4 DEF ThingInv, Noted
    <2>8. TbInv' BY <1>9, <2>1, <2>2
    <2>9. SocketInv' BY <1>8, <2>1
    <2>10. ScriptType' BY <1>10, <2>1
    <2> QED BY <1>6, <2>6, <2>7, <2>8, <2>9, <2>10 DEF HarnessInv
  <1>17. CASE Last(tbCleanups) = HarnessClose /\ Closed /\ tbCleanups' = Front(tbCleanups)
    <2>1. tbCleanups = Tb2 /\ Running BY <1>15, <1>17
    <2>2. cleanups = <<>> /\ UNCHANGED <<up, started, cleanups>> BY <1>17 DEF Closed, harnessVars
    <2>3. tbCleanups' = Tb1 BY <1>17, <2>1, TbFacts
    <2>4. DirInv'
      <3>1. ToSet(Tb2) = ToSet(Tb1) \cup {HarnessClose} BY TbFacts
      <3>2. \A d \in Dirs : d \in up' <=> d \in ToSet(Tb1) BY <1>13, <2>1, <2>2, <3>1 DEF HarnessInv, DirInv
      <3> QED BY <2>3, <3>2 DEF DirInv, ToSet
    <2>5. ThingInv'
      <3>1. Running' BY <1>10, <2>1, <2>2
      <3> QED BY <1>1, <1>3, <1>7, <1>11, <2>1, <2>2, <3>1 DEF ThingInv, Noted
    <2>6. TbInv' BY <1>9, <2>3
    <2>7. SocketInv' BY <1>8, <2>2
    <2>8. ScriptType' BY <1>10, <2>2
    <2> QED BY <1>6, <2>4, <2>5, <2>6, <2>7, <2>8 DEF HarnessInv
  <1> QED BY <1>14, <1>16, <1>17 DEF RunCleanup

LEMMA CleanedUpStep ==
  ASSUME HarnessInv, CleanedUp
  PROVE  HarnessInv'
  <1>1. /\ pc = "cleanup" /\ tbCleanups = <<>> /\ pc' = "exit"
        /\ UNCHANGED <<up, started, cleanups, ending, connected, tbCleanups>>
    BY DEF CleanedUp, Goto, harnessVars
  <1>2. ending # "log.Fatalf" /\ ending # "" /\ connected = 0 BY <1>1 DEF HarnessInv, PcInv, Leaving
  <1>3. ~Fatal /\ ~Fatal' BY <1>1, <1>2 DEF Fatal
  <1>4. pc \in Leaving /\ pc' \in Leaving /\ pc \notin Booting \cup Making \cup ScriptPcs
        /\ pc' \notin Booting \cup Making \cup ScriptPcs
    BY <1>1 DEF Leaving, Booting, Making, ScriptPcs
  <1>5. ScriptType' BY <1>1 DEF HarnessInv, ScriptType
  <1>6. PcInv' BY <1>1, <1>2 DEF PcInv, Leaving
  <1>7. TbInv' BY <1>1, <1>4 DEF TbInv
  <1>8. DirInv' BY <1>1 DEF HarnessInv, DirInv
  <1>9. Running' = Running BY <1>1 DEF Running
  <1>10. ThingInv' BY <1>1, <1>3, <1>4, <1>9 DEF HarnessInv, ThingInv, Noted
  <1>11. SocketInv' BY <1>1, <1>3, <1>4 DEF HarnessInv, SocketInv
  <1> QED BY <1>5, <1>6, <1>7, <1>8, <1>10, <1>11 DEF HarnessInv

\* The statements of the script.
LEMMA ScriptStep ==
  ASSUME HarnessInv,
         SendFriendRequest \/ Approve \/ WaitFriends \/ Call \/ WaitConvoState \/ ShowStates \/ Send
         \/ Receive \/ LogFatalf
  PROVE  HarnessInv'
  <1> USE DEF upVars, harnessVars
  <1>0. pc \in ScriptPcs \cup {"caller"} => ending # "log.Fatalf" BY DEF HarnessInv, PcInv, ScriptPcs
  <1>1. CASE SendFriendRequest \/ Approve \/ WaitFriends \/ Call \/ WaitConvoState \/ Send
    <2>1. /\ pc \in {"befriend", "waitRequest", "waitFriends", "call", "waitState", "send"}
          /\ pc' \in {"waitRequest", "waitFriends", "call", "waitState", "show", "receive"}
          /\ UNCHANGED <<upVars, ending, connected>>
      BY <1>1 DEF SendFriendRequest, Approve, WaitFriends, Call, WaitConvoState, Send, Script, Goto
    <2>2. connected = 0 /\ ending # "log.Fatalf" BY <1>0, <2>1 DEF HarnessInv, PcInv, ScriptPcs
    <2>3. pc \in ScriptPcs /\ pc \notin {"startCaller", "startCallee"} BY <2>1 DEF ScriptPcs
    <2>4. pc' \in ScriptPcs \ {"startCaller", "startCallee", "callerFailed", "calleeFailed", "stopCaller",
                               "stopCallee"}
      BY <2>1 DEF ScriptPcs
    <2>6. ScriptType' BY <2>1 DEF HarnessInv, ScriptType
    <2>7. PcInv' BY <2>1, <2>2, <2>4 DEF PcInv, Leaving
    <2>8. tbCleanups = TbFull BY <2>3 DEF HarnessInv, TbInv
    <2>9. SocketInv' BY <2>1, <2>4, <2>8 DEF HarnessInv, SocketInv
    <2>10. \A x \in Dirs \cup Things : x \in up' <=> x \in up BY <2>1
    <2> QED BY <2>1, <2>3, <2>4, <2>6, <2>7, <2>9, <2>10, SocketMove
  <1>2. CASE ShowStates
    <2>1. /\ pc = "show" /\ UNCHANGED <<upVars, connected>>
          /\ (pc' = "send" /\ ending' = ending) \/ (pc' = "stopCallee" /\ ending' = "panic")
      BY <1>2 DEF ShowStates, Goto
    <2>2. connected = 0 /\ ending # "log.Fatalf" BY <1>0, <2>1 DEF HarnessInv, PcInv, ScriptPcs
    <2>3. pc \in ScriptPcs /\ pc' \in ScriptPcs BY <2>1 DEF ScriptPcs
    <2>4. tbCleanups = TbFull BY <2>3 DEF HarnessInv, TbInv
    <2>5. ScriptType' BY <2>1 DEF HarnessInv, ScriptType
    <2>6. PcInv' BY <2>1, <2>2, <2>3 DEF PcInv, Leaving
    <2>7. SocketInv' BY <2>1, <2>3, <2>4 DEF HarnessInv, SocketInv
    <2>8. \A x \in Dirs \cup Things : x \in up' <=> x \in up BY <2>1
    <2> QED BY <2>1, <2>3, <2>5, <2>6, <2>7, <2>8, SocketMove
  <1>3. CASE Receive
    <2>1. /\ pc = "receive" /\ UNCHANGED <<upVars, connected>>
          /\ (pc' = "stopCallee" /\ ending' = "return") \/ (pc' = "exit" /\ ending' = "log.Fatalf")
      BY <1>3 DEF Receive, Goto
    <2>2. connected = 0 BY <2>1 DEF HarnessInv, PcInv
    <2>3. pc \in ScriptPcs /\ pc \notin {"startCaller", "startCallee"} BY <2>1 DEF ScriptPcs
    <2>4. CASE pc' = "exit" /\ ending' = "log.Fatalf" BY <2>1, <2>2, <2>3, <2>4, FatalMove
    <2>5. CASE pc' = "stopCallee" /\ ending' = "return"
      <3>1. pc' \in ScriptPcs \ {"startCaller", "startCallee", "callerFailed", "calleeFailed", "stopCaller"}
        BY <2>5 DEF ScriptPcs
      <3> QED BY <2>1, <2>2, <2>3, <2>5, <3>1, ScriptMove
    <2> QED BY <2>1, <2>4, <2>5
  <1>4. CASE LogFatalf
    <2>1. /\ pc \in MayFail /\ (pc = "startCaller" => connected = 0)
          /\ pc' = "exit" /\ ending' = "log.Fatalf" /\ UNCHANGED <<upVars, connected>>
      BY <1>4 DEF LogFatalf, Goto
    <2>2. pc \in ScriptPcs \cup {"caller"} /\ pc # "startCallee" BY <2>1 DEF MayFail, ScriptPcs
    <2>3. connected = 0 BY <2>1, <2>2 DEF HarnessInv, PcInv
    <2> QED BY <2>1, <2>2, <2>3, FatalMove
  <1> QED BY <1>1, <1>2, <1>3, <1>4

LEMMA NextHarness == HarnessInv /\ [Next]_vars => HarnessInv'
  <1> SUFFICES ASSUME HarnessInv, [Next]_vars PROVE HarnessInv' OBVIOUS
  <1>1. CASE UNCHANGED vars BY <1>1, HarnessFrame DEF vars
  <1>2. CASE Main
    BY <1>2, MakeTmpDirStep, NewStep, MakeClientStep, StartCallerStep, StartCalleeStep, ScriptStep, StopStep,
       RunCleanupStep, CleanedUpStep DEF Main
  <1>3. CASE Layers
    <2>1. UNCHANGED <<harnessVars, scriptVars>>
      BY <1>3 DEF Layers, ReceivedFriendRequest, ReceivedCall, ConfirmedFriend, CallWord, SendingCall, Layer
    <2> QED BY <2>1, HarnessFrame
  <1>4. CASE ConvoNext /\ UNCHANGED <<scriptVars, layerVars, got, drops>>
    <2>1. UNCHANGED <<harnessVars, scriptVars>>
      BY <1>4 DEF ConvoNext, Announce, Mix, Outgoing, Replies
    <2> QED BY <2>1, HarnessFrame
  <1>5. CASE \E c \in Clients, s \in ToSet(Services) : Drop(c, s) BY <1>5, DropStep
  <1> QED BY <1>1, <1>2, <1>3, <1>4, <1>5 DEF Next

LEMMA InitHarness == Init => HarnessInv
  <1> SUFFICES ASSUME Init PROVE HarnessInv OBVIOUS
  <1>1. /\ up = {} /\ started = 0 /\ cleanups = <<>> /\ pc = "tmpDir" /\ ending = "" /\ connected = 0
        /\ tbCleanups = <<>>
    BY DEF Init, HarnessInit
  <1>2. 0 \in 0..Len(StartSteps) BY ManySteps
  <1>3. ScriptType BY <1>1, <1>2, ThreeServices DEF ScriptType
  <1>4. PcInv BY <1>1 DEF PcInv, Booting, Leaving
  <1>5. TbInv BY <1>1 DEF TbInv, ScriptPcs
  <1>6. DirInv BY <1>1, TbFacts DEF DirInv
  <1>7. ThingInv
    <2>1. Noted(<<>>) /\ NotedAt(0, Len(<<>>)) BY DEF Noted, NotedAt
    <2>2. pc \in Booting /\ pc \notin Making \cup ScriptPcs /\ ~Fatal /\ pc \notin Leaving
      BY <1>1 DEF Booting, Making, ScriptPcs, Fatal, Leaving
    <2> QED BY <1>1, <2>1, <2>2, OpenedFacts DEF ThingInv
  <1>8. SocketInv BY <1>1 DEF SocketInv
  <1> QED BY <1>3, <1>4, <1>5, <1>6, <1>7, <1>8 DEF HarnessInv

LEMMA NotedLen ==
  ASSUME NEW s, Noted(s)
  PROVE  Len(s) \in 0..10
  <1>1. s \in Seq(SUBSET Things) /\ Len(s) <= 10 BY DEF Noted
  <1>2. Len(s) \in Nat BY <1>1
  <1>3. \A n \in Nat : n <= 10 => n \in 0..10 OBVIOUS
  <1> QED BY <1>1, <1>2, <1>3, Zenon

LEMMA CoveredEnds ==
  Covered(0) = {} /\ Res("coordHTTP") \in Covered(10) /\ Res("convoHTTP") \in Covered(10)
  <1>1. Covered(0) = {} BY DEF Covered
  <1>2. Res("coordHTTP") \in FullCleanups[7] /\ Res("convoHTTP") \in FullCleanups[10]
    BY FullFacts DEF Coord, Convo
  <1>3. 7 \in 1..10 /\ 10 \in 1..10 OBVIOUS
  <1> QED BY <1>1, <1>2, <1>3 DEF Covered

LEMMA SocketUses ==
  ASSUME NEW c, NEW x \in Sockets(c)
  PROVE  Uses(x) \subseteq {Res("coordHTTP"), Res("convoHTTP"), Dir(c)}
  <1>1. x = Socket(c, "AddFriend") \/ x = Socket(c, "Dialing") \/ x = Socket(c, "Convo") BY SocketFacts
  <1>2. /\ Uses(Socket(c, "AddFriend")) = {Res("coordHTTP"), Dir(c)}
        /\ Uses(Socket(c, "Dialing")) = {Res("coordHTTP"), Dir(c)}
        /\ Uses(Socket(c, "Convo")) = {Res("convoHTTP"), Dir(c)}
    BY UsesFacts
  <1> QED BY <1>1, <1>2

\* What is up has all it works with.
LEMMA DependenciesFollow ==
  ASSUME HarnessInv
  PROVE  DependenciesUp
  <1> SUFFICES ASSUME Running \/ ending = "", NEW x \in up PROVE Uses(x) \subseteq up
    BY DEF DependenciesUp
  <1>1. CASE x \in Dirs
    <2>1. Uses(TmpDir) = {} BY UsesFacts DEF TmpDir
    <2>2. Uses(x) = {} BY <1>1, <2>1, UsesFacts, Apart
    <2> QED BY <2>2
  <1>2. CASE x \in Things
    <2>1. CASE pc \in Booting
      <3>1. up \cap Things = Opened(started) /\ started \in 0..Len(StartSteps)
        BY <2>1 DEF HarnessInv, ThingInv, ScriptType
      <3>2. x \in Opened(started) BY <1>2, <3>1
      <3>3. Uses(x) \subseteq {TmpDir} \cup Opened(started) BY <3>1, <3>2, OpenedResolved
      <3>4. pc = "new"
        <4> SUFFICES ASSUME pc = "tmpDir" PROVE FALSE BY <2>1 DEF Booting
        <4>1. started = 0 BY DEF HarnessInv, ThingInv
        <4> QED BY <3>2, <4>1, OpenedFacts
      <3>5. TmpDir \in up BY <3>4, TbFacts, Apart DEF HarnessInv, TbInv, DirInv
      <3> QED BY <3>1, <3>3, <3>5
    <2>2. CASE pc \notin Booting
      <3>1. Running BY <2>2 DEF HarnessInv, PcInv, ThingInv, Leaving
      <3>2. Noted(cleanups) /\ up \cap Things = Covered(Len(cleanups)) BY <2>2, <3>1 DEF HarnessInv, ThingInv
      <3>3. Len(cleanups) \in 0..10 BY <3>2, NotedLen
      <3>4. x \in Covered(Len(cleanups)) BY <1>2, <3>2
      <3>5. Uses(x) \subseteq {TmpDir} \cup Covered(Len(cleanups)) BY <3>3, <3>4, CoveredResolved
      <3>6. cleanups # <<>>
        <4> SUFFICES ASSUME cleanups = <<>> PROVE FALSE OBVIOUS
        <4>1. Len(cleanups) = 0 OBVIOUS
        <4> QED BY <3>4, <4>1, CoveredEnds
      <3>7. tbCleanups \in {Tb1, Tb2, Tb3, TbFull}
        <4>1. CASE pc \in Leaving
          <5>1. tbCleanups # <<>> BY <3>1, <3>6, <4>1 DEF HarnessInv, ThingInv
          <5> QED BY <5>1 DEF HarnessInv, TbInv
        <4>2. CASE pc \notin Leaving
          <5>1. pc \in Making \cup ScriptPcs BY <2>2, <4>2 DEF HarnessInv, PcInv
          <5> QED BY <5>1 DEF HarnessInv, TbInv, Making
        <4> QED BY <4>1, <4>2
      <3>8. TmpDir \in up BY <3>7, TbFacts, Apart DEF HarnessInv, DirInv
      <3> QED BY <3>2, <3>5, <3>8
    <2> QED BY <2>1, <2>2
  <1>3. CASE x \in Sockets(caller) \cup Sockets(callee)
    <2>1. tbCleanups = TbFull /\ (pc \in ScriptPcs \/ Fatal) BY <1>3 DEF HarnessInv, SocketInv
    <2>2. Running /\ Len(cleanups) = 10 /\ pc \notin Booting
      BY <2>1 DEF HarnessInv, ThingInv, ScriptPcs, Fatal, Booting
    <2>3. up \cap Things = Covered(10) BY <2>2 DEF HarnessInv, ThingInv
    <2>4. Res("coordHTTP") \in up /\ Res("convoHTTP") \in up
      BY <2>3, CoveredEnds
    <2>5. Dir(caller) \in up /\ Dir(callee) \in up BY <2>1, TbFacts, Apart DEF HarnessInv, DirInv
    <2>6. ASSUME NEW c \in {caller, callee}, x \in Sockets(c) PROVE Uses(x) \subseteq up
      <3>1. Uses(x) \subseteq {Res("coordHTTP"), Res("convoHTTP"), Dir(c)} BY <2>6, SocketUses
      <3> QED BY <2>4, <2>5, <3>1
    <2> QED BY <1>3, <2>6
  <1> QED BY <1>1, <1>2, <1>3 DEF HarnessInv, SocketInv

\* Nothing half-open is left.
LEMMA CleanFollows ==
  ASSUME HarnessInv
  PROVE  CleanExit
  <1>1. pc = "callerFailed" => up \cap Sockets(caller) = {} BY DEF HarnessInv, SocketInv
  <1>2. pc = "calleeFailed" => up \cap Sockets(callee) = {} BY DEF HarnessInv, SocketInv
  <1>3. ASSUME pc = "exit", ending # "log.Fatalf" PROVE up \cap Dirs = {} /\ (Running => up = {})
    <2>1. tbCleanups = <<>> BY <1>3 DEF HarnessInv, TbInv
    <2>2. up \cap Dirs = {} BY <2>1, TbFacts DEF HarnessInv, DirInv
    <2>3. ASSUME Running PROVE up = {}
      <3>1. cleanups = <<>> BY <1>3, <2>1, <2>3 DEF HarnessInv, ThingInv, Leaving
      <3>2. up \cap Things = Covered(Len(cleanups)) BY <1>3, <2>3 DEF HarnessInv, ThingInv, Booting
      <3>3. Len(cleanups) = 0 BY <3>1
      <3>4. Covered(0) = {} BY DEF Covered
      <3>5. up \cap Things = {} BY <3>2, <3>3, <3>4
      <3>6. \A y \in Sockets(caller) \cup Sockets(callee) : y \notin up
        BY <2>1, TbFacts DEF HarnessInv, SocketInv
      <3> QED BY <2>2, <3>5, <3>6 DEF HarnessInv, SocketInv
    <2> QED BY <2>2, <2>3
  <1> QED BY <1>1, <1>2, <1>3 DEF CleanExit

\* What is up, and what takes it down, step by step.
THEOREM HarnessInvariant == Spec => []HarnessInv
  BY InitHarness, NextHarness, PTL DEF Spec

\* The types of Demo's variables; RecvCh never holds more than its capacity.
THEOREM TypeCorrect == Spec => []TypeOK
  <1>1. DemoInv /\ HarnessInv => TypeOK
    <2> SUFFICES ASSUME DemoInv, HarnessInv PROVE TypeOK OBVIOUS
    <2>1. started \in 0..Len(StartSteps) /\ connected \in 0..Len(Services)
          /\ ending \in {"", "return", "log.Fatalf", "tb.Fatalf", "panic"}
      BY DEF HarnessInv, ScriptType
    <2>2. /\ ConvoState \in [Clients -> {NilState, TornState} \cup {State(1, r) : r \in Rounds}]
          /\ latest \in 0..MaxRound /\ mixed \subseteq Rounds /\ got \in {Nothing, Cover, Body}
      BY DEF DemoInv, DataType, States
    <2>3. Bodies \subseteq Nat BY DEF Bodies, Cover, Body
    <2>4. Msg \subseteq Message
      <3>1. {0, 1} \subseteq Nat OBVIOUS
      <3> DEFINE N == Nat
                 C == {0, 1}
                 B == Bodies
      <3>2. C \subseteq N /\ B \subseteq N BY <2>3, <3>1
      <3>3. Msg = [from : Clients, round : Rounds, call : C, body : B] BY DEF Msg
      <3>4. Message = [from : Clients, round : Rounds, call : N, body : N] BY DEF Message
      <3> HIDE DEF N, C, B
      <3> QED BY <3>2, <3>3, <3>4
    <2>5. InMsg \subseteq Incoming BY <2>3 DEF InMsg, Incoming
    <2>6. deposits \subseteq Message BY <2>4 DEF DemoInv, DataType
    <2>7. ASSUME NEW c \in Clients
          PROVE  /\ outQueue[c] \in Seq({Body})
                 /\ recvCh[c] \in Seq(Incoming) /\ Len(recvCh[c]) <= RecvCap
      <3>1. recvCh[c] \in Seq(InMsg) /\ outQueue[c] \in Seq({Body}) BY DEF DemoInv, DataType
      <3>2. recvCh[c] \in Seq(Incoming) BY <2>5, <3>1
      <3> QED BY <3>1, <3>2 DEF DemoInv, RoomType
    <2> QED BY <2>1, <2>2, <2>6, <2>7 DEF TypeOK
  <1> QED BY <1>1, DemoInvariant, HarnessInvariant, PTL

\* New starts, and Close, Stop and stdoutTB's cleanups stop, in orders that
\* fit together for any number of mixers: what a running component works with
\* is there (harness.go, neverlur.go, gjallarhorn.go, client.go).
THEOREM DependenciesAreUp == Spec => []DependenciesUp
  <1>1. HarnessInv => DependenciesUp BY DependenciesFollow
  <1> QED BY <1>1, HarnessInvariant, PTL

\* A Start that fails leaves no socket, and a program that does not end in
\* main's own log.Fatalf leaves no directory and, once New has returned,
\* nothing at all (client.go Start, main.go stdoutTB).
THEOREM ExitsClean == Spec => []CleanExit
  <1>1. HarnessInv => CleanExit BY CleanFollows
  <1> QED BY <1>1, HarnessInvariant, PTL
=============================================================================

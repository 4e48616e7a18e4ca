----------------------------- MODULE TestClient -----------------------------
(***************************************************************************)
(* The harness's client (internal/testharness client.go, convohandler.go,   *)
(* convostate.go): three sockets, a ConvoState that a call installs, a      *)
(* queue of texts and the channel RecvCh.  Unlike the terminal client's     *)
(* Conversation it has no sequence numbers: a text goes into one round, and *)
(* every message that opens is pushed on RecvCh, cover included.            *)
(*                                                                          *)
(* ConvoState is written by the dialing client's callbacks and read by the  *)
(* conversation client's and by tests, without a lock.  It is an interface  *)
(* value, two words: a reader may see the type word without the pointer     *)
(* ("torn"), which the handlers take for nil and a nil check takes for set. *)
(***************************************************************************)
EXTENDS Harness, FiniteSets

CONSTANTS
    Peer,           \* Peer[c]: whom c calls or is called by
    RecvCap,        \* capacity of RecvCh
    MaxRound,       \* bound: conversation rounds
    Flights         \* rounds the Convo coordinator runs at the same time

ASSUME TestClientAssumption ==
    /\ Peer \in [Clients -> Clients] /\ \A c \in Clients : Peer[Peer[c]] = c
    /\ RecvCap \in Nat /\ MaxRound \in Nat /\ Flights \in Nat

VARIABLES
    ConvoState,     \* see above; call names the session key
    outQueue,       \* texts accepted by SendMessage and not yet taken
    recvCh,
    latest, mixed,  \* rounds announced, rounds exchanged
    done,           \* done[c]: rounds for which c's client ran Outgoing
    deposits,       \* messages at the coordinator
    replies,        \* messages on their way back
    sent            \* history: sent[c], the texts SendMessage accepted

clientVars  == <<ConvoState, outQueue, recvCh>>
convoRounds == <<latest, mixed, done, deposits, replies>>

testClientVars == <<clientVars, convoRounds, sent>>

Rounds == 1..MaxRound

NilState       == [word |-> "nil", call |-> 0, round |-> 0]
TornState      == [word |-> "torn", call |-> 0, round |-> 0]
State(call, r) == [word |-> "set", call |-> call, round |-> r]

\* Texts are positive numbers; a cover message has a body of zeros, which is
\* trimmed to nothing.
Cover == 0

Message == [from : Clients, round : Rounds, call : Nat, body : Nat]
Incoming == [FromPeer : Clients, Body : Nat, Round : Rounds]

TestClientInit ==
    /\ ConvoState = [c \in Clients |-> NilState]
    /\ outQueue   = [c \in Clients |-> <<>>]
    /\ recvCh     = [c \in Clients |-> <<>>]
    /\ latest = 0 /\ mixed = {} /\ done = [c \in Clients |-> {}]
    /\ deposits = {} /\ replies = {}
    /\ sent = [c \in Clients |-> {}]

-----------------------------------------------------------------------------
(* Start and Stop.  k sockets are connected when the next one fails.        *)

Connect(c, k) == up' = up \cup {Socket(c, Services[k + 1])}

Rollback(c, k) == up' = up \ {Socket(c, Services[i]) : i \in 1..k}

Stop(c) == up' = up \ Sockets(c)

\* A socket drops; its forwardDisconnect goroutine passes that on, without
\* waiting when nobody listens, and nothing reconnects.
Disconnect(c, s) ==
    /\ Socket(c, s) \in up
    /\ up' = up \ {Socket(c, s)}
    /\ UNCHANGED <<started, cleanups, testClientVars>>

-----------------------------------------------------------------------------
(* Calls and texts. *)

\* SendingCall and ReceivedCall store the first word ...
StoreWord(c) ==
    /\ ConvoState[c].word = "nil"
    /\ ConvoState' = [ConvoState EXCEPT ![c] = TornState]

\* ... and then the pointer.  A call that was not sent yet has round 0 and is
\* ignored.
StoreState(c, call, r) ==
    /\ r # 0
    /\ ConvoState[c].word = "torn"
    /\ ConvoState' = [ConvoState EXCEPT ![c] = State(call, r)]

\* Accepted: the body is not empty, not too long and UTF-8.
SendMessage(c, text) ==
    /\ ConvoState[c].word # "nil"
    /\ outQueue' = [outQueue EXCEPT ![c] = Append(@, text)]
    /\ sent'     = [sent EXCEPT ![c] = @ \cup {text}]
    /\ UNCHANGED <<ConvoState, recvCh, convoRounds>>

-----------------------------------------------------------------------------
(* Rounds of the Convo service (external to the client; see Coordinator). *)

Announce ==
    /\ Res("convoSrv") \in up
    /\ latest < MaxRound /\ Cardinality((1..latest) \ mixed) < Flights
    /\ latest' = latest + 1
    /\ UNCHANGED <<harnessVars, clientVars, mixed, done, deposits, replies, sent>>

\* The other message in the same dead drop, or one's own.
Exchanged(m) ==
    IF m.call # 0 /\ \E o \in deposits : o.round = m.round /\ o.call = m.call /\ o.from # m.from
      THEN CHOOSE o \in deposits : o.round = m.round /\ o.call = m.call /\ o.from # m.from
      ELSE m

Mix(r) ==
    /\ r \in (1..latest) \ mixed
    /\ mixed'    = mixed \cup {r}
    /\ deposits' = {m \in deposits : m.round # r}
    /\ replies'  = replies \cup {[to |-> m.from, msg |-> Exchanged(m)] :
                                    m \in {m \in deposits : m.round = r}}
    /\ UNCHANGED <<harnessVars, clientVars, latest, done, sent>>

-----------------------------------------------------------------------------
\* rollKeyTo: the wheel does not turn back.  Two ends have the same key, and
\* so the same dead drop, in a round both can roll to.
CanRoll(s, r) == s.round <= r

\* Mutant: the text is read but stays in the queue.
TakeText_Keep(c) == UNCHANGED outQueue

\* The first text leaves the queue before it is known whether it can be
\* sealed.
TakeText(c) ==
    outQueue' = IF ConvoState[c].word = "set" /\ outQueue[c] # <<>>
                  THEN [outQueue EXCEPT ![c] = Tail(@)] ELSE outQueue

Sealed(c, r) ==
    [from |-> c, round |-> r, call |-> ConvoState[c].call,
     body |-> IF outQueue[c] = <<>> THEN Cover ELSE Head(outQueue[c])]

\* A random dead drop with a random message.
coverDeadDrop(c, r) == [from |-> c, round |-> r, call |-> 0, body |-> Cover]

MessageOf(c, r) ==
    IF ConvoState[c].word = "set" /\ CanRoll(ConvoState[c], r)
      THEN Sealed(c, r) ELSE coverDeadDrop(c, r)

\* The onion arrives in time (intime) or not.
Outgoing(c, r, intime) ==
    /\ Socket(c, "Convo") \in up
    /\ r \in (1..latest) \ done[c]
    /\ intime => r \notin mixed
    /\ done' = [done EXCEPT ![c] = @ \cup {r}]
    /\ TakeText(c)
    /\ deposits' = IF intime THEN deposits \cup {MessageOf(c, r)} ELSE deposits
    /\ UNCHANGED <<harnessVars, ConvoState, recvCh, latest, mixed, replies, sent>>

\* Mutant: the nonce does not depend on the name of the receiver.
Opens_AnyName(c, m) ==
    ConvoState[c].word = "set" /\ m.call = ConvoState[c].call /\ CanRoll(ConvoState[c], m.round)

\* The nonce holds the receiver's name: one's own message does not open.
Opens(c, m) ==
    /\ ConvoState[c].word = "set"
    /\ m.call = ConvoState[c].call /\ CanRoll(ConvoState[c], m.round)
    /\ m.from # c

\* Mutant: the send on RecvCh has no default case and the buffer no end.
HasRoom_Always(c) == TRUE

HasRoom(c) == Len(recvCh[c]) < RecvCap

Replies(c, m) ==
    /\ Socket(c, "Convo") \in up
    /\ [to |-> c, msg |-> m] \in replies
    /\ replies' = replies \ {[to |-> c, msg |-> m]}
    /\ recvCh'  = IF Opens(c, m) /\ HasRoom(c)
                    THEN [recvCh EXCEPT ![c] =
                            Append(@, [FromPeer |-> Peer[c], Body |-> m.body, Round |-> m.round])]
                    ELSE recvCh
    /\ UNCHANGED <<harnessVars, ConvoState, outQueue, latest, mixed, done, deposits, sent>>

ConvoNext ==
    \/ Announce
    \/ \E r \in Rounds : Mix(r)
    \/ \E c \in Clients, r \in Rounds, intime \in BOOLEAN : Outgoing(c, r, intime)
    \/ \E rp \in replies : Replies(rp.to, rp.msg)
=============================================================================

# Gjallarhorn: TLA+ models and proofs

Gjallarhorn is a metadata-private messenger. Time is cut into *conversation
rounds*. In every round each connected client sends a fixed number of
fixed-size onions, real or dummy, to a **coordinator**, which collects them
until the round's deadline and sends them through a chain of **mixers**. The
last mixer exchanges the messages that meet in a *dead drop* and the replies go
back the same way. Two clients in a call derive the dead drop and the message
key of each round from a shared key wheel, so that their messages meet, and run
a small reliability protocol over this lossy exchange.

This directory holds models of these parts, the TLC configurations that check
them, and proofs. Paths below are relative to `src/`.

## Inventory

| Part | State it keeps | Operations | Talks to |
|---|---|---|---|
| Conversation protocol, `cmd/gjallarhorn-client/conversation.go` | `outQueue`, `lastOut`, `inQueue`, `relativeSeq`, `seqBase`, `ack`, key wheel, keys of open rounds | `QueueTextMessage`, `NextMessage`, `Reply`, `rollAndReplaceKey` | called once per round by the terminal client |
| Terminal client, `gui.go`, `alpenhorn.go`, `commands.go`, `connect.go` in `cmd/gjallarhorn-client` | conversations, up to `NumOutgoing` active ones, pending rounds, held calls | `Outgoing`, `Replies`, `activateConvo`, `deactivateConvo`, `SendingCall`, `ReceivedCall`, commands | handler of the conversation client and of the add-friend/dialing client (external) |
| Conversation client, `client.go`, `persist.go` | connection, rounds it takes part in, latest round, config | `ConnectConvo`, `newConvoRound`, `runRound`, `openReplyOnion`, `LatestRound` | websocket to the coordinator |
| Coordinator, `coordinator/server.go`, `coordinator/persist.go` | round counter (in memory and on disk), flight tokens, open rounds and their onions, config freshness | `loop`, `runRound`, `incomingOnion`, `mixOnions`, `updateConfigLoop`, `Persist`, `LoadPersistedState`, `Close` | gRPC to the mixers, websockets to clients |
| Mix network, `mixnet/mixnet.go` | per round: settings, incoming onions, shared keys, index, replies, noise | `NewRound`, `SetRoundSettings`, `AddOnions`, `CloseRound`, `GetOnions`, `DeleteRound`, decryption workers | each mixer is a client of the next |
| Conversation service, `convo/mixer.go` | none | `HandleMessages`, `GenerateNoise` | called by the mixers |
| Client start-up, `main.go` and `connect.go` in `cmd/gjallarhorn-client` | the dialing client's two files, the conversation client's file | `LoadAlpenhornState`, `LoadVuvuzelaState`, `Connect`, `RegisterAll` | PKG servers (external), then the connect loop |
| Test harness, `internal/testharness` | started services and their cleanups; per client three sockets, `ConvoState`, a queue and `RecvCh` | `New`, `Close`, `ClientFor`, `Start`, `Stop`, `SendMessage`, `Outgoing`, `Replies`, dialing callbacks | all services in one process |
| Demo, `cmd/gjallarhorn-conversation-demo` (and `e2e/first_message_test.go`) | temporary directories, cleanups | one scripted conversation | the harness and two of its clients |

What is hard here: rounds overlap (five flights), so messages and replies are
processed out of order; any message, acknowledgement or whole round may be
lost; clients, mixers and the coordinator crash with little or nothing on disk;
handlers run concurrently and hold locks for only part of their work; most
waits have no timeout. `PROJECT.json` lists these hazards with the line where
each one bites and the properties aimed at it.

What makes each part correct:

* conversation: texts are displayed in order, once, without gaps, and leave the
  sender's queue only after the peer's user has seen them, also across restarts;
* mix network: the reply at a position answers the onion at that position and
  can be opened by its sender only; a round always ends;
* coordinator: round numbers do not come back, what was accepted before the
  deadline is mixed and answered, tokens are conserved, rounds and `Close` end;
* clients: a client takes part in a round once, with the keys it keeps for the
  reply, and a call starts both key wheels at the same round;
* terminal client: every round carries the same number of messages, neither
  slots nor calls get lost, and a line the user has not seen leaves a mark;
* start-up: the identity that is registered is the one that is kept, and only a
  client registered everywhere connects;
* harness and demo: services start and stop in the order of their dependencies,
  nothing is left open, a text arrives once, and the script ends.

## Modules

| Module | Models |
|---|---|
| `FifoChannel` | what a conversation promises: texts are delivered in order and confirmed only after delivery |
| `Conversation` | the conversation protocol of both ends, calls, restarts, and the rounds as a lossy exchange |
| `MCConversation` | its instances for TLC |
| `ConversationProofs` | theorems about `Conversation`: types, no text lost before a restart |
| `ConversationRestartProofs` | theorems about `Conversation` with restarts, and the refinement of `FifoChannel` |
| `MixChain` | one round on a chain of mixers, with the conversation service |
| `MCMixChain`, `MixChainProofs` | its instance for TLC, and theorems about it |
| `Coordinator` | the coordinator's process, disk, rounds and client messages |
| `MCCoordinator`, `CoordinatorProofs` | its instances for TLC, and theorems about it |
| `CallSetup` | how the two ends of a call agree on the round their key wheels start at |
| `MCCallSetup`, `CallSetupProofs` | its instances for TLC, and theorems about it |
| `RoundClient` | the conversation client: connections, rounds, configs, restarts |
| `ClientStart` | the client from its start: files, registration, then `RoundClient` (which it extends) |
| `MCClientStart`, `ClientStartProofs` | the instance of both for TLC, and theorems about both |
| `GuiSlots` | the terminal client's windows, focus, slots and held calls |
| `MCGuiSlots`, `GuiSlotsProofs` | its instance for TLC, and theorems about it |
| `Harness` | start and stop of all services in one process |
| `TestClient` | the harness's client; extends `Harness` |
| `Demo` | the scripted conversation; extends `TestClient` |
| `MCDemo`, `DemoProofs` | the instances of all three for TLC, and theorems about them |

Definitions whose name has a suffix after an underscore (`BaseIn_FromOne`) and
whose comment begins with "Mutant" are deliberately wrong variants of the
definition they are named after. No specification uses them; they show that a
property notices the mistake.

### Conversation

Each user `u` has one `Conversation` value with the fields of the Go struct. A
text is identified by the process that queued it (`inc`) and its `RelativeSeq`.
`Outgoing(u, r, sent)` is `GuiClient.Outgoing` with `NextMessage`: it advances
`seqBase` and `lastOut` even if the wheel has been rolled past the round, and
the message reaches the dead drop or not (`sent`), which covers a late client,
an abandoned round, and a lost connection. `Mix` is the end of a round at the
last mixer: `Exchanged` gives each deposit the other message of its dead drop.
`Reply` handles what comes back, at any later time and in any order, or never.
A round that fails is one whose replies are never handled. `SendingCall` and
`ReceivedCall` install a new key wheel at either end, at different times.
`Restart` loses everything, as the client keeps no conversation state on disk.

`NextMessage` and `Reply` are atomic. The code takes the lock several times in
each, but between the sections it only touches values of its own round, and the
key is rolled only by `NextMessage` and `activateConvo`, both under
`GuiClient.mu`. Displayed lines are appended in the same step; the code prints
after it unlocks, in the order in which the replies of one connection are
handled.

The calls of the model always get a slot and a connected client; a call that is
held and answered later is a `ReceivedCall` that happens late. Sequence numbers
do not wrap. `Window` stands for the 10 rounds after which a key is forgotten,
`Flights` for the coordinator's 5. `RedialRounds` is how long a restarted client
is out of a call. `Overtaking` bounds how many rounds later a round may be that
the client handles earlier: the goroutine of a round (`runRound` in `client.go`)
sleeps until just before its own round ends, so that rounds are handled in order
but for the time a goroutine is held up. Nothing in the code enforces a number:
the runs set it to `MaxRound`, where it excludes nothing, `NoTextLost` and
`FifoRefinement` hold for every value, and only the theorems about restarts
compare it with something.

A process numbers its texts from the round of its first message on, and takes up
at most one number a round, except in rounds that its first one overtook, and one
text it may skip. If it takes up more numbers than rounds pass until its
successor is in the call again, the two ranges overlap, and a text the peer still
holds from before the restart may be taken for one of the new process. The
theorems about restarts therefore assume `LateRedial`: if there are restarts,
`Overtaking + 1 < RedialRounds`, or no user types more than `RedialRounds` texts.
Dialing takes minutes, that is, far more rounds than a goroutine is late. Without
it `NoGap` fails, with four texts, three flights, a window of 3, `Overtaking = 2`
and `RedialRounds = 0`: a process joins in round 3 with base 4, handles the late
rounds 1 and 2, and sends number 7 in round 4; its successor starts with base 6
in round 5; and the old text 7, still waiting at the peer, is displayed after the
new text 6. The run `convo_restart` and the theorems complement each other: the
run allows an immediate redial but has one round in flight and two texts, the
theorems allow any number of both but not an immediate redial.

`FifoChannel` is implemented under the mapping `Channel`: `sent` is what was
queued, `delivered` what the peer displayed, `confirmed` what left the queue.

### MixChain

`call[s]` follows the client of mixer `s` (the coordinator or mixer `s - 1`)
through `RunRoundBidirectional`: adding, closing, getting, done or failed. The
other variables are mixer `s`'s `roundState`. One stream carries one onion, as
in the code for fewer than five onions (`spanSize`). A reply carries the keys
that seal it, hop by hop, so that the property can say whose onion can open it.
Copies of an onion are equal values, which the filter removes; an onion may fail
to decrypt at a given hop. Shuffles range over all permutations.

`QueueJob` is one step although the code waits for room in the queue while it
holds the round's lock: workers never take that lock. `Crash(s)` loses the
mixer's rounds and ends the calls it makes; `CallFails` is any other failure.
Setting up the round is two phases of parallel calls, as in `Client.NewRound`.
`BatchesAssumption` says that the identities and dead drops of client onions are
not those of a mixer's noise, which the mixers draw at random.
A client deletes the round after it has fetched all replies, in a goroutine
whose failure is only logged (`DeleteFails`) and which ends with its process.

### Coordinator

`phase[r]` follows `runRound`. `StartRound` is an iteration of the loop from the
select to the two `go` statements; `Shutdown` the other case of the select, both
enabled when both channels are ready. `LookupRound` and `AddBundle` are the two
lock sections of `incomingOnion`; a client always sends the same number of
onions (`NumOutgoing`), and different clients different numbers. A save is read,
then written (an atomic rename) or failed; a failed save panics unless the
server is closed. `Crash` keeps only `disk`, `Run` adds the skip to what is
loaded. Init is a server that was initialised with counter 0 and has just been
started. `replies` are those sent by the running process: a connection, and what
is on it, does not survive a crash.

`PersistDelay` is a timing assumption: a save is over before that many further
rounds have been started. A round lasts seconds and a save milliseconds, so a
handful would do; the run takes as many as the arithmetic allows
(`SkipAssumption`: `PersistEvery + 2 * PersistDelay <= RoundSkip`; 40 rounds with
the code's 20 and 100).

### CallSetup

`conn[u]` and `latestRound[u]` are the fields of `Client`; announcements reach a
connected client in any order. `SendingCall` and `ReceivedCall` compute the start
of a key wheel from the latest round of their own client; the intent, the parity
of the caller's epoch, is all that the call carries. A disconnected caller's
call goes out with the intent `/call` gave it and without a wheel; a
disconnected callee drops the call. `Word` is 2^32: the subtraction of an epoch
wraps. `Timely` says when agreement can be expected: both clients are at most
`Lag` rounds behind the service, and the call takes at least `Lag` rounds, so
that the callee has heard of the caller's round, and at most an epoch less
`Lag`. Dialing takes a minute or more and an epoch is 10000 rounds.

### RoundClient

`loop` follows `connectLoop` and `ConnectConvo`, `serving` and `ending` the
goroutine `ConnectConvo` starts: it reports on the `disconnect` channel first
and sets `conn` to nil later, whatever `conn` is by then. `Slept` is the ten
seconds the loop waits, a timing assumption: in that time the goroutine gets to
its assignment. `rounds[r].phase` follows `runRound`; a goroutine survives its
connection, and then its message is lost. `newConvoRound` either joins a round
or ignores it (too late, known already, or its config is older than the
client's, to which no chain leads). Saving a config cannot fail and go on: the
code panics, which is `Restart`. The coordinator appears as the rounds it has
open, each with its config; when it crashes it may number rounds again from any
earlier point, as `coordinator_reuse` shows it can. One counter, `faults`, bounds
failed dials, dropped connections, restarts and crashes together.

### ClientStart

`boot` follows `main`: the dialing client's identity is loaded, or generated and
written to two files one after the other, then the conversation client's state
is loaded or generated. Any step may fail, which ends the process, and a
`Restart` may come anywhere. When the GUI runs, `Connect` (called by `Run` and by
`/connect`) starts the connect loop if all PKG servers have this identity;
`/register` starts a `RegisterAll` goroutine, which reads all statuses, registers
with one server after another, and connects if all went well. Several such
goroutines may run, kept as a bag. The dialing client and the PKG servers are
external: `Persist` writes the client's file first, `LoadClient` reports a
missing file if either is missing, and a server keeps the first identity it is
given for a name.

### GuiSlots

The GUI goroutine runs one command at a time; `/answer` and `/wc` release
`GuiClient.mu` in the middle, so they are two actions each. A dialing callback
is five: it finds or makes the conversation, prints in its window (which waits
for the GUI goroutine to be between commands), marks the conversation unread if
it is not focused, tries to activate it, and holds the call if there is no slot.
Of the lines a callback prints only this first one is modelled; the later ones,
and the texts `Reply` displays, are printed and marked in the same way.
Callbacks may overlap. Four history variables serve the properties: `newest` is
the last call each conversation got; `raced` holds the conversations for which
any callbacks or commands overlapped, and only `NewestCallKept` excludes them;
`closedUnder` holds those that `/wc` closed while a callback was at work on them
(a closed conversation value never gets a window again); `unseen` holds the
lines printed while another window was in front, each with its window and the
conversation it was printed through. A window belongs to a peer's name, not to a
conversation value: a line printed through a closed conversation appears in the
window of its successor, while the mark goes to the closed one. `UnseenMarked`
exempts such a line, one whose conversation is in `closedUnder` and has lost its
window, and no other line of that window. `/hangup` and `activateConvo` are
single critical sections. `/call` on a name that is not a friend opens the window
and queues nothing; whether a peer is one is left open.

### Harness, TestClient and Demo

`Harness` keeps the set `up` of resources that exist outside of memory:
directories, listeners, servers, published configs, sockets. `StartSteps` lists
the steps of `New` in order, each with what it opens, the cleanups it appends
and whether it has an error path; `Close` runs the cleanups in reverse. `Uses`
says what a resource works with, and is what `DependenciesUp` is about.

`TestClient` adds the sockets, `ConvoState`, the queue and `RecvCh` of each
client, and the rounds of the conversation service as in `Conversation`: an onion
comes in time or not, replies come in any order or never. `ConvoState` is an
interface value that callbacks store without a lock, so a store is two steps and
a reader may find it torn; the handlers' type assertion then yields nil, while a
nil check in a test says that it is set.

`Demo` follows `main` from `New` to its exit with every wait and every error
path. A wait with a timeout may always end in `log.Fatalf`, because nothing
bounds how long the services take. `ending` tells how the program ends:
`log.Fatalf` runs no deferred function, `tb.Fatalf` runs the cleanups, a panic
(on a torn state) and a normal return run both. The add-friend and dialing
layers are external and appear as the callbacks they make, each of which needs
its socket. A socket that drops stays down.

## Runs

| Run | Checks | Instance |
|---|---|---|
| `convo_fifo` | `TypeOK`, `NoLossBeforeRestart`, `DeliveryInv`, `ImplementsFifo` | two users, two texts, three rounds, two flights, key window 1 |
| `convo_restart` | `NoLoss`, `DisplayOrder`, `NoGap` | either client restarts once and redials, two texts in one direction, three rounds |
| `mix_chain` | `TypeOK`, `RepliesAnswer`, `NoLateJobs`, `RoundTerminates`, `DoneRoundsForgotten` | two mixers, up to three onions (malformed at either hop, repeated, three in one dead drop) and noise, one crash, one failed call |
| `coordinator_rounds` | `TypeOK`, `TokensConserved`, `RepliesMatch`, `RoundsEnd`, `CloseCompletes` | two clients, one sending two onions and one sending one, two rounds in flight (5 and 6, after a skip of 4), a save, `Close` |
| `coordinator_crash` | `UniqueWhenSaved` | one flight token for up to 11 rounds, two crashes, saves every 2 rounds that may take 2, skip 6 |
| `coordinator_reuse` | `RoundsUnique` is violated | one crash |
| `call_setup` | `TypeOK`, `TimelyCallsAgree` | two users, one call, epochs of three rounds, lag 1, rounds 4 to 8, two outages |
| `call_setup_past` | `AgreedRoundIsPast` is violated | the same with rounds 4 to 6 and one outage |
| `round_client` | `TypeOK`, `ReplyExpected`, `OnionsMatchConfig`, `ConnCurrent`, `RegisteredIdentityKept`, `ConnectsRegistered`, `ConfigForward`, `RejoinsService` | two rounds, two configs, two PKG servers, two `RegisterAll` goroutines, any two faults (dial, connection, restart, coordinator crash) |
| `gui_slots` | `TypeOK`, `UniformTraffic`, `SelectedListed`, `UnseenMarked`, `ActiveListed`, `NewestCallKept` | two peers, one slot, three conversations, three calls |
| `demo` | `TypeOK`, `DependenciesUp`, `CleanExit`, `SentOnce`, `FromPeer`, `ScriptEnds` | two mixers, two overlapping rounds, a dropped socket, `RecvCh` with room for one message |
| `demo_first` | `FirstMessageIsText` is violated | the same without failures of sockets, room for two |

Bounds. Three rounds are enough for a text, its retransmission and an
acknowledgement to be lost, overtaken and repeated; two texts are needed for
order and gaps, two flights for reordering, a window of 1 for forgotten keys.
Mixing needs at least two onions to be confused with each other, and two mixers
for a hop that forwards and one that exchanges; a mixer in the middle does what
the first one does, for another mixer instead of the coordinator. The crash
run's numbers keep the proportions that matter: two saves can overlap, and the
skip is exactly what the worst case needs. Rounds 4 to 8 with epochs of three
let a call cross an epoch boundary of either parity and come too late. Two
rounds and two configs are what the client can confuse with each other; two PKG
servers and two registrations are what it takes to be registered with a part of
them. Two faults let one come while the client recovers from the other. The demo
needs one round for cover and one for the text, and a channel that two messages
overfill (the code's has room for 16). One slot
and two peers make slots scarce, the third conversation value is one made again
after `/wc`, and the third call is one that replaces a held one. Deadlock is not
checked because every model has a bounded number of rounds and stops when they
are used up.

Fairness. `MixChain!FairSpec` assumes that goroutines that can run do run and
that clients make their next call; crashes and failures are not fair.
`Coordinator!FairSpec` assumes that each round's goroutine goes on (timers fire,
and the mixers answer: the code sets no deadline on these calls, which
`RoundTerminates` justifies) and that the loop eventually notices the closed
channel, as Go's select chooses at random among ready cases.
The goroutine that deletes a finished round runs in the end (WF on
`DeleteRound`). `ClientStart!FairSpec` assumes that the connect loop and the
goroutines watching connections keep running and that a dial succeeds once
faults are used up; it does not assume that users register or connect.
`Demo!FairSpec` assumes only that `main` goes on, which needs the timeouts of its
waits; rounds, callbacks and sockets are not fair.

## Findings

* `coordinator_reuse`: the skip of 100 rounds at start-up is not saved, and the
  first save comes at the next multiple of 20. A coordinator that crashes before
  it (a newly initialised one in rounds 101 to 119, or any other soon after a
  restart) runs the same round numbers again. The client takes them to be fresh
  (`conversation.go:212`), and a mixer that still holds such a round answers
  with its old state. `coordinator_crash` shows that this window is the only
  problem: with one save per process the scheme works.
* `call_setup_past`: `LatestRound` returns 0 on a client that is connected but
  has not yet received an announcement. If a call with intent 1 is delivered
  then, `incomingCallConvoRound` wraps and the wheel starts at a round near
  2^32, which `rollKey` will never reach; with intent 0 it starts at round 0.
  Either way the two ends do not meet until one calls again.
* `demo_first`: once both clients of the demo have a `ConvoState`, a round
  without a queued text seals a body of zeros into the shared dead drop. It
  opens at the peer, which pushes it on `RecvCh` as a message with an empty body
  (`convohandler.go:58` and `:101`). If such a round comes before the one with
  the text, the script, which compares the first message it gets, ends in
  `log.Fatalf("body mismatch ...")`; so does the end-to-end test.

More that the models show:

* After `Close` the loop's select may prefer flight tokens for a while and start
  further rounds, which the comment at `server.go:284` does not suggest;
  `CloseCompletes` shows that it ends nevertheless.
* `/answer` reads the held call, unlocks, and activates what it read. A call
  from the same peer that is activated or held in between is overwritten, and is
  then neither in use nor held. `NewestCallKept` shows that without such an
  overlap the last call is always kept.
* When `/wc` overlaps with a call to the same conversation, the conversation can
  become active without a window and keep its slot. `ActiveListed` excludes just
  this case, the conversations in `closedUnder`: no other overlap loses a slot.
* `conn = nil` at the end of a connection's goroutine is harmless only because
  the connect loop sleeps before it dials (`ConnCurrent` with `Slept`).
* A mixer keeps the state of a round whose call failed, for as long as it runs:
  `RunRoundBidirectional` deletes a round on success only.
* The temporary directories of the demo survive `log.Fatalf`, and a `New` that
  fails leaves the servers it has started to the end of the process.
* A text of the harness's client that is late, or taken in a round the wheel has
  passed, is gone without a trace: unlike the terminal client it does not send
  anything twice (`SentOnce`), and has no acknowledgements.

## Proofs

Each theorem holds for all values of the constants that satisfy the named
assumptions of the module it is about. TLC evaluates these assumptions in every
run. `THEOREM Spec => []P` is proved from an inductive invariant with three
lemmas: `Init` implies it, a step keeps it (one lemma or step per action, or per
part of the invariant), and it implies `P`. `DeliveryInv` is also an invariant of
the run `convo_fifo`. `RestartInv` and `UniqueInv` quantify over infinite sets and
cannot be evaluated by TLC; their consequences are what the runs check.

| Theorem | States | Inductive invariant |
|---|---|---|
| `ConversationProofs!TypeCorrect` | `TypeOK` | `TypeOK` |
| `ConversationProofs!DeliveryInvariant` | `DeliveryInv` | itself |
| `ConversationProofs!NoTextLost` | `NoLossBeforeRestart` | `DeliveryInv` |
| `ConversationRestartProofs!NoTextLostEver` | `NoLoss`, given `LateRedial` | `RestartInv` |
| `ConversationRestartProofs!DisplayedInOrder` | `DisplayOrder`, given `LateRedial` | `RestartInv` |
| `ConversationRestartProofs!DisplayedWithoutGaps` | `NoGap`, given `LateRedial` | `RestartInv` |
| `ConversationRestartProofs!FifoRefinement` | `ImplementsFifo`, given `MaxRestarts = 0` | `RestartInv` |
| `CallSetupProofs!SyncAgreement` | the claim of the comment on `roundSyncer` | none: arithmetic |
| `CallSetupProofs!TypeCorrect`, `CallsAgree` | `TypeOK`, `TimelyCallsAgree` | `CallInv` |
| `MixChainProofs!TypeCorrect`, `NoJobIsLate`, `RepliesDoAnswer` | `TypeOK`, `NoLateJobs`, `RepliesAnswer` | `ChainInv` |
| `CoordinatorProofs!TypeCorrect` | `TypeOK` | `TypeOK` |
| `CoordinatorProofs!TokensAreConserved` | `TokensConserved` | `TokenInv` |
| `CoordinatorProofs!UniqueAcrossRestarts` | `UniqueWhenSaved` | `UniqueInv` |
| `CoordinatorProofs!RepliesDoMatch` | `RepliesMatch` | `MatchInv` |
| `ClientStartProofs!TypeCorrect`, `RepliesAreExpected`, `OnionsMatch`, `ConnIsCurrent`, `IdentityIsKept`, `ConnectsWhenRegistered` | `TypeOK`, `ReplyExpected`, `OnionsMatchConfig`, `ConnCurrent`, `RegisteredIdentityKept`, `ConnectsRegistered` | `ClientInv` |
| `ClientStartProofs!ConfigsGoForward` | the action property `ConfigForward` | `ClientInv` |
| `GuiSlotsProofs!TypeCorrect`, `TrafficIsUniform`, `SelectedIsListed`, `UnseenAreMarked`, `ActiveAreListed`, `NewestCallsAreKept` | `TypeOK`, `UniformTraffic`, `SelectedListed`, `UnseenMarked`, `ActiveListed`, `NewestCallKept` | `GuiInv` |
| `DemoProofs!TextIsSentOnce`, `TextsAreFromPeer` | `SentOnce`, `FromPeer` | `DemoInv` |
| `DemoProofs!TypeCorrect`, `DependenciesAreUp`, `ExitsClean` | `TypeOK`, `DependenciesUp`, `CleanExit` | `HarnessInv` (and `DemoInv`) |

### Conversation

`NoLossBeforeRestart` says that a text that has left the queue of a process that
has not restarted was displayed to the peer. It is not inductive: whether
`Reply` may drop a text depends on what the acknowledgement in the message
means, which depends on what the peer's `ack` meant when it was sent, which in
turn depends on the texts and Lowest marks the peer had received. `DeliveryInv`
says all of this. The queue holds consecutive numbers, those before them have
been displayed (`QueueInv`, `SeenBelow`); every acknowledgement, held by the
peer or on its way in a deposit or a reply, covers displayed texts only
(`AckInv`); every text on its way or waiting out of order has the number its
sender gave it (`TextInv`); and a Lowest mark promises that all earlier texts
have been displayed (`MessageInv`). The peer may restart any number of times:
what it forgets only makes these statements weaker. The proof has one lemma per
action; `DeliveryFrame` covers those that change nothing in it, `OutMessage` the
message `NextMessage` builds, `AcceptInv` and `RemoveAckedInv` the two halves of
`Reply`.

When the sender restarts too, texts and acknowledgements of processes that no
longer exist are still on their way, and what their numbers meant is known to
nobody. `RestartInv` therefore says that there are bases `b[i]` and counts `e[i]`
for all processes of a user such that every number anywhere (`Number`) stands for
the text it was given to, the range of one process lies below that of the next
(`BaseInv`), and an acknowledgement within the range of a process covers texts
the acknowledging user has seen (`Ack`). How far the range of a process reaches is
counted in rounds, not in texts typed (`SenderInv`): each round the process has
handled since its first message, or that this one overtook (`Handled`), pays for
one number. `NextMessage` goes on by one text, except at the start and after a
`Reply` that has removed all texts sent: `lastOut` is then at the front although
the text there was never sent, and the next message skips it. This is the text
`g[i]`, which has no number until the process starts over (`NextNumber`,
`SenderSends`). With `LateRedial`, `SenderBound` then keeps the
range below the rounds of the next process. `OrderInv` and `GapInv` are the two
properties of what is displayed. The step that matters is `AcceptStep`: what
`Reply` takes from the queue is a run of consecutive numbers from `ack + 1` on or
from a Lowest mark, hence texts of one process in order (`RunLine`, `InRun`), or
of the next process from its first one on.

With no restarts `RestartInv` also says that the acknowledgement counts the lines
displayed (`ExactInv`), which gives the refinement: `InitChannel` for the initial
states, `SendChannel` for `QueueTextMessage`, `ReplyChannel` and `ReceiveChannel`
for `Reply`, which may both deliver and confirm several texts at once, and a
stutter of `FifoChannel` for everything else.

### CallSetup

`SyncAgreement` rests on `NextEpoch`: going on by at most one increment leads to
the same epoch or the next one, which the parity tells apart. The inductive
invariant `CallInv` says that every wheel start was computed from a round that
its end had heard of at the time, and that a call carries the intent belonging
to the caller's round; `Timely` then bounds the distance of the two rounds.

### MixChain

The chain has any length `N`. `ChainInv` says, server by server, how far its
client and its own round state may be from each other (`ControlInv`), and what
they hold: while onions are added, every onion is unqueued, queued or decrypted
as it should be (`Adding`); after `CloseRound`, the index, the noise and the
shuffle belong to what was filtered (`Passing`); and the replies that a server
has answer the onions it was called with (`Answering`). The last is hop by hop:
`HopAnswers(s, b, i, reply)` says that `reply`, seen by the client of server `s`,
is sealed with exactly the keys of hops `s` to `N` of onion `i` and holds what met
it in its dead drop or, if the onion is dropped on the way, is sealed with a
fresh key of some hop. `LastHopAnswers` gets it from `HandleMessages`;
`MiddleHopAnswers` gets it for `s` from `s + 1`, through the inverse of the
shuffle, the noise at the end and `incomingIndex`; at `s = 1` it is
`RepliesAnswer`. `IndexNumbers` and `ValidOnions` are what the filter computes.

### Coordinator

`TokenInv` adds to `TokensConserved` that no goroutine of a round survives a
crash and that a running round has been numbered. `UniqueInv` follows a save from
the round that began it: a running save is at most `PersistDelay` rounds old
(`SavesTimely`); every round due to save since some round `t` still has a save
running, and the file has reached `t - PersistDelay` (`FileFollows`); as one of any
`PersistEvery` rounds is due (`SomeDue`), the file lags by at most `PersistEvery +
2 * PersistDelay` (`FileLag`), which `SkipAssumption` bounds by the skip.

`RepliesMatch` is about ranges: `mixOnions` joins the bundles of a round and cuts
the replies again by where each bundle lay. `Joined` is the loop, a recursive
function on the number of bundles joined. What it computes for any number of
bundles is proved by induction on that number, over the set of numbers for which
it holds (`AllNumbers`): each step appends one bundle (`JoinedSteps`), what has been
joined stays where it is (`JoinedKeeps`), so a bundle's range of the replies holds
the replies to its own onions (`RangeAnswers`). `MatchInv` adds to `TokenInv` and
`RepliesMatch` that a mixed round takes no more onions and is not mixed again
(`AnsweredOver`, `MixingClosed`), and that replies are to mixed rounds of the
running process (`RepliesAnswered`).

### RoundClient and ClientStart

`LinkInv`: the connect loop has at most one connection served or ending, so the
goroutine of an old one cannot wipe `conn`. `ConfigInv`: disk, client, fetched and
published configs are ordered. `NumberInv`: what the client knows of a round
through the served connection agrees with the round of that number which the
coordinator has open, also when numbers come back. `ReplyInv`: a round is
answered once, either its onions are with the coordinator or its reply is on the
wire, and the client keeps what it needs for it. `IdentityInv`: the second file
is written after the first and both before anything is registered; a goroutine
that has met no error knows the servers it is done with to have the identity.

### GuiSlots

`GuiInv` adds to the properties that slots are not overbooked, that exactly the
selected conversation is focused, that a callback's conversation has a window
unless `/wc` closed it meanwhile (`closedUnder`), that a command under way works
on the window in front, with no callback at work on it unless the overlap was
recorded, and that a held or answered call is the conversation's last one. A line
in a window other than its callback's own was then printed through a conversation
in `closedUnder`, as a peer has one window, and the conversation `/wc` takes off
the list is not active or is in `closedUnder`: this is all that `UnseenMarked` and
`ActiveListed` need.

### Harness, TestClient and Demo

`DemoInv` is about messages: a text anywhere was sent by the client it is from
(`Origin`), a client deposits one message per round (`Deposited`), and a text is
in one place (`Once`), where `ExchangedOnce` shows that mixing a round does not
hand the same message to two clients. `HarnessInv` is about resources: the
cleanups that are left follow from where `main` is (`PcInv`, `TbInv`); the
directories up are those with a cleanup left (`DirInv`); the things of the
harness up are those the steps of `New` done so far opened, and afterwards those
the cleanups left will take down (`ThingInv`, with `OneOwner`: no two cleanups
take down the same thing, and `AllCovered`: together they take down all); and
sockets exist only while `main` has both clients (`SocketInv`).

### Only model-checked

* Liveness (`RoundTerminates`, `DoneRoundsForgotten`, `RoundsEnd`, `CloseCompletes`,
  `RejoinsService`, `ScriptEnds`): the prover supports neither fairness nor
  `ENABLED`.
* The restart properties of the conversation without `LateRedial`, and the
  refinement with restarts, where `FifoChannel` does not promise anything.
* The disagreements `RoundsUnique`, `AgreedRoundIsPast` and `FirstMessageIsText`,
  which are violated.

## Not modelled

The add-friend and dialing protocols (another repository), cryptography beyond
who can open what, the noise distribution, authentication of gRPC callers, the
unidirectional mode of the mixers (no service here uses it), encoding of
settings and configs, drawing and friend-list commands of the terminal, flags,
key files and notifications of the commands, `AdvanceRound` and
`WaitForConvoRound` of the harness (they only wait, or return an error), the mock
mixers of unit tests, logging, generated code (a third of the implementation's
lines). The pool of gRPC connections (`getConns`) is not modelled either: two
goroutines that fill it at once store lists without each other's connections,
which stay open but unused. `onConnect` of the coordinator is never registered
with its hub and is dead code.

## Plan

1. Done: Conversation, MixChain, Coordinator, CallSetup, RoundClient, GuiSlots;
   then ClientStart, the unread marks of GuiSlots, the deletion of rounds in
   MixChain, and Harness, TestClient and Demo.
2. Done: a theorem for every invariant and action property of the runs, and for
   the refinement of `FifoChannel`.
3. Done: the restart theorems for any number of texts, with a bound on how far
   rounds overtake each other instead.
4. Left, models: three mixers; a mixer that meets a reused round number
   (MixChain's `NewRound` on existing state), and settings verification;
   retransmission under fairness: a text that is queued while both clients stay
   in the call is displayed in the end.

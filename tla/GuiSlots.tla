------------------------------ MODULE GuiSlots ------------------------------
(***************************************************************************)
(* The terminal client's conversations (gui.go, commands.go, alpenhorn.go): *)
(* the windows, the NumOutgoing slots for active conversations, and the     *)
(* calls that are held when no slot is free.  The GUI goroutine runs the    *)
(* user's commands one after another, the dialing client's callbacks run    *)
(* beside it; each takes GuiClient.mu for parts of its work only, and the   *)
(* steps below are those parts.                                             *)
(*                                                                          *)
(* A conversation is a value of its own: closing a window and opening one   *)
(* for the same peer makes a second one.  Calls are numbered as they come;  *)
(* a wheel is named after its call (CallSetup models its start).            *)
(***************************************************************************)
EXTENDS Integers, Sequences, FiniteSets, SequencesExt

CONSTANTS
    Peers,          \* names the user or the dialing client may come up with
    NumOutgoing,    \* messages sent in a round, and active conversations at most
    MaxConvos,      \* bound: conversations made
    MaxCalls        \* bound: calls

ASSUME BoundsAssumption ==
    /\ NumOutgoing \in Nat \ {0}
    /\ MaxConvos \in Nat /\ MaxCalls \in Nat

VARIABLES
    \* GuiClient.
    conversations,  \* the conversations with a window, in order
    active,
    selectedConvo,  \* the conversation in front (0: the main window)
    \* Conversation values.
    peerUsername,   \* peerUsername[c] of every conversation made
    pendingCall,    \* the call held for c (0: none)
    sessionKey,     \* the call whose wheel c uses (0: none)
    focused, unread, \* conversations with these marks
    \* What goroutines are in the middle of.
    command,        \* the GUI goroutine: a command with what it has read
    callbacks,      \* the dialing client's SendingCall and ReceivedCall
    queued,         \* peers /call has queued a call to
    \* History.
    calls,          \* calls so far
    newest,         \* newest[c]: the last call activated or held for c
    raced,          \* conversations with overlapping commands and callbacks
    closedUnder,    \* conversations /wc closed while a callback was at work on them
    unseen          \* lines printed in a window since it was in front, and through
                    \* which conversation

windowVars  == <<conversations, peerUsername, selectedConvo>>
callVars    == <<pendingCall, sessionKey, newest>>
markVars    == <<focused, unread, unseen>>
routineVars == <<command, callbacks, queued, calls>>
raceVars    == <<raced, closedUnder>>

vars == <<windowVars, active, callVars, markVars, routineVars, raceVars>>

Convos == 1..MaxConvos
Made   == 1..Len(peerUsername)

Idle == [name |-> "none", convo |-> 0, call |-> 0]

Init ==
    /\ conversations = <<>> /\ active = {} /\ selectedConvo = 0
    /\ peerUsername = <<>>
    /\ pendingCall = [c \in Convos |-> 0]
    /\ sessionKey  = [c \in Convos |-> 0]
    /\ command = Idle /\ callbacks = {} /\ queued = {}
    /\ calls = 0
    /\ newest = [c \in Convos |-> 0]
    /\ raced = {} /\ closedUnder = {} /\ focused = {} /\ unread = {} /\ unseen = {}

-----------------------------------------------------------------------------
Listed == ToSet(conversations)

\* Mutant: a conversation is found only if it is active.
Found_Active(p, c) == c \in Listed \cap active /\ peerUsername[c] = p

Found(p, c) == c \in Listed /\ peerUsername[c] = p

\* c is the conversation with p: the one with a window, or a new one.
getOrCreateConvo(p, c) ==
    \/ /\ c \in Made /\ Found(p, c)
       /\ UNCHANGED <<conversations, peerUsername>>
    \/ /\ \A d \in Made : ~Found(p, d)
       /\ c = Len(peerUsername) + 1 /\ c <= MaxConvos
       /\ peerUsername'  = Append(peerUsername, p)
       /\ conversations' = Append(conversations, c)

\* Mutant: there is always room.
HasSlot_Always == TRUE

HasSlot == Cardinality(active) < NumOutgoing

\* Mutant: a held call stays held when another one is activated.
activateConvo_KeepPending(c, call) ==
    /\ active'     = active \cup {c}
    /\ sessionKey' = [sessionKey EXCEPT ![c] = call]
    /\ UNCHANGED pendingCall

activateConvo(c, call) ==
    /\ active'      = active \cup {c}
    /\ sessionKey'  = [sessionKey EXCEPT ![c] = call]
    /\ pendingCall' = [pendingCall EXCEPT ![c] = 0]

\* Mutant: the conversation keeps its slot.
deactivateConvo_Keep(c) == active' = active

deactivateConvo(c) == active' = active \ {c}

-----------------------------------------------------------------------------
(* SendingCall and ReceivedCall.  They find the conversation and print in   *)
(* its window, which waits for the GUI goroutine, before they go on.        *)

\* The GUI goroutine is between two commands.
Ready == command = Idle

Overlapped(c) == IF command.convo = c \/ \E cb \in callbacks : cb.convo = c THEN {c} ELSE {}

Closing == IF command.name = "close" THEN {command.convo} ELSE {}

StartCallback(p) ==
    /\ calls < MaxCalls
    /\ calls' = calls + 1
    /\ \E c \in Convos :
         /\ getOrCreateConvo(p, c)
         /\ callbacks' = callbacks \cup {[convo |-> c, call |-> calls + 1, stage |-> "found"]}
         /\ raced'       = raced \cup Overlapped(c)
         /\ closedUnder' = closedUnder \cup ({c} \cap Closing)
    /\ UNCHANGED <<selectedConvo, active, callVars, markVars, command>>

SendingCall(p) ==
    /\ p \in queued
    /\ queued' = queued \ {p}
    /\ StartCallback(p)

ReceivedCall(p) == StartCallback(p) /\ UNCHANGED queued

\* The conversation whose window the user sees for c's peer.
Shown(c) == {d \in Listed : peerUsername[d] = peerUsername[c]}

Becomes(cb, stage) == callbacks' = (callbacks \ {cb}) \cup {[cb EXCEPT !.stage = stage]}

\* LatestRound fails: the client is not connected.
DropCall(cb) ==
    /\ cb.stage \in {"found", "printed"}
    /\ callbacks' = callbacks \ {cb}
    /\ UNCHANGED <<windowVars, active, callVars, markVars, command, queued, calls, raceVars>>

\* PrintfSync: the GUI goroutine, between two commands, prints the line ...
PrintCall(cb) ==
    /\ cb.stage = "found" /\ Ready
    /\ Becomes(cb, "marking")
    /\ unseen' = unseen \cup [window : Shown(cb.convo) \ {selectedConvo}, via : {cb.convo}]
    /\ UNCHANGED <<windowVars, active, callVars, focused, unread, command, queued, calls, raceVars>>

\* ... and the callback then marks the conversation, unless it is in front.
MarkUnread(cb) ==
    /\ cb.stage = "marking"
    /\ unread' = IF cb.convo \in focused THEN unread ELSE unread \cup {cb.convo}
    /\ Becomes(cb, "printed")
    /\ UNCHANGED <<windowVars, active, callVars, focused, unseen, command, queued, calls, raceVars>>

TakeCall(cb) ==
    /\ cb.stage = "printed"
    /\ IF HasSlot
         THEN /\ activateConvo(cb.convo, cb.call)
              /\ newest'    = [newest EXCEPT ![cb.convo] = cb.call]
              /\ callbacks' = callbacks \ {cb}
         ELSE Becomes(cb, "refused") /\ UNCHANGED <<active, callVars>>
    /\ UNCHANGED <<windowVars, markVars, command, queued, calls, raceVars>>

HoldCall(cb) ==
    /\ cb.stage = "refused"
    /\ pendingCall' = [pendingCall EXCEPT ![cb.convo] = cb.call]
    /\ newest'      = [newest EXCEPT ![cb.convo] = cb.call]
    /\ callbacks'   = callbacks \ {cb}
    /\ UNCHANGED <<windowVars, active, sessionKey, markVars, command, queued, calls, raceVars>>

-----------------------------------------------------------------------------
(* Commands. *)

\* Mutant: the conversation that was in front keeps its focus.
focusConvo_KeepFocus(c) ==
    /\ selectedConvo' = c
    /\ focused' = focused \cup {c}
    /\ unread'  = unread \ {c}
    /\ unseen'  = {l \in unseen : l.window # c}

focusConvo(c) ==
    /\ selectedConvo' = c
    /\ focused' = (focused \ {selectedConvo}) \cup {c}
    /\ unread'  = unread \ {c}
    /\ unseen'  = {l \in unseen : l.window # c}

focusMain ==
    /\ selectedConvo' = 0
    /\ focused' = focused \ {selectedConvo}
    /\ UNCHANGED <<unread, unseen>>

commandFrame == UNCHANGED <<calls, callbacks>>

\* /w <username>
OpenWindow(p) ==
    /\ Ready
    /\ \E c \in Convos : getOrCreateConvo(p, c) /\ focusConvo(c)
    /\ UNCHANGED <<active, callVars, command, queued, raceVars>>
    /\ commandFrame

\* /w <number> and the Alt keys; out of range, nothing happens.
FocusWindow(i) ==
    /\ Ready
    /\ IF i = 0 THEN focusMain ELSE focusConvo(conversations[i])
    /\ UNCHANGED <<conversations, peerUsername, active, callVars, command, queued,
                   raceVars>>
    /\ commandFrame

\* /call [<username>]; without a name it calls the selected conversation's peer.
\* Nothing is queued if there is no slot, or if the peer is not a friend.
CallPeer(p) ==
    /\ Ready
    /\ \E c \in Convos : getOrCreateConvo(p, c) /\ focusConvo(c)
    /\ queued' \in {queued, IF Cardinality(active) = NumOutgoing THEN queued ELSE queued \cup {p}}
    /\ UNCHANGED <<active, callVars, command, raceVars>>
    /\ commandFrame

\* /hangup
Hangup ==
    /\ Ready /\ selectedConvo # 0
    /\ deactivateConvo(selectedConvo)
    /\ UNCHANGED <<windowVars, callVars, markVars, command, queued, raceVars>>
    /\ commandFrame

\* /answer reads the held call and lets go of the lock ...
Answer ==
    /\ Ready /\ selectedConvo # 0 /\ pendingCall[selectedConvo] # 0
    /\ command' = [name |-> "answer", convo |-> selectedConvo, call |-> pendingCall[selectedConvo]]
    /\ raced'   = raced \cup Overlapped(selectedConvo)
    /\ UNCHANGED <<windowVars, active, callVars, markVars, queued, closedUnder>>
    /\ commandFrame

\* ... and activates the conversation with it if there is a slot.
AnswerActivate ==
    /\ command.name = "answer"
    /\ command' = Idle
    /\ IF HasSlot
         THEN activateConvo(command.convo, command.call)
         ELSE UNCHANGED <<active, sessionKey, pendingCall>>
    /\ UNCHANGED <<windowVars, newest, markVars, queued, raceVars>>
    /\ commandFrame

\* /wc frees the slot ...
CloseWindow ==
    /\ Ready /\ selectedConvo # 0
    /\ command' = [name |-> "close", convo |-> selectedConvo, call |-> 0]
    /\ deactivateConvo(selectedConvo)
    /\ raced'       = raced \cup Overlapped(selectedConvo)
    /\ closedUnder' = closedUnder \cup ({selectedConvo} \cap {cb.convo : cb \in callbacks})
    /\ UNCHANGED <<windowVars, callVars, markVars, queued>>
    /\ commandFrame

\* Mutant: the closed window stays in front.
AfterClose_Stay == UNCHANGED <<selectedConvo, markVars>>

AfterClose == focusMain

\* ... takes the conversation off the list, and goes to the main window.
RemoveWindow ==
    /\ command.name = "close"
    /\ command' = Idle
    /\ \E i \in DOMAIN conversations :
         conversations[i] = command.convo /\ conversations' = RemoveAt(conversations, i)
    /\ AfterClose
    /\ UNCHANGED <<peerUsername, active, callVars, queued, raceVars>>
    /\ commandFrame

-----------------------------------------------------------------------------
\* The messages of a round: one for each active conversation, and dummies up
\* to NumOutgoing.
MessagesOut == IF Cardinality(active) < NumOutgoing THEN NumOutgoing ELSE Cardinality(active)

Next ==
    \/ \E p \in Peers : SendingCall(p) \/ ReceivedCall(p) \/ OpenWindow(p) \/ CallPeer(p)
    \/ \E cb \in callbacks : DropCall(cb) \/ PrintCall(cb) \/ MarkUnread(cb)
                             \/ TakeCall(cb) \/ HoldCall(cb)
    \/ \E i \in 0..Len(conversations) : FocusWindow(i)
    \/ Hangup \/ Answer \/ AnswerActivate \/ CloseWindow \/ RemoveWindow

Spec == Init /\ [][Next]_vars

-----------------------------------------------------------------------------
\* The variables have their types; at most one window per peer, so that a
\* call finds the window the user sees (getOrCreateConvo).
TypeOK ==
    /\ peerUsername \in Seq(Peers) /\ Len(peerUsername) <= MaxConvos
    /\ IsInjective(conversations) /\ Listed \subseteq Made
    /\ \A c, d \in Listed : peerUsername[c] = peerUsername[d] => c = d
    /\ active \subseteq Made /\ selectedConvo \in Made \cup {0}
    /\ pendingCall \in [Convos -> 0..calls] /\ sessionKey \in [Convos -> 0..calls]
    /\ \A cb \in callbacks : cb.convo \in Made /\ cb.call \in 1..calls
    /\ command.name \in {"none", "answer", "close"} /\ command.convo \in Made \cup {0}
    /\ queued \subseteq Peers /\ focused \cup unread \subseteq Made
    /\ unseen \subseteq [window : Made, via : Made]

\* Every round carries the same number of messages, however calls, answers
\* and hang-ups overlap: an observer cannot tell how many conversations a
\* client has (gui.go Outgoing and activateConvo).
UniformTraffic == MessagesOut = NumOutgoing

\* The selected conversation has a window: /wc finds it in the list (it would
\* index the list with -1 otherwise), also while callbacks add windows.
SelectedListed == selectedConvo = 0 \/ selectedConvo \in Listed

\* A window with a line its user has not seen is marked unread, or is about to
\* be, although focus may change between the printing and the marking.  The one
\* exception is the line itself of a callback whose conversation /wc closed under
\* it: it appears in the peer's new window, and the mark goes to the old
\* conversation (PrintfSync).
UnseenMarked ==
    \A l \in unseen : l.window \in Listed =>
        \/ l.window \in unread
        \/ \E cb \in callbacks : cb.convo = l.window /\ cb.stage = "marking"
        \/ l.via \in closedUnder \ Listed

\* An active conversation has a window in which the user can hang it up,
\* unless /wc closed it while a callback was at work on it, however callbacks
\* overlap with each other and with other commands: otherwise closing windows
\* would use up the slots.
ActiveListed == active \ Listed \subseteq closedUnder

\* The last call of a conversation is in use or held for /answer, unless it
\* overlapped with another callback or command for the same conversation: the
\* peer, who uses that call's wheel, can always be talked to.
NewestCallKept ==
    \A c \in Made \ raced : newest[c] # 0 => newest[c] \in {sessionKey[c], pendingCall[c]}

=============================================================================

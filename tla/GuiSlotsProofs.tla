--------------------------- MODULE GuiSlotsProofs ---------------------------
(***************************************************************************)
(* Proofs about GuiSlots, for every number of friends, slots, conversations *)
(* and calls.                                                               *)
(***************************************************************************)
EXTENDS GuiSlots, FiniteSetTheorems, TLAPS

-----------------------------------------------------------------------------
(* The inductive invariant. *)

Stages == {"found", "marking", "printed", "refused"}

\* What TypeOK leaves open.
Shape ==
    /\ conversations \in Seq(Convos)
    /\ callbacks \subseteq [convo : Convos, call : Nat, stage : Stages]
    /\ command \in [name : {"none", "answer", "close"}, convo : Nat, call : Nat]
    /\ command.call <= calls /\ calls \in Nat
    /\ newest \in [Convos -> Nat] /\ \A c \in Convos \ Made : newest[c] = 0
    /\ raced \subseteq Made /\ closedUnder \subseteq Made

\* The slots are never overbooked.
SlotsBounded == Cardinality(active) <= NumOutgoing

\* The mark of the window in front is the only focus mark, and its lines are
\* seen.
FocusExact == focused = {selectedConvo} \ {0} /\ \A l \in unseen : l.window # selectedConvo

\* A callback's conversation lost its window only if /wc closed it meanwhile.
CallbackListed == \A cb \in callbacks : cb.convo \in Listed \cup closedUnder

\* A command that is under way works on the window in front; while it does, no
\* callback does, or they have been noticed to overlap.
CommandOnSelected ==
    command.name # "none" =>
        /\ selectedConvo # 0 /\ command.convo = selectedConvo
        /\ \/ command.convo \in raced
           \/ \A cb \in callbacks : cb.convo # command.convo
        /\ \/ command.name # "close" \/ command.convo \in closedUnder
           \/ \A cb \in callbacks : cb.convo # command.convo

\* Until the window is off the list, its conversation is not activated again.
ClosingInactive ==
    command.name = "close" => command.convo \in closedUnder \/ command.convo \notin active

\* A call that is held, or being answered, is the conversation's last one.
HeldNewest == \A c \in Convos : pendingCall[c] # 0 => newest[c] = pendingCall[c]

AnsweringNewest ==
    command.name = "answer" => command.convo \in raced \/ newest[command.convo] = command.call

GuiInv ==
    /\ TypeOK /\ Shape /\ SlotsBounded /\ SelectedListed /\ FocusExact
    /\ CallbackListed /\ CommandOnSelected /\ ClosingInactive
    /\ HeldNewest /\ AnsweringNewest
    /\ UnseenMarked /\ ActiveListed /\ NewestCallKept

-----------------------------------------------------------------------------
(* The list of windows. *)

LEMMA ListedAppend ==
  ASSUME NEW S, NEW s \in Seq(S), NEW x \in S
  PROVE  ToSet(Append(s, x)) = ToSet(s) \cup {x}
  <1>1. DOMAIN Append(s, x) = DOMAIN s \cup {Len(s) + 1}
    OBVIOUS
  <1>2. \A i \in DOMAIN s : Append(s, x)[i] = s[i]
    OBVIOUS
  <1>3. Append(s, x)[Len(s) + 1] = x
    OBVIOUS
  <1> QED BY <1>1, <1>2, <1>3 DEF ToSet

\* Taking out the only occurrence of an element.
LEMMA ListedRemove ==
  ASSUME NEW S, NEW s \in Seq(S), IsInjective(s), NEW i \in DOMAIN s
  PROVE  /\ RemoveAt(s, i) \in Seq(S) /\ IsInjective(RemoveAt(s, i))
         /\ ToSet(RemoveAt(s, i)) = ToSet(s) \ {s[i]}
  <1> DEFINE t == RemoveAt(s, i)
             n == Len(s)
             u == SubSeq(s, 1, i - 1)
             v == SubSeq(s, i + 1, n)
  <1>1. n \in Nat /\ i \in 1..n /\ DOMAIN s = 1..n
    OBVIOUS
  <1>2. u \in Seq(S) /\ Len(u) = i - 1 /\ \A k \in 1..(i - 1) : u[k] = s[k]
    BY <1>1
  <1>3. v \in Seq(S) /\ Len(v) = n - i /\ \A k \in 1..(n - i) : v[k] = s[i + k]
    BY <1>1
  <1>4. t = u \o v
    BY DEF RemoveAt
  <1> HIDE DEF t, n, u, v
  <1>5. t \in Seq(S) /\ Len(t) = n - 1 /\ DOMAIN t = 1..(n - 1)
    <2>1. t \in Seq(S) /\ Len(t) = Len(u) + Len(v)
      BY <1>2, <1>3, <1>4
    <2>2. Len(t) = n - 1
      BY <1>1, <1>2, <1>3, <2>1
    <2> QED BY <2>1, <2>2
  <1>6. \A k \in 1..(n - 1) : t[k] = IF k < i THEN s[k] ELSE s[k + 1]
    <2> SUFFICES ASSUME NEW k \in 1..(n - 1)
                 PROVE  t[k] = IF k < i THEN s[k] ELSE s[k + 1]
      OBVIOUS
    <2>1. CASE k < i
      BY <1>1, <1>2, <1>3, <1>4, <2>1
    <2>2. CASE ~(k < i)
      <3>1. k - Len(u) \in 1..(n - i) /\ t[k] = v[k - Len(u)]
        BY <1>1, <1>2, <1>3, <1>4, <2>2
      <3>2. v[k - Len(u)] = s[i + (k - Len(u))] /\ i + (k - Len(u)) = k + 1
        BY <1>1, <1>2, <1>3, <3>1
      <3> QED BY <2>2, <3>1, <3>2
    <2> QED BY <2>1, <2>2
  <1>7. \A a, b \in 1..n : s[a] = s[b] => a = b
    BY <1>1 DEF IsInjective
  <1>8. IsInjective(t)
    BY <1>1, <1>5, <1>6, <1>7 DEF IsInjective
  <1>9. ASSUME NEW x \in ToSet(t) PROVE x \in ToSet(s) /\ x # s[i]
    <2>1. PICK k \in 1..(n - 1) : t[k] = x
      BY <1>5, <1>9 DEF ToSet
    <2>2. \E j \in 1..n : j # i /\ s[j] = x
      BY <1>1, <1>6, <2>1
    <2> QED BY <1>1, <1>7, <2>2 DEF ToSet
  <1>10. ASSUME NEW x \in ToSet(s), x # s[i] PROVE x \in ToSet(t)
    <2>1. PICK j \in 1..n : s[j] = x /\ j # i
      BY <1>1, <1>10 DEF ToSet
    <2>2. \E k \in 1..(n - 1) : t[k] = x
      <3>1. CASE j < i
        BY <1>1, <1>6, <2>1, <3>1
      <3>2. CASE j > i
        <4>1. j - 1 \in 1..(n - 1) /\ t[j - 1] = x
          BY <1>1, <1>6, <2>1, <3>2
        <4> QED BY <4>1
      <3> QED BY <1>1, <2>1, <3>1, <3>2
    <2> QED BY <1>5, <2>2 DEF ToSet
  <1>11. ToSet(t) = ToSet(s) \ {s[i]}
    BY <1>9, <1>10
  <1> QED BY <1>5, <1>8, <1>11 DEF t

\* getOrCreateConvo keeps one window per peer and makes at most one more.
LEMMA GetOrCreate ==
  ASSUME TypeOK, Shape, NEW p \in Peers, NEW c \in Convos, getOrCreateConvo(p, c)
  PROVE  /\ peerUsername' \in Seq(Peers) /\ Len(peerUsername') <= MaxConvos
         /\ conversations' \in Seq(Convos) /\ IsInjective(conversations')
         /\ Listed' = Listed \cup {c} /\ c \in Made' /\ Made \subseteq Made'
         /\ \A d \in Made : peerUsername'[d] = peerUsername[d]
         /\ c \notin Listed => c \notin Made
         /\ \A d, e \in Listed' : peerUsername'[d] = peerUsername'[e] => d = e
         /\ Listed' \subseteq Made'
  <1>1. CASE c \in Made /\ Found(p, c) /\ UNCHANGED <<conversations, peerUsername>>
    BY <1>1 DEF TypeOK, Shape, Found, Listed, Made
  <1>2. CASE /\ \A d \in Made : ~Found(p, d)
             /\ c = Len(peerUsername) + 1
             /\ peerUsername'  = Append(peerUsername, p)
             /\ conversations' = Append(conversations, c)
    <2>1. peerUsername' \in Seq(Peers) /\ Len(peerUsername') = c /\ Len(peerUsername) \in Nat
      BY <1>2 DEF TypeOK
    <2>2. Made' = Made \cup {c} /\ c \notin Made
      BY <1>2, <2>1 DEF Made
    <2>3. Listed' = Listed \cup {c}
      BY <1>2, ListedAppend DEF Shape, Listed
    <2>4. conversations' \in Seq(Convos)
      BY <1>2 DEF Shape
    <2>5. IsInjective(conversations')
      <3>1. \A i \in DOMAIN conversations : conversations[i] # c
        BY <2>2 DEF TypeOK, Listed, ToSet
      <3> QED BY <1>2, <3>1 DEF TypeOK, Shape, IsInjective
    <2>6. peerUsername'[c] = p /\ \A d \in Made : peerUsername'[d] = peerUsername[d]
      BY <1>2 DEF TypeOK, Made
    <2>7. \A d \in Listed : d \in Made /\ peerUsername[d] # p
      BY <1>2 DEF TypeOK, Found
    <2>8. \A d, e \in Listed' : peerUsername'[d] = peerUsername'[e] => d = e
      BY <2>3, <2>6, <2>7 DEF TypeOK
    <2>9. Len(peerUsername') <= MaxConvos
      BY <2>1, BoundsAssumption DEF Convos
    <2> QED BY <2>1, <2>2, <2>3, <2>4, <2>5, <2>6, <2>7, <2>8, <2>9
  <1> QED BY <1>1, <1>2 DEF getOrCreateConvo

LEMMA MadeConvos == TypeOK => Made \subseteq Convos
  BY BoundsAssumption DEF TypeOK, Made, Convos

-----------------------------------------------------------------------------
(* The slots. *)

LEMMA ActiveFinite == TypeOK => IsFiniteSet(active) /\ Cardinality(active) \in Nat
  <1> SUFFICES ASSUME TypeOK PROVE IsFiniteSet(active)
    BY FS_CardinalityType
  <1>1. IsFiniteSet(Made)
    BY FS_Interval DEF TypeOK, Made
  <1> QED BY <1>1, FS_Subset DEF TypeOK

LEMMA SlotTaken ==
  ASSUME TypeOK, HasSlot, NEW c, active' = active \cup {c}
  PROVE  SlotsBounded'
  <1>1. Cardinality(active') <= Cardinality(active) + 1
    BY ActiveFinite, FS_AddElement
  <1>2. Cardinality(active') \in Nat
    BY ActiveFinite, FS_AddElement, FS_CardinalityType
  <1> QED BY <1>1, <1>2, ActiveFinite, BoundsAssumption DEF HasSlot, SlotsBounded

LEMMA SlotFreed ==
  ASSUME TypeOK, SlotsBounded, NEW c, active' = active \ {c}
  PROVE  SlotsBounded'
  <1>1. Cardinality(active') <= Cardinality(active) /\ Cardinality(active') \in Nat
    BY ActiveFinite, FS_Subset, FS_CardinalityType
  <1> QED BY <1>1, ActiveFinite, BoundsAssumption DEF SlotsBounded

-----------------------------------------------------------------------------
(* Callbacks. *)

LEMMA StartCallbackInv ==
  ASSUME GuiInv, NEW p \in Peers, StartCallback(p), queued' \subseteq queued
  PROVE  GuiInv'
  <1> USE DEF GuiInv, windowVars, callVars, markVars, raceVars
  <1>1. PICK c \in Convos :
          /\ getOrCreateConvo(p, c)
          /\ callbacks' = callbacks \cup {[convo |-> c, call |-> calls + 1, stage |-> "found"]}
          /\ raced' = raced \cup Overlapped(c)
          /\ closedUnder' = closedUnder \cup ({c} \cap Closing)
    BY DEF StartCallback
  <1> DEFINE new == [convo |-> c, call |-> calls + 1, stage |-> "found"]
  <1>2. UNCHANGED <<selectedConvo, active, pendingCall, sessionKey, newest, focused, unread, unseen, command>>
        /\ calls' = calls + 1
    BY DEF StartCallback
  <1>3. /\ peerUsername' \in Seq(Peers) /\ Len(peerUsername') <= MaxConvos
        /\ conversations' \in Seq(Convos) /\ IsInjective(conversations')
        /\ Listed' = Listed \cup {c} /\ c \in Made' /\ Made \subseteq Made'
        /\ \A d \in Made : peerUsername'[d] = peerUsername[d]
        /\ c \notin Listed => c \notin Made
        /\ \A d, e \in Listed' : peerUsername'[d] = peerUsername'[e] => d = e
        /\ Listed' \subseteq Made'
    BY <1>1, GetOrCreate
  <1>4. /\ raced \subseteq raced' /\ raced' \subseteq Made'
        /\ closedUnder \subseteq closedUnder' /\ closedUnder' \subseteq Made'
    BY <1>1, <1>3 DEF Overlapped, Shape
  <1>5. calls \in Nat /\ new.convo = c /\ new.call = calls + 1 /\ new.stage = "found"
        /\ callbacks' = callbacks \cup {new}
    BY <1>1 DEF Shape
  <1> HIDE DEF new
  <1>6. TypeOK'
    <2>1. pendingCall' \in [Convos -> 0..calls'] /\ sessionKey' \in [Convos -> 0..calls']
      BY <1>2, <1>5 DEF TypeOK
    <2>2. \A cb \in callbacks' : cb.convo \in Made' /\ cb.call \in 1..calls'
      BY <1>2, <1>3, <1>5 DEF TypeOK
    <2> QED BY <1>2, <1>3, <2>1, <2>2 DEF TypeOK
  <1>7. Shape'
    <2>1. callbacks' \subseteq [convo : Convos, call : Nat, stage : Stages]
      BY <1>5 DEF Shape, Stages, new
    <2>2. command' \in [name : {"none", "answer", "close"}, convo : Nat, call : Nat]
          /\ command'.call <= calls' /\ calls' \in Nat
      BY <1>2 DEF Shape
    <2> QED BY <1>2, <1>3, <1>4, <2>1, <2>2 DEF Shape
  <1>8. (SlotsBounded /\ SelectedListed /\ FocusExact /\ HeldNewest)'
    BY <1>2, <1>3 DEF SlotsBounded, SelectedListed, FocusExact, HeldNewest
  <1>9. CallbackListed'
    BY <1>3, <1>4, <1>5 DEF CallbackListed
  <1>10. CommandOnSelected'
    BY <1>1, <1>2, <1>4, <1>5 DEF CommandOnSelected, Overlapped, Closing
  <1>11. (ClosingInactive /\ ActiveListed /\ AnsweringNewest)'
    BY <1>2, <1>3, <1>4 DEF ClosingInactive, ActiveListed, AnsweringNewest
  <1>12. NewestCallKept'
    <2>1. Made' \subseteq Convos
      BY <1>3, BoundsAssumption DEF Made, Convos
    <2> SUFFICES ASSUME NEW x \in Made', x \notin raced', newest[x] # 0
                 PROVE  newest[x] \in {sessionKey[x], pendingCall[x]}
      BY <1>2 DEF NewestCallKept
    <2>2. x \in Made
      BY <2>1 DEF Shape
    <2> QED BY <1>4, <2>2 DEF NewestCallKept
  <1>13. UnseenMarked'
    <2> SUFFICES ASSUME NEW l \in unseen, l.window \in Listed'
                 PROVE  \/ l.window \in unread
                        \/ \E cb \in callbacks' : cb.convo = l.window /\ cb.stage = "marking"
                        \/ l.via \in closedUnder' \ Listed'
      BY <1>2 DEF UnseenMarked
    <2>1. l.window \in Made /\ l.via \in Made
      BY DEF TypeOK
    <2>2. l.window \in Listed
      BY <1>3, <2>1
    <2>3. \/ l.window \in unread
          \/ \E cb \in callbacks : cb.convo = l.window /\ cb.stage = "marking"
          \/ l.via \in closedUnder \ Listed
      BY <2>2 DEF UnseenMarked
    <2> QED BY <1>3, <1>4, <1>5, <2>1, <2>3
  <1> QED BY <1>6, <1>7, <1>8, <1>9, <1>10, <1>11, <1>12, <1>13

\* A callback goes on to its next stage.
LEMMA NextStage ==
  ASSUME Shape, NEW cb \in callbacks, NEW stage \in Stages, Becomes(cb, stage)
  PROVE  \E new \in [convo : Convos, call : Nat, stage : Stages] :
            /\ new.convo = cb.convo /\ new.call = cb.call /\ new.stage = stage
            /\ callbacks' = (callbacks \ {cb}) \cup {new}
  <1> DEFINE new == [cb EXCEPT !.stage = stage]
  <1>1. new \in [convo : Convos, call : Nat, stage : Stages]
        /\ new.convo = cb.convo /\ new.call = cb.call /\ new.stage = stage
    BY DEF Shape
  <1>2. callbacks' = (callbacks \ {cb}) \cup {new}
    BY DEF Becomes
  <1> QED BY <1>1, <1>2

LEMMA DropCallInv ==
  ASSUME GuiInv, NEW cb \in callbacks, DropCall(cb)
  PROVE  GuiInv'
  <1> USE DEF GuiInv, windowVars, callVars, markVars, raceVars
  <1>1. callbacks' = callbacks \ {cb} /\ cb.stage # "marking"
    BY DEF DropCall
  <1>2. UNCHANGED <<conversations, peerUsername, selectedConvo, active, pendingCall, sessionKey, newest,
                    focused, unread, unseen, command, queued, calls, raced, closedUnder>>
    BY DEF DropCall
  <1>3. Listed' = Listed /\ Made' = Made
    BY <1>2 DEF Listed, Made
  <1>4. TypeOK' /\ Shape'
    BY <1>1, <1>2, <1>3 DEF TypeOK, Shape
  <1>5. (SlotsBounded /\ SelectedListed /\ FocusExact /\ HeldNewest /\ CallbackListed
         /\ CommandOnSelected /\ ClosingInactive /\ ActiveListed /\ AnsweringNewest /\ NewestCallKept)'
    BY <1>1, <1>2, <1>3 DEF SlotsBounded, SelectedListed, FocusExact, HeldNewest, CallbackListed,
       CommandOnSelected, ClosingInactive, ActiveListed, AnsweringNewest, NewestCallKept
  <1>6. UnseenMarked'
    BY <1>1, <1>2, <1>3 DEF UnseenMarked
  <1> QED BY <1>4, <1>5, <1>6

LEMMA PrintCallInv ==
  ASSUME GuiInv, NEW cb \in callbacks, PrintCall(cb)
  PROVE  GuiInv'
  <1> USE DEF GuiInv, windowVars, callVars, markVars, raceVars
  <1>1. PICK new \in [convo : Convos, call : Nat, stage : Stages] :
            /\ new.convo = cb.convo /\ new.call = cb.call /\ new.stage = "marking"
            /\ callbacks' = (callbacks \ {cb}) \cup {new}
    BY NextStage DEF PrintCall, Stages
  <1>2. UNCHANGED <<conversations, peerUsername, selectedConvo, active, pendingCall, sessionKey, newest,
                    focused, unread, command, queued, calls, raced, closedUnder>>
        /\ unseen' = unseen \cup [window : Shown(cb.convo) \ {selectedConvo}, via : {cb.convo}]
        /\ cb.stage # "marking"
    BY DEF PrintCall
  <1>3. Listed' = Listed /\ Made' = Made /\ Shown(cb.convo) \subseteq Listed
        /\ \A d \in Shown(cb.convo) : peerUsername[d] = peerUsername[cb.convo]
    BY <1>2 DEF Listed, Made, Shown
  <1>4. \A l \in unseen' \ unseen :
          l.window \in Shown(cb.convo) /\ l.window # selectedConvo /\ l.via = cb.convo
    BY <1>2
  <1>5. TypeOK' /\ Shape'
    <2>1. cb.convo \in Made /\ Shown(cb.convo) \subseteq Made
      BY <1>3 DEF TypeOK
    <2>2. unseen' \subseteq [window : Made, via : Made]
      BY <1>2, <2>1 DEF TypeOK
    <2> QED BY <1>1, <1>2, <1>3, <2>2 DEF TypeOK, Shape
  <1>6. (SlotsBounded /\ SelectedListed /\ FocusExact /\ HeldNewest /\ CallbackListed
         /\ CommandOnSelected /\ ClosingInactive /\ ActiveListed /\ AnsweringNewest /\ NewestCallKept)'
    BY <1>1, <1>2, <1>3, <1>4 DEF SlotsBounded, SelectedListed, FocusExact, HeldNewest, CallbackListed,
       CommandOnSelected, ClosingInactive, ActiveListed, AnsweringNewest, NewestCallKept
  <1>7. UnseenMarked'
    <2> SUFFICES ASSUME NEW l \in unseen', l.window \in Listed
                 PROVE  \/ l.window \in unread
                        \/ \E y \in callbacks' : y.convo = l.window /\ y.stage = "marking"
                        \/ l.via \in closedUnder \ Listed
      BY <1>2, <1>3 DEF UnseenMarked
    <2>1. CASE l \in unseen
      BY <1>1, <1>2, <2>1 DEF UnseenMarked
    <2>2. CASE l \notin unseen
      <3>1. l.window \in Shown(cb.convo) /\ l.via = cb.convo
        BY <1>4, <2>2
      <3>2. CASE l.window = cb.convo
        BY <1>1, <3>2
      <3>3. CASE l.window # cb.convo
        \* The window is a new one: the callback's own was closed under it.
        <4>1. cb.convo \notin Listed
          BY <1>3, <3>1, <3>3 DEF TypeOK
        <4> QED BY <3>1, <4>1 DEF CallbackListed
      <3> QED BY <3>2, <3>3
    <2> QED BY <2>1, <2>2
  <1> QED BY <1>5, <1>6, <1>7

LEMMA MarkUnreadInv ==
  ASSUME GuiInv, NEW cb \in callbacks, MarkUnread(cb)
  PROVE  GuiInv'
  <1> USE DEF GuiInv, windowVars, callVars, markVars, raceVars
  <1>1. PICK new \in [convo : Convos, call : Nat, stage : Stages] :
            /\ new.convo = cb.convo /\ new.call = cb.call
            /\ callbacks' = (callbacks \ {cb}) \cup {new}
    BY NextStage DEF MarkUnread, Stages
  <1>2. UNCHANGED <<conversations, peerUsername, selectedConvo, active, pendingCall, sessionKey, newest,
                    focused, unseen, command, queued, calls, raced, closedUnder>>
        /\ unread' = IF cb.convo \in focused THEN unread ELSE unread \cup {cb.convo}
    BY DEF MarkUnread
  <1>3. Listed' = Listed /\ Made' = Made
    BY <1>2 DEF Listed, Made
  <1>4. TypeOK' /\ Shape'
    BY <1>1, <1>2, <1>3 DEF TypeOK, Shape
  <1>5. (SlotsBounded /\ SelectedListed /\ FocusExact /\ HeldNewest /\ CallbackListed
         /\ CommandOnSelected /\ ClosingInactive /\ ActiveListed /\ AnsweringNewest /\ NewestCallKept)'
    BY <1>1, <1>2, <1>3 DEF SlotsBounded, SelectedListed, FocusExact, HeldNewest, CallbackListed,
       CommandOnSelected, ClosingInactive, ActiveListed, AnsweringNewest, NewestCallKept
  <1>6. UnseenMarked'
    BY <1>1, <1>2, <1>3 DEF UnseenMarked, FocusExact
  <1> QED BY <1>4, <1>5, <1>6

LEMMA TakeCallInv ==
  ASSUME GuiInv, NEW cb \in callbacks, TakeCall(cb)
  PROVE  GuiInv'
  <1> USE DEF GuiInv, windowVars, callVars, markVars, raceVars
  <1> DEFINE c == cb.convo
  <1>0. c \in Made /\ c \in Convos /\ cb.call \in 1..calls /\ cb.call # 0 /\ cb.stage # "marking"
    BY DEF TypeOK, Shape, TakeCall
  <1>1. UNCHANGED <<conversations, peerUsername, selectedConvo, focused, unread, unseen, command,
                    queued, calls, raced, closedUnder>>
    BY DEF TakeCall
  <1>2. Listed' = Listed /\ Made' = Made
    BY <1>1 DEF Listed, Made
  <1>3. CASE HasSlot
    <2>1. /\ active' = active \cup {c} /\ callbacks' = callbacks \ {cb}
          /\ sessionKey' = [sessionKey EXCEPT ![c] = cb.call]
          /\ pendingCall' = [pendingCall EXCEPT ![c] = 0]
          /\ newest' = [newest EXCEPT ![c] = cb.call]
      BY <1>3 DEF TakeCall, activateConvo
    <2>2. TypeOK' /\ Shape'
      BY <1>0, <1>1, <1>2, <2>1 DEF TypeOK, Shape
    <2>3. SlotsBounded'
      BY <1>3, <2>1, SlotTaken
    <2>4. (SelectedListed /\ FocusExact /\ CallbackListed /\ CommandOnSelected /\ ClosingInactive
           /\ ActiveListed)'
      BY <1>1, <1>2, <2>1 DEF SelectedListed, FocusExact, CallbackListed, CommandOnSelected,
         ClosingInactive, ActiveListed
    <2>5. (HeldNewest /\ NewestCallKept)'
      BY <1>0, <1>1, <1>2, <2>1, MadeConvos DEF HeldNewest, NewestCallKept, TypeOK, Shape
    <2>6. AnsweringNewest'
      BY <1>0, <1>1, <2>1 DEF AnsweringNewest, CommandOnSelected, Shape
    <2>7. UnseenMarked'
      BY <1>0, <1>1, <1>2, <2>1 DEF UnseenMarked
    <2> QED BY <2>2, <2>3, <2>4, <2>5, <2>6, <2>7
  <1>4. CASE ~HasSlot
    <2>1. PICK new \in [convo : Convos, call : Nat, stage : Stages] :
            /\ new.convo = cb.convo /\ new.call = cb.call
            /\ callbacks' = (callbacks \ {cb}) \cup {new}
      BY <1>4, NextStage DEF TakeCall, Stages
    <2>2. UNCHANGED <<active, pendingCall, sessionKey, newest>>
      BY <1>4 DEF TakeCall
    <2>3. TypeOK' /\ Shape'
      BY <1>0, <1>1, <1>2, <2>1, <2>2 DEF TypeOK, Shape
    <2>4. (SlotsBounded /\ SelectedListed /\ FocusExact /\ HeldNewest /\ CallbackListed
           /\ CommandOnSelected /\ ClosingInactive /\ ActiveListed /\ AnsweringNewest /\ NewestCallKept)'
      BY <1>1, <1>2, <2>1, <2>2 DEF SlotsBounded, SelectedListed, FocusExact, HeldNewest, CallbackListed,
         CommandOnSelected, ClosingInactive, ActiveListed, AnsweringNewest, NewestCallKept
    <2>5. UnseenMarked'
      BY <1>0, <1>1, <1>2, <2>1 DEF UnseenMarked
    <2> QED BY <2>3, <2>4, <2>5
  <1> QED BY <1>3, <1>4

LEMMA HoldCallInv ==
  ASSUME GuiInv, NEW cb \in callbacks, HoldCall(cb)
  PROVE  GuiInv'
  <1> USE DEF GuiInv, windowVars, callVars, markVars, raceVars
  <1> DEFINE c == cb.convo
  <1>0. c \in Made /\ c \in Convos /\ cb.call \in 1..calls /\ cb.call # 0 /\ cb.stage # "marking"
    BY DEF TypeOK, Shape, HoldCall
  <1>1. UNCHANGED <<conversations, peerUsername, selectedConvo, active, sessionKey, focused, unread, unseen,
                    command, queued, calls, raced, closedUnder>>
    BY DEF HoldCall
  <1>2. Listed' = Listed /\ Made' = Made
    BY <1>1 DEF Listed, Made
  <1>3. /\ callbacks' = callbacks \ {cb}
        /\ pendingCall' = [pendingCall EXCEPT ![c] = cb.call]
        /\ newest' = [newest EXCEPT ![c] = cb.call]
    BY DEF HoldCall
  <1>4. TypeOK' /\ Shape'
    BY <1>0, <1>1, <1>2, <1>3 DEF TypeOK, Shape
  <1>5. (SlotsBounded /\ SelectedListed /\ FocusExact /\ CallbackListed /\ CommandOnSelected
         /\ ClosingInactive /\ ActiveListed)'
    BY <1>1, <1>2, <1>3 DEF SlotsBounded, SelectedListed, FocusExact, CallbackListed, CommandOnSelected,
       ClosingInactive, ActiveListed
  <1>6. (HeldNewest /\ NewestCallKept)'
    BY <1>0, <1>1, <1>2, <1>3, MadeConvos DEF HeldNewest, NewestCallKept, TypeOK, Shape
  <1>7. AnsweringNewest'
    BY <1>0, <1>1, <1>3 DEF AnsweringNewest, CommandOnSelected, Shape
  <1>8. UnseenMarked'
    BY <1>0, <1>1, <1>2, <1>3 DEF UnseenMarked
  <1> QED BY <1>4, <1>5, <1>6, <1>7, <1>8

-----------------------------------------------------------------------------
(* Commands. *)

\* /w <username> and /call: the window is opened or found, and comes to the
\* front.
LEMMA OpenInv ==
  ASSUME GuiInv, Ready, NEW p \in Peers, NEW c \in Convos, getOrCreateConvo(p, c), focusConvo(c),
         UNCHANGED <<active, callVars, command, raceVars, calls, callbacks>>, queued' \subseteq queued \cup {p}
  PROVE  GuiInv'
  <1> USE DEF GuiInv, callVars, raceVars
  <1>1. UNCHANGED <<active, pendingCall, sessionKey, newest, command, raced, closedUnder, calls, callbacks>>
    OBVIOUS
  <1>2. /\ peerUsername' \in Seq(Peers) /\ Len(peerUsername') <= MaxConvos
        /\ conversations' \in Seq(Convos) /\ IsInjective(conversations')
        /\ Listed' = Listed \cup {c} /\ c \in Made' /\ Made \subseteq Made'
        /\ \A d \in Made : peerUsername'[d] = peerUsername[d]
        /\ c \notin Listed => c \notin Made
        /\ \A d, e \in Listed' : peerUsername'[d] = peerUsername'[e] => d = e
        /\ Listed' \subseteq Made'
    BY GetOrCreate
  <1>3. /\ selectedConvo' = c /\ focused' = (focused \ {selectedConvo}) \cup {c}
        /\ unread' = unread \ {c} /\ unseen' = {l \in unseen : l.window # c}
    BY DEF focusConvo
  <1>4. TypeOK'
    BY <1>1, <1>2, <1>3 DEF TypeOK
  <1>5. Shape'
    BY <1>1, <1>2 DEF Shape
  <1>6. (SlotsBounded /\ SelectedListed /\ HeldNewest /\ CallbackListed /\ ClosingInactive
         /\ ActiveListed /\ AnsweringNewest)'
    BY <1>1, <1>2, <1>3 DEF SlotsBounded, SelectedListed, HeldNewest, CallbackListed, ClosingInactive,
       ActiveListed, AnsweringNewest
  <1>7. CommandOnSelected'
    BY <1>1 DEF CommandOnSelected, Ready, Idle
  <1>8. FocusExact'
    <2>1. c # 0
      BY DEF Convos
    <2> QED BY <1>3, <2>1 DEF FocusExact
  <1>9. NewestCallKept'
    <2>1. Made' \subseteq Convos
      BY <1>2, BoundsAssumption DEF Made, Convos
    <2> SUFFICES ASSUME NEW x \in Made', x \notin raced, newest[x] # 0
                 PROVE  newest[x] \in {sessionKey[x], pendingCall[x]}
      BY <1>1 DEF NewestCallKept
    <2>2. x \in Made
      BY <2>1 DEF Shape
    <2> QED BY <2>2 DEF NewestCallKept
  <1>10. UnseenMarked'
    <2> SUFFICES ASSUME NEW l \in unseen, l.window # c, l.window \in Listed'
                 PROVE  \/ l.window \in unread'
                        \/ \E cb \in callbacks : cb.convo = l.window /\ cb.stage = "marking"
                        \/ l.via \in closedUnder \ Listed'
      BY <1>1, <1>3 DEF UnseenMarked
    <2>1. l.window \in Listed /\ l.via \in Made
      BY <1>2 DEF TypeOK
    <2>2. \/ l.window \in unread
          \/ \E cb \in callbacks : cb.convo = l.window /\ cb.stage = "marking"
          \/ l.via \in closedUnder \ Listed
      BY <2>1 DEF UnseenMarked
    <2> QED BY <1>2, <1>3, <2>1, <2>2
  <1> QED BY <1>4, <1>5, <1>6, <1>7, <1>8, <1>9, <1>10

LEMMA FocusWindowInv ==
  ASSUME GuiInv, NEW i \in 0..Len(conversations), FocusWindow(i)
  PROVE  GuiInv'
  <1> USE DEF GuiInv, callVars, raceVars, commandFrame
  <1>1. UNCHANGED <<conversations, peerUsername, active, pendingCall, sessionKey, newest, command, queued,
                    raced, closedUnder, calls, callbacks>>
    BY DEF FocusWindow
  <1>2. Listed' = Listed /\ Made' = Made
    BY <1>1 DEF Listed, Made
  <1>3. \/ /\ selectedConvo' = 0 /\ focused' = focused \ {selectedConvo}
           /\ unread' = unread /\ unseen' = unseen
        \/ \E c \in Listed : /\ selectedConvo' = c /\ focused' = (focused \ {selectedConvo}) \cup {c}
                             /\ unread' = unread \ {c} /\ unseen' = {l \in unseen : l.window # c}
    <2>1. CASE i = 0
      BY <2>1 DEF FocusWindow, focusMain
    <2>2. CASE i # 0
      <3>1. i \in DOMAIN conversations
        BY <2>2 DEF Shape
      <3>2. conversations[i] \in Listed
        BY <3>1 DEF Listed, ToSet
      <3> QED BY <2>2, <3>2 DEF FocusWindow, focusConvo
    <2> QED BY <2>1, <2>2
  <1>4. Listed \subseteq Made /\ 0 \notin Made
    BY DEF TypeOK, Made
  <1>5. TypeOK'
    BY <1>1, <1>2, <1>3, <1>4 DEF TypeOK
  <1>6. Shape'
    BY <1>1, <1>2 DEF Shape
  <1>7. (SlotsBounded /\ HeldNewest /\ CallbackListed /\ ClosingInactive /\ ActiveListed
         /\ AnsweringNewest /\ NewestCallKept)'
    BY <1>1, <1>2 DEF SlotsBounded, HeldNewest, CallbackListed, ClosingInactive, ActiveListed,
       AnsweringNewest, NewestCallKept
  <1>8. (SelectedListed /\ FocusExact)'
    BY <1>2, <1>3, <1>4 DEF SelectedListed, FocusExact, TypeOK
  <1>9. CommandOnSelected'
    BY <1>1 DEF CommandOnSelected, FocusWindow, Ready, Idle
  <1>10. UnseenMarked'
    BY <1>1, <1>2, <1>3 DEF UnseenMarked
  <1> QED BY <1>5, <1>6, <1>7, <1>8, <1>9, <1>10

LEMMA HangupInv ==
  ASSUME GuiInv, Hangup
  PROVE  GuiInv'
  <1> USE DEF GuiInv, windowVars, callVars, markVars, raceVars, commandFrame
  <1>1. active' = active \ {selectedConvo}
        /\ UNCHANGED <<conversations, peerUsername, selectedConvo, pendingCall, sessionKey, newest,
                       focused, unread, unseen, command, queued, raced, closedUnder, calls, callbacks>>
    BY DEF Hangup, deactivateConvo
  <1>2. Listed' = Listed /\ Made' = Made
    BY <1>1 DEF Listed, Made
  <1>3. SlotsBounded'
    BY <1>1, SlotFreed
  <1>4. TypeOK' /\ Shape'
    BY <1>1, <1>2 DEF TypeOK, Shape
  <1>5. (SelectedListed /\ FocusExact /\ HeldNewest /\ CallbackListed /\ CommandOnSelected
         /\ ClosingInactive /\ ActiveListed /\ AnsweringNewest /\ NewestCallKept /\ UnseenMarked)'
    BY <1>1, <1>2 DEF SelectedListed, FocusExact, HeldNewest, CallbackListed, CommandOnSelected,
       ClosingInactive, ActiveListed, AnsweringNewest, NewestCallKept, UnseenMarked
  <1> QED BY <1>3, <1>4, <1>5

\* /answer and /wc begin: they read the selected conversation.
LEMMA BeginInv ==
  ASSUME GuiInv, Ready, selectedConvo # 0, NEW n \in {"answer", "close"}, NEW call \in Nat,
         n = "answer" => call = pendingCall[selectedConvo] /\ call # 0,
         n = "close" => call = 0 /\ selectedConvo \notin active',
         command' = [name |-> n, convo |-> selectedConvo, call |-> call],
         raced' = raced \cup Overlapped(selectedConvo),
         closedUnder' = IF n = "close" THEN closedUnder \cup ({selectedConvo} \cap {cb.convo : cb \in callbacks})
                                       ELSE closedUnder,
         active' \in {active, active \ {selectedConvo}},
         UNCHANGED <<windowVars, callVars, markVars, queued, calls, callbacks>>
  PROVE  GuiInv'
  <1> USE DEF GuiInv, windowVars, callVars, markVars, raceVars
  <1>1. Listed' = Listed /\ Made' = Made
        /\ UNCHANGED <<conversations, peerUsername, selectedConvo, pendingCall, sessionKey, newest,
                       focused, unread, unseen, queued, calls, callbacks>>
    BY DEF Listed, Made
  <1>2. selectedConvo \in Made /\ selectedConvo \in Convos /\ selectedConvo \in Nat
    <2>1. selectedConvo \in Made
      BY DEF TypeOK
    <2> QED BY <2>1, MadeConvos DEF Made
  <1>3. /\ raced \subseteq raced' /\ raced' \subseteq Made
        /\ closedUnder \subseteq closedUnder' /\ closedUnder' \subseteq Made
        /\ (selectedConvo \notin raced' => \A cb \in callbacks : cb.convo # selectedConvo)
        /\ n = "close" /\ selectedConvo \notin closedUnder' => \A cb \in callbacks : cb.convo # selectedConvo
    BY <1>2 DEF Overlapped, Shape
  <1>4. /\ command'.name = n /\ command'.convo = selectedConvo /\ command'.call = call /\ call <= calls
        /\ command' \in [name : {"none", "answer", "close"}, convo : Nat, call : Nat]
    BY <1>2 DEF TypeOK, Shape
  <1>5. TypeOK'
    BY <1>1, <1>2, <1>4 DEF TypeOK
  <1>6. Shape'
    BY <1>1, <1>3, <1>4 DEF Shape
  <1>7. SlotsBounded'
    BY SlotFreed DEF SlotsBounded
  <1>8. (SelectedListed /\ FocusExact /\ HeldNewest /\ CallbackListed /\ ActiveListed /\ NewestCallKept)'
    BY <1>1, <1>3 DEF SelectedListed, FocusExact, HeldNewest, CallbackListed, ActiveListed, NewestCallKept
  <1>9. (CommandOnSelected /\ ClosingInactive)'
    BY <1>1, <1>3, <1>4 DEF CommandOnSelected, ClosingInactive
  <1>10. AnsweringNewest'
    BY <1>1, <1>2, <1>4 DEF AnsweringNewest, HeldNewest
  <1>11. UnseenMarked'
    BY <1>1, <1>3 DEF UnseenMarked
  <1> QED BY <1>5, <1>6, <1>7, <1>8, <1>9, <1>10, <1>11

LEMMA AnswerActivateInv ==
  ASSUME GuiInv, AnswerActivate
  PROVE  GuiInv'
  <1> USE DEF GuiInv, windowVars, callVars, markVars, raceVars, commandFrame
  <1> DEFINE c == command.convo
  <1>1. c = selectedConvo /\ c \in Listed /\ c \in Made /\ c \in Convos /\ command.call \in 0..calls
    BY MadeConvos DEF CommandOnSelected, SelectedListed, TypeOK, Shape, AnswerActivate
  <1>2. UNCHANGED <<conversations, peerUsername, selectedConvo, newest, focused, unread, unseen, queued,
                    raced, closedUnder, calls, callbacks>>
        /\ command' = Idle
    BY DEF AnswerActivate
  <1>3. Listed' = Listed /\ Made' = Made
    BY <1>2 DEF Listed, Made
  <1>4. \/ UNCHANGED <<active, sessionKey, pendingCall>>
        \/ /\ HasSlot /\ active' = active \cup {c}
           /\ sessionKey' = [sessionKey EXCEPT ![c] = command.call]
           /\ pendingCall' = [pendingCall EXCEPT ![c] = 0]
    BY DEF AnswerActivate, activateConvo
  <1>5. TypeOK'
    <2>1. active' \subseteq Made
      BY <1>1, <1>4 DEF TypeOK
    <2>2. pendingCall' \in [Convos -> 0..calls] /\ sessionKey' \in [Convos -> 0..calls]
      <3>1. pendingCall \in [Convos -> 0..calls] /\ sessionKey \in [Convos -> 0..calls] /\ calls \in Nat
        BY DEF TypeOK, Shape
      <3>2. 0 \in 0..calls
        BY <3>1
      <3> QED BY <1>1, <1>4, <3>1, <3>2
    <2> QED BY <1>2, <1>3, <2>1, <2>2 DEF TypeOK, Idle
  <1>6. Shape'
    BY <1>2, <1>3 DEF Shape, Idle
  <1>7. SlotsBounded'
    BY <1>4, SlotTaken DEF SlotsBounded
  <1>8. (SelectedListed /\ FocusExact /\ CallbackListed /\ CommandOnSelected /\ ClosingInactive
         /\ AnsweringNewest /\ UnseenMarked)'
    BY <1>2, <1>3 DEF SelectedListed, FocusExact, CallbackListed, CommandOnSelected, ClosingInactive,
       AnsweringNewest, UnseenMarked, Idle
  <1>9. (HeldNewest /\ ActiveListed)'
    BY <1>1, <1>2, <1>3, <1>4 DEF HeldNewest, ActiveListed, TypeOK
  <1>10. NewestCallKept'
    BY <1>1, <1>2, <1>3, <1>4, MadeConvos DEF NewestCallKept, AnsweringNewest, TypeOK, AnswerActivate
  <1> QED BY <1>5, <1>6, <1>7, <1>8, <1>9, <1>10

LEMMA RemoveWindowInv ==
  ASSUME GuiInv, RemoveWindow
  PROVE  GuiInv'
  <1> USE DEF GuiInv, callVars, raceVars, commandFrame
  <1> DEFINE c == command.convo
  <1>1. UNCHANGED <<peerUsername, active, pendingCall, sessionKey, newest, queued, raced, closedUnder, calls,
                    callbacks, unread, unseen>>
        /\ command' = Idle /\ selectedConvo' = 0 /\ focused' = focused \ {selectedConvo}
    BY DEF RemoveWindow, AfterClose, focusMain
  <1>2. PICK i \in DOMAIN conversations :
          conversations[i] = c /\ conversations' = RemoveAt(conversations, i)
    BY DEF RemoveWindow
  <1>3. conversations' \in Seq(Convos) /\ IsInjective(conversations') /\ Listed' = Listed \ {c}
    BY <1>2, ListedRemove DEF TypeOK, Shape, Listed
  <1>4. Made' = Made /\ 0 \notin Made
    BY <1>1 DEF Made
  <1>5. c = selectedConvo /\ command.name = "close"
    BY DEF RemoveWindow, CommandOnSelected
  <1>6. TypeOK'
    BY <1>1, <1>3, <1>4 DEF TypeOK, Idle
  <1>7. Shape'
    BY <1>1, <1>3, <1>4 DEF Shape, Idle
  <1>8. (SlotsBounded /\ HeldNewest /\ CommandOnSelected /\ ClosingInactive /\ AnsweringNewest
         /\ NewestCallKept)'
    BY <1>1, <1>4 DEF SlotsBounded, HeldNewest, CommandOnSelected, ClosingInactive, AnsweringNewest,
       NewestCallKept, Idle
  <1>9. (SelectedListed /\ FocusExact)'
    BY <1>1, <1>4 DEF SelectedListed, FocusExact, TypeOK
  <1>10. (CallbackListed /\ ActiveListed)'
    BY <1>1, <1>3, <1>5 DEF CallbackListed, ActiveListed, CommandOnSelected, ClosingInactive
  <1>11. UnseenMarked'
    BY <1>1, <1>3 DEF UnseenMarked
  <1> QED BY <1>6, <1>7, <1>8, <1>9, <1>10, <1>11

-----------------------------------------------------------------------------
LEMMA InitInv == Init => GuiInv
  <1> SUFFICES ASSUME Init PROVE GuiInv
    OBVIOUS
  <1> USE DEF Init
  <1>1. Made = {} /\ Listed = {}
    BY DEF Made, Listed, ToSet
  <1>2. TypeOK
    BY <1>1, BoundsAssumption DEF TypeOK, IsInjective, Idle
  <1>3. Shape
    BY <1>1 DEF Shape, Idle
  <1>4. SlotsBounded
    BY FS_EmptySet, BoundsAssumption DEF SlotsBounded
  <1>5. SelectedListed /\ FocusExact /\ CallbackListed /\ CommandOnSelected /\ ClosingInactive
    BY DEF SelectedListed, FocusExact, CallbackListed, CommandOnSelected, ClosingInactive, Idle
  <1>6. HeldNewest /\ AnsweringNewest /\ UnseenMarked /\ ActiveListed /\ NewestCallKept
    BY <1>1 DEF HeldNewest, AnsweringNewest, UnseenMarked, ActiveListed, NewestCallKept, Idle
  <1> QED BY <1>2, <1>3, <1>4, <1>5, <1>6 DEF GuiInv

LEMMA NextInv == GuiInv /\ [Next]_vars => GuiInv'
  <1> SUFFICES ASSUME GuiInv, [Next]_vars PROVE GuiInv'
    OBVIOUS
  <1>1. ASSUME NEW p \in Peers, SendingCall(p) PROVE GuiInv'
    BY <1>1, StartCallbackInv DEF SendingCall
  <1>2. ASSUME NEW p \in Peers, ReceivedCall(p) PROVE GuiInv'
    BY <1>2, StartCallbackInv DEF ReceivedCall
  <1>3. ASSUME NEW p \in Peers, OpenWindow(p) PROVE GuiInv'
    BY <1>3, OpenInv DEF OpenWindow, commandFrame
  <1>4. ASSUME NEW p \in Peers, CallPeer(p) PROVE GuiInv'
    BY <1>4, OpenInv DEF CallPeer, commandFrame
  <1>5. ASSUME NEW cb \in callbacks,
               DropCall(cb) \/ PrintCall(cb) \/ MarkUnread(cb) \/ TakeCall(cb) \/ HoldCall(cb)
        PROVE  GuiInv'
    BY <1>5, DropCallInv, PrintCallInv, MarkUnreadInv, TakeCallInv, HoldCallInv
  <1>6. ASSUME NEW i \in 0..Len(conversations), FocusWindow(i) PROVE GuiInv'
    BY <1>6, FocusWindowInv
  <1>7. CASE Hangup
    BY <1>7, HangupInv
  <1>8. CASE Answer
    <2>1. pendingCall[selectedConvo] \in Nat
      BY <1>8, MadeConvos DEF Answer, GuiInv, TypeOK, Shape
    <2> QED BY <1>8, <2>1, BeginInv DEF Answer, commandFrame
  <1>9. CASE AnswerActivate
    BY <1>9, AnswerActivateInv
  <1>10. CASE CloseWindow
    BY <1>10, BeginInv DEF CloseWindow, commandFrame, deactivateConvo
  <1>11. CASE RemoveWindow
    BY <1>11, RemoveWindowInv
  <1>12. CASE UNCHANGED vars
    BY <1>12 DEF vars, windowVars, callVars, markVars, routineVars, raceVars, GuiInv, TypeOK, Shape, SlotsBounded,
       SelectedListed, FocusExact, CallbackListed, CommandOnSelected, ClosingInactive, HeldNewest,
       AnsweringNewest, UnseenMarked, ActiveListed, NewestCallKept, Listed, Made
  <1> QED
    BY <1>1, <1>2, <1>3, <1>4, <1>5, <1>6, <1>7, <1>8, <1>9, <1>10, <1>11, <1>12 DEF Next

\* Every reachable state has its type, and every peer has at most one window:
\* getOrCreateConvo and the removal in /wc keep the list free of duplicates.
THEOREM TypeCorrect == Spec => []TypeOK
  <1>1. GuiInv => TypeOK
    BY DEF GuiInv
  <1> QED BY <1>1, InitInv, NextInv, PTL DEF Spec

\* A round never carries more messages than NumOutgoing, so its size does not
\* tell how many conversations are active: activateConvo counts the slots
\* under the lock it takes one with, also for a call answered after a wait.
THEOREM TrafficIsUniform == Spec => []UniformTraffic
  <1>1. GuiInv => UniformTraffic
    BY ActiveFinite, BoundsAssumption DEF GuiInv, SlotsBounded, UniformTraffic, MessagesOut
  <1> QED BY <1>1, InitInv, NextInv, PTL DEF Spec

\* The window in front is on the list whenever /wc or /hangup looks for it.
THEOREM SelectedIsListed == Spec => []SelectedListed
  <1>1. GuiInv => SelectedListed
    BY DEF GuiInv
  <1> QED BY <1>1, InitInv, NextInv, PTL DEF Spec

\* A line that was printed to a window in the background leaves a mark,
\* although printing and marking (PrintfSync) are two steps and focus may move
\* in between; except a line printed through a conversation that /wc closed
\* while its callback was at work, which shows in the peer's new window.
THEOREM UnseenAreMarked == Spec => []UnseenMarked
  <1>1. GuiInv => UnseenMarked
    BY DEF GuiInv
  <1> QED BY <1>1, InitInv, NextInv, PTL DEF Spec

\* A slot is held by a conversation without a window only when /wc closed that
\* conversation while a callback was at work on it (commands.go, between
\* deactivateConvo and the removal from the list, or with the callback's
\* activateConvo still to come); no other overlap leaks one.
THEOREM ActiveAreListed == Spec => []ActiveListed
  <1>1. GuiInv => ActiveListed
    BY DEF GuiInv
  <1> QED BY <1>1, InitInv, NextInv, PTL DEF Spec

\* A conversation's last call is lost only when another callback or command
\* for it overlapped.
THEOREM NewestCallsAreKept == Spec => []NewestCallKept
  <1>1. GuiInv => NewestCallKept
    BY DEF GuiInv
  <1> QED BY <1>1, InitInv, NextInv, PTL DEF Spec
=============================================================================

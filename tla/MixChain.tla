------------------------------ MODULE MixChain ------------------------------
(***************************************************************************)
(* One bidirectional round on a chain of mixers (mixnet/mixnet.go), with    *)
(* the conversation service at its end (convo/mixer.go).  The coordinator   *)
(* and then each mixer is a client of the next mixer: it adds its onions in *)
(* parallel streams, closes the round, fetches the replies and deletes the  *)
(* round.  A mixer decrypts what comes in with a pool of workers, filters,  *)
(* adds noise, shuffles, passes on, unshuffles what comes back and encrypts *)
(* it for the previous hop.  Calls fail and mixers crash at any point.      *)
(*                                                                          *)
(* An onion is known by its id, its dead drop and the hop, if any, at which *)
(* it does not decrypt.  A reply is a body in layers of encryption, each    *)
(* known by the onion whose shared key seals it (Fresh: a random key).      *)
(***************************************************************************)
EXTENDS Integers, Sequences, FiniteSets, FiniteSetsExt

CONSTANTS
    N,              \* number of mixers in the chain
    Batches,        \* the batches of onions the coordinator may have collected
    NumNoise,       \* NumNoise[s]: noise onions mixer s adds (none at the last)
    MaxJobs,        \* capacity of a mixer's decryption queue
    MaxCrashes,     \* bound: crashes of mixers
    MaxFailures     \* bound: calls that fail for another reason

Servers == 1..N

ASSUME ChainAssumption ==
    /\ N \in Nat \ {0}
    /\ NumNoise \in [Servers -> Nat] /\ NumNoise[N] = 0
    /\ MaxJobs \in Nat \ {0} /\ MaxCrashes \in Nat /\ MaxFailures \in Nat

\* The onions of clients: no key and no dead drop of theirs is one a mixer
\* makes up for its noise.
ASSUME BatchesAssumption ==
    \A b \in Batches : b \in Seq([id : {0} \X Nat, drop : {0} \X Nat, bad : 0..N])

VARIABLES
    coord,          \* the coordinator's goroutine for the round
    answered,       \* mixers that answered the call it makes to all of them
    \* roundState of each mixer.
    setup,          \* "none": no such round; "new": NewRound; "set": settings signed
    noiseDone,
    accepting,      \* acceptingOnions
    incoming,       \* decrypted onions by position, Nil where there is none
    jobs,           \* positions in decryption jobs that are not done
    closing,        \* progress of CloseRound
    index,          \* incomingIndex, from 1 (0: no onion)
    perm,           \* the permutation of the shuffler
    replies,        \* st.replies
    encryptDone,
    \* The calls of the mixer's client (the coordinator or the mixer before).
    call,           \* progress of RunRoundBidirectional on that mixer
    batch,          \* the onions it was called with
    stream,         \* one AddOnions stream per onion
    got,            \* replies fetched so far
    deleting,       \* an asynchronous DeleteRound is under way
    crashes, failures

setupVars == <<setup, noiseDone>>
addVars   == <<accepting, incoming, jobs>>
closeVars == <<closing, index, perm, replies, encryptDone>>
callVars  == <<call, batch, stream, got, deleting>>
boundVars == <<crashes, failures>>

vars == <<coord, answered, setupVars, addVars, closeVars, callVars, boundVars>>

\* Ids and dead drops are pairs: <<0, n>> for clients, <<s, n>> for the noise
\* of mixer s.
NoId    == <<>>
Fresh   == NoId
Nil     == [id |-> NoId, drop |-> NoId, bad |-> 0]
Junk    == [keys |-> <<>>, body |-> NoId]
NoReply == Junk

NoReplies == <<>>

Noise(s) ==
    [k \in 1..NumNoise[s] |-> [id |-> <<s, k>>, drop |-> <<s, k>>, bad |-> 0]]

Init ==
    /\ coord       = "creating"
    /\ answered    = {}
    /\ setup       = [s \in Servers |-> "none"]
    /\ noiseDone   = [s \in Servers |-> FALSE]
    /\ accepting   = [s \in Servers |-> FALSE]
    /\ incoming    = [s \in Servers |-> <<>>]
    /\ jobs        = [s \in Servers |-> {}]
    /\ closing     = [s \in Servers |-> "no"]
    /\ index       = [s \in Servers |-> <<>>]
    /\ perm        = [s \in Servers |-> <<>>]
    /\ replies     = [s \in Servers |-> NoReplies]
    /\ encryptDone = [s \in Servers |-> FALSE]
    /\ call        = [s \in Servers |-> "idle"]
    /\ batch       \in {[s \in Servers |-> IF s = 1 THEN b ELSE <<>>] : b \in Batches}
    /\ stream      = [s \in Servers |-> <<>>]
    /\ got         = [s \in Servers |-> NoReplies]
    /\ deleting    = [s \in Servers |-> FALSE]
    /\ crashes     = 0
    /\ failures    = 0

-----------------------------------------------------------------------------
(* Client.NewRound: NewRound on every mixer in parallel, then, once all of  *)
(* them answered, SetRoundSettings on every mixer in parallel.              *)

NewRound(s) ==
    /\ coord = "creating" /\ s \notin answered
    /\ answered' = answered \cup {s}
    /\ setup'    = [setup EXCEPT ![s] = "new"]
    /\ UNCHANGED <<coord, noiseDone, addVars, closeVars, callVars, boundVars>>

AllCreated ==
    /\ coord = "creating" /\ answered = Servers
    /\ coord'    = "setting"
    /\ answered' = {}
    /\ UNCHANGED <<setupVars, addVars, closeVars, callVars, boundVars>>

\* The settings are stored and signed, and a goroutine generates the noise.
SetRoundSettings(s) ==
    /\ coord = "setting" /\ s \notin answered /\ setup[s] = "new"
    /\ answered' = answered \cup {s}
    /\ setup'    = [setup EXCEPT ![s] = "set"]
    /\ UNCHANGED <<coord, noiseDone, addVars, closeVars, callVars, boundVars>>

\* Mutant: a mixer with no noise to add never closes noiseDone.
GenerateNoise_IfAny(s) ==
    /\ setup[s] = "set" /\ NumNoise[s] > 0 /\ ~noiseDone[s]
    /\ noiseDone' = [noiseDone EXCEPT ![s] = TRUE]
    /\ UNCHANGED <<coord, answered, setup, addVars, closeVars, callVars, boundVars>>

GenerateNoise(s) ==
    /\ setup[s] = "set" /\ ~noiseDone[s]
    /\ noiseDone' = [noiseDone EXCEPT ![s] = TRUE]
    /\ UNCHANGED <<coord, answered, setup, addVars, closeVars, callVars, boundVars>>

\* RunRoundBidirectional(server s, onions): one stream per onion.
StartCall(s, onions) ==
    /\ call'   = [call EXCEPT ![s] = "adding"]
    /\ batch'  = [batch EXCEPT ![s] = onions]
    /\ stream' = [stream EXCEPT ![s] = [i \in DOMAIN onions |-> "new"]]
    /\ got'    = [got EXCEPT ![s] = [i \in DOMAIN onions |-> NoReply]]

\* All signatures are there: the round is announced, and mixed at its deadline.
MixOnions ==
    /\ coord = "setting" /\ answered = Servers
    /\ coord' = "mixing"
    /\ StartCall(1, batch[1])
    /\ UNCHANGED <<answered, setupVars, addVars, closeVars, deleting, boundVars>>

\* A mixer lost the round between the two phases: runRound gives up.
SettingsFail(s) ==
    /\ coord = "setting" /\ s \notin answered /\ setup[s] = "none"
    /\ coord' = "ended"
    /\ UNCHANGED <<answered, setupVars, addVars, closeVars, callVars, boundVars>>

\* A call to a mixer fails on the way while the round is set up.
SetupFails ==
    /\ coord \in {"creating", "setting"} /\ answered # Servers /\ failures < MaxFailures
    /\ coord'    = "ended"
    /\ failures' = failures + 1
    /\ UNCHANGED <<answered, setupVars, addVars, closeVars, callVars, crashes>>

\* The coordinator hands out the replies, or announces an error.
EndRound ==
    /\ coord = "mixing" /\ call[1] \in {"done", "failed"}
    /\ coord' = "ended"
    /\ UNCHANGED <<answered, setupVars, addVars, closeVars, callVars, boundVars>>

-----------------------------------------------------------------------------
(* AddOnions: the first stream allocates, every request becomes a job. *)

AddOnions(s, i) ==
    /\ call[s] = "adding" /\ stream[s][i] = "new" /\ setup[s] # "none"
    /\ stream' = [stream EXCEPT ![s][i] = "open"]
    /\ IF incoming[s] = <<>>
         THEN /\ accepting' = [accepting EXCEPT ![s] = TRUE]
              /\ incoming'  = [incoming EXCEPT ![s] = [k \in DOMAIN batch[s] |-> Nil]]
         ELSE UNCHANGED <<accepting, incoming>>
    /\ UNCHANGED <<coord, answered, setupVars, jobs, closeVars, call, batch, got, deleting, boundVars>>

\* The job is queued under the round's lock, waiting for room in the queue
\* (no worker needs that lock), and the stream ends.
QueueJob(s, i) ==
    /\ call[s] = "adding" /\ stream[s][i] = "open" /\ setup[s] # "none"
    /\ Cardinality(jobs[s]) < MaxJobs
    /\ stream' = [stream EXCEPT ![s][i] = "done"]
    /\ jobs'   = IF accepting[s] THEN [jobs EXCEPT ![s] = @ \cup {i}] ELSE jobs
    /\ UNCHANGED <<coord, answered, setupVars, accepting, incoming, closeVars, call, batch, got,
                   deleting, boundVars>>

decryptionWorker(s, i) ==
    /\ i \in jobs[s]
    /\ jobs'     = [jobs EXCEPT ![s] = @ \ {i}]
    /\ incoming' = [incoming EXCEPT ![s][i] = IF batch[s][i].bad = s THEN Nil ELSE batch[s][i]]
    /\ UNCHANGED <<coord, answered, setupVars, accepting, closeVars, callVars, boundVars>>

-----------------------------------------------------------------------------
(* CloseRound. *)

\* The client closes the round once all its streams have ended: no new jobs.
CloseRound(s) ==
    /\ call[s] = "adding" /\ \A i \in DOMAIN stream[s] : stream[s][i] = "done"
    /\ setup[s] # "none" /\ closing[s] = "no"
    /\ call'      = [call EXCEPT ![s] = "closing"]
    /\ closing'   = [closing EXCEPT ![s] = "draining"]
    /\ accepting' = [accepting EXCEPT ![s] = FALSE]
    /\ UNCHANGED <<coord, answered, setupVars, incoming, jobs, index, perm, replies, encryptDone, batch,
                   stream, got, deleting, boundVars>>

\* An onion that decrypted and is not a copy of an earlier one.
Valid(msgs, i) == msgs[i] # Nil /\ \A j \in 1..(i - 1) : msgs[j] # msgs[i]

IncomingIndex(msgs) ==
    [i \in DOMAIN msgs |->
        IF Valid(msgs, i) THEN Cardinality({j \in 1..i : Valid(msgs, j)}) ELSE 0]

IncomingValid(msgs) ==
    [k \in 1..Cardinality({i \in DOMAIN msgs : Valid(msgs, i)}) |->
        msgs[CHOOSE i \in DOMAIN msgs : IncomingIndex(msgs)[i] = k]]

\* Mutant: the round is filtered while decryption jobs are still running.
FilterIncoming_NoWait(s) ==
    /\ closing[s] = "draining"
    /\ closing'  = [closing EXCEPT ![s] = "filtered"]
    /\ index'    = [index EXCEPT ![s] = IncomingIndex(incoming[s])]
    /\ incoming' = [incoming EXCEPT ![s] = IncomingValid(incoming[s])]
    /\ UNCHANGED <<coord, answered, setupVars, accepting, jobs, perm, replies, encryptDone, callVars,
                   boundVars>>

\* Wait for the jobs; filterIncoming.
FilterIncoming(s) ==
    /\ closing[s] = "draining" /\ jobs[s] = {}
    /\ closing'  = [closing EXCEPT ![s] = "filtered"]
    /\ index'    = [index EXCEPT ![s] = IncomingIndex(incoming[s])]
    /\ incoming' = [incoming EXCEPT ![s] = IncomingValid(incoming[s])]
    /\ UNCHANGED <<coord, answered, setupVars, accepting, jobs, perm, replies, encryptDone, callVars,
                   boundVars>>

Permutations(n) == {p \in [1..n -> 1..n] : \A i, j \in 1..n : i # j => p[i] # p[j]}

\* Not the last mixer: append the noise, shuffle, and run the next mixer.
Forward(s) ==
    LET outgoing == incoming[s] \o Noise(s) IN
    /\ closing[s] = "filtered" /\ noiseDone[s] /\ s < N
    /\ closing' = [closing EXCEPT ![s] = "waiting"]
    /\ \E p \in Permutations(Len(outgoing)) :
         /\ perm' = [perm EXCEPT ![s] = p]
         /\ StartCall(s + 1, [j \in 1..Len(outgoing) |-> outgoing[p[j]]])
    /\ UNCHANGED <<coord, answered, setupVars, addVars, index, replies, encryptDone, deleting, boundVars>>

\* encryptReplies for the onions of the previous hop: the reply to the onion at
\* position i of those passed on, or junk where there was none.
Seal(key, msg) == [msg EXCEPT !.keys = <<key>> \o @]

\* Mutant: replies are made for the onions passed on only.
EncryptedReplies_ValidOnly(s, msgs) ==
    [i \in DOMAIN msgs |->
        IF index[s][i] > 0 THEN Seal(batch[s][i].id, msgs[index[s][i]]) ELSE Seal(Fresh, Junk)]

EncryptedReplies(s, msgs) ==
    [i \in DOMAIN index[s] |->
        IF index[s][i] > 0 THEN Seal(batch[s][i].id, msgs[index[s][i]]) ELSE Seal(Fresh, Junk)]

\* Mutant: the replies are not put back into the order before the shuffle.
Unshuffled_AsIs(s) ==
    [k \in 1..Len(incoming[s]) |->
        got[s + 1][k]]

\* The replies of the next mixer in the order before the shuffle, without
\* those to the noise.
Unshuffled(s) ==
    [k \in 1..Len(incoming[s]) |->
        got[s + 1][CHOOSE j \in DOMAIN perm[s] : perm[s][j] = k]]

\* ConvoService.HandleMessages: exchange the first two messages of a dead
\* drop; a further one gets a copy of the first.
HandleMessages(msgs) ==
    [i \in DOMAIN msgs |->
        LET same  == {j \in DOMAIN msgs : msgs[j].drop = msgs[i].drop}
            other == IF i # Min(same) THEN Min(same)
                     ELSE IF same = {i} THEN i ELSE Min(same \ {i})
        IN  [keys |-> <<>>, body |-> msgs[other].id]]

\* The replies are there; CloseRound answers, and a goroutine encrypts them.
Return(s) ==
    /\ \/ /\ s < N /\ closing[s] = "waiting" /\ call[s + 1] = "done"
          /\ replies' = [replies EXCEPT ![s] = EncryptedReplies(s, Unshuffled(s))]
       \/ /\ s = N /\ closing[s] = "filtered" /\ noiseDone[s]
          /\ replies' = [replies EXCEPT ![s] = EncryptedReplies(s, HandleMessages(incoming[s]))]
    /\ closing' = [closing EXCEPT ![s] = "closed"]
    /\ call'    = IF call[s] = "closing" THEN [call EXCEPT ![s] = "getting"] ELSE call
    /\ UNCHANGED <<coord, answered, setupVars, addVars, index, perm, encryptDone, batch, stream, got,
                   deleting, boundVars>>

\* RunRound on the next mixer failed: CloseRound fails, and nothing is encrypted.
ReturnError(s) ==
    /\ s < N /\ closing[s] = "waiting" /\ call[s + 1] = "failed"
    /\ closing' = [closing EXCEPT ![s] = "failed"]
    /\ call'    = IF call[s] = "closing" THEN [call EXCEPT ![s] = "failed"] ELSE call
    /\ UNCHANGED <<coord, answered, setupVars, addVars, index, perm, replies, encryptDone, batch, stream,
                   got, deleting, boundVars>>

EncryptReplies(s) ==
    /\ closing[s] = "closed" /\ ~encryptDone[s]
    /\ encryptDone' = [encryptDone EXCEPT ![s] = TRUE]
    /\ UNCHANGED <<coord, answered, setupVars, addVars, closing, index, perm, replies, callVars, boundVars>>

-----------------------------------------------------------------------------
(* GetOnions and DeleteRound. *)

GetOnions(s, i) ==
    /\ call[s] = "getting" /\ setup[s] # "none" /\ encryptDone[s]
    /\ got[s][i] = NoReply
    /\ got' = [got EXCEPT ![s][i] = replies[s][i]]
    /\ UNCHANGED <<coord, answered, setupVars, addVars, closeVars, call, batch, stream, deleting, boundVars>>

\* Mutant: RunRoundBidirectional deletes nothing, as when it fails.
FinishCall_KeepRound(s) ==
    /\ call[s] = "getting" /\ \A i \in DOMAIN got[s] : got[s][i] # NoReply
    /\ call' = [call EXCEPT ![s] = "done"]
    /\ UNCHANGED <<coord, answered, setupVars, addVars, closeVars, batch, stream, got, deleting,
                   boundVars>>

\* All spans are fetched: RunRoundBidirectional returns, and deletes the round.
FinishCall(s) ==
    /\ call[s] = "getting" /\ \A i \in DOMAIN got[s] : got[s][i] # NoReply
    /\ call'     = [call EXCEPT ![s] = "done"]
    /\ deleting' = [deleting EXCEPT ![s] = TRUE]
    /\ UNCHANGED <<coord, answered, setupVars, addVars, closeVars, batch, stream, got, boundVars>>

\* The mixer forgets the round.
Forget(s) ==
    /\ setup'       = [setup EXCEPT ![s] = "none"]
    /\ noiseDone'   = [noiseDone EXCEPT ![s] = FALSE]
    /\ accepting'   = [accepting EXCEPT ![s] = FALSE]
    /\ incoming'    = [incoming EXCEPT ![s] = <<>>]
    /\ jobs'        = [jobs EXCEPT ![s] = {}]
    /\ closing'     = [closing EXCEPT ![s] = "no"]
    /\ index'       = [index EXCEPT ![s] = <<>>]
    /\ perm'        = [perm EXCEPT ![s] = <<>>]
    /\ replies'     = [replies EXCEPT ![s] = NoReplies]
    /\ encryptDone' = [encryptDone EXCEPT ![s] = FALSE]

DeleteRound(s) ==
    /\ deleting[s]
    /\ deleting' = [deleting EXCEPT ![s] = FALSE]
    /\ Forget(s)
    /\ UNCHANGED <<coord, answered, call, batch, stream, got, boundVars>>

\* The call fails on the way, which is only logged.
DeleteFails(s) ==
    /\ deleting[s] /\ failures < MaxFailures
    /\ failures' = failures + 1
    /\ deleting' = [deleting EXCEPT ![s] = FALSE]
    /\ UNCHANGED <<coord, answered, setupVars, addVars, closeVars, call, batch, stream, got, crashes>>

-----------------------------------------------------------------------------
(* Failures. *)

InProgress(s) == call[s] \in {"adding", "closing", "getting"}

\* A call to mixer s fails on the way: its client gives up on the round.
CallFails(s) ==
    /\ InProgress(s) /\ failures < MaxFailures
    /\ failures' = failures + 1
    /\ call'     = [call EXCEPT ![s] = "failed"]
    /\ UNCHANGED <<coord, answered, setupVars, addVars, closeVars, batch, stream, got, deleting, crashes>>

\* A mixer that restarted does not know the round.
RoundNotFound(s) ==
    /\ InProgress(s) /\ setup[s] = "none"
    /\ call' = [call EXCEPT ![s] = "failed"]
    /\ UNCHANGED <<coord, answered, setupVars, addVars, closeVars, batch, stream, got, deleting, boundVars>>

\* A mixer loses its rounds, and the calls it makes to the next one end, the
\* deletion included.
Crash(s) ==
    /\ crashes < MaxCrashes /\ setup[s] # "none"
    /\ crashes' = crashes + 1
    /\ Forget(s)
    /\ call' = [t \in Servers |->
                  IF t \in {s, s + 1} /\ InProgress(t) /\ (t = s \/ closing[s] = "waiting")
                    THEN "failed" ELSE call[t]]
    /\ deleting' = [t \in Servers |-> deleting[t] /\ t # s + 1]
    /\ UNCHANGED <<coord, answered, batch, stream, got, failures>>

-----------------------------------------------------------------------------
Mixer(s) ==
    \/ GenerateNoise(s) \/ FilterIncoming(s) \/ Forward(s) \/ Return(s) \/ ReturnError(s)
    \/ EncryptReplies(s)
    \/ \E i \in jobs[s] : decryptionWorker(s, i)

Client(s) ==
    \/ \E i \in DOMAIN stream[s] : AddOnions(s, i) \/ QueueJob(s, i)
    \/ \E i \in DOMAIN got[s] : GetOnions(s, i)
    \/ CloseRound(s) \/ FinishCall(s) \/ RoundNotFound(s)

Round ==
    \/ \E s \in Servers : NewRound(s) \/ SetRoundSettings(s) \/ SettingsFail(s)
    \/ AllCreated \/ MixOnions \/ EndRound

Next ==
    \/ Round \/ SetupFails
    \/ \E s \in Servers : Mixer(s) \/ Client(s) \/ DeleteRound(s) \/ DeleteFails(s)
                        \/ CallFails(s) \/ Crash(s)

Spec == Init /\ [][Next]_vars

\* Goroutines that can run do run, and calls that can be made are made.
Fairness ==
    /\ WF_vars(Round)
    /\ \A s \in Servers : WF_vars(Mixer(s)) /\ WF_vars(Client(s)) /\ WF_vars(DeleteRound(s))

FairSpec == Spec /\ Fairness

-----------------------------------------------------------------------------
(* Properties. *)

\* Every variable has its type, and what a mixer keeps per onion has one entry
\* for each onion it was called with.
TypeOK ==
    /\ coord \in {"creating", "setting", "mixing", "ended"}
    /\ answered \subseteq Servers
    /\ setup \in [Servers -> {"none", "new", "set"}]
    /\ noiseDone \in [Servers -> BOOLEAN] /\ accepting \in [Servers -> BOOLEAN]
    /\ encryptDone \in [Servers -> BOOLEAN] /\ deleting \in [Servers -> BOOLEAN]
    /\ closing \in [Servers -> {"no", "draining", "filtered", "waiting", "closed", "failed"}]
    /\ call \in [Servers -> {"idle", "adding", "closing", "getting", "done", "failed"}]
    /\ \A s \in Servers :
         /\ jobs[s] \subseteq DOMAIN incoming[s]
         /\ closing[s] \in {"no", "draining"} => DOMAIN incoming[s] \in {{}, DOMAIN batch[s]}
         /\ closing[s] \in {"filtered", "waiting"} => index[s] \in [DOMAIN batch[s] -> 0..Len(incoming[s])]
         /\ closing[s] = "closed" => DOMAIN replies[s] = DOMAIN batch[s]

\* The onion at position i of the coordinator's batch gets to the last mixer.
Arrives(i) ==
    batch[1][i].bad = 0 /\ \A j \in 1..(i - 1) : batch[1][j] # batch[1][i]

\* The positions of the onions in the same dead drop.
SameDrop(i) ==
    {j \in DOMAIN batch[1] : Arrives(j) /\ batch[1][j].drop = batch[1][i].drop}

\* The reply at position i answers the onion at position i.
Answers(i, reply) ==
    IF Arrives(i)
      THEN /\ reply.keys = [s \in Servers |-> batch[1][i].id]
           /\ \E j \in SameDrop(i) :
                reply.body = batch[1][j].id /\ (j = i => SameDrop(i) = {i})
      ELSE \E s \in DOMAIN reply.keys : reply.keys[s] = Fresh

\* Through filtering, noise, shuffling and all the way back, the reply the
\* coordinator has for an onion is sealed with the keys of that very onion at
\* every hop and holds the other message of its dead drop (its own if it was
\* alone); a malformed or repeated onion gets junk its sender cannot open.
RepliesAnswer ==
    call[1] = "done" => \A i \in DOMAIN batch[1] : Answers(i, got[1][i])

\* CloseRound filters only when no decryption job of the round is left or can
\* still come: no worker writes to what was filtered.
NoLateJobs ==
    \A s \in Servers : closing[s] \in {"filtered", "waiting", "closed", "failed"} =>
        jobs[s] = {} /\ ~accepting[s]

\* Whatever fails, the coordinator's goroutine comes to its end and gives back
\* its flight token: no mixer is left waiting for its successor, its workers
\* or its noise.
RoundTerminates == <>(coord = "ended")

\* A mixer forgets a round whose replies have been fetched; only a failed call
\* or a crash leaves one behind (RunRoundBidirectional deletes the round on
\* success only, unlike RunRoundUnidirectional).
DoneRoundsForgotten ==
    \A s \in Servers : call[s] = "done" ~> setup[s] = "none" \/ failures + crashes > 0
=============================================================================

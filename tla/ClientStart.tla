---------------------------- MODULE ClientStart ----------------------------
(***************************************************************************)
(* The terminal client from its start (main.go, connect.go): main loads or  *)
(* generates the identity of the dialing client and the state of the        *)
(* conversation client, and the GUI then asks the PKG servers whether the   *)
(* username is registered with this identity; when all of them say so, it   *)
(* starts the connect loop, with which RoundClient goes on.  /connect and   *)
(* /register do the same from goroutines of their own.                      *)
(*                                                                          *)
(* The dialing client (neverlur) is external: Persist writes one file after *)
(* the other, LoadClient says that a file does not exist if either does     *)
(* not, and a PKG server keeps the first identity registered for a name.    *)
(***************************************************************************)
EXTENDS RoundClient, Bags

CONSTANTS
    NumPKGs,        \* PKG servers
    MaxRegistering     \* bound: RegisterAll goroutines at a time

ASSUME StartAssumption == NumPKGs \in Nat \ {0} /\ MaxRegistering \in Nat \ {0}

VARIABLES
    boot,           \* where main is
    identity,       \* LongTermPublicKey of the running client (0: none)
    clientFile, keywheelFile, \* whose state the two files hold (0: no file)
    pkg,            \* pkg[p]: the identity server p knows (0: not registered)
    registering,    \* bag of RegisterAll goroutines
    identities      \* history: identities generated

fileVars  == <<clientFile, keywheelFile>>
startVars == <<boot, identity, fileVars, pkg, registering, identities>>

vars == <<clientVars, startVars>>

PKGs == 1..NumPKGs

Init ==
    /\ RoundInit
    /\ boot = "alpenhorn" /\ identity = 0 /\ clientFile = 0 /\ keywheelFile = 0
    /\ pkg = [p \in PKGs |-> 0]
    /\ registering = EmptyBag /\ identities = 0

-----------------------------------------------------------------------------
(* main.  Every step may fail, which ends the process.                      *)

bootFrame == UNCHANGED <<serviceVars, wire, linkVars, conn, latestRound, roundVars, faults, pkg>>

Exit ==
    /\ boot \in {"alpenhorn", "keywheel", "vuvuzela"}
    /\ boot' = "exited"
    /\ UNCHANGED <<clientVars, identity, fileVars, pkg, registering, identities>>

\* Mutant: an identity is generated whenever the files cannot be loaded.
NotExist_AnyError == TRUE

\* LoadClient's error is os.IsNotExist.
NotExist == clientFile = 0 \/ keywheelFile = 0

LoadAlpenhornState ==
    /\ boot = "alpenhorn" /\ clientFile # 0 /\ keywheelFile # 0
    /\ boot'     = "vuvuzela"
    /\ identity' = clientFile
    /\ UNCHANGED <<config, disk, fileVars, registering, identities>>
    /\ bootFrame

\* A new identity; Persist writes the first file ...
generateAlpenhornClient ==
    /\ boot = "alpenhorn" /\ NotExist
    /\ boot'       = "keywheel"
    /\ identities' = identities + 1
    /\ identity'   = identities + 1
    /\ clientFile' = identities + 1
    /\ UNCHANGED <<config, disk, keywheelFile, registering>>
    /\ bootFrame

\* ... and the second.
PersistKeywheel ==
    /\ boot = "keywheel"
    /\ boot'         = "vuvuzela"
    /\ keywheelFile' = identity
    /\ UNCHANGED <<config, disk, identity, clientFile, registering, identities>>
    /\ bootFrame

RunGui ==
    /\ boot' = "run"
    /\ UNCHANGED <<identity, fileVars, registering, identities>>
    /\ bootFrame

LoadVuvuzelaState ==
    /\ boot = "vuvuzela" /\ disk # 0
    /\ config' = disk /\ UNCHANGED disk
    /\ RunGui

\* Bootstrap with the newest config, then Persist.
generateVuvuzelaClient ==
    /\ boot = "vuvuzela" /\ disk = 0
    /\ config' = published
    /\ persistLocked
    /\ RunGui

-----------------------------------------------------------------------------
(* Connect and RegisterAll. *)

\* The servers that report the identity as registered, and those that report
\* the name as unregistered.  A server may fail to answer.
StatusOK     == {p \in PKGs : pkg[p] = identity}
Unregistered == {p \in PKGs : pkg[p] = 0}

EnsureConnected == loop' = IF loop = "off" THEN "dial" ELSE loop

pkgFrame ==
    UNCHANGED <<serviceVars, wire, fetched, conns, serving, ending, conn, latestRound, config,
                disk, roundVars, faults, boot, identity, fileVars, identities>>

\* Mutant: one server that knows the identity is enough.
CheckPKGStatus_Some == StatusOK # {}

CheckPKGStatus == StatusOK = PKGs

\* Run calls Connect, and so does /connect whenever the user gives it.  A
\* Connect for which not all servers answer as they should changes nothing,
\* nor does one when the connect loop runs.
Connect ==
    /\ boot = "run" /\ loop = "off" /\ CheckPKGStatus
    /\ EnsureConnected
    /\ UNCHANGED <<pkg, registering>>
    /\ pkgFrame

\* RegisterAll asks all servers; silent ones do not answer.  (When none of the
\* others reports the name as unregistered, it does what Connect does.)
RegisterAll(silent) ==
    /\ boot = "run" /\ loop = "off" /\ BagCardinality(registering) < MaxRegistering
    /\ Unregistered \ silent # {}
    /\ registering' = registering (+) SetToBag(
         {[todo |-> Unregistered \ silent,
           allOK |-> StatusOK \cup Unregistered = PKGs /\ silent = {}]})
    /\ UNCHANGED <<loop, pkg>>
    /\ pkgFrame

\* Then it registers with one after another of those that did not know the
\* name, which fails if another goroutine has done so since, and connects
\* after the last one if all is well.  Servers do not forget a name, so that
\* nothing can come between the last one's answer and EnsureConnected.
Register(g, p, ok) ==
    /\ p \in g.todo /\ \A q \in g.todo : p <= q
    /\ ok => pkg[p] = 0
    /\ pkg' = IF ok THEN [pkg EXCEPT ![p] = identity] ELSE pkg
    /\ IF g.todo = {p}
         THEN /\ registering' = registering (-) SetToBag({g})
              /\ IF g.allOK /\ ok THEN EnsureConnected ELSE UNCHANGED loop
         ELSE /\ registering' = (registering (-) SetToBag({g})) (+)
                   SetToBag({[g EXCEPT !.todo = @ \ {p}, !.allOK = @ /\ ok]})
              /\ UNCHANGED loop
    /\ pkgFrame

-----------------------------------------------------------------------------
\* The process dies or has exited, and the user starts it again.
Restart ==
    /\ Fault /\ Die
    /\ boot' = "alpenhorn" /\ identity' = 0 /\ registering' = EmptyBag
    /\ UNCHANGED <<fileVars, pkg, identities>>

Next ==
    \/ Exit \/ LoadAlpenhornState \/ generateAlpenhornClient \/ PersistKeywheel
    \/ LoadVuvuzelaState \/ generateVuvuzelaClient \/ Connect \/ Restart
    \/ \E silent \in SUBSET PKGs : RegisterAll(silent)
    \/ \E g \in BagToSet(registering) : \E p \in g.todo, ok \in BOOLEAN : Register(g, p, ok)
    \/ RoundNext /\ UNCHANGED startVars

Spec == Init /\ [][Next]_vars

\* The connect loop and the goroutines that watch connections keep running.
Fairness ==
    /\ WF_vars(FetchConfig /\ UNCHANGED startVars) /\ WF_vars(Dial /\ UNCHANGED startVars)
    /\ WF_vars(Disconnected /\ UNCHANGED startVars) /\ WF_vars(Reconnect /\ UNCHANGED startVars)
    /\ WF_vars((\E c \in ending : ClearConn(c)) /\ UNCHANGED startVars)

FairSpec == Spec /\ Fairness

-----------------------------------------------------------------------------
\* An identity that a PKG server has taken for the username is the one in
\* both files, wherever start-up is cut short: a client that is started again
\* is not locked out of its own name.
RegisteredIdentityKept ==
    \A p \in PKGs : pkg[p] # 0 => clientFile = pkg[p] /\ keywheelFile = pkg[p]

\* The connect loop runs only when every PKG server has the identity of the
\* running client, however the goroutines of the start, of /connect and of
\* /register overlap.
ConnectsRegistered == loop # "off" => \A p \in PKGs : pkg[p] = identity
=============================================================================

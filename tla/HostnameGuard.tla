--------------------------- MODULE HostnameGuard ---------------------------
(***************************************************************************)
(* Which tasks may work on one hostname at the same time: the in-flight    *)
(* guard activeHostnameTasks of handleVeConfiguration, its hand over to    *)
(* the background run or to a clone of the deployer, and the restart       *)
(* handlers, which do not ask the guard                                    *)
(* (backend/src/webapp/webapp-ve-route-handlers.mts).                      *)
(*                                                                         *)
(* One VE context: the key of the guard is the hostname.                   *)
(***************************************************************************)
EXTENDS Naturals, FiniteSets

CONSTANTS
    Request,       \* identities of requests of one deployer
    Hostname,
    Hub,           \* the hostname of the deployer itself
    Nobody,        \* the guard has no entry, or a request has no key
    Kinds,         \* which handlers are called
    MaxReboots     \* bound: restarts of the deployer

AllKinds == {"configuration", "self_upgrade", "restart"}

Phases == {"unsent", "asking", "preparing", "cloning", "running", "at_clone", "over"}

ASSUME NamesAssumption ==
    /\ Hub \in Hostname
    /\ Nobody \notin Hostname \cup Request

ASSUME SizeAssumption ==
    /\ Kinds \subseteq AllKinds
    /\ MaxReboots \in Nat

VARIABLES
    kind,      \* what each request asks for; fixed
    host,      \* the hostname each request works on; fixed
    phase,     \* where the handling of each request is
    key,       \* lockKey of the handler, or Nobody
    active,    \* activeHostnameTasks
    rejected,  \* requests answered with 409
    accepted,  \* requests answered with success
    reboots    \* restarts of the deployer so far

answers == <<rejected, accepted>>
inputs  == <<kind, host, reboots>>
vars    == <<kind, host, phase, key, active, rejected, accepted, reboots>>

\* Phases in which a request prepares or makes changes to its hostname.
AtWork == {"preparing", "cloning", "running", "at_clone"}

\* Of those, the phases in which this deployer carries the task itself.
HeldPhases == {"preparing", "cloning", "running"}

Works(r) == phase[r] \in AtWork

Moves(r, from, to) ==
    /\ phase[r] = from
    /\ phase' = [phase EXCEPT ![r] = to]

\* activeHostnameTasks.delete(lockKey), whoever the entry belongs to; nothing
\* happens without a key.
Released(r) == [h \in Hostname |-> IF h = key[r] THEN Nobody ELSE active[h]]

Init ==
    /\ kind \in [Request -> Kinds]
    /\ host \in [Request -> Hostname]
    /\ \A r \in Request : kind[r] = "self_upgrade" => host[r] = Hub
    /\ phase = [r \in Request |-> "unsent"]
    /\ key = [r \in Request |-> Nobody]
    /\ active = [h \in Hostname |-> Nobody]
    /\ rejected = {}
    /\ accepted = {}
    /\ reboots = 0

-----------------------------------------------------------------------------
(* handleVeConfiguration                                                   *)

\* The request passes validation and awaits resolveTaskHostname, which gives
\* its hostname, or nothing when the list of containers cannot be read.
Ask(r) ==
    /\ kind[r] # "restart"
    /\ Moves(r, "unsent", "asking")
    /\ \E k \in {host[r], Nobody} : key' = [key EXCEPT ![r] = k]
    /\ UNCHANGED <<active, answers, inputs>>

\* Mutant: the entry of the task at work is released with the rejection.
Reject_Releases(r) ==
    /\ key[r] # Nobody
    /\ active[key[r]] # Nobody
    /\ Moves(r, "asking", "over")
    /\ active' = Released(r)
    /\ rejected' = rejected \cup {r}
    /\ UNCHANGED <<key, accepted, inputs>>

\* The hostname is busy: 409, and the foreign entry stays.
Reject(r) ==
    /\ key[r] # Nobody
    /\ active[key[r]] # Nobody
    /\ Moves(r, "asking", "over")
    /\ rejected' = rejected \cup {r}
    /\ UNCHANGED <<key, active, accepted, inputs>>

\* get, check and set without an await; without a hostname no entry is made.
Acquire(r) ==
    /\ key[r] # Nobody => active[key[r]] = Nobody
    /\ Moves(r, "asking",
             IF kind[r] = "self_upgrade" THEN "cloning" ELSE "preparing")
    /\ active' = [h \in Hostname |-> IF h = key[r] THEN r ELSE active[h]]
    /\ UNCHANGED <<key, answers, inputs>>

\* Mutant: an error after the check leaves the entry behind.
PrepareFails_KeepsEntry(r) ==
    /\ Moves(r, "preparing", "over")
    /\ UNCHANGED <<key, active, answers, inputs>>

\* An await before the run is set up throws; the finally clause releases.
PrepareFails(r) ==
    /\ Moves(r, "preparing", "over")
    /\ active' = Released(r)
    /\ UNCHANGED <<key, answers, inputs>>

\* setupExecution and its result handlers; lockReleaseDeferred = true.
Dispatch(r) ==
    /\ Moves(r, "preparing", "running")
    /\ accepted' = accepted \cup {r}
    /\ UNCHANGED <<key, active, rejected, inputs>>

\* Mutant: only a run that stored its result releases, not one that threw.
Settle_UnlessThrown(r) ==
    /\ kind[r] = "configuration"
    /\ Moves(r, "running", "over")
    /\ active' \in {active, Released(r)}
    /\ UNCHANGED <<key, answers, inputs>>

\* The run of a configuration task resolves or rejects: onSettled.
Settle(r) ==
    /\ kind[r] = "configuration"
    /\ Moves(r, "running", "over")
    /\ active' = Released(r)
    /\ UNCHANGED <<key, answers, inputs>>

-----------------------------------------------------------------------------
(* The deployer upgrades itself by way of a clone                          *)

\* Creating, starting or reaching the clone fails, or its answer to the POST
\* is lost, and then it works all the same; 500, finally releases.
CloneFails(r) ==
    /\ \E p \in {"over", "at_clone"} : Moves(r, "cloning", p)
    /\ active' = Released(r)
    /\ UNCHANGED <<key, answers, inputs>>

\* The clone accepted the task: marker, mirror, answer, and finally releases.
HandToClone(r) ==
    /\ Moves(r, "cloning", "at_clone")
    /\ active' = Released(r)
    /\ accepted' = accepted \cup {r}
    /\ UNCHANGED <<key, rejected, inputs>>

\* The run on the clone ends.
CloneEnds(r) ==
    /\ Moves(r, "at_clone", "over")
    /\ UNCHANGED <<key, active, answers, inputs>>

-----------------------------------------------------------------------------
(* handleVeRestart and handleVeRestartInstallation                         *)

\* Something was installed or changed there before, else 404.
Restart(r) ==
    /\ kind[r] = "restart"
    /\ \E s \in accepted : host[s] = host[r]
    /\ Moves(r, "unsent", "preparing")
    /\ UNCHANGED <<key, active, answers, inputs>>

RestartEnds(r) ==
    /\ kind[r] = "restart"
    /\ Moves(r, "running", "over")
    /\ UNCHANGED <<key, active, answers, inputs>>

-----------------------------------------------------------------------------

\* The deployer dies and comes back: its map is new and its tasks are gone,
\* while a clone goes on. One that replaces the deployer does this to it.
Reboot ==
    /\ reboots < MaxReboots
    /\ reboots' = reboots + 1
    /\ active' = [h \in Hostname |-> Nobody]
    /\ phase' = [r \in Request |->
                    IF phase[r] \in {"asking"} \cup HeldPhases THEN "over" ELSE phase[r]]
    /\ UNCHANGED <<kind, host, key, answers>>

\* What goes on by itself once a request was sent.
Proceed(r) ==
    \/ Reject(r) \/ Acquire(r)
    \/ PrepareFails(r) \/ Dispatch(r) \/ Settle(r)
    \/ CloneFails(r) \/ HandToClone(r) \/ CloneEnds(r)
    \/ RestartEnds(r)

Next == \/ \E r \in Request : Ask(r) \/ Restart(r) \/ Proceed(r)
        \/ Reboot

Spec == Init /\ [][Next]_vars

\* Every await of a handler, of a run and of a clone ends.
FairSpec == Spec /\ \A r \in Request : WF_vars(Proceed(r))

-----------------------------------------------------------------------------
(* Properties                                                              *)

TypeOK ==
    /\ kind \in [Request -> Kinds]
    /\ host \in [Request -> Hostname]
    /\ phase \in [Request -> Phases]
    /\ key \in [Request -> Hostname \cup {Nobody}]
    /\ active \in [Hostname -> Request \cup {Nobody}]
    /\ rejected \subseteq Request
    /\ accepted \subseteq Request
    /\ reboots \in 0 .. MaxReboots

\* A configuration task whose hostname the deployer knows, carried by itself.
Guarded(r) == kind[r] # "restart" /\ key[r] # Nobody /\ phase[r] \in HeldPhases

\* Of the configuration tasks whose hostname could be resolved, this deployer
\* carries at most one per hostname at any moment, from the check through the
\* minutes of its background run or of the clone's creation
\* (webapp-ve-route-handlers.mts:484-489).
OneAtATime ==
    \A r, s \in Request :
        Guarded(r) /\ Guarded(s) /\ host[r] = host[s] => r = s

\* A request is rejected with 409 only while another task of the deployer
\* really works on its hostname: no task leaves an entry behind it and blocks
\* the hostname ("never a wrongly-rejected task", line 251).
NeverWronglyRejected ==
    [][\A r \in rejected' \ rejected :
            \E s \in Request \ {r} : Guarded(s) /\ host[s] = host[r]]_vars

\* An entry of the guard does not stay: its task settles, or hands over.
HostnameIsFreed ==
    \A h \in Hostname : active[h] # Nobody ~> active[h] = Nobody

=============================================================================

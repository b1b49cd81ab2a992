---------------------------- MODULE HostServices ----------------------------
(***************************************************************************)
(* The services that visit every PVE host from time to time:               *)
(*                                                                         *)
(*   cleanup   replaced-container-cleanup-service.mts                      *)
(*   renewal   certificate-auto-renewal-service.mts                        *)
(*   rotation  log-rotation-service.mts                                    *)
(*                                                                         *)
(* Each keeps a setting in the storage context, an interval timer and a    *)
(* flag that lets one check run at a time. The storage context hands out   *)
(* the stored object itself (context.mts:34): a check that holds it sees,  *)
(* and writes back, what the operator sets meanwhile. Only a check that    *)
(* began before anything was stored holds an object of its own.            *)
(* What the hosts have that can go wrong is the cleanup's: containers that *)
(* were replaced and that a rollback may still bring back. Time is counted *)
(* in a unit that is any part of a day, since any number of days at or     *)
(* above 0 is accepted for a grace period. The hosts' clocks, which stamp  *)
(* replaced-at, agree with the deployer's.                                 *)
(***************************************************************************)
EXTENDS Integers, FiniteSets

CONSTANTS
    Services,       \* the services looked at, of the three above
    Hosts,          \* the VE contexts
    HostOf,         \* the host of each container
    Graces,         \* grace periods an operator may set, in units
    DefaultGrace,
    RollbackWithin, \* a rollback comes within so many units of the replacement
    MaxSettings,    \* bound: changes of a setting
    MaxReplaced,    \* bound: replacements of a container
    MaxRestarts     \* bound: restarts of the deployer

Containers == DOMAIN HostOf

ASSUME ServicesAssumption ==
    /\ "cleanup" \in Services /\ Services \subseteq {"cleanup", "renewal", "rotation"}
    /\ \A c \in Containers : HostOf[c] \in Hosts
    /\ Graces \subseteq Nat /\ DefaultGrace \in Nat /\ RollbackWithin \in Nat
    /\ MaxSettings \in Nat /\ MaxReplaced \in Nat /\ MaxRestarts \in Nat

Spans == Graces \cup {DefaultGrace, RollbackWithin}

\* There is a longest span, so that ages beyond it need not be told apart.
ASSUME GracesAreBounded == \E n \in Spans : \A other \in Spans : other <= n

Settings == [enabled : BOOLEAN, grace : Graces \cup {DefaultGrace}]

\* getState when the storage context has nothing.
Default(s) == [enabled |-> s = "cleanup", grace |-> DefaultGrace]

\* Units since the replacement, as far as any span can tell.
MaxAge == 1 + (CHOOSE n \in Spans : \A other \in Spans : other <= n)

VARIABLES
    stored,      \* each service's setting, its default if nothing is stored
    persisted,   \* the services that have something stored
    timer,       \* the services whose interval timer is set
    first,       \* the pending timeouts of each for its first check
    check,       \* each service's check, if one is running
    ct,          \* each container: serving, replaced or gone
    age,         \* whole units since it was replaced
    locked,      \* containers that carry a lock of PVE
    sweep,       \* destroyAllLocked: the containers it has listed
    wanted,      \* what the operator last asked of each service
    overwritten, \* the services whose first check wrote over that
    wronged,     \* the grace periods of checks that destroyed a serving one
    settings, replaced, restarts

service == <<stored, persisted, timer, first>>
host    == <<ct, age, locked>>
counts  == <<settings, replaced, restarts>>
vars    == <<stored, persisted, timer, first, check, ct, age, locked, sweep, wanted,
             overwritten, wronged, settings, replaced, restarts>>

\* todo are the hosts a check has not visited, due the containers it has listed
\* and not yet tried, old those past the cutoff it computed when it began.
Idle == [running |-> FALSE, own |-> FALSE, held |-> Default("rotation"),
         todo |-> {}, old |-> {}, due |-> {}]

Checks == [running : BOOLEAN, own : BOOLEAN, held : Settings, todo : SUBSET Hosts,
           old : SUBSET Containers, due : SUBSET Containers]

TypeOK ==
    /\ stored \in [Services -> Settings] /\ persisted \subseteq Services
    /\ timer \subseteq Services /\ first \in [Services -> Nat]
    /\ check \in [Services -> Checks]
    /\ ct \in [Containers -> {"serving", "replaced", "gone"}]
    /\ age \in [Containers -> 0 .. MaxAge] /\ locked \subseteq Containers
    /\ sweep \subseteq Containers
    /\ wanted \in [Services -> BOOLEAN] /\ overwritten \subseteq Services
    /\ wronged \subseteq Nat
    /\ settings \in Nat /\ replaced \in Nat /\ restarts \in Nat

\* webapp.mts start*IfEnabled: an interval and a timeout for the first check.
Enabled(s) == stored[s].enabled
Started    == {s \in Services : Enabled(s)}

Init ==
    /\ stored = [s \in Services |-> Default(s)] /\ persisted = {}
    /\ timer = {s \in Services : Default(s).enabled}
    /\ first = [s \in Services |-> IF Default(s).enabled THEN 1 ELSE 0]
    /\ check = [s \in Services |-> Idle]
    /\ ct = [c \in Containers |-> "serving"] /\ age = [c \in Containers |-> 0]
    /\ locked = {} /\ sweep = {}
    /\ wanted = [s \in Services |-> Default(s).enabled]
    /\ overwritten = {} /\ wronged = {}
    /\ settings = 0 /\ replaced = 0 /\ restarts = 0

----------------------------------------------------------------------------
(* The operator's requests                                                 *)

Change(s, setting) ==
    /\ settings < MaxSettings
    /\ settings' = settings + 1
    /\ stored' = [stored EXCEPT ![s] = setting]
    /\ persisted' = persisted \cup {s}

\* setEnabled; stop() leaves the timeout of the first check pending.
SetEnabled(s, on) ==
    /\ Change(s, [stored[s] EXCEPT !.enabled = on])
    /\ timer' = IF on THEN timer \cup {s} ELSE timer \ {s}
    /\ first' = [first EXCEPT ![s] = IF on /\ s \notin timer THEN @ + 1 ELSE @]
    /\ wanted' = [wanted EXCEPT ![s] = on]
    /\ overwritten' = overwritten \ {s}
    /\ UNCHANGED <<check, host, sweep, wronged, replaced, restarts>>

SetGraceDays(days) ==
    /\ Change("cleanup", [stored["cleanup"] EXCEPT !.grace = days])
    /\ UNCHANGED <<timer, first, check, host, sweep, wanted, overwritten, wronged,
                   replaced, restarts>>

----------------------------------------------------------------------------
(* A check                                                                 *)

\* t < cutoffMs: the stamp is the beginning of a second, so that a container is
\* past the cutoff once the whole grace period is over, at once if it is 0.
Past(c, grace) == ct[c] = "replaced" /\ age[c] >= grace

\* Begun by the interval, by the first timeout or by a request; while one runs
\* another does nothing and its caller is given the status.
Begin(s) ==
    check' = [check EXCEPT ![s] =
        [running |-> TRUE, own |-> s \notin persisted, held |-> stored[s],
         todo |-> Hosts, due |-> {},
         old |-> IF s = "cleanup" THEN {c \in Containers : Past(c, stored[s].grace)}
                                  ELSE {}]]

BeginCheck(s) ==
    /\ ~check[s].running
    /\ Begin(s)
    /\ UNCHANGED <<service, host, sweep, wanted, overwritten, wronged, counts>>

FirstCheck(s) ==
    /\ first[s] > 0
    /\ first' = [first EXCEPT ![s] = @ - 1]
    /\ IF Enabled(s) /\ ~check[s].running THEN Begin(s) ELSE UNCHANGED check
    /\ UNCHANGED <<stored, persisted, timer, host, sweep, wanted, overwritten, wronged, counts>>

\* A host's script ran, failed or could not be reached: the next host.
Visit(s) ==
    /\ s # "cleanup" /\ check[s].running
    /\ \E h \in check[s].todo : check' = [check EXCEPT ![s].todo = @ \ {h}]
    /\ UNCHANGED <<service, host, sweep, wanted, overwritten, wronged, counts>>

\* Mutant: the listed containers are due whatever their age.
Due_Any(listed) == listed

\* Those replaced before the cutoff.
Due(listed) == listed \cap check["cleanup"].old

\* The replaced containers of one host; none if the listing failed.
ListReplaced ==
    /\ check["cleanup"].running /\ check["cleanup"].due = {}
    /\ \E h \in check["cleanup"].todo :
          \E listed \in {{}, {c \in Containers : HostOf[c] = h /\ ct[c] = "replaced"}} :
             check' = [check EXCEPT !["cleanup"].todo = @ \ {h},
                                    !["cleanup"].due = Due(listed)]
    /\ UNCHANGED <<service, host, sweep, wanted, overwritten, wronged, counts>>

\* host-destroy-replaced-container.sh looks at nothing but the vmid.
Destroyed(c) ==
    /\ ct' = [ct EXCEPT ![c] = "gone"]
    /\ locked' = locked \ {c}
    /\ UNCHANGED age

DestroyDue(c) ==
    /\ c \in check["cleanup"].due
    /\ check' = [check EXCEPT !["cleanup"].due = @ \ {c}]
    /\ Destroyed(c)
    /\ wronged' = IF ct[c] = "serving" THEN wronged \cup {check["cleanup"].held.grace}
                                       ELSE wronged
    /\ UNCHANGED <<service, sweep, wanted, overwritten, counts>>

\* The run's result is not read: a container that stays counts as destroyed.
DestroyFails(c) ==
    /\ c \in check["cleanup"].due
    /\ check' = [check EXCEPT !["cleanup"].due = @ \ {c}]
    /\ UNCHANGED <<service, host, sweep, wanted, overwritten, wronged, counts>>

\* Mutant: the storage context hands out copies of what it stores.
HoldsOwn_Copies(s) == check[s].running

\* The object the check holds is not the stored one.
HoldsOwn(s) == check[s].own

\* setState: what the check held is stored, with the check's results.
WriteBack(s) ==
    IF HoldsOwn(s)
    THEN /\ stored' = [stored EXCEPT ![s] = check[s].held]
         /\ persisted' = persisted \cup {s}
         /\ overwritten' = IF check[s].own /\ stored[s].enabled # check[s].held.enabled
                           THEN overwritten \cup {s} ELSE overwritten
    ELSE UNCHANGED <<stored, persisted, overwritten>>

\* Mutant: an error leaves the flag set.
AfterError_Running == [Idle EXCEPT !.running = TRUE, !.todo = {"none left"}]

\* finally: the flag is cleared.
AfterError == Idle

EndCheck(s) ==
    /\ check[s].running /\ check[s].todo = {} /\ check[s].due = {}
    /\ WriteBack(s)
    /\ check' = [check EXCEPT ![s] = Idle]
    /\ UNCHANGED <<timer, first, host, sweep, wanted, wronged, counts>>

\* An error outside the loop's own try, such as a CA provider that throws: the
\* hosts left are not visited.
CheckFails(s) ==
    /\ check[s].running /\ check[s].due = {}
    /\ WriteBack(s)
    /\ check' = [check EXCEPT ![s] = AfterError]
    /\ UNCHANGED <<timer, first, host, sweep, wanted, wronged, counts>>

----------------------------------------------------------------------------
(* destroyAllLocked and destroyContainers: no flag, no grace period        *)

\* The operator confirmed a number he saw; the containers are listed now.
SweepLists ==
    /\ sweep = {} /\ locked # {}
    /\ sweep' = locked
    /\ UNCHANGED <<service, check, host, wanted, overwritten, wronged, counts>>

SweepDestroys(c) ==
    /\ c \in sweep
    /\ sweep' = sweep \ {c}
    /\ \/ Destroyed(c)
       \/ UNCHANGED host
    /\ UNCHANGED <<service, check, wanted, overwritten, wronged, counts>>

\* The installations page names the containers itself.
DestroyNamed(c) ==
    /\ ct[c] = "replaced"
    /\ Destroyed(c)
    /\ UNCHANGED <<service, check, sweep, wanted, overwritten, wronged, counts>>

----------------------------------------------------------------------------
(* What happens on the hosts meanwhile, and restarts                       *)

Replace(c) ==
    /\ ct[c] = "serving" /\ c \notin locked /\ replaced < MaxReplaced
    /\ replaced' = replaced + 1
    /\ ct' = [ct EXCEPT ![c] = "replaced"]
    /\ age' = [age EXCEPT ![c] = 0]
    /\ locked' = locked \cup {c}
    /\ check' = [check EXCEPT !["cleanup"].old = @ \ {c}]
    /\ UNCHANGED <<service, sweep, wanted, overwritten, wronged, settings, restarts>>

\* The rollback of the task that replaced it, or of a restart of that task.
Revive(c) ==
    /\ ct[c] = "replaced" /\ age[c] <= RollbackWithin
    /\ ct' = [ct EXCEPT ![c] = "serving"]
    /\ locked' = locked \ {c}
    /\ UNCHANGED <<service, check, age, sweep, wanted, overwritten, wronged, counts>>

\* A backup locks a container that serves, and lets it go.
Backup(c) ==
    /\ ct[c] = "serving"
    /\ locked' = IF c \in locked THEN locked \ {c} ELSE locked \cup {c}
    /\ UNCHANGED <<service, check, ct, age, sweep, wanted, overwritten, wronged, counts>>

TimePasses ==
    /\ \E c \in Containers : ct[c] = "replaced" /\ age[c] < MaxAge
    /\ age' = [c \in Containers |->
                 IF ct[c] = "replaced" /\ age[c] < MaxAge THEN age[c] + 1 ELSE age[c]]
    /\ UNCHANGED <<service, check, ct, locked, sweep, wanted, overwritten, wronged, counts>>

\* What is in memory is lost; a script under way on a host may still end.
RestartDeployer ==
    /\ restarts < MaxRestarts
    /\ restarts' = restarts + 1
    /\ timer' = Started
    /\ first' = [s \in Services |-> IF s \in Started THEN 1 ELSE 0]
    /\ check' = [s \in Services |-> Idle]
    /\ sweep' = {}
    /\ \/ UNCHANGED <<host, wronged>>
       \/ \E c \in check["cleanup"].due :
             /\ Destroyed(c)
             /\ wronged' = IF ct[c] = "serving"
                           THEN wronged \cup {check["cleanup"].held.grace} ELSE wronged
       \/ \E c \in sweep : Destroyed(c) /\ UNCHANGED wronged
    /\ UNCHANGED <<stored, persisted, wanted, overwritten, settings, replaced>>

Operator ==
    \/ \E s \in Services, on \in BOOLEAN : SetEnabled(s, on)
    \/ \E days \in Graces : SetGraceDays(days)

Check(s) == BeginCheck(s) \/ FirstCheck(s) \/ Visit(s) \/ EndCheck(s) \/ CheckFails(s)

Cleanup == ListReplaced \/ \E c \in Containers : DestroyDue(c) \/ DestroyFails(c)

Sweep == SweepLists \/ \E c \in Containers : SweepDestroys(c) \/ DestroyNamed(c)

World ==
    \/ \E c \in Containers : Replace(c) \/ Revive(c) \/ Backup(c)
    \/ TimePasses
    \/ RestartDeployer

Next == Operator \/ (\E s \in Services : Check(s)) \/ Cleanup \/ Sweep \/ World

Spec == Init /\ [][Next]_vars

\* The interval fires while it is set, a check that began goes on, time passes.
\* A host that is asked again and again lists and destroys in the end.
IntervalFires(s) == s \in timer /\ BeginCheck(s)

Fairness ==
    /\ \A s \in Services : WF_vars(IntervalFires(s)) /\ WF_vars(EndCheck(s) \/ CheckFails(s))
    /\ WF_vars(ListReplaced)
    /\ WF_vars(TimePasses)
    /\ \A c \in Containers :
          /\ SF_vars(ListReplaced /\ c \in check'["cleanup"].due)
          /\ SF_vars(DestroyDue(c)) /\ WF_vars(DestroyDue(c) \/ DestroyFails(c))

FairSpec == Spec /\ Fairness

----------------------------------------------------------------------------
\* Whatever checks write back, a service runs by its timer exactly if that is
\* what the operator last asked for, unless its very first check was running
\* while he asked: that one holds an object of its own (getState, line 45).
SettingHolds ==
    \A s \in Services \ overwritten :
        stored[s].enabled = wanted[s] /\ (s \in timer <=> wanted[s])

\* A check destroys a container that serves only if the operator allowed a
\* grace period no longer than a rollback may take, 0 or a part of a day: from
\* the cutoff to the destruction nothing is looked at again, and the rollback of
\* a failed replacement may come in between (lines 176-195).
GraceCoversRollback == \A grace \in wronged : grace <= RollbackWithin

\* As long as the cleanup's timer runs, a replaced container goes in the end:
\* no failed or skipped check keeps later ones from running (line 236).
PastGraceGoes ==
    \A c \in Containers :
        ct[c] = "replaced" ~> (ct[c] # "replaced" \/ "cleanup" \notin timer)

=============================================================================

---------------------------- MODULE SelfUpgrade ----------------------------
(***************************************************************************)
(* The deployer replaces itself: a clone of it carries out the task, a new *)
(* container takes over, and two marker files, which travel with the       *)
(* copied /config volume, tell whoever boots next what is left to do.      *)
(*                                                                         *)
(*   self-upgrade-orchestrator.mts      on OLD: clone, start, trigger      *)
(*   lxc-start.sh (fast path)           on the PVE host, for the clone     *)
(*   upgrade-finalization-service.mts   at boot: stop OLD                  *)
(*   clone-cleanup-service.mts          at boot: adopt, destroy the clone  *)
(*                                                                         *)
(* Upgrades are numbered; each may have a clone and a successor of its own.*)
(* A container is up exactly while its deployer process lives.             *)
(***************************************************************************)
EXTENDS Naturals

CONSTANTS
    MaxUpgrades,   \* bound: requests to upgrade OLD
    MaxRestarts    \* bound: restarts of a deployer and reboots of the host

ASSUME SizeAssumption == MaxUpgrades \in Nat \ {0} /\ MaxRestarts \in Nat

Upgrades == 1 .. MaxUpgrades

Old      == <<"old", 0>>
Clone(u) == <<"clone", u>>
New(u)   == <<"new", u>>
Deployers == {Old} \cup ({"clone", "new"} \X Upgrades)

\* proxvex.mts before app.listen: both finalizers, then the server.
ProcPhases == {"down", "finalizing", "adopting", "destroying", "serving"}

TaskPhases == {"none", "accepted", "copied", "marked", "started", "over", "failed"}

Idle == [step |-> "idle", upgrade |-> 0]

VARIABLES
    there,      \* the deployers' containers that exist
    onboot,     \* those that start with the host
    locked,     \* OLD carries the lock that marks it replaced
    proc,       \* where each deployer's process is
    marker,     \* .pending-clone-cleanup.json in each /config: the upgrade, or 0
    post,       \* successors with .pending-post-upgrade.json in /config
    stopping,   \* the detached stop of OLD is scheduled
    task,       \* each upgrade's task, in the memory of who carries it
    inPlace,    \* upgrades OLD carries out itself, not by way of a clone
    hub,        \* the request OLD orchestrates
    asked,      \* upgrades asked for so far
    left,       \* clones nobody was told of, for a reason the actions name
    switched,   \* upgrades whose successor was handed the marker in post
    restarts

host  == <<there, onboot, locked>>
files == <<marker, post>>
told  == <<asked, left, switched, restarts>>
vars  == <<there, onboot, locked, proc, marker, post, stopping, task, inPlace,
           hub, asked, left, switched, restarts>>

Up(d) == proc[d] # "down"

\* A deployer's process ends: what it had in memory only is gone, and so is
\* what OLD knew of the clone it was busy with.
Carrier(u)    == IF u \in inPlace THEN Old ELSE Clone(u)
Stopped(S)    == [d \in Deployers |-> IF d \in S THEN "down" ELSE proc[d]]
TasksAfter(S) == [u \in Upgrades |-> IF Carrier(u) \in S THEN "none" ELSE task[u]]
HubAfter(S)   == IF Old \in S THEN Idle ELSE hub
LeftBy(S)     == IF Old \in S /\ hub # Idle THEN {hub.upgrade} ELSE {}

Init ==
    /\ there = {Old} /\ onboot = {Old} /\ locked = FALSE
    /\ proc = [d \in Deployers |-> IF d = Old THEN "serving" ELSE "down"]
    /\ marker = [d \in Deployers |-> 0] /\ post = {}
    /\ stopping = FALSE
    /\ task = [u \in Upgrades |-> "none"]
    /\ inPlace = {} /\ hub = Idle
    /\ asked = 0 /\ left = {} /\ switched = {} /\ restarts = 0

----------------------------------------------------------------------------
(* The request on OLD: handleVeConfiguration, self-upgrade branch          *)

Free == proc[Old] = "serving" /\ hub = Idle /\ asked < MaxUpgrades

HubSteps(from, to) ==
    /\ proc[Old] = "serving"
    /\ hub.step = from
    /\ hub' = IF to = "idle" THEN Idle ELSE [hub EXCEPT !.step = to]

\* shouldOrchestrateSelfUpgrade cannot tell (the probe or the detection of the
\* own vmid fails): the task is OLD's own, like any other.
AskInPlace ==
    /\ Free
    /\ asked' = asked + 1
    /\ inPlace' = inPlace \cup {asked'}
    /\ task' = [task EXCEPT ![asked'] = "accepted"]
    /\ UNCHANGED <<host, proc, files, stopping, hub, left, switched, restarts>>

\* cloneSelfAsTempDeployer: a full clone with OLD's /config and whatever
\* markers are in it; the script refuses a locked source.
CreateClone ==
    /\ Free /\ ~locked
    /\ asked' = asked + 1
    /\ there' = there \cup {Clone(asked')}
    /\ marker' = [marker EXCEPT ![Clone(asked')] = marker[Old]]
    /\ hub' = [step |-> "made", upgrade |-> asked']
    /\ UNCHANGED <<onboot, locked, proc, post, stopping, task, inPlace, left, switched, restarts>>

\* The script fails; what it made so far may stay, and nobody knows of it.
CreateFails ==
    /\ Free
    /\ asked' = asked + 1
    /\ \/ UNCHANGED <<there, left>>
       \/ /\ ~locked
          /\ there' = there \cup {Clone(asked')}
          /\ left' = left \cup {asked'}
    /\ UNCHANGED <<onboot, locked, proc, files, stopping, task, inPlace, hub, switched, restarts>>

\* startClone does not read the result of its run.
StartClone ==
    /\ HubSteps("made", "started")
    /\ proc' \in {proc, [proc EXCEPT ![Clone(hub.upgrade)] = "finalizing"]}
    /\ UNCHANGED <<host, files, stopping, task, inPlace, told>>

\* discoverCloneIp and waitForCloneApi, which answers behind the finalizers.
CloneAnswers ==
    /\ HubSteps("started", "ready")
    /\ proc[Clone(hub.upgrade)] = "serving"
    /\ UNCHANGED <<host, proc, files, stopping, task, inPlace, told>>

\* injectVeContextOnClone: the clone learns its PVE host; that its key is
\* authorized there is tried, and a failure of it only logged.
InjectContext ==
    /\ HubSteps("ready", "injected")
    /\ proc[Clone(hub.upgrade)] = "serving"
    /\ UNCHANGED <<host, proc, files, stopping, task, inPlace, told>>

\* triggerUpgradeViaClone: the clone answers with the key of its task.
Trigger ==
    /\ HubSteps("injected", "triggered")
    /\ proc[Clone(hub.upgrade)] = "serving"
    /\ task' = [task EXCEPT ![hub.upgrade] = "accepted"]
    /\ UNCHANGED <<host, proc, files, stopping, inPlace, told>>

\* An error or a timeout on the way ("manual cleanup may be necessary"), also
\* when only the answer to the POST is lost.
RequestFails ==
    /\ \E s \in {"made", "started", "ready", "injected"} : HubSteps(s, "idle")
    /\ left' = left \cup {hub.upgrade}
    /\ \/ UNCHANGED task
       \/ /\ hub.step = "injected" /\ proc[Clone(hub.upgrade)] = "serving"
          /\ task' = [task EXCEPT ![hub.upgrade] = "accepted"]
    /\ UNCHANGED <<host, proc, files, stopping, inPlace, asked, switched, restarts>>

\* writeCleanupMarker replaces what is there; a failure is only logged.
WriteMarker ==
    /\ HubSteps("triggered", "idle")
    /\ \/ marker' = [marker EXCEPT ![Old] = hub.upgrade] /\ UNCHANGED left
       \/ left' = left \cup {hub.upgrade} /\ UNCHANGED marker
    /\ UNCHANGED <<host, proc, post, stopping, task, inPlace, asked, switched, restarts>>

----------------------------------------------------------------------------
(* The task, carried out by the clone or in place                          *)

TaskSteps(u, from, to) ==
    /\ task[u] = from
    /\ task' = [task EXCEPT ![u] = to]

\* create-ct-clone.sh: NEW gets OLD's settings and a copy of its /config; what
\* OLD is told afterwards does not reach it.
CopyOld(u) ==
    /\ TaskSteps(u, "accepted", "copied")
    /\ ~locked
    /\ there' = there \cup {New(u)}
    /\ onboot' = IF Old \in onboot THEN onboot \cup {New(u)} ELSE onboot
    /\ marker' = [marker EXCEPT ![New(u)] = marker[Old]]
    /\ left' = IF u \in inPlace \/ marker[Old] = u THEN left ELSE left \cup {u}
    /\ UNCHANGED <<locked, proc, post, stopping, inPlace, hub, asked, switched, restarts>>

TaskFails(u) ==
    /\ \E s \in {"accepted", "copied"} : TaskSteps(u, s, "failed")
    /\ UNCHANGED <<host, proc, files, stopping, inPlace, hub, told>>

\* lxc-start.sh: the post-upgrade marker into NEW's /config, unless its path
\* cannot be found, then OLD is marked as replaced.
SwitchMarks(u) ==
    /\ TaskSteps(u, "copied", "marked")
    /\ \/ post' = post \cup {New(u)} /\ switched' = switched \cup {u}
       \/ UNCHANGED <<post, switched>>
    /\ onboot' = onboot \ {Old}
    /\ locked' = TRUE
    /\ UNCHANGED <<there, proc, marker, stopping, inPlace, hub, asked, left, restarts>>

SwitchStarts(u) ==
    /\ TaskSteps(u, "marked", "started")
    /\ proc' = [proc EXCEPT ![New(u)] = "finalizing"]
    /\ UNCHANGED <<host, files, stopping, inPlace, hub, told>>

\* NEW lived for five seconds: the stop of OLD is detached, the task is over.
SwitchEnds(u) ==
    /\ TaskSteps(u, "started", "over")
    /\ Up(New(u))
    /\ stopping' = TRUE
    /\ UNCHANGED <<host, proc, files, inPlace, hub, told>>

\* NEW does not start, or crashes at once; then the pause of the unfinished
\* rebuild takes its boot setting, if its script gets through.
SwitchFails(u) ==
    /\ \/ TaskSteps(u, "marked", "failed")
       \/ TaskSteps(u, "started", "failed") /\ proc[New(u)] \in {"finalizing", "down"}
    /\ proc' = [proc EXCEPT ![New(u)] = "down"]
    /\ onboot' \in {onboot, onboot \ {New(u)}}
    /\ UNCHANGED <<there, locked, files, stopping, inPlace, hub, told>>

\* pct shutdown || pct stop; either may fail, for the lock for one.
DetachedStop ==
    /\ stopping
    /\ stopping' = FALSE
    /\ \E S \in {{}, {Old}} :
          /\ proc' = Stopped(S) /\ task' = TasksAfter(S)
          /\ hub' = HubAfter(S) /\ left' = left \cup LeftBy(S)
    /\ UNCHANGED <<host, files, inPlace, asked, switched, restarts>>

----------------------------------------------------------------------------
(* Boot of a deployer                                                      *)

\* Mutant: the marker is dropped although OLD could not be stopped.
FinalizeFails_DropsMarker(d) ==
    /\ proc[d] = "finalizing" /\ d \in post
    /\ proc' = [proc EXCEPT ![d] = "adopting"]
    /\ post' = post \ {d}
    /\ UNCHANGED <<host, marker, stopping, task, inPlace, hub, told>>

NothingToFinalize(d) ==
    /\ proc[d] = "finalizing" /\ d \notin post
    /\ proc' = [proc EXCEPT ![d] = "adopting"]
    /\ UNCHANGED <<host, files, stopping, task, inPlace, hub, told>>

\* finalizeUpgradeIfPending: OLD is unlocked, stopped and marked as replaced
\* on the first host that has it; then the marker goes.
Finalize(d) ==
    /\ proc[d] = "finalizing" /\ d \in post
    /\ proc' = [Stopped({Old}) EXCEPT ![d] = "adopting"]
    /\ task' = TasksAfter({Old}) /\ hub' = HubAfter({Old})
    /\ left' = left \cup LeftBy({Old})
    /\ locked' = TRUE /\ onboot' = onboot \ {Old}
    /\ post' = post \ {d}
    /\ UNCHANGED <<there, marker, stopping, inPlace, asked, switched, restarts>>

\* No host answers, or the script fails on each: the next boot tries again.
FinalizeFails(d) ==
    /\ proc[d] = "finalizing" /\ d \in post
    /\ proc' = [proc EXCEPT ![d] = "adopting"]
    /\ UNCHANGED <<host, files, stopping, task, inPlace, hub, told>>

NothingToAdopt(d) ==
    /\ proc[d] = "adopting" /\ marker[d] = 0
    /\ proc' = [proc EXCEPT ![d] = "serving"]
    /\ UNCHANGED <<host, files, stopping, task, inPlace, hub, told>>

\* Mutant: the wait for the clone's task has no limit.
AdoptClone_WaitsForever(d) ==
    /\ proc[d] = "adopting" /\ marker[d] # 0
    /\ proc[Clone(marker[d])] = "serving" /\ task[marker[d]] \in {"over", "failed"}
    /\ proc' = [proc EXCEPT ![d] = "destroying"]
    /\ UNCHANGED <<host, files, stopping, task, inPlace, hub, told>>

\* waitForCloneTaskFinished, then bundle and messages: the task is over, or the
\* wait gives up, after eight minutes or 31 errors. What was adopted is in
\* TaskMessages.
AdoptClone(d) ==
    /\ proc[d] = "adopting" /\ marker[d] # 0
    /\ proc' = [proc EXCEPT ![d] = "destroying"]
    /\ UNCHANGED <<host, files, stopping, task, inPlace, hub, told>>

\* destroyClone, and the marker goes. The result of the run is not read: a
\* script that fails leaves the clone to nobody.
DestroyClone(d) ==
    LET u == marker[d]
        S == {Clone(u)} IN
    /\ proc[d] = "destroying"
    /\ marker' = [marker EXCEPT ![d] = 0]
    /\ \/ /\ there' = there \ S
          /\ proc' = [Stopped(S) EXCEPT ![d] = "serving"]
          /\ task' = TasksAfter(S)
          /\ UNCHANGED left
       \/ /\ Clone(u) \in there
          /\ proc' = [proc EXCEPT ![d] = "serving"]
          /\ left' = left \cup {u}
          /\ UNCHANGED <<there, task>>
    /\ UNCHANGED <<onboot, locked, post, stopping, inPlace, hub, asked, switched, restarts>>

\* Mutant: the marker goes however the destroy ended.
DestroyThrows_DropsMarker(d) ==
    /\ proc[d] = "destroying"
    /\ proc' = [proc EXCEPT ![d] = "serving"]
    /\ marker' = [marker EXCEPT ![d] = 0]
    /\ UNCHANGED <<host, post, stopping, task, inPlace, hub, told>>

\* The VE context or the script is missing: the marker stays; a clone's own copy
\* of it will go with the clone, while OLD's is about to be replaced.
DestroyThrows(d) ==
    /\ proc[d] = "destroying"
    /\ proc' = [proc EXCEPT ![d] = "serving"]
    /\ left' = IF d[1] = "clone" THEN left \cup {marker[d]} ELSE left
    /\ UNCHANGED <<host, files, stopping, task, inPlace, hub, asked, switched, restarts>>

Boot(d) ==
    \/ NothingToFinalize(d) \/ Finalize(d) \/ FinalizeFails(d)
    \/ NothingToAdopt(d) \/ AdoptClone(d)
    \/ DestroyClone(d) \/ DestroyThrows(d)

----------------------------------------------------------------------------
(* Around it                                                               *)

\* A deployer's container is restarted.
Restart(d) ==
    /\ restarts < MaxRestarts
    /\ Up(d)
    /\ restarts' = restarts + 1
    /\ proc' = [proc EXCEPT ![d] = "finalizing"]
    /\ task' = TasksAfter({d}) /\ hub' = HubAfter({d}) /\ left' = left \cup LeftBy({d})
    /\ UNCHANGED <<host, files, stopping, inPlace, asked, switched>>

HostReboots ==
    /\ restarts < MaxRestarts
    /\ restarts' = restarts + 1
    /\ proc' = [d \in Deployers |->
                  IF d \in onboot /\ ~(d = Old /\ locked) THEN "finalizing" ELSE "down"]
    /\ stopping' = FALSE
    /\ task' = TasksAfter(Deployers) /\ hub' = HubAfter(Deployers)
    /\ left' = left \cup LeftBy(Deployers)
    /\ UNCHANGED <<host, files, inPlace, asked, switched>>

\* The recovery lxc-start.sh prints when it aborts, while OLD is still up.
AdminRecovers ==
    /\ locked /\ Up(Old)
    /\ \E u \in Upgrades : task[u] = "failed"
    /\ locked' = FALSE /\ onboot' = onboot \cup {Old}
    /\ UNCHANGED <<there, proc, files, stopping, task, inPlace, hub, told>>

HubStep == AskInPlace \/ CreateClone \/ CreateFails \/ StartClone \/ CloneAnswers
           \/ InjectContext \/ Trigger \/ RequestFails \/ WriteMarker

TaskStep(u) == CopyOld(u) \/ TaskFails(u) \/ SwitchMarks(u) \/ SwitchStarts(u)
               \/ SwitchEnds(u) \/ SwitchFails(u)

Next ==
    \/ HubStep
    \/ \E u \in Upgrades : TaskStep(u)
    \/ \E d \in Deployers : Boot(d) \/ Restart(d)
    \/ DetachedStop \/ HostReboots \/ AdminRecovers

Spec == Init /\ [][Next]_vars

\* A boot goes on by itself: every wait in it is limited.
FairSpec == Spec /\ \A d \in Deployers : WF_vars(Boot(d))

----------------------------------------------------------------------------
(* Properties                                                              *)

TypeOK ==
    /\ there \subseteq Deployers /\ onboot \subseteq Deployers /\ locked \in BOOLEAN
    /\ proc \in [Deployers -> ProcPhases]
    /\ marker \in [Deployers -> 0 .. MaxUpgrades] /\ post \subseteq Deployers
    /\ stopping \in BOOLEAN
    /\ task \in [Upgrades -> TaskPhases] /\ inPlace \subseteq Upgrades
    /\ hub \in [step : {"idle", "made", "started", "ready", "injected", "triggered"},
                upgrade : 0 .. MaxUpgrades]
    /\ asked \in 0 .. MaxUpgrades
    /\ left \subseteq Upgrades /\ switched \subseteq Upgrades
    /\ restarts \in 0 .. MaxRestarts

\* A successor that was handed the marker, serves and has nothing left to
\* finalize is alone: OLD, which has the same address, is down and does not come
\* back, not even with the host (upgrade-finalization-service.mts:33-36). Of a
\* NEW that a reboot starts before the switchover nothing is said.
SuccessorAlone ==
    \A u \in switched :
        proc[New(u)] = "serving" /\ New(u) \notin post => ~Up(Old)

\* Every clone that exists is in the hands of the request that made it, or
\* named by the marker of another deployer that exists, so that a boot will
\* destroy it. The exceptions are the clones in left: the request failed or died
\* with the clone made, the marker could not be written or came after the copy
\* of /config, or the destroy failed without anybody reading it, or threw in a
\* later clone (clone-cleanup-service.mts:36-37).
ClonesRemembered ==
    \A u \in Upgrades \ left :
        Clone(u) \in there =>
            \/ hub # Idle /\ hub.upgrade = u
            \/ \E d \in there \ {Clone(u)} : marker[d] = u

\* Once the switchover was reported and its NEW runs on, NEW serves in the end,
\* however the clone's task, the finalizers and their waits go on; it may only
\* be taken down again.
TakesOver ==
    \A u \in Upgrades :
        task[u] = "over" ~> proc[New(u)] \in {"serving", "down"}

=============================================================================

--------------------------- MODULE Replacement ---------------------------
(***************************************************************************)
(* Replacing a container (reconfigure, upgrade): OLD is cloned into NEW,    *)
(* NEW is started and set up, and only at the end replace-ct.sh retires    *)
(* OLD.  The module follows the scripts that run on the PVE host command   *)
(* by command (json/shared/scripts), the hooks of the backend around them  *)
(* (rollback, pause after a failure, resume before a restart) and the      *)
(* maintenance actions an administrator has for what is left over.         *)
(*                                                                         *)
(* Scripts of three actors overlap: the task's, the pause nobody waits     *)
(* for, and the administrator's.  A pct command that a script only warns   *)
(* about (set, stop, and the start of OLD when nothing locks it) succeeds. *)
(***************************************************************************)
EXTENDS Naturals, FiniteSets

CONSTANTS
    Allowed,      \* circumstances of a run, see Circumstances
    MaxRestarts,  \* bound: restarts of the task
    MaxReboots    \* bound: reboots of the PVE host

Old == "OLD"
New == "NEW"
Containers == {Old, New}
Actors == {"task", "pause", "admin"}

\* What may happen around the scripts beyond what they wait for themselves.
Circumstances == {
    "lost_start",            \* lxc-start.sh works, its answer is lost
    "lost_replace",          \* replace-ct.sh works, its answer is lost
    "restart_during_pause",  \* a restart while the pause still runs
    "restart_after_admin",   \* a restart of a task an admin settled
    "admin_during_task"}     \* an admin acts while the task runs

ASSUME AllowedAssumption == Allowed \subseteq Circumstances
ASSUME BoundsAssumption == MaxRestarts \in Nat /\ MaxReboots \in Nat

VARIABLES
    static,    \* OLD and NEW share a static address (a task input)
    host,      \* the PVE host: which containers are there, run, ...
    run,       \* the task: running, failing (its end not handled), ...
    step,      \* the command the task is at
    started,   \* the task holds the output started = true
    pc,        \* where each actor's script is
    boot,      \* source_onboot as each actor's script read it
    settled,   \* how an administrator ended the rebuild
    met,       \* history: what no script guards against, see Encounters
    restarts, reboots

vars == <<static, host, run, step, started, pc, boot, settled, met, restarts,
          reboots>>

Host == [there    : SUBSET Containers,
         up       : SUBSET Containers,
         onboot   : SUBSET Containers,   \* start with the PVE host
         locked   : SUBSET Containers,   \* pct lock: no start, no clone
         replaced : SUBSET Containers,   \* notes say proxvex:replaced-at
         data     : SUBSET Containers,   \* managed volumes attached
         tagged   : SUBSET Containers]   \* proxvex-rebuild-of-<source>

Places == {"idle", "check", "start", "stop", "unlink", "mark", "disable", "lock",
           "boot", "destroy", "revive"}

Encounters == {
    "hasty_restart",     \* a restart while the pause still runs
    "late_rollback",     \* a rollback after OLD was retired
    "torn_retirement",   \* a reboot: OLD unlinked, but still started with the host
    "stray_clone"}       \* create-ct-clone.sh failed and left its clone behind

\* Every variable has the type the code gives it.
TypeOK ==
    /\ static \in BOOLEAN
    /\ host \in Host
    /\ run \in {"running", "failing", "failed", "completed", "lost"}
    /\ step \in {"clone", "start", "post", "replace", "check"}
    /\ started \in BOOLEAN
    /\ pc \in [Actors -> Places]
    /\ boot \in [Actors -> BOOLEAN]
    /\ settled \in {"no", "finished", "discarded"}
    /\ met \in SUBSET Encounters
    /\ restarts \in 0 .. MaxRestarts
    /\ reboots \in 0 .. MaxReboots

----------------------------------------------------------------------------
Ready(s) == run = "running" /\ step = s /\ pc["task"] = "idle"

\* pct start of OLD: refused while the container is locked.
Startable(c) == {c} \cap (host.there \ host.locked)

\* pct set --onboot 1 on NEW when OLD had it, as the script had read it.
TakesOver(actor) ==
    IF boot[actor] THEN host.onboot \cup ({New} \cap host.there) ELSE host.onboot

Without(c) ==
    [host EXCEPT !.there  = @ \ {c}, !.up       = @ \ {c},
                 !.onboot = @ \ {c}, !.locked   = @ \ {c},
                 !.data   = @ \ {c}, !.replaced = @ \ {c},
                 !.tagged = @ \ {c}]

\* OLD is there and was not replaced.
SourceLive == Old \in host.there \ host.replaced

NoScript == pc = [a \in Actors |-> "idle"]

AtRest == NoScript /\ run \notin {"running", "failing"}

At(actor, place) == pc[actor] = place

Goes(actor, place) == pc' = [pc EXCEPT ![actor] = place]

----------------------------------------------------------------------------
Init ==
    /\ static \in BOOLEAN
    /\ host = [there |-> {Old}, up |-> {Old}, onboot |-> {Old}, locked |-> {},
               replaced |-> {}, data |-> {Old}, tagged |-> {}]
    /\ run = "running"
    /\ step = "clone"
    /\ started = FALSE
    /\ pc = [a \in Actors |-> "idle"]
    /\ boot = [a \in Actors |-> FALSE]
    /\ settled = "no"
    /\ met = {}
    /\ restarts = 0
    /\ reboots = 0

inputs == <<static, met, restarts, reboots>>
rest   == <<settled, inputs>>

\* create-ct-clone.sh: NEW copies OLD's config, boot setting included.
CloneSource ==
    /\ Ready("clone")
    /\ Old \in host.there \ host.locked
    /\ New \notin host.there
    /\ host' = [host EXCEPT !.there  = @ \cup {New},
                            !.data   = @ \cup {New},
                            !.tagged = @ \cup {New},
                            !.onboot = IF Old \in @ THEN @ \cup {New} ELSE @]
    /\ step' = "start"
    /\ UNCHANGED <<run, started, pc, boot, rest>>

\* Any error of it: the trap leaves OLD as it was.  It destroys the clone only
\* while OLD is not restored: an error behind that, before the tag, leaves a
\* clone that boots like OLD, that no list shows and no script touches (a retry
\* takes another vmid), and that is not followed here.
CloneFails ==
    /\ Ready("clone")
    /\ run' = "failing"
    /\ \E stray \in SUBSET {"stray_clone"} :
          /\ stray # {} => Old \in host.there \ host.locked
          /\ met' = met \cup stray
    /\ UNCHANGED <<static, host, step, started, pc, boot, settled, restarts, reboots>>

\* lxc-start.sh without a NEW.
StartMissing ==
    /\ Ready("start")
    /\ New \notin host.there
    /\ run' = "failing"
    /\ UNCHANGED <<host, step, started, pc, boot, rest>>

\* lxc-start.sh with NEW up already: the one path that prints started=true.
StartAlreadyUp ==
    /\ Ready("start")
    /\ New \in host.up
    /\ started' = TRUE
    /\ step' = "post"
    /\ UNCHANGED <<host, run, pc, boot, rest>>

SharesAddress == static /\ Old \in host.up

\* lxc-start.sh takes OLD off the wire before NEW uses its address.
StartStopsOld ==
    /\ Ready("start")
    /\ New \in host.there \ host.up
    /\ SharesAddress
    /\ host' = [host EXCEPT !.onboot = @ \ {Old}, !.up = @ \ {Old}]
    /\ Goes("task", "start")
    /\ UNCHANGED <<run, step, started, boot, rest>>

AboutToStart ==
    \/ At("task", "start")
    \/ Ready("start") /\ New \in host.there \ host.up /\ ~SharesAddress

StartNew ==
    /\ AboutToStart
    /\ host' = [host EXCEPT !.up = @ \cup {New}]
    /\ Goes("task", "idle")
    /\ step' = "post"
    /\ UNCHANGED <<run, started, boot, rest>>

\* NEW is up, but the SSH session did not live to say so.
StartAnswerLost ==
    /\ "lost_start" \in Allowed
    /\ AboutToStart
    /\ host' = [host EXCEPT !.up = @ \cup {New}]
    /\ Goes("task", "idle")
    /\ run' = "failing"
    /\ UNCHANGED <<step, started, boot, rest>>

\* NEW does not start or exits at once: rollback_prev if OLD was stopped.  The
\* second pct start, which is to get at the message, may bring NEW up after all.
StartFails ==
    /\ AboutToStart
    /\ \E up \in SUBSET {New} :
          host' = IF At("task", "start")
                  THEN [host EXCEPT !.up = @ \cup up \cup Startable(Old),
                                    !.onboot = @ \cup {Old}]
                  ELSE [host EXCEPT !.up = @ \cup up]
    /\ Goes("task", "idle")
    /\ run' = "failing"
    /\ UNCHANGED <<step, started, boot, rest>>

\* The post_start commands, which need NEW up.
PostSucceeds ==
    /\ Ready("post")
    /\ New \in host.up
    /\ step' = "replace"
    /\ UNCHANGED <<host, run, started, pc, boot, rest>>

PostFails ==
    /\ Ready("post")
    /\ run' = "failing"
    /\ UNCHANGED <<host, step, started, pc, boot, rest>>

----------------------------------------------------------------------------
(* Retiring OLD, in replace-ct.sh and host-finish-unfinished-rebuild.sh:    *)
(* vol_unlink_persistent, then the three pct set of vol_mark_replaced.      *)

UnlinksOld(actor) ==
    /\ At(actor, "unlink")
    /\ host' = [host EXCEPT !.data = @ \ {Old}]
    /\ Goes(actor, "mark")
    /\ UNCHANGED <<run, step, started, boot, rest>>

MarksOld(actor) ==
    /\ At(actor, "mark")
    /\ host' = [host EXCEPT !.replaced = @ \cup ({Old} \cap host.there)]
    /\ Goes(actor, "disable")
    /\ UNCHANGED <<run, step, started, boot, rest>>

DisablesOld(actor) ==
    /\ At(actor, "disable")
    /\ host' = [host EXCEPT !.onboot = @ \ {Old}]
    /\ Goes(actor, "lock")
    /\ UNCHANGED <<run, step, started, boot, rest>>

LocksOld(actor) ==
    /\ At(actor, "lock")
    /\ host' = [host EXCEPT !.locked = @ \cup ({Old} \cap host.there)]
    /\ Goes(actor, "boot")
    /\ UNCHANGED <<run, step, started, boot, rest>>

Retires(actor) ==
    UnlinksOld(actor) \/ MarksOld(actor) \/ DisablesOld(actor) \/ LocksOld(actor)

----------------------------------------------------------------------------
(* replace-ct.sh, one action per command that another script can notice.   *)

ReplaceEnsuresNew ==
    /\ Ready("replace")
    /\ New \in host.there
    /\ host' = [host EXCEPT !.up = @ \cup {New}]
    /\ Goes("task", "stop")
    /\ UNCHANGED <<run, step, started, boot, rest>>

ReplaceCannotStart ==
    /\ Ready("replace")
    /\ New \notin host.up
    /\ host' = [host EXCEPT !.up = @ \cup Startable(Old)]
    /\ run' = "failing"
    /\ UNCHANGED <<step, started, pc, boot, rest>>

\* Mutant: the boot setting is read after OLD was marked, and lost.
ReplaceStopsOld_ReadsLate ==
    /\ At("task", "stop")
    /\ boot' = [boot EXCEPT !["task"] = FALSE]
    /\ host' = [host EXCEPT !.up = @ \ {Old}]
    /\ Goes("task", "unlink")
    /\ UNCHANGED <<run, step, started, rest>>

ReplaceStopsOld ==
    /\ At("task", "stop")
    /\ boot' = [boot EXCEPT !["task"] = Old \in host.onboot]
    /\ host' = [host EXCEPT !.up = @ \ {Old}]
    /\ Goes("task", "unlink")
    /\ UNCHANGED <<run, step, started, rest>>

ReplaceHandsOver ==
    /\ At("task", "boot")
    /\ host' = [host EXCEPT !.onboot = TakesOver("task"), !.tagged = @ \ {New}]
    /\ Goes("task", "idle")
    /\ UNCHANGED <<started, boot, rest>>

ReplaceEnds ==
    /\ ReplaceHandsOver
    /\ step' = "check"
    /\ UNCHANGED run

\* The same, and nobody hears of it.
ReplaceAnswerLost ==
    /\ "lost_replace" \in Allowed
    /\ ReplaceHandsOver
    /\ run' = "failing"
    /\ UNCHANGED step

\* The application's check templates, appended to every task: they come last,
\* behind replace-ct.sh.
ChecksPass ==
    /\ Ready("check")
    /\ New \in host.up
    /\ run' = "completed"
    /\ UNCHANGED <<host, step, started, pc, boot, rest>>

CheckFails ==
    /\ Ready("check")
    /\ run' = "failing"
    /\ UNCHANGED <<host, step, started, pc, boot, rest>>

----------------------------------------------------------------------------
(* The backend around the scripts.                                         *)

\* rollback-failed-replacement.sh.
RolledBack ==
    [host EXCEPT !.up     = (@ \ {New}) \cup ({Old} \cap host.there),
                 !.onboot = (@ \ {New}) \cup ({Old} \cap host.there),
                 !.locked = @ \ {Old}]

Cloned == step # "clone"

\* Mutant: the hook that pauses NEW is missing.
TaskFails_NoPause ==
    /\ run = "failing"
    /\ At("pause", "idle")
    /\ host' = IF started THEN RolledBack ELSE host
    /\ run' = "failed"
    /\ UNCHANGED <<step, started, pc, boot, rest>>

\* rollbackFailedReplacement, then the message "Failed", whose listener
\* starts the pause without waiting for it.  Bound: one pause at a time.
TaskFails ==
    /\ run = "failing"
    /\ At("pause", "idle")
    /\ host' = IF started THEN RolledBack ELSE host
    /\ run' = "failed"
    /\ IF Cloned THEN Goes("pause", "check") ELSE UNCHANGED pc
    /\ met' = met \cup {c \in {"late_rollback"} : started /\ ~SourceLive}
    /\ UNCHANGED <<static, step, started, boot, settled, restarts, reboots>>

PauseChecks ==
    /\ At("pause", "check")
    /\ Goes("pause", IF New \in host.tagged /\ Old \in host.up
                     THEN "stop" ELSE "idle")
    /\ UNCHANGED <<host, run, step, started, boot, rest>>

PauseStopsNew ==
    /\ At("pause", "stop")
    /\ host' = [host EXCEPT !.up = @ \ {New}]
    /\ Goes("pause", "boot")
    /\ UNCHANGED <<run, step, started, boot, rest>>

PauseEnds ==
    /\ At("pause", "boot")
    /\ host' = [host EXCEPT !.onboot = @ \ {New}]
    /\ Goes("pause", "idle")
    /\ UNCHANGED <<run, step, started, boot, rest>>

\* handleVeRestart: past the start command NEW is started again first, and
\* the restart is refused when that fails.
Restart ==
    /\ run = "failed"
    /\ restarts < MaxRestarts
    /\ At("admin", "idle") \/ "admin_during_task" \in Allowed
    /\ At("pause", "idle") \/ "restart_during_pause" \in Allowed
    /\ settled = "no" \/ "restart_after_admin" \in Allowed
    /\ host' = IF step \in {"post", "replace"}
               THEN [host EXCEPT !.up = @ \cup host.tagged]
               ELSE host
    /\ run' = "running"
    /\ restarts' = restarts + 1
    /\ met' = met \cup {c \in {"hasty_restart"} : ~At("pause", "idle")}
    /\ UNCHANGED <<static, step, started, pc, boot, settled, reboots>>

----------------------------------------------------------------------------
(* The administrator, on an entry of the list of unfinished rebuilds; the   *)
(* list may be stale, so the scripts look again.                           *)

Listed ==
    /\ At("admin", "idle")
    /\ AtRest \/ "admin_during_task" \in Allowed
    /\ New \in host.tagged

\* host-finish-unfinished-rebuild.sh with nothing left to retire.
FinishOnlyClears ==
    /\ Listed
    /\ ~SourceLive
    /\ host' = [host EXCEPT !.tagged = @ \ {New}]
    /\ settled' = "finished"
    /\ UNCHANGED <<run, step, started, pc, boot, inputs>>

FinishStartsNew ==
    /\ Listed
    /\ SourceLive
    /\ host' = [host EXCEPT !.up = @ \cup {New}, !.locked = @ \ {Old}]
    /\ boot' = [boot EXCEPT !["admin"] = Old \in host.onboot]
    /\ Goes("admin", "stop")
    /\ UNCHANGED <<run, step, started, rest>>

\* Mutant: the source is retired while it runs.
FinishStopsOld_Skipped ==
    /\ At("admin", "stop")
    /\ Goes("admin", "unlink")
    /\ UNCHANGED <<host, run, step, started, boot, rest>>

FinishStopsOld ==
    /\ At("admin", "stop")
    /\ host' = [host EXCEPT !.up = @ \ {Old}]
    /\ Goes("admin", "unlink")
    /\ UNCHANGED <<run, step, started, boot, rest>>

FinishEnds ==
    /\ At("admin", "boot")
    /\ host' = [host EXCEPT !.onboot = TakesOver("admin"), !.tagged = @ \ {New}]
    /\ Goes("admin", "idle")
    /\ settled' = "finished"
    /\ UNCHANGED <<run, step, started, boot, inputs>>

\* Mutant: a replaced source does not keep NEW from being destroyed.
DiscardChecks_AnySource ==
    /\ Listed
    /\ Goes("admin", "destroy")
    /\ UNCHANGED <<host, run, step, started, boot, rest>>

\* host-discard-unfinished-rebuild.sh: refuse unless OLD can take over.
DiscardChecks ==
    /\ Listed
    /\ SourceLive
    /\ Goes("admin", "destroy")
    /\ UNCHANGED <<host, run, step, started, boot, rest>>

DiscardDestroysNew ==
    /\ At("admin", "destroy")
    /\ host' = Without(New)
    /\ Goes("admin", "revive")
    /\ UNCHANGED <<run, step, started, boot, rest>>

DiscardStartsOld ==
    /\ At("admin", "revive")
    /\ host' = [host EXCEPT !.up = @ \cup Startable(Old)]
    /\ Goes("admin", "idle")
    /\ settled' = "discarded"
    /\ UNCHANGED <<run, step, started, boot, inputs>>

----------------------------------------------------------------------------
\* Mutant: whatever does not run is destroyed.
CleanupDestroysOld_NotRunning ==
    /\ AtRest
    /\ Old \in host.there \ host.up
    /\ host' = Without(Old)
    /\ UNCHANGED <<run, step, started, pc, boot, rest>>

\* The replaced-container cleanup and host-destroy-replaced-container.sh: the
\* grace period is longer than any script.
CleanupDestroysOld ==
    /\ AtRest
    /\ Old \in host.there \cap host.replaced
    /\ host' = Without(Old)
    /\ UNCHANGED <<run, step, started, pc, boot, rest>>

\* OLD has lost its volumes, and is not yet kept from starting with the host.
HalfRetired == \E a \in {"task", "admin"} : pc[a] \in {"mark", "disable"}

\* The PVE host reboots, and with it the deployer, whose tasks are only in
\* memory: scripts end where they are, a task is not taken up again.
HostReboots ==
    /\ reboots < MaxReboots
    /\ reboots' = reboots + 1
    /\ host' = [host EXCEPT !.up = host.onboot \ host.locked]
    /\ run' = IF run = "completed" THEN run ELSE "lost"
    /\ pc' = [a \in Actors |-> "idle"]
    /\ met' = met \cup {c \in {"torn_retirement"} : HalfRetired}
    /\ UNCHANGED <<static, step, started, boot, settled, restarts>>

TaskStep ==
    \/ CloneSource \/ CloneFails
    \/ StartMissing \/ StartAlreadyUp \/ StartStopsOld
    \/ StartNew \/ StartAnswerLost \/ StartFails
    \/ PostSucceeds \/ PostFails
    \/ ReplaceEnsuresNew \/ ReplaceCannotStart \/ ReplaceStopsOld
    \/ Retires("task") \/ ReplaceEnds \/ ReplaceAnswerLost
    \/ ChecksPass \/ CheckFails
    \/ TaskFails

PauseStep == PauseChecks \/ PauseStopsNew \/ PauseEnds

AdminStep ==
    \/ FinishOnlyClears \/ FinishStartsNew \/ FinishStopsOld
    \/ Retires("admin") \/ FinishEnds
    \/ DiscardChecks \/ DiscardDestroysNew \/ DiscardStartsOld

Next ==
    \/ TaskStep \/ PauseStep \/ AdminStep
    \/ Restart \/ CleanupDestroysOld \/ HostReboots

Spec == Init /\ [][Next]_vars

----------------------------------------------------------------------------
(* Properties                                                              *)

\* Some container that was not replaced is always there: neither discard,
\* nor the cleanup, nor a failing clone takes the last one
\* (host-discard-unfinished-rebuild.sh, replaced-container-cleanup-service).
LiveInstance == host.there \ host.replaced # {}

\* A container that runs has its managed volumes: nobody brings OLD back after
\* replace-ct.sh or host-finish unlinked them.  Two do, and are left out: a
\* rollback after OLD was retired, and a host that reboots between the unlinking
\* and the pct set that keeps OLD from starting with it (vol-common.sh:981).
ServesWithItsData ==
    met \cap {"late_rollback", "torn_retirement"} = {} => host.up \subseteq host.data

\* When everything has settled exactly one of the two serves.  Something runs,
\* unless a reboot hit the moment between retiring OLD and handing NEW its boot
\* setting (left out are reboots with a static address, where lxc-start.sh
\* takes OLD's boot setting away and only its own failure path gives it back);
\* and after a task that failed or completed OLD and NEW do not run side by side.
OneServes ==
    /\ AtRest /\ met = {} /\ (static => reboots = 0) =>
          \/ host.up # {}
          \/ run = "lost" /\ ~SourceLive
    /\ AtRest /\ run \in {"failed", "completed"} => host.up # Containers

\* A completed replacement survives a reboot: with an address of its own NEW
\* starts with the host, and OLD does not.
BootsLikeBefore ==
    run = "completed" /\ ~static /\ met = {} => host.onboot = {New}

\* The promise of Handover: the installation moves from OLD to NEW once.
Promise == INSTANCE Handover
             WITH live  <- IF SourceLive THEN Old ELSE New,
                  there <- host.there
KeepsPromise == Promise!Spec

=============================================================================

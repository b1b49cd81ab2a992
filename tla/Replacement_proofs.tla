------------------------ MODULE Replacement_proofs ------------------------
(***************************************************************************)
(* The installation never loses its last container, what serves has its    *)
(* volumes, one of the two serves and the boot setting moves, for every    *)
(* bound, with and without a static address, under lost answers, hasty and *)
(* late restarts and reboots, provided the administrator acts only while   *)
(* no task and no script runs.                                             *)
(***************************************************************************)
EXTENDS Replacement, TLAPS

\* An entry of the list of unfinished rebuilds is acted on at rest only.
AdminWaits == "admin_during_task" \notin Allowed

\* NEW is never retired, and one of the two is always there to serve.
NewIsLive == New \notin host.replaced
OneIsLive == SourceLive \/ New \in host.there

\* Only clones carry the tag, and only while they exist.
TagMeansThere == host.tagged \subseteq {New} \cap host.there

\* The commands that retire OLD.
Retirement == {"unlink", "mark", "disable", "lock"}

\* Behind its first command replace-ct.sh has a NEW to rely on.
TaskScript ==
    /\ pc["task"] # "idle" => run = "running"
    /\ pc["task"] \in {"stop", "boot"} \cup Retirement => New \in host.there

\* The administrator's scripts run alone, and what they checked still holds.
AdminScript ==
    /\ pc["admin"] # "idle" => run \notin {"running", "failing"}
    /\ pc["admin"] \in {"stop", "boot"} \cup Retirement => New \in host.there
    /\ pc["admin"] = "destroy" => SourceLive

Safe ==
    /\ NewIsLive
    /\ OneIsLive
    /\ TagMeansThere
    /\ TaskScript
    /\ AdminScript

IInv == TypeOK /\ Safe

----------------------------------------------------------------------------
LEMMA Names == Old # New /\ Containers = {Old, New}
  BY DEF Old, New, Containers

LEMMA TypeInit == Init => TypeOK
<1> SUFFICES ASSUME Init PROVE TypeOK
  OBVIOUS
<1>1. host \in Host
  BY DEF Init, Host, Containers, Old, New
<1>2. restarts \in 0 .. MaxRestarts /\ reboots \in 0 .. MaxReboots
  BY BoundsAssumption DEF Init
<1>3. /\ pc \in [Actors -> Places]
      /\ boot \in [Actors -> BOOLEAN]
  BY DEF Init, Actors, Places
<1> QED BY <1>1, <1>2, <1>3 DEF Init, TypeOK

\* Moving one script on keeps the places typed.
LEMMA GoesTyped ==
    ASSUME TypeOK, NEW a \in Actors, NEW p \in Places, Goes(a, p)
    PROVE  pc' \in [Actors -> Places]
BY DEF TypeOK, Goes

LEMMA HostTyped ==
    ASSUME host \in Host
    PROVE  /\ RolledBack \in Host
           /\ Without(Old) \in Host
           /\ Without(New) \in Host
           /\ \A a \in Actors : TakesOver(a) \subseteq Containers
           /\ Startable(Old) \subseteq Containers
BY DEF Host, RolledBack, Without, TakesOver, Startable, Containers, Old, New

\* A pct set, start or stop keeps the record typed.
LEMMA UpTyped ==
    ASSUME host \in Host, NEW S \in SUBSET Containers, NEW T \in SUBSET Containers
    PROVE  /\ [host EXCEPT !.up = S] \in Host
           /\ [host EXCEPT !.onboot = T] \in Host
           /\ [host EXCEPT !.up = S, !.onboot = T] \in Host
           /\ [host EXCEPT !.onboot = T, !.up = S] \in Host
           /\ [host EXCEPT !.tagged = T] \in Host
           /\ [host EXCEPT !.onboot = S, !.tagged = T] \in Host
           /\ [host EXCEPT !.up = S, !.locked = T] \in Host
           /\ [host EXCEPT !.data = S] \in Host
           /\ [host EXCEPT !.replaced = S] \in Host
           /\ [host EXCEPT !.locked = S] \in Host
BY DEF Host

LEMMA FieldsTyped ==
    ASSUME host \in Host
    PROVE  /\ host.there \in SUBSET Containers /\ host.up \in SUBSET Containers
           /\ host.onboot \in SUBSET Containers /\ host.locked \in SUBSET Containers
           /\ host.data \in SUBSET Containers /\ host.tagged \in SUBSET Containers
           /\ host.replaced \in SUBSET Containers
           /\ {Old} \in SUBSET Containers /\ {New} \in SUBSET Containers
BY Names DEF Host

LEMMA BootTyped ==
    ASSUME TypeOK, NEW a \in Actors, NEW b \in BOOLEAN
    PROVE  [boot EXCEPT ![a] = b] \in [Actors -> BOOLEAN]
BY DEF TypeOK

\* Unlinking, marking, disabling and locking OLD, by the task or the admin.
LEMMA RetiresTyped ==
    ASSUME TypeOK, NEW a \in Actors, Retires(a)
    PROVE  TypeOK'
<1>1. host' \in Host
  <2>1. host \in Host
    BY DEF TypeOK
  <2> QED BY <2>1, FieldsTyped, UpTyped
          DEF Retires, UnlinksOld, MarksOld, DisablesOld, LocksOld
<1>2. pc' \in [Actors -> Places]
  BY GoesTyped DEF Retires, UnlinksOld, MarksOld, DisablesOld, LocksOld, Places
<1> QED BY <1>1, <1>2 DEF Retires, UnlinksOld, MarksOld, DisablesOld, LocksOld, TypeOK,
                           rest, inputs

LEMMA TypeTask ==
    ASSUME TypeOK, TaskStep
    PROVE  TypeOK'
<1>0. /\ "task" \in Actors /\ "pause" \in Actors /\ "admin" \in Actors
      /\ host \in Host
  BY DEF Actors, TypeOK
<1> USE FieldsTyped, <1>0
<1>1. CASE CloneSource
  <2>1. host' \in Host
    BY <1>1 DEF CloneSource, Host, Containers
  <2> QED BY <1>1, <2>1 DEF CloneSource, TypeOK, rest, inputs
<1>2. CASE CloneFails
  <2>1. met' \in SUBSET Encounters
    BY <1>2 DEF CloneFails, Encounters, TypeOK
  <2> QED BY <1>2, <2>1 DEF CloneFails, TypeOK
<1>3. CASE StartMissing
  <2> QED BY <1>3 DEF StartMissing, TypeOK, rest, inputs
<1>4. CASE StartAlreadyUp
  <2> QED BY <1>4 DEF StartAlreadyUp, TypeOK, rest, inputs
<1>5. CASE StartStopsOld
  <2>1. host' \in Host
    BY <1>5, UpTyped DEF StartStopsOld
  <2>2. pc' \in [Actors -> Places]
    BY <1>5, GoesTyped DEF StartStopsOld, Places
  <2> QED BY <1>5, <2>1, <2>2 DEF StartStopsOld, TypeOK, rest, inputs
<1>6. CASE StartNew
  <2>1. host' \in Host
    BY <1>6, UpTyped DEF StartNew
  <2>2. pc' \in [Actors -> Places]
    BY <1>6, GoesTyped DEF StartNew, Places
  <2> QED BY <1>6, <2>1, <2>2 DEF StartNew, TypeOK, rest, inputs
<1>7. CASE StartAnswerLost
  <2>1. host' \in Host
    BY <1>7, UpTyped DEF StartAnswerLost
  <2>2. pc' \in [Actors -> Places]
    BY <1>7, GoesTyped DEF StartAnswerLost, Places
  <2> QED BY <1>7, <2>1, <2>2 DEF StartAnswerLost, TypeOK, rest, inputs
<1>8. CASE StartFails
  <2>1. host' \in Host
    <3>1. PICK up \in SUBSET {New} :
             host' = IF At("task", "start")
                     THEN [host EXCEPT !.up = @ \cup up \cup Startable(Old),
                                       !.onboot = @ \cup {Old}]
                     ELSE [host EXCEPT !.up = @ \cup up]
      BY <1>8 DEF StartFails
    <3> QED BY <3>1, UpTyped, HostTyped
  <2>2. pc' \in [Actors -> Places]
    BY <1>8, GoesTyped DEF StartFails, Places
  <2> QED BY <1>8, <2>1, <2>2 DEF StartFails, TypeOK, rest, inputs
<1>9. CASE PostSucceeds
  <2> QED BY <1>9 DEF PostSucceeds, TypeOK, rest, inputs
<1>10. CASE PostFails
  <2> QED BY <1>10 DEF PostFails, TypeOK, rest, inputs
<1>11. CASE ReplaceEnsuresNew
  <2>1. host' \in Host
    BY <1>11, UpTyped DEF ReplaceEnsuresNew
  <2>2. pc' \in [Actors -> Places]
    BY <1>11, GoesTyped DEF ReplaceEnsuresNew, Places
  <2> QED BY <1>11, <2>1, <2>2 DEF ReplaceEnsuresNew, TypeOK, rest, inputs
<1>12. CASE ReplaceCannotStart
  <2>1. host' \in Host
    BY <1>12, UpTyped, HostTyped DEF ReplaceCannotStart
  <2> QED BY <1>12, <2>1 DEF ReplaceCannotStart, TypeOK, rest, inputs
<1>13. CASE ReplaceStopsOld
  <2>1. host' \in Host
    BY <1>13, UpTyped DEF ReplaceStopsOld
  <2>2. pc' \in [Actors -> Places]
    BY <1>13, GoesTyped DEF ReplaceStopsOld, Places
  <2>3. boot' \in [Actors -> BOOLEAN]
    <3>1. (Old \in host.onboot) \in BOOLEAN
      OBVIOUS
    <3>2. boot' = [boot EXCEPT !["task"] = (Old \in host.onboot)]
      BY <1>13 DEF ReplaceStopsOld
    <3>3. [boot EXCEPT !["task"] = (Old \in host.onboot)] \in [Actors -> BOOLEAN]
      BY <3>1, BootTyped, Zenon
    <3> QED BY <3>2, <3>3, Zenon
  <2> QED BY <1>13, <2>1, <2>2, <2>3 DEF ReplaceStopsOld, TypeOK, rest, inputs
<1>14. CASE Retires("task")
  BY <1>14, RetiresTyped
<1>15. CASE ReplaceEnds \/ ReplaceAnswerLost
  <2>1. ReplaceHandsOver
    BY <1>15 DEF ReplaceEnds, ReplaceAnswerLost
  <2>2. host' \in Host
    BY <2>1, UpTyped, HostTyped DEF ReplaceHandsOver
  <2>3. pc' \in [Actors -> Places]
    BY <2>1, GoesTyped DEF ReplaceHandsOver, Places
  <2> QED BY <1>15, <2>1, <2>2, <2>3
          DEF ReplaceEnds, ReplaceAnswerLost, ReplaceHandsOver, TypeOK, rest, inputs
<1>16. CASE TaskFails
  <2>1. host' \in Host
    BY <1>16, HostTyped DEF TaskFails
  <2>2. pc' \in [Actors -> Places]
    BY <1>16, GoesTyped DEF TaskFails, Places, TypeOK
  <2>3. met' \in SUBSET Encounters
    BY <1>16 DEF TaskFails, Encounters, TypeOK
  <2> QED BY <1>16, <2>1, <2>2, <2>3 DEF TaskFails, TypeOK
<1>17. CASE ChecksPass \/ CheckFails
  <2> QED BY <1>17 DEF ChecksPass, CheckFails, TypeOK, rest, inputs
<1> QED BY <1>1, <1>2, <1>3, <1>4, <1>5, <1>6, <1>7, <1>8, <1>9, <1>10, <1>11, <1>12,
   <1>13, <1>14, <1>15, <1>16, <1>17 DEF TaskStep

LEMMA TypeOthers ==
    ASSUME TypeOK, PauseStep \/ AdminStep \/ Restart \/ CleanupDestroysOld \/
       HostReboots
    PROVE  TypeOK'
<1>0. /\ "task" \in Actors /\ "pause" \in Actors /\ "admin" \in Actors
      /\ host \in Host
  BY DEF Actors, TypeOK
<1> USE FieldsTyped, <1>0
<1>1. CASE PauseChecks
  <2>1. pc' \in [Actors -> Places]
    BY <1>1, GoesTyped DEF PauseChecks, Places
  <2> QED BY <1>1, <2>1 DEF PauseChecks, TypeOK, rest, inputs
<1>2. CASE PauseStopsNew
  <2>1. host' \in Host
    BY <1>2, UpTyped DEF PauseStopsNew
  <2>2. pc' \in [Actors -> Places]
    BY <1>2, GoesTyped DEF PauseStopsNew, Places
  <2> QED BY <1>2, <2>1, <2>2 DEF PauseStopsNew, TypeOK, rest, inputs
<1>3. CASE PauseEnds
  <2>1. host' \in Host
    BY <1>3, UpTyped DEF PauseEnds
  <2>2. pc' \in [Actors -> Places]
    BY <1>3, GoesTyped DEF PauseEnds, Places
  <2> QED BY <1>3, <2>1, <2>2 DEF PauseEnds, TypeOK, rest, inputs
<1>4. CASE FinishOnlyClears
  <2>1. host' \in Host
    BY <1>4, UpTyped DEF FinishOnlyClears
  <2> QED BY <1>4, <2>1 DEF FinishOnlyClears, TypeOK, rest, inputs
<1>5. CASE FinishStartsNew
  <2>1. host' \in Host
    BY <1>5, UpTyped DEF FinishStartsNew
  <2>2. pc' \in [Actors -> Places]
    BY <1>5, GoesTyped DEF FinishStartsNew, Places
  <2>3. boot' \in [Actors -> BOOLEAN]
    <3>1. (Old \in host.onboot) \in BOOLEAN
      OBVIOUS
    <3>2. boot' = [boot EXCEPT !["admin"] = (Old \in host.onboot)]
      BY <1>5 DEF FinishStartsNew
    <3>3. [boot EXCEPT !["admin"] = (Old \in host.onboot)] \in [Actors -> BOOLEAN]
      BY <3>1, BootTyped, Zenon
    <3> QED BY <3>2, <3>3, Zenon
  <2> QED BY <1>5, <2>1, <2>2, <2>3 DEF FinishStartsNew, TypeOK, rest, inputs
<1>6. CASE FinishStopsOld
  <2>1. host' \in Host
    BY <1>6, UpTyped DEF FinishStopsOld
  <2>2. pc' \in [Actors -> Places]
    BY <1>6, GoesTyped DEF FinishStopsOld, Places
  <2> QED BY <1>6, <2>1, <2>2 DEF FinishStopsOld, TypeOK, rest, inputs
<1>7. CASE Retires("admin")
  BY <1>7, RetiresTyped
<1>8. CASE FinishEnds
  <2>1. host' \in Host
    BY <1>8, UpTyped, HostTyped DEF FinishEnds
  <2>2. pc' \in [Actors -> Places]
    BY <1>8, GoesTyped DEF FinishEnds, Places
  <2> QED BY <1>8, <2>1, <2>2 DEF FinishEnds, TypeOK, rest, inputs
<1>9. CASE DiscardChecks
  <2>1. pc' \in [Actors -> Places]
    BY <1>9, GoesTyped DEF DiscardChecks, Places
  <2> QED BY <1>9, <2>1 DEF DiscardChecks, TypeOK, rest, inputs
<1>10. CASE DiscardDestroysNew
  <2>1. host' \in Host
    BY <1>10, HostTyped DEF DiscardDestroysNew
  <2>2. pc' \in [Actors -> Places]
    BY <1>10, GoesTyped DEF DiscardDestroysNew, Places
  <2> QED BY <1>10, <2>1, <2>2 DEF DiscardDestroysNew, TypeOK, rest, inputs
<1>11. CASE DiscardStartsOld
  <2>1. host' \in Host
    BY <1>11, UpTyped, HostTyped DEF DiscardStartsOld
  <2>2. pc' \in [Actors -> Places]
    BY <1>11, GoesTyped DEF DiscardStartsOld, Places
  <2> QED BY <1>11, <2>1, <2>2 DEF DiscardStartsOld, TypeOK, rest, inputs
<1>12. CASE Restart
  <2>1. host' \in Host
    BY <1>12, UpTyped DEF Restart
  <2>2. restarts' \in 0 .. MaxRestarts
    BY <1>12, BoundsAssumption DEF Restart, TypeOK
  <2>3. met' \in SUBSET Encounters
    BY <1>12 DEF Restart, Encounters, TypeOK
  <2> QED BY <1>12, <2>1, <2>2, <2>3 DEF Restart, TypeOK
<1>13. CASE CleanupDestroysOld
  <2>1. host' \in Host
    BY <1>13, HostTyped DEF CleanupDestroysOld
  <2> QED BY <1>13, <2>1 DEF CleanupDestroysOld, TypeOK, rest, inputs
<1>14. CASE HostReboots
  <2>1. host' \in Host
    BY <1>14, UpTyped DEF HostReboots
  <2>2. reboots' \in 0 .. MaxReboots
    BY <1>14, BoundsAssumption DEF HostReboots, TypeOK
  <2>3. pc' \in [Actors -> Places]
    BY <1>14, <1>0 DEF HostReboots, Places
  <2>4. met' \in SUBSET Encounters
    BY <1>14 DEF HostReboots, Encounters, TypeOK
  <2> QED BY <1>14, <2>1, <2>2, <2>3, <2>4 DEF HostReboots, TypeOK
<1> QED BY <1>1, <1>2, <1>3, <1>4, <1>5, <1>6, <1>7, <1>8, <1>9, <1>10, <1>11, <1>12,
   <1>13, <1>14 DEF PauseStep, AdminStep

LEMMA TypeStep ==
    ASSUME TypeOK, [Next]_vars
    PROVE  TypeOK'
<1>1. CASE UNCHANGED vars
  BY <1>1 DEF vars, TypeOK
<1> QED BY <1>1, TypeTask, TypeOthers DEF Next

\* All variables keep their types.
THEOREM TypeCorrect == Spec => []TypeOK
<1>1. Init => TypeOK
  BY TypeInit
<1>2. TypeOK /\ [Next]_vars => TypeOK'
  BY TypeStep
<1> QED BY <1>1, <1>2, PTL DEF Spec

----------------------------------------------------------------------------
(* The last container.                                                     *)

LEMMA SafeInit == Init => Safe
BY Names DEF Init, Safe, NewIsLive, OneIsLive, SourceLive, TagMeansThere, TaskScript,
   AdminScript, Actors, Retirement

\* Marking OLD with NEW there: NEW carries on, OLD is live no more.
LEMMA RetireSafe ==
    ASSUME TypeOK, Safe, New \in host.there, NEW a \in Actors, MarksOld(a)
    PROVE  /\ NewIsLive' /\ OneIsLive' /\ TagMeansThere'
           /\ host'.there = host.there
           /\ ~SourceLive'
BY Names DEF TypeOK, Host, Safe, NewIsLive, OneIsLive, SourceLive, TagMeansThere, MarksOld

\* Nothing a live container rests on changes.
SameLives ==
    /\ host'.there = host.there
    /\ host'.replaced = host.replaced
    /\ host'.tagged \subseteq host.tagged

LEMMA SameLivesSafe ==
    ASSUME TypeOK, Safe, SameLives
    PROVE  /\ NewIsLive' /\ OneIsLive' /\ TagMeansThere'
           /\ SourceLive' <=> SourceLive
           /\ New \in host'.there <=> New \in host.there
BY DEF SameLives, Safe, NewIsLive, OneIsLive, SourceLive, TagMeansThere

\* Retiring OLD but for the mark.
Withdraws(actor) == UnlinksOld(actor) \/ DisablesOld(actor) \/ LocksOld(actor)

\* The steps that neither create, nor destroy, nor mark.
Harmless ==
    \/ CloneFails \/ StartMissing \/ StartAlreadyUp \/ StartStopsOld \/ StartNew
    \/ StartAnswerLost \/ StartFails \/ PostSucceeds \/ PostFails
    \/ ReplaceEnsuresNew \/ ReplaceCannotStart \/ ReplaceStopsOld \/ ReplaceEnds
    \/ ReplaceAnswerLost \/ ChecksPass \/ CheckFails
    \/ TaskFails \/ PauseStep \/ Restart
    \/ FinishOnlyClears \/ FinishStartsNew \/ FinishStopsOld \/ FinishEnds
    \/ DiscardChecks \/ DiscardStartsOld \/ HostReboots
    \/ Withdraws("task") \/ Withdraws("admin")

LEMMA HarmlessLives ==
    ASSUME TypeOK, Harmless
    PROVE  SameLives
<1>0. host \in Host
  BY DEF TypeOK
<1>1. CASE CloneFails \/ StartMissing \/ StartAlreadyUp \/ PostSucceeds \/ PostFails
           \/ PauseChecks \/ DiscardChecks \/ ChecksPass \/ CheckFails
  BY <1>1 DEF ChecksPass, CheckFails, CloneFails, StartMissing, StartAlreadyUp, PostSucceeds, PostFails,
     PauseChecks, DiscardChecks, SameLives
<1>2. CASE StartStopsOld \/ StartNew \/ StartAnswerLost \/ StartFails
  BY <1>0, <1>2 DEF StartStopsOld, StartNew, StartAnswerLost, StartFails, SameLives, Host
<1>3. CASE ReplaceEnsuresNew \/ ReplaceCannotStart \/ ReplaceStopsOld \/ ReplaceEnds
           \/ ReplaceAnswerLost
  BY <1>0, <1>3 DEF ReplaceEnsuresNew, ReplaceCannotStart, ReplaceStopsOld, ReplaceEnds,
     ReplaceAnswerLost, ReplaceHandsOver, SameLives, Host
<1>4. CASE TaskFails \/ PauseStopsNew \/ PauseEnds \/ Restart \/ HostReboots
  BY <1>0, <1>4 DEF TaskFails, RolledBack, PauseStopsNew, PauseEnds, Restart,
     HostReboots, SameLives, Host
<1>5. CASE FinishOnlyClears \/ FinishStartsNew \/ FinishStopsOld \/ FinishEnds
           \/ DiscardStartsOld
  BY <1>0, <1>5 DEF FinishOnlyClears, FinishStartsNew, FinishStopsOld, FinishEnds,
     DiscardStartsOld, SameLives, Host
<1>6. CASE Withdraws("task") \/ Withdraws("admin")
  BY <1>0, <1>6 DEF Withdraws, UnlinksOld, DisablesOld, LocksOld, SameLives, Host
<1> QED BY <1>1, <1>2, <1>3, <1>4, <1>5, <1>6 DEF Harmless, PauseStep

LEMMA HarmlessScripts ==
    ASSUME TypeOK, Safe, Harmless, AdminWaits
    PROVE  TaskScript' /\ AdminScript'
<1>0. /\ pc \in [Actors -> Places]
      /\ Actors = {"task", "pause", "admin"}
      /\ SourceLive' <=> SourceLive
      /\ New \in host'.there <=> New \in host.there
      /\ TaskScript /\ AdminScript /\ TagMeansThere
  BY HarmlessLives, SameLivesSafe DEF TypeOK, Actors, Safe
<1> USE DEF Retirement
<1>1. CASE CloneFails \/ StartMissing \/ StartAlreadyUp \/ PostSucceeds \/ PostFails
           \/ ReplaceCannotStart \/ ChecksPass \/ CheckFails
  BY <1>0, <1>1 DEF ChecksPass, CheckFails, CloneFails, StartMissing, StartAlreadyUp, PostSucceeds, PostFails,
     ReplaceCannotStart, Ready, TaskScript, AdminScript
<1>2. CASE StartStopsOld \/ StartNew \/ StartAnswerLost \/ StartFails
  BY <1>0, <1>2 DEF StartStopsOld, StartNew, StartAnswerLost, StartFails, AboutToStart,
     At, Goes, Ready, TaskScript, AdminScript
<1>3. CASE ReplaceEnsuresNew \/ ReplaceStopsOld \/ ReplaceEnds \/ ReplaceAnswerLost
  BY <1>0, <1>3 DEF ReplaceEnsuresNew, ReplaceStopsOld, ReplaceEnds, ReplaceAnswerLost,
     ReplaceHandsOver, At, Goes, Ready, TaskScript, AdminScript
<1>4. CASE TaskFails \/ PauseStep
  BY <1>0, <1>4 DEF TaskFails, PauseStep, PauseChecks, PauseStopsNew, PauseEnds, At, Goes,
     TaskScript, AdminScript
<1>5. CASE Restart
  BY <1>0, <1>5 DEF Restart, At, AdminWaits, TaskScript, AdminScript
<1>6. CASE FinishOnlyClears \/ FinishStopsOld \/ FinishEnds \/ DiscardStartsOld
  BY <1>0, <1>6 DEF FinishOnlyClears, FinishStopsOld, FinishEnds, DiscardStartsOld, At,
     Goes, TaskScript, AdminScript
<1>7. CASE FinishStartsNew \/ DiscardChecks
  BY <1>0, <1>7 DEF FinishStartsNew, DiscardChecks, Listed, AtRest, AdminWaits, At, Goes,
     TagMeansThere, TaskScript, AdminScript
<1>8. CASE HostReboots
  BY <1>0, <1>8 DEF HostReboots, TaskScript, AdminScript
<1>9. CASE Withdraws("task") \/ Withdraws("admin")
  BY <1>0, <1>9 DEF Withdraws, UnlinksOld, DisablesOld, LocksOld, At, Goes, TaskScript,
     AdminScript
<1> QED BY <1>1, <1>2, <1>3, <1>4, <1>5, <1>6, <1>7, <1>8, <1>9 DEF Harmless

LEMMA SafeStep ==
    ASSUME IInv, [Next]_vars, AdminWaits
    PROVE  Safe'
<1> USE DEF IInv, Retirement
<1>0. /\ pc \in [Actors -> Places] /\ host \in Host
      /\ Actors = {"task", "pause", "admin"}
      /\ NewIsLive /\ OneIsLive /\ TagMeansThere /\ TaskScript /\ AdminScript
  BY DEF TypeOK, Actors, Safe
<1>1. CASE UNCHANGED vars
  BY <1>0, <1>1 DEF vars, Safe, NewIsLive, OneIsLive, SourceLive, TagMeansThere,
     TaskScript, AdminScript
<1>2. CASE Harmless
  BY <1>2, HarmlessLives, SameLivesSafe, HarmlessScripts DEF Safe
<1>3. CASE CloneSource
  <2>1. /\ host'.there = host.there \cup {New}
        /\ host'.replaced = host.replaced
        /\ host'.tagged = host.tagged \cup {New}
        /\ pc' = pc /\ run' = run /\ run = "running"
    BY <1>0, <1>3 DEF CloneSource, Ready, Host
  <2> QED BY <1>0, <2>1, Names DEF Safe, NewIsLive, OneIsLive, SourceLive,
        TagMeansThere, TaskScript, AdminScript
<1>4. ASSUME NEW a \in {"task", "admin"}, MarksOld(a) PROVE Safe'
  <2>1. New \in host.there
    BY <1>0, <1>4 DEF MarksOld, At, TaskScript, AdminScript
  <2>2. /\ NewIsLive' /\ OneIsLive' /\ TagMeansThere'
        /\ host'.there = host.there
    BY <1>0, <1>4, <2>1, RetireSafe
  <2>3. TaskScript' /\ AdminScript'
    BY <1>0, <1>4, <2>1, <2>2 DEF MarksOld, At, Goes, rest, TaskScript, AdminScript
  <2> QED BY <2>2, <2>3 DEF Safe
<1>5. CASE DiscardDestroysNew
  <2>1. /\ SourceLive /\ pc["task"] = "idle"
        /\ run \notin {"running", "failing"}
    BY <1>0, <1>5 DEF DiscardDestroysNew, At, TaskScript, AdminScript
  <2>2. /\ host'.there = host.there \ {New}
        /\ host'.replaced = host.replaced \ {New}
        /\ host'.tagged = host.tagged \ {New}
    BY <1>0, <1>5 DEF DiscardDestroysNew, Without, Host
  <2>3. pc' = [pc EXCEPT !["admin"] = "revive"] /\ run' = run
    BY <1>5 DEF DiscardDestroysNew, Goes
  <2> QED BY <1>0, <2>1, <2>2, <2>3, Names DEF Safe, NewIsLive, OneIsLive, SourceLive,
        TagMeansThere, TaskScript, AdminScript
<1>6. CASE CleanupDestroysOld
  <2>1. /\ pc' = pc /\ run' = run /\ pc = [a \in Actors |-> "idle"]
        /\ Old \in host.replaced
    BY <1>6 DEF CleanupDestroysOld, AtRest, NoScript
  <2>2. /\ host'.there = host.there \ {Old}
        /\ host'.replaced = host.replaced \ {Old}
        /\ host'.tagged = host.tagged \ {Old}
    BY <1>0, <1>6 DEF CleanupDestroysOld, Without, Host
  <2> QED BY <1>0, <2>1, <2>2, Names DEF Safe, NewIsLive, OneIsLive, SourceLive,
        TagMeansThere, TaskScript, AdminScript
<1> QED BY <1>1, <1>2, <1>3, <1>4, <1>5, <1>6
        DEF Next, TaskStep, AdminStep, Harmless, Retires, Withdraws

LEMMA SafeAlways == AdminWaits /\ Spec => []IInv
<1> SUFFICES ASSUME AdminWaits PROVE Spec => []IInv
  OBVIOUS
<1>1. Init => IInv
  BY TypeInit, SafeInit DEF IInv
<1>2. IInv /\ [Next]_vars => IInv'
  BY TypeStep, SafeStep DEF IInv
<1> QED BY <1>1, <1>2, PTL DEF Spec

(* Some container that was not replaced is always there, if the             *)
(* administrator waits for the task (host-discard-unfinished-rebuild.sh).   *)
THEOREM LiveInstanceKept ==
    ASSUME AdminWaits
    PROVE  Spec => []LiveInstance
<1>1. IInv => LiveInstance
  BY DEF IInv, Safe, NewIsLive, OneIsLive, SourceLive, LiveInstance
<1>2. Spec => []IInv
  BY SafeAlways
<1> QED BY <1>1, <1>2, PTL

LiveOne == IF SourceLive THEN Old ELSE New

\* Every step of the scripts is a step of the handover, or none.
LEMMA StepHandsOver ==
    ASSUME IInv, [Next]_vars, AdminWaits
    PROVE  [Promise!Next]_<<LiveOne, host.there>>
<1> USE DEF IInv, LiveOne
<1>0. /\ host \in Host
      /\ NewIsLive /\ OneIsLive /\ TaskScript /\ AdminScript
  BY DEF TypeOK, Safe
<1>1. CASE UNCHANGED vars
  BY <1>1 DEF vars, SourceLive
<1>2. CASE Harmless
  <2>1. SameLives /\ (SourceLive' <=> SourceLive)
    BY <1>2, HarmlessLives, SameLivesSafe
  <2> QED BY <2>1 DEF SameLives
<1>3. CASE CloneSource
  <2>1. /\ host'.there = host.there \cup {New}
        /\ host'.replaced = host.replaced
    BY <1>0, <1>3 DEF CloneSource, Host
  <2>2. SourceLive' <=> SourceLive
    BY <2>1, Names DEF SourceLive
  <2> QED BY <2>1, <2>2 DEF Promise!Next, Promise!Create
<1>4. ASSUME NEW a \in {"task", "admin"}, MarksOld(a)
      PROVE  [Promise!Next]_<<LiveOne, host.there>>
  <2>1. New \in host.there /\ a \in Actors
    BY <1>0, <1>4 DEF MarksOld, At, TaskScript, AdminScript, Retirement, Actors
  <2>2. host'.there = host.there /\ ~SourceLive'
    BY <1>4, <2>1, RetireSafe DEF Safe
  <2>3. CASE SourceLive
    BY <2>1, <2>2, <2>3 DEF Promise!Next, Promise!Commit
  <2>4. CASE ~SourceLive
    BY <2>2, <2>4
  <2> QED BY <2>3, <2>4
<1>5. CASE DiscardDestroysNew
  <2>1. SourceLive
    BY <1>0, <1>5 DEF DiscardDestroysNew, At, AdminScript
  <2>2. /\ host'.there = host.there \ {New}
        /\ host'.replaced = host.replaced \ {New}
    BY <1>0, <1>5 DEF DiscardDestroysNew, Without, Host
  <2>3. SourceLive'
    BY <2>1, <2>2, Names DEF SourceLive
  <2> QED BY <2>1, <2>2, <2>3, Names DEF Promise!Next, Promise!Destroy
<1>6. CASE CleanupDestroysOld
  <2>1. ~SourceLive
    BY <1>6 DEF CleanupDestroysOld, SourceLive
  <2>2. host'.there = host.there \ {Old}
    BY <1>0, <1>6 DEF CleanupDestroysOld, Without, Host
  <2>3. ~SourceLive'
    BY <2>2 DEF SourceLive
  <2> QED BY <2>1, <2>2, <2>3, Names DEF Promise!Next, Promise!Destroy
<1> QED BY <1>1, <1>2, <1>3, <1>4, <1>5, <1>6
        DEF Next, TaskStep, AdminStep, Harmless, Retires, Withdraws

(* The scripts implement the handover: the installation moves from OLD to   *)
(* NEW once, and only the container it does not rest on is destroyed.       *)
THEOREM HandoverKept ==
    ASSUME AdminWaits
    PROVE  Spec => KeepsPromise
<1>1. Init => Promise!Init
  BY Names DEF Init, Promise!Init, SourceLive
<1>2. IInv /\ [Next]_vars => [Promise!Next]_<<LiveOne, host.there>>
  BY StepHandsOver
<1>3. Spec => []IInv
  BY SafeAlways
<1> QED BY <1>1, <1>2, <1>3, PTL DEF Spec, KeepsPromise, Promise!Spec, LiveOne

----------------------------------------------------------------------------
(* What serves has its data, and one of the two serves.                    *)

\* What runs or boots is there and has its volumes; a live OLD is not locked.
Attached ==
    /\ host.up \subseteq host.there /\ host.onboot \subseteq host.there
    /\ host.locked \subseteq {Old}
    /\ New \in host.there => New \in host.data
    /\ SourceLive => Old \notin host.locked
    /\ SourceLive /\ "torn_retirement" \notin met =>
          Old \in host.data \/ \E a \in {"task", "admin"} : pc[a] = "mark"

Shut == Old \notin host.up /\ (Old \in host.there => Old \in host.locked)

\* Nobody starts OLD: it is locked, or a script is about to lock it, or was
\* when the host rebooted and left it neither started nor anybody to start it.
Guarded ==
    \/ Old \notin host.there
    \/ Old \in host.locked
    \/ \E a \in {"task", "admin"} : pc[a] = "disable"
    \/ /\ Old \notin host.onboot
       /\ run = "lost" \/ \E a \in {"task", "admin"} : pc[a] = "lock"

\* Once marked OLD is down, and stays down.
Retreat ==
    met \cap {"late_rollback", "torn_retirement"} = {} /\ ~SourceLive =>
        Old \notin host.up /\ Guarded

\* What the scripts of the task and of the administrator rely on.
Scripts ==
    /\ pc["task"] = "start" => /\ Containers \subseteq host.there /\ New \notin host.up
                               /\ static /\ step = "start"
    /\ pc["task"] \in {"stop", "boot"} \cup Retirement => step = "replace"
    /\ \A a \in {"task", "admin"} :
          /\ pc[a] \in Retirement => Old \notin host.up
          /\ pc[a] \in {"disable", "lock", "boot"} => ~SourceLive
          /\ pc[a] = "mark" => Old \notin host.data
          /\ pc[a] = "lock" => Old \notin host.onboot
          /\ pc[a] = "boot" => Shut
    /\ pc["admin"] \in {"stop", "boot"} \cup Retirement => New \in host.up
    /\ pc["admin"] = "revive" => New \notin host.there /\ SourceLive
    /\ pc["admin"] # "idle" => pc["pause"] = "idle" /\ step # "check"
    /\ step = "check" => New \notin host.tagged

\* A NEW that was handed over, or was finished, and has lost its tag.
Untagged == New \in host.there /\ New \notin host.tagged

\* How far the task is says what NEW can be.
ByStep ==
    /\ step = "clone" => New \notin host.there
    /\ step \in {"clone", "start"} => ~started /\ "late_rollback" \notin met
    /\ step = "start" /\ run # "lost" =>
          /\ Untagged => New \in host.up
          /\ run = "failing" \/ pc["pause"] # "idle" => ~Untagged
    /\ step = "check" => ~SourceLive
    /\ run = "completed" => step = "check"
    /\ "torn_retirement" \in met => run = "lost"
    /\ New \in host.tagged =>
          /\ "late_rollback" \notin met
          /\ \/ SourceLive
             \/ run = "lost"
             \/ \E a \in {"task", "admin"} : pc[a] \in {"disable", "lock", "boot"}

\* OLD and NEW run side by side only while a script is at it.
Apart ==
    /\ Untagged => ~SourceLive
    /\ Untagged /\ "torn_retirement" \notin met =>
          /\ ~(Containers \subseteq host.onboot \ host.locked)
          /\ pc["task"] # "stop" => host.up # Containers
    /\ run = "failed" /\ pc["pause"] = "idle" /\ pc["admin"] = "idle" => host.up # Containers
    /\ run = "failed" /\ pc["pause"] = "boot" => New \notin host.up

\* The pause only takes a NEW down next to a running OLD.
Pauses ==
    met = {} =>
        /\ run \in {"running", "failing"} => pc["pause"] = "idle"
        /\ pc["pause"] \in {"stop", "boot"} => Old \in host.up
        /\ pc["task"] \in {"stop", "boot"} \cup Retirement => New \in host.up

\* Who is live runs, but for the moments in which a script has stopped it.
Served ==
    met = {} /\ (static => reboots = 0) =>
        /\ ~SourceLive /\ run # "lost" => New \in host.up
        /\ SourceLive => host.up # {} \/ pc["task"] = "start" \/ pc["admin"] = "revive"

\* Without a shared address the boot setting stays with who is live.
Boots ==
    ~static =>
        /\ SourceLive => Old \in host.onboot
        /\ pc["task"] \in {"unlink", "mark"} /\ SourceLive => boot["task"]
        /\ pc["admin"] \in {"stop", "unlink", "mark"} /\ SourceLive => boot["admin"]
        /\ met = {} /\ run # "lost" /\ ~SourceLive =>
              /\ Old \notin host.onboot \/ \E a \in {"task", "admin"} : pc[a] = "disable"
              /\ \/ New \in host.onboot
                 \/ \E a \in {"task", "admin"} :
                       pc[a] \in {"disable", "lock", "boot"} /\ boot[a]

DataInv == IInv /\ Attached /\ Retreat /\ Scripts
ServiceInv == DataInv /\ ByStep /\ Apart /\ Pauses /\ Served /\ Boots

(* Every command of the three actors, one by one.                           *)
LEMMA ServiceStep ==
    ASSUME ServiceInv, [Next]_vars, AdminWaits
    PROVE  (Attached /\ Retreat /\ Scripts /\ ByStep /\ Apart /\ Pauses /\ Served /\ Boots)'
<1>0. /\ host \in Host /\ pc \in [Actors -> Places] /\ Actors = {"task", "pause", "admin"}
      /\ host.there \subseteq Containers /\ host.up \subseteq Containers
      /\ host.onboot \subseteq Containers /\ host.locked \subseteq Containers
      /\ OneIsLive /\ NewIsLive /\ TagMeansThere /\ TaskScript /\ AdminScript
      /\ Containers = {Old, New} /\ Old # New
      /\ boot \in [Actors -> BOOLEAN] /\ reboots \in Nat
  BY Names DEF ServiceInv, DataInv, IInv, TypeOK, Actors, Safe, Host
<1> USE <1>0 DEF ServiceInv, DataInv, Attached, Retreat, Shut, Guarded, Scripts, ByStep, Apart,
                 Pauses, Served, Boots, Untagged, SourceLive, OneIsLive, TagMeansThere,
                 TaskScript, AdminScript, Retirement
<1>1. CASE UNCHANGED vars
  BY <1>1 DEF vars
<1>24. CASE CloneFails
  <2>1. /\ \E stray \in SUBSET {"stray_clone"} : met' = met \cup stray
        /\ run = "running" /\ run' = "failing" /\ pc["task"] = "idle" /\ step = "clone"
        /\ UNCHANGED <<static, host, step, started, pc, boot, reboots>>
    BY <1>24 DEF CloneFails, Ready
  <2>2. /\ met' = {} => met = {}
        /\ \A c \in Encounters \ {"stray_clone"} : c \in met' <=> c \in met
    BY <2>1 DEF Encounters
  <2>3. /\ "late_rollback" \in met' <=> "late_rollback" \in met
        /\ "torn_retirement" \in met' <=> "torn_retirement" \in met
    BY <2>2 DEF Encounters
  <2>4. (Attached /\ Retreat /\ Scripts)'
    BY <2>1, <2>3
  <2>5. (ByStep /\ Apart)'
    BY <2>1, <2>3
  <2>6. (Pauses /\ Served /\ Boots)'
    BY <2>1, <2>2
  <2> QED BY <2>4, <2>5, <2>6
<1>2. CASE StartMissing \/ StartAlreadyUp \/ PostSucceeds \/ PostFails
           \/ ChecksPass \/ CheckFails
  BY <1>2 DEF StartMissing, StartAlreadyUp, PostSucceeds, PostFails, ChecksPass, CheckFails,
              Ready, rest, inputs
<1>3. CASE PauseChecks
  BY <1>3 DEF PauseChecks, At, Goes, rest, inputs
<1>4. CASE DiscardChecks
  BY <1>4 DEF DiscardChecks, Listed, AtRest, NoScript, AdminWaits, At, Goes, rest, inputs
<1>5. CASE CloneSource
  <2>1. /\ host'.there = host.there \cup {New} /\ host'.data = host.data \cup {New}
        /\ host'.onboot = IF Old \in host.onboot THEN host.onboot \cup {New} ELSE host.onboot
        /\ host'.locked = host.locked /\ host'.replaced = host.replaced
        /\ host'.tagged = host.tagged \cup {New} /\ host'.up = host.up
    BY <1>5 DEF CloneSource, Host
  <2>2. (Attached /\ Retreat /\ Scripts)'
    BY <1>5, <2>1 DEF CloneSource, Ready, rest, inputs, NewIsLive
  <2>3. ByStep'
    BY <1>5, <2>1 DEF CloneSource, Ready, rest, inputs, NewIsLive
  <2>4. Apart'
    BY <1>5, <2>1 DEF CloneSource, Ready, rest, inputs, NewIsLive
  <2>5. Pauses' /\ Served'
    BY <1>5, <2>1 DEF CloneSource, Ready, rest, inputs, NewIsLive
  <2>6. Boots'
    BY <1>5, <2>1 DEF CloneSource, Ready, rest, inputs, NewIsLive
  <2> QED BY <2>2, <2>3, <2>4, <2>5, <2>6
<1>6. CASE StartStopsOld
  <2>1. /\ host'.there = host.there /\ host'.data = host.data
        /\ host'.onboot = host.onboot \ {Old} /\ host'.up = host.up \ {Old}
        /\ host'.locked = host.locked /\ host'.replaced = host.replaced
        /\ host'.tagged = host.tagged
    BY <1>6 DEF StartStopsOld, Host
  <2> QED BY <1>6, <2>1 DEF StartStopsOld, SharesAddress, Ready, Goes, rest, inputs
<1>7. CASE StartNew \/ StartAnswerLost
  <2>1. /\ host'.there = host.there /\ host'.data = host.data
        /\ host'.onboot = host.onboot /\ host'.up = host.up \cup {New}
        /\ host'.locked = host.locked /\ host'.replaced = host.replaced
        /\ host'.tagged = host.tagged
    BY <1>7 DEF StartNew, StartAnswerLost, Host
  <2>2. (Attached /\ Retreat /\ Scripts)'
    BY <1>7, <2>1 DEF StartNew, StartAnswerLost, AboutToStart, At, Ready, Goes, rest,
       inputs
  <2>3. ByStep'
    BY <1>7, <2>1 DEF StartNew, StartAnswerLost, AboutToStart, At, Ready, Goes, rest,
       inputs
  <2>4. Apart'
    BY <1>7, <2>1 DEF StartNew, StartAnswerLost, AboutToStart, At, Ready, Goes, rest,
       inputs
  <2>5. Pauses' /\ Served'
    BY <1>7, <2>1 DEF StartNew, StartAnswerLost, AboutToStart, At, Ready, Goes, rest,
       inputs
  <2>6. Boots'
    BY <1>7, <2>1 DEF StartNew, StartAnswerLost, AboutToStart, At, Ready, Goes, rest,
       inputs
  <2> QED BY <2>2, <2>3, <2>4, <2>5, <2>6
<1>8. CASE StartFails
  <2>1. /\ host'.there = host.there /\ host'.data = host.data
        /\ host'.onboot = IF pc["task"] = "start" THEN host.onboot \cup {Old} ELSE host.onboot
        /\ \E up \in SUBSET {New} :
              host'.up = IF pc["task"] = "start" THEN host.up \cup up \cup Startable(Old)
                                                 ELSE host.up \cup up
        /\ host'.locked = host.locked /\ host'.replaced = host.replaced
        /\ host'.tagged = host.tagged
    <3>1. PICK up \in SUBSET {New} :
             host' = IF At("task", "start")
                     THEN [host EXCEPT !.up = @ \cup up \cup Startable(Old),
                                       !.onboot = @ \cup {Old}]
                     ELSE [host EXCEPT !.up = @ \cup up]
      BY <1>8 DEF StartFails
    <3>2. host'.up = IF pc["task"] = "start" THEN host.up \cup up \cup Startable(Old)
                                             ELSE host.up \cup up
      BY <3>1 DEF At, Host
    <3> QED BY <3>1, <3>2 DEF At, Host
  <2>2. (Attached /\ Retreat /\ Scripts)'
    BY <1>8, <2>1 DEF StartFails, AboutToStart, Startable, At, Ready, Goes, rest, inputs
  <2>3. ByStep'
    BY <1>8, <2>1 DEF StartFails, AboutToStart, Startable, At, Ready, Goes, rest, inputs
  <2>4. Apart'
    BY <1>8, <2>1 DEF StartFails, AboutToStart, Startable, At, Ready, Goes, rest, inputs
  <2>5. Pauses' /\ Served'
    BY <1>8, <2>1 DEF StartFails, AboutToStart, Startable, At, Ready, Goes, rest, inputs
  <2>6. Boots'
    BY <1>8, <2>1 DEF StartFails, AboutToStart, Startable, At, Ready, Goes, rest, inputs
  <2> QED BY <2>2, <2>3, <2>4, <2>5, <2>6
<1>9. CASE ReplaceEnsuresNew
  <2>1. /\ host'.there = host.there /\ host'.data = host.data
        /\ host'.onboot = host.onboot /\ host'.up = host.up \cup {New}
        /\ host'.locked = host.locked /\ host'.replaced = host.replaced
        /\ host'.tagged = host.tagged
    BY <1>9 DEF ReplaceEnsuresNew, Host
  <2> QED BY <1>9, <2>1 DEF ReplaceEnsuresNew, Ready, Goes, rest, inputs
<1>10. CASE ReplaceCannotStart
  <2>1. /\ host'.there = host.there /\ host'.data = host.data
        /\ host'.onboot = host.onboot /\ host'.up = host.up \cup Startable(Old)
        /\ host'.locked = host.locked /\ host'.replaced = host.replaced
        /\ host'.tagged = host.tagged
    BY <1>10 DEF ReplaceCannotStart, Host
  <2> QED BY <1>10, <2>1 DEF ReplaceCannotStart, Startable, Ready, rest, inputs
<1>11. CASE ReplaceStopsOld \/ FinishStopsOld
  <2>1. /\ host'.there = host.there /\ host'.data = host.data
        /\ host'.onboot = host.onboot /\ host'.up = host.up \ {Old}
        /\ host'.locked = host.locked /\ host'.replaced = host.replaced
        /\ host'.tagged = host.tagged
    BY <1>11 DEF ReplaceStopsOld, FinishStopsOld, Host
  <2>2. (Attached /\ Retreat /\ Scripts)'
    BY <1>11, <2>1 DEF ReplaceStopsOld, FinishStopsOld, At, Goes, rest, inputs
  <2>3. ByStep'
    BY <1>11, <2>1 DEF ReplaceStopsOld, FinishStopsOld, At, Goes, rest, inputs
  <2>4. Apart'
    BY <1>11, <2>1 DEF ReplaceStopsOld, FinishStopsOld, At, Goes, rest, inputs
  <2>5. Pauses' /\ Served'
    BY <1>11, <2>1 DEF ReplaceStopsOld, FinishStopsOld, At, Goes, rest, inputs
  <2>6. Boots'
    <3>1. CASE ReplaceStopsOld
      <4>1. boot' = [boot EXCEPT !["task"] = (Old \in host.onboot)]
        BY <3>1 DEF ReplaceStopsOld
      <4>2. boot'["admin"] = boot["admin"] /\ (boot'["task"] <=> Old \in host.onboot)
        BY <4>1, Zenon
      <4>3. /\ pc' = [pc EXCEPT !["task"] = "unlink"] /\ pc["task"] = "stop"
            /\ UNCHANGED <<static, run, met>>
        BY <3>1 DEF ReplaceStopsOld, At, Goes, rest, inputs
      <4> QED BY <2>1, <4>2, <4>3
    <3>2. CASE FinishStopsOld
      BY <2>1, <3>2 DEF FinishStopsOld, At, Goes, rest, inputs
    <3> QED BY <1>11, <3>1, <3>2
  <2> QED BY <2>2, <2>3, <2>4, <2>5, <2>6
<1>12. ASSUME NEW a \in {"task", "admin"}, Retires(a)
       PROVE  (Attached /\ Retreat /\ Scripts /\ ByStep /\ Apart /\ Pauses /\ Served /\ Boots)'
  <2>0. UNCHANGED <<static, run, step, started, boot, met, reboots>>
    BY <1>12 DEF Retires, UnlinksOld, MarksOld, DisablesOld, LocksOld, rest, inputs
  <2>1. CASE UnlinksOld(a)
    <3>1. /\ host'.there = host.there /\ host'.data = host.data \ {Old}
          /\ host'.onboot = host.onboot /\ host'.up = host.up
          /\ host'.locked = host.locked /\ host'.replaced = host.replaced
          /\ host'.tagged = host.tagged
          /\ pc[a] = "unlink" /\ pc' = [pc EXCEPT ![a] = "mark"]
      BY <2>1 DEF UnlinksOld, At, Goes, Host
    <3> QED BY <2>0, <3>1
  <2>2. CASE MarksOld(a)
    <3>1. /\ host'.there = host.there /\ host'.data = host.data
          /\ host'.onboot = host.onboot /\ host'.up = host.up
          /\ host'.locked = host.locked
          /\ host'.replaced = host.replaced \cup ({Old} \cap host.there)
          /\ host'.tagged = host.tagged
          /\ pc[a] = "mark" /\ pc' = [pc EXCEPT ![a] = "disable"]
      BY <2>2 DEF MarksOld, At, Goes, Host
    <3> QED BY <2>0, <3>1
  <2>3. CASE DisablesOld(a)
    <3>1. /\ host'.there = host.there /\ host'.data = host.data
          /\ host'.onboot = host.onboot \ {Old} /\ host'.up = host.up
          /\ host'.locked = host.locked /\ host'.replaced = host.replaced
          /\ host'.tagged = host.tagged
          /\ pc[a] = "disable" /\ pc' = [pc EXCEPT ![a] = "lock"]
      BY <2>3 DEF DisablesOld, At, Goes, Host
    <3> QED BY <2>0, <3>1
  <2>4. CASE LocksOld(a)
    <3>1. /\ host'.there = host.there /\ host'.data = host.data
          /\ host'.onboot = host.onboot /\ host'.up = host.up
          /\ host'.locked = host.locked \cup ({Old} \cap host.there)
          /\ host'.replaced = host.replaced /\ host'.tagged = host.tagged
          /\ pc[a] = "lock" /\ pc' = [pc EXCEPT ![a] = "boot"]
      BY <2>4 DEF LocksOld, At, Goes, Host
    <3> QED BY <2>0, <3>1
  <2> QED BY <1>12, <2>1, <2>2, <2>3, <2>4 DEF Retires
<1>13. CASE ReplaceEnds \/ ReplaceAnswerLost \/ FinishEnds
  <2>1. /\ host'.there = host.there /\ host'.data = host.data /\ host'.up = host.up
        /\ \E a \in {"task", "admin"} : pc[a] = "boot" /\ host'.onboot = TakesOver(a)
        /\ host'.locked = host.locked /\ host'.replaced = host.replaced
        /\ host'.tagged = host.tagged \ {New}
    <3>1. PICK a \in {"task", "admin"} :
             pc[a] = "boot" /\ host' = [host EXCEPT !.onboot = TakesOver(a),
                                                   !.tagged = @ \ {New}]
      <4>1. CASE ReplaceEnds \/ ReplaceAnswerLost
        BY <4>1 DEF ReplaceEnds, ReplaceAnswerLost, ReplaceHandsOver, At
      <4>2. CASE FinishEnds
        BY <4>2 DEF FinishEnds, At
      <4> QED BY <1>13, <4>1, <4>2
    <3>2. host \in Host
      BY <1>0
    <3> QED BY <3>1, <3>2 DEF Host
  <2> QED BY <1>13, <2>1 DEF ReplaceEnds, ReplaceAnswerLost, FinishEnds, ReplaceHandsOver, At,
                             TakesOver, Goes, rest, inputs
<1>14. CASE TaskFails
  <2>1. /\ host'.there = host.there /\ host'.data = host.data
        /\ host'.replaced = host.replaced /\ host'.tagged = host.tagged
        /\ \/ UNCHANGED host /\ ~started
           \/ /\ started
              /\ host'.up = (host.up \ {New}) \cup ({Old} \cap host.there)
              /\ host'.onboot = (host.onboot \ {New}) \cup ({Old} \cap host.there)
              /\ host'.locked = host.locked \ {Old}
    BY <1>14 DEF TaskFails, RolledBack, Host
  <2>2. /\ met' = met \cup {c \in {"late_rollback"} : started /\ ~SourceLive}
        /\ pc["pause"] = "idle" /\ run = "failing" /\ run' = "failed"
        /\ UNCHANGED <<static, step, started, boot, reboots>>
        /\ pc' = IF step # "clone" THEN [pc EXCEPT !["pause"] = "check"] ELSE pc
    BY <1>14 DEF TaskFails, At, Goes, Cloned
  <2>3. (Attached /\ Retreat /\ Scripts)'
    BY <2>1, <2>2
  <2>4. ByStep'
    BY <2>1, <2>2
  <2>5. Apart'
    BY <2>1, <2>2
  <2>6. Pauses' /\ Served'
    BY <2>1, <2>2
  <2>7. Boots'
    BY <2>1, <2>2
  <2> QED BY <2>3, <2>4, <2>5, <2>6, <2>7
<1>15. CASE PauseStopsNew
  <2>1. /\ host'.there = host.there /\ host'.data = host.data
        /\ host'.onboot = host.onboot /\ host'.up = host.up \ {New}
        /\ host'.locked = host.locked /\ host'.replaced = host.replaced
        /\ host'.tagged = host.tagged
    BY <1>15 DEF PauseStopsNew, Host
  <2> QED BY <1>15, <2>1 DEF PauseStopsNew, At, Goes, rest, inputs
<1>16. CASE PauseEnds
  <2>1. /\ host'.there = host.there /\ host'.data = host.data
        /\ host'.onboot = host.onboot \ {New} /\ host'.up = host.up
        /\ host'.locked = host.locked /\ host'.replaced = host.replaced
        /\ host'.tagged = host.tagged
    BY <1>16 DEF PauseEnds, Host
  <2> QED BY <1>16, <2>1 DEF PauseEnds, At, Goes, rest, inputs
<1>17. CASE Restart
  <2>1. /\ host'.there = host.there /\ host'.data = host.data
        /\ host'.up = IF step \in {"post", "replace"} THEN host.up \cup host.tagged ELSE host.up
        /\ host'.onboot = host.onboot
        /\ host'.locked = host.locked /\ host'.replaced = host.replaced
        /\ host'.tagged = host.tagged
    BY <1>17 DEF Restart, Host
  <2> QED BY <1>17, <2>1 DEF Restart, At, AdminWaits
<1>18. CASE FinishOnlyClears
  <2>1. /\ host'.there = host.there /\ host'.data = host.data
        /\ host'.onboot = host.onboot /\ host'.up = host.up
        /\ host'.locked = host.locked /\ host'.replaced = host.replaced
        /\ host'.tagged = host.tagged \ {New}
    BY <1>18 DEF FinishOnlyClears, Host
  <2>2. (Attached /\ Retreat /\ Scripts)'
    BY <1>18, <2>1 DEF FinishOnlyClears, rest, inputs
  <2>3. ByStep'
    BY <1>18, <2>1 DEF FinishOnlyClears, rest, inputs
  <2>4. Apart'
    BY <1>18, <2>1 DEF FinishOnlyClears, Listed, AtRest, NoScript, AdminWaits, rest, inputs
  <2>5. Pauses' /\ Served'
    BY <1>18, <2>1 DEF FinishOnlyClears, rest, inputs
  <2>6. Boots'
    BY <1>18, <2>1 DEF FinishOnlyClears, rest, inputs
  <2> QED BY <2>2, <2>3, <2>4, <2>5, <2>6
<1>19. CASE FinishStartsNew
  <2>1. /\ host'.there = host.there /\ host'.data = host.data
        /\ host'.onboot = host.onboot /\ host'.up = host.up \cup {New}
        /\ host'.locked = host.locked \ {Old} /\ host'.replaced = host.replaced
        /\ host'.tagged = host.tagged
    BY <1>19 DEF FinishStartsNew, Host
  <2> QED BY <1>19, <2>1 DEF FinishStartsNew, Listed, AtRest, NoScript, AdminWaits, At, Goes, rest,
                             inputs
<1>20. CASE DiscardDestroysNew
  <2>1. /\ host'.there = host.there \ {New} /\ host'.data = host.data \ {New}
        /\ host'.onboot = host.onboot \ {New} /\ host'.up = host.up \ {New}
        /\ host'.locked = host.locked \ {New} /\ host'.replaced = host.replaced \ {New}
        /\ host'.tagged = host.tagged \ {New}
    BY <1>20 DEF DiscardDestroysNew, Without, Host
  <2> QED BY <1>20, <2>1 DEF DiscardDestroysNew, At, Goes, rest, inputs
<1>21. CASE DiscardStartsOld
  <2>1. /\ host'.there = host.there /\ host'.data = host.data
        /\ host'.onboot = host.onboot /\ host'.up = host.up \cup Startable(Old)
        /\ host'.locked = host.locked /\ host'.replaced = host.replaced
        /\ host'.tagged = host.tagged
    BY <1>21 DEF DiscardStartsOld, Host
  <2> QED BY <1>21, <2>1 DEF DiscardStartsOld, Startable, At, Goes, rest, inputs
<1>22. CASE CleanupDestroysOld
  <2>1. /\ host'.there = host.there \ {Old} /\ host'.data = host.data \ {Old}
        /\ host'.onboot = host.onboot \ {Old} /\ host'.up = host.up \ {Old}
        /\ host'.locked = host.locked \ {Old} /\ host'.replaced = host.replaced \ {Old}
        /\ host'.tagged = host.tagged \ {Old}
    BY <1>22 DEF CleanupDestroysOld, Without, Host
  <2> QED BY <1>22, <2>1 DEF CleanupDestroysOld, AtRest, NoScript, rest, inputs
<1>23. CASE HostReboots
  <2>1. /\ host'.there = host.there /\ host'.data = host.data
        /\ host'.onboot = host.onboot /\ host'.up = host.onboot \ host.locked
        /\ host'.locked = host.locked /\ host'.replaced = host.replaced
        /\ host'.tagged = host.tagged
    BY <1>23 DEF HostReboots, Host
  <2>9. /\ pc' = [a \in Actors |-> "idle"]
        /\ run' = IF run = "completed" THEN run ELSE "lost"
        /\ met' = met \cup {c \in {"torn_retirement"} : HalfRetired}
        /\ UNCHANGED <<static, step, started, boot>>
        /\ reboots' = reboots + 1
        /\ HalfRetired <=> \E a \in {"task", "admin"} : pc[a] \in {"mark", "disable"}
    BY <1>23 DEF HostReboots, HalfRetired
  <2>2. (Attached /\ Retreat /\ Scripts)'
    BY <2>1, <2>9
  <2>3. ByStep'
    BY <2>1, <2>9
  <2>4. Apart'
    BY <2>1, <2>9
  <2>5. Pauses' /\ Served'
    BY <2>1, <2>9
  <2>6. Boots'
    BY <2>1, <2>9
  <2> QED BY <2>2, <2>3, <2>4, <2>5, <2>6
<1> QED BY <1>1, <1>2, <1>3, <1>4, <1>5, <1>6, <1>7, <1>8, <1>9, <1>10, <1>11, <1>12, <1>13,
           <1>14, <1>15, <1>16, <1>17, <1>18, <1>19, <1>20, <1>21, <1>22, <1>23, <1>24
        DEF Next, TaskStep, PauseStep, AdminStep

LEMMA ServiceAlways == AdminWaits /\ Spec => []ServiceInv
<1> SUFFICES ASSUME AdminWaits PROVE Spec => []ServiceInv
  OBVIOUS
<1>1. Init => ServiceInv
  <2> SUFFICES ASSUME Init PROVE ServiceInv
    OBVIOUS
  <2>1. SourceLive /\ IInv
    BY TypeInit, SafeInit, Names DEF Init, SourceLive, IInv
  <2>2. Attached /\ Retreat /\ Scripts /\ ByStep /\ Apart
    BY <2>1, Names DEF Init, Attached, Retreat, Scripts, ByStep, Apart, Untagged, Actors,
                       Retirement
  <2>3. Pauses /\ Served /\ Boots
    BY <2>1 DEF Init, Pauses, Served, Boots, Actors, Retirement
  <2> QED BY <2>1, <2>2, <2>3 DEF ServiceInv, DataInv
<1>2. ServiceInv /\ [Next]_vars => ServiceInv'
  BY TypeStep, SafeStep, ServiceStep DEF ServiceInv, DataInv, IInv
<1> QED BY <1>1, <1>2, PTL DEF Spec

(* Failures anywhere, lost answers, hasty restarts, reboots: what runs has   *)
(* its volumes, unless a rollback came after OLD was retired                 *)
(* (rollback-failed-replacement.sh:66), or the host rebooted between two     *)
(* commands of its retirement (vol-common.sh:981).                           *)
THEOREM DataServes ==
    ASSUME AdminWaits
    PROVE  Spec => []ServesWithItsData
<1>1. ServiceInv => ServesWithItsData
  <2> SUFFICES ASSUME ServiceInv, met \cap {"late_rollback", "torn_retirement"} = {}
               PROVE  host.up \subseteq host.data
    BY DEF ServesWithItsData
  <2>1. host.up \subseteq {Old, New}
    BY Names DEF ServiceInv, DataInv, IInv, TypeOK, Host
  <2>2. Old \in host.up => Old \in host.data
    BY DEF ServiceInv, DataInv, Attached, Retreat, Scripts, Retirement
  <2>3. New \in host.up => New \in host.data
    BY DEF ServiceInv, DataInv, Attached
  <2> QED BY <2>1, <2>2, <2>3
<1>2. Spec => []ServiceInv
  BY ServiceAlways
<1> QED BY <1>1, <1>2, PTL

(* When everything has settled something runs, and OLD and NEW do not run    *)
(* side by side (lxc-start.sh:203, replace-ct.sh:138).                       *)
THEOREM OneOfThemServes ==
    ASSUME AdminWaits
    PROVE  Spec => []OneServes
<1>1. ServiceInv => OneServes
  <2> SUFFICES ASSUME ServiceInv, AtRest PROVE OneServes
    BY DEF OneServes
  <2>1. pc["task"] = "idle" /\ pc["admin"] = "idle" /\ pc["pause"] = "idle"
    BY DEF AtRest, NoScript, Actors
  <2>2. ASSUME met = {}, static => reboots = 0
        PROVE  host.up # {} \/ (run = "lost" /\ ~SourceLive)
    BY <2>1, <2>2 DEF ServiceInv, Served
  <2>3. ASSUME run \in {"failed", "completed"} PROVE host.up # Containers
    <3>1. CASE run = "failed"
      BY <2>1, <3>1 DEF ServiceInv, Apart
    <3>2. CASE run = "completed"
      BY <2>1, <3>2, Names DEF ServiceInv, DataInv, Attached, Scripts, ByStep, Apart, Untagged
    <3> QED BY <2>3, <3>1, <3>2
  <2> QED BY <2>2, <2>3 DEF OneServes
<1>2. Spec => []ServiceInv
  BY ServiceAlways
<1> QED BY <1>1, <1>2, PTL

(* A completed replacement with an address of its own is what the host       *)
(* starts, and OLD is not (replace-ct.sh:101).                               *)
THEOREM BootSettingMoves ==
    ASSUME AdminWaits
    PROVE  Spec => []BootsLikeBefore
<1>1. ServiceInv => BootsLikeBefore
  <2> SUFFICES ASSUME ServiceInv, run = "completed", ~static, met = {}
               PROVE  host.onboot = {New}
    BY DEF BootsLikeBefore
  <2>1. host.onboot \subseteq {Old, New}
    BY Names DEF ServiceInv, DataInv, IInv, TypeOK, Host
  <2>2. step = "check" /\ ~SourceLive
    BY DEF ServiceInv, ByStep
  <2>3. \A a \in {"task", "admin"} : pc[a] \notin {"disable", "lock", "boot"}
    BY <2>2 DEF ServiceInv, DataInv, Scripts, Retirement
  <2> QED BY <2>1, <2>2, <2>3 DEF ServiceInv, Boots
<1>2. Spec => []ServiceInv
  BY ServiceAlways
<1> QED BY <1>1, <1>2, PTL

=============================================================================

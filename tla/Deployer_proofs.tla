--------------------------- MODULE Deployer_proofs ---------------------------
(***************************************************************************)
(* The timer services (HostServices) for every set of hosts, containers    *)
(* and grace periods and, apart from them, the wizard and the writing of   *)
(* applications (CreateApplication) for all files, images, frameworks and  *)
(* budgets.                                                                *)
(***************************************************************************)
EXTENDS HostServices, CreateApplication, TLAPS

USE ServicesAssumption

(* The longest span is one of them, and ages reach beyond it.               *)
LEMMA MaxAgeIsNatural == MaxAge \in Nat \ {0} /\ RollbackWithin < MaxAge
<1> DEFINE Longest == CHOOSE n \in Spans : \A other \in Spans : other <= n
<1>1. Longest \in Spans /\ \A other \in Spans : other <= Longest
  BY GracesAreBounded
<1>3. RollbackWithin \in Spans /\ Spans \subseteq Nat
  BY DEF Spans
<1>2. MaxAge = 1 + Longest
  BY DEF MaxAge
<1> HIDE DEF Longest
<1> QED BY <1>1, <1>2, <1>3

(* What the actions write as settings and checks has the types of these.    *)
LEMMA SettingTypes ==
    /\ \A s \in Services : Default(s) \in Settings
    /\ \A setting \in Settings, on \in BOOLEAN, days \in Graces :
          /\ [setting EXCEPT !.enabled = on] \in Settings
          /\ [setting EXCEPT !.grace = days] \in Settings
    /\ Idle \in Checks
  BY DEF Default, Settings, Idle, Checks

(* A check stays a check as its lists get shorter.                          *)
LEMMA CheckUpdates ==
    ASSUME NEW k \in Checks
    PROVE  /\ k.todo \subseteq Hosts /\ k.old \subseteq Containers /\ k.due \subseteq Containers
           /\ \A h : [k EXCEPT !.todo = @ \ {h}] \in Checks
           /\ \A c : [k EXCEPT !.due = @ \ {c}] \in Checks
           /\ \A c : [k EXCEPT !.old = @ \ {c}] \in Checks
           /\ \A h, due : due \subseteq Containers =>
                 [k EXCEPT !.todo = @ \ {h}, !.due = due] \in Checks
  BY DEF Checks

----------------------------------------------------------------------------
(* Types.                                                                   *)

LEMMA InitTypes == Init => TypeOK
<1> SUFFICES ASSUME Init PROVE TypeOK
  OBVIOUS
<1>1. 0 \in 0 .. MaxAge
  BY MaxAgeIsNatural
<1> QED BY <1>1, SettingTypes DEF Init, TypeOK, Default

LEMMA OperatorTypes == TypeOK /\ Operator => TypeOK'
<1> SUFFICES ASSUME TypeOK, Operator PROVE TypeOK'
  OBVIOUS
<1>1. \A s \in Services : stored[s] \in Settings
  BY DEF TypeOK
<1>2. ASSUME NEW s \in Services, NEW on \in BOOLEAN, SetEnabled(s, on)
      PROVE  TypeOK'
  <2>0. stored[s] \in Settings /\ [stored[s] EXCEPT !.enabled = on] \in Settings
    <3>1. stored[s] \in Settings
      BY <1>1
    <3> QED BY <3>1 DEF Settings
  <2>1. stored' \in [Services -> Settings] /\ persisted' \subseteq Services /\ settings' \in Nat
    BY <1>2, <2>0 DEF SetEnabled, Change, TypeOK
  <2>2. timer' \subseteq Services /\ first' \in [Services -> Nat]
    BY <1>2 DEF SetEnabled, TypeOK
  <2>3. wanted' \in [Services -> BOOLEAN] /\ overwritten' \subseteq Services
    BY <1>2 DEF SetEnabled, TypeOK
  <2> QED BY <1>2, <2>1, <2>2, <2>3 DEF SetEnabled, TypeOK, host
<1>3. ASSUME NEW days \in Graces, SetGraceDays(days)
      PROVE  TypeOK'
  <2>1. [stored["cleanup"] EXCEPT !.grace = days] \in Settings
    BY <1>1, SettingTypes
  <2>2. stored' \in [Services -> Settings] /\ persisted' \subseteq Services /\ settings' \in Nat
    BY <1>3, <2>1 DEF SetGraceDays, Change, TypeOK
  <2> QED BY <1>3, <2>2 DEF SetGraceDays, TypeOK, host
<1> QED BY <1>2, <1>3 DEF Operator

LEMMA BeginTypes ==
    ASSUME TypeOK, NEW s \in Services, Begin(s)
    PROVE  check' \in [Services -> Checks]
  BY DEF TypeOK, Begin, Checks

LEMMA WriteBackTypes ==
    ASSUME TypeOK, NEW s \in Services, WriteBack(s)
    PROVE  /\ stored' \in [Services -> Settings] /\ persisted' \subseteq Services
           /\ overwritten' \subseteq Services
<1>1. check[s].held \in Settings
  BY DEF TypeOK, Checks
<1> QED BY <1>1 DEF TypeOK, WriteBack

LEMMA CheckTypes == ASSUME TypeOK, NEW s \in Services, Check(s) PROVE TypeOK'
<1>1. CASE BeginCheck(s)
  BY <1>1, BeginTypes DEF BeginCheck, TypeOK, host, service, counts
<1>2. CASE FirstCheck(s)
  <2>1. check' \in [Services -> Checks] /\ first' \in [Services -> Nat]
    BY <1>2, BeginTypes DEF FirstCheck, TypeOK
  <2> QED BY <1>2, <2>1 DEF FirstCheck, TypeOK, host, counts
<1>3. CASE Visit(s)
  <2>1. check' \in [Services -> Checks]
    <3>1. PICK h \in check[s].todo : check' = [check EXCEPT ![s].todo = @ \ {h}]
      BY <1>3 DEF Visit
    <3> QED BY <3>1, CheckUpdates DEF TypeOK
  <2> QED BY <1>3, <2>1 DEF Visit, TypeOK, host, service, counts
<1>4. CASE EndCheck(s)
  <2>1. check' \in [Services -> Checks]
    BY <1>4, SettingTypes DEF EndCheck, TypeOK
  <2> QED BY <1>4, <2>1, WriteBackTypes DEF EndCheck, TypeOK, host, counts
<1>5. CASE CheckFails(s)
  <2>1. check' \in [Services -> Checks]
    BY <1>5, SettingTypes DEF CheckFails, AfterError, TypeOK
  <2> QED BY <1>5, <2>1, WriteBackTypes DEF CheckFails, TypeOK, host, counts
<1> QED BY <1>1, <1>2, <1>3, <1>4, <1>5 DEF Check

LEMMA DestroyedTypes ==
    ASSUME TypeOK, NEW c \in Containers, Destroyed(c)
    PROVE  /\ ct' \in [Containers -> {"serving", "replaced", "gone"}]
           /\ age' \in [Containers -> 0 .. MaxAge] /\ locked' \subseteq Containers
  BY DEF TypeOK, Destroyed

LEMMA HeldGrace == TypeOK => check["cleanup"].held.grace \in Nat
<1> SUFFICES ASSUME TypeOK PROVE check["cleanup"].held.grace \in Nat
  OBVIOUS
<1>1. check["cleanup"] \in Checks
  BY DEF TypeOK
<1> QED BY <1>1 DEF Checks, Settings

LEMMA DueAreContainers ==
    TypeOK => /\ check["cleanup"].old \subseteq Containers
              /\ check["cleanup"].due \subseteq Containers
  BY CheckUpdates DEF TypeOK

LEMMA CleanupTypes == TypeOK /\ Cleanup => TypeOK'
<1> SUFFICES ASSUME TypeOK, Cleanup PROVE TypeOK'
  OBVIOUS
<1>1. check["cleanup"] \in Checks /\ check \in [Services -> Checks]
  BY DEF TypeOK
<1>2. CASE ListReplaced
  <2>1. PICK h \in check["cleanup"].todo,
             listed \in SUBSET Containers :
               check' = [check EXCEPT !["cleanup"].todo = @ \ {h},
                                      !["cleanup"].due = Due(listed)]
    BY <1>2 DEF ListReplaced
  <2>2. Due(listed) \subseteq Containers
    BY <2>1 DEF Due
  <2>3. check' \in [Services -> Checks]
    BY <1>1, <2>1, <2>2, CheckUpdates
  <2> QED BY <1>2, <2>3 DEF ListReplaced, TypeOK, host, service, counts
<1>3. ASSUME NEW c \in Containers, DestroyDue(c) PROVE TypeOK'
  <2>1. check' \in [Services -> Checks]
    BY <1>1, <1>3, CheckUpdates DEF DestroyDue
  <2>2. wronged' \subseteq Nat
    BY <1>3, HeldGrace DEF DestroyDue, TypeOK
  <2>3. Destroyed(c)
    BY <1>3 DEF DestroyDue
  <2> QED BY <1>3, <2>1, <2>2, <2>3, DestroyedTypes DEF DestroyDue, TypeOK, service, counts
<1>4. ASSUME NEW c \in Containers, DestroyFails(c) PROVE TypeOK'
  <2>1. check' \in [Services -> Checks]
    BY <1>1, <1>4, CheckUpdates DEF DestroyFails
  <2> QED BY <1>4, <2>1 DEF DestroyFails, TypeOK, host, service, counts
<1> QED BY <1>2, <1>3, <1>4 DEF Cleanup

LEMMA SweepTypes == TypeOK /\ Sweep => TypeOK'
  BY DEF TypeOK, host, service, counts, Sweep, SweepLists, SweepDestroys, DestroyNamed,
         Destroyed

LEMMA WorldTypes == TypeOK /\ World => TypeOK'
<1> SUFFICES ASSUME TypeOK, World PROVE TypeOK'
  OBVIOUS
<1> USE DEF TypeOK, host, service, counts
<1>1. ASSUME NEW c \in Containers, Replace(c) PROVE TypeOK'
  <2>1. check["cleanup"] \in Checks
    OBVIOUS
  <2>2. check' \in [Services -> Checks]
    BY <1>1, <2>1, CheckUpdates DEF Replace
  <2>3. 0 \in 0 .. MaxAge
    BY MaxAgeIsNatural
  <2> QED BY <1>1, <2>2, <2>3 DEF Replace
<1>2. ASSUME NEW c \in Containers, Revive(c) \/ Backup(c) PROVE TypeOK'
  BY <1>2 DEF Revive, Backup
<1>3. CASE TimePasses
  BY <1>3, MaxAgeIsNatural DEF TimePasses
<1>4. CASE RestartDeployer
  <2>1. /\ check' \in [Services -> Checks]
        /\ timer' \subseteq Services /\ first' \in [Services -> Nat] /\ sweep' = {}
    BY <1>4, SettingTypes DEF RestartDeployer, Started
  <2> DEFINE HostTyped == /\ ct' \in [Containers -> {"serving", "replaced", "gone"}]
                          /\ age' \in [Containers -> 0 .. MaxAge]
                          /\ locked' \subseteq Containers /\ wronged' \subseteq Nat
  <2>2. HostTyped
    <3>1. CASE UNCHANGED <<host, wronged>>
      BY <3>1
    <3>2. ASSUME NEW c \in check["cleanup"].due, Destroyed(c),
                 wronged' = IF ct[c] = "serving"
                            THEN wronged \cup {check["cleanup"].held.grace} ELSE wronged
          PROVE  HostTyped
      BY <3>2, DueAreContainers, HeldGrace, DestroyedTypes
    <3>3. ASSUME NEW c \in sweep, Destroyed(c), UNCHANGED wronged
          PROVE  HostTyped
      BY <3>3, DestroyedTypes
    <3> QED BY <1>4, <3>1, <3>2, <3>3 DEF RestartDeployer
  <2> QED BY <1>4, <2>1, <2>2 DEF RestartDeployer
<1> QED BY <1>1, <1>2, <1>3, <1>4 DEF World

LEMMA StepTypes == TypeOK /\ [Next]_vars => TypeOK'
<1> SUFFICES ASSUME TypeOK, [Next]_vars PROVE TypeOK'
  OBVIOUS
<1>1. CASE UNCHANGED vars
  BY <1>1 DEF TypeOK, vars
<1> QED BY <1>1, OperatorTypes, CheckTypes, CleanupTypes, SweepTypes, WorldTypes DEF Next

(* All variables keep their types, whatever the operators, hosts and        *)
(* restarts do (replaced-container-cleanup-service.mts).                    *)
THEOREM TypeCorrect == Spec => []TypeOK
  BY InitTypes, StepTypes, PTL DEF Spec

----------------------------------------------------------------------------
(* Settings.                                                                *)

(* A step of one check changes no other service's setting, and its own only *)
(* if the check held an object of its own.                                  *)
LEMMA WriteBackHolds ==
    ASSUME TypeOK, SettingHolds, NEW s \in Services, WriteBack(s),
           UNCHANGED <<timer, wanted>>
    PROVE  SettingHolds'
<1> SUFFICES ASSUME NEW t \in Services \ overwritten'
             PROVE  stored'[t].enabled = wanted[t] /\ (t \in timer <=> wanted[t])
  BY DEF SettingHolds
<1>1. t \notin overwritten
  BY DEF WriteBack, HoldsOwn
<1>2. stored'[t].enabled = stored[t].enabled
  BY DEF WriteBack, HoldsOwn, TypeOK
<1> QED BY <1>1, <1>2 DEF SettingHolds

LEMMA OperatorHolds == TypeOK /\ SettingHolds /\ Operator => SettingHolds'
<1> SUFFICES ASSUME TypeOK, SettingHolds, Operator PROVE SettingHolds'
  OBVIOUS
<1> USE DEF TypeOK, SettingHolds, Change, Settings
<1>1. ASSUME NEW s \in Services, NEW on \in BOOLEAN, SetEnabled(s, on)
      PROVE  SettingHolds'
  BY <1>1 DEF SetEnabled
<1>2. ASSUME NEW days \in Graces, SetGraceDays(days)
      PROVE  SettingHolds'
  BY <1>2 DEF SetGraceDays
<1> QED BY <1>1, <1>2 DEF Operator

LEMMA StepHolds == TypeOK /\ SettingHolds /\ [Next]_vars => SettingHolds'
<1> SUFFICES ASSUME TypeOK, SettingHolds, [Next]_vars PROVE SettingHolds'
  OBVIOUS
<1>1. CASE UNCHANGED <<stored, timer, wanted, overwritten>>
  BY <1>1 DEF SettingHolds
<1>2. CASE Operator
  BY <1>2, OperatorHolds
<1>3. ASSUME NEW s \in Services, Check(s)
      PROVE  SettingHolds'
  BY <1>1, <1>3, WriteBackHolds DEF Check, BeginCheck, FirstCheck, Visit, EndCheck,
                                    CheckFails, service
<1>4. CASE RestartDeployer
  BY <1>4 DEF RestartDeployer, Started, Enabled, SettingHolds, TypeOK
<1>5. Cleanup \/ Sweep \/ (World /\ ~RestartDeployer)
      => UNCHANGED <<stored, timer, wanted, overwritten>>
  BY DEF Cleanup, ListReplaced, DestroyDue, DestroyFails, Sweep, SweepLists,
         SweepDestroys, DestroyNamed, World, Replace, Revive, Backup, TimePasses, service
<1> QED BY <1>1, <1>2, <1>3, <1>4, <1>5 DEF Next, vars

(* For every set of services and hosts, any number of checks, failures and  *)
(* restarts: a service runs by its timer exactly if that is what the        *)
(* operator last asked for, except behind a first check that ran meanwhile  *)
(* (replaced-container-cleanup-service.mts:45).                             *)
THEOREM SettingKept == Spec => []SettingHolds
<1>1. Init => SettingHolds
  BY DEF Init, SettingHolds
<1> QED BY <1>1, TypeCorrect, StepHolds, PTL DEF Spec

----------------------------------------------------------------------------
(* The grace period.                                                        *)

\* Whom a check with a grace period longer than a rollback may take found past
\* its cutoff can no longer be brought back: the time for that is over.
OldStayAway ==
    check["cleanup"].held.grace > RollbackWithin =>
        \A c \in check["cleanup"].old \cup check["cleanup"].due :
            /\ ct[c] # "serving"
            /\ ct[c] = "replaced" => age[c] > RollbackWithin

GraceInv == TypeOK /\ OldStayAway /\ GraceCoversRollback

(* A destruction leaves everybody else where he was.                        *)
LEMMA DestroyedKeeps ==
    ASSUME GraceInv, NEW c \in Containers, Destroyed(c), check' = check
    PROVE  OldStayAway'
  BY DEF GraceInv, OldStayAway, Destroyed, TypeOK

LEMMA BeginKeeps ==
    ASSUME GraceInv, NEW s \in Services, Begin(s), UNCHANGED <<ct, age>>
    PROVE  OldStayAway'
<1> USE DEF GraceInv, TypeOK
<1>1. CASE s # "cleanup"
  BY <1>1 DEF OldStayAway, Begin
<1>2. CASE s = "cleanup"
  <2>1. /\ check'["cleanup"].held = stored["cleanup"]
        /\ check'["cleanup"].due = {}
        /\ \A c \in check'["cleanup"].old :
              c \in Containers /\ ct[c] = "replaced" /\ age[c] >= stored["cleanup"].grace
    BY <1>2 DEF Begin, Past
  <2>2. stored["cleanup"] \in Settings
    OBVIOUS
  <2>3. stored["cleanup"].grace \in Nat
    BY <2>2 DEF Settings
  <2>4. \A c \in Containers : age[c] \in Nat
    BY MaxAgeIsNatural
  <2> QED BY <2>1, <2>3, <2>4 DEF OldStayAway
<1> QED BY <1>1, <1>2

LEMMA IdleKeeps ==
    ASSUME GraceInv, NEW s \in Services, check' = [check EXCEPT ![s] = Idle],
           UNCHANGED <<ct, age>>
    PROVE  OldStayAway'
  BY DEF GraceInv, TypeOK, OldStayAway, Idle

LEMMA CheckKeeps == ASSUME GraceInv, NEW s \in Services, Check(s) PROVE OldStayAway'
<1> USE DEF host
<1>1. CASE BeginCheck(s)
  BY <1>1, BeginKeeps DEF BeginCheck
<1>2. CASE FirstCheck(s)
  <2>1. CASE Begin(s)
    BY <1>2, <2>1, BeginKeeps DEF FirstCheck
  <2>2. CASE UNCHANGED check
    BY <1>2, <2>2 DEF FirstCheck, GraceInv, OldStayAway
  <2> QED BY <1>2, <2>1, <2>2 DEF FirstCheck
<1>3. CASE Visit(s)
  BY <1>3 DEF Visit, GraceInv, TypeOK, OldStayAway
<1>4. CASE EndCheck(s)
  BY <1>4, IdleKeeps DEF EndCheck
<1>5. CASE CheckFails(s)
  BY <1>5, IdleKeeps DEF CheckFails, AfterError
<1> QED BY <1>1, <1>2, <1>3, <1>4, <1>5 DEF Check

LEMMA CleanupKeeps == GraceInv /\ Cleanup => OldStayAway' /\ GraceCoversRollback'
<1> SUFFICES ASSUME GraceInv, Cleanup PROVE OldStayAway' /\ GraceCoversRollback'
  OBVIOUS
<1> USE DEF GraceInv, TypeOK, OldStayAway, GraceCoversRollback, host
<1>1. CASE ListReplaced
  <2>1. check'["cleanup"].held = check["cleanup"].held
        /\ check'["cleanup"].old = check["cleanup"].old
        /\ check'["cleanup"].due \subseteq check["cleanup"].old
    BY <1>1 DEF ListReplaced, Due
  <2> QED BY <1>1, <2>1 DEF ListReplaced
<1>2. ASSUME NEW c \in Containers, DestroyDue(c)
      PROVE  OldStayAway' /\ GraceCoversRollback'
  <2>1. ct[c] = "serving" => check["cleanup"].held.grace <= RollbackWithin
    BY <1>2, HeldGrace DEF DestroyDue
  <2>2. GraceCoversRollback'
    BY <1>2, <2>1 DEF DestroyDue
  <2>3. /\ check'["cleanup"].held = check["cleanup"].held
        /\ check'["cleanup"].old = check["cleanup"].old
        /\ check'["cleanup"].due \subseteq check["cleanup"].due
    BY <1>2 DEF DestroyDue
  <2>4. OldStayAway'
    BY <1>2, <2>3 DEF DestroyDue, Destroyed
  <2> QED BY <2>2, <2>4
<1>3. ASSUME NEW c \in Containers, DestroyFails(c)
      PROVE  OldStayAway' /\ GraceCoversRollback'
  BY <1>3 DEF DestroyFails
<1> QED BY <1>1, <1>2, <1>3 DEF Cleanup

LEMMA SweepKeeps == GraceInv /\ Sweep => OldStayAway'
<1> SUFFICES ASSUME GraceInv, Sweep PROVE OldStayAway'
  OBVIOUS
<1>1. CASE SweepLists
  BY <1>1 DEF SweepLists, host, GraceInv, OldStayAway
<1>2. ASSUME NEW c \in Containers, SweepDestroys(c) \/ DestroyNamed(c)
      PROVE  OldStayAway'
  BY <1>2, DestroyedKeeps DEF SweepDestroys, DestroyNamed, host, GraceInv, OldStayAway
<1> QED BY <1>1, <1>2 DEF Sweep

LEMMA WorldKeeps == GraceInv /\ World => OldStayAway' /\ GraceCoversRollback'
<1> SUFFICES ASSUME GraceInv, World PROVE OldStayAway' /\ GraceCoversRollback'
  OBVIOUS
<1> USE DEF GraceInv, TypeOK, GraceCoversRollback
<1>1. ASSUME NEW c \in Containers, Replace(c)
      PROVE  OldStayAway' /\ GraceCoversRollback'
  BY <1>1 DEF Replace, OldStayAway
<1>2. ASSUME NEW c \in Containers, Revive(c)
      PROVE  OldStayAway' /\ GraceCoversRollback'
  BY <1>2 DEF Revive, OldStayAway
<1>3. ASSUME NEW c \in Containers, Backup(c)
      PROVE  OldStayAway' /\ GraceCoversRollback'
  BY <1>3 DEF Backup, OldStayAway
<1>4. CASE TimePasses
  <2>1. \A c \in Containers : age[c] > RollbackWithin => age'[c] > RollbackWithin
    BY <1>4, MaxAgeIsNatural DEF TimePasses
  <2> QED BY <1>4, <2>1, DueAreContainers DEF TimePasses, OldStayAway
<1>5. CASE RestartDeployer
  <2>1. OldStayAway'
    BY <1>5 DEF RestartDeployer, OldStayAway, Idle
  <2>2. \A c \in check["cleanup"].due :
            ct[c] = "serving" => check["cleanup"].held.grace <= RollbackWithin
    BY HeldGrace DEF OldStayAway
  <2>3. GraceCoversRollback'
    BY <1>5, <2>2 DEF RestartDeployer, host
  <2> QED BY <2>1, <2>3
<1> QED BY <1>1, <1>2, <1>3, <1>4, <1>5 DEF World

LEMMA StepKeepsGrace == GraceInv /\ [Next]_vars => GraceInv'
<1> SUFFICES ASSUME GraceInv, [Next]_vars PROVE GraceInv'
  OBVIOUS
<1>1. TypeOK'
  BY StepTypes DEF GraceInv
<1>2. CASE UNCHANGED <<check, ct, age, wronged>>
  BY <1>1, <1>2 DEF GraceInv, OldStayAway, GraceCoversRollback
<1>3. CASE Operator
  BY <1>2, <1>3 DEF Operator, SetEnabled, SetGraceDays, host
<1>4. ASSUME NEW s \in Services, Check(s)
      PROVE  OldStayAway' /\ GraceCoversRollback'
  <2>1. UNCHANGED wronged
    BY <1>4 DEF Check, BeginCheck, FirstCheck, Visit, EndCheck, CheckFails
  <2> QED BY <1>4, <2>1, CheckKeeps DEF GraceInv, GraceCoversRollback
<1>5. CASE Sweep
  <2>1. UNCHANGED wronged
    BY <1>5 DEF Sweep, SweepLists, SweepDestroys, DestroyNamed
  <2> QED BY <1>1, <1>5, <2>1, SweepKeeps DEF GraceInv, GraceCoversRollback
<1> QED BY <1>1, <1>2, <1>3, <1>4, <1>5, CleanupKeeps, WorldKeeps DEF Next, vars, GraceInv

(* For all grace periods and whatever is replaced, revived, locked and      *)
(* destroyed meanwhile: a check destroys a container that serves only if    *)
(* its grace period is no longer than a rollback may take, 0 and parts of a *)
(* day included (replaced-container-cleanup-service.mts:177).               *)
THEOREM GraceKept == Spec => []GraceCoversRollback
<1>1. Init => GraceInv
  BY InitTypes DEF Init, GraceInv, OldStayAway, GraceCoversRollback, Idle
<1>2. GraceInv => GraceCoversRollback
  BY DEF GraceInv
<1> QED BY <1>1, <1>2, StepKeepsGrace, PTL DEF Spec

----------------------------------------------------------------------------
(* The wizard's page (CreateApplication), apart from the services above.    *)
(* An operator on the page is described by what it leaves as it is: what    *)
(* the image depends on, and the open parameters with their classes.        *)

Parts == {"framework", "mode", "form", "image", "parsed", "service", "install",
          "classes", "jobs", "annotated", "overtaken"}

IsPage(p) == Parts \subseteq DOMAIN p

SameFiles(p, q) ==
    /\ q.framework = p.framework /\ q.mode = p.mode /\ q.parsed = p.parsed
    /\ q.service = p.service /\ Value(q, "env_file") = Value(p, "env_file")

SameImage(p, q) == q.image = p.image /\ q.overtaken = p.overtaken

SameOpen(p, q) == q.install = p.install /\ q.classes = p.classes

SameJobs(p, q) == q.jobs = p.jobs /\ q.annotated = p.annotated

Quiet(p, q) ==
    IsPage(q) /\ SameFiles(p, q) /\ SameImage(p, q) /\ SameOpen(p, q) /\ SameJobs(p, q)

(* The image of the files, unless they give none or were overtaken.         *)
ImageRight(p) ==
    /\ OciCompose(p) /\ HasServices(p) /\ StringOf(p, "image") # {} /\ ~p.overtaken
    => p.image = Text(Resolve(The(StringOf(p, "image")), EffectiveEnvs(p)))

Targets == {"install", "default", "value"}

OpenInv(p) ==
    /\ DOMAIN p.classes = DOMAIN p.install
    /\ \A c \in DOMAIN p.classes : p.classes[c] \in Targets

LEMMA QuietTransitive ==
    ASSUME NEW p, NEW q, NEW r, Quiet(p, q), Quiet(q, r) PROVE Quiet(p, r)
  BY DEF Quiet, SameFiles, SameImage, SameOpen, SameJobs

(* What the image is derived from.                                          *)
LEMMA SameSources ==
    ASSUME NEW p, NEW q, SameFiles(p, q)
    PROVE  /\ OciCompose(q) = OciCompose(p) /\ HasServices(q) = HasServices(p)
           /\ StringOf(q, "image") = StringOf(p, "image")
           /\ EffectiveEnvs(q) = EffectiveEnvs(p)
<1>1. /\ OciCompose(q) = OciCompose(p) /\ HasServices(q) = HasServices(p)
      /\ SelectedService(q) = SelectedService(p) /\ EnvOf(q) = EnvOf(p)
  BY DEF SameFiles, OciCompose, HasServices, SelectedService, EnvOf
<1> QED BY <1>1 DEF StringOf, EffectiveEnvs

LEMMA ImageStays ==
    ASSUME NEW p, NEW q, SameFiles(p, q), SameImage(p, q), ImageRight(p)
    PROVE  ImageRight(q)
  BY SameSources DEF ImageRight, SameImage

----------------------------------------------------------------------------
(* The form.                                                                *)

LEMMA SetIsQuiet ==
    ASSUME NEW p, IsPage(p), NEW c, NEW v, c # "env_file"
    PROVE  Quiet(p, Set(p, c, v))
  BY DEF IsPage, Parts, Quiet, SameFiles, SameImage, SameOpen, SameJobs, Set, Value

LEMMA SetOrKeepIsQuiet ==
    ASSUME NEW p, IsPage(p), NEW c, NEW v, c # "env_file"
    PROVE  Quiet(p, SetOrKeep(p, c, v))
  BY SetIsQuiet DEF IsPage, Parts, Quiet, SameFiles, SameImage, SameOpen, SameJobs, SetOrKeep,
     Value

LEMMA BlankControlIsQuiet ==
    ASSUME NEW p, IsPage(p), NEW c
    PROVE  Quiet(p, AddControl(p, c, {}))
  BY DEF IsPage, Parts, Quiet, SameFiles, SameImage, SameOpen, SameJobs, AddControl, Value,
     Merge

LEMMA ResetIsQuiet ==
    ASSUME NEW p, IsPage(p), NEW kept, "env_file" \in kept
    PROVE  Quiet(p, ResetControls(p, kept))
  BY DEF IsPage, Parts, Quiet, SameFiles, SameImage, SameOpen, SameJobs, ResetControls, Value

LEMMA JobAdds ==
    ASSUME NEW p, IsPage(p), NEW job
    PROVE  /\ IsPage(Job(p, job)) /\ SameFiles(p, Job(p, job)) /\ SameImage(p, Job(p, job))
           /\ SameOpen(p, Job(p, job)) /\ Job(p, job).jobs = p.jobs \cup {job}
           /\ Job(p, job).annotated = p.annotated
  BY DEF IsPage, Parts, SameFiles, SameImage, SameOpen, Job, Value

(* What is shown of the variables, and which files are required.            *)
LEMMA SummaryIsQuiet ==
    ASSUME NEW p, IsPage(p)
    PROVE  /\ Quiet(p, RequiredVars(p)) /\ Quiet(p, EnvFileNeeded(p))
           /\ Quiet(p, RefreshEnvSummary(p))
           /\ \A needed : Quiet(p, ComposeFileRequired(p, needed))
<1> DEFINE W(q) == Quiet(q, RequiredVars(q))
           E(q) == Quiet(q, EnvFileNeeded(q))
<1>1. ASSUME NEW q, IsPage(q) PROVE W(q)
  BY <1>1 DEF IsPage, Parts, Quiet, SameFiles, SameImage, SameOpen, SameJobs, RequiredVars,
     Value
<1>2. ASSUME NEW q, IsPage(q) PROVE E(q)
  BY <1>2 DEF IsPage, Parts, Quiet, SameFiles, SameImage, SameOpen, SameJobs, EnvFileNeeded,
     Value
<1>3. Quiet(p, RefreshEnvSummary(p))
  <2>1. W(p)
    BY <1>1
  <2>2. E(RequiredVars(p))
    BY <1>2, <2>1 DEF Quiet
  <2> QED BY <2>1, <2>2, QuietTransitive DEF RefreshEnvSummary
<1>4. \A needed : Quiet(p, ComposeFileRequired(p, needed))
  BY DEF IsPage, Parts, Quiet, SameFiles, SameImage, SameOpen, SameJobs,
     ComposeFileRequired, Value
<1> QED BY <1>1, <1>2, <1>3, <1>4

LEMMA EnsuringIsQuiet ==
    ASSUME NEW p, IsPage(p)
    PROVE  Quiet(p, EnsureComposeControls(p))
<1> DEFINE a == AddControl(p, "compose_file", {})
           b == ComposeFileRequired(a, TRUE)
           c == AddControl(b, "env_file", {})
<1>1. Quiet(p, a)
  BY BlankControlIsQuiet
<1>2. Quiet(a, b)
  BY <1>1, SummaryIsQuiet DEF Quiet
<1>3. Quiet(b, c)
  BY <1>2, BlankControlIsQuiet DEF Quiet
<1>4. Quiet(c, AddControl(c, "volumes", {}))
  BY <1>3, BlankControlIsQuiet DEF Quiet
<1>5. Quiet(p, c)
  BY <1>1, <1>2, <1>3, QuietTransitive
<1> HIDE DEF c
<1>6. Quiet(p, AddControl(c, "volumes", {}))
  BY <1>4, <1>5, QuietTransitive
<1> QED BY <1>6 DEF EnsureComposeControls, c

----------------------------------------------------------------------------
(* The fields that follow from the compose file.                            *)

LEMMA OciImageIsQuiet ==
    ASSUME NEW p, IsPage(p), NEW image
    PROVE  Quiet(p, OciImageParameter(p, image))
  BY SetOrKeepIsQuiet DEF OciImageParameter, Quiet, SameFiles, SameImage, SameOpen, SameJobs

LEMMA CommandIsQuiet ==
    ASSUME NEW p, IsPage(p) PROVE Quiet(p, CommandFromCompose(p))
  BY SetOrKeepIsQuiet
     DEF CommandFromCompose, Quiet, SameFiles, SameImage, SameOpen, SameJobs

LEMMA UserIsQuiet ==
    ASSUME NEW p, IsPage(p) PROVE Quiet(p, UserFromCompose(p))
  BY SetOrKeepIsQuiet DEF UserFromCompose, Quiet, SameFiles, SameImage, SameOpen, SameJobs

LEMMA EnvsAreQuiet ==
    ASSUME NEW p, IsPage(p) PROVE Quiet(p, EnvsFromCompose(p))
  BY SetOrKeepIsQuiet DEF EnvsFromCompose, Quiet, SameFiles, SameImage, SameOpen, SameJobs

(* The image is derived from what is there, whatever it was before.         *)
LEMMA ImageIsDerived ==
    ASSUME NEW p, IsPage(p)
    PROVE  LET q == ImageFromCompose(p) IN
           /\ IsPage(q) /\ SameFiles(p, q) /\ SameOpen(p, q) /\ SameJobs(p, q)
           /\ ImageRight(q)
<1> DEFINE q == [p EXCEPT !.overtaken = FALSE]
           image == Text(Resolve(The(StringOf(p, "image")), EffectiveEnvs(p)))
           r == [q EXCEPT !.image = image, !.typed = {image}]
           s == OciImageParameter(r, image)
<1>1. CASE StringOf(p, "image") = {}
  BY <1>1 DEF ImageFromCompose, ImageRight, SameFiles, SameOpen, SameJobs
<1>2. CASE StringOf(p, "image") # {} /\ image = p.image
  <2>1. ImageFromCompose(p) = q
    BY <1>2 DEF ImageFromCompose
  <2>2. IsPage(q) /\ SameFiles(p, q) /\ SameOpen(p, q) /\ SameJobs(p, q) /\ q.image = image
    BY <1>2 DEF IsPage, Parts, SameFiles, SameOpen, SameJobs, Value
  <2>3. StringOf(q, "image") = StringOf(p, "image") /\ EffectiveEnvs(q) = EffectiveEnvs(p)
    <3> HIDE DEF q
    <3> QED BY <2>2, SameSources
  <2> QED BY <2>1, <2>2, <2>3 DEF ImageRight
<1>3. CASE StringOf(p, "image") # {} /\ image # p.image
  <2>1. ImageFromCompose(p) = s
    BY <1>3 DEF ImageFromCompose
  <2>2. IsPage(r) /\ SameFiles(p, r) /\ SameOpen(p, r) /\ SameJobs(p, r) /\ r.image = image
    BY <1>3 DEF IsPage, Parts, SameFiles, SameOpen, SameJobs, Value
  <2>3. Quiet(r, s)
    BY <2>2, OciImageIsQuiet
  <2>4. IsPage(s) /\ SameFiles(p, s) /\ SameOpen(p, s) /\ SameJobs(p, s) /\ s.image = image
    BY <2>2, <2>3 DEF Quiet, SameFiles, SameOpen, SameJobs, SameImage
  <2> HIDE DEF s
  <2>5. StringOf(s, "image") = StringOf(p, "image") /\ EffectiveEnvs(s) = EffectiveEnvs(p)
    BY <2>4, SameSources
  <2> QED BY <2>1, <2>4, <2>5 DEF ImageRight
<1> QED BY <1>1, <1>2, <1>3

LEMMA FieldsAreDerived ==
    ASSUME NEW p, IsPage(p)
    PROVE  LET q == FieldsFromService(p) IN
           /\ IsPage(q) /\ SameFiles(p, q) /\ SameOpen(p, q) /\ SameJobs(p, q)
           /\ ImageRight(q)
<1>1. CASE ~OciCompose(p) \/ ~HasServices(p)
  BY <1>1 DEF FieldsFromService, ImageRight, SameFiles, SameOpen, SameJobs
<1>2. CASE OciCompose(p) /\ HasServices(p)
  <2> DEFINE a == ImageFromCompose(p)
             b == CommandFromCompose(a)
             c == UserFromCompose(b)
             d == EnvsFromCompose(c)
  <2>1. /\ IsPage(a) /\ SameFiles(p, a) /\ SameOpen(p, a) /\ SameJobs(p, a)
        /\ ImageRight(a)
    BY ImageIsDerived
  <2>2. Quiet(a, b)
    BY <2>1, CommandIsQuiet
  <2>3. Quiet(b, c)
    BY <2>2, UserIsQuiet DEF Quiet
  <2>4. Quiet(c, d)
    BY <2>3, EnvsAreQuiet DEF Quiet
  <2>5. Quiet(a, d)
    BY <2>2, <2>3, <2>4, QuietTransitive
  <2>6. FieldsFromService(p) = d
    BY <1>2 DEF FieldsFromService
  <2> HIDE DEF a, d
  <2>7. ImageRight(d)
    BY <2>1, <2>5, ImageStays DEF Quiet
  <2>8. IsPage(d) /\ SameFiles(p, d) /\ SameOpen(p, d) /\ SameJobs(p, d)
    BY <2>1, <2>5 DEF Quiet, SameFiles, SameOpen, SameJobs
  <2> QED BY <2>6, <2>7, <2>8
<1> QED BY <1>1, <1>2

----------------------------------------------------------------------------
(* Clearing, proposals and the parameters.                                  *)

LEMMA ClearedForCompose ==
    ASSUME NEW p, IsPage(p)
    PROVE  LET q == ClearForCompose(p) IN
           /\ IsPage(q) /\ q.framework = p.framework /\ SameOpen(p, q) /\ SameJobs(p, q)
           /\ ImageRight(q)
<1> DEFINE a == ResetControls(p, {"compose_file", "env_file"})
           b == [a EXCEPT !.image = IF OciCompose(p) THEN {} ELSE @,
                          !.parsed = {}, !.service = Blank]
<1>1. Quiet(p, a)
  BY ResetIsQuiet
<1>2. b.parsed = {} /\ IsPage(b) /\ b.framework = p.framework /\ SameOpen(p, b) /\ SameJobs(p, b)
  <2> HIDE DEF a
  <2> QED BY <1>1 DEF Quiet, IsPage, Parts, SameFiles, SameOpen, SameJobs
<1>3. ~HasServices(b)
  <2> HIDE DEF b
  <2> QED BY <1>2 DEF HasServices
<1>4. ClearForCompose(p) = b
  BY DEF ClearForCompose
<1> QED BY <1>2, <1>3, <1>4 DEF ImageRight

LEMMA ClearedForEnv ==
    ASSUME NEW p, IsPage(p) PROVE Quiet(p, ClearForEnv(p))
  BY ResetIsQuiet DEF ClearForEnv, Quiet, SameFiles, SameImage, SameOpen, SameJobs

LEMMA Fetched ==
    ASSUME NEW p, IsPage(p), NEW image
    PROVE  LET q == FetchAnnotations(p, image) IN
           /\ IsPage(q) /\ SameFiles(p, q) /\ SameImage(p, q) /\ SameOpen(p, q)
           /\ q.jobs = p.jobs \cup {[kind |-> "annotate", image |-> image]}
           /\ q.annotated = {}
<1> DEFINE a == ResetControls(p, {"compose_file", "env_file", "volumes", "envs", "uid",
                                  "initial_command"})
           b == [a EXCEPT !.id = {}, !.annotated = {}]
<1>1. Quiet(p, a)
  BY ResetIsQuiet
<1>2. /\ IsPage(b) /\ SameFiles(p, b) /\ SameImage(p, b) /\ SameOpen(p, b)
      /\ b.jobs = p.jobs /\ b.annotated = {}
  <2> HIDE DEF a
  <2> QED BY <1>1
          DEF Quiet, IsPage, Parts, SameFiles, SameImage, SameOpen, SameJobs, Value
<1>3. ClearForImage(p) = b
  BY DEF ClearForImage
<1> HIDE DEF b
<1>4. /\ IsPage(Job(b, [kind |-> "annotate", image |-> image]))
      /\ SameFiles(b, Job(b, [kind |-> "annotate", image |-> image]))
      /\ SameImage(b, Job(b, [kind |-> "annotate", image |-> image]))
      /\ SameOpen(b, Job(b, [kind |-> "annotate", image |-> image]))
      /\ Job(b, [kind |-> "annotate", image |-> image]).jobs
         = b.jobs \cup {[kind |-> "annotate", image |-> image]}
      /\ Job(b, [kind |-> "annotate", image |-> image]).annotated = b.annotated
  BY <1>2, JobAdds
<1> QED BY <1>2, <1>3, <1>4 DEF FetchAnnotations, SameFiles, SameImage, SameOpen

(* A host's name follows the application's id, which concerns no file.      *)
LEMMA Synced ==
    ASSUME NEW p, IsPage(p)
    PROVE  LET q == SyncHostname(p) IN
           /\ IsPage(q) /\ SameFiles(p, q) /\ SameImage(p, q) /\ SameJobs(p, q)
           /\ q.classes = p.classes /\ DOMAIN q.install = DOMAIN p.install
  BY DEF SyncHostname, IsPage, Parts, SameFiles, SameImage, SameJobs, Value

LEMMA FillingIsQuiet ==
    ASSUME NEW p, IsPage(p), NEW image \in DOMAIN Annotations
    PROVE  Quiet(p, FillFromAnnotations(p, image))
<1> DEFINE found == Annotations[image]
           q == [p EXCEPT !.id = IF @ = {} THEN found.id ELSE @,
                          !.form = [c \in DOMAIN @ |->
                              IF @[c] = {} /\ c \in DOMAIN found.values
                              THEN found.values[c] ELSE @[c]]]
<1>1. Quiet(p, q)
  BY ImagesProposeNoFile
     DEF IsPage, Parts, Quiet, SameFiles, SameImage, SameOpen, SameJobs, Value
<1>2. FillFromAnnotations(p, image)
      = IF q.image # {} /\ Value(q, "oci_image") = {} THEN Set(q, "oci_image", q.image) ELSE q
  BY DEF FillFromAnnotations
<1> HIDE DEF q
<1>3. Quiet(q, Set(q, "oci_image", q.image))
  BY <1>1, SetIsQuiet DEF Quiet
<1> QED BY <1>1, <1>2, <1>3, QuietTransitive

(* The form is made anew: where the image follows from the files, the .env  *)
(* file is kept.                                                            *)
LEMMA ParametersAsked ==
    ASSUME NEW p, IsPage(p)
    PROVE  LET q == LoadParameters(p)
               job == [kind |-> "parameters", framework |-> p.framework,
                       kept |-> Filled(p.form)] IN
           /\ IsPage(q) /\ q.framework = p.framework /\ SameOpen(p, q)
           /\ q.jobs = p.jobs \cup {job} /\ q.annotated = p.annotated
           /\ ImageRight(p) => ImageRight(q)
<1> DEFINE a == [p EXCEPT !.parameters = {}, !.validated = {},
                          !.form = [c \in Preserved(p) |-> Value(p, c)]]
           b == IF p.framework = Compose THEN EnvFileNeeded(ComposeFileRequired(a, TRUE))
                ELSE a
           job == [kind |-> "parameters", framework |-> p.framework,
                   kept |-> Filled(p.form)]
           q == Job(b, job)
<1>1. /\ IsPage(a) /\ SameImage(p, a) /\ SameOpen(p, a) /\ SameJobs(p, a)
      /\ a.framework = p.framework /\ a.mode = p.mode
      /\ OciCompose(p) => SameFiles(p, a)
  BY DEF IsPage, Parts, SameFiles, SameImage, SameOpen, SameJobs, Value, Preserved,
     OciCompose, Compose, OciImage
<1> HIDE DEF a
<1>2. Quiet(a, b)
  <2>1. Quiet(a, a)
    BY <1>1 DEF Quiet, SameFiles, SameImage, SameOpen, SameJobs
  <2> DEFINE c == ComposeFileRequired(a, TRUE)
  <2>2. Quiet(a, c)
    BY <1>1, SummaryIsQuiet
  <2> HIDE DEF c
  <2>3. Quiet(c, EnvFileNeeded(c))
    BY <2>2, SummaryIsQuiet DEF Quiet
  <2>4. Quiet(a, EnvFileNeeded(c))
    BY <2>2, <2>3, QuietTransitive
  <2> QED BY <2>1, <2>4 DEF c
<1> HIDE DEF b
<1>3. /\ IsPage(q) /\ SameFiles(b, q) /\ SameImage(b, q) /\ SameOpen(b, q)
      /\ q.jobs = b.jobs \cup {job} /\ q.annotated = b.annotated
  BY <1>2, JobAdds DEF Quiet
<1>4. LoadParameters(p) = q
  BY DEF LoadParameters, a, b
<1> HIDE DEF q, job
<1>5. /\ IsPage(q) /\ q.framework = p.framework /\ q.mode = p.mode /\ SameOpen(p, q)
      /\ SameImage(p, q) /\ q.jobs = p.jobs \cup {job} /\ q.annotated = p.annotated
      /\ OciCompose(p) => SameFiles(p, q)
  BY <1>1, <1>2, <1>3 DEF Quiet, SameFiles, SameImage, SameOpen, SameJobs
<1>6. ASSUME ImageRight(p) PROVE ImageRight(q)
  <2>1. CASE OciCompose(p)
    BY <1>5, <1>6, <2>1, ImageStays
  <2>2. CASE ~OciCompose(p)
    BY <1>5, <2>2 DEF ImageRight, OciCompose
  <2> QED BY <2>1, <2>2
<1> QED BY <1>4, <1>5, <1>6 DEF q, job

(* The answer: what was put back over a newer .env file is remembered.      *)
LEMMA ParametersAnswered ==
    ASSUME NEW p, IsPage(p), NEW job
    PROVE  LET q == ParametersLoaded(p, job) IN
           /\ IsPage(q) /\ q.framework = p.framework
           /\ q.classes = p.classes /\ DOMAIN q.install = DOMAIN p.install
           /\ \/ q.jobs = p.jobs
              \/ p.framework = Compose /\ q.jobs = p.jobs \cup {[kind |-> "hydrate"]}
           /\ q.annotated = p.annotated
           /\ ImageRight(p) => ImageRight(q)
<1> DEFINE ids  == Loaded[job.framework]
           new  == ids \ DOMAIN p.form
           a    == [p EXCEPT !.parameters = ids]
           made == Merge([c \in new |-> ParameterDefault(a, c)], p.form)
           Late(c) == IF c \in DOMAIN Filled(p.pending) THEN p.pending[c]
                      ELSE IF c \in DOMAIN job.kept THEN job.kept[c] ELSE made[c]
           b    == [a EXCEPT !.form = [c \in DOMAIN made |-> Late(c)],
                             !.pending = Empty,
                             !.validated = @ \cup (new \cap Mandatory)]
           o    == [b EXCEPT !.overtaken = @ \/ Value(b, "env_file") # Value(p, "env_file")]
           n    == EnvFileNeeded(o)
           s    == SyncHostname(n)
           q    == ParametersLoaded(p, job)
<1>1. /\ IsPage(b) /\ SameOpen(p, b) /\ SameJobs(p, b) /\ SameImage(p, b)
      /\ b.framework = p.framework /\ b.mode = p.mode /\ b.parsed = p.parsed
      /\ b.service = p.service
  BY DEF IsPage, Parts, SameImage, SameOpen, SameJobs
<1>2. q = IF p.framework = Compose THEN Job(s, [kind |-> "hydrate"]) ELSE s
  BY DEF ParametersLoaded
<1> HIDE DEF b
<1>3. /\ IsPage(o) /\ SameOpen(p, o) /\ SameJobs(p, o) /\ o.image = p.image
      /\ o.framework = p.framework /\ o.mode = p.mode /\ o.parsed = p.parsed
      /\ o.service = p.service
      /\ ~o.overtaken => ~p.overtaken /\ SameFiles(p, o)
  BY <1>1 DEF IsPage, Parts, SameImage, SameOpen, SameJobs, SameFiles, Value
<1>4. Quiet(o, n)
  BY <1>3, SummaryIsQuiet
<1> HIDE DEF o, n
<1>5. /\ IsPage(s) /\ SameFiles(n, s) /\ SameImage(n, s) /\ SameJobs(n, s)
      /\ s.classes = n.classes /\ DOMAIN s.install = DOMAIN n.install
  BY <1>4, Synced DEF Quiet
<1> HIDE DEF s
<1>6. /\ IsPage(Job(s, [kind |-> "hydrate"])) /\ SameFiles(s, Job(s, [kind |-> "hydrate"]))
      /\ SameImage(s, Job(s, [kind |-> "hydrate"]))
      /\ SameOpen(s, Job(s, [kind |-> "hydrate"]))
      /\ Job(s, [kind |-> "hydrate"]).jobs = s.jobs \cup {[kind |-> "hydrate"]}
      /\ Job(s, [kind |-> "hydrate"]).annotated = s.annotated
  BY <1>5, JobAdds
<1>7. /\ IsPage(q) /\ SameFiles(s, q) /\ SameImage(s, q) /\ SameOpen(s, q)
      /\ q.annotated = s.annotated
      /\ \/ q.jobs = s.jobs
         \/ p.framework = Compose /\ q.jobs = s.jobs \cup {[kind |-> "hydrate"]}
  <2>1. CASE p.framework = Compose
    BY <1>2, <1>6, <2>1
  <2>2. CASE p.framework # Compose
    BY <1>2, <1>5, <2>2 DEF SameFiles, SameImage, SameOpen
  <2> QED BY <2>1, <2>2
<1> HIDE DEF q
<1>8. SameFiles(o, q) /\ SameImage(o, q)
  BY <1>4, <1>5, <1>7 DEF Quiet, SameFiles, SameImage
<1>9. ASSUME ImageRight(p) PROVE ImageRight(q)
  <2>1. CASE o.overtaken
    BY <1>8, <2>1 DEF SameImage, ImageRight
  <2>2. CASE ~o.overtaken
    <3>1. SameFiles(p, o) /\ ~p.overtaken /\ o.image = p.image
      BY <1>3, <2>2
    <3>2. ImageRight(o)
      BY <1>9, <3>1, SameSources DEF ImageRight
    <3> QED BY <1>8, <3>2, ImageStays
  <2> QED BY <2>1, <2>2
<1>10. /\ q.framework = p.framework /\ q.annotated = p.annotated
       /\ q.classes = p.classes /\ DOMAIN q.install = DOMAIN p.install
       /\ s.jobs = p.jobs
  BY <1>3, <1>4, <1>5, <1>7 DEF Quiet, SameFiles, SameOpen, SameJobs
<1> QED BY <1>7, <1>9, <1>10 DEF q

(* Only the page of a compose framework reads its file again.               *)
LEMMA Hydrated ==
    ASSUME NEW p, IsPage(p), p.framework = Compose
    PROVE  LET q == Hydrate(p) IN
           /\ IsPage(q) /\ q.framework = p.framework /\ SameOpen(p, q) /\ SameJobs(p, q)
           /\ ImageRight(q)
<1>1. CASE Value(p, "compose_file") = {}
  BY <1>1 DEF Hydrate, SameOpen, SameJobs, ImageRight, OciCompose, Compose, OciImage
<1>2. CASE Value(p, "compose_file") # {}
  <2> DEFINE file == The(Value(p, "compose_file"))
             a == IF ~ComposeText[file].readable THEN p ELSE
                  [p EXCEPT !.parsed = {file},
                            !.service = IF OciCompose(p) /\ ComposeText[file].services # <<>>
                                        THEN ComposeText[file].services[1].name ELSE @]
             b == IF Parsed(ComposeText[file]) = {} THEN a ELSE FieldsFromService(a)
             q == EnvFileNeeded(b)
  <2>1. IsPage(a) /\ a.framework = p.framework /\ SameOpen(p, a) /\ SameJobs(p, a)
    BY DEF IsPage, Parts, SameOpen, SameJobs
  <2>2. Hydrate(p) = q
    BY <1>2 DEF Hydrate
  <2> HIDE DEF a
  <2>3. IsPage(b) /\ b.framework = p.framework /\ SameOpen(p, b) /\ SameJobs(p, b)
    BY <2>1, FieldsAreDerived DEF SameFiles, SameOpen, SameJobs
  <2> HIDE DEF b
  <2>4. Quiet(b, q)
    BY <2>3, SummaryIsQuiet
  <2> HIDE DEF q
  <2>5. IsPage(q) /\ q.framework = p.framework /\ SameOpen(p, q) /\ SameJobs(p, q)
    BY <2>3, <2>4 DEF Quiet, SameFiles, SameOpen, SameJobs
  <2> QED BY <2>2, <2>5 DEF ImageRight, OciCompose, Compose, OciImage
<1> QED BY <1>1, <1>2

(* Every open parameter has a class.                                        *)
LEMMA OpenLoaded ==
    ASSUME NEW p, IsPage(p), NEW body
    PROVE  LET q == InstallLoaded(p, body) IN
           /\ IsPage(q) /\ SameFiles(p, q) /\ SameImage(p, q) /\ SameJobs(p, q)
           /\ OpenInv(q)
<1> DEFINE open == OpenParameters(body)
           classes == DefaultClasses(DOMAIN open, body.framework)
           q == InstallLoaded(p, body)
<1>1. DOMAIN classes = DOMAIN open /\ \A c \in DOMAIN classes : classes[c] \in Targets
  BY DEF DefaultClasses, Targets
<1> HIDE DEF classes
<1>2. /\ IsPage(q) /\ SameFiles(p, q) /\ SameImage(p, q) /\ SameJobs(p, q)
      /\ q.install = open /\ q.classes = classes
  BY DEF InstallLoaded, IsPage, Parts, SameFiles, SameImage, SameJobs, Value, classes
<1> QED BY <1>1, <1>2 DEF OpenInv

----------------------------------------------------------------------------
(* The page's invariant.  At its heart: whatever the files are, the image   *)
(* is that of the files or a timer is about to derive it.                   *)

ImageFollows(p) == ImageRight(p) \/ \E job \in p.jobs : job.kind = "fields"

JobRight(p, job) ==
    /\ job.kind = "hydrate" => p.framework = Compose
    /\ job.kind = "fill" => job.image \in DOMAIN Annotations

PageInv(p) ==
    /\ IsPage(p)
    /\ p.framework \in Framework
    /\ p.annotated \subseteq DOMAIN Annotations
    /\ OpenInv(p)
    /\ ImageFollows(p)
    /\ \A job \in p.jobs : JobRight(p, job)

(* A user's step: no timer is due, so the image is right before it.         *)
LEMMA EditKeeps ==
    ASSUME PageInv(page), ~TimerDue, NEW p, IsPage(p), p.framework \in Framework,
           p.annotated \subseteq DOMAIN Annotations, OpenInv(p),
           ImageRight(page) => ImageRight(p),
           \A job \in p.jobs \ page.jobs : JobRight(p, job)
    PROVE  PageInv(p)
<1>1. ImageRight(page)
  BY DEF PageInv, ImageFollows, TimerDue
<1>2. \A job \in page.jobs : JobRight(p, job)
  BY DEF PageInv, JobRight, TimerDue
<1> QED BY <1>1, <1>2 DEF PageInv, ImageFollows

(* A step of the page's own: its job is gone, those that it adds are there. *)
LEMMA GoesKeeps ==
    ASSUME PageInv(page), NEW job, NEW p, Goes(job, p), IsPage(p),
           p.framework = page.framework,
           p.annotated \subseteq DOMAIN Annotations, OpenInv(p), page.jobs \subseteq p.jobs,
           \/ ImageRight(p)
           \/ job.kind # "fields" /\ \/ ~ImageRight(page)
                                     \/ \E j \in p.jobs \ page.jobs : j.kind = "fields",
           \A j \in p.jobs \ page.jobs : JobRight(p, j)
    PROVE  PageInv(page')
<1> DEFINE q == [p EXCEPT !.jobs = (p.jobs \ {job}) \cup (p.jobs \ page.jobs)]
<1>1. page' = q
  BY DEF Goes
<1>2. /\ IsPage(q) /\ SameFiles(p, q) /\ SameImage(p, q) /\ SameOpen(p, q)
      /\ q.annotated = p.annotated
      /\ q.jobs = (p.jobs \ {job}) \cup (p.jobs \ page.jobs)
  BY DEF IsPage, Parts, SameFiles, SameImage, SameOpen, Value
<1> HIDE DEF q
<1>3. OpenInv(q) /\ q.framework \in Framework /\ q.annotated \subseteq DOMAIN Annotations
  BY <1>2 DEF OpenInv, SameOpen, SameFiles, PageInv
<1>4. \A j \in q.jobs : JobRight(q, j)
  BY <1>2 DEF PageInv, JobRight, SameFiles
<1>5. ImageFollows(q)
  <2>1. CASE ImageRight(p)
    BY <1>2, <2>1, ImageStays DEF ImageFollows
  <2>2. CASE job.kind # "fields" /\ ~ImageRight(page)
    <3>1. PICK j \in page.jobs : j.kind = "fields"
      BY <2>2 DEF PageInv, ImageFollows
    <3> QED BY <1>2, <2>2, <3>1 DEF ImageFollows
  <2>3. CASE \E j \in p.jobs \ page.jobs : j.kind = "fields"
    BY <1>2, <2>3 DEF ImageFollows
  <2> QED BY <2>1, <2>2, <2>3
<1> QED BY <1>1, <1>2, <1>3, <1>4, <1>5 DEF PageInv

(* A page that opens.                                                       *)
LEMMA FreshPage ==
    /\ PageInv(Fresh) /\ PageInv([Fresh EXCEPT !.left = TRUE])
<1> DEFINE new == [NewState EXCEPT !.framework = OciImage]
<1>1. /\ IsPage(new) /\ new.framework = OciImage /\ new.parsed = {} /\ new.jobs = {}
      /\ new.annotated = {} /\ new.install = Empty /\ new.classes = Empty
  BY DEF NewState, IsPage, Parts, None
<1>2. Fresh = EnsureComposeControls(new)
  BY DEF Fresh
<1> HIDE DEF new
<1>3. Quiet(new, Fresh)
  BY <1>1, <1>2, EnsuringIsQuiet
<1>4. /\ IsPage(Fresh) /\ Fresh.framework = OciImage /\ Fresh.parsed = {} /\ Fresh.jobs = {}
      /\ Fresh.annotated = {} /\ Fresh.install = Empty /\ Fresh.classes = Empty
  BY <1>1, <1>3 DEF Quiet, SameFiles, SameOpen, SameJobs
<1> DEFINE P(p) ==
      /\ IsPage(p) /\ p.framework = OciImage /\ p.parsed = {} /\ p.jobs = {}
      /\ p.annotated = {} /\ p.install = Empty /\ p.classes = Empty
<1>5. P([Fresh EXCEPT !.left = TRUE])
  BY <1>4 DEF IsPage, Parts
<1>6. ASSUME NEW p, P(p) PROVE PageInv(p)
  <2>1. ~HasServices(p)
    BY <1>6 DEF HasServices
  <2> QED BY <1>6, <2>1 DEF PageInv, OpenInv, ImageFollows, ImageRight, Empty, Framework
<1> QED BY <1>4, <1>5, <1>6

LEMMA EmptyFormIsOpen ==
    ASSUME NEW p, NEW q, OpenInv(p), q.classes = p.classes, DOMAIN q.install = DOMAIN p.install
    PROVE  OpenInv(q)
  BY DEF OpenInv

----------------------------------------------------------------------------
(* The user's steps.                                                        *)

LEMMA FrameworkEdits ==
    ASSUME PageInv(page),
           \/ \E f \in Framework : SelectFramework(f)
           \/ \E mode \in {"image", "compose"} : ChangeMode(mode)
    PROVE  PageInv(page')
<1> USE DEF PageInv
<1>1. ASSUME NEW f \in Framework, SelectFramework(f) PROVE PageInv(page')
  <2> DEFINE p == [page EXCEPT !.framework = f, !.image = {}, !.parsed = {},
                               !.service = Blank, !.mode = "compose"]
             q == EnsureComposeControls(p)
  <2>1. page' = q /\ ~TimerDue
    BY <1>1 DEF SelectFramework, Edit
  <2>2. /\ IsPage(p) /\ p.framework = f /\ p.parsed = {} /\ SameOpen(page, p)
        /\ SameJobs(page, p)
    BY DEF IsPage, Parts, SameOpen, SameJobs
  <2> HIDE DEF p
  <2>3. Quiet(p, q)
    BY <2>2, EnsuringIsQuiet
  <2> HIDE DEF q
  <2>4. /\ IsPage(q) /\ q.framework \in Framework /\ q.annotated \subseteq DOMAIN Annotations
        /\ OpenInv(q) /\ q.jobs = page.jobs
    BY <2>2, <2>3 DEF Quiet, SameFiles, SameOpen, SameJobs, OpenInv
  <2>5. ImageRight(q)
    BY <2>2, <2>3 DEF Quiet, SameFiles, ImageRight, HasServices
  <2> QED BY <2>1, <2>4, <2>5, EditKeeps
<1>2. ASSUME NEW mode \in {"image", "compose"}, ChangeMode(mode) PROVE PageInv(page')
  <2> DEFINE p == [page EXCEPT !.mode = mode, !.parsed = {}, !.service = Blank]
             c == ComposeFileRequired(p, FALSE)
             e == EnvFileNeeded(c)
             q == ModeChanged(p)
  <2>1. page' = q /\ ~TimerDue
    BY <1>2 DEF ChangeMode, Edit
  <2>2. /\ IsPage(p) /\ p.framework = page.framework /\ p.parsed = {} /\ SameOpen(page, p)
        /\ SameJobs(page, p)
    BY DEF IsPage, Parts, SameOpen, SameJobs
  <2>3. q = IF p.mode = "compose" THEN EnsureComposeControls(p) ELSE RefreshEnvSummary(e)
    BY DEF ModeChanged
  <2> HIDE DEF p, q
  <2>4. Quiet(p, q)
    <3>1. Quiet(p, EnsureComposeControls(p))
      BY <2>2, EnsuringIsQuiet
    <3>2. Quiet(p, c)
      BY <2>2, SummaryIsQuiet
    <3> HIDE DEF c
    <3>3. Quiet(c, e)
      BY <3>2, SummaryIsQuiet DEF Quiet
    <3> HIDE DEF e
    <3>4. Quiet(e, RefreshEnvSummary(e))
      BY <3>3, SummaryIsQuiet DEF Quiet
    <3>5. Quiet(p, RefreshEnvSummary(e))
      BY <3>2, <3>3, <3>4, QuietTransitive
    <3> QED BY <2>3, <3>1, <3>5
  <2>5. /\ IsPage(q) /\ q.framework \in Framework /\ q.annotated \subseteq DOMAIN Annotations
        /\ OpenInv(q) /\ q.jobs = page.jobs
    BY <2>2, <2>4 DEF Quiet, SameFiles, SameOpen, SameJobs, OpenInv
  <2>6. ImageRight(q)
    BY <2>2, <2>4 DEF Quiet, SameFiles, ImageRight, HasServices
  <2> QED BY <2>1, <2>5, <2>6, EditKeeps
<1> QED BY <1>1, <1>2

LEMMA FileEdits ==
    ASSUME PageInv(page),
           \/ \E file \in DOMAIN ComposeText : SelectCompose(file)
           \/ \E file \in DOMAIN EnvText : SelectEnv(file)
           \/ \E p \in page.parsed : \E s \in ServiceSet(ComposeText[p]) : SelectService(s.name)
    PROVE  PageInv(page')
<1> USE DEF PageInv
<1>1. ASSUME NEW file, SelectCompose(file) PROVE PageInv(page')
  <2> DEFINE p == ClearForCompose(page)
             job == [kind |-> "compose", file |-> file]
             q == Job(p, job)
  <2>1. page' = q /\ ~TimerDue
    BY <1>1 DEF SelectCompose, Edit
  <2>2. /\ IsPage(p) /\ p.framework = page.framework /\ SameOpen(page, p)
        /\ SameJobs(page, p) /\ ImageRight(p)
    BY ClearedForCompose
  <2> HIDE DEF p
  <2>3. /\ IsPage(q) /\ SameFiles(p, q) /\ SameImage(p, q) /\ SameOpen(p, q)
        /\ q.jobs = p.jobs \cup {job} /\ q.annotated = p.annotated
    BY <2>2, JobAdds
  <2>4. JobRight(q, job)
    BY DEF JobRight
  <2> HIDE DEF q, job
  <2>5. /\ q.framework \in Framework /\ q.annotated \subseteq DOMAIN Annotations
        /\ OpenInv(q) /\ q.jobs \ page.jobs \subseteq {job}
    BY <2>2, <2>3 DEF SameFiles, SameOpen, SameJobs, OpenInv
  <2>6. ImageRight(q)
    BY <2>2, <2>3, ImageStays
  <2> QED BY <2>1, <2>3, <2>4, <2>5, <2>6, EditKeeps
<1>2. ASSUME NEW file, SelectEnv(file) PROVE PageInv(page')
  <2> DEFINE p == ClearForEnv(page)
             job == [kind |-> "env", file |-> file]
             q == Job(p, job)
  <2>1. page' = q /\ ~TimerDue
    BY <1>2 DEF SelectEnv, Edit
  <2>2. Quiet(page, p)
    BY ClearedForEnv
  <2> HIDE DEF p
  <2>3. /\ IsPage(q) /\ SameFiles(p, q) /\ SameImage(p, q) /\ SameOpen(p, q)
        /\ q.jobs = p.jobs \cup {job} /\ q.annotated = p.annotated
    BY <2>2, JobAdds DEF Quiet
  <2>4. JobRight(q, job)
    BY DEF JobRight
  <2> HIDE DEF q, job
  <2>5. /\ q.framework \in Framework /\ q.annotated \subseteq DOMAIN Annotations
        /\ OpenInv(q) /\ q.jobs \ page.jobs \subseteq {job}
        /\ SameFiles(page, q) /\ SameImage(page, q)
    BY <2>2, <2>3 DEF Quiet, SameFiles, SameOpen, SameJobs, SameImage, OpenInv
  <2>6. ImageRight(page) => ImageRight(q)
    BY <2>5, ImageStays
  <2> QED BY <2>1, <2>3, <2>4, <2>5, <2>6, EditKeeps
<1>3. ASSUME NEW name, SelectService(name) PROVE PageInv(page')
  <2> DEFINE p == [page EXCEPT !.service = name]
             f == FieldsFromService(p)
             q == EnvFileNeeded(f)
  <2>1. page' = q /\ ~TimerDue
    BY <1>3 DEF SelectService, Edit
  <2>2. /\ IsPage(p) /\ p.framework = page.framework /\ SameOpen(page, p)
        /\ SameJobs(page, p)
    BY DEF IsPage, Parts, SameOpen, SameJobs
  <2> HIDE DEF p
  <2>3. /\ IsPage(f) /\ SameFiles(p, f) /\ SameOpen(p, f) /\ SameJobs(p, f)
        /\ ImageRight(f)
    BY <2>2, FieldsAreDerived
  <2> HIDE DEF f
  <2>4. Quiet(f, q)
    BY <2>3, SummaryIsQuiet
  <2> HIDE DEF q
  <2>5. /\ IsPage(q) /\ q.framework \in Framework /\ q.annotated \subseteq DOMAIN Annotations
        /\ OpenInv(q) /\ q.jobs = page.jobs
    BY <2>2, <2>3, <2>4 DEF Quiet, SameFiles, SameOpen, SameJobs, OpenInv
  <2>6. ImageRight(q)
    BY <2>3, <2>4, ImageStays DEF Quiet
  <2> QED BY <2>1, <2>5, <2>6, EditKeeps
<1> QED BY <1>1, <1>2, <1>3

(* The fields of a step that the image does not depend on.                  *)
LEMMA OtherEdits ==
    ASSUME PageInv(page),
           \/ \E image \in Images : TypeImage(image)
           \/ \E id \in Ids : TypeId(id)
           \/ AddUpload
           \/ \E c \in DOMAIN page.install : \E v \in {{}, Entered(c)} : EnterValue(c, v)
           \/ \E c \in DOMAIN page.classes, t \in Targets : Classify(c, t)
    PROVE  PageInv(page')
<1> USE DEF PageInv
<1>1. ASSUME NEW image, TypeImage(image) PROVE PageInv(page')
  <2> DEFINE q == [page EXCEPT !.image = {image}, !.typed = {{image}}]
  <2>1. page' = q /\ ~TimerDue /\ page.mode = "image"
    BY <1>1 DEF TypeImage, Edit
  <2>2. /\ IsPage(q) /\ q.framework = page.framework /\ SameOpen(page, q)
        /\ SameJobs(page, q) /\ q.mode = page.mode
    BY DEF IsPage, Parts, SameOpen, SameJobs
  <2> HIDE DEF q
  <2>3. OpenInv(q) /\ q.jobs = page.jobs /\ q.annotated = page.annotated
    BY <2>2 DEF SameOpen, SameJobs, OpenInv
  <2>4. ImageRight(q)
    BY <2>1, <2>2 DEF ImageRight, OciCompose
  <2> QED BY <2>1, <2>2, <2>3, <2>4, EditKeeps
<1>2. ASSUME NEW id, TypeId(id) PROVE PageInv(page')
  <2> DEFINE p == [page EXCEPT !.id = {id}]
             q == SyncHostname(p)
  <2>1. page' = q /\ ~TimerDue
    BY <1>2 DEF TypeId, Edit
  <2>2. IsPage(p) /\ SameFiles(page, p) /\ SameImage(page, p) /\ SameOpen(page, p)
        /\ SameJobs(page, p)
    BY DEF IsPage, Parts, SameFiles, SameImage, SameOpen, SameJobs, Value
  <2> HIDE DEF p
  <2>3. /\ IsPage(q) /\ SameFiles(p, q) /\ SameImage(p, q) /\ SameJobs(p, q)
        /\ q.classes = p.classes /\ DOMAIN q.install = DOMAIN p.install
    BY <2>2, Synced
  <2> HIDE DEF q
  <2>4. /\ OpenInv(q) /\ q.jobs = page.jobs /\ q.annotated = page.annotated
        /\ SameFiles(page, q) /\ SameImage(page, q)
    BY <2>2, <2>3 DEF SameFiles, SameImage, SameOpen, SameJobs, OpenInv
  <2>5. ImageRight(page) => ImageRight(q)
    BY <2>4, ImageStays
  <2> QED BY <2>1, <2>3, <2>4, <2>5, EditKeeps DEF SameFiles
<1>3. ASSUME NEW q, IsPage(q), ~TimerDue, SameFiles(page, q), SameImage(page, q),
             SameJobs(page, q), OpenInv(q)
      PROVE  PageInv(q)
  <2>1. ImageRight(page) => ImageRight(q)
    BY <1>3, ImageStays
  <2> QED BY <1>3, <2>1, EditKeeps DEF SameFiles, SameJobs
<1>4. ASSUME AddUpload PROVE PageInv(page')
  <2> DEFINE q == [page EXCEPT !.uploads = {Upload}]
  <2>1. page' = q /\ ~TimerDue
    BY <1>4 DEF AddUpload, Edit
  <2>2. IsPage(q) /\ SameFiles(page, q) /\ SameImage(page, q) /\ SameJobs(page, q)
        /\ q.install = page.install /\ q.classes = page.classes
    BY DEF IsPage, Parts, SameFiles, SameImage, SameJobs, Value
  <2> HIDE DEF q
  <2> QED BY <1>3, <2>1, <2>2 DEF OpenInv
<1>5. ASSUME NEW c \in DOMAIN page.install, NEW v, EnterValue(c, v) PROVE PageInv(page')
  <2> DEFINE q == [page EXCEPT !.install[c] = v]
  <2>1. page' = q /\ ~TimerDue
    BY <1>5 DEF EnterValue, Edit
  <2>2. IsPage(q) /\ SameFiles(page, q) /\ SameImage(page, q) /\ SameJobs(page, q)
        /\ DOMAIN q.install = DOMAIN page.install /\ q.classes = page.classes
    BY DEF IsPage, Parts, SameFiles, SameImage, SameJobs, Value
  <2> HIDE DEF q
  <2> QED BY <1>3, <2>1, <2>2 DEF OpenInv
<1>6. ASSUME NEW c \in DOMAIN page.classes, NEW t \in Targets, Classify(c, t)
      PROVE  PageInv(page')
  <2> DEFINE q == [page EXCEPT !.classes[c] = t]
  <2>1. page' = q /\ ~TimerDue
    BY <1>6 DEF Classify, Edit
  <2>2. IsPage(q) /\ SameFiles(page, q) /\ SameImage(page, q) /\ SameJobs(page, q)
        /\ q.install = page.install /\ q.classes = [page.classes EXCEPT ![c] = t]
    BY DEF IsPage, Parts, SameFiles, SameImage, SameJobs, Value
  <2> HIDE DEF q
  <2> QED BY <1>3, <2>1, <2>2 DEF OpenInv
<1> QED BY <1>1, <1>2, <1>4, <1>5, <1>6

(* From step to step, and to the form's parameters once more.               *)
LEMMA StepKeeps ==
    ASSUME PageInv(page), Retry \/ \E step \in 0 .. 3 : StepChange(step)
    PROVE  PageInv(page')
<1> USE DEF PageInv
<1>1. ASSUME Retry PROVE PageInv(page')
  <2> DEFINE p == [page EXCEPT !.preview = "loading"]
             job == PreviewBody(page)
             q == Job(p, job)
  <2>1. page' = q /\ ~TimerDue
    BY <1>1 DEF Retry, Edit
  <2>2. IsPage(p) /\ SameFiles(page, p) /\ SameImage(page, p) /\ SameOpen(page, p)
        /\ SameJobs(page, p)
    BY DEF IsPage, Parts, SameFiles, SameImage, SameOpen, SameJobs, Value
  <2>3. JobRight(q, job)
    BY DEF JobRight, PreviewBody
  <2> HIDE DEF p, job
  <2>4. /\ IsPage(q) /\ SameFiles(p, q) /\ SameImage(p, q) /\ SameOpen(p, q)
        /\ q.jobs = p.jobs \cup {job} /\ q.annotated = p.annotated
    BY <2>2, JobAdds
  <2> HIDE DEF q
  <2>5. /\ q.framework \in Framework /\ q.annotated \subseteq DOMAIN Annotations
        /\ OpenInv(q) /\ q.jobs \ page.jobs \subseteq {job}
        /\ SameFiles(page, q) /\ SameImage(page, q)
    BY <2>2, <2>4 DEF SameFiles, SameOpen, SameJobs, SameImage, OpenInv
  <2>6. ImageRight(page) => ImageRight(q)
    BY <2>5, ImageStays
  <2> QED BY <2>1, <2>3, <2>4, <2>5, <2>6, EditKeeps
<1>2. ASSUME NEW step, StepChange(step) PROVE PageInv(page')
  <2> DEFINE p == [page EXCEPT !.step = step, !.reached = IF step > @ THEN step ELSE @]
             q == IF page.step = 0 /\ step = 1 THEN LoadParameters(p) ELSE p
             fill == [kind |-> "fill", image |-> The(p.annotated)]
             r == IF page.step = 0 /\ step = 1 /\ p.annotated # {} THEN Job(q, fill) ELSE q
             open == [kind |-> "open"]
             s == IF step = 2 /\ page.step < 2 THEN Job(r, open) ELSE r
             asked == [kind |-> "parameters", framework |-> p.framework,
                       kept |-> Filled(p.form)]
  <2>1. page' = s /\ ~TimerDue
    BY <1>2 DEF StepChange
  <2>2. /\ IsPage(p) /\ SameFiles(page, p) /\ SameImage(page, p) /\ SameOpen(page, p)
        /\ SameJobs(page, p)
    BY DEF IsPage, Parts, SameFiles, SameImage, SameOpen, SameJobs, Value
  <2>3. ImageRight(page) => ImageRight(p)
    BY <2>2, ImageStays
  <2>4. p.annotated # {} => The(p.annotated) \in DOMAIN Annotations
    BY <2>2 DEF The, SameJobs
  <2> HIDE DEF p
  <2>5. /\ IsPage(q) /\ q.framework = p.framework /\ SameOpen(p, q)
        /\ q.jobs \subseteq p.jobs \cup {asked} /\ p.jobs \subseteq q.jobs
        /\ q.annotated = p.annotated /\ (ImageRight(p) => ImageRight(q))
    BY <2>2, ParametersAsked DEF SameOpen
  <2> HIDE DEF q
  <2>6. /\ IsPage(r) /\ r.framework = q.framework /\ SameOpen(q, r)
        /\ r.jobs \subseteq q.jobs \cup (IF p.annotated # {} THEN {fill} ELSE {})
        /\ r.annotated = q.annotated /\ (ImageRight(q) => ImageRight(r))
    <3>1. CASE r = q
      BY <2>5, <3>1 DEF SameOpen
    <3>2. CASE r = Job(q, fill) /\ p.annotated # {}
      <4>1. /\ IsPage(r) /\ SameFiles(q, r) /\ SameImage(q, r) /\ SameOpen(q, r)
            /\ r.jobs = q.jobs \cup {fill} /\ r.annotated = q.annotated
        BY <2>5, <3>2, JobAdds
      <4> HIDE DEF r
      <4>2. ImageRight(q) => ImageRight(r)
        BY <4>1, ImageStays
      <4> QED BY <3>2, <4>1, <4>2 DEF SameFiles
    <3> QED BY <3>1, <3>2
  <2> HIDE DEF r
  <2>7. /\ IsPage(s) /\ s.framework = r.framework /\ SameOpen(r, s)
        /\ s.jobs \subseteq r.jobs \cup {open}
        /\ s.annotated = r.annotated /\ (ImageRight(r) => ImageRight(s))
    <3>1. CASE s = r
      BY <2>6, <3>1 DEF SameOpen
    <3>2. CASE s = Job(r, open)
      <4>1. /\ IsPage(s) /\ SameFiles(r, s) /\ SameImage(r, s) /\ SameOpen(r, s)
            /\ s.jobs = r.jobs \cup {open} /\ s.annotated = r.annotated
        BY <2>6, <3>2, JobAdds
      <4> HIDE DEF s
      <4>2. ImageRight(r) => ImageRight(s)
        BY <4>1, ImageStays
      <4> QED BY <4>1, <4>2 DEF SameFiles
    <3> QED BY <3>1, <3>2
  <2> HIDE DEF s
  <2>8. JobRight(s, asked) /\ JobRight(s, open) /\ (p.annotated # {} => JobRight(s, fill))
    BY <2>4 DEF JobRight
  <2>9. /\ s.framework = page.framework /\ s.annotated = page.annotated
        /\ OpenInv(s) /\ (ImageRight(page) => ImageRight(s))
        /\ s.jobs \ page.jobs
           \subseteq {asked, open} \cup (IF p.annotated # {} THEN {fill} ELSE {})
    <3> HIDE DEF asked, open, fill
    <3> QED BY <2>2, <2>3, <2>5, <2>6, <2>7
            DEF SameFiles, SameOpen, SameJobs, OpenInv
  <2> HIDE DEF asked, open, fill
  <2>10. \A job \in s.jobs \ page.jobs : JobRight(s, job)
    BY <2>8, <2>9
  <2> QED BY <2>1, <2>7, <2>9, <2>10, EditKeeps
<1> QED BY <1>1, <1>2

(* The pause after typing.                                                  *)
LEMMA DebouncedKeeps == ASSUME PageInv(page), Debounced PROVE PageInv(page')
<1> USE DEF PageInv
<1> DEFINE image == The(page.typed)
           n == [page EXCEPT !.typed = {}]
           p == [page EXCEPT !.typed = {}, !.seen = {image}]
           o == OciImageParameter(p, image)
           job == [kind |-> "annotate", image |-> The(image)]
           f == FetchAnnotations(o, The(image))
<1>1. /\ ~TimerDue
      /\ page' = IF {image} = page.seen THEN n
                 ELSE IF image = {} THEN Set(p, "oci_image", {}) ELSE f
  BY DEF Debounced
<1>2. Quiet(page, n) /\ Quiet(page, p)
  BY DEF Quiet, IsPage, Parts, SameFiles, SameImage, SameOpen, SameJobs, Value
<1> HIDE DEF p, n
<1>3. Quiet(page, Set(p, "oci_image", {}))
  <2>1. Quiet(p, Set(p, "oci_image", {}))
    BY <1>2, SetIsQuiet DEF Quiet
  <2> QED BY <1>2, <2>1, QuietTransitive
<1>4. Quiet(page, o)
  <2>1. Quiet(p, o)
    BY <1>2, OciImageIsQuiet DEF Quiet
  <2> QED BY <1>2, <2>1, QuietTransitive
<1> HIDE DEF o
<1>5. /\ IsPage(f) /\ SameFiles(o, f) /\ SameImage(o, f) /\ SameOpen(o, f)
      /\ f.jobs = o.jobs \cup {job} /\ f.annotated = {}
  BY <1>4, Fetched DEF Quiet
<1>6. JobRight(f, job)
  BY DEF JobRight
<1> HIDE DEF f, job
<1>7. ASSUME NEW q, Quiet(page, q) PROVE PageInv(q)
  <2>1. ImageRight(page) => ImageRight(q)
    BY <1>7, ImageStays DEF Quiet
  <2>2. /\ IsPage(q) /\ q.framework = page.framework /\ q.annotated = page.annotated
        /\ OpenInv(q) /\ q.jobs = page.jobs
    BY <1>7 DEF Quiet, SameFiles, SameOpen, SameJobs, OpenInv
  <2> QED BY <1>1, <2>1, <2>2, EditKeeps
<1>8. PageInv(f)
  <2>1. /\ SameFiles(page, f) /\ SameImage(page, f) /\ SameOpen(page, f)
        /\ f.jobs \ page.jobs \subseteq {job}
    BY <1>4, <1>5 DEF Quiet, SameFiles, SameImage, SameOpen, SameJobs
  <2>2. ImageRight(page) => ImageRight(f)
    BY <2>1, ImageStays
  <2>3. OpenInv(f) /\ f.framework = page.framework
    BY <2>1 DEF SameOpen, SameFiles, OpenInv
  <2> QED BY <1>1, <1>5, <1>6, <2>1, <2>2, <2>3, EditKeeps
<1> QED BY <1>1, <1>2, <1>3, <1>7, <1>8

----------------------------------------------------------------------------
(* The page's own steps.                                                    *)

(* A step that adds no job and leaves image and files alone.                *)
LEMMA QuietlyGoes ==
    ASSUME PageInv(page), NEW job, NEW p, Goes(job, p), IsPage(p), SameFiles(page, p),
           SameImage(page, p), OpenInv(p), p.annotated \subseteq DOMAIN Annotations,
           page.jobs \subseteq p.jobs, job.kind # "fields",
           \A j \in p.jobs \ page.jobs : JobRight(p, j)
    PROVE  PageInv(page')
<1>1. p.framework = page.framework
  BY DEF SameFiles
<1>2. ImageRight(page) => ImageRight(p)
  BY ImageStays
<1> QED BY <1>1, <1>2, GoesKeeps

LEMMA FilesRead ==
    ASSUME PageInv(page), NEW job, ComposeRead(job) \/ EnvRead(job) PROVE PageInv(page')
<1> USE DEF PageInv
<1>1. ASSUME ComposeRead(job) PROVE PageInv(page')
  <2> DEFINE p == Set(page, "compose_file", {job.file})
             text == ComposeText[job.file]
             volumes == ComposeVolumes(text.mounts)
             q == [p EXCEPT !.parsed = {job.file}]
             r == IF volumes # {} /\ Value(q, "volumes") = {}
                  THEN SetOrKeep(q, "volumes", volumes) ELSE q
             s == [r EXCEPT !.service = text.services[1].name]
             t == IF OciCompose(r) /\ text.services # <<>> THEN FieldsFromService(s) ELSE r
             a == RequiredVars(t)
             b == EnvFileNeeded(a)
             c == RefreshEnvSummary(b)
             to == IF text.readable THEN c ELSE p
  <2>1. job.kind = "compose" /\ Goes(job, to)
    BY <1>1 DEF ComposeRead
  <2>2. Quiet(page, p)
    BY SetIsQuiet
  <2> HIDE DEF p
  <2>3. /\ IsPage(q) /\ q.framework = p.framework /\ SameOpen(p, q) /\ SameJobs(p, q)
        /\ q.parsed = {job.file}
    BY <2>2 DEF Quiet, IsPage, Parts, SameOpen, SameJobs
  <2> HIDE DEF q
  <2>4. Quiet(q, r)
    BY <2>3, SetOrKeepIsQuiet DEF Quiet, SameFiles, SameImage, SameOpen, SameJobs
  <2> HIDE DEF r
  <2>5. /\ IsPage(s) /\ s.framework = r.framework /\ SameOpen(r, s) /\ SameJobs(r, s)
    BY <2>4 DEF Quiet, IsPage, Parts, SameOpen, SameJobs
  <2> HIDE DEF s
  <2>6. /\ IsPage(t) /\ t.framework = r.framework /\ SameOpen(r, t) /\ SameJobs(r, t)
        /\ ImageRight(t)
    <3>1. CASE OciCompose(r) /\ text.services # <<>>
      BY <2>5, <3>1, FieldsAreDerived DEF SameFiles, SameOpen, SameJobs
    <3>2. CASE ~(OciCompose(r) /\ text.services # <<>>)
      <4>1. The(r.parsed) = job.file /\ t = r
        BY <2>3, <2>4, <3>2 DEF Quiet, SameFiles, The
      <4>2. ~(OciCompose(t) /\ HasServices(t))
        BY <3>2, <4>1 DEF HasServices
      <4> QED BY <2>4, <4>1, <4>2 DEF Quiet, SameOpen, SameJobs, ImageRight
    <3> QED BY <3>1, <3>2
  <2> HIDE DEF t
  <2>7. Quiet(t, c)
    <3>1. Quiet(t, a)
      BY <2>6, SummaryIsQuiet
    <3> HIDE DEF a
    <3>2. Quiet(a, b)
      BY <3>1, SummaryIsQuiet DEF Quiet
    <3> HIDE DEF b
    <3>3. Quiet(b, c)
      BY <3>2, SummaryIsQuiet DEF Quiet
    <3> QED BY <3>1, <3>2, <3>3, QuietTransitive
  <2> HIDE DEF c
  <2>8. CASE text.readable
    <3>1. /\ IsPage(c) /\ c.framework = page.framework /\ SameOpen(page, c)
          /\ SameJobs(page, c)
      BY <2>2, <2>3, <2>4, <2>6, <2>7 DEF Quiet, SameFiles, SameOpen, SameJobs
    <3>2. ImageRight(c)
      BY <2>6, <2>7, ImageStays DEF Quiet
    <3>3. OpenInv(c) /\ c.jobs = page.jobs /\ c.annotated = page.annotated
      BY <3>1 DEF SameOpen, SameJobs, OpenInv
    <3> QED BY <2>1, <2>8, <3>1, <3>2, <3>3, GoesKeeps
  <2>9. CASE ~text.readable
    <3>1. OpenInv(p) /\ p.jobs = page.jobs /\ p.annotated = page.annotated
      BY <2>2 DEF Quiet, SameOpen, SameJobs, OpenInv
    <3> QED BY <2>1, <2>2, <2>9, <3>1, QuietlyGoes DEF Quiet
  <2> QED BY <2>8, <2>9
<1>2. ASSUME EnvRead(job) PROVE PageInv(page')
  <2> DEFINE p == Set(page, "env_file", {job.file})
             q == [p EXCEPT !.missing = MissingVars(p, EnvOf(p))]
             r == EnvFileNeeded(q)
             derive == [kind |-> "fields"]
             s == Job(r, derive)
  <2>1. job.kind = "env" /\ Goes(job, s)
    BY <1>2 DEF EnvRead
  <2>2. IsPage(p) /\ p.framework = page.framework /\ SameOpen(page, p) /\ SameJobs(page, p)
    BY DEF Set, IsPage, Parts, SameOpen, SameJobs
  <2> HIDE DEF p
  <2>3. IsPage(q) /\ q.framework = p.framework /\ SameOpen(p, q) /\ SameJobs(p, q)
    BY <2>2 DEF IsPage, Parts, SameOpen, SameJobs
  <2> HIDE DEF q
  <2>4. Quiet(q, r)
    BY <2>3, SummaryIsQuiet
  <2> HIDE DEF r
  <2>5. /\ IsPage(s) /\ SameFiles(r, s) /\ SameOpen(r, s)
        /\ s.jobs = r.jobs \cup {derive} /\ s.annotated = r.annotated
    BY <2>4, JobAdds DEF Quiet
  <2>6. JobRight(s, derive) /\ derive.kind = "fields"
    BY DEF JobRight
  <2> HIDE DEF s, derive
  <2>7. /\ s.framework = page.framework /\ s.annotated = page.annotated /\ OpenInv(s)
        /\ s.jobs = page.jobs \cup {derive}
    BY <2>2, <2>3, <2>4, <2>5 DEF Quiet, SameFiles, SameOpen, SameJobs, OpenInv
  <2>8. CASE derive \in page.jobs
    <3>1. derive \in page'.jobs
      BY <2>1, <2>6, <2>7, <2>8, <2>5 DEF Goes, IsPage, Parts
    <3> DEFINE t == [s EXCEPT !.jobs = (s.jobs \ {job}) \cup (s.jobs \ page.jobs)]
    <3>2. /\ page' = t /\ IsPage(t) /\ SameOpen(s, t) /\ t.framework = s.framework
          /\ t.annotated = s.annotated /\ t.jobs \subseteq page.jobs
      BY <2>1, <2>5, <2>7, <2>8 DEF Goes, IsPage, Parts, SameOpen
    <3> HIDE DEF t
    <3>3. OpenInv(t) /\ ImageFollows(t) /\ \A j \in t.jobs : JobRight(t, j)
      BY <2>6, <2>7, <3>1, <3>2 DEF OpenInv, SameOpen, ImageFollows, JobRight
    <3> QED BY <2>7, <3>2, <3>3
  <2>9. CASE derive \notin page.jobs
    BY <2>1, <2>5, <2>6, <2>7, <2>9, GoesKeeps
  <2> QED BY <2>8, <2>9
<1> QED BY <1>1, <1>2

LEMMA TimersGo ==
    ASSUME PageInv(page), NEW job,
           FieldsTimer(job) \/ HydrateTimer(job) \/ FillTimer(job) \/ OpenTimer(job)
    PROVE  PageInv(page')
<1> USE DEF PageInv
<1>1. ASSUME FieldsTimer(job) PROVE PageInv(page')
  <2> DEFINE q == FieldsFromService(page)
  <2>1. Goes(job, q)
    BY <1>1 DEF FieldsTimer
  <2>2. /\ IsPage(q) /\ SameFiles(page, q) /\ SameOpen(page, q) /\ SameJobs(page, q)
        /\ ImageRight(q)
    BY FieldsAreDerived
  <2> HIDE DEF q
  <2>3. /\ OpenInv(q) /\ q.jobs = page.jobs /\ q.annotated = page.annotated
        /\ q.framework = page.framework
    BY <2>2 DEF SameFiles, SameOpen, SameJobs, OpenInv
  <2> QED BY <2>1, <2>2, <2>3, GoesKeeps
<1>2. ASSUME HydrateTimer(job) PROVE PageInv(page')
  <2> DEFINE q == Hydrate(page)
  <2>1. Goes(job, q) /\ page.framework = Compose
    BY <1>2 DEF HydrateTimer, Goes, JobRight
  <2>2. /\ IsPage(q) /\ q.framework = page.framework /\ SameOpen(page, q)
        /\ SameJobs(page, q) /\ ImageRight(q)
    BY <2>1, Hydrated
  <2> HIDE DEF q
  <2>3. OpenInv(q) /\ q.jobs = page.jobs /\ q.annotated = page.annotated
    BY <2>2 DEF SameOpen, SameJobs, OpenInv
  <2> QED BY <2>1, <2>2, <2>3, GoesKeeps
<1>3. ASSUME FillTimer(job) PROVE PageInv(page')
  <2> DEFINE q == FillFromAnnotations(page, job.image)
  <2>1. Goes(job, q) /\ job.kind = "fill" /\ job.image \in DOMAIN Annotations
    BY <1>3 DEF FillTimer, Goes, JobRight
  <2>2. Quiet(page, q)
    BY <2>1, FillingIsQuiet
  <2> HIDE DEF q
  <2>3. OpenInv(q) /\ q.jobs = page.jobs /\ q.annotated = page.annotated
    BY <2>2 DEF Quiet, SameOpen, SameJobs, OpenInv
  <2> QED BY <2>1, <2>2, <2>3, QuietlyGoes DEF Quiet
<1>4. ASSUME OpenTimer(job) PROVE PageInv(page')
  <2> DEFINE p == [page EXCEPT !.preview = "loading"]
             body == PreviewBody(page)
             q == Job(p, body)
  <2>1. Goes(job, q) /\ job.kind = "open"
    BY <1>4 DEF OpenTimer
  <2>2. Quiet(page, p)
    BY DEF Quiet, IsPage, Parts, SameFiles, SameImage, SameOpen, SameJobs, Value
  <2>3. JobRight(q, body)
    BY DEF JobRight, PreviewBody
  <2> HIDE DEF p, body
  <2>4. /\ IsPage(q) /\ SameFiles(p, q) /\ SameImage(p, q) /\ SameOpen(p, q)
        /\ q.jobs = p.jobs \cup {body} /\ q.annotated = p.annotated
    BY <2>2, JobAdds DEF Quiet
  <2> HIDE DEF q
  <2>5. /\ q.annotated = page.annotated /\ OpenInv(q) /\ q.jobs = page.jobs \cup {body}
        /\ SameFiles(page, q) /\ SameImage(page, q)
    BY <2>2, <2>4 DEF Quiet, SameFiles, SameOpen, SameJobs, SameImage, OpenInv
  <2> QED BY <2>1, <2>3, <2>4, <2>5, QuietlyGoes
<1> QED BY <1>1, <1>2, <1>3, <1>4

LEMMA AnswersCome ==
    ASSUME PageInv(page), NEW job,
           \/ ParametersCome(job) \/ PreviewComes(job) \/ AnnotationsCome(job)
           \/ RequestFails(job)
    PROVE  PageInv(page')
<1> USE DEF PageInv
<1>1. ASSUME ParametersCome(job) PROVE PageInv(page')
  <2> DEFINE q == ParametersLoaded(page, job)
             hydrate == [kind |-> "hydrate"]
  <2>1. Goes(job, q) /\ job.kind = "parameters"
    BY <1>1 DEF ParametersCome
  <2>2. /\ IsPage(q) /\ q.framework = page.framework
        /\ q.classes = page.classes /\ DOMAIN q.install = DOMAIN page.install
        /\ \/ q.jobs = page.jobs
           \/ page.framework = Compose /\ q.jobs = page.jobs \cup {hydrate}
        /\ q.annotated = page.annotated
        /\ ImageRight(page) => ImageRight(q)
    BY ParametersAnswered
  <2> HIDE DEF q
  <2>3. page.framework = Compose => JobRight(q, hydrate)
    BY <2>2 DEF JobRight
  <2> HIDE DEF hydrate
  <2>4. OpenInv(q) /\ page.jobs \subseteq q.jobs
    BY <2>2 DEF OpenInv
  <2>5. \A j \in q.jobs \ page.jobs : JobRight(q, j)
    BY <2>2, <2>3
  <2> QED BY <2>1, <2>2, <2>4, <2>5, GoesKeeps
<1>2. ASSUME PreviewComes(job) PROVE PageInv(page')
  <2> DEFINE q == InstallLoaded(page, job)
  <2>1. Goes(job, q) /\ job.kind = "preview"
    BY <1>2 DEF PreviewComes
  <2>2. /\ IsPage(q) /\ SameFiles(page, q) /\ SameImage(page, q) /\ SameJobs(page, q)
        /\ OpenInv(q)
    BY OpenLoaded
  <2> HIDE DEF q
  <2> QED BY <2>1, <2>2, QuietlyGoes DEF SameJobs
<1>3. ASSUME AnnotationsCome(job) PROVE PageInv(page')
  <2> DEFINE p == [page EXCEPT !.annotated = {job.image}]
             q == FillFromAnnotations(p, job.image)
  <2>1. Goes(job, q) /\ job.kind = "annotate" /\ job.image \in DOMAIN Annotations
    BY <1>3 DEF AnnotationsCome
  <2>2. /\ IsPage(p) /\ SameFiles(page, p) /\ SameImage(page, p) /\ SameOpen(page, p)
        /\ p.jobs = page.jobs /\ p.annotated = {job.image}
    BY DEF IsPage, Parts, SameFiles, SameImage, SameOpen, Value
  <2> HIDE DEF p
  <2>3. Quiet(p, q)
    BY <2>1, <2>2, FillingIsQuiet
  <2> HIDE DEF q
  <2>4. /\ OpenInv(q) /\ q.jobs = page.jobs /\ q.annotated \subseteq DOMAIN Annotations
        /\ SameFiles(page, q) /\ SameImage(page, q)
    BY <2>1, <2>2, <2>3 DEF Quiet, SameFiles, SameImage, SameOpen, SameJobs, OpenInv
  <2> QED BY <2>1, <2>3, <2>4, QuietlyGoes DEF Quiet
<1>4. ASSUME RequestFails(job) PROVE PageInv(page')
  <2> DEFINE q == IF job.kind = "preview" THEN [page EXCEPT !.preview = "failed"] ELSE page
  <2>1. Goes(job, q) /\ job.kind # "fields"
    BY <1>4 DEF RequestFails
  <2>2. Quiet(page, q)
    BY DEF Quiet, IsPage, Parts, SameFiles, SameImage, SameOpen, SameJobs, Value
  <2> HIDE DEF q
  <2>3. OpenInv(q) /\ q.jobs = page.jobs /\ q.annotated = page.annotated
    BY <2>2 DEF Quiet, SameOpen, SameJobs, OpenInv
  <2> QED BY <2>1, <2>2, <2>3, QuietlyGoes DEF Quiet
<1> QED BY <1>1, <1>2, <1>3, <1>4

----------------------------------------------------------------------------
(* What was asked for is in the request with its value and its class, and   *)
(* what is written of a request is as it was asked for.                     *)

Asked(req) ==
    /\ req.framework \in Framework
    /\ \A c \in DOMAIN req.asked :
          /\ c \in DOMAIN req.values /\ req.values[c] = req.asked[c][2]
          /\ req.asked[c][2] # {}
          /\ c \in DOMAIN req.classes /\ req.classes[c] = req.asked[c][1]
          /\ req.asked[c][1] \in {"default", "value"}

WizardInv ==
    /\ PageInv(page)
    /\ \A req \in requests : Asked(req)
    /\ StoredAsChosen

LEMMA SavedIsAsked == ASSUME PageInv(page) PROVE Asked(CreateBody(page))
<1> DEFINE req == CreateBody(page)
           open == Filled(page.install)
           kept == {d \in DOMAIN page.classes : page.classes[d] # "install"}
<1>1. /\ req.framework = page.framework /\ req.values = CollectValues(page)
      /\ req.classes = [c \in kept |-> page.classes[c]] /\ req.asked = Chosen(page)
  BY DEF CreateBody
<1> HIDE DEF req
<1>2. /\ DOMAIN open = {d \in DOMAIN page.install : page.install[d] # {}}
      /\ \A c \in DOMAIN open : open[c] = page.install[c] /\ open[c] # {}
  BY DEF Filled
<1>3. \A c \in DOMAIN open : /\ c \in DOMAIN CollectValues(page)
                             /\ CollectValues(page)[c] = open[c]
  BY DEF CollectValues, Merge
<1>4. /\ DOMAIN req.asked = {d \in DOMAIN open : page.classes[d] # "install"}
      /\ \A c \in DOMAIN req.asked : req.asked[c] = <<page.classes[c], page.install[c]>>
  BY <1>1 DEF Chosen
<1> HIDE DEF open
<1>5. \A c \in DOMAIN req.asked : c \in DOMAIN page.classes /\ page.classes[c] \in Targets
  BY <1>2, <1>4 DEF PageInv, OpenInv
<1>6. \A c \in DOMAIN req.asked : c \in kept
  BY <1>4, <1>5
<1>7. Asked(req)
  BY <1>1, <1>2, <1>3, <1>4, <1>5, <1>6 DEF Asked, PageInv, Targets
<1> QED BY <1>7 DEF req

(* Where the request's classes put a parameter.                             *)
LEMMA ClassDecides ==
    ASSUME NEW req, Asked(req), NEW c \in DOMAIN req.asked
    PROVE  /\ req.asked[c][1] = "value" => AsProperty(req, c) /\ ~AsParameter(req, c)
           /\ req.asked[c][1] = "default" =>
                 /\ c \in Defined(req) => AsParameter(req, c) /\ ~AsProperty(req, c)
                 /\ c = Upload => ~AsProperty(req, c)
<1>1. Target(req, c) = req.asked[c][1] /\ c \in DOMAIN req.values
  BY DEF Asked, Target
<1>2. Target(req, c) \in {"default", "value"}
  BY <1>1 DEF Asked
<1>3. Upload \notin Properties[req.framework]
  BY ContentComesWithTheFile DEF Asked
<1> QED BY <1>1, <1>2, <1>3 DEF AsProperty, AsParameter

LEMMA JsonAsAsked ==
    ASSUME NEW req, Asked(req)
    PROVE  LET app == ApplicationJson(req) IN
           /\ app.asked = req.asked /\ app.framework = req.framework /\ app.listed = {}
           /\ {"properties", "parameters", "asked", "framework", "templates", "listed"}
              \subseteq DOMAIN app
           /\ AsChosen(app)
<1> DEFINE a == [properties |-> StoredProperties(req), parameters |-> StoredParameters(req),
                 framework |-> req.framework, templates |-> Empty, listed |-> {},
                 asked |-> req.asked, own |-> req.own]
           b == ComposeHandling(req, a)
           app == EnsureHostname(req, b)
           files == {"compose_file", "env_file"}
<1>1. app = ApplicationJson(req)
  BY DEF ApplicationJson
<1>2. /\ b.asked = req.asked /\ b.framework = req.framework /\ b.listed = {}
      /\ {"properties", "parameters", "asked", "framework", "templates", "listed"}
         \subseteq DOMAIN b
      /\ \A c : c \notin files =>
            /\ c \in DOMAIN b.properties <=> c \in DOMAIN a.properties
            /\ c \in DOMAIN b.properties => b.properties[c] = a.properties[c]
            /\ c \in DOMAIN b.parameters <=> c \in DOMAIN a.parameters
            /\ c \in DOMAIN b.parameters => b.parameters[c] = a.parameters[c]
  <2> DEFINE given == {c \in files : /\ c \in DOMAIN req.values
                                     /\ req.framework = Compose \/ c = "env_file"}
             offered == {c \in given : /\ c = "compose_file" /\ c \in Defined(req)
                                       /\ c \notin DOMAIN a.parameters}
             f == [c \in given |-> req.values[c]]
             g == [c \in offered |-> req.values[c]]
  <2>1. b = [a EXCEPT !.properties = Merge(@, f), !.parameters = Merge(@, g)]
    BY DEF ComposeHandling
  <2>2. /\ b.asked = req.asked /\ b.framework = req.framework /\ b.listed = {}
        /\ {"properties", "parameters", "asked", "framework", "templates", "listed"}
           \subseteq DOMAIN b
        /\ b.properties = Merge(a.properties, f) /\ b.parameters = Merge(a.parameters, g)
    <3> HIDE DEF b, f, g
    <3> QED BY <2>1
  <2>3. DOMAIN f \subseteq files /\ DOMAIN g \subseteq files
    OBVIOUS
  <2> HIDE DEF a, b, f, g
  <2> QED BY <2>2, <2>3 DEF Merge
<1> HIDE DEF b
<1>3. /\ app.asked = req.asked /\ app.framework = req.framework /\ app.listed = {}
      /\ {"properties", "parameters", "asked", "framework", "templates", "listed"}
         \subseteq DOMAIN app
      /\ app.parameters = b.parameters
      /\ \A c \in DOMAIN req.values :
            /\ c \in DOMAIN app.properties <=> c \in DOMAIN b.properties
            /\ c \in DOMAIN app.properties => app.properties[c] = b.properties[c]
  BY <1>2 DEF EnsureHostname, Merge
<1>4. \A c \in DOMAIN req.asked : c \in DOMAIN req.values /\ req.values[c] = req.asked[c][2]
  BY DEF Asked
<1>5. \A c \in DOMAIN req.values :
         /\ c \in DOMAIN a.properties <=> AsProperty(req, c)
         /\ c \in DOMAIN a.properties => a.properties[c] = req.values[c]
         /\ c \in DOMAIN a.parameters <=> AsParameter(req, c)
         /\ c \in DOMAIN a.parameters /\ req.values[c] # {} => a.parameters[c] = req.values[c]
  <2>1. DOMAIN a.properties = {d \in DOMAIN req.values : AsProperty(req, d)}
        /\ \A c \in DOMAIN a.properties : a.properties[c] = req.values[c]
    BY DEF StoredProperties
  <2>2. /\ DOMAIN a.parameters
           = {c \in DOMAIN req.values \cup Properties[req.framework] : AsParameter(req, c)}
        /\ \A c \in DOMAIN a.parameters :
              a.parameters[c] = IF c = "hostname" /\ Initial(req, c) = {} THEN {req.id}
                                ELSE Initial(req, c)
    BY DEF StoredParameters
  <2>3. \A c \in DOMAIN req.values : Initial(req, c) = req.values[c]
    BY DEF Initial
  <2> HIDE DEF a
  <2> QED BY <2>1, <2>2, <2>3
<1> HIDE DEF a, app
<1>6. ASSUME NEW c \in DOMAIN req.asked \ files
      PROVE  IF req.asked[c][1] = "value"
             THEN /\ c \in DOMAIN app.properties /\ app.properties[c] = req.asked[c][2]
                  /\ c \notin DOMAIN app.parameters
             ELSE \/ c \notin Defined(req) /\ c # Upload
                  \/ /\ c \notin DOMAIN app.properties
                     /\ \/ c \in DOMAIN app.parameters
                           /\ app.parameters[c] = req.asked[c][2]
                        \/ c = Upload
  <2>1. c \in DOMAIN req.values /\ req.values[c] = req.asked[c][2] /\ req.values[c] # {}
    BY DEF Asked
  <2>2. /\ c \in DOMAIN app.properties <=> AsProperty(req, c)
        /\ c \in DOMAIN app.properties => app.properties[c] = req.values[c]
        /\ c \in DOMAIN app.parameters <=> AsParameter(req, c)
        /\ c \in DOMAIN app.parameters => app.parameters[c] = req.values[c]
    BY <1>2, <1>3, <1>5, <2>1
  <2>3. req.asked[c][1] \in {"default", "value"}
    BY DEF Asked
  <2> QED BY <2>1, <2>2, <2>3, ClassDecides
<1>7. Defined(app) = Defined(req)
  BY <1>3 DEF Defined
<1> QED BY <1>1, <1>3, <1>6, <1>7 DEF AsChosen

LEMMA WrittenAsAsked ==
    ASSUME NEW req, Asked(req)
    PROVE  /\ AsChosen(ApplicationJson(req))
           /\ AsChosen(WithTemplates(req, ApplicationJson(req)))
           /\ AsChosen(WithUploads(req, ApplicationJson(req)))
<1> DEFINE app == ApplicationJson(req)
           tpl == WithTemplates(req, app)
           all == WithUploads(req, app)
           content == [c \in req.uploads |-> IF c \in DOMAIN req.values
                                             THEN req.values[c] ELSE {}]
<1>1. /\ app.asked = req.asked /\ app.framework = req.framework /\ app.listed = {}
      /\ {"properties", "parameters", "asked", "framework", "templates", "listed"}
         \subseteq DOMAIN app
      /\ AsChosen(app)
  BY JsonAsAsked
<1> HIDE DEF app
<1>2. tpl = [app EXCEPT !.templates = content] /\ all = [tpl EXCEPT !.listed = req.uploads]
  BY DEF WithTemplates, WithUploads
<1> HIDE DEF tpl, all
<1>3. /\ tpl.asked = app.asked /\ tpl.framework = app.framework
      /\ tpl.properties = app.properties /\ tpl.parameters = app.parameters
      /\ tpl.listed = app.listed
      /\ all.asked = app.asked /\ all.framework = app.framework
      /\ all.properties = app.properties /\ all.parameters = app.parameters
      /\ all.listed = req.uploads /\ all.templates = content
  <2> HIDE DEF content
  <2> QED BY <1>1, <1>2
<1>4. Defined(tpl) = Defined(app) /\ Defined(all) = Defined(app)
  BY <1>3 DEF Defined
<1>5. \A c \in DOMAIN req.asked :
         /\ c \in DOMAIN req.values /\ req.values[c] = req.asked[c][2]
  BY DEF Asked
<1>6. \A c \in DOMAIN req.asked : c \in req.uploads => content[c] = req.asked[c][2]
  BY <1>5
<1> HIDE DEF content
<1>7. AsChosen(tpl)
  BY <1>1, <1>3, <1>4 DEF AsChosen
<1>8. AsChosen(all)
  BY <1>1, <1>3, <1>4, <1>6 DEF AsChosen
<1> QED BY <1>1, <1>7, <1>8 DEF app, tpl, all

(* An application that was written, or is gone.                             *)
LEMMA WritingKeeps ==
    ASSUME WizardInv, NEW req \in requests,
           \/ apps' = [i \in DOMAIN apps \ {req.id} |-> apps[i]]
           \/ WriteApplication(req, ApplicationJson(req))
           \/ WriteApplication(req, WithTemplates(req, ApplicationJson(req)))
           \/ WriteApplication(req, WithUploads(req, ApplicationJson(req)))
    PROVE  StoredAsChosen'
<1>1. /\ AsChosen(ApplicationJson(req))
      /\ AsChosen(WithTemplates(req, ApplicationJson(req)))
      /\ AsChosen(WithUploads(req, ApplicationJson(req)))
  BY WrittenAsAsked DEF WizardInv
<1>2. CASE apps' = [i \in DOMAIN apps \ {req.id} |-> apps[i]]
  BY <1>2 DEF WizardInv, StoredAsChosen
<1>3. ASSUME NEW app, AsChosen(app), WriteApplication(req, app) PROVE StoredAsChosen'
  BY <1>3 DEF WriteApplication, WizardInv, StoredAsChosen
<1> QED BY <1>1, <1>2, <1>3

LEMMA AnswerKeeps ==
    ASSUME WizardInv, NEW req, NEW answer, Answer(req, answer)
    PROVE  PageInv(page') /\ \A r \in requests' : Asked(r)
<1>1. page' \in {page, [Fresh EXCEPT !.left = TRUE], [page EXCEPT !.saving = FALSE]}
  BY DEF Answer
<1>2. PageInv([page EXCEPT !.saving = FALSE])
  <2> DEFINE q == [page EXCEPT !.saving = FALSE]
  <2>1. Quiet(page, q)
    BY DEF WizardInv, PageInv, Quiet, IsPage, Parts, SameFiles, SameImage, SameOpen,
       SameJobs, Value
  <2> HIDE DEF q
  <2>2. ImageFollows(q)
    BY <2>1, ImageStays DEF WizardInv, PageInv, ImageFollows, Quiet, SameJobs
  <2>3. OpenInv(q) /\ \A j \in q.jobs : JobRight(q, j)
    BY <2>1 DEF WizardInv, PageInv, Quiet, SameFiles, SameOpen, SameJobs, OpenInv, JobRight
  <2> QED BY <2>1, <2>2, <2>3 DEF WizardInv, PageInv, Quiet, SameFiles, SameJobs, q
<1>3. \A r \in requests' : Asked(r)
  BY DEF Answer, WizardInv
<1> QED BY <1>1, <1>2, <1>3, FreshPage DEF WizardInv

LEMMA WizardStep == WizardInv /\ [WizardNext]_wizardVars => WizardInv'
<1> SUFFICES ASSUME WizardInv, [WizardNext]_wizardVars PROVE WizardInv'
  OBVIOUS
<1>1. CASE UNCHANGED wizardVars
  BY <1>1 DEF WizardInv, wizardVars, StoredAsChosen
<1>2. ASSUME PageInv(page'), UNCHANGED <<apps, requests>> PROVE WizardInv'
  <2>1. PageInv(page)'
    BY <1>2
  <2> QED BY <1>2, <2>1 DEF WizardInv, StoredAsChosen
<1>3. CASE UserEdits
  <2>1. UNCHANGED <<apps, requests>>
    BY <1>3 DEF UserEdits, SelectFramework, ChangeMode, SelectCompose, SelectEnv, TypeImage,
       SelectService, TypeId, AddUpload, Retry, EnterValue, Classify, Edit
  <2>2. PageInv(page')
    BY <1>3, FrameworkEdits, FileEdits, OtherEdits, StepKeeps
       DEF UserEdits, WizardInv, Targets
  <2> QED BY <1>2, <2>1, <2>2
<1>4. CASE GoesOn
  <2>1. UNCHANGED <<apps, requests>>
    BY <1>4 DEF GoesOn, ComposeRead, EnvRead, FieldsTimer, HydrateTimer, FillTimer,
       ParametersCome, OpenTimer, PreviewComes, AnnotationsCome, RequestFails, Goes
  <2>2. PageInv(page')
    BY <1>4, FilesRead, TimersGo, AnswersCome DEF GoesOn, WizardInv
  <2> QED BY <1>2, <2>1, <2>2
<1>5. CASE Debounced
  BY <1>2, <1>5, DebouncedKeeps DEF Debounced, WizardInv
<1>6. CASE Save
  <2> DEFINE q == [page EXCEPT !.saving = TRUE]
  <2>1. page' = q /\ requests' = requests \cup {CreateBody(page)} /\ apps' = apps /\ ~TimerDue
    BY <1>6 DEF Save
  <2>2. Quiet(page, q)
    BY DEF WizardInv, PageInv, Quiet, IsPage, Parts, SameFiles, SameImage, SameOpen,
       SameJobs, Value
  <2> HIDE DEF q
  <2>3. ImageRight(page) => ImageRight(q)
    BY <2>2, ImageStays DEF Quiet
  <2>4. /\ IsPage(q) /\ q.framework \in Framework /\ q.annotated \subseteq DOMAIN Annotations
        /\ OpenInv(q) /\ q.jobs = page.jobs
    BY <2>2 DEF WizardInv, PageInv, Quiet, SameFiles, SameOpen, SameJobs, OpenInv
  <2>5. PageInv(q)
    BY <2>1, <2>3, <2>4, EditKeeps DEF WizardInv
  <2>6. PageInv(page)'
    BY <2>1, <2>5
  <2> QED BY <2>1, <2>6, SavedIsAsked DEF WizardInv, StoredAsChosen
<1>7. CASE \E step \in 0 .. 3 : StepChange(step)
  <2>1. UNCHANGED <<apps, requests>>
    BY <1>7 DEF StepChange
  <2> QED BY <1>2, <1>7, <2>1, StepKeeps DEF WizardInv
<1>8. CASE \E id \in Ids, update \in BOOLEAN : OtherAsks(id, update)
  <2>1. PICK id \in Ids, update \in BOOLEAN : OtherAsks(id, update)
    BY <1>8
  <2> DEFINE req == [id |-> id, update |-> update, framework |-> OciImage, values |-> Empty,
                     classes |-> Empty, uploads |-> {}, own |-> FALSE, asked |-> Empty]
  <2>2. requests' = requests \cup {req} /\ UNCHANGED <<page, apps>>
    BY <2>1 DEF OtherAsks
  <2>3. Asked(req)
    BY DEF Asked, Empty, Framework
  <2> QED BY <2>2, <2>3 DEF WizardInv, StoredAsChosen
<1>9. ASSUME NEW req \in requests, Conflict(req) \/ Create(req) \/ CreateFails(req)
      PROVE  WizardInv'
  <2>1. PageInv(page') /\ \A r \in requests' : Asked(r)
    BY <1>9, AnswerKeeps DEF Conflict, Create, CreateFails
  <2>2. StoredAsChosen'
    BY <1>9, WritingKeeps DEF Conflict, Create, CreateFails, WizardInv, StoredAsChosen
  <2>3. PageInv(page)'
    BY <2>1
  <2> QED BY <2>1, <2>2, <2>3 DEF WizardInv
<1> QED BY <1>1, <1>3, <1>4, <1>5, <1>6, <1>7, <1>8, <1>9 DEF WizardNext

LEMMA WizardStart == WizardInit => WizardInv
  BY FreshPage DEF WizardInit, WizardInv, StoredAsChosen

(* At rest the image shown is the one the files give, whatever was chosen   *)
(* and in which order files, timers and answers came                        *)
(* (create-application-state.service.ts:649).                               *)
THEOREM ImageFollowsTheFiles == WizardSpec => []ImageOfTheFiles
<1>1. WizardInv => ImageOfTheFiles
  BY DEF WizardInv, PageInv, ImageFollows, ImageRight, ImageOfTheFiles, AtRest
<1> QED BY <1>1, WizardStart, WizardStep, PTL DEF WizardSpec

(* What the user marks as fixed or editable is stored as that, with the     *)
(* value that was shown (frameworkloader.mts:290).                          *)
THEOREM ChoicesAreStored == WizardSpec => []StoredAsChosen
<1>1. WizardInv => StoredAsChosen
  BY DEF WizardInv
<1> QED BY <1>1, WizardStart, WizardStep, PTL DEF WizardSpec

(* Only an update replaces an application that is there, although several   *)
(* pages check the same id before they ask (frameworkloader.mts:273).       *)
THEOREM OnlyUpdatesReplace == WizardSpec => CreateNeverReplaces
<1> DEFINE Replaced(i) == IF i \in DOMAIN apps' THEN apps'[i] # apps[i] ELSE TRUE
           Told(i) == \E r \in requests \ requests' : r.id = i /\ r.update
           Step == \A i \in DOMAIN apps : Replaced(i) => Told(i)
<1>1. ASSUME WizardNext PROVE Step
  <2>1. CASE apps' = apps
    BY <2>1
  <2>2. CASE apps' # apps
    <3>1. PICK req \in requests : Create(req) \/ CreateFails(req)
      BY <1>1, <2>2
         DEF WizardNext, UserEdits, SelectFramework, ChangeMode, SelectCompose, SelectEnv,
             SelectService, TypeImage, TypeId, AddUpload, Retry, EnterValue, Classify, Edit,
             GoesOn, ComposeRead, EnvRead, FieldsTimer, HydrateTimer, FillTimer,
             ParametersCome, OpenTimer, PreviewComes, AnnotationsCome, RequestFails, Goes,
             Debounced, Save, StepChange, OtherAsks, Conflict
    <3>2. req \in requests \ requests' /\ (req.id \in DOMAIN apps => req.update)
      BY <3>1 DEF Create, CreateFails, Occupied, Answer
    <3>3. \A i \in DOMAIN apps : i # req.id => i \in DOMAIN apps' /\ apps'[i] = apps[i]
      BY <3>1 DEF Create, CreateFails, WriteApplication
    <3> QED BY <3>2, <3>3
  <2> QED BY <2>1, <2>2
<1>2. ASSUME UNCHANGED wizardVars PROVE Step
  BY <1>2 DEF wizardVars
<1>3. [WizardNext]_wizardVars => [Step]_wizardVars
  BY <1>1
<1> QED BY <1>3, PTL DEF WizardSpec, CreateNeverReplaces

=============================================================================

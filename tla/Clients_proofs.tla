-------------------------- MODULE Clients_proofs --------------------------
(* What the deployer keeps for clients that run on other machines.  The     *)
(* safety of the test queue, for every number of scenarios, every           *)
(* dependency graph and every set of workers; and what the stacks hold,     *)
(* however many pages and command line clients work on them.                *)
(* The two modules share nothing, and neither part uses an assumption of    *)
(* the other.                                                               *)
EXTENDS TestQueue, CommandLine, FiniteSetTheorems, TLAPS

----------------------------------------------------------------------------
(* The test queue.                                                          *)

\* A queue that does not exist yet has no entries, and what is not in the
\* queue has no history.
FreshOutside ==
    /\ ~ initialized => inQueue = {}
    /\ \A s \in Scenario \ inQueue : status[s] = "pending"

\* While the deployer lives, a busy worker's scenario is running in the queue.
BusyIsRunning ==
    restarts = 0 => \A w \in Worker : Busy(w) => job[w] \in Having("running")

IInv ==
    /\ TypeOK
    /\ FreshOutside
    /\ BusyIsRunning
    /\ ExclusiveRun
    /\ DepsStayCompleted
    /\ NobodyWaitsForAFailure
    /\ FailuresHaveACause

(* The pending dependents of id and of the members of Cascade(id) are members. *)
LEMMA CascadeClosed ==
    ASSUME NEW id \in Scenario,
           NEW t \in Having("pending"), DependsOn(t, Cascade(id) \cup {id})
    PROVE  t \in Cascade(id)
<1>1. SUFFICES ASSUME NEW C \in SUBSET Having("pending"),
                      \A u \in Having("pending") : DependsOn(u, C \cup {id}) => u \in C
               PROVE  t \in C
  BY DEF Cascade
<1>2. Cascade(id) \subseteq C
  BY <1>1 DEF Cascade
<1>3. DependsOn(t, C \cup {id})
  BY <1>2 DEF DependsOn
<1> QED BY <1>1, <1>3

(* Every member of Cascade(id) depends on id or on another member. *)
LEMMA CascadeHasCause ==
    ASSUME NEW id \in Scenario, NEW s \in Cascade(id)
    PROVE  DependsOn(s, Cascade(id) \cup {id})
<1> DEFINE Caused == {t \in Cascade(id) : DependsOn(t, Cascade(id) \cup {id})}
<1>1. Caused \in SUBSET Having("pending")
  BY DEF Cascade
<1>2. ASSUME NEW u \in Having("pending"), DependsOn(u, Caused \cup {id})
      PROVE  u \in Caused
  <2>1. DependsOn(u, Cascade(id) \cup {id})
    BY <1>2 DEF DependsOn
  <2> QED BY <2>1, CascadeClosed
<1>3. s \in Caused
  BY <1>1, <1>2 DEF Cascade
<1> QED BY <1>3

LEMMA InitEstablishes == Init => IInv
<1> SUFFICES ASSUME Init PROVE IInv
  OBVIOUS
<1>1. TypeOK
  <2>1. 0 \in 0 .. MaxCrashes /\ 0 \in 0 .. MaxRestarts
    BY SizesAssumption
  <2> QED BY <2>1 DEF Init, TypeOK, Statuses, Labels
<1>2. \A st \in Statuses : Having(st) = {}
  BY DEF Init, Having
<1>3. \A w \in Worker : ~ Busy(w)
  BY DEF Init, Busy
<1> QED BY <1>1, <1>2, <1>3
        DEF Init, IInv, FreshOutside, BusyIsRunning, ExclusiveRun, Statuses,
            DepsStayCompleted, NobodyWaitsForAFailure, FailuresHaveACause

LEMMA QueueBuilt ==
    ASSUME IInv, NEW f \in SUBSET Scenario, InitQueue(f),
           UNCHANGED <<status, job, ownFailure, crashes, restarts>>,
           pc' \in [Worker -> Labels],
           \A w \in Worker : Busy(w)' => Busy(w)
    PROVE  IInv'
<1> USE DEF IInv
<1>1. TypeOK'
  BY DEF TypeOK, InitQueue
<1>2. FreshOutside'
  BY DEF FreshOutside, InitQueue, TypeOK
<1>3. CASE initialized
  <2>1. inQueue' = inQueue /\ Having("running")' = Having("running")
        /\ Having("pending")' = Having("pending") /\ Having("failed")' = Having("failed")
        /\ Having("completed")' = Having("completed")
    BY <1>3 DEF InitQueue, Having
  <2> QED BY <1>1, <1>2, <2>1
        DEF BusyIsRunning, ExclusiveRun, DepsStayCompleted, TypeOK, Busy,
            NobodyWaitsForAFailure, FailuresHaveACause, AreDepsCompleted, DependsOn
<1>4. CASE ~ initialized
  <2>1. \A s \in Scenario : status'[s] = "pending"
    BY <1>4 DEF FreshOutside
  <2>2. /\ Having("running")' = {} /\ Having("failed")' = {}
        /\ Having("completed")' = {} /\ Having("running") = {}
    BY <1>1, <2>1, <1>4 DEF Having, TypeOK, FreshOutside
  <2> QED BY <1>1, <1>2, <2>2
        DEF BusyIsRunning, ExclusiveRun, DepsStayCompleted, Busy,
            NobodyWaitsForAFailure, FailuresHaveACause, DependsOn
<1> QED BY <1>3, <1>4

LEMMA HandedOut ==
    ASSUME IInv, NEW s \in Ready, NEW w \in Worker,
           status' = [status EXCEPT ![s] = "running"],
           UNCHANGED <<initialized, inQueue, ownFailure, restarts>>,
           crashes' \in 0 .. MaxCrashes,
           \/ pc[w] = "ask" /\ pc' = [pc EXCEPT ![w] = "work"] /\ job' = [job EXCEPT ![w] = s]
           \/ pc[w] = "ask" /\ pc' = [pc EXCEPT ![w] = "dead"] /\ job' = job
    PROVE  IInv'
<1> USE DEF IInv
<1>0. s \in inQueue /\ status[s] = "pending" /\ s \in Scenario /\ AreDepsCompleted(s)
  BY DEF Ready, Having, TypeOK
<1>1. TypeOK'
  BY <1>0 DEF TypeOK, Statuses, Labels
<1>2. FreshOutside'
  BY <1>0 DEF FreshOutside, TypeOK
<1>3. /\ Having("running")' = Having("running") \cup {s}
      /\ Having("pending")' = Having("pending") \ {s}
      /\ Having("failed")' = Having("failed")
      /\ Having("completed")' = Having("completed")
  BY <1>0 DEF Having, TypeOK
<1>4. BusyIsRunning'
  BY <1>0, <1>3 DEF BusyIsRunning, Busy, TypeOK
<1>5. ExclusiveRun'
  BY <1>0 DEF ExclusiveRun, BusyIsRunning, Busy, Having, TypeOK
<1>6. DepsStayCompleted'
  BY <1>0, <1>3 DEF DepsStayCompleted, AreDepsCompleted
<1>7. NobodyWaitsForAFailure' /\ FailuresHaveACause'
  BY <1>3 DEF NobodyWaitsForAFailure, FailuresHaveACause, DependsOn
<1> QED BY <1>1, <1>2, <1>4, <1>5, <1>6, <1>7

LEMMA Completed ==
    ASSUME IInv, NEW w \in Worker, ReportComplete(w)
    PROVE  IInv'
<1> USE DEF IInv
<1>1. TypeOK'
  BY DEF TypeOK, ReportComplete, Statuses, Labels
<1>2. FreshOutside'
  BY DEF FreshOutside, TypeOK, ReportComplete
<1>3. \A v \in Worker : Busy(v)' => Busy(v) /\ v # w
  BY DEF Busy, ReportComplete, TypeOK
<1>4. NobodyWaitsForAFailure'
  <2>1. /\ Having("pending")' \subseteq Having("pending")
        /\ Having("failed")' \subseteq Having("failed")
    BY DEF Having, ReportComplete, TypeOK
  <2> QED BY <2>1 DEF NobodyWaitsForAFailure, DependsOn
<1>5. CASE restarts # 0
  BY <1>1, <1>2, <1>4, <1>5
     DEF ReportComplete, BusyIsRunning, ExclusiveRun, DepsStayCompleted, FailuresHaveACause
<1>6. CASE restarts = 0
  <2>1. job[w] \in Having("running") /\ job[w] \in inQueue /\ job[w] \in Scenario
    BY <1>6 DEF BusyIsRunning, Busy, ReportComplete, Having, TypeOK
  <2>2. /\ Having("running")' = Having("running") \ {job[w]}
        /\ Having("failed")' = Having("failed")
        /\ Having("completed")' = Having("completed") \cup {job[w]}
    BY <2>1 DEF Having, ReportComplete, TypeOK
  <2>3. ExclusiveRun'
    BY <1>3 DEF ExclusiveRun, ReportComplete
  <2>4. BusyIsRunning'
    BY <1>3, <1>6, <2>2 DEF BusyIsRunning, ExclusiveRun, ReportComplete, Busy
  <2>5. DepsStayCompleted'
    BY <1>6, <2>1, <2>2 DEF DepsStayCompleted, AreDepsCompleted
  <2>6. FailuresHaveACause'
    BY <1>6, <2>2 DEF FailuresHaveACause, DependsOn, ReportComplete
  <2> QED BY <1>1, <1>2, <1>4, <2>3, <2>4, <2>5, <2>6
<1> QED BY <1>5, <1>6

LEMMA Failed ==
    ASSUME IInv, NEW w \in Worker, ReportFail(w)
    PROVE  IInv'
<1> USE DEF IInv
<1>1. TypeOK'
  BY DEF TypeOK, ReportFail, Statuses, Labels
<1>2. \A v \in Worker : Busy(v)' => Busy(v) /\ v # w
  BY DEF Busy, ReportFail, TypeOK
<1>3. CASE job[w] \notin inQueue
  <2>1. UNCHANGED <<status, ownFailure, inQueue, restarts, job, initialized>>
    BY <1>3 DEF ReportFail
  <2> QED BY <1>1, <1>2, <2>1
        DEF FreshOutside, BusyIsRunning, ExclusiveRun, DepsStayCompleted, Having,
            NobodyWaitsForAFailure, FailuresHaveACause, AreDepsCompleted, DependsOn
<1>4. CASE job[w] \in inQueue
  <2> DEFINE id == job[w]
  <2>1. id \in Scenario /\ Cascade(id) \subseteq Having("pending")
    BY <1>4 DEF TypeOK, Cascade
  <2>2. /\ Having("failed")' = Having("failed") \cup Cascade(id) \cup {id}
        /\ Having("pending")' = Having("pending") \ (Cascade(id) \cup {id})
        /\ Having("running")' = Having("running") \ {id}
        /\ Having("completed")' = Having("completed") \ {id}
    <3>1. \A s \in Scenario : status'[s] = IF s = id \/ s \in Cascade(id)
                                          THEN "failed" ELSE status[s]
      BY <1>4 DEF ReportFail
    <3>2. inQueue' = inQueue /\ inQueue \subseteq Scenario
      BY DEF ReportFail, TypeOK
    <3> QED BY <1>4, <2>1, <3>1, <3>2 DEF Having
  <2>3. FreshOutside'
    <3>1. \A s \in Scenario \ inQueue : s # id /\ s \notin Cascade(id)
      BY <1>4, <2>1 DEF Having
    <3> QED BY <3>1 DEF FreshOutside, ReportFail
  <2>4. NobodyWaitsForAFailure'
    <3>1. SUFFICES ASSUME NEW s \in Having("pending")', DependsOn(s, Having("failed")')
                   PROVE  FALSE
      BY DEF NobodyWaitsForAFailure, DependsOn
    <3>2. s \in Having("pending") /\ ~ DependsOn(s, Having("failed"))
      BY <2>2 DEF NobodyWaitsForAFailure
    <3>3. DependsOn(s, Cascade(id) \cup {id})
      BY <2>2, <3>1, <3>2 DEF DependsOn
    <3>4. s \in Cascade(id)
      BY <2>1, <3>2, <3>3, CascadeClosed
    <3> QED BY <2>2, <3>4
  <2>5. CASE restarts # 0
    BY <1>1, <2>3, <2>4, <2>5
       DEF ReportFail, BusyIsRunning, ExclusiveRun, DepsStayCompleted, FailuresHaveACause
  <2>6. CASE restarts = 0
    <3>1. id \in Having("running")
      BY <2>6 DEF BusyIsRunning, Busy, ReportFail
    <3>2. ExclusiveRun'
      BY <1>2 DEF ExclusiveRun, ReportFail
    <3>3. BusyIsRunning'
      BY <1>2, <2>2, <2>6 DEF BusyIsRunning, ExclusiveRun, ReportFail, Busy
    <3>4. DepsStayCompleted'
      <4>1. Having("completed")' = Having("completed")
        BY <2>2, <3>1 DEF Having
      <4> QED BY <2>2, <2>6, <4>1 DEF DepsStayCompleted, AreDepsCompleted
    <3>5. FailuresHaveACause'
      <4>1. SUFFICES ASSUME NEW s \in Having("failed")'
                     PROVE  s \in ownFailure' \/ DependsOn(s, Having("failed")')
        BY DEF FailuresHaveACause, DependsOn
      <4>2. CASE s = id
        BY <1>4, <4>2 DEF ReportFail
      <4>3. CASE s \in Cascade(id)
        <5>1. DependsOn(s, Cascade(id) \cup {id})
          BY <2>1, <4>3, CascadeHasCause
        <5> QED BY <5>1, <2>2 DEF DependsOn
      <4>4. CASE s \in Having("failed")
        BY <1>4, <2>2, <2>6, <4>4 DEF FailuresHaveACause, DependsOn, ReportFail
      <4> QED BY <2>2, <4>1, <4>2, <4>3, <4>4
    <3> QED BY <1>1, <2>3, <2>4, <3>2, <3>3, <3>4, <3>5
  <2> QED BY <2>5, <2>6
<1> QED BY <1>3, <1>4

LEMMA StepPreserves == IInv /\ [Next]_vars => IInv'
<1> SUFFICES ASSUME IInv, [Next]_vars PROVE IInv'
  OBVIOUS
<1>1. ASSUME NEW f \in Filters, OperatorInit(f) PROVE IInv'
  <2>1. (IF f = {} THEN Scenario ELSE f) \in SUBSET Scenario
    BY FiltersAssumption
  <2>2. pc' \in [Worker -> Labels] /\ \A w \in Worker : Busy(w)' => Busy(w)
    BY <1>1 DEF OperatorInit, IInv, TypeOK, Busy
  <2> QED BY <1>1, <2>1, <2>2, QueueBuilt DEF OperatorInit
<1>2. ASSUME NEW w \in Worker, WorkerInit(w) PROVE IInv'
  <2>1. pc' \in [Worker -> Labels] /\ \A v \in Worker : Busy(v)' => Busy(v)
    BY <1>2 DEF WorkerInit, IInv, TypeOK, Busy, Labels
  <2> QED BY <1>2, <2>1, QueueBuilt DEF WorkerInit
<1>3. ASSUME NEW w \in Worker, NEW s \in Scenario, NextScenario(w, s) PROVE IInv'
  <2>1. s \in Ready /\ crashes' \in 0 .. MaxCrashes
    BY <1>3 DEF NextScenario, IsFirst, IInv, TypeOK
  <2>2. /\ UNCHANGED <<initialized, inQueue, ownFailure, restarts>>
        /\ status' = [status EXCEPT ![s] = "running"]
        /\ pc[w] = "ask" /\ pc' = [pc EXCEPT ![w] = "work"] /\ job' = [job EXCEPT ![w] = s]
    BY <1>3 DEF NextScenario
  <2> QED BY <2>1, <2>2, HandedOut
<1>4. ASSUME NEW w \in Worker, NEW s \in Scenario, NextAnswerLost(w, s) PROVE IInv'
  <2>1. crashes' \in 0 .. MaxCrashes
    BY <1>4, SizesAssumption DEF NextAnswerLost, IInv, TypeOK
  <2> QED BY <1>4, <2>1, HandedOut DEF NextAnswerLost, IsFirst
<1>5. ASSUME NEW w \in Worker, NextDone(w) \/ NextRefused(w) \/ WorkerDies(w) PROVE IInv'
  <2>1. UNCHANGED <<initialized, inQueue, status, job, ownFailure, restarts>>
    BY <1>5 DEF NextDone, NextRefused, WorkerDies
  <2>2. TypeOK'
    BY <1>5, SizesAssumption DEF NextDone, NextRefused, WorkerDies, IInv, TypeOK, Labels
  <2>3. \A v \in Worker : Busy(v)' => Busy(v)
    BY <1>5 DEF NextDone, NextRefused, WorkerDies, IInv, TypeOK, Busy
  <2> QED BY <2>1, <2>2, <2>3
        DEF IInv, FreshOutside, BusyIsRunning, ExclusiveRun, DepsStayCompleted, Having,
            NobodyWaitsForAFailure, FailuresHaveACause, AreDepsCompleted, DependsOn
<1>6. ASSUME NEW w \in Worker, RunScenario(w) PROVE IInv'
  <2>1. UNCHANGED <<initialized, inQueue, status, job, ownFailure, restarts>>
    BY <1>6 DEF RunScenario
  <2>2. TypeOK'
    BY <1>6 DEF RunScenario, IInv, TypeOK, Labels
  <2>3. \A v \in Worker : Busy(v)' => Busy(v)
    BY <1>6 DEF RunScenario, IInv, TypeOK, Busy
  <2> QED BY <2>1, <2>2, <2>3
        DEF IInv, FreshOutside, BusyIsRunning, ExclusiveRun, DepsStayCompleted, Having,
            NobodyWaitsForAFailure, FailuresHaveACause, AreDepsCompleted, DependsOn
<1>7. ASSUME NEW w \in Worker, ReportComplete(w) PROVE IInv'
  BY <1>7, Completed
<1>8. ASSUME NEW w \in Worker, ReportFail(w) PROVE IInv'
  BY <1>8, Failed
<1>9. CASE DeployerRestarts
  <2>1. TypeOK'
    <3>1. restarts' \in 0 .. MaxRestarts
      BY <1>9, SizesAssumption DEF DeployerRestarts, IInv, TypeOK
    <3>2. status' \in [Scenario -> Statuses]
      BY <1>9 DEF DeployerRestarts, Statuses
    <3> QED BY <1>9, <3>1, <3>2 DEF DeployerRestarts, IInv, TypeOK
  <2>2. inQueue' = {} /\ restarts' # 0 /\ \A s \in Scenario : status'[s] = "pending"
    BY <1>9, SizesAssumption DEF DeployerRestarts, IInv, TypeOK
  <2> QED BY <2>1, <2>2
        DEF IInv, FreshOutside, BusyIsRunning, ExclusiveRun, DepsStayCompleted, Having,
            NobodyWaitsForAFailure, FailuresHaveACause, DependsOn
<1>10. CASE UNCHANGED vars
  BY <1>10 DEF vars, IInv, TypeOK, FreshOutside, BusyIsRunning, ExclusiveRun, Busy,
       DepsStayCompleted, Having, NobodyWaitsForAFailure, FailuresHaveACause,
       AreDepsCompleted, DependsOn
<1> QED BY <1>1, <1>2, <1>3, <1>4, <1>5, <1>6, <1>7, <1>8, <1>9, <1>10
      DEF Next, WorkerStep

(* Every reachable state is one of the invariant's. *)
LEMMA Always == Spec => []IInv
BY InitEstablishes, StepPreserves, PTL DEF Spec

(* Two workers never hold the same VM id. *)
THEOREM NobodyShares == Spec => []ExclusiveRun
<1>1. IInv => ExclusiveRun
  BY DEF IInv
<1> QED BY <1>1, Always, PTL

(* What runs or is done keeps its completed dependencies. *)
THEOREM DependenciesStay == Spec => []DepsStayCompleted
<1>1. IInv => DepsStayCompleted
  BY DEF IInv
<1> QED BY <1>1, Always, PTL

(* A failure reaches exactly what depends on it, for every dependency graph. *)
THEOREM CascadeIsExact == Spec => []FailuresSpreadExactly
<1>1. IInv => FailuresSpreadExactly
  BY DEF IInv, FailuresSpreadExactly
<1> QED BY <1>1, Always, PTL

----------------------------------------------------------------------------
(* Command line clients beside the stacks: types.                            *)

(* None is no stack, page, save, job, scan or run, nor entries or a script.  *)
LEMMA NoneIsNone ==
    /\ None \notin Stack /\ None \notin Body /\ None \notin Post /\ None \notin Job
    /\ None \notin Scan /\ None \notin Run /\ None \notin Entries /\ None \notin Script
<1>1. DOMAIN None = {"none"}
  BY DEF None
<1>2. \A x : x \in Stack \cup Body \cup Post \cup Job \cup Scan \cup Run => DOMAIN x # {"none"}
  BY DEF Stack, Body, Post, Job, Scan, Run
<1>3. \A x \in Entries : DOMAIN x # {"none"}
  BY StackAssumptions DEF Entries
<1>4. \A x \in Script : DOMAIN x # {"none"}
  BY DEF Script
<1> QED BY <1>1, <1>2, <1>3, <1>4

LEMMA ValueBounds ==
    /\ Blank \in Values /\ 1 \in Values /\ MaxValues \in Values
    /\ \A x \in Values : x \in Nat
    /\ \A x \in Values : x < MaxValues => x + 1 \in Values
    /\ \A e \in Entries : \A v \in Vars : e[v] \in Values
  BY StackAssumptions DEF Values, Blank, Entries

\* What is read of a stack is a stack, or nothing.
LEMMA ReadTypes ==
    ASSUME StacksTypeOK, NEW id \in Ids
    PROVE  /\ Read(id) \in {None} \cup Stack
           /\ FromHub(id) \in {None} \cup Stack
  BY DEF Read, FromHub, StacksTypeOK, Stack

\* The entries of a stack, or nothing.
LEMMA EntriesTypes ==
    ASSUME NEW x \in {None} \cup Stack
    PROVE  EntriesOf(x) \in {None} \cup Entries /\ (x # None => EntriesOf(x) \in Entries)
  BY DEF EntriesOf, Stack

LEMMA StacksInitTypes ==
    ASSUME StacksInit
    PROVE  StacksTypeOK
<1>1. PICK used \in BOOLEAN, newest \in {1, MaxValues} :
         /\ stacks = [i \in Ids |-> IF used /\ i = Default
                        THEN [entries |-> [v \in Vars |-> newest], era |-> 1] ELSE None]
         /\ installed = {c \in Containers : used /\ BoundTo[c] = Default}
         /\ up = installed
         /\ has = [u \in Places |-> IF Place[u].container \in installed THEN 1 ELSE Blank]
         /\ era = IF used THEN 1 ELSE 0
         /\ minted = IF used THEN newest ELSE 0
  BY DEF StacksInit
<1>2. [v \in Vars |-> newest] \in Entries
  BY ValueBounds DEF Entries
<1>3. stacks \in [Ids -> {None} \cup Stack]
  BY <1>1, <1>2 DEF Stack
<1>4. has \in [Places -> Values]
  BY <1>1, ValueBounds
<1>5. /\ era \in Nat /\ minted \in Values /\ moves \in 0 .. MaxMoves
      /\ up \subseteq installed /\ installed \subseteq Containers
  BY <1>1, ValueBounds, StackAssumptions DEF StacksInit, Values
<1>6. pages \in [Pages -> Page]
  BY DEF StacksInit, Page
<1>7. /\ externals \subseteq Vars /\ required \subseteq externals /\ onHub \in BOOLEAN
      /\ posts \in [Senders -> {None} \cup Post] /\ jobs \in [Vars -> {None} \cup Job]
      /\ scan = None /\ coming \in [Containers -> {None} \cup Entries]
      /\ collects \in [Containers -> {None} \cup Stack]
      /\ restored \in [Ids -> SUBSET Finding]
  BY StackAssumptions DEF StacksInit
<1> QED BY <1>3, <1>4, <1>5, <1>6, <1>7 DEF StacksTypeOK

(* What a form sends has the shape of a body, but for a value too many.      *)
LEMMA FormTypes ==
    ASSUME StacksTypeOK, NEW p \in Pages, pages[p].list # None
    PROVE  /\ Forms(p) \subseteq Body
           /\ \A body \in Bodies(p) :
                 (\A v \in Vars : body.entries[v] <= MaxValues) => body \in Body
<1>1. \A id \in Ids : Fresh(id) \in Body
  BY ValueBounds DEF Fresh, Body, Entries
<1>2. pages[p] \in Page /\ pages[p].list \in [Ids -> {None} \cup Entries]
  BY DEF StacksTypeOK, Page
<1>3. \A id \in Ids : pages[p].list[id] # None => Listed(p, id) \in Body
  BY <1>2 DEF Listed, Body
<1>4. Forms(p) \subseteq Body
  BY <1>1, <1>3 DEF Forms
<1>5. ASSUME NEW body \in Bodies(p), \A v \in Vars : body.entries[v] <= MaxValues
      PROVE  body \in Body
  <2>1. CASE body \in AutoDefault(p)
    BY <2>1, <1>1, StackAssumptions DEF AutoDefault
  <2>2. CASE pages[p].form # None /\ body = pages[p].form
    BY <2>2, <1>2 DEF Page
  <2>3. CASE \E f \in Forms(p) : body \in Typed(f)
    <3>1. PICK f \in Forms(p) : body \in Typed(f)
      BY <2>3
    <3>2. f \in Body
      BY <3>1, <1>4
    <3>3. CASE \E id \in Ids : body = [f EXCEPT !.name = id]
      BY <3>2, <3>3 DEF Body
    <3>4. CASE \E v \in Vars, x \in {Blank, minted + 1} : body = [f EXCEPT !.entries[v] = x]
      <4>1. PICK v \in Vars, x \in {Blank, minted + 1} : body = [f EXCEPT !.entries[v] = x]
        BY <3>4
      <4>2. x = body.entries[v]
        BY <4>1, <3>2 DEF Body, Entries
      <4>3. x \in Values
        BY <4>1, <4>2, <1>5, StackAssumptions DEF StacksTypeOK, Values, Blank
      <4> QED BY <4>1, <4>3, <3>2 DEF Body, Entries
    <3> QED BY <3>1, <3>3, <3>4 DEF Typed
  <2> QED BY <1>5, <2>1, <2>2, <2>3 DEF Bodies
<1> QED BY <1>4, <1>5

LEMMA PriorIdTypes ==
    ASSUME NEW body \in Body
    PROVE  PriorId(body) \in Ids
  BY DEF PriorId, Body

LEMMA ReceivedTypes ==
    ASSUME StacksTypeOK, NEW s \in Senders, NEW body \in Body, Received(s, body)
    PROVE  posts' \in [Senders -> {None} \cup Post]
<1> DEFINE prior == Read(PriorId(body))
<1>1. posts' = [posts EXCEPT ![s] = [body |-> body, prior |-> prior]]
  BY DEF Received
<1>2. prior \in {None} \cup Stack
  BY PriorIdTypes, ReadTypes
<1> HIDE DEF prior
<1>3. [body |-> body, prior |-> prior] \in Post
  BY <1>2 DEF Post
<1> QED BY <1>1, <1>3 DEF StacksTypeOK

LEMMA OvertakenTypes ==
    ASSUME StacksTypeOK, NEW ids
    PROVE  Overtaken(ids) \in [Vars -> {None} \cup Job]
<1> SUFFICES ASSUME NEW v \in Vars, jobs[v] # None
             PROVE  [jobs[v] EXCEPT !.late = jobs[v].held # None] \in Job
  BY DEF Overtaken, StacksTypeOK
<1>1. jobs[v] \in Job /\ (jobs[v].held # None) \in BOOLEAN
  BY DEF StacksTypeOK
<1> QED BY <1>1 DEF Job

LEMMA RemovedTypes ==
    ASSUME StacksTypeOK, NEW ids, Removed(ids)
    PROVE  /\ stacks' \in [Ids -> {None} \cup Stack]
           /\ restored' \in [Ids -> SUBSET Finding]
           /\ jobs' \in [Vars -> {None} \cup Job]
  BY OvertakenTypes DEF Removed, StacksTypeOK

\* What a form fills in is a value, where one may be generated.
LEMMA FilledTypes ==
    ASSUME NEW body \in Body, NEW prior \in {None} \cup Entries, NEW x \in Nat,
           (\E v \in Vars \ externals : body.entries[v] = Blank /\ PriorValue(prior, v) = Blank)
              => x \in Values
    PROVE  Filled(body, prior, x) \in Entries
<1>1. ASSUME NEW v \in Vars PROVE Filled(body, prior, x)[v] \in Values
  <2>1. body.entries[v] \in Values
    BY ValueBounds DEF Body
  <2>2. PriorValue(prior, v) \in Values
    BY ValueBounds DEF PriorValue
  <2>3. CASE body.entries[v] # Blank \/ v \in externals
    BY <2>1, <2>3 DEF Filled
  <2>4. CASE ~(body.entries[v] # Blank \/ v \in externals)
    BY <2>2, <2>4 DEF Filled
  <2> QED BY <2>3, <2>4
<1> QED BY <1>1 DEF Filled, Entries

LEMMA SaveWriteTypes ==
    ASSUME StacksTypeOK, NEW s \in Senders, SaveWrite(s)
    PROVE  StacksTypeOK'
<1> DEFINE body == posts[s].body
           id == body.name
           left == body.from \ {id}
           prior == EntriesOf(posts[s].prior)
           mints == \E v \in Vars \ externals : /\ body.entries[v] = Blank
                                                /\ PriorValue(prior, v) = Blank
           filled == Filled(body, prior, minted + 1)
<1>1. posts[s] \in Post /\ body \in Body /\ id \in Ids /\ body.found \in SUBSET Finding
  BY DEF SaveWrite, StacksTypeOK, Post, Body
<1>2. prior \in {None} \cup Entries
  BY <1>1, EntriesTypes DEF Post
<1>3. /\ posts' \in [Senders -> {None} \cup Post]
      /\ UNCHANGED <<kind, pages, scan, hosts, coming, collects, moves>>
  BY DEF SaveWrite, StacksTypeOK
<1>4. CASE Removed(left) /\ UNCHANGED <<era, minted>>
  BY <1>3, <1>4, RemovedTypes DEF StacksTypeOK, kind, hosts
<1>5. CASE /\ mints => minted < MaxValues
           /\ minted' = IF mints THEN minted + 1 ELSE minted
           /\ era' = era + 1
           /\ stacks' = [i \in Ids |->
                  CASE i = id -> [entries |-> filled, era |-> era + 1]
                    [] i \in left -> None
                    [] OTHER -> stacks[i]]
           /\ restored' = [i \in Ids |->
                  CASE i = id -> body.found [] i \in left -> {} [] OTHER -> restored[i]]
           /\ jobs' = Overtaken(left \cup {id})
  <2>1. minted' \in Values /\ (mints => minted + 1 \in Values) /\ minted + 1 \in Nat
    BY <1>5, ValueBounds DEF StacksTypeOK
  <2>2. filled \in Entries
    BY <1>1, <1>2, <2>1, FilledTypes
  <2>3. [entries |-> filled, era |-> era + 1] \in Stack /\ era' \in Nat
    BY <1>5, <2>2 DEF Stack, StacksTypeOK
  <2>4. jobs' \in [Vars -> {None} \cup Job]
    BY <1>5, OvertakenTypes
  <2> HIDE DEF filled, left, id, mints, prior, body
  <2>5. stacks' \in [Ids -> {None} \cup Stack]
    BY <1>5, <2>3 DEF StacksTypeOK
  <2>6. restored' \in [Ids -> SUBSET Finding]
    BY <1>1, <1>5 DEF StacksTypeOK
  <2> QED BY <1>3, <2>1, <2>3, <2>4, <2>5, <2>6 DEF StacksTypeOK, kind, hosts
<1> QED BY <1>4, <1>5 DEF SaveWrite

LEMMA PageTypes ==
    ASSUME StacksTypeOK, NEW p \in Pages, Load(p) \/ SaveRead(p) \/ StartScan(p)
    PROVE  StacksTypeOK'
<1> USE DEF kind, hosts, store
<1>1. pages[p] \in Page
  BY DEF StacksTypeOK
<1>2. CASE Load(p)
  <2> DEFINE listed == [i \in Ids |-> EntriesOf(stacks[i])]
  <2>1. listed \in [Ids -> {None} \cup Entries]
    BY EntriesTypes DEF StacksTypeOK
  <2>2. pages' = [pages EXCEPT ![p] = [pages[p] EXCEPT !.list = listed]]
    BY <1>2 DEF Load
  <2> HIDE DEF listed
  <2>3. [pages[p] EXCEPT !.list = listed] \in Page
    BY <1>1, <2>1 DEF Page
  <2> QED BY <1>2, <2>2, <2>3 DEF Load, StacksTypeOK
<1>3. CASE SaveRead(p)
  <2>1. PICK body \in Bodies(p) :
           /\ \A v \in Vars : body.entries[v] <= MaxValues
           /\ minted' = IF \E v \in Vars : body.entries[v] = minted + 1
                        THEN minted + 1 ELSE minted
           /\ Received(p, body)
           /\ \/ body = pages[p].form /\ moves' = moves
              \/ body # pages[p].form /\ moves < MaxMoves /\ moves' = moves + 1
    BY <1>3 DEF SaveRead
  <2>2. body \in Body
    BY <1>3, <2>1, FormTypes DEF SaveRead
  <2>3. posts' \in [Senders -> {None} \cup Post]
    BY <2>1, <2>2, ReceivedTypes DEF Senders
  <2>4. minted' \in Values
    BY <2>1, <2>2, StackAssumptions DEF StacksTypeOK, Values, Body, Entries
  <2>5. [pages[p] EXCEPT !.form = None] \in Page
    BY <1>1 DEF Page
  <2>6. pages' \in [Pages -> Page]
    BY <1>3, <2>5 DEF SaveRead, StacksTypeOK
  <2>7. moves' \in 0 .. MaxMoves
    BY <2>1, StackAssumptions DEF StacksTypeOK
  <2> QED BY <1>3, <2>3, <2>4, <2>6, <2>7 DEF SaveRead, StacksTypeOK
<1>4. CASE StartScan(p)
  <2>1. PICK f \in Forms(p) : pages' = [pages EXCEPT ![p].form = f]
    BY <1>4 DEF StartScan
  <2>2. f \in Body
    BY <1>4, <2>1, FormTypes DEF StartScan
  <2>3. [pages[p] EXCEPT !.form = f] \in Page
    BY <1>1, <2>2 DEF Page
  <2>4. pages' \in [Pages -> Page]
    BY <2>1, <2>3 DEF StacksTypeOK
  <2>5. scan' \in Scan
    BY <1>4 DEF StartScan, Scan
  <2>6. moves' \in 0 .. MaxMoves
    BY <1>4, StackAssumptions DEF StartScan, StacksTypeOK
  <2> QED BY <1>4, <2>4, <2>5, <2>6 DEF StartScan, StacksTypeOK
<1> QED BY <1>2, <1>3, <1>4

LEMMA StoreTypes ==
    ASSUME StacksTypeOK, Delete \/ LoseStore
    PROVE  StacksTypeOK'
<1>1. PICK ids : Removed(ids)
  BY DEF Delete, LoseStore
<1>2. moves' \in 0 .. MaxMoves
  BY StackAssumptions DEF Delete, LoseStore, StacksTypeOK
<1>3. /\ stacks' \in [Ids -> {None} \cup Stack] /\ restored' \in [Ids -> SUBSET Finding]
      /\ jobs' \in [Vars -> {None} \cup Job]
  BY <1>1, RemovedTypes
<1> QED BY <1>2, <1>3 DEF Delete, LoseStore, StacksTypeOK, kind, hosts

\* What a refresh that ended writes back is a stack.
LEMMA RefreshedTypes ==
    ASSUME StacksTypeOK, NEW v \in Vars, jobs[v] # None, jobs[v].held # None
    PROVE  /\ jobs[v] \in Job /\ jobs[v].held \in Stack
           /\ Refreshed(v) \in Stack
           /\ Refreshed(v).entries = [jobs[v].held.entries EXCEPT ![v] = jobs[v].new]
           /\ Refreshed(v).era = jobs[v].held.era
<1>1. jobs[v] \in Job /\ jobs[v].held \in Stack /\ jobs[v].new \in Values
  BY DEF StacksTypeOK, Job
<1>2. [jobs[v].held.entries EXCEPT ![v] = jobs[v].new] \in Entries
  BY <1>1 DEF Stack, Entries
<1>3. Refreshed(v) = [jobs[v].held EXCEPT !.entries =
                        [jobs[v].held.entries EXCEPT ![v] = jobs[v].new]]
  BY DEF Refreshed
<1> QED BY <1>1, <1>2, <1>3 DEF Stack

\* A request that goes on beside one that ended.
LEMMA BesideTypes ==
    ASSUME StacksTypeOK, NEW v \in Vars, NEW w \in Vars, w # v,
           jobs[v] # None, jobs[v].held # None, jobs[w] # None, jobs[w].held # None
    PROVE  /\ Beside(v, w) \in Job
           /\ Beside(v, w).id = jobs[w].id /\ Beside(v, w).new = jobs[w].new
           /\ Beside(v, w).late = (jobs[w].late \/ jobs[v].late)
           /\ Beside(v, w).held \in Stack
           /\ Beside(v, w).held.era = jobs[w].held.era
           /\ Beside(v, w).held.entries =
                 IF SameArray(v, w) THEN [jobs[w].held.entries EXCEPT ![v] = jobs[v].new]
                 ELSE jobs[w].held.entries
<1> DEFINE held == IF SameArray(v, w)
                   THEN [jobs[w].held EXCEPT !.entries[v] = jobs[v].new] ELSE jobs[w].held
<1>1. /\ jobs[w] \in Job /\ jobs[w].held \in Stack /\ jobs[v].new \in Values
      /\ (jobs[w].late \/ jobs[v].late) \in BOOLEAN
  BY DEF StacksTypeOK, Job
<1>2. /\ held \in Stack /\ held.era = jobs[w].held.era
      /\ held.entries = IF SameArray(v, w)
                        THEN [jobs[w].held.entries EXCEPT ![v] = jobs[v].new]
                        ELSE jobs[w].held.entries
  <2>1. [jobs[w].held.entries EXCEPT ![v] = jobs[v].new] \in Entries
    BY <1>1 DEF Stack, Entries
  <2>2. [jobs[w].held EXCEPT !.entries[v] = jobs[v].new]
          = [jobs[w].held EXCEPT !.entries = [jobs[w].held.entries EXCEPT ![v] = jobs[v].new]]
    OBVIOUS
  <2> QED BY <1>1, <2>1, <2>2 DEF Stack
<1>3. Beside(v, w) = [jobs[w] EXCEPT !.held = held, !.late = jobs[w].late \/ jobs[v].late]
  BY DEF Beside
<1> HIDE DEF held
<1> QED BY <1>1, <1>2, <1>3 DEF Job

LEMMA EndRefreshTypes ==
    ASSUME StacksTypeOK, NEW v \in Vars, EndRefresh(v)
    PROVE  StacksTypeOK'
<1>1. /\ jobs[v] \in Job /\ jobs[v].id \in Ids /\ Refreshed(v) \in Stack
      /\ jobs[v] # None /\ jobs[v].held # None
  BY RefreshedTypes DEF EndRefresh, Job
<1>2. CASE jobs[v].ok
  <2>1. stacks' \in [Ids -> {None} \cup Stack] /\ restored' \in [Ids -> SUBSET Finding]
    BY <1>1, <1>2 DEF EndRefresh, StacksTypeOK
  <2>2. ASSUME NEW w \in Vars PROVE Beside(v, w) \in {None} \cup Job
    <3>1. CASE w = v
      BY <3>1 DEF Beside
    <3>2. CASE w # v /\ (jobs[w] = None \/ jobs[w].held = None)
      BY <3>2 DEF Beside, StacksTypeOK
    <3>3. CASE w # v /\ jobs[w] # None /\ jobs[w].held # None
      BY <1>1, <3>3, BesideTypes
    <3> QED BY <3>1, <3>2, <3>3
  <2>3. jobs' = [w \in Vars |-> Beside(v, w)]
    BY <1>2 DEF EndRefresh
  <2>4. jobs' \in [Vars -> {None} \cup Job]
    BY <2>2, <2>3
  <2> QED BY <2>1, <2>4 DEF EndRefresh, StacksTypeOK, kind, hosts
<1>3. CASE ~jobs[v].ok
  BY <1>3 DEF EndRefresh, StacksTypeOK, kind, hosts
<1> QED BY <1>2, <1>3

LEMMA RefreshTypes ==
    ASSUME StacksTypeOK,
           \/ \E p \in Pages : StartRefresh(p)
           \/ \E v \in Vars : ReadForRefresh(v) \/ Act(v) \/ Patch(v)
    PROVE  StacksTypeOK'
<1> USE DEF kind, hosts, store
<1>1. ASSUME NEW p \in Pages, StartRefresh(p) PROVE StacksTypeOK'
  <2>1. PICK id \in Ids :
           /\ pages[p].list[id] # None
           /\ jobs' = [v \in Vars |->
                 [id |-> id, new |-> pages[p].list[id][v], held |-> None, late |-> FALSE,
                  todo |-> {}, at |-> None, ok |-> FALSE, error |-> FALSE]]
    BY <1>1 DEF StartRefresh
  <2>2. pages[p].list[id] \in Entries
    BY <1>1, <2>1 DEF StartRefresh, StacksTypeOK, Page
  <2>3. jobs' \in [Vars -> {None} \cup Job]
    BY <2>1, <2>2, ValueBounds DEF Job
  <2>4. moves' \in 0 .. MaxMoves
    BY <1>1, StackAssumptions DEF StartRefresh, StacksTypeOK
  <2> QED BY <1>1, <2>3, <2>4 DEF StartRefresh, StacksTypeOK
<1>2. ASSUME NEW v \in Vars, ReadForRefresh(v) PROVE StacksTypeOK'
  <2>1. jobs[v] \in Job /\ jobs[v].id \in Ids
    BY <1>2 DEF ReadForRefresh, StacksTypeOK, Job
  <2>2. PICK host \in Hosts :
         jobs' = [jobs EXCEPT ![v] =
             IF stacks[jobs[v].id] = None THEN None
             ELSE [jobs[v] EXCEPT !.held = Read(jobs[v].id),
                                  !.todo = Targets(host, jobs[v].id, v)]]
    BY <1>2 DEF ReadForRefresh
  <2>3. Read(jobs[v].id) \in {None} \cup Stack /\ Targets(host, jobs[v].id, v) \in SUBSET Places
    BY <2>1, ReadTypes DEF Targets
  <2>4. [jobs[v] EXCEPT !.held = Read(jobs[v].id),
                        !.todo = Targets(host, jobs[v].id, v)] \in Job
    BY <2>1, <2>3 DEF Job
  <2>5. jobs' \in [Vars -> {None} \cup Job]
    BY <2>2, <2>4 DEF StacksTypeOK
  <2> QED BY <1>2, <2>5 DEF ReadForRefresh, StacksTypeOK
<1>3. ASSUME NEW v \in Vars, Act(v) PROVE StacksTypeOK'
  <2>1. jobs[v] \in Job /\ jobs[v].todo \subseteq Places
    BY <1>3 DEF Act, StacksTypeOK, Job
  <2>2. PICK u \in Places :
           \E b1, b2 \in BOOLEAN,
              a \in {None, [place |-> u, file |-> [w \in FileOf(u) |-> has[w]]]} :
           jobs' = [jobs EXCEPT ![v] = [jobs[v] EXCEPT
                      !.todo = jobs[v].todo \ {u}, !.ok = b1, !.error = b2, !.at = a]]
    <3>1. \A x, y : (x \/ y) \in BOOLEAN
      OBVIOUS
    <3> QED BY <1>3, <2>1, <3>1 DEF Act
  <2>5. PICK b1 \in BOOLEAN, b2 \in BOOLEAN,
             a \in {None, [place |-> u, file |-> [w \in FileOf(u) |-> has[w]]]} :
           jobs' = [jobs EXCEPT ![v] = [jobs[v] EXCEPT
                      !.todo = jobs[v].todo \ {u}, !.ok = b1, !.error = b2, !.at = a]]
    BY <2>2
  <2>3. a \in {None} \cup Script
    <3>1. [w \in FileOf(u) |-> has[w]] \in [FileOf(u) -> Values]
      BY DEF FileOf, PlacesOf, StacksTypeOK
    <3>2. [place |-> u, file |-> [w \in FileOf(u) |-> has[w]]] \in Script
      BY <3>1 DEF Script
    <3> QED BY <3>2
  <2>4. [jobs[v] EXCEPT !.todo = jobs[v].todo \ {u}, !.ok = b1, !.error = b2, !.at = a] \in Job
    BY <2>1, <2>3 DEF Job
  <2> QED BY <1>3, <2>5, <2>4 DEF Act, StacksTypeOK
<1>4. ASSUME NEW v \in Vars, Patch(v) PROVE StacksTypeOK'
  <2>1. jobs[v] \in Job /\ jobs[v].at \in Script /\ jobs[v].new \in Values
    BY <1>4 DEF Patch, StacksTypeOK, Job
  <2>2. PICK u \in Places : /\ jobs[v].at.place = u
                            /\ jobs[v].at.file \in [FileOf(u) -> Values]
    BY <2>1 DEF Script
  <2>3. Patched(jobs[v].at, jobs[v].new) \in [Places -> Values]
    <3> SUFFICES ASSUME NEW w \in Places
                 PROVE  Patched(jobs[v].at, jobs[v].new)[w] \in Values
      BY DEF Patched
    <3>1. has[w] \in Values
      BY DEF StacksTypeOK
    <3>2. w \in DOMAIN jobs[v].at.file => jobs[v].at.file[w] \in Values
      BY <2>2
    <3> QED BY <2>1, <3>1, <3>2 DEF Patched
  <2>4. [jobs[v] EXCEPT !.at = None, !.ok = TRUE] \in Job
        /\ [jobs[v] EXCEPT !.at = None, !.error = TRUE] \in Job
    BY <2>1 DEF Job
  <2>5. jobs' \in [Vars -> {None} \cup Job] /\ has' \in [Places -> Values]
    BY <1>4, <2>3, <2>4 DEF Patch, StacksTypeOK
  <2> QED BY <1>4, <2>5 DEF Patch, StacksTypeOK
<1> QED BY <1>1, <1>2, <1>3, <1>4

LEMMA InstallTypes ==
    ASSUME StacksTypeOK, NEW c \in Containers,
           Install(c) \/ Installed(c) \/ StoreProvides(c) \/ Power(c)
    PROVE  StacksTypeOK'
<1> USE DEF kind, hosts, store
<1>1. CASE Install(c)
  <2>1. stacks[BoundTo[c]].entries \in Entries
    BY <1>1, StackAssumptions DEF Install, StacksTypeOK, Stack
  <2> QED BY <1>1, <2>1 DEF Install, StacksTypeOK
<1>2. CASE Installed(c)
  <2>1. coming[c] \in Entries
    BY <1>2 DEF Installed, StacksTypeOK
  <2>2. FromHub(BoundTo[c]) \in {None} \cup Stack
    BY ReadTypes, StackAssumptions
  <2>3. has' \in [Places -> Values]
    <3>1. \A u \in Places : coming[c][Place[u].var] \in Values
      BY <2>1, ValueBounds, StackAssumptions
    <3> QED BY <1>2, <3>1 DEF Installed, StacksTypeOK
  <2>4. /\ coming' \in [Containers -> {None} \cup Entries]
        /\ collects' \in [Containers -> {None} \cup Stack]
        /\ up' \subseteq installed' /\ installed' \subseteq Containers
    BY <1>2, <2>2 DEF Installed, StacksTypeOK
  <2> QED BY <1>2, <2>3, <2>4 DEF Installed, StacksTypeOK
<1>3. CASE StoreProvides(c)
  <2>1. stacks' \in [Ids -> {None} \cup Stack] /\ restored' \in [Ids -> SUBSET Finding]
    BY <1>3, StackAssumptions DEF StoreProvides, StacksTypeOK
  <2> QED BY <1>3, <2>1 DEF StoreProvides, StacksTypeOK
<1>4. CASE Power(c)
  <2>1. moves' \in 0 .. MaxMoves /\ up' \subseteq installed
    BY <1>4, StackAssumptions DEF Power, StacksTypeOK
  <2> QED BY <1>4, <2>1 DEF Power, StacksTypeOK
<1> QED BY <1>1, <1>2, <1>3, <1>4

\* What a scan fills in is blank or was found.
LEMMA RestoredTypes ==
    ASSUME scan \in Scan, NEW v \in Vars
    PROVE  /\ ValuesFound(v) \subseteq Values
           /\ Restored(v) \in Values
<1>1. ValuesFound(v) \subseteq Values
  BY DEF ValuesFound, Scan, Finding
<1> QED BY <1>1, ValueBounds DEF Restored

LEMMA ScanTypes ==
    ASSUME StacksTypeOK, ScanHost \/ EndScan
    PROVE  StacksTypeOK'
<1> USE DEF kind, hosts, store
<1>1. CASE ScanHost
  <2>1. scan \in Scan
    BY <1>1 DEF ScanHost, StacksTypeOK
  <2>2. \A c, blind : Findings(c, blind) \subseteq Finding
    BY DEF Findings, FirstOf, Looked, PlacesOf, Finding, StacksTypeOK
  <2>3. PICK h \in scan.hosts :
         \/ \E blind \in [Sources(h) -> SUBSET MayBeBlind] :
               scan' = [scan EXCEPT !.hosts = @ \ {h}, !.found = @ \cup
                           UNION {Findings(c, blind[c]) : c \in Sources(h)}]
         \/ scan' = [scan EXCEPT !.hosts = @ \ {h}]
    BY <1>1 DEF ScanHost
  <2>4. scan' \in Scan
    <3>1. ASSUME NEW more \in SUBSET Finding
          PROVE  [scan EXCEPT !.hosts = @ \ {h}, !.found = @ \cup more] \in Scan
      BY <2>1 DEF Scan
    <3>2. [scan EXCEPT !.hosts = @ \ {h}] \in Scan
      BY <2>1 DEF Scan
    <3>3. \A blind : UNION {Findings(c, blind[c]) : c \in Sources(h)} \in SUBSET Finding
      BY <2>2
    <3> QED BY <2>3, <3>1, <3>2, <3>3
  <2> QED BY <1>1, <2>4 DEF ScanHost, StacksTypeOK
<1>2. CASE EndScan
  <2>1. /\ scan \in Scan /\ scan.page \in Pages /\ pages[scan.page] \in Page
        /\ scan.found \in SUBSET Finding
    BY <1>2 DEF EndScan, StacksTypeOK, Scan
  <2>2. [v \in Vars |-> Restored(v)] \in Entries
    BY <2>1, RestoredTypes DEF Entries
  <2>3. ASSUME pages[scan.page].form # None
        PROVE  [pages[scan.page] EXCEPT !.form = [@ EXCEPT
                  !.entries = [v \in Vars |-> Restored(v)], !.found = scan.found]] \in Page
    BY <2>1, <2>2, <2>3 DEF Page, Body
  <2>4. pages' \in [Pages -> Page]
    BY <1>2, <2>1, <2>3 DEF EndScan, StacksTypeOK
  <2> QED BY <1>2, <2>4 DEF EndScan, StacksTypeOK
<1> QED BY <1>1, <1>2

LEMMA StacksStepTypes ==
    ASSUME StacksTypeOK, StacksNext
    PROVE  StacksTypeOK'
  BY PageTypes, SaveWriteTypes, StoreTypes, RefreshTypes, EndRefreshTypes, InstallTypes, ScanTypes
     DEF StacksNext

----------------------------------------------------------------------------
(* Types of the client.                                                     *)

\* Which stack a file asks for, and which one is created for it.
LEMMA AskedTypes ==
    ASSUME NEW f \in Files
    PROVE  /\ AsAsked(f) \in SUBSET (Ids \cup {"unknown"})
           /\ ToCreate(f) \in Ids
<1>1. f.stack \subseteq Wanted
  BY CommandLineAssumption
<1> QED BY <1>1, StackAssumptions DEF AsAsked, ToCreate, Wanted

LEMMA SettleTypes ==
    ASSUME CommandLineTypeOK, NEW k \in Clients, cli[k] # None,
           NEW at \in {"fetched", "creating", "resolved", "valid"},
           NEW s \in SUBSET (Ids \cup {"unknown"}), Settle(k, at, s)
    PROVE  cli' \in [Clients -> {None} \cup Run]
<1>1. cli[k] \in Run
  BY DEF CommandLineTypeOK
<1>2. cli' = [cli EXCEPT ![k] =
          [cli[k] EXCEPT !.at = at, !.stack = s, !.sees = {}, !.typed = TRUE]]
  BY DEF Settle, CommandLineTypeOK
<1>3. [cli[k] EXCEPT !.at = at, !.stack = s, !.sees = {}, !.typed = TRUE] \in Run
  BY <1>1 DEF Run
<1> QED BY <1>2, <1>3 DEF CommandLineTypeOK

LEMMA EndsTypes ==
    ASSUME CommandLineTypeOK, NEW k \in Clients, Ends(k)
    PROVE  cli' \in [Clients -> {None} \cup Run]
  BY DEF CommandLineTypeOK, Ends

\* Steps of a run that leave the stacks alone.
LEMMA AsideTypes ==
    ASSUME CommandLineTypeOK, UNCHANGED stackVars, cli' \in [Clients -> {None} \cup Run]
    PROVE  CommandLineTypeOK'
  BY DEF CommandLineTypeOK, StacksTypeOK, stackVars, kind, hosts, store

LEMMA ClientTypes ==
    ASSUME CommandLineTypeOK, NEW k \in Clients,
           \/ Fetch(k) \/ UseFound(k) \/ RefuseEmptyAutoCreate(k)
           \/ PostCreateStack(k) \/ Created(k) \/ Validate(k)
           \/ Submit(k) \/ Abort(k)
    PROVE  CommandLineTypeOK'
<1>1. k \in Senders /\ StacksTypeOK
  BY DEF Senders, CommandLineTypeOK
<1>2. cli[k] # None => cli[k] \in Run /\ cli[k].file \in Files
  BY DEF CommandLineTypeOK, Run
<1>3. CASE Fetch(k)
  <2>1. PICK f \in Files, typed \in BOOLEAN, listed \in BOOLEAN :
          cli' = [cli EXCEPT ![k] =
             [at |-> "fetched", file |-> f, typed |-> typed, stack |-> {},
              sees |-> {i \in Ids : typed /\ listed /\ stacks[i] # None}]]
    BY <1>3 DEF Fetch
  <2>2. cli' \in [Clients -> {None} \cup Run]
    BY <2>1 DEF CommandLineTypeOK, Run
  <2>3. moves' \in 0 .. MaxMoves
    BY <1>1, <1>3, StackAssumptions DEF Fetch, StacksTypeOK
  <2> QED BY <1>1, <1>3, <2>2, <2>3 DEF Fetch, CommandLineTypeOK, StacksTypeOK, kind, hosts, store
<1>4. CASE UseFound(k)
  <2>1. cli[k] # None /\ cli[k] \in Run /\ cli[k].file \in Files /\ UNCHANGED stackVars
    BY <1>2, <1>4 DEF UseFound
  <2>2. \A s \in Found(cli[k]) : s \in SUBSET (Ids \cup {"unknown"})
    BY <2>1, AskedTypes DEF Found, Run
  <2>3. PICK s \in SUBSET (Ids \cup {"unknown"}) : Settle(k, "resolved", s)
    BY <1>4, <2>1, <2>2, AskedTypes DEF UseFound, UseStack
  <2>4. cli' \in [Clients -> {None} \cup Run]
    BY <2>1, <2>3, SettleTypes
  <2> QED BY <2>1, <2>4, AsideTypes
<1>5. CASE RefuseEmptyAutoCreate(k)
  BY <1>5, EndsTypes, AsideTypes DEF RefuseEmptyAutoCreate
<1>6. CASE PostCreateStack(k)
  <2>1. cli[k] # None /\ ToCreate(cli[k].file) \in Ids
    BY <1>2, <1>6, AskedTypes DEF PostCreateStack, Nothing
  <2>2. Fresh(ToCreate(cli[k].file)) \in Body
    BY <2>1, ValueBounds DEF Fresh, Body, Entries
  <2>3. posts' \in [Senders -> {None} \cup Post]
    BY <1>1, <1>6, <2>2, ReceivedTypes DEF PostCreateStack
  <2>4. cli' \in [Clients -> {None} \cup Run]
    BY <1>6, <2>1, SettleTypes DEF PostCreateStack
  <2> QED BY <1>1, <1>6, <2>3, <2>4 
           DEF PostCreateStack, CommandLineTypeOK, StacksTypeOK, kind, hosts, store
<1>7. CASE Created(k)
  <2>1. cli[k] # None /\ ToCreate(cli[k].file) \in Ids
    BY <1>2, <1>7, AskedTypes DEF Created
  <2>2. cli' \in [Clients -> {None} \cup Run]
    <3>1. CASE UseStack(k, {ToCreate(cli[k].file)})
      BY <2>1, <3>1, SettleTypes DEF UseStack
    <3> QED BY <1>7, <3>1, EndsTypes DEF Created
  <2> QED BY <1>1, <1>7, <2>2, SaveWriteTypes DEF Created, CommandLineTypeOK
<1>8. CASE Validate(k)
  <2>1. [cli[k] EXCEPT !.at = "valid"] \in Run
    BY <1>2, <1>8 DEF Validate, Run
  <2>2. cli' \in [Clients -> {None} \cup Run]
    <3>1. CASE cli' = [cli EXCEPT ![k].at = "valid"]
      BY <2>1, <3>1 DEF CommandLineTypeOK
    <3> QED BY <1>8, <3>1, EndsTypes DEF Validate
  <2> QED BY <1>8, <2>2, AsideTypes DEF Validate
<1>9. CASE Submit(k)
  <2>1. StacksTypeOK'
    BY <1>1, <1>9, InstallTypes DEF Submit
  <2> QED BY <1>9, <2>1, EndsTypes DEF Submit, CommandLineTypeOK
<1>10. CASE Abort(k)
  BY <1>10, EndsTypes, AsideTypes DEF Abort
<1> QED BY <1>3, <1>4, <1>5, <1>6, <1>7, <1>8, <1>9, <1>10

LEMMA CommandLineStepTypes ==
    ASSUME CommandLineTypeOK, [CommandLineNext]_everything
    PROVE  CommandLineTypeOK'
<1>1. CASE StacksNext /\ UNCHANGED cli
  BY <1>1, StacksStepTypes DEF CommandLineTypeOK
<1>2. CASE UNCHANGED everything
  BY <1>2, AsideTypes DEF everything, CommandLineTypeOK
<1> QED BY <1>1, <1>2, ClientTypes DEF CommandLineNext

(* Stacks, requests, pages, containers and the runs of the client keep their *)
(* shape.                                                                    *)
THEOREM ShapesStay == CommandLineSpec => []CommandLineTypeOK
<1>1. CommandLineInit => CommandLineTypeOK
  BY StacksInitTypes DEF CommandLineInit, CommandLineTypeOK
<1> QED BY <1>1, CommandLineStepTypes, PTL DEF CommandLineSpec


----------------------------------------------------------------------------
(* The restore.                                                             *)

\* What a form holds is what was found for it.
Fits(body) ==
    \A f \in body.found : f.value # Blank => body.entries[Place[f.place].var] = f.value

RestoreInv ==
    /\ \A p \in Pages : pages[p].form # None => Fits(pages[p].form)
    /\ \A s \in Senders : posts[s] # None => Fits(posts[s].body)
    /\ RestoredFits

\* Of values that agree there is one.
LEMMA AgreedIsOne ==
    ASSUME scan \in Scan, NEW f \in scan.found, Agreed(Place[f.place].var)
    PROVE  Restored(Place[f.place].var) = f.value
<1> DEFINE v == Place[f.place].var
<1>1. f.value \in ValuesFound(v)
  BY DEF ValuesFound
<1> HIDE DEF v
<1>2. (CHOOSE x \in ValuesFound(v) : TRUE) \in ValuesFound(v)
  BY <1>1
<1>3. Restored(v) = (CHOOSE x \in ValuesFound(v) : TRUE)
  BY <1>1 DEF Restored
<1>4. Agreed(v)
  BY DEF v
<1>5. Restored(v) = f.value
  BY <1>1, <1>2, <1>3, <1>4 DEF Agreed
<1> QED BY <1>5 DEF v

\* What operators type was not found anywhere, and nobody alters a restored form.
LEMMA BodiesFit ==
    ASSUME StacksTypeOK, RestoreInv, NEW p \in Pages, pages[p].list # None
    PROVE  /\ \A f \in Forms(p) : Fits(f)
           /\ \A body \in Bodies(p) : Fits(body)
<1>1. /\ \A id \in Ids : Fresh(id).found = {} /\ Listed(p, id).found = {}
      /\ Default \in Ids
  BY StackAssumptions DEF Fresh, Listed
<1>2. \A f \in Forms(p) : f.found = {} /\ f \in Body
  BY <1>1, FormTypes DEF Forms
<1>3. ASSUME NEW body \in Bodies(p) PROVE Fits(body)
  <2>1. CASE body \in AutoDefault(p)
    BY <1>1, <2>1 DEF AutoDefault, Fits
  <2>2. CASE pages[p].form # None /\ body = pages[p].form
    BY <2>2 DEF RestoreInv
  <2>3. CASE \E f \in Forms(p) : body \in Typed(f)
    <3>1. PICK f \in Forms(p) : body \in Typed(f)
      BY <2>3
    <3>2. f \in Body /\ f.found = {}
      BY <1>2
    <3>3. body.found = f.found
      BY <3>1, <3>2 DEF Typed, Body
    <3> QED BY <3>2, <3>3 DEF Fits
  <2> QED BY <1>3, <2>1, <2>2, <2>3 DEF Bodies
<1> QED BY <1>2, <1>3 DEF Fits

LEMMA SaveWriteFits ==
    ASSUME StacksTypeOK, RestoreInv, NEW s \in Senders, SaveWrite(s)
    PROVE  RestoreInv'
<1> DEFINE body == posts[s].body
           id == body.name
           left == body.from \ {id}
           prior == EntriesOf(posts[s].prior)
           filled == Filled(body, prior, minted + 1)
<1>1. posts[s] \in Post /\ body \in Body /\ id \in Ids /\ Fits(body)
  BY DEF SaveWrite, StacksTypeOK, Post, Body, RestoreInv
<1>2. /\ posts' = [posts EXCEPT ![s] = None] /\ pages' = pages
  BY DEF SaveWrite
<1>3. CASE Removed(left)
  <2>1. RestoredFits'
    BY <1>3 DEF Removed, RestoreInv, RestoredFits
  <2> QED BY <1>2, <2>1 DEF RestoreInv, Fits, StacksTypeOK
<1>4. CASE /\ stacks' = [i \in Ids |->
                  CASE i = id -> [entries |-> filled, era |-> era + 1]
                    [] i \in left -> None
                    [] OTHER -> stacks[i]]
           /\ restored' = [i \in Ids |->
                  CASE i = id -> body.found [] i \in left -> {} [] OTHER -> restored[i]]
  <2>1. ASSUME NEW f \in body.found, f.value # Blank
        PROVE  filled[Place[f.place].var] = f.value
    <3>1. f \in Finding
      BY <1>1, <2>1 DEF Body
    <3>2. /\ Place[f.place].var \in Vars
          /\ body.entries[Place[f.place].var] = f.value
      BY <1>1, <2>1, <3>1, StackAssumptions DEF Fits, Finding
    <3> QED BY <2>1, <3>2 DEF Filled
  <2>2. ASSUME NEW i \in Ids, stacks'[i] # None, NEW f \in restored'[i], f.value # Blank
        PROVE  stacks'[i].entries[Place[f.place].var] = f.value
    <3>1. CASE i = id
      BY <1>4, <2>1, <2>2, <3>1
    <3>2. CASE i # id
      BY <1>4, <2>2, <3>2 DEF RestoreInv, RestoredFits
    <3> QED BY <3>1, <3>2
  <2>3. RestoredFits'
    BY <2>2 DEF RestoredFits
  <2> QED BY <1>2, <2>3 DEF RestoreInv, Fits, StacksTypeOK
<1> QED BY <1>3, <1>4 DEF SaveWrite

\* A page that loads, saves or starts a scan, and a scan that ends.
LEMMA PagesFit ==
    ASSUME StacksTypeOK, RestoreInv,
           (\E p \in Pages : Load(p) \/ SaveRead(p) \/ StartScan(p)) \/ EndScan
    PROVE  RestoreInv'
<1>1. RestoredFits'
  BY DEF RestoreInv, RestoredFits, Load, SaveRead, StartScan, EndScan, store
<1>2. ASSUME NEW p \in Pages, Load(p) PROVE RestoreInv'
  <2>1. \A q \in Pages : pages'[q].form = pages[q].form /\ posts' = posts
    BY <1>2 DEF Load, StacksTypeOK, Page
  <2> QED BY <1>1, <2>1 DEF RestoreInv, Fits
<1>3. ASSUME NEW p \in Pages, SaveRead(p) PROVE RestoreInv'
  <2>1. PICK body \in Bodies(p) :
          posts' = [posts EXCEPT ![p] = [body |-> body, prior |-> Read(PriorId(body))]]
    BY <1>3 DEF SaveRead, Received
  <2>2. Fits(body)
    BY <1>3, BodiesFit DEF SaveRead
  <2>3. \A s \in Senders : posts'[s] # None => Fits(posts'[s].body)
    <3> SUFFICES ASSUME NEW s \in Senders, posts'[s] # None PROVE Fits(posts'[s].body)
      OBVIOUS
    <3>1. CASE s = p
      BY <2>1, <2>2, <3>1 DEF StacksTypeOK
    <3>2. CASE s # p
      BY <2>1, <3>2 DEF StacksTypeOK, RestoreInv
    <3> QED BY <3>1, <3>2
  <2>4. \A q \in Pages : pages'[q].form # None => pages'[q].form = pages[q].form
    BY <1>3 DEF SaveRead, StacksTypeOK, Page
  <2> QED BY <1>1, <2>3, <2>4 DEF RestoreInv, Fits
<1>4. ASSUME NEW p \in Pages, StartScan(p) PROVE RestoreInv'
  <2>1. PICK f \in Forms(p) : pages' = [pages EXCEPT ![p].form = f]
    BY <1>4 DEF StartScan
  <2>2. Fits(f)
    BY <1>4, BodiesFit DEF StartScan
  <2>3. \A q \in Pages : pages'[q].form # None => Fits(pages'[q].form)
    BY <2>1, <2>2 DEF StacksTypeOK, Page, RestoreInv
  <2> QED BY <1>1, <1>4, <2>3 DEF StartScan, RestoreInv, Fits
<1>5. CASE EndScan
  <2>1. /\ scan \in Scan /\ scan.page \in Pages /\ pages[scan.page] \in Page
        /\ scan.found \in SUBSET Finding
    BY <1>5 DEF EndScan, StacksTypeOK, Scan
  <2>2. CASE pages[scan.page].form # None /\ \A v \in Vars : Agreed(v)
    <3> DEFINE form == [pages[scan.page].form EXCEPT
                          !.entries = [v \in Vars |-> Restored(v)], !.found = scan.found]
    <3>1. pages' = [pages EXCEPT ![scan.page].form = form]
      BY <1>5, <2>2 DEF EndScan
    <3>2. pages[scan.page].form \in Body
      BY <2>1, <2>2 DEF Page
    <3>3. form.found = scan.found /\ form.entries = [v \in Vars |-> Restored(v)]
      BY <3>2 DEF Body
    <3>4. ASSUME NEW f \in scan.found
          PROVE  Place[f.place].var \in Vars /\ Restored(Place[f.place].var) = f.value
      <4>1. Place[f.place].var \in Vars
        BY <2>1, StackAssumptions DEF Finding
      <4> QED BY <2>1, <2>2, <4>1, AgreedIsOne
    <3> HIDE DEF form
    <3>5. Fits(form)
      BY <3>3, <3>4 DEF Fits
    <3>6. \A q \in Pages : pages'[q].form # None => Fits(pages'[q].form)
      BY <2>1, <3>1, <3>5 DEF StacksTypeOK, Page, RestoreInv
    <3> QED BY <1>1, <1>5, <3>6 DEF EndScan, RestoreInv, Fits
  <2>3. CASE pages' = pages
    BY <1>1, <1>5, <2>3 DEF EndScan, RestoreInv, Fits
  <2> QED BY <1>5, <2>2, <2>3 DEF EndScan
<1> QED BY <1>2, <1>3, <1>4, <1>5

\* Everybody else leaves the forms alone, and takes the stack's history with it.
LEMMA OthersFit ==
    ASSUME StacksTypeOK, RestoreInv, UNCHANGED <<pages, posts>>,
           \A i \in Ids : \/ restored'[i] = {}
                          \/ stacks'[i] = stacks[i] /\ restored'[i] = restored[i]
    PROVE  RestoreInv'
<1>1. RestoredFits'
  BY DEF RestoreInv, RestoredFits
<1> QED BY <1>1 DEF RestoreInv, Fits

LEMMA RestoreStep ==
    ASSUME CommandLineTypeOK, RestoreInv, [CommandLineNext]_everything
    PROVE  RestoreInv'
<1>1. StacksTypeOK
  BY DEF CommandLineTypeOK
<1>2. CASE \/ UNCHANGED stackVars
           \/ \E p \in Pages : StartRefresh(p)
           \/ \E v \in Vars : ReadForRefresh(v) \/ Act(v) \/ Patch(v)
           \/ \E c \in Containers : Install(c) \/ Installed(c) \/ Power(c)
           \/ \E k \in Clients : Fetch(k)
           \/ ScanHost
  <2>1. UNCHANGED <<pages, posts, stacks, restored>>
    BY <1>2 DEF stackVars, store, StartRefresh, ReadForRefresh, Act, Patch, Install, Installed,
                Power, Fetch, ScanHost
  <2> QED BY <1>1, <2>1, OthersFit
<1>3. CASE Delete \/ LoseStore
  <2>1. PICK ids : Removed(ids)
    BY <1>3 DEF Delete, LoseStore
  <2>2. UNCHANGED <<pages, posts>>
    BY <1>3 DEF Delete, LoseStore
  <2> QED BY <1>1, <2>1, <2>2, OthersFit DEF Removed
<1>4. ASSUME NEW v \in Vars, EndRefresh(v) PROVE RestoreInv'
  <2>1. UNCHANGED <<pages, posts>>
    BY <1>4 DEF EndRefresh
  <2>2. \A i \in Ids : restored'[i] = {} \/ (stacks'[i] = stacks[i] /\ restored'[i] = restored[i])
    BY <1>1, <1>4 DEF EndRefresh, StacksTypeOK
  <2> QED BY <1>1, <2>1, <2>2, OthersFit
<1>5. ASSUME NEW c \in Containers, StoreProvides(c) PROVE RestoreInv'
  <2>1. UNCHANGED <<pages, posts>>
    BY <1>5 DEF StoreProvides
  <2>2. \A i \in Ids : restored'[i] = {} \/ (stacks'[i] = stacks[i] /\ restored'[i] = restored[i])
    BY <1>1, <1>5 DEF StoreProvides, StacksTypeOK
  <2> QED BY <1>1, <2>1, <2>2, OthersFit
<1>6. ASSUME NEW k \in Clients, PostCreateStack(k) PROVE RestoreInv'
  <2>1. PICK id : posts' = [posts EXCEPT ![k] =
                              [body |-> Fresh(id), prior |-> Read(PriorId(Fresh(id)))]]
    BY <1>6 DEF PostCreateStack, Received
  <2>2. UNCHANGED <<pages, stacks, restored>>
    BY <1>6 DEF PostCreateStack, store
  <2>3. \A s \in Senders : posts'[s] # None =>
           posts'[s] = posts[s] \/ posts'[s].body = Fresh(id)
    BY <1>1, <2>1 DEF StacksTypeOK
  <2> QED BY <2>2, <2>3 DEF RestoreInv, Fits, Fresh, RestoredFits
<1>7. CASE StacksNext
  BY <1>1, <1>2, <1>3, <1>4, <1>5, <1>7, PagesFit, SaveWriteFits DEF StacksNext
<1>8. ASSUME NEW k \in Clients,
             \/ UseFound(k) \/ RefuseEmptyAutoCreate(k) \/ Validate(k) \/ Abort(k)
             \/ Created(k) \/ Submit(k)
      PROVE  RestoreInv'
  <2>1. \/ UNCHANGED stackVars
        \/ SaveWrite(k)
        \/ \E c \in Containers : Install(c)
    BY <1>8 DEF UseFound, RefuseEmptyAutoCreate, Validate, Abort, Created, Submit
  <2> QED BY <1>1, <1>2, <2>1, SaveWriteFits DEF Senders
<1>9. CASE UNCHANGED everything
  BY <1>2, <1>9 DEF everything
<1> QED BY <1>2, <1>6, <1>7, <1>8, <1>9 DEF CommandLineNext

(* A stack that was saved from a restored form holds every value that was    *)
(* found, however many containers, places and hosts there are: the restore   *)
(* is given up when they disagree, a save fills in only what is blank, and   *)
(* whoever writes the stack afterwards makes another one of it               *)
(* (stack-restore-service.mts:137-186, webapp-stack-routes.mts:81-155).      *)
THEOREM RestoresFit == CommandLineSpec => []RestoredFits
<1>1. CommandLineInit => RestoreInv
  BY DEF CommandLineInit, StacksInit, RestoreInv, RestoredFits
<1>2. CommandLineTypeOK /\ RestoreInv /\ [CommandLineNext]_everything => RestoreInv'
  BY RestoreStep
<1>3. RestoreInv => RestoredFits
  BY DEF RestoreInv
<1> QED BY <1>1, <1>2, <1>3, ShapesStay, PTL DEF CommandLineSpec

----------------------------------------------------------------------------
(* The store of the deployer.                                               *)

AsWritten == DOMAIN wrote = Ids /\ \A i \in Ids : EntriesOf(stacks[i]) = wrote[i]

\* Every stack and what is read of one is the stored object itself.
ObjectsAreShared ==
    /\ \A i \in Ids : stacks[i] # None => stacks[i].era # 0
    /\ \A v \in Vars : jobs[v] # None /\ jobs[v].held # None => jobs[v].held.era # 0
    /\ \A c \in Containers : collects[c] = None

\* A save is alone in the deployer, and has read what it is going to replace.
SavesAreCurrent ==
    \A s \in Senders : posts[s] # None =>
        /\ \A t \in Senders \ {s} : posts[t] = None
        /\ posts[s].prior = stacks[PriorId(posts[s].body)]

\* A refresh that nobody overtook holds the stored object, and the requests of
\* one dialog are about one stack.
Current(j) == j.held # None /\ ~j.late => stacks[j.id] = j.held

JobsAreCurrent ==
    \A v \in Vars : jobs[v] # None =>
        /\ Current(jobs[v])
        /\ \A w \in Vars : jobs[w] # None => jobs[w].id = jobs[v].id

Stored == AsWritten /\ ObjectsAreShared /\ SavesAreCurrent /\ JobsAreCurrent

\* With a hub requests overtake each other, and nothing of this holds.
StoreInv == ~onHub => Stored

\* Steps that touch neither the store nor the requests.
LEMMA QuietStore ==
    ASSUME Stored, UNCHANGED <<stacks, wrote, posts, jobs, collects>>
    PROVE  Stored'
<1>1. \A body : PriorId(body)' = PriorId(body)
  BY DEF PriorId
<1> QED BY <1>1 DEF Stored, AsWritten, ObjectsAreShared, SavesAreCurrent, JobsAreCurrent,
                    Current

\* One request goes on with the stack that it has, or ends.
LEMMA JobStep ==
    ASSUME StacksTypeOK, Stored, UNCHANGED <<stacks, wrote, posts, collects>>,
           NEW v \in Vars, jobs[v] # None, NEW j \in {None} \cup Job,
           jobs' = [jobs EXCEPT ![v] = j],
           j # None => /\ j.id = jobs[v].id /\ Current(j)
                       /\ j.held # None => j.held.era # 0
    PROVE  Stored'
<1>1. \A body : PriorId(body)' = PriorId(body)
  BY DEF PriorId
<1>2. AsWritten' /\ SavesAreCurrent'
  BY <1>1 DEF Stored, AsWritten, SavesAreCurrent
<1>3. jobs'[v] = j /\ \A w \in Vars \ {v} : jobs'[w] = jobs[w]
  BY DEF StacksTypeOK
<1>4. ObjectsAreShared'
  BY <1>3 DEF Stored, ObjectsAreShared
<1>5. ASSUME NEW w \in Vars, jobs'[w] # None
      PROVE  Current(jobs[w])' /\ jobs'[w].id = jobs[v].id
  BY <1>3, <1>5 DEF Stored, JobsAreCurrent, Current
<1>6. JobsAreCurrent'
  BY <1>5 DEF JobsAreCurrent
<1> QED BY <1>2, <1>4, <1>6 DEF Stored

LEMMA RefreshKeeps ==
    ASSUME StacksTypeOK, Stored, ~onHub,
           \/ \E p \in Pages : StartRefresh(p)
           \/ \E v \in Vars : ReadForRefresh(v) \/ Act(v) \/ Patch(v)
    PROVE  Stored'
<1>1. UNCHANGED <<stacks, wrote, posts, collects>>
  BY DEF StartRefresh, ReadForRefresh, Act, Patch, store
<1>2. ASSUME NEW p \in Pages, StartRefresh(p) PROVE Stored'
  <2>1. PICK id \in Ids :
           jobs' = [v \in Vars |->
                 [id |-> id, new |-> pages[p].list[id][v], held |-> None, late |-> FALSE,
                  todo |-> {}, at |-> None, ok |-> FALSE, error |-> FALSE]]
    BY <1>2 DEF StartRefresh
  <2>2. \A v \in Vars : jobs'[v].held = None /\ jobs'[v].id = id
    BY <2>1
  <2>3. JobsAreCurrent' /\ ObjectsAreShared'
    BY <1>1, <2>2 DEF JobsAreCurrent, Current, Stored, ObjectsAreShared
  <2>4. \A body : PriorId(body)' = PriorId(body)
    BY <1>1 DEF PriorId
  <2> QED BY <1>1, <2>3, <2>4 DEF Stored, AsWritten, SavesAreCurrent
<1>3. ASSUME NEW v \in Vars, ReadForRefresh(v) PROVE Stored'
  <2>1. jobs[v] \in Job /\ jobs[v] # None /\ jobs[v].id \in Ids
    BY <1>3 DEF ReadForRefresh, StacksTypeOK, Job
  <2>2. CASE stacks[jobs[v].id] = None
    <3>1. jobs' = [jobs EXCEPT ![v] = None]
      BY <1>3, <2>2 DEF ReadForRefresh
    <3> QED BY <1>1, <2>1, <3>1, JobStep
  <2>3. CASE stacks[jobs[v].id] # None
    <3>1. PICK host \in Hosts :
           jobs' = [jobs EXCEPT ![v] = [jobs[v] EXCEPT !.held = stacks[jobs[v].id],
                                           !.todo = Targets(host, jobs[v].id, v)]]
      BY <1>3, <2>3 DEF ReadForRefresh, Read
    <3> DEFINE j == [jobs[v] EXCEPT !.held = stacks[jobs[v].id],
                                    !.todo = Targets(host, jobs[v].id, v)]
    <3>2. /\ j.id = jobs[v].id /\ j.held = stacks[jobs[v].id] /\ j \in Job
      <4>1. stacks[jobs[v].id] \in Stack /\ Targets(host, jobs[v].id, v) \in SUBSET Places
        BY <2>1, <2>3 DEF Targets, StacksTypeOK
      <4> QED BY <2>1, <4>1 DEF Job
    <3> HIDE DEF j
    <3>3. Current(j) /\ j.held.era # 0
      BY <2>1, <2>3, <3>2 DEF Current, Stored, ObjectsAreShared
    <3>4. jobs' = [jobs EXCEPT ![v] = j]
      BY <3>1 DEF j
    <3> QED BY <1>1, <2>1, <3>2, <3>3, <3>4, JobStep
  <2> QED BY <2>2, <2>3
<1>4. ASSUME NEW v \in Vars, Act(v) \/ Patch(v) PROVE Stored'
  <2>1. jobs[v] \in Job /\ jobs[v] # None
    BY <1>4 DEF Act, Patch, StacksTypeOK
  <2>2. PICK j : /\ jobs' = [jobs EXCEPT ![v] = j]
                 /\ j.id = jobs[v].id /\ j.held = jobs[v].held /\ j.late = jobs[v].late
    <3>1. CASE Act(v)
      <4>1. PICK u \in jobs[v].todo :
              jobs' = [jobs EXCEPT ![v] = [jobs[v] EXCEPT
                !.todo = jobs[v].todo \ {u},
                !.ok = jobs[v].ok \/ Place[u].method \in {"manual", "no-action"},
                !.error = jobs[v].error \/ Place[u].method = "rerun-template",
                !.at = IF Place[u].method \in Patching
                       THEN [place |-> u, file |-> [w \in FileOf(u) |-> has[w]]] ELSE None]]
        BY <3>1 DEF Act
      <4> DEFINE at == IF Place[u].method \in Patching
                       THEN [place |-> u, file |-> [w \in FileOf(u) |-> has[w]]] ELSE None
                 ok == jobs[v].ok \/ Place[u].method \in {"manual", "no-action"}
                 error == jobs[v].error \/ Place[u].method = "rerun-template"
                 j == [jobs[v] EXCEPT !.todo = jobs[v].todo \ {u}, !.ok = ok,
                                      !.error = error, !.at = at]
      <4>2. jobs' = [jobs EXCEPT ![v] = j]
        BY <4>1
      <4> HIDE DEF at, ok, error
      <4>3. j.id = jobs[v].id /\ j.held = jobs[v].held /\ j.late = jobs[v].late
        BY <2>1 DEF Job
      <4> QED BY <4>2, <4>3
    <3>2. CASE Patch(v)
      <4>1. PICK j : /\ jobs' = [jobs EXCEPT ![v] = j]
                     /\ j \in {[jobs[v] EXCEPT !.at = None, !.ok = TRUE],
                               [jobs[v] EXCEPT !.at = None, !.error = TRUE]}
        BY <3>2 DEF Patch
      <4>2. j.id = jobs[v].id /\ j.held = jobs[v].held /\ j.late = jobs[v].late
        BY <2>1, <4>1 DEF Job
      <4> QED BY <4>1, <4>2
    <3> QED BY <1>4, <3>1, <3>2
  <2>5. j \in {None} \cup Job
    <3>1. StacksTypeOK'
      BY <1>4, RefreshTypes
    <3>2. jobs'[v] = j
      BY <2>2 DEF StacksTypeOK
    <3> QED BY <3>1, <3>2 DEF StacksTypeOK
  <2>6. Current(j) /\ (j.held # None => j.held.era # 0)
    BY <2>1, <2>2 DEF Current, Stored, JobsAreCurrent, ObjectsAreShared
  <2> QED BY <1>1, <2>1, <2>2, <2>5, <2>6, JobStep
<1> QED BY <1>2, <1>3, <1>4

\* Whoever changes a stack overtakes the requests that hold it.
LEMMA OvertakenCurrent ==
    ASSUME StacksTypeOK, Stored, NEW ids, jobs' = Overtaken(ids),
           \A i \in Ids \ ids : stacks'[i] = stacks[i]
    PROVE  /\ JobsAreCurrent'
           /\ \A v \in Vars : jobs'[v] # None /\ jobs'[v].held # None =>
                                 jobs'[v].held.era # 0
<1>1. ASSUME NEW v \in Vars, jobs'[v] # None
      PROVE  /\ jobs[v] # None /\ jobs[v] \in Job
             /\ jobs'[v].id = jobs[v].id /\ jobs'[v].held = jobs[v].held
             /\ jobs'[v].late = IF jobs[v].id \in ids THEN jobs[v].held # None
                                ELSE jobs[v].late
  <2>1. jobs'[v] = IF jobs[v] # None /\ jobs[v].id \in ids
                   THEN [jobs[v] EXCEPT !.late = jobs[v].held # None] ELSE jobs[v]
    BY DEF Overtaken
  <2>2. jobs[v] # None /\ jobs[v] \in Job
    BY <1>1, <2>1 DEF StacksTypeOK
  <2> QED BY <2>1, <2>2 DEF Job
<1>2. ASSUME NEW v \in Vars, jobs'[v] # None
      PROVE  Current(jobs[v])'
  <2>1. jobs[v].id \in Ids /\ Current(jobs[v])
    BY <1>1, <1>2 DEF Job, Stored, JobsAreCurrent
  <2>2. CASE jobs[v].id \in ids
    BY <1>1, <1>2, <2>2 DEF Current
  <2>3. CASE jobs[v].id \notin ids
    BY <1>1, <1>2, <2>1, <2>3 DEF Current
  <2> QED BY <2>2, <2>3
<1>3. JobsAreCurrent'
  BY <1>1, <1>2 DEF JobsAreCurrent, Stored
<1> QED BY <1>1, <1>3 DEF Stored, ObjectsAreShared

\* A deletion, or a loss, while no save is under way.
LEMMA RemovedStore ==
    ASSUME StacksTypeOK, Stored, NEW ids, Removed(ids), UNCHANGED collects,
           \A s \in Senders : posts'[s] = None
    PROVE  Stored'
<1>1. /\ \A i \in Ids \ ids : stacks'[i] = stacks[i]
      /\ \A i \in Ids : stacks'[i] # None => stacks'[i] = stacks[i]
      /\ jobs' = Overtaken(ids)
  BY DEF Removed
<1>2. JobsAreCurrent' /\ ObjectsAreShared'
  BY <1>1, OvertakenCurrent DEF Stored, ObjectsAreShared
<1>3. AsWritten'
  BY DEF Removed, Stored, AsWritten, EntriesOf
<1> QED BY <1>2, <1>3 DEF Stored, SavesAreCurrent

LEMMA SaveWriteKeeps ==
    ASSUME StacksTypeOK, Stored, ~onHub, NEW s \in Senders, SaveWrite(s)
    PROVE  Stored'
<1> DEFINE body == posts[s].body
           id == body.name
           left == body.from \ {id}
           prior == EntriesOf(posts[s].prior)
           filled == Filled(body, prior, minted + 1)
           stack == [entries |-> filled, era |-> era + 1]
<1>1. /\ posts[s] # None /\ posts' = [posts EXCEPT ![s] = None]
      /\ UNCHANGED collects
  BY DEF SaveWrite
<1>2. posts[s] \in Post /\ body \in Body /\ id \in Ids /\ PriorId(body) \in Ids
  BY <1>1, PriorIdTypes DEF StacksTypeOK, Post, Body
<1>3. \A t \in Senders : posts'[t] = None
  BY <1>1 DEF Stored, SavesAreCurrent, StacksTypeOK
<1>4. CASE Removed(left)
  BY <1>1, <1>3, <1>4, RemovedStore
<1>5. CASE /\ stacks' = [i \in Ids |->
                  CASE i = id -> stack [] i \in left -> None [] OTHER -> stacks[i]]
           /\ wrote' = [i \in Ids |->
                  CASE i = id -> Filled(body, wrote[PriorId(body)], minted + 1)
                    [] i \in left -> None
                    [] OTHER -> wrote[i]]
           /\ jobs' = Overtaken(left \cup {id})
  <2>1. prior = wrote[PriorId(body)]
    BY <1>1, <1>2 DEF Stored, AsWritten, SavesAreCurrent
  <2>2. stack # None /\ stack.era # 0 /\ EntriesOf(stack) = filled
    <3>1. DOMAIN stack # DOMAIN None
      BY DEF None
    <3>2. era \in Nat
      BY DEF StacksTypeOK
    <3> QED BY <3>1, <3>2 DEF EntriesOf
  <2>3. Filled(body, wrote[PriorId(body)], minted + 1) = filled
    BY <2>1
  <2> HIDE DEF stack, filled, prior
  <2>4. AsWritten'
    BY <1>5, <2>2, <2>3 DEF Stored, AsWritten, EntriesOf
  <2>5. /\ \A i \in Ids \ (left \cup {id}) : stacks'[i] = stacks[i]
        /\ \A i \in Ids : stacks'[i] # None => stacks'[i].era # 0
    BY <1>5, <2>2 DEF Stored, ObjectsAreShared
  <2>6. JobsAreCurrent' /\ ObjectsAreShared'
    BY <1>1, <1>5, <2>5, OvertakenCurrent DEF Stored, ObjectsAreShared
  <2> QED BY <1>3, <2>4, <2>6 DEF Stored, SavesAreCurrent
<1> QED BY <1>4, <1>5 DEF SaveWrite

\* A save reads the stack that it is going to replace.
LEMMA ReceivedKeeps ==
    ASSUME Stored, ~onHub, NEW s \in Senders, NEW body, Received(s, body),
           posts \in [Senders -> {None} \cup Post], UNCHANGED <<stacks, wrote, jobs, collects>>
    PROVE  Stored'
<1> DEFINE prior == Read(PriorId(body))
<1>1. /\ \A t \in Senders : posts[t] = None
      /\ posts' = [posts EXCEPT ![s] = [body |-> body, prior |-> prior]]
  BY DEF Received, Free
<1>2. \A b : PriorId(b)' = PriorId(b)
  BY DEF PriorId
<1>3. prior = stacks[PriorId(body)]
  BY DEF Read
<1> HIDE DEF prior
<1>4. /\ posts'[s].body = body /\ posts'[s].prior = prior
      /\ \A t \in Senders \ {s} : posts'[t] = None
  BY <1>1
<1>5. SavesAreCurrent'
  BY <1>2, <1>3, <1>4 DEF SavesAreCurrent
<1> QED BY <1>5 DEF Stored, AsWritten, ObjectsAreShared, JobsAreCurrent, Current

\* The stored object gets the value, and so do all who hold it; a request that
\* was overtaken puts its own object into the store, and overtakes the others.
LEMMA EndRefreshKeeps ==
    ASSUME StacksTypeOK, Stored, ~onHub, NEW v \in Vars, EndRefresh(v)
    PROVE  Stored'
<1>1. /\ UNCHANGED <<posts, collects>> /\ \A s \in Senders : posts[s] = None
      /\ jobs[v] # None /\ jobs[v].held # None
  BY DEF EndRefresh, Free
<1>2. /\ jobs[v] \in Job /\ jobs[v].held \in Stack /\ Refreshed(v) \in Stack
      /\ Refreshed(v).entries = [jobs[v].held.entries EXCEPT ![v] = jobs[v].new]
      /\ Refreshed(v).era = jobs[v].held.era
  BY <1>1, RefreshedTypes
<1>3. SavesAreCurrent'
  BY <1>1 DEF SavesAreCurrent
<1>4. CASE ~jobs[v].ok
  <2>1. UNCHANGED <<stacks, wrote>> /\ jobs' = [jobs EXCEPT ![v] = None]
    BY <1>4 DEF EndRefresh
  <2> QED BY <1>1, <2>1, JobStep
<1>5. CASE jobs[v].ok
  <2>0. PICK id \in Ids : id = jobs[v].id
    BY <1>2 DEF Job
  <2>1. /\ stacks' = [stacks EXCEPT ![id] = Refreshed(v)]
        /\ wrote' = [wrote EXCEPT ![id] =
               IF jobs[v].late THEN Refreshed(v).entries ELSE [@ EXCEPT ![v] = jobs[v].new]]
        /\ jobs' = [w \in Vars |-> Beside(v, w)]
    BY <1>5, <2>0 DEF EndRefresh
  <2>2. /\ stacks'[id] = Refreshed(v) /\ Refreshed(v) # None
        /\ \A i \in Ids \ {id} : stacks'[i] = stacks[i]
    BY <1>2, <2>1, NoneIsNone DEF StacksTypeOK
  <2>3. jobs[v].held.era # 0 /\ (~jobs[v].late => stacks[id] = jobs[v].held)
    BY <1>1, <2>0 DEF Stored, ObjectsAreShared, JobsAreCurrent, Current
  <2>4. AsWritten'
    <3> SUFFICES ASSUME NEW i \in Ids PROVE EntriesOf(stacks'[i]) = wrote'[i]
      BY <2>1 DEF AsWritten, Stored
    <3>0. EntriesOf(stacks[i]) = wrote[i] /\ DOMAIN wrote = Ids
      BY DEF Stored, AsWritten
    <3>1. CASE i # id
      BY <2>1, <2>2, <3>0, <3>1
    <3>2. CASE i = id /\ jobs[v].late
      BY <2>1, <2>2, <3>0, <3>2 DEF EntriesOf
    <3>3. CASE i = id /\ ~jobs[v].late
      <4>1. wrote[id] = jobs[v].held.entries
        BY <1>1, <2>3, <3>0, <3>3 DEF EntriesOf
      <4> QED BY <1>2, <2>1, <2>2, <3>0, <3>3, <4>1 DEF EntriesOf
    <3> QED BY <3>1, <3>2, <3>3
  <2>5. ASSUME NEW w \in Vars, jobs'[w] # None
        PROVE  /\ jobs'[w].id = id
               /\ Current(jobs[w])'
               /\ jobs'[w].held # None => jobs'[w].held.era # 0
    <3>1. w # v /\ jobs[w] # None /\ jobs'[w] = Beside(v, w)
      BY <2>1, <2>5 DEF Beside
    <3>2. jobs[w].id = id /\ Current(jobs[w])
      BY <1>1, <2>0, <3>1 DEF Stored, JobsAreCurrent
    <3>3. CASE jobs[w].held = None
      BY <3>1, <3>2, <3>3 DEF Beside, Current
    <3>4. CASE jobs[w].held # None
      <4>1. /\ jobs'[w] \in Job /\ jobs'[w].id = jobs[w].id
            /\ jobs'[w].late = (jobs[w].late \/ jobs[v].late)
            /\ jobs'[w].held \in Stack /\ jobs'[w].held.era = jobs[w].held.era
            /\ jobs'[w].held.entries =
                  IF SameArray(v, w) THEN [jobs[w].held.entries EXCEPT ![v] = jobs[v].new]
                  ELSE jobs[w].held.entries
        BY <1>1, <3>1, <3>4, BesideTypes
      <4>2. ASSUME ~jobs'[w].late PROVE stacks'[id] = jobs'[w].held
        <5>1. jobs[w].held = jobs[v].held
          BY <2>3, <3>2, <3>4, <4>1, <4>2 DEF Current
        <5>2. SameArray(v, w)
          BY <2>3, <5>1 DEF SameArray
        <5>3. /\ jobs'[w].held.entries = Refreshed(v).entries
              /\ jobs'[w].held.era = Refreshed(v).era
          BY <1>2, <4>1, <5>1, <5>2
        <5>4. \A x, y \in Stack : x.entries = y.entries /\ x.era = y.era => x = y
          BY DEF Stack
        <5> QED BY <1>2, <2>2, <4>1, <5>3, <5>4
      <4> QED BY <3>1, <3>2, <3>4, <4>1, <4>2 DEF Current, Stored, ObjectsAreShared
    <3> QED BY <3>3, <3>4
  <2>6. JobsAreCurrent'
    BY <2>5 DEF JobsAreCurrent
  <2>7. ObjectsAreShared'
    BY <1>1, <1>2, <2>2, <2>3, <2>5 DEF Stored, ObjectsAreShared
  <2> QED BY <1>3, <2>4, <2>6, <2>7 DEF Stored
<1> QED BY <1>4, <1>5

LEMMA StoreStep ==
    ASSUME CommandLineTypeOK, StoreInv, [CommandLineNext]_everything
    PROVE  StoreInv'
<1>1. UNCHANGED onHub /\ StacksTypeOK
  BY DEF CommandLineNext, StacksNext, everything, stackVars, kind, Load, SaveRead,
     SaveWrite, Delete, StartRefresh, ReadForRefresh, Act, Patch, EndRefresh, Install,
     Installed, StoreProvides, Power, LoseStore, StartScan, ScanHost, EndScan, Fetch,
     UseFound, RefuseEmptyAutoCreate, PostCreateStack, Created, Validate, Submit, Abort,
     CommandLineTypeOK
<1> SUFFICES ASSUME ~onHub PROVE Stored'
  BY <1>1 DEF StoreInv
<1>2. Stored
  BY DEF StoreInv
<1>3. CASE \/ UNCHANGED stackVars
           \/ \E p \in Pages : Load(p) \/ StartScan(p)
           \/ \E c \in Containers : Install(c) \/ Power(c)
           \/ \E k \in Clients : Fetch(k)
           \/ ScanHost \/ EndScan
  <2>1. UNCHANGED <<stacks, wrote, posts, jobs, collects>>
    BY <1>3 DEF stackVars, store, Load, StartScan, Install, Power, Fetch, ScanHost, EndScan
  <2> QED BY <1>2, <2>1, QuietStore
<1>4. ASSUME NEW c \in Containers, Installed(c) \/ StoreProvides(c) PROVE Stored'
  <2>1. collects[c] = None
    BY <1>2 DEF Stored, ObjectsAreShared
  <2>2. Installed(c) /\ collects' = collects
    BY <1>1, <1>4, <2>1 DEF StoreProvides, Installed, StacksTypeOK
  <2>3. UNCHANGED <<stacks, wrote, posts, jobs, collects>>
    BY <2>2 DEF Installed, store
  <2> QED BY <1>2, <2>3, QuietStore
<1>5. CASE Delete \/ LoseStore
  <2>1. PICK ids : Removed(ids)
    BY <1>5 DEF Delete, LoseStore
  <2>2. UNCHANGED <<posts, collects>> /\ \A s \in Senders : posts[s] = None
    BY <1>5 DEF Delete, LoseStore, Free
  <2> QED BY <1>1, <1>2, <2>1, <2>2, RemovedStore
<1>6. ASSUME NEW p \in Pages, SaveRead(p) PROVE Stored'
  <2>1. UNCHANGED <<stacks, wrote, jobs, collects>> /\ \E body : Received(p, body)
    BY <1>6 DEF SaveRead, store
  <2> QED BY <1>1, <1>2, <2>1, ReceivedKeeps DEF StacksTypeOK, Senders
<1>7. ASSUME NEW k \in Clients, PostCreateStack(k) PROVE Stored'
  <2>1. UNCHANGED <<stacks, wrote, jobs, collects>> /\ \E body : Received(k, body)
    BY <1>7 DEF PostCreateStack, store
  <2> QED BY <1>1, <1>2, <2>1, ReceivedKeeps DEF StacksTypeOK, Senders
<1>8. CASE StacksNext
  BY <1>1, <1>2, <1>3, <1>4, <1>5, <1>6, <1>8, SaveWriteKeeps, RefreshKeeps, EndRefreshKeeps
     DEF StacksNext
<1>9. ASSUME NEW k \in Clients,
             \/ UseFound(k) \/ RefuseEmptyAutoCreate(k) \/ Validate(k) \/ Abort(k)
             \/ Created(k) \/ Submit(k)
      PROVE  Stored'
  <2>1. \/ UNCHANGED stackVars
        \/ SaveWrite(k)
        \/ \E c \in Containers : Install(c)
    BY <1>9 DEF UseFound, RefuseEmptyAutoCreate, Validate, Abort, Created, Submit
  <2> QED BY <1>1, <1>2, <1>3, <2>1, SaveWriteKeeps DEF Senders
<1>10. CASE UNCHANGED everything
  BY <1>3, <1>10 DEF everything
<1> QED BY <1>3, <1>7, <1>8, <1>9, <1>10 DEF CommandLineNext

(* On the deployer, however many tabs, clients, containers and hosts there   *)
(* are, a stack is what was written to it: requests share the stored object, *)
(* and a save replaces what it read in the same turn; only a refresh that    *)
(* somebody overtook writes all that it had read                             *)
(* (webapp-stack-routes.mts:81-155, webapp-stack-refresh-routes.mts:75-131). *)
THEOREM StoreHoldsWhatWasWritten == CommandLineSpec => []StoredAsWritten
<1>1. CommandLineInit => StoreInv
  <2> SUFFICES ASSUME StacksInit PROVE StoreInv
    BY DEF CommandLineInit
  <2>1. AsWritten /\ SavesAreCurrent /\ JobsAreCurrent
    BY DEF StacksInit, AsWritten, SavesAreCurrent, JobsAreCurrent
  <2>2. ObjectsAreShared
    BY DEF StacksInit, ObjectsAreShared
  <2> QED BY <2>1, <2>2 DEF StoreInv, Stored
<1>2. CommandLineTypeOK /\ StoreInv /\ [CommandLineNext]_everything => StoreInv'
  BY StoreStep
<1>3. StoreInv => StoredAsWritten
  BY DEF StoreInv, Stored, AsWritten, StoredAsWritten
<1> QED BY <1>1, <1>2, <1>3, ShapesStay, PTL DEF CommandLineSpec
=============================================================================

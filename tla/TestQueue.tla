----------------------------- MODULE TestQueue -----------------------------
(***************************************************************************)
(* The live-test queue of the deployer: one in-memory queue of scenarios   *)
(* served over HTTP (backend/src/webapp/webapp-test-queue-routes.mts), and *)
(* the worker processes that drain it (backend/tests/livetests/src/        *)
(* queue-worker.mts).  A handler has no await, so it is one atomic action; *)
(* a worker may die at any point between two requests, and the deployer    *)
(* may restart and lose the queue.                                         *)
(*                                                                         *)
(* Scenarios are numbered in the order buildQueue puts them, so "the first *)
(* ready entry" is the smallest ready number.                              *)
(***************************************************************************)
EXTENDS Naturals, FiniteSets

CONSTANTS
    NScenarios,    \* number of test scenarios the deployer knows
    Deps,          \* depends_on of each scenario
    Worker,        \* worker processes
    Filters,       \* the scenario filters an operator may initialise with
    MaxCrashes,    \* bound: workers that may die
    MaxRestarts    \* bound: restarts of the deployer process

Scenario == 1 .. NScenarios

ASSUME SizesAssumption ==
    /\ NScenarios \in Nat
    /\ MaxCrashes \in Nat
    /\ MaxRestarts \in Nat

ASSUME DepsAssumption == Deps \in [Scenario -> SUBSET Scenario]

ASSUME FiltersAssumption == Filters \subseteq SUBSET Scenario

\* cascadeFail recurses without a visited set: it returns only when no
\* scenario depends on itself.
ASSUME DepsAcyclic ==
    \A C \in SUBSET Scenario :
        C # {} => \E s \in C : Deps[s] \cap C = {}

VARIABLES
    initialized,   \* the module-level flag
    inQueue,       \* the scenarios buildQueue took over
    status,        \* status of each queue entry
    pc,            \* where each worker is in its loop
    job,           \* the scenario a worker was handed last
    ownFailure,    \* history: scenarios a worker reported as failed
    crashes, restarts

vars == <<initialized, inQueue, status, pc, job, ownFailure, crashes, restarts>>

Statuses == {"pending", "running", "completed", "failed"}
Labels   == {"start", "ask", "work", "passed", "broken", "stopped", "dead"}
NoJob    == 0

\* Every variable has the type the code gives it.
TypeOK ==
    /\ initialized \in BOOLEAN
    /\ inQueue \in SUBSET Scenario
    /\ status \in [Scenario -> Statuses]
    /\ pc \in [Worker -> Labels]
    /\ job \in [Worker -> Scenario \cup {NoJob}]
    /\ ownFailure \in SUBSET Scenario
    /\ crashes \in 0 .. MaxCrashes
    /\ restarts \in 0 .. MaxRestarts

----------------------------------------------------------------------------
(* Queries over the queue                                                  *)

Having(st) == {s \in inQueue : status[s] = st}

\* Mutant: deps.some instead of deps.every.
AreDepsCompleted_Some(s) ==
    Deps[s] = {} \/ Deps[s] \cap Having("completed") # {}

\* A dependency that is not in the queue at all is never "completed".
AreDepsCompleted(s) == Deps[s] \subseteq Having("completed")

Ready == {s \in Having("pending") : AreDepsCompleted(s)}

IsFirst(s, S) == s \in S /\ \A t \in S : s <= t

DependsOn(s, S) == Deps[s] \cap S # {}

\* Mutant: every entry that is not ready fails.
Cascade_AllBlocked(id) == Having("pending") \ Ready

\* The pending entries reached from id through pending entries: the least
\* set of pending entries that holds the dependents of id and of its members.
Cascade(id) ==
    {s \in Having("pending") :
        \A C \in SUBSET Having("pending") :
            (\A t \in Having("pending") : DependsOn(t, C \cup {id}) => t \in C)
                => s \in C}

----------------------------------------------------------------------------
Init ==
    /\ initialized = FALSE
    /\ inQueue = {}
    /\ status = [s \in Scenario |-> "pending"]
    /\ pc = [w \in Worker |-> "start"]
    /\ job = [w \in Worker |-> NoJob]
    /\ ownFailure = {}
    /\ crashes = 0
    /\ restarts = 0

\* POST /api/test-queue/init: builds the queue once, later calls only read it.
InitQueue(wanted) ==
    /\ initialized' = TRUE
    /\ inQueue' = IF initialized THEN inQueue ELSE wanted

OperatorInit(f) ==
    /\ InitQueue(IF f = {} THEN Scenario ELSE f)
    /\ UNCHANGED <<status, pc, job, ownFailure, crashes, restarts>>

WorkerInit(w) ==
    /\ pc[w] = "start"
    /\ InitQueue(Scenario)
    /\ pc' = [pc EXCEPT ![w] = "ask"]
    /\ UNCHANGED <<status, job, ownFailure, crashes, restarts>>

\* Mutant: the entry is handed out without becoming "running".
NextScenario_NotMarked(w, s) ==
    /\ pc[w] = "ask"
    /\ initialized
    /\ IsFirst(s, Ready)
    /\ job' = [job EXCEPT ![w] = s]
    /\ pc' = [pc EXCEPT ![w] = "work"]
    /\ UNCHANGED <<initialized, inQueue, status, ownFailure, crashes, restarts>>

\* GET /api/test-queue/next with a ready entry.
NextScenario(w, s) ==
    /\ pc[w] = "ask"
    /\ initialized
    /\ IsFirst(s, Ready)
    /\ status' = [status EXCEPT ![s] = "running"]
    /\ job' = [job EXCEPT ![w] = s]
    /\ pc' = [pc EXCEPT ![w] = "work"]
    /\ UNCHANGED <<initialized, inQueue, ownFailure, crashes, restarts>>

\* The same request, its answer lost: the entry is handed out, the worker's
\* fetch throws and ends the process.
NextAnswerLost(w, s) ==
    /\ pc[w] = "ask"
    /\ initialized
    /\ IsFirst(s, Ready)
    /\ crashes < MaxCrashes
    /\ crashes' = crashes + 1
    /\ status' = [status EXCEPT ![s] = "running"]
    /\ pc' = [pc EXCEPT ![w] = "dead"]
    /\ UNCHANGED <<initialized, inQueue, job, ownFailure, restarts>>

\* Mutant: done as soon as nothing is ready.
NextDone_NothingReady(w) ==
    /\ pc[w] = "ask"
    /\ initialized
    /\ Ready = {}
    /\ pc' = [pc EXCEPT ![w] = "stopped"]
    /\ UNCHANGED <<initialized, inQueue, status, job, ownFailure, crashes, restarts>>

\* {done: true}; {wait: true} leaves the worker asking again.
NextDone(w) ==
    /\ pc[w] = "ask"
    /\ initialized
    /\ Having("pending") \cup Having("running") = {}
    /\ pc' = [pc EXCEPT ![w] = "stopped"]
    /\ UNCHANGED <<initialized, inQueue, status, job, ownFailure, crashes, restarts>>

\* 400 "Queue not initialized": the answer has no scenario, the worker throws.
NextRefused(w) ==
    /\ pc[w] = "ask"
    /\ ~initialized
    /\ pc' = [pc EXCEPT ![w] = "dead"]
    /\ UNCHANGED <<initialized, inQueue, status, job, ownFailure, crashes, restarts>>

\* The deployment and its verification end.
RunScenario(w) ==
    /\ pc[w] = "work"
    /\ \E verdict \in {"passed", "broken"} : pc' = [pc EXCEPT ![w] = verdict]
    /\ UNCHANGED <<initialized, inQueue, status, job, ownFailure, crashes, restarts>>

\* POST complete: sets the status whatever it was; 404 when the entry is gone.
ReportComplete(w) ==
    /\ pc[w] = "passed"
    /\ status' = IF job[w] \in inQueue
                 THEN [status EXCEPT ![job[w]] = "completed"]
                 ELSE status
    /\ pc' = [pc EXCEPT ![w] = "ask"]
    /\ UNCHANGED <<initialized, inQueue, job, ownFailure, crashes, restarts>>

\* POST fail: the entry, then every pending entry that transitively needs it.
ReportFail(w) ==
    /\ pc[w] = "broken"
    /\ IF job[w] \in inQueue
       THEN /\ status' = [s \in Scenario |->
                            IF s = job[w] \/ s \in Cascade(job[w])
                            THEN "failed" ELSE status[s]]
            /\ ownFailure' = ownFailure \cup {job[w]}
       ELSE UNCHANGED <<status, ownFailure>>
    /\ pc' = [pc EXCEPT ![w] = "ask"]
    /\ UNCHANGED <<initialized, inQueue, job, crashes, restarts>>

\* A request that throws (10 s timeout, connection refused) or a killed process.
WorkerDies(w) ==
    /\ pc[w] \notin {"stopped", "dead"}
    /\ crashes < MaxCrashes
    /\ crashes' = crashes + 1
    /\ pc' = [pc EXCEPT ![w] = "dead"]
    /\ UNCHANGED <<initialized, inQueue, status, job, ownFailure, restarts>>

\* The queue lives in module variables of the deployer process.
DeployerRestarts ==
    /\ restarts < MaxRestarts
    /\ restarts' = restarts + 1
    /\ initialized' = FALSE
    /\ inQueue' = {}
    /\ status' = [s \in Scenario |-> "pending"]
    /\ ownFailure' = {}
    /\ UNCHANGED <<pc, job, crashes>>

WorkerStep(w) ==
    \/ WorkerInit(w)
    \/ \E s \in Scenario : NextScenario(w, s)
    \/ NextDone(w)
    \/ NextRefused(w)
    \/ RunScenario(w)
    \/ ReportComplete(w)
    \/ ReportFail(w)

Next ==
    \/ \E f \in Filters : OperatorInit(f)
    \/ \E w \in Worker :
        \/ WorkerStep(w)
        \/ WorkerDies(w)
        \/ \E s \in Scenario : NextAnswerLost(w, s)
    \/ DeployerRestarts

\* A worker that is alive takes its next step: its loop never blocks.
Fairness == \A w \in Worker : WF_vars(WorkerStep(w))

Spec == Init /\ [][Next]_vars
FairSpec == Spec /\ Fairness

----------------------------------------------------------------------------
(* Properties                                                              *)

Busy(w) == pc[w] \in {"work", "passed", "broken"}

\* Two workers never hold the same scenario, so never the same VM id and
\* hostname (queue-worker.mts destroys whatever runs at the VM id it is
\* handed).  Holds as long as the deployer is not restarted under its workers.
ExclusiveRun ==
    restarts = 0 =>
        \A w1, w2 \in Worker :
            Busy(w1) /\ Busy(w2) /\ job[w1] = job[w2] => w1 = w2

\* A scenario that is running or done still has all its dependencies completed:
\* no late report takes a dependency back from under it.
DepsStayCompleted ==
    restarts = 0 =>
        \A s \in Having("running") \cup Having("completed") : Deps[s] \subseteq Having("completed")

\* No entry waits for a dependency that has failed ...
NobodyWaitsForAFailure ==
    \A s \in Having("pending") : ~ DependsOn(s, Having("failed"))

\* ... and within one lifetime of the deployer an entry failed by its own run or
\* because one of its dependencies did.
FailuresHaveACause ==
    restarts = 0 =>
        \A s \in Having("failed") :
            s \in ownFailure \/ DependsOn(s, Having("failed"))

\* cascadeFail (queue.mts) misses nobody and takes nobody else.
FailuresSpreadExactly == NobodyWaitsForAFailure /\ FailuresHaveACause

\* The scenarios that can no longer settle: handed to a worker that died, or
\* waiting, directly or not, for one of those or for a filtered-out dependency.
Stuck ==
    {s \in inQueue :
        \A C \in SUBSET inQueue :
            (\A t \in inQueue :
                \/ status[t] = "running" /\ ~ \E w \in Worker : Busy(w) /\ job[w] = t
                \/ status[t] = "pending" /\ DependsOn(t, C \cup (Scenario \ inQueue))
                => t \in C)
            => s \in C}

\* Losing a worker costs its own scenario and what waits for it, nothing else:
\* in the end every entry is settled or Stuck.  (One deployer lifetime, and a
\* worker left alive.)
EverythingElseSettles ==
    <>[](\/ restarts > 0
         \/ /\ initialized
            /\ inQueue = Having("completed") \cup Having("failed") \cup Stuck)

=============================================================================

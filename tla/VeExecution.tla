---------------------------- MODULE VeExecution ----------------------------
(***************************************************************************)
(* One deployment task: the chain of runs VeExecution.run makes over a     *)
(* command list (backend/src/ve-execution/ve-execution.mts), the restart   *)
(* info each run leaves behind (ve-execution-state-manager.mts,            *)
(* webapp-ve-restart-manager.mts) and the two ways a client has of trying  *)
(* again (handleVeRestart and handleVeRestartInstallation in               *)
(* webapp-ve-route-handlers.mts).                                          *)
(*                                                                         *)
(* Lists are numbered from 1, so `last' is the code's lastSuccessfull + 1: *)
(* 0 is the fallback restart info, NoResult a run that returned undefined. *)
(***************************************************************************)
EXTENDS Integers, Sequences, FiniteSets

CONSTANTS
    Command,       \* identities of commands
    Kind,          \* how the loop treats a command
    Host,          \* execute_on "host:<name>" of a command, or NoHost
    Gives,         \* the outputs a command's script may print
    Planned,       \* the list handleVeConfiguration builds (with addons)
    Reloaded,      \* the list handleVeRestart loads (application only)
    NoHost,
    Replaces,      \* inputs hold a previous_vm_id other than vm_id
    MaxAttempts    \* bound: runs of one task

Output == {"vm_id", "started", "switchover_scheduled"}
Kinds  == {"skipped", "properties", "empty", "script"}

ASSUME ListsAssumption ==
    /\ Planned \in Seq(Command) /\ Len(Planned) > 0
    /\ Reloaded \in Seq(Command)

ASSUME CommandAssumption ==
    /\ Kind \in [Command -> Kinds]
    /\ Gives \in [Command -> SUBSET Output]
    /\ DOMAIN Host = Command

ASSUME ModeAssumption ==
    /\ Replaces \in BOOLEAN
    /\ MaxAttempts \in Nat \ {0}

VARIABLES
    phase,      \* idle, loop, over
    attempt,    \* number of the current run, 0 before the first
    list,       \* this.commands of the current run
    start,      \* startIdx of the current run
    i,          \* the loop variable
    last,       \* lastSuccessfull of rcRestartInfo, or NoResult
    outputs,    \* names in the outputs map
    infos,      \* restart info stored per run (its restartKey)
    base,       \* the restart info this run falls back to
    verdict,    \* the closing message of the current run
    rolledBack, \* the rollback script ran in this run
    failing,    \* history: commands that failed in this run
    done        \* history: commands carried out here or handed to the
                \* nested run on their host, in any run

vars == <<phase, attempt, list, start, i, last, outputs, infos, base,
          verdict, rolledBack, failing, done>>

NoResult == -1
Attempts == 1 .. MaxAttempts
Verdicts == {"none", "Completed", "Failed"}
Info     == [last : Nat, outputs : SUBSET Output]
NoInfo   == [last |-> NoResult, outputs |-> {}]
Fallback == [last |-> 0, outputs |-> {}]

\* Every variable has the type the code gives it.
TypeOK ==
    /\ phase \in {"idle", "loop", "over"}
    /\ attempt \in 0 .. MaxAttempts
    /\ list \in {Planned, Reloaded}
    /\ start \in Nat \ {0}
    /\ i \in Nat \ {0}
    /\ last \in Nat \cup {NoResult}
    /\ outputs \in SUBSET Output
    /\ infos \in [Attempts -> Info \cup {NoInfo}]
    /\ base \in Info
    /\ verdict \in Verdicts
    /\ rolledBack \in BOOLEAN
    /\ failing \in SUBSET Command
    /\ done \in SUBSET Command

----------------------------------------------------------------------------
Cmd == list[i]

InLoop == phase = "loop" /\ i <= Len(list)

Plain(kind) == InLoop /\ Host[Cmd] = NoHost /\ Kind[Cmd] = kind

\* The last of the consecutive commands with the execute_on of command i.
IsGroupEnd(j) ==
    /\ j \in i .. Len(list)
    /\ \A k \in i .. j : Host[list[k]] = Host[Cmd]
    /\ j = Len(list) \/ Host[list[j + 1]] # Host[Cmd]

Slice(a, b) == {list[k] : k \in a .. b}

\* The positions 1 .. n are behind the task: up to some m commands of the list
\* it began with, from there commands of the list its restarts load.
Behind(n) ==
    \E m \in 0 .. n :
        /\ m <= Len(Planned)
        /\ m < n => n <= Len(Reloaded)
        /\ {Planned[k] : k \in 1 .. m} \cup {Reloaded[k] : k \in m + 1 .. n} \subseteq done

\* Leaving the loop at command i: the result stays undefined when this run's
\* first command failed.
ResultAtFailure == IF i > start THEN i - 1 ELSE last

----------------------------------------------------------------------------
Init ==
    /\ phase = "idle"
    /\ attempt = 0
    /\ list = Planned
    /\ start = 1
    /\ i = 1
    /\ last = NoResult
    /\ outputs = {}
    /\ infos = [a \in Attempts |-> NoInfo]
    /\ base = Fallback
    /\ verdict = "none"
    /\ rolledBack = FALSE
    /\ failing = {}
    /\ done = {}

\* restoreStateFromRestartInfo and the locals of run().
StartRun(commands, info) ==
    /\ phase # "loop"
    /\ attempt < MaxAttempts
    /\ attempt' = attempt + 1
    /\ phase' = "loop"
    /\ list' = commands
    /\ start' = info.last + 1
    /\ i' = info.last + 1
    /\ last' = NoResult
    /\ outputs' = info.outputs
    /\ base' = info
    /\ verdict' = "none"
    /\ rolledBack' = FALSE
    /\ failing' = {}
    /\ UNCHANGED <<infos, done>>

\* POST /api/ve-configuration.
Configure == attempt = 0 /\ StartRun(Planned, Fallback)

\* POST /api/ve/restart/:restartKey: any key whose info is stored will do,
\* that of a completed run included.
Restart(a) ==
    /\ phase = "over"
    /\ infos[a] # NoInfo
    /\ StartRun(Reloaded, infos[a])

\* POST /api/ve/restart-installation: the application list from the top.
RestartInstallation ==
    /\ phase = "over"
    /\ StartRun(Reloaded, Fallback)

----------------------------------------------------------------------------
(* One iteration of the loop                                               *)

Advance(j) ==
    /\ last' = j
    /\ i' = j + 1

\* Mutant: the loop variable stays where it is.
StepSkipped_Stays ==
    /\ Plain("skipped") \/ Plain("empty")
    /\ last' = i
    /\ done' = done \cup {Cmd}
    /\ UNCHANGED <<phase, attempt, list, start, i, outputs, infos, base,
                   verdict, rolledBack, failing>>

\* "(skipped)" commands and commands without content produce no effect.
StepSkipped ==
    /\ Plain("skipped") \/ Plain("empty")
    /\ Advance(i)
    /\ done' = done \cup {Cmd}
    /\ UNCHANGED <<phase, attempt, list, start, outputs, infos, base, verdict,
                   rolledBack, failing>>

\* properties become outputs without running anything.
StepProperties ==
    /\ Plain("properties")
    /\ outputs' = outputs \cup Gives[Cmd]
    /\ Advance(i)
    /\ done' = done \cup {Cmd}
    /\ UNCHANGED <<phase, attempt, list, start, infos, base, verdict,
                   rolledBack, failing>>

\* A script that exits 0.  A scheduled switchover ends the loop: the commands
\* left are reported as skipped and the whole list counts as done.
StepScript ==
    /\ Plain("script")
    /\ \E g \in SUBSET Gives[Cmd] : outputs' = outputs \cup g
    /\ IF "switchover_scheduled" \in outputs'
       THEN /\ Advance(Len(list))
            /\ done' = done \cup Slice(i, Len(list))
       ELSE /\ Advance(i)
            /\ done' = done \cup {Cmd}
    /\ UNCHANGED <<phase, attempt, list, start, infos, base, verdict,
                   rolledBack, failing>>

\* Mutant: the loop goes on after a failure.
Break_GoesOn ==
    /\ last' = ResultAtFailure
    /\ i' = i + 1
    /\ failing' = failing \cup {Cmd}
    /\ UNCHANGED <<phase, attempt, list, start, infos, base, verdict,
                   rolledBack, done>>

\* A script that fails (what it printed is parsed all the same) or cannot be
\* sent, a host whose VM context is unknown: error message and break.
Break ==
    /\ last' = ResultAtFailure
    /\ i' = Len(list) + 1
    /\ failing' = failing \cup {Cmd}
    /\ UNCHANGED <<phase, attempt, list, start, infos, base, verdict,
                   rolledBack, done>>

ScriptFails ==
    /\ Plain("script")
    /\ \E g \in SUBSET Gives[Cmd] : outputs' = outputs \cup g
    /\ Break

HostUnknown ==
    /\ InLoop
    /\ Host[Cmd] # NoHost
    /\ UNCHANGED outputs
    /\ Break

\* executeTemplateOnHost: the consecutive commands of one host run as a nested
\* VeExecution, up to the first that fails.  The nested run never throws and
\* its result is not read.  It runs its scripts with the runOnLxc of this run,
\* so what they print becomes an output here; a switchover is not looked for.
StepHost(j) ==
    LET scripts == {d \in Slice(i, j) : Kind[d] = "script"} IN
    /\ InLoop
    /\ Host[Cmd] # NoHost
    /\ IsGroupEnd(j)
    /\ Advance(j)
    /\ done' = done \cup Slice(i, j)
    /\ failing' \in {failing} \cup {failing \cup {c} : c \in scripts}
    /\ \E g \in SUBSET UNION {Gives[d] : d \in scripts} : outputs' = outputs \cup g
    /\ UNCHANGED <<phase, attempt, list, start, infos, base, verdict, rolledBack>>

----------------------------------------------------------------------------
(* Behind the loop: the verdicts, the rollback, the stored restart info      *)

RollbackTarget ==
    /\ "started" \in outputs
    /\ "switchover_scheduled" \notin outputs
    /\ Replaces

\* Mutant: a restart that fails at once falls back to the very beginning.
Store_FromScratch ==
    infos' = [infos EXCEPT ![attempt] =
                IF last # NoResult THEN [last |-> last, outputs |-> outputs] ELSE Fallback]

\* setupExecutionResultHandlers and setupRestartExecutionResultHandlers.
Store ==
    infos' = [infos EXCEPT ![attempt] =
                IF last # NoResult THEN [last |-> last, outputs |-> outputs] ELSE base]

\* Mutant: any result will do, wherever it stands.
AllSuccessful_AnyResult == last # NoResult

AllSuccessful == last = Len(list)

\* The closing message is "Completed".
FinishCompleted ==
    /\ phase = "loop"
    /\ i > Len(list)
    /\ AllSuccessful
    /\ phase' = "over"
    /\ verdict' = "Completed"
    /\ Store
    /\ UNCHANGED <<attempt, list, start, i, last, outputs, base, rolledBack,
                   failing, done>>

\* Anything else: rollbackFailedReplacement, then "Failed".
FinishFailed ==
    /\ phase = "loop"
    /\ i > Len(list)
    /\ ~AllSuccessful
    /\ phase' = "over"
    /\ rolledBack' = RollbackTarget
    /\ verdict' = "Failed"
    /\ Store
    /\ UNCHANGED <<attempt, list, start, i, last, outputs, base, failing, done>>

Run ==
    \/ StepSkipped
    \/ StepProperties
    \/ StepScript
    \/ ScriptFails
    \/ HostUnknown
    \/ \E j \in 1 .. Len(list) : StepHost(j)
    \/ FinishCompleted
    \/ FinishFailed

Next ==
    \/ Configure
    \/ \E a \in Attempts : Restart(a)
    \/ RestartInstallation
    \/ Run

\* Every script ends: the SSH executor kills it on its idle and hard timeouts.
Fairness == WF_vars(Run)

Spec == Init /\ [][Next]_vars /\ Fairness

----------------------------------------------------------------------------
(* Properties                                                              *)

\* A command is carried out (or handed over) only after everything its run has
\* before it in the list and with the positions before the run behind the task,
\* however often it failed and was restarted on the way.
InOrder ==
    [][\A k \in 1 .. Len(list) :
          list[k] \in done' \ done =>
              /\ \A m \in start .. k - 1 : list[m] \in done'
              /\ Behind(start - 1)]_vars

\* "Completed" means every command of the list has been carried out, or handed
\* to the host it names; what a restart passed over was position by position
\* behind the task, in the list it began with or the one restarts load.
CompletedMeansDone ==
    verdict = "Completed" => Slice(start, Len(list)) \subseteq done /\ Behind(start - 1)

\* "Failed" means a command of this very run failed, unless it is the restart
\* of a run that had already reached the end of the list.
FailedMeansFailure ==
    verdict = "Failed" => failing # {} \/ start > Len(list)

\* The verdict, a comparison of two indices (ve-execution.mts:849), is earned
\* by what the run really did.
VerdictIsEarned == CompletedMeansDone /\ FailedMeansFailure

\* A restart that fails at once leaves the progress it started from.
ProgressKept ==
    phase = "over" => infos[attempt].last >= base.last

\* Each run ends with a verdict, so a polling client is released.
RunEnds == phase = "loop" ~> phase = "over"

\* The task keeps the promise of TaskPromise.
Promise == INSTANCE TaskPromise WITH
    outcome <- verdict,
    from    <- start,
    reached <- {infos[a].last : a \in {b \in Attempts : infos[b] # NoInfo}}
KeepsPromise == Promise!Spec

=============================================================================

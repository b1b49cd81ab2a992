----------------------------- MODULE Task_proofs -----------------------------
(* Two parts. A task carries the commands of each of its runs out in order, *)
(* says "Completed" only when all of them are, and keeps the promise of     *)
(* TaskPromise, for every list it begins with, every list its restarts load *)
(* and any number of restarts. And whoever follows a task, by polling or by *)
(* an event stream, on its deployer, on a clone's mirror or on a successor, *)
(* learns the task's own verdict, for every number of commands and messages. *)
EXTENDS VeExecution, ProcessMonitor, SequenceTheorems, WellFoundedInduction, TLAPS

\* Where the loop stands: either nothing of this run is done yet, or the
\* result names the command before the loop variable.
LoopPosition ==
    phase = "loop" /\ i <= Len(list) =>
        \/ i = start /\ last = NoResult
        \/ i > start /\ last = i - 1

\* The first run follows the list the task begins with, from its top.
ListKnown == list = Reloaded \/ (list = Planned /\ base.last = 0)

\* A run leaves its restart info when it ends, not before.
Unstored ==
    /\ phase = "idle" => list = Planned /\ start = 1
    /\ phase = "loop" => \A a \in Attempts : a >= attempt => infos[a] = NoInfo
    /\ phase # "loop" => \A a \in Attempts : a > attempt => infos[a] = NoInfo

\* The results kept anywhere name positions that are behind the task, and this
\* run has carried out what it has a result for.
ResultsReached ==
    /\ start = base.last + 1
    /\ Behind(base.last)
    /\ last # NoResult =>
          last \in start .. Len(list) /\ \A k \in start .. last : list[k] \in done
    /\ \A a \in Attempts : infos[a] # NoInfo => Behind(infos[a].last)

\* A run in progress has no verdict, one that is over has.
VerdictGiven ==
    /\ phase = "idle" <=> attempt = 0
    /\ phase # "over" => verdict = "none"
    /\ phase = "over" => /\ verdict # "none"
                         /\ verdict = "Completed" => last = Len(list)

IInv ==
    /\ TypeOK
    /\ ListKnown
    /\ LoopPosition
    /\ ResultsReached
    /\ VerdictGiven
    /\ Unstored

LEMMA PlannedTyped ==
    /\ Len(Planned) \in Nat \ {0}
    /\ \A k \in 1 .. Len(Planned) : Planned[k] \in Command
BY ListsAssumption

(* The state has its types whatever is reloaded. *)
LEMMA TypeInit == Init => TypeOK
<1> SUFFICES ASSUME Init PROVE TypeOK
  OBVIOUS
<1>1. 0 \in 0 .. MaxAttempts /\ Fallback \in Info
  BY ModeAssumption DEF Fallback, Info
<1>2. infos \in [Attempts -> Info \cup {NoInfo}] /\ verdict \in Verdicts
  BY DEF Init, Verdicts
<1>3. start \in Nat \ {0} /\ i \in Nat \ {0} /\ last \in Nat \cup {NoResult}
  BY DEF Init
<1> QED BY <1>1, <1>2, <1>3 DEF Init, TypeOK, Verdicts

LEMMA RunTyped ==
    ASSUME TypeOK, NEW c \in {Planned, Reloaded}, NEW info \in Info, StartRun(c, info)
    PROVE  TypeOK'
<1>1. attempt' \in 0 .. MaxAttempts
  BY ModeAssumption DEF StartRun, TypeOK
<1>2. info.last + 1 \in Nat \ {0} /\ info.outputs \in SUBSET Output
  BY DEF Info
<1>3. /\ phase' \in {"idle", "loop", "over"} /\ list' \in {Planned, Reloaded}
      /\ start' \in Nat \ {0} /\ i' \in Nat \ {0} /\ last' \in Nat \cup {NoResult}
      /\ outputs' \in SUBSET Output /\ base' \in Info
  BY <1>2 DEF StartRun
<1>4. /\ infos' = infos /\ verdict' \in Verdicts /\ done' = done
      /\ rolledBack' \in BOOLEAN /\ failing' = {}
  BY DEF StartRun, Verdicts
<1> QED BY <1>1, <1>3, <1>4 DEF TypeOK

LEMMA TypeStep == TypeOK /\ [Next]_vars => TypeOK'
<1> SUFFICES ASSUME TypeOK, [Next]_vars PROVE TypeOK'
  OBVIOUS
<1>0. /\ \A k \in 1 .. Len(list) : list[k] \in Command
      /\ Len(list) \in Nat
      /\ Gives \in [Command -> SUBSET Output]
  BY ListsAssumption, CommandAssumption DEF TypeOK
<1>1. ASSUME Configure PROVE TypeOK'
  <2>1. Fallback \in Info
    BY DEF Fallback, Info
  <2> QED BY <1>1, <2>1, RunTyped DEF Configure
<1>2. ASSUME NEW a \in Attempts, Restart(a) PROVE TypeOK'
  <2>1. infos[a] \in Info
    BY <1>2 DEF Restart, TypeOK
  <2> QED BY <1>2, <2>1, RunTyped DEF Restart
<1>3. ASSUME RestartInstallation PROVE TypeOK'
  <2>1. Fallback \in Info
    BY DEF Fallback, Info
  <2> QED BY <1>3, <2>1, RunTyped DEF RestartInstallation
<1>4. ASSUME StepSkipped PROVE TypeOK'
  BY <1>0, <1>4 DEF StepSkipped, Plain, InLoop, Cmd, Advance, TypeOK
<1>5. ASSUME StepProperties PROVE TypeOK'
  BY <1>0, <1>5 DEF StepProperties, Plain, InLoop, Cmd, Advance, TypeOK
<1>6. ASSUME StepScript PROVE TypeOK'
  <2>1. i \in 1 .. Len(list) /\ Cmd \in Command
    BY <1>0, <1>6 DEF StepScript, Plain, InLoop, Cmd, TypeOK
  <2>2. outputs' \in SUBSET Output
    BY <1>0, <1>6, <2>1 DEF StepScript, TypeOK
  <2>3. done' \in SUBSET Command
    BY <1>0, <1>6, <2>1 DEF StepScript, TypeOK, Slice
  <2>4. last' \in Nat /\ i' \in Nat \ {0}
    BY <1>0, <1>6, <2>1 DEF StepScript, Advance, TypeOK
  <2> QED BY <1>6, <2>2, <2>3, <2>4 DEF StepScript, TypeOK
<1>7. ASSUME ScriptFails \/ HostUnknown PROVE TypeOK'
  <2>1. i \in 1 .. Len(list) /\ Cmd \in Command
    BY <1>0, <1>7 DEF ScriptFails, HostUnknown, Plain, InLoop, Cmd, TypeOK
  <2>2. outputs' \in SUBSET Output
    BY <1>0, <1>7, <2>1 DEF ScriptFails, HostUnknown, TypeOK
  <2>3. last' \in Nat \cup {NoResult} /\ i' \in Nat \ {0} /\ failing' \in SUBSET Command
    BY <1>0, <1>7, <2>1
       DEF ScriptFails, HostUnknown, Break, ResultAtFailure, TypeOK
  <2> QED BY <1>7, <2>2, <2>3 DEF ScriptFails, HostUnknown, Break, TypeOK
<1>8. ASSUME NEW j \in 1 .. Len(list), StepHost(j)
      PROVE TypeOK'
  <2>1. i \in 1 .. Len(list) /\ j \in i .. Len(list)
    BY <1>0, <1>8 DEF StepHost, InLoop, IsGroupEnd, TypeOK
  <2>2. Slice(i, j) \subseteq Command
    BY <1>0, <2>1 DEF Slice
  <2>3. done' \in SUBSET Command /\ failing' \in SUBSET Command
    BY <1>8, <2>2 DEF StepHost, TypeOK
  <2>4. last' \in Nat /\ i' \in Nat \ {0}
    BY <1>0, <1>8, <2>1 DEF StepHost, Advance, TypeOK
  <2>5. outputs' \in SUBSET Output
    BY <1>0, <1>8, <2>2 DEF StepHost, TypeOK
  <2> QED BY <1>8, <2>3, <2>4, <2>5 DEF StepHost, TypeOK
<1>9. ASSUME FinishCompleted \/ FinishFailed PROVE TypeOK'
  <2>1. attempt \in Attempts => infos' \in [Attempts -> Info \cup {NoInfo}]
    BY <1>9 DEF FinishCompleted, FinishFailed, Store, TypeOK, Info
  <2>2. attempt \notin Attempts => infos' = infos
    BY <1>9 DEF FinishCompleted, FinishFailed, Store, TypeOK
  <2>3. verdict' \in Verdicts
    BY <1>9 DEF FinishCompleted, FinishFailed, Verdicts
  <2>4. rolledBack' \in BOOLEAN
    BY <1>9 DEF FinishCompleted, FinishFailed, RollbackTarget, TypeOK
  <2> QED BY <1>9, <2>1, <2>2, <2>3, <2>4 DEF FinishCompleted, FinishFailed, TypeOK
<1>10. CASE UNCHANGED vars
  BY <1>10 DEF vars, TypeOK
<1> QED BY <1>1, <1>2, <1>3, <1>4, <1>5, <1>6, <1>7, <1>8, <1>9, <1>10 DEF Next, Run

(* Every variable keeps the type the code gives it. *)
THEOREM TypeCorrect == Spec => []TypeOK
BY TypeInit, TypeStep, PTL DEF Spec

----------------------------------------------------------------------------
(* The order of the commands.                                               *)

LEMMA OrderInit == Init => IInv
<1> SUFFICES ASSUME Init PROVE IInv
  OBVIOUS
<1>1. TypeOK
  BY TypeInit
<1>2. Behind(0)
  BY PlannedTyped DEF Behind
<1> QED BY <1>1, <1>2, ModeAssumption
        DEF Init, IInv, ListKnown, LoopPosition, ResultsReached, VerdictGiven, Unstored,
            Fallback, Attempts

\* What is behind the task stays behind it.
LEMMA BehindStays ==
    ASSUME NEW n, Behind(n), done \subseteq done'
    PROVE  Behind(n)'
BY DEF Behind

\* Where a run has got to is behind the task.
LEMMA BehindGrows ==
    ASSUME TypeOK, ListKnown, Behind(base.last), NEW n \in Nat, n >= base.last,
           n <= base.last \/ n <= Len(list),
           \A k \in base.last + 1 .. n : list[k] \in done
    PROVE  Behind(n)
<1>0. base.last \in Nat /\ Len(Planned) \in Nat /\ Len(Reloaded) \in Nat
  BY ListsAssumption DEF TypeOK, Info
<1>1. PICK m \in 0 .. base.last :
        /\ m <= Len(Planned)
        /\ m < base.last => base.last <= Len(Reloaded)
        /\ {Planned[k] : k \in 1 .. m} \cup {Reloaded[k] : k \in m + 1 .. base.last}
              \subseteq done
  BY DEF Behind
<1>2. CASE n <= base.last
  <2>1. n = base.last
    BY <1>0, <1>2
  <2> QED BY <2>1
<1>3. CASE n > base.last /\ list = Reloaded
  <2>1. m \in 0 .. n /\ n <= Len(Reloaded)
    BY <1>0, <1>3
  <2>2. ASSUME NEW k \in m + 1 .. n PROVE Reloaded[k] \in done
    <3>1. k \in m + 1 .. base.last \/ k \in base.last + 1 .. n
      BY <1>0, <2>2
    <3> QED BY <1>1, <1>3, <3>1
  <2>3. {Planned[k] : k \in 1 .. m} \cup {Reloaded[k] : k \in m + 1 .. n} \subseteq done
    BY <1>1, <2>2
  <2> QED BY <1>1, <2>1, <2>3 DEF Behind
<1>4. CASE n > base.last /\ list = Planned /\ base.last = 0
  <2>1. n \in 0 .. n /\ n <= Len(Planned) /\ ~(n < n)
    BY <1>0, <1>4
  <2>2. {Planned[k] : k \in 1 .. n} \cup {Reloaded[k] : k \in n + 1 .. n} \subseteq done
    BY <1>4
  <2> QED BY <2>1, <2>2 DEF Behind
<1> QED BY <1>0, <1>2, <1>3, <1>4 DEF ListKnown

LEMMA OrderStart ==
    ASSUME IInv, NEW commands \in {Planned, Reloaded}, NEW info \in Info,
           commands = Reloaded \/ (commands = Planned /\ info.last = 0),
           Behind(info.last), StartRun(commands, info)
    PROVE  IInv'
<1>1. TypeOK'
  BY RunTyped DEF IInv
<1>2. /\ attempt \in 0 .. MaxAttempts /\ attempt' = attempt + 1 /\ attempt < MaxAttempts
      /\ phase' = "loop" /\ verdict' = "none" /\ infos' = infos /\ done' = done
      /\ list' = commands /\ start' = info.last + 1 /\ i' = start' /\ last' = NoResult
      /\ base' = info
  BY DEF StartRun, IInv, TypeOK
<1>3. LoopPosition' /\ ListKnown'
  BY <1>2 DEF LoopPosition, ListKnown
<1>4. ResultsReached'
  BY <1>2 DEF ResultsReached, Behind, IInv
<1>5. VerdictGiven'
  BY <1>2 DEF VerdictGiven
<1>6. Unstored'
  BY <1>2 DEF Unstored, StartRun, IInv, Attempts, NoInfo
<1> QED BY <1>1, <1>2, <1>3, <1>4, <1>5, <1>6 DEF IInv

\* The stored results and the position after an iteration.
LEMMA OrderIteration ==
    ASSUME IInv, TypeOK', phase = "loop",
           UNCHANGED <<phase, attempt, list, start, infos, base, verdict>>,
           done \subseteq done',
           last' # NoResult =>
               last' \in start .. Len(list) /\ \A k \in start .. last' : list[k] \in done',
           LoopPosition'
    PROVE  IInv'
<1>1. ResultsReached'
  <2>1. start' = base'.last + 1 /\ Behind(base.last)'
    BY BehindStays DEF IInv, ResultsReached
  <2>2. \A a \in Attempts : infos[a] # NoInfo => Behind(infos[a].last)'
    BY BehindStays DEF IInv, ResultsReached
  <2> QED BY <2>1, <2>2 DEF ResultsReached, Behind
<1>2. VerdictGiven' /\ ListKnown' /\ Unstored'
  BY DEF IInv, VerdictGiven, ListKnown, Unstored, Attempts, NoInfo
<1> QED BY <1>1, <1>2 DEF IInv

\* Everything of this run before the loop variable is carried out.
LEMMA BehindUs ==
    ASSUME IInv, phase = "loop", i <= Len(list), NEW m \in start .. i - 1
    PROVE  list[m] \in done
<1>1. CASE i = start
  BY <1>1 DEF IInv, TypeOK
<1>2. CASE i # start
  BY <1>2 DEF IInv, LoopPosition, ResultsReached, TypeOK, NoResult
<1> QED BY <1>1, <1>2

\* An iteration that carries out the commands i .. n.
LEMMA OrderCarry ==
    ASSUME IInv, TypeOK', InLoop, NEW n \in i .. Len(list),
           UNCHANGED <<phase, attempt, list, start, infos, base, verdict>>,
           done' = done \cup Slice(i, n), last' = n, i' = n + 1
    PROVE  IInv'
<1>0. /\ phase = "loop" /\ i <= Len(list) /\ i \in Nat \ {0} /\ start \in Nat \ {0}
      /\ Len(list) \in Nat /\ i >= start
  BY ListsAssumption DEF IInv, TypeOK, InLoop, LoopPosition
<1>1. ASSUME NEW k \in start .. n PROVE list[k] \in done'
  <2>1. CASE k < i
    BY <1>0, <2>1, BehindUs
  <2>2. CASE k >= i
    BY <1>0, <2>2 DEF Slice
  <2> QED BY <1>0, <2>1, <2>2
<1>2. LoopPosition'
  BY <1>0 DEF LoopPosition
<1> QED BY <1>0, <1>1, <1>2, OrderIteration

LEMMA OrderStep == IInv /\ [Next]_vars => IInv'
<1> SUFFICES ASSUME IInv, [Next]_vars PROVE IInv'
  OBVIOUS
<1>0. /\ TypeOK /\ TypeOK' /\ Len(list) \in Nat /\ i \in Nat \ {0}
  BY TypeStep, ListsAssumption DEF IInv, TypeOK
<1>1. ASSUME Configure \/ RestartInstallation PROVE IInv'
  <2>1. Fallback \in Info /\ Fallback.last = 0 /\ Behind(Fallback.last)
    BY <1>0, PlannedTyped DEF Fallback, Info, Behind
  <2> QED BY <1>1, <2>1, OrderStart DEF Configure, RestartInstallation
<1>2. ASSUME NEW a \in Attempts, Restart(a) PROVE IInv'
  <2>1. infos[a] \in Info /\ Behind(infos[a].last) /\ StartRun(Reloaded, infos[a])
    BY <1>2 DEF Restart, IInv, TypeOK, ResultsReached
  <2> QED BY <2>1, OrderStart
<1>4. ASSUME StepSkipped \/ StepProperties PROVE IInv'
  <2>1. /\ InLoop /\ i \in i .. Len(list)
        /\ UNCHANGED <<phase, attempt, list, start, infos, base, verdict>>
        /\ done' = done \cup Slice(i, i) /\ last' = i /\ i' = i + 1
    BY <1>0, <1>4
       DEF StepSkipped, StepProperties, Plain, InLoop, Cmd, Advance, Slice
  <2> QED BY <1>0, <2>1, OrderCarry
<1>5. ASSUME StepScript PROVE IInv'
  <2>1. /\ InLoop /\ i \in i .. Len(list) /\ Len(list) \in i .. Len(list)
        /\ UNCHANGED <<phase, attempt, list, start, infos, base, verdict>>
    BY <1>0, <1>5 DEF StepScript, Plain, InLoop
  <2>2. CASE "switchover_scheduled" \in outputs'
    <3>1. /\ done' = done \cup Slice(i, Len(list))
          /\ last' = Len(list) /\ i' = Len(list) + 1
      BY <1>5, <2>2 DEF StepScript, Advance
    <3> QED BY <1>0, <2>1, <3>1, OrderCarry
  <2>3. CASE "switchover_scheduled" \notin outputs'
    <3>1. done' = done \cup Slice(i, i) /\ last' = i /\ i' = i + 1
      BY <1>0, <1>5, <2>3 DEF StepScript, Advance, Cmd, Slice
    <3> QED BY <1>0, <2>1, <3>1, OrderCarry
  <2> QED BY <2>2, <2>3
<1>6. ASSUME ScriptFails \/ HostUnknown PROVE IInv'
  <2>1. /\ phase = "loop" /\ i <= Len(list)
        /\ UNCHANGED <<phase, attempt, list, start, infos, base, verdict, done>>
        /\ i' = Len(list) + 1 /\ last' = ResultAtFailure
    BY <1>6 DEF ScriptFails, HostUnknown, Break, Plain, InLoop
  <2>2. start \in Nat \ {0} /\ (last' # NoResult => last' = i - 1 /\ i > start)
    BY <1>0, <2>1 DEF ResultAtFailure, LoopPosition, IInv, TypeOK
  <2>3. last' # NoResult =>
            last' \in start .. Len(list) /\ \A k \in start .. last' : list[k] \in done'
    BY <1>0, <2>1, <2>2, BehindUs
  <2>4. LoopPosition'
    BY <1>0, <2>1 DEF LoopPosition
  <2> QED BY <1>0, <2>1, <2>3, <2>4, OrderIteration
<1>7. ASSUME NEW j \in 1 .. Len(list), StepHost(j) PROVE IInv'
  <2>1. /\ InLoop /\ j \in i .. Len(list)
        /\ UNCHANGED <<phase, attempt, list, start, infos, base, verdict>>
        /\ done' = done \cup Slice(i, j) /\ last' = j /\ i' = j + 1
    BY <1>7 DEF StepHost, IsGroupEnd, Advance
  <2> QED BY <1>0, <2>1, OrderCarry
<1>8. ASSUME FinishCompleted \/ FinishFailed PROVE IInv'
  <2>1. /\ phase = "loop" /\ phase' = "over"
        /\ UNCHANGED <<attempt, list, start, i, last, base, done>> /\ Store
        /\ \/ last = Len(list) /\ verdict' = "Completed"
           \/ verdict' = "Failed"
    BY <1>8 DEF FinishCompleted, FinishFailed, AllSuccessful
  <2>2. attempt \in Attempts
    BY <2>1, <1>0 DEF IInv, VerdictGiven, TypeOK, Attempts
  <2>3. infos' = [infos EXCEPT ![attempt] = IF last # NoResult
                    THEN [last |-> last, outputs |-> outputs] ELSE base]
    BY <2>1 DEF Store
  <2>4. ResultsReached'
    <3>1. Behind(base.last) /\ (last # NoResult => Behind(last))
      <4>1. base.last \in Nat /\ start = base.last + 1 /\ last \in Nat \cup {NoResult}
        BY <1>0 DEF IInv, ResultsReached, TypeOK, Info
      <4>2. ASSUME last # NoResult PROVE Behind(last)
        <5>1. /\ last \in Nat /\ last >= base.last /\ last <= Len(list)
              /\ \A k \in base.last + 1 .. last : list[k] \in done
              /\ Behind(base.last) /\ ListKnown
          BY <1>0, <4>1, <4>2 DEF IInv, ResultsReached
        <5> QED BY <1>0, <5>1, BehindGrows
      <4> QED BY <4>2 DEF IInv, ResultsReached
    <3>2. ASSUME NEW a \in Attempts, infos'[a] # NoInfo PROVE Behind(infos'[a].last)
      <4>1. CASE a = attempt
        BY <1>0, <2>1, <2>2, <2>3, <3>1, <4>1 DEF TypeOK
      <4>2. CASE a # attempt
        BY <1>0, <2>1, <2>3, <3>2, <4>2 DEF IInv, ResultsReached, TypeOK
      <4> QED BY <4>1, <4>2
    <3>3. \A n : Behind(n)' <=> Behind(n)
      BY <2>1 DEF Behind
    <3> QED BY <2>1, <3>1, <3>2, <3>3 DEF ResultsReached, IInv
  <2>5. VerdictGiven'
    BY <1>0, <2>1, <2>2 DEF VerdictGiven, IInv, TypeOK
  <2>6. LoopPosition' /\ ListKnown'
    BY <2>1 DEF LoopPosition, ListKnown, IInv
  <2>7. Unstored'
    <3>1. \A a \in Attempts : a > attempt => infos'[a] = NoInfo
      BY <1>0, <2>1, <2>2, <2>3 DEF Unstored, IInv, TypeOK, Attempts
    <3> QED BY <2>1, <3>1 DEF Unstored, Attempts, NoInfo
  <2> QED BY <1>0, <2>1, <2>4, <2>5, <2>6, <2>7 DEF IInv
<1>9. CASE UNCHANGED vars
  BY <1>9, <1>0
     DEF vars, IInv, ListKnown, LoopPosition, ResultsReached, Behind, VerdictGiven,
         Unstored, Attempts, NoInfo
<1> QED BY <1>1, <1>2, <1>4, <1>5, <1>6, <1>7, <1>8, <1>9 DEF Next, Run

\* A loop that was left without having reached the end has somebody to blame.
Blame ==
    /\ (phase = "loop" /\ i > Len(list) /\ last # Len(list)) =>
          failing # {} \/ start > Len(list)
    /\ FailedMeansFailure

LEMMA BlameStep ==
    ASSUME TypeOK, Blame, [Next]_vars
    PROVE  Blame'
<1>0. Len(list) \in Nat /\ i \in Nat \ {0}
  BY ListsAssumption DEF TypeOK
<1>1. ASSUME NEW c, NEW info \in Info, StartRun(c, info) PROVE Blame'
  BY <1>1 DEF StartRun, Blame, FailedMeansFailure
<1>2. ASSUME Configure \/ RestartInstallation PROVE Blame'
  <2>1. Fallback \in Info
    BY DEF Fallback, Info
  <2> QED BY <1>1, <1>2, <2>1 DEF Configure, RestartInstallation
<1>3. ASSUME NEW a \in Attempts, Restart(a) PROVE Blame'
  <2>1. infos[a] \in Info
    BY <1>3 DEF Restart, TypeOK
  <2> QED BY <1>1, <1>3, <2>1 DEF Restart
<1>4. ASSUME StepSkipped \/ StepProperties \/ StepScript PROVE Blame'
  <2>1. /\ phase = "loop" /\ i <= Len(list)
        /\ UNCHANGED <<list, start, verdict, failing>>
        /\ i' = last' + 1 /\ (last' = i \/ last' = Len(list))
    BY <1>0, <1>4
       DEF StepSkipped, StepProperties, StepScript, Plain, InLoop, Advance
  <2> QED BY <1>0, <2>1 DEF Blame, FailedMeansFailure
<1>5. ASSUME ScriptFails \/ HostUnknown PROVE Blame'
  <2>1. failing' # {}
    BY <1>5 DEF ScriptFails, HostUnknown, Break
  <2> QED BY <2>1 DEF Blame, FailedMeansFailure
<1>6. ASSUME NEW j \in 1 .. Len(list), StepHost(j) PROVE Blame'
  <2>1. /\ UNCHANGED <<list, start, verdict>> /\ i' = j + 1 /\ last' = j
        /\ failing \subseteq failing'
    BY <1>6 DEF StepHost, Advance
  <2> QED BY <1>0, <2>1 DEF Blame, FailedMeansFailure
<1>7. ASSUME FinishCompleted \/ FinishFailed PROVE Blame'
  BY <1>7 DEF FinishCompleted, FinishFailed, AllSuccessful, Blame, FailedMeansFailure
<1>8. CASE UNCHANGED vars
  BY <1>8 DEF vars, Blame, FailedMeansFailure
<1> QED BY <1>2, <1>3, <1>4, <1>5, <1>6, <1>7, <1>8 DEF Next, Run

(* "Failed" is never said of a run in which nothing failed, whatever a       *)
(* restart reloads.                                                         *)
THEOREM FailedSafe == Spec => []FailedMeansFailure
<1>1. Init => Blame
  BY DEF Init, Blame, FailedMeansFailure
<1>2. TypeOK /\ Blame /\ [Next]_vars => Blame'
  BY BlameStep
<1>3. Blame => FailedMeansFailure
  BY DEF Blame
<1> QED BY <1>1, <1>2, <1>3, TypeCorrect, PTL DEF Spec

(* The verdict is earned: "Completed" is never said while a command of this  *)
(* run is not carried out or a position before it not behind the task,       *)
(* "Failed" never of a run in which nothing failed.                          *)
THEOREM VerdictSafe == Spec => []VerdictIsEarned
<1>1. Init => IInv
  BY OrderInit
<1>2. IInv /\ [Next]_vars => IInv'
  BY OrderStep
<1>3. IInv => CompletedMeansDone
  <2> SUFFICES ASSUME IInv, verdict = "Completed"
               PROVE  Slice(start, Len(list)) \subseteq done /\ Behind(start - 1)
    BY DEF CompletedMeansDone
  <2>1. last = Len(list) /\ start = base.last + 1 /\ base.last \in Nat /\ Behind(base.last)
    BY DEF IInv, VerdictGiven, ResultsReached, TypeOK, Info
  <2>2. Len(list) # NoResult
    BY ListsAssumption DEF IInv, TypeOK, NoResult
  <2> QED BY <2>1, <2>2 DEF IInv, ResultsReached, Slice
<1>4. CompletedMeansDone /\ FailedMeansFailure => VerdictIsEarned
  BY DEF VerdictIsEarned
<1> QED BY <1>1, <1>2, <1>3, <1>4, FailedSafe, PTL DEF Spec

----------------------------------------------------------------------------
(* The order.                                                               *)

\* No two positions of a list hold the same command.
EachOnce ==
    \A commands \in {Planned, Reloaded} :
        \A k, m \in 1 .. Len(commands) : commands[k] = commands[m] => k = m

NewAfterOld ==
    \A k \in 1 .. Len(list) :
        list[k] \in done' \ done =>
            /\ \A m \in start .. k - 1 : list[m] \in done'
            /\ Behind(start - 1)

LEMMA CarryInOrder ==
    ASSUME EachOnce, IInv, InLoop, NEW n \in i .. Len(list), done' = done \cup Slice(i, n)
    PROVE  NewAfterOld
<1> SUFFICES ASSUME NEW k \in 1 .. Len(list), list[k] \in done' \ done
             PROVE  /\ \A m \in start .. k - 1 : list[m] \in done'
                    /\ Behind(start - 1)
  BY DEF NewAfterOld
<1>0. /\ phase = "loop" /\ i <= Len(list) /\ i \in Nat \ {0} /\ start \in Nat \ {0}
      /\ Len(list) \in Nat /\ list \in {Planned, Reloaded}
      /\ start = base.last + 1 /\ base.last \in Nat /\ Behind(base.last)
  BY ListsAssumption DEF IInv, TypeOK, InLoop, ResultsReached, Info
<1>1. PICK c \in i .. n : list[k] = list[c]
  BY DEF Slice
<1>2. k = c
  BY <1>0, <1>1 DEF EachOnce
<1>3. ASSUME NEW m \in start .. k - 1 PROVE list[m] \in done'
  <2>1. CASE m < i
    BY <1>0, <2>1, BehindUs
  <2>2. CASE m >= i
    BY <1>0, <1>1, <1>2, <2>2 DEF Slice
  <2> QED BY <1>0, <2>1, <2>2
<1> QED BY <1>0, <1>3

(* A command takes effect only after everything its run has before it and    *)
(* with every position before the run behind the task, for all lists whose   *)
(* commands are distinct, however often the task is restarted.               *)
THEOREM OrderKept ==
    ASSUME EachOnce
    PROVE  Spec => InOrder
<1>1. IInv /\ [Next]_vars => [NewAfterOld]_vars
  <2> SUFFICES ASSUME IInv, Next PROVE NewAfterOld
    OBVIOUS
  <2>0. TypeOK /\ Len(list) \in Nat /\ i \in Nat \ {0}
    BY ListsAssumption DEF IInv, TypeOK
  <2>1. ASSUME Configure \/ RestartInstallation \/ (\E a \in Attempts : Restart(a))
        PROVE  NewAfterOld
    BY <2>1 DEF Configure, RestartInstallation, Restart, StartRun, NewAfterOld
  <2>2. ASSUME ScriptFails \/ HostUnknown \/ FinishCompleted \/ FinishFailed
        PROVE  NewAfterOld
    BY <2>2 DEF ScriptFails, HostUnknown, Break, FinishCompleted, FinishFailed, NewAfterOld
  <2>3. ASSUME StepSkipped \/ StepProperties PROVE NewAfterOld
    <3>1. InLoop /\ i \in i .. Len(list) /\ done' = done \cup Slice(i, i)
      BY <2>0, <2>3 DEF StepSkipped, StepProperties, Plain, InLoop, Cmd, Slice
    <3> QED BY <3>1, CarryInOrder
  <2>4. ASSUME StepScript PROVE NewAfterOld
    <3>1. InLoop /\ i \in i .. Len(list) /\ Len(list) \in i .. Len(list)
      BY <2>0, <2>4 DEF StepScript, Plain, InLoop
    <3>2. done' = done \cup Slice(i, Len(list)) \/ done' = done \cup Slice(i, i)
      BY <2>0, <2>4 DEF StepScript, Cmd, Slice
    <3> QED BY <3>1, <3>2, CarryInOrder
  <2>5. ASSUME NEW j \in 1 .. Len(list), StepHost(j) PROVE NewAfterOld
    <3>1. InLoop /\ j \in i .. Len(list) /\ done' = done \cup Slice(i, j)
      BY <2>5 DEF StepHost, IsGroupEnd
    <3> QED BY <3>1, CarryInOrder
  <2> QED BY <2>1, <2>2, <2>3, <2>4, <2>5 DEF Next, Run
<1>2. Init => IInv
  BY OrderInit
<1>3. IInv /\ [Next]_vars => IInv'
  BY OrderStep
<1> QED BY <1>1, <1>2, <1>3, PTL DEF Spec, InOrder, NewAfterOld

----------------------------------------------------------------------------
(* The stored progress.                                                     *)

\* A run stands at or behind the point it resumed from.
Onward ==
    /\ phase # "idle" => start = base.last + 1
    /\ phase = "loop" => i >= start
    /\ last # NoResult => last >= base.last
    /\ phase = "over" => attempt \in Attempts
    /\ phase = "loop" => attempt \in Attempts
    /\ ProgressKept

LEMMA OnwardStep ==
    ASSUME TypeOK, Onward, [Next]_vars
    PROVE  Onward'
<1>0. /\ Len(list) \in Nat /\ i \in Nat \ {0} /\ start \in Nat \ {0} /\ base \in Info
      /\ last \in Nat \cup {NoResult} /\ base.last \in Nat
  BY ListsAssumption DEF TypeOK, Info
<1>1. ASSUME NEW c, NEW info \in Info, StartRun(c, info) PROVE Onward'
  <2>1. info.last \in Nat
    BY DEF Info
  <2> QED BY <1>1, <2>1, ModeAssumption
          DEF StartRun, Onward, ProgressKept, TypeOK, Attempts
<1>2. ASSUME Configure \/ RestartInstallation PROVE Onward'
  <2>1. Fallback \in Info
    BY DEF Fallback, Info
  <2> QED BY <1>1, <1>2, <2>1 DEF Configure, RestartInstallation
<1>3. ASSUME NEW a \in Attempts, Restart(a) PROVE Onward'
  <2>1. infos[a] \in Info
    BY <1>3 DEF Restart, TypeOK
  <2> QED BY <1>1, <1>3, <2>1 DEF Restart
<1>4. ASSUME StepSkipped \/ StepProperties \/ StepScript PROVE Onward'
  <2>1. /\ phase = "loop" /\ i <= Len(list)
        /\ UNCHANGED <<phase, attempt, list, start, base, infos>>
        /\ i' = last' + 1 /\ (last' = i \/ last' = Len(list))
    BY <1>0, <1>4
       DEF StepSkipped, StepProperties, StepScript, Plain, InLoop, Advance
  <2> QED BY <1>0, <2>1 DEF Onward, ProgressKept
<1>5. ASSUME ScriptFails \/ HostUnknown PROVE Onward'
  <2>1. /\ phase = "loop" /\ i <= Len(list)
        /\ UNCHANGED <<phase, attempt, list, start, base, infos>>
        /\ i' = Len(list) + 1 /\ last' = ResultAtFailure
    BY <1>0, <1>5 DEF ScriptFails, HostUnknown, Break, Plain, InLoop
  <2> QED BY <1>0, <2>1 DEF Onward, ProgressKept, ResultAtFailure
<1>6. ASSUME NEW j \in 1 .. Len(list), StepHost(j) PROVE Onward'
  <2>1. /\ phase = "loop" /\ j >= i
        /\ UNCHANGED <<phase, attempt, list, start, base, infos>>
        /\ i' = j + 1 /\ last' = j
    BY <1>0, <1>6 DEF StepHost, InLoop, IsGroupEnd, Advance
  <2> QED BY <1>0, <2>1 DEF Onward, ProgressKept
<1>7. ASSUME FinishCompleted \/ FinishFailed PROVE Onward'
  <2>1. /\ phase = "loop" /\ phase' = "over"
        /\ UNCHANGED <<attempt, start, i, last, base>> /\ Store
    BY <1>7 DEF FinishCompleted, FinishFailed
  <2>2. attempt \in Attempts /\ infos \in [Attempts -> Info \cup {NoInfo}]
    BY <2>1 DEF Onward, TypeOK
  <2>3. infos'[attempt] = IF last # NoResult THEN [last |-> last, outputs |-> outputs]
                                             ELSE base
    BY <2>1, <2>2 DEF Store
  <2> QED BY <1>0, <2>1, <2>2, <2>3 DEF Onward, ProgressKept
<1>8. CASE UNCHANGED vars
  BY <1>8 DEF vars, Onward, ProgressKept
<1> QED BY <1>2, <1>3, <1>4, <1>5, <1>6, <1>7, <1>8 DEF Next, Run

(* A restart info is never behind the one the run began with, whatever the   *)
(* restarts reload.                                                         *)
THEOREM ProgressStays == Spec => []ProgressKept
<1>1. Init => Onward
  BY DEF Init, Onward, ProgressKept, NoResult
<1>2. TypeOK /\ Onward /\ [Next]_vars => Onward'
  BY OnwardStep
<1>3. Onward => ProgressKept
  BY DEF Onward
<1> QED BY <1>1, <1>2, <1>3, TypeCorrect, PTL DEF Spec

----------------------------------------------------------------------------
(* The refinement.                                                         *)

\* The positions the runs of this task have left behind, as the promise has it.
Reached == {infos[a].last : a \in {b \in Attempts : infos[b] # NoInfo}}

\* An iteration that carries out the commands i .. n of the list.
LEMMA CarryRefines ==
    ASSUME IInv, InLoop, NEW n \in i .. Len(list),
           done' = done \cup Slice(i, n),
           UNCHANGED <<list, start, infos, verdict>>
    PROVE  Promise!Next
<1>1. /\ i <= Len(list) /\ i <= n /\ phase = "loop" /\ Len(list) \in Nat
      /\ i \in start .. Len(list) /\ n \in start .. Len(list)
  BY ListsAssumption DEF InLoop, IInv, LoopPosition, TypeOK
<1>2. verdict = "none"
  BY <1>1 DEF IInv, VerdictGiven
<1>3. Promise!Stretch(start, i - 1) \subseteq done
  BY <1>1, BehindUs DEF Promise!Stretch
<1>4. Promise!Carry(i, n)
  BY <1>1, <1>2, <1>3 DEF Promise!Carry, Promise!Stretch, Slice
<1> QED BY <1>1, <1>4 DEF Promise!Next

\* The end of a run adds the position it has got to.
LEMMA ReachedGrows ==
    ASSUME IInv, phase = "loop", Store
    PROVE  Reached' = Reached \cup {IF last # NoResult THEN last ELSE base.last}
<1> DEFINE info == IF last # NoResult THEN [last |-> last, outputs |-> outputs] ELSE base
<1>1. /\ attempt \in Attempts /\ infos \in [Attempts -> Info \cup {NoInfo}]
      /\ infos[attempt] = NoInfo
      /\ infos' = [infos EXCEPT ![attempt] = info]
  BY DEF IInv, VerdictGiven, Unstored, TypeOK, Attempts, Store
<1>2. info # NoInfo /\ info.last = IF last # NoResult THEN last ELSE base.last
  BY DEF IInv, TypeOK, Info, NoInfo, NoResult
<1> HIDE DEF info
<1>3. \A a \in Attempts : infos'[a] = IF a = attempt THEN info ELSE infos[a]
  BY <1>1
<1>4. NoInfo' = NoInfo /\ Attempts' = Attempts
  BY DEF NoInfo, Attempts
<1>5. ASSUME NEW x \in Reached' PROVE x \in Reached \cup {info.last}
  <2>1. PICK a \in Attempts : infos'[a] # NoInfo /\ x = infos'[a].last
    BY <1>4, <1>5 DEF Reached
  <2> QED BY <1>3, <2>1 DEF Reached
<1>6. ASSUME NEW x \in Reached PROVE x \in Reached'
  <2>1. PICK a \in Attempts : infos[a] # NoInfo /\ x = infos[a].last
    BY <1>6 DEF Reached
  <2>2. infos'[a] = infos[a]
    BY <1>1, <1>3, <2>1
  <2> QED BY <1>4, <2>1, <2>2 DEF Reached
<1>7. info.last \in Reached'
  <2>1. infos'[attempt] = info
    BY <1>1, <1>3
  <2> QED BY <1>1, <1>2, <1>4, <2>1 DEF Reached
<1> QED BY <1>2, <1>5, <1>6, <1>7

LEMMA StepRefines ==
    ASSUME IInv, IInv', [Next]_vars
    PROVE  [Promise!Next]_<<list, start, Reached, done, verdict>>
<1>0. /\ TypeOK /\ Len(list) \in Nat /\ i \in Nat \ {0} /\ start \in Nat \ {0}
      /\ start = base.last + 1 /\ base.last \in Nat
  BY ListsAssumption DEF IInv, TypeOK, ResultsReached, Info
<1>1. CASE Configure
  <2>1. /\ phase = "idle" /\ list' = Planned /\ start' = 1 /\ done' = done
        /\ verdict' = "none" /\ infos' = infos
    BY <1>1 DEF Configure, StartRun, Fallback, IInv, VerdictGiven
  <2>2. verdict = "none" /\ list = Planned /\ start = 1
    BY <2>1 DEF IInv, VerdictGiven, Unstored
  <2> QED BY <2>1, <2>2 DEF Reached
<1>2. ASSUME NEW info \in Info, phase = "over", StartRun(Reloaded, info),
             info.last \in {0} \cup Reached
      PROVE  Promise!Next
  <2>1. /\ verdict # "none" /\ verdict' = "none" /\ done' = done /\ infos' = infos
        /\ list' = Reloaded /\ start' = info.last + 1
    BY <1>2 DEF StartRun, IInv, VerdictGiven
  <2>2. Promise!TakeUpAgain(info.last)
    BY <2>1 DEF Promise!TakeUpAgain
  <2> QED BY <1>2, <2>2 DEF Promise!Next, Reached
<1>3. CASE RestartInstallation
  <2>1. Fallback \in Info /\ Fallback.last = 0
    BY DEF Fallback, Info
  <2> QED BY <1>2, <1>3, <2>1 DEF RestartInstallation
<1>4. ASSUME NEW a \in Attempts, Restart(a) PROVE Promise!Next
  <2>1. infos[a] \in Info /\ infos[a].last \in Reached
    BY <1>0, <1>4 DEF Restart, TypeOK, Reached
  <2> QED BY <1>2, <1>4, <2>1 DEF Restart
<1>5. CASE StepSkipped \/ StepProperties
  <2>1. /\ InLoop /\ done' = done \cup Slice(i, i) /\ i \in i .. Len(list)
        /\ UNCHANGED <<list, start, infos, verdict>>
    BY <1>0, <1>5 DEF StepSkipped, StepProperties, Plain, InLoop, Cmd, Slice
  <2> QED BY <2>1, CarryRefines
<1>6. CASE StepScript
  <2>1. /\ InLoop /\ i \in i .. Len(list) /\ Len(list) \in i .. Len(list)
        /\ UNCHANGED <<list, start, infos, verdict>>
    BY <1>0, <1>6 DEF StepScript, Plain, InLoop
  <2>2. done' = done \cup Slice(i, Len(list)) \/ done' = done \cup Slice(i, i)
    BY <1>0, <1>6 DEF StepScript, Cmd, Slice
  <2> QED BY <2>1, <2>2, CarryRefines
<1>7. CASE ScriptFails \/ HostUnknown
  BY <1>7 DEF ScriptFails, HostUnknown, Break, Reached
<1>8. ASSUME NEW j \in 1 .. Len(list), StepHost(j) PROVE Promise!Next
  <2>1. /\ InLoop /\ j \in i .. Len(list) /\ done' = done \cup Slice(i, j)
        /\ UNCHANGED <<list, start, infos, verdict>>
    BY <1>8 DEF StepHost, IsGroupEnd
  <2> QED BY <2>1, CarryRefines
<1>9. CASE FinishCompleted
  <2>1. /\ phase = "loop" /\ verdict = "none" /\ last = Len(list) /\ last # NoResult
        /\ verdict' = "Completed" /\ UNCHANGED <<list, start, done>> /\ Store
    BY <1>0, <1>9 DEF FinishCompleted, AllSuccessful, IInv, VerdictGiven, NoResult
  <2>2. Promise!Stretch(start, Len(list)) \subseteq done /\ start <= Len(list)
    BY <2>1, <1>0 DEF IInv, ResultsReached, Promise!Stretch
  <2>3. Reached' = Reached \cup {Len(list)}
    BY <2>1, ReachedGrows
  <2>4. Promise!Complete
    BY <2>1, <2>2, <2>3 DEF Promise!Complete, Reached
  <2> QED BY <2>4 DEF Promise!Next
<1>10. CASE FinishFailed
  <2>0. PICK n : n = IF last # NoResult THEN last ELSE base.last
    OBVIOUS
  <2>1. /\ phase = "loop" /\ verdict = "none" /\ Store
        /\ verdict' = "Failed" /\ UNCHANGED <<list, start, done>>
    BY <1>0, <1>10 DEF FinishFailed, IInv, VerdictGiven
  <2>2. n \in {start - 1} \cup (start .. Len(list)) /\ Promise!Stretch(start, n) \subseteq done
    BY <1>0, <2>0 DEF IInv, ResultsReached, Promise!Stretch
  <2>3. Reached' = Reached \cup {n}
    BY <2>0, <2>1, ReachedGrows
  <2>4. Promise!Fail(n)
    BY <2>1, <2>2, <2>3 DEF Promise!Fail, Reached
  <2> QED BY <2>2, <2>4 DEF Promise!Next
<1>11. CASE UNCHANGED vars
  BY <1>11 DEF vars, Reached, NoInfo, Attempts
<1> QED BY <1>1, <1>3, <1>4, <1>5, <1>6, <1>7, <1>8, <1>9, <1>10, <1>11 DEF Next, Run

(* A task keeps its promise: the commands of a run in order, "Completed"     *)
(* only when all of them are carried out or handed over, and a run that is   *)
(* taken up again begins behind a position an earlier run has reached.       *)
THEOREM PromiseKept == Spec => KeepsPromise
<1>1. Init => IInv
  BY OrderInit
<1>2. IInv /\ [Next]_vars => IInv'
  BY OrderStep
<1>3. Init => Promise!Init
  BY DEF Init, Promise!Init, NoInfo
<1>4. IInv /\ IInv' /\ [Next]_vars => [Promise!Next]_Promise!promiseVars
  BY StepRefines DEF Promise!promiseVars, Reached
<1> QED BY <1>1, <1>2, <1>3, <1>4, PTL DEF Spec, KeepsPromise, Promise!Spec

----------------------------------------------------------------------------
(* Numbers, and what is defined step by step.                               *)

\* The least of some numbers.
LEMMA LeastNumber ==
    ASSUME NEW T \in SUBSET Nat, T # {}
    PROVE  \E x \in T : \A y \in T : x <= y
<1> DEFINE R == OpToRel(<, Nat)
<1>1. IsWellFoundedOn(R, Nat)
  BY NatLessThanWellFounded
<1>2. \A x, y \in Nat : <<x, y>> \in R <=> x < y
  BY DEF OpToRel
<1> HIDE DEF R
<1>3. PICK x \in T : \A y \in T : ~ (<<y, x>> \in R)
  BY <1>1, WFMin
<1>4. \A y \in T : ~ (y < x)
  BY <1>2, <1>3
<1>5. \A y \in T : x <= y
  BY <1>4, SMT
<1> QED BY <1>5

\* Induction, with the set of the numbers for which something holds.
LEMMA AllNumbers ==
    ASSUME NEW S, 0 \in S, \A n \in Nat : n \in S => n + 1 \in S
    PROVE  Nat \subseteq S
<1> SUFFICES ASSUME Nat \ S # {} PROVE FALSE
  OBVIOUS
<1>1. PICK x \in Nat \ S : \A y \in Nat \ S : x <= y
  BY LeastNumber
<1>2. x # 0 /\ x - 1 \in Nat /\ x - 1 \notin Nat \ S
  BY <1>1
<1> QED BY <1>1, <1>2

\* A value is carried from each step to the next.
Carries(G, F, g, L) ==
    \E r \in [0 .. L -> G] : r[0] = g /\ \A n \in 1 .. L : r[n] = F[<<r[n - 1], n>>]

LEMMA StepByStep ==
    ASSUME NEW G, NEW F \in [G \X Nat -> G], NEW g \in G, NEW L \in Nat
    PROVE  Carries(G, F, g, L)
<1> DEFINE Walks(n, r) == r[0] = g /\ \A k \in 1 .. n : r[k] = F[<<r[k - 1], k>>]
           S == {n \in Nat : \E r \in [0 .. n -> G] : Walks(n, r)}
<1>1. 0 \in S
  <2> DEFINE q == [k \in 0 .. 0 |-> g]
  <2>1. q \in [0 .. 0 -> G] /\ q[0] = g
    OBVIOUS
  <2>2. Walks(0, q)
    BY <2>1
  <2> QED BY <2>1, <2>2
<1>2. ASSUME NEW n \in Nat, n \in S PROVE n + 1 \in S
  <2>1. PICK r \in [0 .. n -> G] : Walks(n, r)
    BY <1>2
  <2> DEFINE next == F[<<r[n], n + 1>>]
             q == [k \in 0 .. (n + 1) |-> IF k = n + 1 THEN next ELSE r[k]]
  <2>2. next \in G
    OBVIOUS
  <2>3. q \in [0 .. (n + 1) -> G] /\ q[n + 1] = next /\ \A k \in 0 .. n : q[k] = r[k]
    BY <2>2
  <2> HIDE DEF q
  <2>4. ASSUME NEW k \in 1 .. (n + 1) PROVE q[k] = F[<<q[k - 1], k>>]
    <3>1. CASE k = n + 1
      BY <2>3, <3>1
    <3>2. CASE k # n + 1
      <4>1. k \in 1 .. n /\ k \in 0 .. n /\ k - 1 \in 0 .. n
        BY <3>2
      <4> QED BY <2>1, <2>3, <4>1
    <3> QED BY <3>1, <3>2
  <2>5. Walks(n + 1, q)
    BY <2>1, <2>3, <2>4
  <2> HIDE DEF Walks
  <2> QED BY <2>3, <2>5
<1> HIDE DEF S
<1>3. L \in S
  BY <1>1, <1>2, AllNumbers
<1> QED BY <1>3 DEF S, Carries

----------------------------------------------------------------------------
(* What recording one message does to a group.                              *)

\* The first of some places is one of them.
LEMMA FirstPlace ==
    ASSUME NEW at \in SUBSET Nat, at # {}
    PROVE  /\ (CHOOSE k \in at : \A j \in at : k <= j) \in at
           /\ \A j \in at : (CHOOSE k \in at : \A o \in at : k <= o) <= j
  BY LeastNumber

\* Only output is partial; it has no index and ends nothing.
ProperMessage == {m \in Message : m.partial => m.index = NoIndex /\ ~ m.finished}

\* What a message tells and where it counts, apart from how it ended.
Looks(a, b) ==
    a.kind = b.kind /\ a.step = b.step /\ a.index = b.index /\ a.finished = b.finished

\* Message k of r is the new message m, behind g or in the place of the one with its index.
IsNew(g, m, r, k) ==
    /\ r[k].kind = m.kind /\ r[k].step = m.step /\ r[k].index = m.index /\ r[k].exit = m.exit
    /\ \/ k = Len(g) + 1 /\ k = Len(r) /\ r[k].finished = m.finished
       \/ /\ k \in DOMAIN g /\ m.index # NoIndex /\ g[k].index = m.index
          /\ r[k].finished = (m.finished \/ g[k].finished)

\* r is g with m recorded in it: the rest looks as before.
IsRecorded(g, m, r) ==
    /\ r \in Seq(ProperMessage)
    /\ Len(r) \in {Len(g), Len(g) + 1}
    /\ Len(r) = Len(g) + 1 => ~ Known(g, m)
    /\ ~ m.partial => \E k \in DOMAIN r : IsNew(g, m, r, k)
    /\ \A k \in DOMAIN r : IsNew(g, m, r, k) \/ (k \in DOMAIN g /\ Looks(r[k], g[k]))

LEMMA KnownPlace ==
    ASSUME NEW g \in Seq(ProperMessage), NEW m \in ProperMessage, Known(g, m)
    PROVE  PlaceOf(g, m) \in DOMAIN g /\ g[PlaceOf(g, m)].index = m.index
<1>1. Indexed(g, m.index) \in SUBSET Nat /\ Indexed(g, m.index) # {}
  BY DEF Indexed, Known
<1>2. PlaceOf(g, m) \in Indexed(g, m.index)
  BY <1>1, FirstPlace DEF PlaceOf
<1> QED BY <1>2 DEF Indexed

LEMMA PartialIsRecorded ==
    ASSUME NEW g \in Seq(ProperMessage), NEW m \in ProperMessage, m.partial
    PROVE  IsRecorded(g, m, RecordedPartial(g, m))
<1>1. ~ Known(g, m) /\ m.index = NoIndex /\ m \in ProperMessage
  BY DEF Known, ProperMessage, Message
<1>2. CASE g = <<>>
  <2>1. RecordedPartial(g, m) = <<m>>
    BY <1>1, <1>2 DEF RecordedPartial
  <2>2. <<m>> \in Seq(ProperMessage) /\ Len(<<m>>) = 1 /\ <<m>>[1] = m /\ Len(g) = 0
    BY <1>1, <1>2
  <2>3. \A k \in DOMAIN <<m>> : k = 1
    OBVIOUS
  <2>4. \A k \in DOMAIN <<m>> : IsNew(g, m, <<m>>, k)
    BY <2>2, <2>3 DEF IsNew
  <2> QED BY <1>1, <2>1, <2>2, <2>4 DEF IsRecorded
<1>3. CASE g # <<>>
  <2> DEFINE r == [g EXCEPT ![Len(g)] = Cleared(@)]
  <2>1. RecordedPartial(g, m) = r
    BY <1>1, <1>3 DEF RecordedPartial
  <2>2. Len(g) \in DOMAIN g /\ g[Len(g)] \in ProperMessage
    BY <1>3
  <2>3. Cleared(g[Len(g)]) \in ProperMessage /\ Looks(Cleared(g[Len(g)]), g[Len(g)])
    BY <2>2 DEF Cleared, Looks, ProperMessage, Message, Exits
  <2>4. r \in Seq(ProperMessage) /\ Len(r) = Len(g) /\ DOMAIN r = DOMAIN g
    BY <2>2, <2>3
  <2>5. ASSUME NEW k \in DOMAIN r PROVE Looks(r[k], g[k])
    <3>1. CASE k = Len(g)
      BY <2>2, <2>3, <2>4, <3>1
    <3>2. CASE k # Len(g)
      BY <2>4, <3>2 DEF Looks
    <3> QED BY <3>1, <3>2
  <2> QED BY <1>1, <2>1, <2>4, <2>5 DEF IsRecorded
<1> QED BY <1>2, <1>3

LEMMA FinalIsRecorded ==
    ASSUME NEW g \in Seq(ProperMessage), NEW m \in ProperMessage, ~ m.partial
    PROVE  IsRecorded(g, m, RecordedFinal(g, m))
<1>1. CASE Known(g, m)
  <2> DEFINE p == PlaceOf(g, m)
             r == [g EXCEPT ![p] = Merged(@, m)]
  <2>1. RecordedFinal(g, m) = r /\ m.index # NoIndex
    BY <1>1 DEF RecordedFinal, Known
  <2>2. p \in DOMAIN g /\ g[p].index = m.index /\ g[p] \in ProperMessage
    BY <1>1, KnownPlace
  <2> HIDE DEF p
  <2>3. /\ Merged(g[p], m) \in ProperMessage
        /\ Merged(g[p], m).kind = m.kind /\ Merged(g[p], m).step = m.step
        /\ Merged(g[p], m).index = m.index /\ Merged(g[p], m).exit = m.exit
        /\ Merged(g[p], m).finished = (m.finished \/ g[p].finished)
    BY <2>2 DEF Merged, ProperMessage, Message
  <2>4. /\ r \in Seq(ProperMessage) /\ Len(r) = Len(g) /\ DOMAIN r = DOMAIN g
        /\ r[p] = Merged(g[p], m) /\ \A k \in DOMAIN g \ {p} : r[k] = g[k]
    BY <2>2, <2>3
  <2> HIDE DEF r
  <2>5. ASSUME NEW k \in DOMAIN r PROVE IsNew(g, m, r, k) \/ Looks(r[k], g[k])
    <3>1. CASE k = p
      BY <2>1, <2>2, <2>3, <2>4, <3>1 DEF IsNew
    <3>2. CASE k # p
      BY <2>4, <3>2 DEF Looks
    <3> QED BY <3>1, <3>2
  <2>6. IsNew(g, m, r, p) /\ p \in DOMAIN r /\ Len(r) # Len(g) + 1
    <3>1. Len(g) \in Nat
      OBVIOUS
    <3>2. Len(r) = Len(g)
      BY <2>4
    <3>3. Len(r) # Len(g) + 1
      BY <3>1, <3>2
    <3>4. IsNew(g, m, r, p)
      BY <2>1, <2>2, <2>3, <2>4 DEF IsNew
    <3> QED BY <2>2, <2>4, <3>3, <3>4
  <2>7. \E k \in DOMAIN r : IsNew(g, m, r, k)
    BY <2>6
  <2> HIDE DEF r
  <2>8. IsRecorded(g, m, r)
    BY <2>4, <2>5, <2>6, <2>7 DEF IsRecorded
  <2> QED BY <2>1, <2>8
<1>2. CASE ~ Known(g, m)
  <2> DEFINE s == IF m.index = NoIndex THEN g ELSE [k \in DOMAIN g |-> Settled(g[k], m)]
             r == Append(s, m)
  <2>1. RecordedFinal(g, m) = r
    BY <1>2 DEF RecordedFinal
  <2>2. ASSUME NEW k \in DOMAIN g
        PROVE  Settled(g[k], m) \in ProperMessage /\ Looks(Settled(g[k], m), g[k])
    <3>1. g[k] \in ProperMessage
      OBVIOUS
    <3> QED BY <3>1 DEF Settled, Looks, ProperMessage, Message, Exits
  <2>3. s \in Seq(ProperMessage) /\ Len(s) = Len(g) /\ \A k \in DOMAIN g : Looks(s[k], g[k])
    <3>1. CASE m.index = NoIndex
      BY <3>1 DEF Looks
    <3>2. CASE m.index # NoIndex
      <4>1. s = [k \in 1 .. Len(g) |-> Settled(g[k], m)]
        BY <3>2
      <4> QED BY <2>2, <4>1
    <3> QED BY <3>1, <3>2
  <2> HIDE DEF s
  <2>4. /\ r \in Seq(ProperMessage) /\ Len(r) = Len(g) + 1 /\ r[Len(g) + 1] = m
        /\ \A k \in DOMAIN g : r[k] = s[k]
    BY <2>3
  <2> HIDE DEF r
  <2>5. ASSUME NEW k \in DOMAIN r
        PROVE  IsNew(g, m, r, k) \/ (k \in DOMAIN g /\ Looks(r[k], g[k]))
    BY <2>3, <2>4 DEF IsNew
  <2>6. IsNew(g, m, r, Len(g) + 1) /\ Len(g) + 1 \in DOMAIN r
    BY <2>3, <2>4 DEF IsNew
  <2> QED BY <1>2, <2>1, <2>4, <2>5, <2>6 DEF IsRecorded
<1> QED BY <1>1, <1>2

LEMMA RecordedIsRecorded ==
    ASSUME NEW g \in Seq(ProperMessage), NEW m \in ProperMessage
    PROVE  IsRecorded(g, m, Recorded(g, m))
  BY PartialIsRecorded, FinalIsRecorded DEF Recorded
----------------------------------------------------------------------------
(* What recording one message after the other does.                         *)

\* What holds at first and is kept by each step holds all along.
LEMMA AllAlong ==
    ASSUME NEW w, NEW L \in Nat, NEW S, w[0] \in S,
           \A n \in 1 .. L : w[n - 1] \in S => w[n] \in S
    PROVE  \A n \in 0 .. L : w[n] \in S
<1> DEFINE T == {n \in Nat : n <= L => w[n] \in S}
<1>1. 0 \in T
  OBVIOUS
<1>2. ASSUME NEW n \in Nat, n \in T PROVE n + 1 \in T
  <2> SUFFICES ASSUME n + 1 <= L PROVE w[n + 1] \in S
    OBVIOUS
  <2>1. n + 1 \in 1 .. L /\ (n + 1) - 1 = n /\ w[n] \in S
    BY <1>2
  <2> QED BY <2>1
<1> HIDE DEF T
<1>3. Nat \subseteq T
  BY <1>1, <1>2, AllNumbers
<1> QED BY <1>3 DEF T

LEMMA RecordedAllSteps ==
    ASSUME NEW g \in Seq(ProperMessage), NEW ms \in Seq(ProperMessage)
    PROVE  \E w : /\ w[0] = g /\ \A n \in 1 .. Len(ms) : w[n] = Recorded(w[n - 1], ms[n])
                  /\ RecordedAll(g, ms) = w[Len(ms)]
<1> DEFINE L == Len(ms)
           F == [x \in Seq(ProperMessage) \X Nat |->
                   IF x[2] \in 1 .. L THEN Recorded(x[1], ms[x[2]]) ELSE x[1]]
           Walk(u) == [n \in 0 .. L |-> IF n = 0 THEN g ELSE Recorded(u[n - 1], ms[n])]
           w == CHOOSE u : u = Walk(u)
<1>1. F \in [Seq(ProperMessage) \X Nat -> Seq(ProperMessage)]
  <2> SUFFICES ASSUME NEW x \in Seq(ProperMessage) \X Nat, x[2] \in 1 .. L
               PROVE  Recorded(x[1], ms[x[2]]) \in Seq(ProperMessage)
    OBVIOUS
  <2>1. x[1] \in Seq(ProperMessage) /\ ms[x[2]] \in ProperMessage
    OBVIOUS
  <2> QED BY <2>1, RecordedIsRecorded DEF IsRecorded
<1>2. \A x \in Seq(ProperMessage), n \in 1 .. L : F[<<x, n>>] = Recorded(x, ms[n])
  OBVIOUS
<1>3. L \in Nat
  OBVIOUS
<1> HIDE DEF F, L
<1>4. PICK r \in [0 .. L -> Seq(ProperMessage)] :
          r[0] = g /\ \A n \in 1 .. L : r[n] = F[<<r[n - 1], n>>]
  <2>1. Carries(Seq(ProperMessage), F, g, L)
    BY <1>1, <1>3, StepByStep
  <2> QED BY <2>1 DEF Carries
<1>5. ASSUME NEW n \in 1 .. L PROVE r[n] = Recorded(r[n - 1], ms[n])
  <2>1. n - 1 \in 0 .. L
    BY <1>3
  <2> QED BY <1>2, <1>4, <2>1
<1>6. r = Walk(r)
  BY <1>4, <1>5
<1>7. w = Walk(w) /\ RecordedAll(g, ms) = w[L]
  BY <1>6 DEF RecordedAll, L
<1> HIDE DEF w
<1>8. w[0] = g /\ \A n \in 1 .. L : w[n] = Recorded(w[n - 1], ms[n])
  BY <1>3, <1>7
<1> QED BY <1>7, <1>8 DEF L

\* The task says at most three messages together.
LEMMA RecordedOne ==
    ASSUME NEW g \in Seq(ProperMessage), NEW a \in ProperMessage
    PROVE  RecordedAll(g, <<a>>) = Recorded(g, a)
<1> DEFINE ms == <<a>>
<1>1. ms \in Seq(ProperMessage) /\ Len(ms) = 1 /\ ms[1] = a
  OBVIOUS
<1> HIDE DEF ms
<1>2. PICK w : /\ w[0] = g /\ \A n \in 1 .. Len(ms) : w[n] = Recorded(w[n - 1], ms[n])
               /\ RecordedAll(g, ms) = w[Len(ms)]
  BY <1>1, RecordedAllSteps
<1>3. w[1] = Recorded(w[1 - 1], ms[1]) /\ 1 - 1 = 0
  BY <1>1, <1>2
<1> QED BY <1>1, <1>2, <1>3 DEF ms

LEMMA RecordedTwo ==
    ASSUME NEW g \in Seq(ProperMessage), NEW a \in ProperMessage, NEW b \in ProperMessage
    PROVE  RecordedAll(g, <<a, b>>) = Recorded(Recorded(g, a), b)
<1> DEFINE ms == <<a, b>>
<1>1. ms \in Seq(ProperMessage) /\ Len(ms) = 2 /\ ms[1] = a /\ ms[2] = b
  OBVIOUS
<1> HIDE DEF ms
<1>2. PICK w : /\ w[0] = g /\ \A n \in 1 .. Len(ms) : w[n] = Recorded(w[n - 1], ms[n])
               /\ RecordedAll(g, ms) = w[Len(ms)]
  BY <1>1, RecordedAllSteps
<1>3. /\ w[1] = Recorded(w[1 - 1], ms[1]) /\ 1 - 1 = 0
      /\ w[2] = Recorded(w[2 - 1], ms[2]) /\ 2 - 1 = 1
  BY <1>1, <1>2
<1> QED BY <1>1, <1>2, <1>3 DEF ms

LEMMA RecordedThree ==
    ASSUME NEW g \in Seq(ProperMessage), NEW a \in ProperMessage, NEW b \in ProperMessage,
           NEW c \in ProperMessage
    PROVE  RecordedAll(g, <<a, b, c>>) = Recorded(Recorded(Recorded(g, a), b), c)
<1> DEFINE ms == <<a, b, c>>
<1>1. ms \in Seq(ProperMessage) /\ Len(ms) = 3 /\ ms[1] = a /\ ms[2] = b /\ ms[3] = c
  OBVIOUS
<1> HIDE DEF ms
<1>2. PICK w : /\ w[0] = g /\ \A n \in 1 .. Len(ms) : w[n] = Recorded(w[n - 1], ms[n])
               /\ RecordedAll(g, ms) = w[Len(ms)]
  BY <1>1, RecordedAllSteps
<1>3. /\ w[1] = Recorded(w[1 - 1], ms[1]) /\ 1 - 1 = 0
      /\ w[2] = Recorded(w[2 - 1], ms[2]) /\ 2 - 1 = 1
      /\ w[3] = Recorded(w[3 - 1], ms[3]) /\ 3 - 1 = 2
  BY <1>1, <1>2
<1> QED BY <1>1, <1>2, <1>3 DEF ms
----------------------------------------------------------------------------
(* How a group ends. N is the set of commands that run on another host, v   *)
(* the task's verdict.                                                      *)

\* What a reader takes for the task's end.
Ends(m, N) == m.kind = "closing" \/ (N = {} /\ m.finished)

\* Nothing in the group is the end.
Quiet(g, N) == \A k \in DOMAIN g : ~ Ends(g[k], N)

ExitFor(v) == IF v = "Completed" THEN "ok" ELSE "failed"

Honest(m, v) == m.finished /\ v # "none" /\ m.exit = ExitFor(v)

\* What ends the group is its last message and says the verdict.
Whole(g, N, v) == \A k \in DOMAIN g : Ends(g[k], N) => k = Len(g) /\ Honest(g[k], v)

Below(g, n) == \A k \in DOMAIN g : g[k].index < n

LEMMA QuietStays ==
    ASSUME NEW g \in Seq(ProperMessage), NEW m \in ProperMessage, NEW N,
           Quiet(g, N), ~ Ends(m, N)
    PROVE  Recorded(g, m) \in Seq(ProperMessage) /\ Quiet(Recorded(g, m), N)
<1> DEFINE r == Recorded(g, m)
<1>1. IsRecorded(g, m, r)
  BY RecordedIsRecorded
<1> HIDE DEF r
<1>2. ASSUME NEW k \in DOMAIN r PROVE ~ Ends(r[k], N)
  <2>1. CASE IsNew(g, m, r, k)
    BY <2>1 DEF Quiet, Ends, IsNew
  <2>2. CASE k \in DOMAIN g /\ Looks(r[k], g[k])
    BY <2>2 DEF Quiet, Ends, Looks
  <2> QED BY <1>1, <2>1, <2>2 DEF IsRecorded
<1> QED BY <1>1, <1>2 DEF Quiet, IsRecorded, r

LEMMA BelowStays ==
    ASSUME NEW g \in Seq(ProperMessage), NEW m \in ProperMessage, NEW n \in Int,
           Below(g, n), m.index < n
    PROVE  Below(Recorded(g, m), n)
<1> DEFINE r == Recorded(g, m)
<1>1. IsRecorded(g, m, r)
  BY RecordedIsRecorded
<1> HIDE DEF r
<1> QED BY <1>1 DEF IsRecorded, IsNew, Looks, Below, r

LEMMA BelowMore ==
    ASSUME NEW g \in Seq(ProperMessage), NEW n \in Int, NEW o \in Int, n <= o, Below(g, n)
    PROVE  Below(g, o)
<1>1. \A k \in DOMAIN g : g[k].index \in Int
  BY DEF ProperMessage, Message, NoIndex
<1> QED BY <1>1 DEF Below

\* A message whose index is new is put behind the others, and they look as before.
LEMMA BehindOthers ==
    ASSUME NEW g \in Seq(ProperMessage), NEW m \in ProperMessage, ~ Known(g, m)
    PROVE  /\ Recorded(g, m) \in Seq(ProperMessage)
           /\ \A k \in DOMAIN g :
                 k \in DOMAIN Recorded(g, m) /\ Looks(Recorded(g, m)[k], g[k])
           /\ ~ m.partial => \E k \in DOMAIN Recorded(g, m) :
                 IsNew(g, m, Recorded(g, m), k)
<1> DEFINE r == Recorded(g, m)
<1>1. IsRecorded(g, m, r)
  BY RecordedIsRecorded
<1> HIDE DEF r
<1>2. \A k \in DOMAIN g : k \in 1 .. Len(g) /\ Len(g) \in Nat
  OBVIOUS
<1>3. \A k \in DOMAIN g : ~ IsNew(g, m, r, k)
  BY <1>2 DEF IsNew, Known, Indexed
<1>4. \A k \in DOMAIN g : k \in DOMAIN r
  <2>1. r \in Seq(ProperMessage) /\ Len(r) \in {Len(g), Len(g) + 1}
    BY <1>1 DEF IsRecorded
  <2> QED BY <1>2, <2>1
<1> QED BY <1>1, <1>3, <1>4 DEF IsRecorded, r

\* The closing message becomes the last one, where no other but the last has its index.
LEMMA ClosingLands ==
    ASSUME NEW g \in Seq(ProperMessage), NEW m \in ProperMessage, NEW N, NEW v,
           Quiet(g, N), ~ m.partial, Honest(m, v),
           \A k \in DOMAIN g : m.index # NoIndex /\ g[k].index = m.index => k = Len(g)
    PROVE  Recorded(g, m) \in Seq(ProperMessage) /\ Whole(Recorded(g, m), N, v)
<1> DEFINE r == Recorded(g, m)
<1>1. IsRecorded(g, m, r)
  BY RecordedIsRecorded
<1> HIDE DEF r
<1>2. ASSUME NEW k \in DOMAIN r, Ends(r[k], N) PROVE k = Len(r) /\ Honest(r[k], v)
  <2>1. IsNew(g, m, r, k)
    <3>1. ~ (k \in DOMAIN g /\ Looks(r[k], g[k]))
      BY <1>2 DEF Quiet, Ends, Looks
    <3> QED BY <1>1, <3>1 DEF IsRecorded
  <2>2. m.finished /\ m.exit = ExitFor(v) /\ v # "none"
    BY DEF Honest
  <2>3. CASE k = Len(g) + 1 /\ k = Len(r) /\ r[k].finished = m.finished
    BY <2>1, <2>2, <2>3 DEF Honest, IsNew
  <2>4. CASE /\ k \in DOMAIN g /\ m.index # NoIndex /\ g[k].index = m.index
             /\ r[k].finished = (m.finished \/ g[k].finished)
    <3>1. Known(g, m)
      BY <2>4 DEF Known, Indexed
    <3>2. Len(r) = Len(g) /\ k = Len(g)
      BY <1>1, <2>4, <3>1 DEF IsRecorded
    <3>3. r[k].finished
      BY <2>2, <2>4
    <3> QED BY <2>1, <2>2, <3>2, <3>3 DEF Honest, IsNew
  <2> QED BY <2>1, <2>3, <2>4 DEF IsNew
<1> QED BY <1>1, <1>2 DEF Whole, IsRecorded, r

----------------------------------------------------------------------------
(* What the successor adopts.                                               *)

LEMMA AdoptedSteps ==
    ASSUME NEW g \in Seq(ProperMessage), NEW ms \in Seq(ProperMessage)
    PROVE  \E w : /\ w[0] = g /\ \A n \in 1 .. Len(ms) : w[n] = AdoptedOne(w[n - 1], ms[n])
                  /\ Adopted(g, ms) = w[Len(ms)]
<1> DEFINE L == Len(ms)
           F == [x \in Seq(ProperMessage) \X Nat |->
                   IF x[2] \in 1 .. L THEN AdoptedOne(x[1], ms[x[2]]) ELSE x[1]]
           Walk(u) == [n \in 0 .. L |-> IF n = 0 THEN g ELSE AdoptedOne(u[n - 1], ms[n])]
           w == CHOOSE u : u = Walk(u)
<1>1. F \in [Seq(ProperMessage) \X Nat -> Seq(ProperMessage)]
  <2> SUFFICES ASSUME NEW x \in Seq(ProperMessage) \X Nat, x[2] \in 1 .. L
               PROVE  AdoptedOne(x[1], ms[x[2]]) \in Seq(ProperMessage)
    OBVIOUS
  <2>1. x[1] \in Seq(ProperMessage) /\ ms[x[2]] \in ProperMessage
    OBVIOUS
  <2> QED BY <2>1 DEF AdoptedOne
<1>2. \A x \in Seq(ProperMessage), n \in 1 .. L : F[<<x, n>>] = AdoptedOne(x, ms[n])
  OBVIOUS
<1>3. L \in Nat
  OBVIOUS
<1> HIDE DEF F, L
<1>4. PICK r \in [0 .. L -> Seq(ProperMessage)] :
          r[0] = g /\ \A n \in 1 .. L : r[n] = F[<<r[n - 1], n>>]
  <2>1. Carries(Seq(ProperMessage), F, g, L)
    BY <1>1, <1>3, StepByStep
  <2> QED BY <2>1 DEF Carries
<1>5. ASSUME NEW n \in 1 .. L PROVE r[n] = AdoptedOne(r[n - 1], ms[n])
  <2>1. n - 1 \in 0 .. L
    BY <1>3
  <2> QED BY <1>2, <1>4, <2>1
<1>6. r = Walk(r)
  BY <1>4, <1>5
<1>7. w = Walk(w) /\ Adopted(g, ms) = w[L]
  BY <1>6 DEF Adopted, L
<1> HIDE DEF w
<1>8. w[0] = g /\ \A n \in 1 .. L : w[n] = AdoptedOne(w[n - 1], ms[n])
  BY <1>3, <1>7
<1> QED BY <1>7, <1>8 DEF L

\* What is adopted ends like the group it comes from.
LEMMA AdoptedWhole ==
    ASSUME NEW ms \in Seq(ProperMessage), NEW N, NEW v, Whole(ms, N, v)
    PROVE  Adopted(<<>>, ms) \in Seq(ProperMessage) /\ Whole(Adopted(<<>>, ms), N, v)
<1> DEFINE L == Len(ms)
           S == {x \in Seq(ProperMessage) : Quiet(x, N)}
<1>1. PICK w : /\ w[0] = <<>> /\ \A n \in 1 .. L : w[n] = AdoptedOne(w[n - 1], ms[n])
               /\ Adopted(<<>>, ms) = w[L]
  <2>1. <<>> \in Seq(ProperMessage)
    OBVIOUS
  <2> QED BY <2>1, AdoptedSteps
<1>2. L \in Nat /\ \A n \in 1 .. L : ms[n] \in ProperMessage /\ n \in DOMAIN ms
  OBVIOUS
<1>3. w[0] \in S
  BY <1>1 DEF Quiet
<1>4. CASE L = 0
  <2>1. Adopted(<<>>, ms) = <<>>
    BY <1>1, <1>4
  <2>2. <<>> \in Seq(ProperMessage) /\ DOMAIN <<>> = {}
    OBVIOUS
  <2>3. Whole(<<>>, N, v)
    BY <2>2 DEF Whole
  <2> QED BY <2>1, <2>2, <2>3
<1>5. CASE L # 0
  <2>1. ASSUME NEW n \in 1 .. (L - 1), w[n - 1] \in S PROVE w[n] \in S
    <3>1. n \in 1 .. L /\ n # L /\ ms[n] \in ProperMessage /\ n \in DOMAIN ms
      BY <1>2
    <3>2. ~ Ends(ms[n], N)
      BY <3>1 DEF Whole
    <3>3. w[n] = AdoptedOne(w[n - 1], ms[n])
      BY <1>1, <3>1
    <3>4. AdoptedOne(w[n - 1], ms[n]) \in S
      <4>1. CASE Known(w[n - 1], ms[n])
        BY <2>1, <4>1 DEF AdoptedOne
      <4>2. CASE ~ Known(w[n - 1], ms[n])
        <5> DEFINE x == w[n - 1]
                   r == Append(x, ms[n])
        <5>1. x \in Seq(ProperMessage) /\ Quiet(x, N)
          BY <2>1
        <5> HIDE DEF x
        <5>2. r \in Seq(ProperMessage) /\ Len(r) = Len(x) + 1 /\ r[Len(x) + 1] = ms[n]
              /\ \A k \in DOMAIN x : r[k] = x[k]
          BY <3>1, <5>1
        <5> HIDE DEF r
        <5>3. Quiet(r, N)
          BY <3>2, <5>1, <5>2 DEF Quiet
        <5> QED BY <4>2, <5>2, <5>3 DEF AdoptedOne, r, x
      <4> QED BY <4>1, <4>2
    <3> QED BY <3>3, <3>4
  <2>2. w[L - 1] \in S
    <3>1. L - 1 \in Nat /\ L - 1 \in 0 .. (L - 1)
      BY <1>2, <1>5
    <3> HIDE DEF S, L
    <3>2. \A n \in 0 .. (L - 1) : w[n] \in S
      BY <1>3, <2>1, <3>1, AllAlong
    <3> QED BY <3>1, <3>2
  <2> DEFINE x == w[L - 1]
             m == ms[L]
             r == Append(x, m)
  <2>3. x \in Seq(ProperMessage) /\ Quiet(x, N)
    BY <2>2
  <2>4. L \in 1 .. L /\ m \in ProperMessage /\ (Ends(m, N) => Honest(m, v))
    BY <1>2, <1>5 DEF Whole
  <2>5. Adopted(<<>>, ms) = AdoptedOne(x, m)
    BY <1>1, <2>4
  <2> HIDE DEF x, m
  <2>6. r \in Seq(ProperMessage) /\ Len(r) = Len(x) + 1 /\ r[Len(x) + 1] = m
        /\ \A k \in DOMAIN x : r[k] = x[k]
    BY <2>3, <2>4
  <2> HIDE DEF r
  <2>7. Whole(r, N, v)
    BY <2>3, <2>4, <2>6 DEF Quiet, Whole
  <2>8. Whole(x, N, v)
    BY <2>3 DEF Quiet, Whole
  <2> QED BY <2>3, <2>5, <2>6, <2>7, <2>8 DEF AdoptedOne, r
<1> QED BY <1>4, <1>5

----------------------------------------------------------------------------
(* What the mirror records.                                                 *)

Accs == [group : Seq(ProperMessage), told : Seq(ProperMessage), seen : SUBSET Nat]

\* The hub's own indexes are below the offset, the clone's are the seen ones above it.
Fits(acc) ==
    \A k \in DOMAIN acc.group :
        acc.group[k].index < Offset \/ acc.group[k].index - Offset \in acc.seen

\* Both ends of the hub's own part are in its group.
Staged(g) == \A n \in {1, 5} : \E k \in DOMAIN g : Name(g[k]) = <<"stage", n>>

\* What is mirrored of a message: nothing, or it is put behind the others.
MirroredOne(m, acc, new) ==
    \/ new = acc
    \/ /\ ~ Known(acc.group, Remapped(m))
       /\ new.group = Recorded(acc.group, Remapped(m))
       /\ new.told = Append(acc.told, Remapped(m))

LEMMA MirrorSteps ==
    ASSUME NEW acc \in Accs, NEW m \in ProperMessage, Offset \in Nat, Fits(acc)
    PROVE  /\ Remapped(m) \in ProperMessage
           /\ Remapped(m) = [m EXCEPT !.index = Remapped(m).index]
           /\ Mirrored(m, acc) \in Accs
           /\ Fits(Mirrored(m, acc))
           /\ MirroredOne(m, acc, Mirrored(m, acc))
<1> DEFINE x == Remapped(m)
<1>1. /\ x \in ProperMessage /\ x = [m EXCEPT !.index = x.index]
      /\ IF m.index = NoIndex THEN x.index = NoIndex
         ELSE m.index \in Nat /\ x.index = m.index + Offset
  <2>1. /\ m \in Message /\ (m.partial => m.index = NoIndex /\ ~ m.finished)
        /\ m.index \in Nat \cup {NoIndex}
    BY DEF ProperMessage, Message
  <2>2. CASE m.index = NoIndex
    <3>1. m = [m EXCEPT !.index = m.index]
      BY DEF ProperMessage, Message
    <3> QED BY <2>1, <2>2, <3>1 DEF Remapped
  <2>3. CASE m.index # NoIndex
    <3>1. x = [m EXCEPT !.index = m.index + Offset]
      BY <2>3 DEF Remapped
    <3>2. m.index + Offset \in Nat /\ m.index \in Nat
      BY <2>1, <2>3
    <3> QED BY <2>1, <2>3, <3>1, <3>2 DEF ProperMessage, Message
  <2> QED BY <2>2, <2>3
<1> HIDE DEF x
<1>2. CASE m.index \in acc.seen
  <2>1. Mirrored(m, acc) = acc
    BY <1>2 DEF Mirrored
  <2> QED BY <1>1, <2>1 DEF MirroredOne, x
<1>3. CASE m.index \notin acc.seen
  <2> DEFINE r == Recorded(acc.group, x)
             new == [group |-> r, told |-> Append(acc.told, x),
                     seen |-> IF m.index = NoIndex THEN acc.seen
                              ELSE acc.seen \cup {m.index}]
  <2>1. Mirrored(m, acc) = new
    BY <1>3 DEF Mirrored, x
  <2>2. /\ acc.group \in Seq(ProperMessage) /\ acc.told \in Seq(ProperMessage)
        /\ acc.seen \subseteq Nat
    BY DEF Accs
  <2>3. IsRecorded(acc.group, x, r)
    BY <1>1, <2>2, RecordedIsRecorded
  <2> HIDE DEF r
  <2>4. new \in Accs
    BY <1>1, <2>2, <2>3 DEF Accs, IsRecorded
  <2>5. \A k \in DOMAIN acc.group : acc.group[k].index \in Int
    BY <2>2 DEF ProperMessage, Message, NoIndex
  <2>6. ~ Known(acc.group, x)
    <3> SUFFICES ASSUME x.index # NoIndex, NEW k \in DOMAIN acc.group,
                        acc.group[k].index = x.index
                 PROVE  FALSE
      BY DEF Known, Indexed
    <3>1. acc.group[k].index < Offset \/ acc.group[k].index - Offset \in acc.seen
      BY DEF Fits
    <3>2. m.index # NoIndex /\ m.index \in Nat /\ x.index = m.index + Offset
      BY <1>1
    <3>3. (m.index + Offset) - Offset = m.index
      BY <3>2
    <3> QED BY <1>3, <3>1, <3>2, <3>3
  <2>7. ASSUME NEW k \in DOMAIN r PROVE r[k].index < Offset \/ r[k].index - Offset \in new.seen
    <3>1. CASE IsNew(acc.group, x, r, k)
      <4>1. r[k].index = x.index
        BY <3>1 DEF IsNew
      <4>2. CASE m.index = NoIndex
        BY <1>1, <4>1, <4>2 DEF NoIndex
      <4>3. CASE m.index # NoIndex
        <5>1. (m.index + Offset) - Offset = m.index
          BY <1>1, <4>3
        <5> QED BY <1>1, <4>1, <4>3, <5>1
      <4> QED BY <4>2, <4>3
    <3>2. CASE k \in DOMAIN acc.group /\ Looks(r[k], acc.group[k])
      BY <3>2 DEF Looks, Fits
    <3> QED BY <2>3, <3>1, <3>2 DEF IsRecorded
  <2>8. Fits(new)
    BY <2>7 DEF Fits
  <2>9. MirroredOne(m, acc, new)
    BY <2>6 DEF MirroredOne, r, x
  <2> HIDE DEF new
  <2> QED BY <1>1, <2>1, <2>4, <2>8, <2>9 DEF x
<1> QED BY <1>2, <1>3

\* Before the end is mirrored nothing is the end.
LEMMA MirrorQuiet ==
    ASSUME NEW acc \in Accs, NEW m \in ProperMessage, Offset \in Nat, Fits(acc), NEW N,
           Quiet(acc.group, N), Quiet(acc.told, N), ~ Ends(m, N)
    PROVE  Quiet(Mirrored(m, acc).group, N) /\ Quiet(Mirrored(m, acc).told, N)
<1> DEFINE x == Remapped(m)
           new == Mirrored(m, acc)
<1>1. x \in ProperMessage /\ x = [m EXCEPT !.index = x.index] /\ MirroredOne(m, acc, new)
  BY MirrorSteps
<1>2. ~ Ends(x, N)
  BY <1>1 DEF Ends, ProperMessage, Message
<1> HIDE DEF new
<1>3. acc.group \in Seq(ProperMessage) /\ acc.told \in Seq(ProperMessage)
  BY DEF Accs
<1>4. Quiet(Recorded(acc.group, x), N)
  BY <1>1, <1>2, <1>3, QuietStays
<1>5. Quiet(Append(acc.told, x), N)
  BY <1>1, <1>2, <1>3 DEF Quiet
<1> QED BY <1>1, <1>4, <1>5 DEF MirroredOne, new

\* The end is mirrored last.
LEMMA MirrorWhole ==
    ASSUME NEW acc \in Accs, NEW m \in ProperMessage, Offset \in Nat, Fits(acc), NEW N, NEW v,
           Quiet(acc.group, N), Quiet(acc.told, N), ~ m.partial, Honest(m, v)
    PROVE  Whole(Mirrored(m, acc).group, N, v) /\ Whole(Mirrored(m, acc).told, N, v)
<1> DEFINE x == Remapped(m)
           new == Mirrored(m, acc)
<1>1. x \in ProperMessage /\ x = [m EXCEPT !.index = x.index] /\ MirroredOne(m, acc, new)
  BY MirrorSteps
<1>2. Honest(x, v) /\ ~ x.partial
  BY <1>1 DEF Honest, ProperMessage, Message
<1> HIDE DEF new, x
<1>3. acc.group \in Seq(ProperMessage) /\ acc.told \in Seq(ProperMessage)
  BY DEF Accs
<1>4. ASSUME ~ Known(acc.group, x) PROVE Whole(Recorded(acc.group, x), N, v)
  <2>1. \A k \in DOMAIN acc.group : ~ (x.index # NoIndex /\ acc.group[k].index = x.index)
    BY <1>4 DEF Known, Indexed
  <2> QED BY <1>1, <1>2, <1>3, <2>1, ClosingLands
<1>5. Whole(Append(acc.told, x), N, v)
  BY <1>1, <1>2, <1>3 DEF Quiet, Whole
<1>6. Whole(acc.group, N, v) /\ Whole(acc.told, N, v)
  BY DEF Quiet, Whole
<1> QED BY <1>1, <1>4, <1>5, <1>6 DEF MirroredOne, new, x

\* What the hub said itself stays.
LEMMA MirrorStaged ==
    ASSUME NEW acc \in Accs, NEW m \in ProperMessage, Offset \in Nat, Fits(acc),
           Staged(acc.group)
    PROVE  Staged(Mirrored(m, acc).group)
<1> DEFINE x == Remapped(m)
           new == Mirrored(m, acc)
<1>1. x \in ProperMessage /\ MirroredOne(m, acc, new) /\ acc.group \in Seq(ProperMessage)
  BY MirrorSteps DEF Accs
<1> HIDE DEF new, x
<1>2. ASSUME ~ Known(acc.group, x) PROVE Staged(Recorded(acc.group, x))
  BY <1>1, <1>2, BehindOthers DEF Staged, Name, Looks
<1> QED BY <1>1, <1>2 DEF MirroredOne, new, x

LEMMA MirroredAllSteps ==
    ASSUME NEW first \in Accs, Fits(first), Offset \in Nat, group["clone"] \in Seq(ProperMessage),
           first = [group |-> group["hub"], told |-> <<>>, seen |-> mirror.seen]
    PROVE  \E w : /\ w[0] = first
                  /\ \A n \in 1 .. Len(group["clone"]) :
                        w[n] = Mirrored(group["clone"][n], w[n - 1])
                  /\ MirroredAll = w[Len(group["clone"])]
<1> DEFINE ms == group["clone"]
           L == Len(ms)
           G == {acc \in Accs : Fits(acc)}
           F == [x \in G \X Nat |-> IF x[2] \in 1 .. L THEN Mirrored(ms[x[2]], x[1]) ELSE x[1]]
           Walk(u) == [n \in 0 .. L |->
               IF n = 0 THEN [group |-> group["hub"], told |-> <<>>, seen |-> mirror.seen]
               ELSE Mirrored(ms[n], u[n - 1])]
           w == CHOOSE u : u = Walk(u)
<1>1. F \in [G \X Nat -> G]
  <2> SUFFICES ASSUME NEW x \in G \X Nat, x[2] \in 1 .. L
               PROVE  Mirrored(ms[x[2]], x[1]) \in G
    OBVIOUS
  <2>1. x[1] \in Accs /\ Fits(x[1]) /\ ms[x[2]] \in ProperMessage
    OBVIOUS
  <2> QED BY <2>1, MirrorSteps
<1>2. \A x \in G, n \in 1 .. L : F[<<x, n>>] = Mirrored(ms[n], x)
  OBVIOUS
<1>3. L \in Nat /\ first \in G
  OBVIOUS
<1> HIDE DEF F, L, G
<1>4. PICK r \in [0 .. L -> G] : r[0] = first /\ \A n \in 1 .. L : r[n] = F[<<r[n - 1], n>>]
  <2>1. Carries(G, F, first, L)
    BY <1>1, <1>3, StepByStep
  <2> QED BY <2>1 DEF Carries
<1>5. ASSUME NEW n \in 1 .. L PROVE r[n] = Mirrored(ms[n], r[n - 1])
  <2>1. n - 1 \in 0 .. L
    BY <1>3
  <2> QED BY <1>2, <1>4, <2>1
<1>6. r = Walk(r)
  BY <1>4, <1>5
<1>7. w = Walk(w) /\ MirroredAll = w[L]
  BY <1>6 DEF MirroredAll, L
<1> HIDE DEF w
<1>8. w[0] = first /\ \A n \in 1 .. L : w[n] = Mirrored(ms[n], w[n - 1])
  BY <1>3, <1>7
<1> QED BY <1>7, <1>8 DEF L

\* One poll: what the clone said so far is mirrored, its end last.
LEMMA MirroredAllWhole ==
    ASSUME NEW first \in Accs, Fits(first), Offset \in Nat, group["clone"] \in Seq(ProperMessage),
           first = [group |-> group["hub"], told |-> <<>>, seen |-> mirror.seen],
           group["clone"] # <<>>, NEW N, NEW v, Whole(group["clone"], N, v),
           Quiet(first.group, N), Staged(first.group)
    PROVE  /\ MirroredAll \in Accs /\ Fits(MirroredAll) /\ Staged(MirroredAll.group)
           /\ Whole(MirroredAll.group, N, v) /\ Whole(MirroredAll.told, N, v)
           /\ ~ MirrorEnds => Quiet(MirroredAll.group, N)
<1> DEFINE ms == group["clone"]
           L == Len(ms)
           S == {acc \in Accs : Fits(acc) /\ Staged(acc.group)
                                /\ Quiet(acc.group, N) /\ Quiet(acc.told, N)}
<1>1. PICK w : /\ w[0] = first /\ \A n \in 1 .. L : w[n] = Mirrored(ms[n], w[n - 1])
               /\ MirroredAll = w[L]
  BY MirroredAllSteps
<1>2. L \in Nat /\ L # 0 /\ \A n \in 1 .. L : ms[n] \in ProperMessage /\ n \in DOMAIN ms
  OBVIOUS
<1>3. ASSUME NEW acc \in S, NEW n \in 1 .. L
      PROVE  /\ Mirrored(ms[n], acc) \in Accs /\ Fits(Mirrored(ms[n], acc))
             /\ Staged(Mirrored(ms[n], acc).group)
             /\ ~ Ends(ms[n], N) => /\ Quiet(Mirrored(ms[n], acc).group, N)
                                    /\ Quiet(Mirrored(ms[n], acc).told, N)
  BY <1>2, MirrorSteps, MirrorStaged, MirrorQuiet
<1>4. w[0] \in S
  <2>1. first.told = <<>> /\ DOMAIN <<>> = {}
    OBVIOUS
  <2> QED BY <1>1, <2>1 DEF Quiet
<1>5. ASSUME NEW n \in 1 .. (L - 1), w[n - 1] \in S PROVE w[n] \in S
  <2>1. n \in 1 .. L /\ n # L /\ n \in DOMAIN ms
    BY <1>2
  <2>2. ~ Ends(ms[n], N)
    BY <2>1 DEF Whole
  <2>3. Mirrored(ms[n], w[n - 1]) \in S
    BY <1>3, <1>5, <2>1, <2>2
  <2> QED BY <1>1, <2>1, <2>3
<1>6. w[L - 1] \in S
  <2>1. L - 1 \in Nat /\ L - 1 \in 0 .. (L - 1)
    BY <1>2
  <2> HIDE DEF S, L
  <2>2. \A n \in 0 .. (L - 1) : w[n] \in S
    BY <1>4, <1>5, <2>1, AllAlong
  <2> QED BY <2>1, <2>2
<1> DEFINE acc == w[L - 1]
           m == ms[L]
<1>7. acc \in S /\ L \in 1 .. L /\ m \in ProperMessage /\ MirroredAll = Mirrored(m, acc)
  BY <1>1, <1>2, <1>6
<1>8. Ends(m, N) => Honest(m, v) /\ ~ m.partial
  BY <1>2, <1>7 DEF Whole, Honest, ProperMessage
<1>9. MirrorEnds <=> m.finished
  BY DEF MirrorEnds
<1> HIDE DEF acc
<1>10. CASE Ends(m, N)
  <2>1. Whole(Mirrored(m, acc).group, N, v) /\ Whole(Mirrored(m, acc).told, N, v)
    BY <1>7, <1>8, <1>10, MirrorWhole
  <2> QED BY <1>3, <1>7, <1>8, <1>9, <1>10, <2>1 DEF Honest
<1>11. CASE ~ Ends(m, N)
  <2>1. Quiet(Mirrored(m, acc).group, N) /\ Quiet(Mirrored(m, acc).told, N)
    BY <1>3, <1>7, <1>11
  <2> QED BY <1>3, <1>7, <2>1 DEF Quiet, Whole
<1> QED BY <1>10, <1>11

\* The offset is above what the hub said.
LEMMA OffsetAbove ==
    ASSUME group["hub"] \in Seq(ProperMessage), NEW n \in Nat, Below(group["hub"], n),
           mirror.offset = NoIndex
    PROVE  Offset \in Nat /\ Below(group["hub"], Offset)
<1> DEFINE T == {NoIndex} \cup {group["hub"][k].index : k \in DOMAIN group["hub"]}
           U == {u \in Nat : n - u \in T}
<1>1. \A x \in T : x \in Int /\ x >= NoIndex /\ x <= n
  BY DEF ProperMessage, Message, NoIndex, Below
<1>2. U # {}
  <2>1. n + 1 \in Nat /\ n - (n + 1) = NoIndex /\ NoIndex \in T
    BY DEF NoIndex
  <2>2. n + 1 \in U
    BY <2>1
  <2> QED BY <2>2
<1>3. PICK u \in U : \A y \in U : u <= y
  BY <1>2, LeastNumber
<1>4. n - u \in T /\ u \in Nat
  BY <1>3
<1>5. ASSUME NEW y \in T PROVE n - u >= y
  <2>0. y \in Int /\ y <= n
    BY <1>1, <1>5
  <2>1. n - y \in Nat /\ n - (n - y) = y /\ y \in Int
    BY <2>0
  <2>2. n - y \in U
    BY <2>1
  <2>3. u <= n - y
    BY <1>3, <2>2
  <2> QED BY <1>4, <2>1, <2>3
<1>6. Max(T) \in T /\ \A y \in T : Max(T) >= y
  BY <1>4, <1>5 DEF Max
<1>7. Offset = Max(T) + 1
  BY DEF Offset
<1>8. ASSUME NEW k \in DOMAIN group["hub"] PROVE group["hub"][k].index \in T
  OBVIOUS
<1> HIDE DEF T
<1>9. Max(T) \in Int /\ Max(T) >= NoIndex
  BY <1>1, <1>6
<1>10. Offset \in Nat
  BY <1>7, <1>9 DEF NoIndex
<1>11. \A y \in T : y < Max(T) + 1
  BY <1>1, <1>6, <1>9
<1> QED BY <1>7, <1>8, <1>10, <1>11 DEF Below

----------------------------------------------------------------------------
(* What holds all along.                                                    *)

\* What says a verdict says the task's; a nested run may have one of its own.
TrueMessages(N, v) ==
    {m \in Message : N = {} /\ m.finished => v # "none" /\ m.exit = ExitFor(v)}

TrueEvents(N, v) ==
    {e \in [snapshot : BOOLEAN, messages : Seq(TrueMessages(N, v))] :
        ~ e.snapshot => Len(e.messages) = 1}

Wires(N, v) == [at : Places \cup {"nobody"}, events : Seq(TrueEvents(N, v))]

Pages(N, v) == [streaming : BOOLEAN, rows : SUBSET Seq(TrueMessages(N, v))]

Tasks == [phase : Phases, at : 1 .. NSteps + 1, talk : BOOLEAN,
          verdict : {"none", "Completed", "Failed"}]

Shapes ==
    /\ way \in {"direct", "clone"}
    /\ group \in [Places -> Seq(ProperMessage)]
    /\ count \in [Places -> Nat]
    /\ task \in Tasks
    /\ hub \in HubStates
    /\ mirror \in [offset : Nat \cup {NoIndex}, seen : SUBSET Nat]
    /\ "result" \in DOMAIN client

Course ==
    /\ task.phase = "over" <=> task.verdict # "none"
    /\ way = "direct" <=> hub = "idle"
    /\ successor # "adopted" => group["new"] = <<>>

\* Until the task is over its own group has no end, and until the mirror has
\* brought the end neither has the hub's.
GroupsEnd ==
    /\ \A p \in Places : Whole(group[p], nested, task.verdict)
    /\ task.phase # "over" => Quiet(group[Runner], nested)
    /\ hub \in {"stage", "handoff", "mirror"} => Quiet(group["hub"], nested)

\* The next number is new where a message is said, and above the offset only
\* what the mirror has seen is there.
Numbered ==
    /\ task.phase \notin {"over", "destroyed"} => Below(group[Runner], count[Runner])
    /\ hub \in {"stage", "handoff"} =>
          mirror.offset = NoIndex /\ Below(group["hub"], count["hub"])
    /\ hub = "mirror" /\ mirror.offset = NoIndex => Below(group["hub"], count["hub"])
    /\ hub = "mirror" /\ mirror.offset # NoIndex =>
          \A k \in DOMAIN group["hub"] :
              \/ group["hub"][k].index < mirror.offset
              \/ group["hub"][k].index - mirror.offset \in mirror.seen

StagesSaid ==
    /\ hub = "handoff" => \E k \in DOMAIN group["hub"] : Name(group["hub"][k]) = <<"stage", 1>>
    /\ hub \in {"mirror", "mirrored"} => Staged(group["hub"])

\* What is under way, on the page and with the client is true; a page that
\* listens shows no end.
ToldTrue ==
    /\ wire \in Wires(nested, task.verdict)
    /\ page \in Pages(nested, task.verdict)
    /\ page.streaming => \A g \in page.rows : \A k \in DOMAIN g : ~ g[k].finished
    /\ nested = {} /\ client.result = "success" => task.verdict = "Completed"
    /\ nested = {} /\ client.result = "failure" => task.verdict = "Failed"

MonitorIInv ==
    Shapes /\ Course /\ GroupsEnd /\ Numbered /\ StagesSaid /\ ToldTrue

LEMMA SequencesGrow ==
    ASSUME NEW S, NEW T, S \subseteq T
    PROVE  Seq(S) \subseteq Seq(T)
<1> SUFFICES ASSUME NEW s \in Seq(S) PROVE s \in Seq(T)
  OBVIOUS
<1>1. Len(s) \in Nat /\ s = [k \in 1 .. Len(s) |-> s[k]] /\ \A k \in 1 .. Len(s) : s[k] \in T
  OBVIOUS
<1> QED BY <1>1

\* Before there is a verdict nothing says one, so whatever it becomes, all is true.
LEMMA TruthGrows ==
    ASSUME NEW N, NEW v
    PROVE  /\ TrueMessages(N, "none") \subseteq TrueMessages(N, v)
           /\ Wires(N, "none") \subseteq Wires(N, v)
           /\ Pages(N, "none") \subseteq Pages(N, v)
<1>1. TrueMessages(N, "none") \subseteq TrueMessages(N, v)
  BY DEF TrueMessages
<1>2. Seq(TrueMessages(N, "none")) \subseteq Seq(TrueMessages(N, v))
  BY <1>1, SequencesGrow
<1>3. TrueEvents(N, "none") \subseteq TrueEvents(N, v)
  BY <1>2 DEF TrueEvents
<1>4. Seq(TrueEvents(N, "none")) \subseteq Seq(TrueEvents(N, v))
  BY <1>3, SequencesGrow
<1>5. Wires(N, "none") \subseteq Wires(N, v)
  BY <1>4 DEF Wires
<1>6. Pages(N, "none") \subseteq Pages(N, v)
  BY <1>2 DEF Pages
<1> QED BY <1>1, <1>5, <1>6

LEMMA WholeIsTrue ==
    ASSUME NEW g \in Seq(ProperMessage), NEW N, NEW v, Whole(g, N, v)
    PROVE  g \in Seq(TrueMessages(N, v))
<1>1. \A k \in 1 .. Len(g) : g[k] \in TrueMessages(N, v)
  <2> SUFFICES ASSUME NEW k \in 1 .. Len(g) PROVE g[k] \in TrueMessages(N, v)
    OBVIOUS
  <2>1. k \in DOMAIN g /\ g[k] \in ProperMessage
    OBVIOUS
  <2> QED BY <2>1 DEF TrueMessages, ProperMessage, Whole, Ends, Honest
<1> QED BY <1>1

LEMMA QuietIsWhole ==
    ASSUME NEW g, NEW N, NEW v, Quiet(g, N)
    PROVE  Whole(g, N, v)
  BY DEF Quiet, Whole

LEMMA WithoutVerdict ==
    ASSUME NEW g, NEW N, NEW v, Whole(g, N, "none")
    PROVE  Quiet(g, N) /\ Whole(g, N, v)
  BY DEF Quiet, Whole, Honest

LEMMA NotifiedTrue ==
    ASSUME NEW N, NEW v, NEW p, NEW ms \in Seq(TrueMessages(N, v)), wire \in Wires(N, v)
    PROVE  Notified(p, ms) \in Wires(N, v)
<1> DEFINE es == [k \in DOMAIN ms |-> [snapshot |-> FALSE, messages |-> <<ms[k]>>]]
<1>1. ASSUME NEW k \in DOMAIN ms
      PROVE  [snapshot |-> FALSE, messages |-> <<ms[k]>>] \in TrueEvents(N, v)
  <2>1. ms[k] \in TrueMessages(N, v)
    OBVIOUS
  <2>2. <<ms[k]>> \in Seq(TrueMessages(N, v)) /\ Len(<<ms[k]>>) = 1
    BY <2>1
  <2> QED BY <2>2 DEF TrueEvents
<1>2. es \in Seq(TrueEvents(N, v))
  <2>1. DOMAIN ms = 1 .. Len(ms) /\ Len(ms) \in Nat
    OBVIOUS
  <2> QED BY <1>1, <2>1
<1>3. wire.events \o es \in Seq(TrueEvents(N, v))
  BY <1>2 DEF Wires
<1>4. Notified(p, ms) = IF wire.at = p THEN [wire EXCEPT !.events = @ \o es] ELSE wire
  BY DEF Notified
<1> HIDE DEF es
<1> QED BY <1>3, <1>4 DEF Wires

----------------------------------------------------------------------------
LEMMA MonitorStart == MonitorInit => MonitorIInv
<1> SUFFICES ASSUME MonitorInit PROVE MonitorIInv
  OBVIOUS
<1> USE DEF MonitorInit, TaskInit
<1>1. way \in {"direct", "clone"}
  BY ChoicesAssumption
<1>2. group \in [Places -> Seq(ProperMessage)] /\ \A p \in Places : group[p] = <<>>
  OBVIOUS
<1>3. count \in [Places -> Nat]
  BY ChoicesAssumption
<1>4. \A p \in Places : Quiet(group[p], nested) /\ \A n : Below(group[p], n)
  <2>1. DOMAIN <<>> = {}
    OBVIOUS
  <2> QED BY <1>2, <2>1 DEF Quiet, Below
<1>5. Runner \in Places /\ "hub" \in Places /\ "new" \in Places
  BY DEF Runner, Places
<1>6. Shapes
  <2>1. task \in Tasks
    BY StepsAssumption, SMT DEF Tasks, Phases
  <2>2. hub \in HubStates /\ mirror \in [offset : Nat \cup {NoIndex}, seen : SUBSET Nat]
    BY DEF HubStates
  <2>3. "result" \in DOMAIN client
    OBVIOUS
  <2> QED BY <1>1, <1>2, <1>3, <2>1, <2>2, <2>3 DEF Shapes
<1>7. Course
  BY <1>1, <1>2, <1>5 DEF Course
<1>8. GroupsEnd
  BY <1>4, <1>5, QuietIsWhole DEF GroupsEnd
<1>9. Numbered
  BY <1>4, <1>5 DEF Numbered
<1>10. StagesSaid
  BY DEF StagesSaid
<1>11. ToldTrue
  <2>1. wire \in Wires(nested, task.verdict)
    <3>1. <<>> \in Seq(TrueEvents(nested, task.verdict))
      OBVIOUS
    <3> QED BY <3>1 DEF Wires
  <2>2. page \in Pages(nested, task.verdict)
    BY DEF Pages
  <2> QED BY <2>1, <2>2 DEF ToldTrue
<1> QED BY <1>6, <1>7, <1>8, <1>9, <1>10, <1>11 DEF MonitorIInv

----------------------------------------------------------------------------
(* What the task says.                                                      *)

\* What its group becomes when the task goes to the given phase and verdict.
Spoken(r, p, v, n) ==
    /\ r \in Seq(ProperMessage) /\ Whole(r, nested, v)
    /\ p # "over" => Quiet(r, nested)
    /\ p \notin {"over", "destroyed"} => Below(r, n)

LEMMA SpeaksKeeps ==
    ASSUME MonitorIInv, task.verdict = "none", task' \in Tasks,
           task'.phase = "over" <=> task'.verdict # "none",
           NEW ms, NEW n \in Nat, Speaks(ms, n), page' = page,
           ms \in Seq(TrueMessages(nested, task'.verdict)),
           Spoken(RecordedAll(group[Runner], ms), task'.phase, task'.verdict, count[Runner] + n)
    PROVE  MonitorIInv'
<1> DEFINE R == RecordedAll(group[Runner], ms)
           v == task'.verdict
<1> USE DEF MonitorIInv
<1>1. /\ group' = [group EXCEPT ![Runner] = R]
      /\ count' = [count EXCEPT ![Runner] = @ + n]
      /\ wire' = Notified(Runner, ms)
      /\ UNCHANGED <<way, nested, hub, mirror, successor, client, page>>
  BY DEF Speaks, Says, asked
<1>2. /\ Runner' = Runner /\ Runner \in Places /\ Runner # "new"
      /\ "hub" \in Places /\ "new" \in Places /\ (hub = "idle" <=> Runner = "hub")
  BY <1>1 DEF Runner, Places, Course, Shapes
<1>3. Spoken(R, task'.phase, v, count[Runner] + n)
  OBVIOUS
<1> HIDE DEF R
<1>4. /\ group'[Runner] = R /\ \A p \in Places \ {Runner} : group'[p] = group[p]
      /\ count'[Runner] = count[Runner] + n
      /\ \A p \in Places \ {Runner} : count'[p] = count[p]
  BY <1>1, <1>2 DEF Shapes
<1>5. Shapes'
  BY <1>1, <1>2, <1>3 DEF Shapes, Spoken
<1>6. Course'
  BY <1>1, <1>2, <1>4 DEF Course
<1>7. GroupsEnd'
  <2>1. ASSUME NEW p \in Places PROVE Whole(group'[p], nested, v)
    <3>1. CASE p = Runner
      BY <1>3, <1>4, <3>1 DEF Spoken
    <3>2. CASE p # Runner
      BY <1>4, <3>2, WithoutVerdict DEF GroupsEnd
    <3> QED BY <3>1, <3>2
  <2>2. task'.phase # "over" => Quiet(group'[Runner], nested)
    BY <1>3, <1>4 DEF Spoken
  <2>3. hub \in {"stage", "handoff", "mirror"} => Quiet(group'["hub"], nested)
    BY <1>2, <1>4 DEF GroupsEnd
  <2> QED BY <1>1, <1>2, <2>1, <2>2, <2>3 DEF GroupsEnd
<1>8. Numbered'
  <2>1. hub # "idle" => group'["hub"] = group["hub"] /\ count'["hub"] = count["hub"]
    BY <1>2, <1>4
  <2>2. task'.phase \notin {"over", "destroyed"} => Below(group'[Runner], count'[Runner])
    BY <1>3, <1>4 DEF Spoken
  <2> QED BY <1>1, <1>2, <2>1, <2>2 DEF Numbered
<1>9. StagesSaid'
  <2>1. hub # "idle" => group'["hub"] = group["hub"]
    BY <1>2, <1>4
  <2> QED BY <1>1, <2>1 DEF StagesSaid
<1>10. ToldTrue'
  <2>1. wire \in Wires(nested, v) /\ page \in Pages(nested, v)
    BY TruthGrows DEF ToldTrue
  <2>2. wire' \in Wires(nested, v)
    BY <1>1, <2>1, NotifiedTrue
  <2> QED BY <1>1, <2>1, <2>2 DEF ToldTrue
<1> QED BY <1>5, <1>6, <1>7, <1>8, <1>9, <1>10

\* A new message of deployer p.
LEMMA SaidIsProper ==
    ASSUME Shapes, NEW p \in Places, NEW n \in Nat, NEW kind \in MessageKinds, NEW step \in Nat,
           NEW exit \in Exits, NEW error \in BOOLEAN
    PROVE  /\ Said(p, n, kind, step, exit, error) \in ProperMessage
           /\ Said(p, n, kind, step, exit, error).index = count[p] + n
           /\ Said(p, n, kind, step, exit, error).kind = kind
           /\ Said(p, n, kind, step, exit, error).step = step
           /\ Said(p, n, kind, step, exit, error).exit = exit
           /\ ~ Said(p, n, kind, step, exit, error).partial
           /\ Said(p, n, kind, step, exit, error).finished = (kind \in {"closing", "nested"})
           /\ count[p] \in Nat
<1>1. count[p] \in Nat /\ count[p] + n \in Nat
  BY DEF Shapes
<1> QED BY <1>1 DEF Said, ProperMessage, Message

\* What the runner's group is like while the task goes on.
LEMMA WhileItRuns ==
    ASSUME MonitorIInv, task.phase \in {"steps", "rollback"}
    PROVE  /\ Runner \in Places /\ count[Runner] \in Nat /\ task.verdict = "none"
           /\ task \in Tasks /\ Shapes
           /\ group[Runner] \in Seq(ProperMessage) /\ Quiet(group[Runner], nested)
           /\ Below(group[Runner], count[Runner])
<1>1. Runner \in Places
  BY DEF Runner, Places
<1> QED BY <1>1 DEF MonitorIInv, Shapes, Course, GroupsEnd, Numbered

\* One more message is recorded below index n.
LEMMA OneMore ==
    ASSUME NEW g \in Seq(ProperMessage), NEW a \in ProperMessage, NEW N, NEW b \in Int,
           NEW n \in Int, b <= n, Quiet(g, N), Below(g, b), ~ Ends(a, N), a.index < n
    PROVE  /\ Recorded(g, a) \in Seq(ProperMessage) /\ Quiet(Recorded(g, a), N)
           /\ Below(Recorded(g, a), n)
<1>1. Below(g, n)
  BY BelowMore
<1> QED BY <1>1, QuietStays, BelowStays

LEMMA SaysOne ==
    ASSUME MonitorIInv, task.phase \in {"steps", "rollback"}, page' = page,
           NEW a \in ProperMessage, ~ Ends(a, nested), NEW n \in Nat,
           a.index < count[Runner] + n, Speaks(<<a>>, n),
           task' \in Tasks, task'.phase \in {"steps", "rollback"}, task'.verdict = "none"
    PROVE  MonitorIInv'
<1> DEFINE g == group[Runner]
<1>1. /\ g \in Seq(ProperMessage) /\ Quiet(g, nested) /\ Below(g, count[Runner])
      /\ task.verdict = "none" /\ count[Runner] \in Nat
  BY WhileItRuns
<1> HIDE DEF g
<1>2. /\ Recorded(g, a) \in Seq(ProperMessage) /\ Quiet(Recorded(g, a), nested)
      /\ Below(Recorded(g, a), count[Runner] + n)
  BY <1>1, OneMore
<1>4. Spoken(RecordedAll(g, <<a>>), task'.phase, task'.verdict, count[Runner] + n)
  BY <1>1, <1>2, RecordedOne, QuietIsWhole DEF Spoken
<1>5. <<a>> \in Seq(TrueMessages(nested, task'.verdict))
  BY DEF TrueMessages, ProperMessage, Ends
<1> QED BY <1>1, <1>4, <1>5, SpeaksKeeps DEF g

LEMMA SaysTwo ==
    ASSUME MonitorIInv, task.phase \in {"steps", "rollback"}, page' = page,
           NEW a \in ProperMessage, ~ Ends(a, nested), NEW b \in ProperMessage, ~ Ends(b, nested),
           NEW n \in Nat, a.index < count[Runner] + n, b.index < count[Runner] + n,
           Speaks(<<a, b>>, n),
           task' \in Tasks, task'.phase \in {"steps", "rollback"}, task'.verdict = "none"
    PROVE  MonitorIInv'
<1> DEFINE g == group[Runner]
           x == Recorded(g, a)
<1>1. /\ g \in Seq(ProperMessage) /\ Quiet(g, nested) /\ Below(g, count[Runner])
      /\ task.verdict = "none" /\ count[Runner] \in Nat
  BY WhileItRuns
<1> HIDE DEF g
<1>2. x \in Seq(ProperMessage) /\ Quiet(x, nested) /\ Below(x, count[Runner] + n)
  BY <1>1, OneMore
<1>4. RecordedAll(g, <<a, b>>) = Recorded(x, b)
  BY <1>1, RecordedTwo
<1> HIDE DEF x
<1>5. /\ Recorded(x, b) \in Seq(ProperMessage) /\ Quiet(Recorded(x, b), nested)
      /\ Below(Recorded(x, b), count[Runner] + n)
  BY <1>1, <1>2, OneMore
<1>6. Spoken(RecordedAll(g, <<a, b>>), task'.phase, task'.verdict, count[Runner] + n)
  BY <1>4, <1>5, QuietIsWhole DEF Spoken
<1>7. <<a, b>> \in Seq(TrueMessages(nested, task'.verdict))
  BY DEF TrueMessages, ProperMessage, Ends
<1> QED BY <1>1, <1>6, <1>7, SpeaksKeeps DEF g

\* The task says its last words: what they were recorded in, x, has no end.
LEMMA SaysEnd ==
    ASSUME MonitorIInv, task.phase \in {"steps", "rollback"}, page' = page,
           task' \in Tasks, task'.phase = "over", task'.verdict # "none",
           NEW ms \in Seq(TrueMessages(nested, task'.verdict)), NEW n \in Nat, Speaks(ms, n),
           NEW x \in Seq(ProperMessage), Quiet(x, nested), NEW c \in ProperMessage,
           Honest(c, task'.verdict),
           \A k \in DOMAIN x : c.index # NoIndex /\ x[k].index = c.index => k = Len(x),
           RecordedAll(group[Runner], ms) = Recorded(x, c)
    PROVE  MonitorIInv'
<1>1. ~ c.partial
  BY DEF ProperMessage, Honest
<1>2. Recorded(x, c) \in Seq(ProperMessage) /\ Whole(Recorded(x, c), nested, task'.verdict)
  BY <1>1, ClosingLands
<1>3. Spoken(RecordedAll(group[Runner], ms), task'.phase, task'.verdict, count[Runner] + n)
  BY <1>2 DEF Spoken
<1>4. task.verdict = "none"
  BY DEF MonitorIInv, Course
<1> QED BY <1>3, <1>4, SpeaksKeeps

\* Nothing in a group has an index at which all its indexes end.
LEMMA NoneAbove ==
    ASSUME NEW g \in Seq(ProperMessage), NEW n \in Int, Below(g, n)
    PROVE  \A k \in DOMAIN g : g[k].index # n
<1>1. \A k \in DOMAIN g : g[k].index \in Int
  BY DEF ProperMessage, Message, NoIndex
<1> QED BY <1>1 DEF Below

LEMMA OneAndOne ==
    ASSUME NEW S, NEW a \in S, NEW c \in S
    PROVE  <<a>> \o <<c>> = <<a, c>>
<1> DEFINE x == <<a>>
           y == <<c>>
           z == <<a, c>>
<1>1. /\ x \in Seq(S) /\ Len(x) = 1 /\ x[1] = a /\ y \in Seq(S) /\ Len(y) = 1 /\ y[1] = c
      /\ z \in Seq(S) /\ Len(z) = 2 /\ z[1] = a /\ z[2] = c
  OBVIOUS
<1> HIDE DEF x, y, z
<1>2. /\ x \o y \in Seq(S) /\ Len(x \o y) = 2
      /\ \A k \in 1 .. 2 : (x \o y)[k] = IF k <= 1 THEN x[k] ELSE y[k - 1]
  <2>1. Len(x) + Len(y) = 2
    BY <1>1
  <2>2. /\ x \o y \in Seq(S) /\ Len(x \o y) = Len(x) + Len(y)
        /\ \A k \in 1 .. Len(x) + Len(y) :
              (x \o y)[k] = IF k <= Len(x) THEN x[k] ELSE y[k - Len(x)]
    BY <1>1, ConcatProperties
  <2> QED BY <1>1, <2>1, <2>2
<1>3. \A k \in 1 .. Len(x \o y) : (x \o y)[k] = z[k]
  BY <1>1, <1>2
<1>4. x \o y = z
  BY <1>1, <1>2, <1>3, SeqEqual
<1> QED BY <1>4 DEF x, y, z

LEMMA TwoAndOne ==
    ASSUME NEW S, NEW a \in S, NEW b \in S, NEW c \in S
    PROVE  <<a, b>> \o <<c>> = <<a, b, c>>
<1> DEFINE x == <<a, b>>
           y == <<c>>
           z == <<a, b, c>>
<1>1. /\ x \in Seq(S) /\ Len(x) = 2 /\ x[1] = a /\ x[2] = b
      /\ y \in Seq(S) /\ Len(y) = 1 /\ y[1] = c
      /\ z \in Seq(S) /\ Len(z) = 3 /\ z[1] = a /\ z[2] = b /\ z[3] = c
  OBVIOUS
<1> HIDE DEF x, y, z
<1>2. /\ x \o y \in Seq(S) /\ Len(x \o y) = 3
      /\ \A k \in 1 .. 3 : (x \o y)[k] = IF k <= 2 THEN x[k] ELSE y[k - 2]
  <2>1. Len(x) + Len(y) = 3
    BY <1>1
  <2>2. /\ x \o y \in Seq(S) /\ Len(x \o y) = Len(x) + Len(y)
        /\ \A k \in 1 .. Len(x) + Len(y) :
              (x \o y)[k] = IF k <= Len(x) THEN x[k] ELSE y[k - Len(x)]
    BY <1>1, ConcatProperties
  <2> QED BY <1>1, <2>1, <2>2
<1>3. \A k \in 1 .. Len(x \o y) : (x \o y)[k] = z[k]
  BY <1>1, <1>2
<1>4. x \o y = z
  BY <1>1, <1>2, <1>3, SeqEqual
<1> QED BY <1>4 DEF x, y, z

\* What the task says while it goes on, with its index.
GoesOn(a, n) == a \in ProperMessage /\ a.index = n /\ ~ Ends(a, nested)

LEMMA SaidGoesOn ==
    ASSUME Shapes, NEW p \in Places, NEW n \in Nat, NEW kind \in MessageKinds \ {"closing"},
           kind = "nested" => nested # {}, NEW step \in Nat, NEW exit \in Exits,
           NEW error \in BOOLEAN
    PROVE  GoesOn(Said(p, n, kind, step, exit, error), count[p] + n)
<1> DEFINE a == Said(p, n, kind, step, exit, error)
<1>1. /\ a \in ProperMessage /\ a.index = count[p] + n /\ a.kind = kind
      /\ a.finished = (kind \in {"closing", "nested"})
  BY SaidIsProper
<1> HIDE DEF a
<1>2. a.kind # "closing" /\ (a.finished => kind = "nested")
  BY <1>1
<1>3. ~ Ends(a, nested)
  BY <1>2 DEF Ends
<1> QED BY <1>1, <1>3 DEF a, GoesOn

LEMMA KindsAndExits ==
    /\ "result" \in MessageKinds \ {"closing"} /\ "error" \in MessageKinds \ {"closing"}
    /\ "nested" \in MessageKinds \ {"closing"} /\ "rollback" \in MessageKinds \ {"closing"}
    /\ "rollbackError" \in MessageKinds \ {"closing"}
    /\ "stage" \in MessageKinds \ {"closing"} /\ "handoff" \in MessageKinds \ {"closing"}
    /\ "ok" \in Exits /\ "failed" \in Exits /\ "open" \in Exits
    /\ TRUE \in BOOLEAN /\ FALSE \in BOOLEAN
    /\ 0 \in Nat /\ 1 \in Nat /\ 2 \in Nat
  BY DEF MessageKinds, Exits

LEMMA TalksKeeps == ASSUME MonitorIInv, Talks, page' = page PROVE MonitorIInv'
<1> DEFINE step == IF InStep THEN task.at ELSE 0
           a == Chunk(step)
<1>1. task.phase \in {"steps", "rollback"}
  BY DEF Talks, InStep
<1>2. task \in Tasks /\ task.verdict = "none" /\ count[Runner] \in Nat
  BY <1>1, WhileItRuns
<1>3. step \in Nat
  BY <1>2, StepsAssumption DEF Tasks
<1>4. a \in ProperMessage /\ ~ Ends(a, nested) /\ a.index = NoIndex
  BY <1>3 DEF Chunk, ProperMessage, Message, MessageKinds, Exits, Ends
<1>5. Speaks(<<a>>, 0) /\ task' = [task EXCEPT !.talk = TRUE]
  BY DEF Talks
<1> HIDE DEF a
<1>6. task' \in Tasks /\ task'.phase \in {"steps", "rollback"} /\ task'.verdict = "none"
  BY <1>1, <1>2, <1>5 DEF Tasks
<1>7. a.index < count[Runner] + 0
  BY <1>2, <1>4 DEF NoIndex
<1> QED BY <1>1, <1>4, <1>5, <1>6, <1>7, SaysOne

\* Behind a command comes the next one.
LEMMA NextIsATask ==
    ASSUME task \in Tasks, InStep, NextStep, task.verdict = "none"
    PROVE  task' \in Tasks /\ task'.phase \in {"steps", "rollback"} /\ task'.verdict = "none"
<1>1. task.at + 1 \in 1 .. NSteps + 1
  BY StepsAssumption DEF Tasks, InStep
<1> QED BY <1>1 DEF Tasks, InStep, NextStep

LEMMA StepEndsKeeps ==
    ASSUME MonitorIInv, StepSucceeds \/ StepWarns \/ NestedEnds, page' = page PROVE MonitorIInv'
<1>1. InStep /\ NextStep /\ task.phase \in {"steps", "rollback"}
  BY DEF StepSucceeds, StepWarns, NestedEnds, InStep
<1>2. /\ task \in Tasks /\ task.verdict = "none" /\ count[Runner] \in Nat /\ Shapes
      /\ Runner \in Places
  BY <1>1, WhileItRuns
<1>3. task' \in Tasks /\ task'.phase \in {"steps", "rollback"} /\ task'.verdict = "none"
  BY <1>1, <1>2, NextIsATask
<1>4. task.at \in Nat
  BY <1>2, StepsAssumption DEF Tasks
<1>5. CASE StepSucceeds
  <2> DEFINE a == Said(Runner, 0, "result", task.at, "ok", FALSE)
  <2>1. GoesOn(a, count[Runner] + 0)
    BY <1>2, <1>4, SaidGoesOn, KindsAndExits
  <2>2. Speaks(<<a>>, 1)
    BY <1>5 DEF StepSucceeds
  <2> HIDE DEF a
  <2>3. a.index < count[Runner] + 1
    BY <1>2, <2>1 DEF GoesOn
  <2> QED BY <1>1, <1>3, <2>1, <2>2, <2>3, SaysOne DEF GoesOn
<1>6. CASE StepWarns
  <2> DEFINE a == Said(Runner, 1, "result", task.at, "open", TRUE)
  <2>1. GoesOn(a, count[Runner] + 1)
    BY <1>2, <1>4, SaidGoesOn, KindsAndExits
  <2>2. Speaks(<<a>>, 2)
    BY <1>6 DEF StepWarns
  <2> HIDE DEF a
  <2>3. a.index < count[Runner] + 2
    BY <1>2, <2>1 DEF GoesOn
  <2> QED BY <1>1, <1>3, <2>1, <2>2, <2>3, SaysOne DEF GoesOn
<1>7. CASE NestedEnds
  <2>1. PICK exit \in {"ok", "failed"} :
            Speaks(<<Said(Runner, 0, "nested", task.at, exit, FALSE)>>, 1)
    BY <1>7 DEF NestedEnds
  <2> DEFINE a == Said(Runner, 0, "nested", task.at, exit, FALSE)
  <2>2. nested # {}
    BY <1>7 DEF NestedEnds
  <2>3. exit \in Exits
    BY DEF Exits
  <2>4. GoesOn(a, count[Runner] + 0)
    BY <1>2, <1>4, <2>2, <2>3, SaidGoesOn, KindsAndExits
  <2> HIDE DEF a
  <2>5. a.index < count[Runner] + 1
    BY <1>2, <2>4 DEF GoesOn
  <2> QED BY <1>1, <1>3, <2>1, <2>4, <2>5, SaysOne DEF a, GoesOn
<1> QED BY <1>5, <1>6, <1>7

\* The closing message says how it went.
LEMMA ClosingIsHonest ==
    ASSUME Shapes, Runner \in Places, NEW n \in Nat, NEW v \in {"Completed", "Failed"}
    PROVE  /\ Closing(n, ExitFor(v)) \in ProperMessage
           /\ Closing(n, ExitFor(v)).index = count[Runner] + n
           /\ Honest(Closing(n, ExitFor(v)), v)
           /\ Closing(n, ExitFor(v)) \in TrueMessages(nested, v)
<1>0. count[Runner] \in Nat /\ count[Runner] + n \in Nat
  BY DEF Shapes
<1>1. ExitFor(v) \in Exits /\ v # "none"
  BY DEF ExitFor, Exits
<1>2. /\ Closing(n, ExitFor(v)) \in ProperMessage
      /\ Closing(n, ExitFor(v)).index = count[Runner] + n
      /\ Closing(n, ExitFor(v)).exit = ExitFor(v)
      /\ Closing(n, ExitFor(v)).finished
  BY <1>1, <1>0 DEF Closing, Said, ProperMessage, Message, MessageKinds
<1> QED BY <1>1, <1>2 DEF Honest, TrueMessages, ProperMessage

\* What does not end the task is true whatever the verdict.
LEMMA OtherIsTrue ==
    ASSUME NEW a \in ProperMessage, ~ Ends(a, nested), NEW v
    PROVE  a \in TrueMessages(nested, v)
  BY DEF TrueMessages, ProperMessage, Ends

\* A task that fails: with a rollback before it, or with its closing message.
LEMMA FailsIsATask ==
    ASSUME task \in Tasks, task.phase = "steps", NEW rollback \in BOOLEAN, Fails(rollback),
           task.verdict = "none"
    PROVE  /\ task' \in Tasks
           /\ rollback => task'.phase = "rollback" /\ task'.verdict = "none"
           /\ ~ rollback => task'.phase = "over" /\ task'.verdict = "Failed"
  BY DEF Tasks, Fails, Phases

LEMMA StepFailsKeeps == ASSUME MonitorIInv, StepFails, page' = page PROVE MonitorIInv'
<1> DEFINE g == group[Runner]
           a == Said(Runner, 0, "result", task.at, "failed", FALSE)
           b == Said(Runner, 1, "error", task.at, "open", FALSE)
           c == Closing(2, "failed")
           x == Recorded(Recorded(g, a), b)
<1>1. InStep /\ task.phase = "steps"
  BY DEF StepFails, InStep
<1>2. /\ task \in Tasks /\ task.verdict = "none" /\ count[Runner] \in Nat /\ Shapes
      /\ Runner \in Places /\ g \in Seq(ProperMessage) /\ Quiet(g, nested)
      /\ Below(g, count[Runner])
  BY <1>1, WhileItRuns
<1>3. task.at \in Nat
  BY <1>2, StepsAssumption DEF Tasks
<1>4. GoesOn(a, count[Runner] + 0) /\ GoesOn(b, count[Runner] + 1)
  BY <1>2, <1>3, SaidGoesOn, KindsAndExits
<1>5. PICK rollback \in BOOLEAN :
          /\ Speaks(<<a, b>> \o (IF rollback THEN <<>> ELSE <<c>>), IF rollback THEN 2 ELSE 3)
          /\ Fails(rollback)
  BY DEF StepFails
<1> HIDE DEF g, a, b
<1>6. a.index < count[Runner] + 2 /\ b.index < count[Runner] + 2
  BY <1>2, <1>4 DEF GoesOn
<1>7. CASE rollback
  <2>1. <<a, b>> \o <<>> = <<a, b>>
    OBVIOUS
  <2>2. Speaks(<<a, b>>, 2)
    BY <1>5, <1>7, <2>1
  <2>3. task' \in Tasks /\ task'.phase = "rollback" /\ task'.verdict = "none"
    BY <1>1, <1>2, <1>5, <1>7, FailsIsATask
  <2> QED BY <1>1, <1>4, <1>6, <2>2, <2>3, SaysTwo DEF GoesOn
<1>8. CASE ~ rollback
  <2>1. /\ c \in ProperMessage /\ c.index = count[Runner] + 2 /\ Honest(c, "Failed")
        /\ c \in TrueMessages(nested, "Failed")
    BY <1>2, ClosingIsHonest DEF ExitFor
  <2> HIDE DEF c
  <2>2. <<a, b>> \o <<c>> = <<a, b, c>>
    BY <1>4, <2>1, TwoAndOne DEF GoesOn
  <2>3. Speaks(<<a, b, c>>, 3)
    BY <1>5, <1>8, <2>2
  <2>4. task' \in Tasks /\ task'.phase = "over" /\ task'.verdict = "Failed"
    BY <1>1, <1>2, <1>5, <1>8, FailsIsATask
  <2>5. x \in Seq(ProperMessage) /\ Quiet(x, nested) /\ Below(x, count[Runner] + 2)
    <3>1. /\ Recorded(g, a) \in Seq(ProperMessage) /\ Quiet(Recorded(g, a), nested)
          /\ Below(Recorded(g, a), count[Runner] + 2)
      BY <1>2, <1>4, <1>6, OneMore DEF GoesOn
    <3> QED BY <1>2, <1>4, <1>6, <3>1, OneMore DEF GoesOn
  <2>6. \A k \in DOMAIN x : x[k].index # c.index
    BY <1>2, <2>1, <2>5, NoneAbove
  <2>7. RecordedAll(g, <<a, b, c>>) = Recorded(x, c)
    BY <1>2, <1>4, <2>1, RecordedThree DEF GoesOn
  <2>8. <<a, b, c>> \in Seq(TrueMessages(nested, "Failed"))
    <3>1. a \in TrueMessages(nested, "Failed") /\ b \in TrueMessages(nested, "Failed")
      BY <1>4, OtherIsTrue DEF GoesOn
    <3> QED BY <2>1, <3>1
  <2> HIDE DEF x
  <2> QED BY <1>1, <2>1, <2>3, <2>4, <2>5, <2>6, <2>7, <2>8, SaysEnd DEF g
<1> QED BY <1>7, <1>8

LEMMA StepBreaksKeeps == ASSUME MonitorIInv, StepBreaks, page' = page PROVE MonitorIInv'
<1> DEFINE g == group[Runner]
           a == Said(Runner, 0, "error", task.at, "open", FALSE)
           c == Closing(1, "failed")
           x == Recorded(g, a)
<1>1. InStep /\ task.phase = "steps"
  BY DEF StepBreaks, InStep
<1>2. /\ task \in Tasks /\ task.verdict = "none" /\ count[Runner] \in Nat /\ Shapes
      /\ Runner \in Places /\ g \in Seq(ProperMessage) /\ Quiet(g, nested)
      /\ Below(g, count[Runner])
  BY <1>1, WhileItRuns
<1>3. task.at \in Nat
  BY <1>2, StepsAssumption DEF Tasks
<1>4. GoesOn(a, count[Runner] + 0)
  BY <1>2, <1>3, SaidGoesOn, KindsAndExits
<1>5. PICK rollback \in BOOLEAN :
          /\ Speaks(<<a>> \o (IF rollback THEN <<>> ELSE <<c>>), IF rollback THEN 1 ELSE 2)
          /\ Fails(rollback)
  BY DEF StepBreaks
<1> HIDE DEF g, a
<1>6. a.index < count[Runner] + 1
  BY <1>2, <1>4 DEF GoesOn
<1>7. CASE rollback
  <2>1. <<a>> \o <<>> = <<a>>
    OBVIOUS
  <2>2. Speaks(<<a>>, 1)
    BY <1>5, <1>7, <2>1
  <2>3. task' \in Tasks /\ task'.phase = "rollback" /\ task'.verdict = "none"
    BY <1>1, <1>2, <1>5, <1>7, FailsIsATask
  <2> QED BY <1>1, <1>4, <1>6, <2>2, <2>3, SaysOne DEF GoesOn
<1>8. CASE ~ rollback
  <2>1. /\ c \in ProperMessage /\ c.index = count[Runner] + 1 /\ Honest(c, "Failed")
        /\ c \in TrueMessages(nested, "Failed")
    BY <1>2, ClosingIsHonest DEF ExitFor
  <2> HIDE DEF c
  <2>2. <<a>> \o <<c>> = <<a, c>>
    BY <1>4, <2>1, OneAndOne DEF GoesOn
  <2>3. Speaks(<<a, c>>, 2)
    BY <1>5, <1>8, <2>2
  <2>4. task' \in Tasks /\ task'.phase = "over" /\ task'.verdict = "Failed"
    BY <1>1, <1>2, <1>5, <1>8, FailsIsATask
  <2>5. x \in Seq(ProperMessage) /\ Quiet(x, nested) /\ Below(x, count[Runner] + 1)
    BY <1>2, <1>4, <1>6, OneMore DEF GoesOn
  <2>6. \A k \in DOMAIN x : x[k].index # c.index
    BY <1>2, <2>1, <2>5, NoneAbove
  <2>7. RecordedAll(g, <<a, c>>) = Recorded(x, c)
    BY <1>2, <1>4, <2>1, RecordedTwo DEF GoesOn
  <2>8. <<a, c>> \in Seq(TrueMessages(nested, "Failed"))
    <3>1. a \in TrueMessages(nested, "Failed")
      BY <1>4, OtherIsTrue DEF GoesOn
    <3> QED BY <2>1, <3>1
  <2> HIDE DEF x
  <2> QED BY <1>1, <2>1, <2>3, <2>4, <2>5, <2>6, <2>7, <2>8, SaysEnd DEF g
<1> QED BY <1>7, <1>8

LEMMA CompletesKeeps == ASSUME MonitorIInv, Completes, page' = page PROVE MonitorIInv'
<1> DEFINE g == group[Runner]
           c == Closing(0, "ok")
<1>1. task.phase \in {"steps", "rollback"} /\ Speaks(<<c>>, 1)
      /\ task' = [task EXCEPT !.phase = "over", !.verdict = "Completed"]
  BY DEF Completes
<1>2. /\ task \in Tasks /\ count[Runner] \in Nat /\ Shapes /\ Runner \in Places
      /\ g \in Seq(ProperMessage) /\ Quiet(g, nested) /\ Below(g, count[Runner])
  BY <1>1, WhileItRuns
<1>3. /\ c \in ProperMessage /\ c.index = count[Runner] + 0 /\ Honest(c, "Completed")
      /\ c \in TrueMessages(nested, "Completed")
  BY <1>2, ClosingIsHonest DEF ExitFor
<1> HIDE DEF g, c
<1>4. task' \in Tasks /\ task'.phase = "over" /\ task'.verdict = "Completed"
  BY <1>1, <1>2 DEF Tasks, Phases
<1>5. c.index = count[Runner] /\ \A k \in DOMAIN g : g[k].index # c.index
  BY <1>2, <1>3, NoneAbove
<1>6. RecordedAll(g, <<c>>) = Recorded(g, c)
  BY <1>2, <1>3, RecordedOne
<1>7. <<c>> \in Seq(TrueMessages(nested, "Completed"))
  BY <1>3
<1> QED BY <1>1, <1>2, <1>3, <1>4, <1>5, <1>6, <1>7, SaysEnd DEF g

LEMMA RollbackEndsKeeps == ASSUME MonitorIInv, RollbackEnds, page' = page PROVE MonitorIInv'
<1> DEFINE g == group[Runner]
           c == Closing(1, "failed")
<1>1. PICK ok \in BOOLEAN : Speaks(LastWords(ok), 2)
  BY DEF RollbackEnds
<1>2. /\ task.phase \in {"steps", "rollback"}
      /\ task' = [task EXCEPT !.phase = "over", !.talk = FALSE, !.verdict = "Failed"]
  BY DEF RollbackEnds
<1>3. /\ task \in Tasks /\ count[Runner] \in Nat /\ Shapes /\ Runner \in Places
      /\ g \in Seq(ProperMessage) /\ Quiet(g, nested) /\ Below(g, count[Runner])
  BY <1>2, WhileItRuns
<1>4. task' \in Tasks /\ task'.phase = "over" /\ task'.verdict = "Failed"
  BY <1>2, <1>3 DEF Tasks, Phases
<1>5. /\ c \in ProperMessage /\ c.index = count[Runner] + 1 /\ Honest(c, "Failed")
      /\ c \in TrueMessages(nested, "Failed")
  BY <1>3, ClosingIsHonest DEF ExitFor
<1>6. CASE ok
  <2> DEFINE a == Said(Runner, 0, "rollback", 0, "ok", FALSE)
             x == Recorded(g, a)
  <2>1. GoesOn(a, count[Runner] + 0)
    BY <1>3, SaidGoesOn, KindsAndExits
  <2>2. LastWords(ok) = <<a>> \o <<c>>
    BY <1>6 DEF LastWords, RollbackSays
  <2> HIDE DEF a, c, g
  <2>3. Speaks(<<a, c>>, 2)
    BY <1>1, <1>5, <2>1, <2>2, OneAndOne DEF GoesOn
  <2>4. x \in Seq(ProperMessage) /\ Quiet(x, nested) /\ Below(x, count[Runner] + 1)
    <3>1. a.index < count[Runner] + 1
      BY <1>3, <2>1 DEF GoesOn
    <3> QED BY <1>3, <2>1, <3>1, OneMore DEF GoesOn
  <2>5. \A k \in DOMAIN x : x[k].index # c.index
    BY <1>3, <1>5, <2>4, NoneAbove
  <2>6. RecordedAll(g, <<a, c>>) = Recorded(x, c)
    BY <1>3, <1>5, <2>1, RecordedTwo DEF GoesOn
  <2>7. <<a, c>> \in Seq(TrueMessages(nested, "Failed"))
    <3>1. a \in TrueMessages(nested, "Failed")
      BY <2>1, OtherIsTrue DEF GoesOn
    <3> QED BY <1>5, <3>1
  <2> HIDE DEF x
  <2> QED BY <1>2, <1>4, <1>5, <2>3, <2>4, <2>5, <2>6, <2>7, SaysEnd DEF g
<1>7. CASE ~ ok
  <2> DEFINE a == Said(Runner, 0, "rollback", 0, "failed", FALSE)
             s == Said(Runner, 0, "rollbackError", 0, "open", FALSE)
             b == [s EXCEPT !.index = NSteps]
             y == Recorded(g, a)
             x == Recorded(y, b)
  <2>1. GoesOn(a, count[Runner] + 0) /\ GoesOn(s, count[Runner] + 0)
    BY <1>3, SaidGoesOn, KindsAndExits
  <2>2. LastWords(ok) = <<a, b>> \o <<c>>
    BY <1>7 DEF LastWords, RollbackSays
  <2>10. ~ s.partial
    BY DEF Said
  <2> HIDE DEF a, s, c, g
  <2>3. GoesOn(b, NSteps)
    <3>1. s \in Message /\ NSteps \in Nat
      BY <2>1, StepsAssumption DEF GoesOn, ProperMessage
    <3>2. /\ b \in Message /\ b.index = NSteps /\ b.partial = s.partial
          /\ b.kind = s.kind /\ b.finished = s.finished
      BY <3>1 DEF Message
    <3> QED BY <2>1, <2>10, <3>2 DEF GoesOn, ProperMessage, Ends
  <2> HIDE DEF b
  <2>4. Speaks(<<a, b, c>>, 2)
    BY <1>1, <1>5, <2>1, <2>2, <2>3, TwoAndOne DEF GoesOn
  <2>5. y \in Seq(ProperMessage) /\ Quiet(y, nested) /\ Below(y, count[Runner] + 1)
    <3>1. a.index < count[Runner] + 1
      BY <1>3, <2>1 DEF GoesOn
    <3> QED BY <1>3, <2>1, <3>1, OneMore DEF GoesOn
  <2> HIDE DEF y
  <2>6. x \in Seq(ProperMessage) /\ Quiet(x, nested) /\ IsRecorded(y, b, x)
    BY <2>3, <2>5, QuietStays, RecordedIsRecorded DEF GoesOn
  <2>7. RecordedAll(g, <<a, b, c>>) = Recorded(x, c)
    BY <1>3, <1>5, <2>1, <2>3, RecordedThree DEF GoesOn, y
  <2> HIDE DEF x
  \* The rollback's error may have the closing message's index, but then it is the last.
  <2>8. ASSUME NEW k \in DOMAIN x, x[k].index = c.index PROVE k = Len(x)
    <3>1. \A j \in DOMAIN y : y[j].index # c.index
      BY <1>3, <1>5, <2>5, NoneAbove
    <3>2. IsNew(y, b, x, k)
      BY <2>6, <2>8, <3>1 DEF IsRecorded, Looks
    <3> QED BY <2>8, <3>1, <3>2 DEF IsNew
  <2>9. <<a, b, c>> \in Seq(TrueMessages(nested, "Failed"))
    <3>1. a \in TrueMessages(nested, "Failed") /\ b \in TrueMessages(nested, "Failed")
      BY <2>1, <2>3, OtherIsTrue DEF GoesOn
    <3> QED BY <1>5, <3>1
  <2> QED BY <1>2, <1>4, <1>5, <2>4, <2>6, <2>7, <2>8, <2>9, SaysEnd DEF g
<1> QED BY <1>6, <1>7

LEMMA TaskStepKeeps == ASSUME MonitorIInv, TaskStep, page' = page PROVE MonitorIInv'
<1>1. CASE Talks
  BY <1>1, TalksKeeps
<1>2. CASE StepSucceeds \/ StepWarns \/ NestedEnds
  BY <1>2, StepEndsKeeps
<1>3. CASE StepFails
  BY <1>3, StepFailsKeeps
<1>4. CASE StepBreaks
  BY <1>4, StepBreaksKeeps
<1>5. CASE RollbackEnds
  BY <1>5, RollbackEndsKeeps
<1>6. CASE Completes
  BY <1>6, CompletesKeeps
<1> QED BY <1>1, <1>2, <1>3, <1>4, <1>5, <1>6 DEF TaskStep

LEMMA OtherTaskKeeps == ASSUME MonitorIInv, OtherTask, page' = page PROVE MonitorIInv'
<1> USE DEF MonitorIInv
<1>1. /\ count' = [count EXCEPT !["hub"] = @ + 1]
      /\ UNCHANGED <<way, nested, group, task, hub, mirror, successor, client, wire, page>>
  BY DEF OtherTask, asked
<1>2. Runner' = Runner /\ Runner \in Places /\ "hub" \in Places
  BY <1>1 DEF Runner, Places
<1>3. \A p \in Places : group[p] \in Seq(ProperMessage) /\ count[p] \in Nat
  BY DEF Shapes
<1>4. \A p \in Places : count'[p] \in Nat /\ count[p] <= count'[p]
  BY <1>1, <1>3 DEF Shapes
<1>5. \A p \in Places : Below(group[p], count[p]) => Below(group[p], count'[p])
  BY <1>3, <1>4, BelowMore
<1>6. Shapes'
  BY <1>1, <1>2 DEF Shapes
<1>7. Numbered'
  BY <1>1, <1>2, <1>5 DEF Numbered
<1>8. Course' /\ GroupsEnd' /\ StagesSaid' /\ ToldTrue'
  BY <1>1, <1>2 DEF Course, GroupsEnd, StagesSaid, ToldTrue
<1> QED BY <1>6, <1>7, <1>8

----------------------------------------------------------------------------
(* The hub, its clone and its successor.                                    *)

\* What the hub says before the mirror starts.
LEMMA HubSays ==
    ASSUME MonitorIInv, hub \in {"stage", "handoff"}, hub' \in {"handoff", "mirror"},
           NEW ms \in Seq(TrueMessages(nested, task.verdict)), Says("hub", ms, 1),
           UNCHANGED <<way, nested, task, mirror, successor, client, page>>,
           NEW r \in Seq(ProperMessage), r = RecordedAll(group["hub"], ms),
           Quiet(r, nested), Below(r, count["hub"] + 1),
           hub' = "handoff" => \E k \in DOMAIN r : Name(r[k]) = <<"stage", 1>>,
           hub' = "mirror" => Staged(r)
    PROVE  MonitorIInv'
<1> USE DEF MonitorIInv
<1>1. /\ group' = [group EXCEPT !["hub"] = r] /\ count' = [count EXCEPT !["hub"] = @ + 1]
      /\ wire' = Notified("hub", ms)
  BY DEF Says
<1>2. Runner' = Runner /\ Runner = "clone" /\ Runner \in Places /\ "hub" \in Places
      /\ "new" \in Places
  BY DEF Runner, Places, Course, Shapes
<1>3. /\ group'["hub"] = r /\ \A p \in Places \ {"hub"} : group'[p] = group[p]
      /\ count'["hub"] = count["hub"] + 1
      /\ \A p \in Places \ {"hub"} : count'[p] = count[p]
  BY <1>1, <1>2 DEF Shapes
<1>4. Shapes'
  BY <1>1, <1>2 DEF Shapes, HubStates
<1>5. Course'
  BY <1>2, <1>3 DEF Course
<1>6. GroupsEnd'
  <2>1. ASSUME NEW p \in Places PROVE Whole(group'[p], nested, task.verdict)
    <3>1. CASE p = "hub"
      BY <1>3, <3>1, QuietIsWhole
    <3>2. CASE p # "hub"
      BY <1>3, <3>2 DEF GroupsEnd
    <3> QED BY <3>1, <3>2
  <2> QED BY <1>2, <1>3, <2>1 DEF GroupsEnd
<1>7. Numbered'
  BY <1>2, <1>3 DEF Numbered
<1>8. StagesSaid'
  BY <1>3 DEF StagesSaid
<1>9. ToldTrue'
  BY <1>1, NotifiedTrue DEF ToldTrue
<1> QED BY <1>4, <1>5, <1>6, <1>7, <1>8, <1>9

\* The hub's group before the mirror starts.
LEMMA BeforeTheMirror ==
    ASSUME MonitorIInv, hub \in {"stage", "handoff"}
    PROVE  /\ "hub" \in Places /\ count["hub"] \in Nat /\ Shapes
           /\ group["hub"] \in Seq(ProperMessage) /\ Quiet(group["hub"], nested)
           /\ Below(group["hub"], count["hub"])
<1>1. "hub" \in Places
  BY DEF Places
<1> QED BY <1>1 DEF MonitorIInv, Shapes, GroupsEnd, Numbered

LEMMA StageMarkerKeeps == ASSUME MonitorIInv, StageMarker, page' = page PROVE MonitorIInv'
<1> DEFINE g == group["hub"]
           a == Said("hub", 0, "stage", 1, "ok", FALSE)
           r == Recorded(g, a)
<1>1. /\ hub = "stage" /\ hub' = "handoff" /\ Says("hub", <<a>>, 1)
      /\ UNCHANGED <<way, nested, task, mirror, successor, client, page>>
  BY DEF StageMarker, asked
<1>2. /\ "hub" \in Places /\ count["hub"] \in Nat /\ Shapes /\ g \in Seq(ProperMessage)
      /\ Quiet(g, nested) /\ Below(g, count["hub"])
  BY <1>1, BeforeTheMirror
<1>3. GoesOn(a, count["hub"] + 0)
  BY <1>2, SaidGoesOn, KindsAndExits
<1>4. a.kind = "stage" /\ a.step = 1 /\ ~ a.partial
  BY DEF Said
<1> HIDE DEF a, g
<1>5. a.index < count["hub"] + 1
  BY <1>2, <1>3 DEF GoesOn
<1>6. /\ r \in Seq(ProperMessage) /\ Quiet(r, nested) /\ Below(r, count["hub"] + 1)
      /\ IsRecorded(g, a, r)
  BY <1>2, <1>3, <1>5, OneMore, RecordedIsRecorded DEF GoesOn
<1>7. r = RecordedAll(g, <<a>>)
  BY <1>2, <1>3, RecordedOne DEF GoesOn
<1> HIDE DEF r
<1>8. \E k \in DOMAIN r : Name(r[k]) = <<"stage", 1>>
  BY <1>4, <1>6 DEF IsRecorded, IsNew, Name
<1>9. <<a>> \in Seq(TrueMessages(nested, task.verdict))
  <2>1. a \in TrueMessages(nested, task.verdict)
    BY <1>3, OtherIsTrue DEF GoesOn
  <2> QED BY <2>1
<1> QED BY <1>1, <1>6, <1>7, <1>8, <1>9, HubSays DEF g

LEMMA HandoffKeeps == ASSUME MonitorIInv, Handoff, page' = page PROVE MonitorIInv'
<1> DEFINE g == group["hub"]
           a == Said("hub", 0, "stage", 5, "ok", FALSE)
           s == Said("hub", 0, "handoff", 0, "ok", FALSE)
           b == [s EXCEPT !.index = NoIndex]
           x == Recorded(g, a)
           r == Recorded(x, b)
<1>1. /\ hub = "handoff" /\ hub' = "mirror" /\ Says("hub", <<a, b>>, 1)
      /\ UNCHANGED <<way, nested, task, mirror, successor, client, page>>
  BY DEF Handoff, asked
<1>2. /\ "hub" \in Places /\ count["hub"] \in Nat /\ Shapes /\ g \in Seq(ProperMessage)
      /\ Quiet(g, nested) /\ Below(g, count["hub"])
  BY <1>1, BeforeTheMirror
<1>3. 5 \in Nat
  OBVIOUS
<1>4. GoesOn(a, count["hub"] + 0) /\ GoesOn(s, count["hub"] + 0)
  BY <1>2, <1>3, SaidGoesOn, KindsAndExits
<1>5. a.kind = "stage" /\ a.step = 5 /\ ~ a.partial /\ ~ s.partial
  BY DEF Said
<1> HIDE DEF a, s, g
<1>6. GoesOn(b, NoIndex)
  <2>1. s \in Message
    BY <1>4 DEF GoesOn, ProperMessage
  <2>2. /\ b \in Message /\ b.index = NoIndex /\ b.partial = s.partial
        /\ b.kind = s.kind /\ b.finished = s.finished
    BY <2>1 DEF Message
  <2> QED BY <1>4, <1>5, <2>2 DEF GoesOn, ProperMessage, Ends
<1> HIDE DEF b
<1>7. a.index = count["hub"] /\ a.index < count["hub"] + 1 /\ b.index < count["hub"] + 1
  BY <1>2, <1>4, <1>6 DEF GoesOn, NoIndex
<1>8. x \in Seq(ProperMessage) /\ Quiet(x, nested) /\ Below(x, count["hub"] + 1)
  BY <1>2, <1>4, <1>7, OneMore DEF GoesOn
<1>9. ~ Known(g, a) /\ ~ Known(x, b)
  BY <1>2, <1>6, <1>7, NoneAbove DEF Known, Indexed, GoesOn
<1>10. /\ \A k \in DOMAIN g : k \in DOMAIN x /\ Looks(x[k], g[k])
       /\ \E k \in DOMAIN x : IsNew(g, a, x, k)
  BY <1>2, <1>4, <1>5, <1>9, BehindOthers DEF GoesOn
<1>11. RecordedAll(g, <<a, b>>) = r
  BY <1>2, <1>4, <1>6, RecordedTwo DEF GoesOn
<1> HIDE DEF x
<1>12. \A k \in DOMAIN x : k \in DOMAIN r /\ Looks(r[k], x[k])
  BY <1>6, <1>8, <1>9, BehindOthers DEF GoesOn
<1>13. r \in Seq(ProperMessage) /\ Quiet(r, nested) /\ Below(r, count["hub"] + 1)
  BY <1>2, <1>6, <1>7, <1>8, QuietStays, BelowStays DEF GoesOn
<1> HIDE DEF r
<1>14. Staged(r)
  <2>1. PICK o \in DOMAIN g : Name(g[o]) = <<"stage", 1>>
    BY <1>1 DEF MonitorIInv, StagesSaid, g
  <2>2. PICK j \in DOMAIN x : IsNew(g, a, x, j)
    BY <1>10
  <2>3. o \in DOMAIN r /\ Name(r[o]) = <<"stage", 1>>
    BY <1>10, <1>12, <2>1 DEF Looks, Name
  <2>4. j \in DOMAIN r /\ Name(r[j]) = <<"stage", 5>>
    BY <1>5, <1>12, <2>2 DEF Looks, Name, IsNew
  <2> QED BY <2>3, <2>4 DEF Staged
<1>15. <<a, b>> \in Seq(TrueMessages(nested, task.verdict))
  <2>1. a \in TrueMessages(nested, task.verdict) /\ b \in TrueMessages(nested, task.verdict)
    BY <1>4, <1>6, OtherIsTrue DEF GoesOn
  <2> QED BY <2>1
<1> QED BY <1>1, <1>11, <1>13, <1>14, <1>15, HubSays DEF g

LEMMA TriggerCloneKeeps == ASSUME MonitorIInv, TriggerClone, page' = page PROVE MonitorIInv'
<1> USE DEF MonitorIInv
<1>1. /\ task.phase = "waiting" /\ task' = [task EXCEPT !.phase = "steps"]
      /\ UNCHANGED <<way, nested, group, count, hub, mirror, successor, client, wire, page>>
  BY DEF TriggerClone, asked
<1>2. Runner' = Runner
  BY <1>1 DEF Runner
<1>3. task \in Tasks
  BY DEF Shapes
<1>4. task' \in Tasks /\ task'.phase = "steps" /\ task'.verdict = task.verdict
  BY <1>1, <1>3 DEF Tasks, Phases
<1>5. Shapes'
  BY <1>1, <1>4 DEF Shapes
<1>6. Course' /\ GroupsEnd' /\ Numbered' /\ StagesSaid' /\ ToldTrue'
  BY <1>1, <1>2, <1>4 DEF Course, GroupsEnd, Numbered, StagesSaid, ToldTrue
<1> QED BY <1>5, <1>6

LEMMA MirrorPollsKeeps == ASSUME MonitorIInv, MirrorPolls, page' = page PROVE MonitorIInv'
<1> USE DEF MonitorIInv
<1> DEFINE v == task.verdict
           first == [group |-> group["hub"], told |-> <<>>, seen |-> mirror.seen]
<1>1. /\ hub = "mirror" /\ group["clone"] # <<>>
      /\ group' = [group EXCEPT !["hub"] = MirroredAll.group]
      /\ wire' = Notified("hub", MirroredAll.told)
      /\ mirror' = [offset |-> Offset, seen |-> MirroredAll.seen]
      /\ hub' = IF MirrorEnds THEN "mirrored" ELSE "mirror"
      /\ UNCHANGED <<way, nested, count, task, successor, client, page>>
  BY DEF MirrorPolls, asked
<1>2. /\ Runner' = Runner /\ Runner = "clone" /\ "hub" \in Places /\ "clone" \in Places
      /\ "new" \in Places
  BY <1>1 DEF Runner, Places, Course, Shapes
<1>3. /\ group["hub"] \in Seq(ProperMessage) /\ group["clone"] \in Seq(ProperMessage)
      /\ count["hub"] \in Nat /\ mirror.seen \in SUBSET Nat
      /\ mirror.offset \in Nat \cup {NoIndex}
  BY <1>2 DEF Shapes
<1>4. Offset \in Nat /\ Fits(first) /\ first \in Accs
  <2>1. first \in Accs
    <3>1. <<>> \in Seq(ProperMessage)
      OBVIOUS
    <3> QED BY <1>3, <3>1 DEF Accs
  <2>2. CASE mirror.offset = NoIndex
    <3>1. Below(group["hub"], count["hub"])
      BY <1>1, <2>2 DEF Numbered
    <3>2. Offset \in Nat /\ Below(group["hub"], Offset)
      BY <1>3, <2>2, <3>1, OffsetAbove
    <3> QED BY <2>1, <3>2 DEF Fits, Below
  <2>3. CASE mirror.offset # NoIndex
    <3>1. Offset = mirror.offset
      BY <2>3 DEF Offset
    <3>2. \A k \in DOMAIN group["hub"] :
              \/ group["hub"][k].index < mirror.offset
              \/ group["hub"][k].index - mirror.offset \in mirror.seen
      BY <1>1, <2>3 DEF Numbered
    <3> QED BY <1>3, <2>1, <2>3, <3>1, <3>2 DEF Fits
  <2> QED BY <2>2, <2>3
<1>5. Whole(group["clone"], nested, v) /\ Quiet(group["hub"], nested) /\ Staged(group["hub"])
  BY <1>1, <1>2 DEF GroupsEnd, StagesSaid
<1>6. /\ MirroredAll \in Accs /\ Fits(MirroredAll) /\ Staged(MirroredAll.group)
      /\ Whole(MirroredAll.group, nested, v) /\ Whole(MirroredAll.told, nested, v)
      /\ ~ MirrorEnds => Quiet(MirroredAll.group, nested)
  <2>1. Quiet(first.group, nested) /\ Staged(first.group)
    BY <1>5
  <2> QED BY <1>1, <1>3, <1>4, <1>5, <2>1, MirroredAllWhole
<1> HIDE DEF first
<1>7. /\ MirroredAll.group \in Seq(ProperMessage) /\ MirroredAll.told \in Seq(ProperMessage)
      /\ MirroredAll.seen \in SUBSET Nat
  BY <1>6 DEF Accs
<1>8. /\ group'["hub"] = MirroredAll.group /\ \A p \in Places \ {"hub"} : group'[p] = group[p]
      /\ mirror'.offset = Offset /\ mirror'.seen = MirroredAll.seen /\ Offset # NoIndex
      /\ hub' \in {"mirror", "mirrored"} /\ (hub' = "mirror" => ~ MirrorEnds)
  BY <1>1, <1>2, <1>4 DEF Shapes, NoIndex
<1>9. Shapes'
  BY <1>1, <1>2, <1>4, <1>7, <1>8 DEF Shapes, HubStates
<1>10. Course'
  BY <1>1, <1>2, <1>8 DEF Course
<1>11. GroupsEnd'
  <2>1. ASSUME NEW p \in Places PROVE Whole(group'[p], nested, v)
    <3>1. CASE p = "hub"
      BY <1>6, <1>8, <3>1
    <3>2. CASE p # "hub"
      BY <1>8, <3>2 DEF GroupsEnd
    <3> QED BY <3>1, <3>2
  <2>2. hub' = "mirror" => Quiet(group'["hub"], nested)
    BY <1>6, <1>8
  <2> QED BY <1>1, <1>2, <1>8, <2>1, <2>2 DEF GroupsEnd
<1>12. Numbered'
  <2>1. group'[Runner] = group[Runner]
    BY <1>2, <1>8
  <2>2. \A k \in DOMAIN group'["hub"] :
            \/ group'["hub"][k].index < mirror'.offset
            \/ group'["hub"][k].index - mirror'.offset \in mirror'.seen
    BY <1>6, <1>8 DEF Fits
  <2> QED BY <1>1, <1>2, <1>8, <2>1, <2>2 DEF Numbered
<1>13. StagesSaid'
  BY <1>6, <1>8 DEF StagesSaid
<1>14. ToldTrue'
  <2>1. MirroredAll.told \in Seq(TrueMessages(nested, v))
    BY <1>6, <1>7, WholeIsTrue
  <2>2. wire' \in Wires(nested, v)
    BY <1>1, <2>1, NotifiedTrue DEF ToldTrue
  <2> QED BY <1>1, <2>2 DEF ToldTrue
<1> QED BY <1>9, <1>10, <1>11, <1>12, <1>13, <1>14

\* What is left of the events under way is as true as they were.
LEMMA BrokenTrue ==
    ASSUME NEW N, NEW v, wire \in Wires(N, v), NEW w \in Broken(wire)
    PROVE  w \in Wires(N, v)
<1>1. PICK n \in {0, Len(wire.events)} :
          w = [at |-> "nobody", events |-> SubSeq(wire.events, 1, n)]
  BY DEF Broken
<1>2. wire.events \in Seq(TrueEvents(N, v)) /\ Len(wire.events) \in Nat
  BY DEF Wires
<1>3. SubSeq(wire.events, 1, n) \in Seq(TrueEvents(N, v))
  <2>1. n \in Nat /\ \A k \in 1 .. n : wire.events[k] \in TrueEvents(N, v)
    BY <1>2
  <2> QED BY <1>2, <2>1, SubSeqProperties
<1> QED BY <1>1, <1>3 DEF Wires

LEMMA HubStopsKeeps == ASSUME MonitorIInv, HubStops, page' = page PROVE MonitorIInv'
<1> USE DEF MonitorIInv
<1>1. /\ hub \in {"mirror", "mirrored"} /\ hub' = "down"
      /\ group' = [group EXCEPT !["hub"] = <<>>] /\ wire' \in Broken(wire)
      /\ UNCHANGED <<way, nested, count, task, mirror, successor, client, page>>
  BY DEF HubStops, asked
<1>2. /\ Runner' = Runner /\ Runner = "clone" /\ "hub" \in Places /\ "clone" \in Places
      /\ "new" \in Places
  BY <1>1 DEF Runner, Places, Course, Shapes
<1>3. group'["hub"] = <<>> /\ \A p \in Places \ {"hub"} : group'[p] = group[p]
  BY <1>1, <1>2 DEF Shapes
<1>4. <<>> \in Seq(ProperMessage) /\ DOMAIN <<>> = {}
  OBVIOUS
<1>5. Shapes'
  BY <1>1, <1>2, <1>4 DEF Shapes, HubStates
<1>6. Course'
  BY <1>1, <1>2, <1>3 DEF Course
<1>7. GroupsEnd'
  <2>1. ASSUME NEW p \in Places PROVE Whole(group'[p], nested, task.verdict)
    <3>1. CASE p = "hub"
      BY <1>3, <1>4, <3>1 DEF Whole
    <3>2. CASE p # "hub"
      BY <1>3, <3>2 DEF GroupsEnd
    <3> QED BY <3>1, <3>2
  <2> QED BY <1>1, <1>2, <1>3, <2>1 DEF GroupsEnd
<1>8. Numbered' /\ StagesSaid'
  BY <1>1, <1>2, <1>3 DEF Numbered, StagesSaid
<1>9. ToldTrue'
  BY <1>1, BrokenTrue DEF ToldTrue
<1> QED BY <1>5, <1>6, <1>7, <1>8, <1>9

LEMMA SuccessorBootsKeeps == ASSUME MonitorIInv, SuccessorBoots, page' = page PROVE MonitorIInv'
<1> USE DEF MonitorIInv
<1>1. /\ successor = "none" /\ successor' = "booted"
      /\ UNCHANGED <<way, nested, group, count, task, hub, mirror, client, wire, page>>
  BY DEF SuccessorBoots, asked
<1>2. Runner' = Runner
  BY <1>1 DEF Runner
<1> QED BY <1>1, <1>2 DEF Shapes, Course, GroupsEnd, Numbered, StagesSaid, ToldTrue

\* With its clone a task that is not over ends without a verdict.
LEMMA ClonesEnd ==
    ASSUME task \in Tasks, task' = [task EXCEPT !.phase = IF @ = "over" THEN @ ELSE "destroyed"]
    PROVE  /\ task' \in Tasks /\ task'.verdict = task.verdict
           /\ task'.phase = "over" <=> task.phase = "over"
           /\ task'.phase \in {"over", "destroyed"}
  BY DEF Tasks, Phases

LEMMA AdoptsKeeps == ASSUME MonitorIInv, Adopts, page' = page PROVE MonitorIInv'
<1> USE DEF MonitorIInv
<1> DEFINE v == task.verdict
           r == Adopted(<<>>, group["clone"])
<1>1. /\ successor = "booted" /\ successor' = "adopted"
      /\ group' = [group EXCEPT !["new"] = Adopted(@, group["clone"])]
      /\ wire' = Notified("new", SubSeq(group'["new"], Len(group["new"]) + 1, Len(group'["new"])))
      /\ task' = [task EXCEPT !.phase = IF @ = "over" THEN @ ELSE "destroyed"]
      /\ UNCHANGED <<way, nested, count, hub, mirror, client, page>>
  BY DEF Adopts, asked
<1>2. /\ Runner' = Runner /\ Runner \in Places \ {"new"} /\ "hub" \in Places
      /\ "clone" \in Places /\ "new" \in Places
  BY <1>1 DEF Runner, Places
<1>3. group["new"] = <<>> /\ group["clone"] \in Seq(ProperMessage) /\ task \in Tasks
      /\ Whole(group["clone"], nested, v)
  BY <1>1, <1>2 DEF Shapes, Course, GroupsEnd
<1>4. r \in Seq(ProperMessage) /\ Whole(r, nested, v)
  BY <1>3, AdoptedWhole
<1> HIDE DEF r
<1>5. group' = [group EXCEPT !["new"] = r]
  BY <1>1, <1>3 DEF r
<1>6. group'["new"] = r /\ \A p \in Places \ {"new"} : group'[p] = group[p]
  BY <1>2, <1>5 DEF Shapes
<1>7. /\ task' \in Tasks /\ task'.verdict = v /\ (task'.phase = "over" <=> task.phase = "over")
      /\ task'.phase \in {"over", "destroyed"}
  BY <1>1, <1>3, ClonesEnd
<1>8. Shapes'
  BY <1>1, <1>2, <1>4, <1>5, <1>7 DEF Shapes
<1>9. Course'
  BY <1>1, <1>7 DEF Course
<1>10. GroupsEnd'
  <2>1. ASSUME NEW p \in Places PROVE Whole(group'[p], nested, v)
    <3>1. CASE p = "new"
      BY <1>4, <1>6, <3>1
    <3>2. CASE p # "new"
      BY <1>6, <3>2 DEF GroupsEnd
    <3> QED BY <3>1, <3>2
  <2>2. group'[Runner] = group[Runner] /\ group'["hub"] = group["hub"]
    BY <1>2, <1>6
  <2> QED BY <1>1, <1>2, <1>7, <2>1, <2>2 DEF GroupsEnd
<1>11. Numbered' /\ StagesSaid'
  <2>1. group'["hub"] = group["hub"]
    BY <1>2, <1>6
  <2> QED BY <1>1, <1>7, <2>1 DEF Numbered, StagesSaid
<1>12. ToldTrue'
  <2>1. r \in Seq(TrueMessages(nested, v)) /\ Len(r) \in Nat
    BY <1>4, WholeIsTrue
  <2>2. SubSeq(r, 1, Len(r)) = r
    BY <2>1, SubSeqFull
  <2>3. wire' = Notified("new", r)
    <3>1. Len(group["new"]) + 1 = 1
      BY <1>3
    <3> QED BY <1>1, <1>6, <2>2, <3>1
  <2>4. wire' \in Wires(nested, v)
    BY <2>1, <2>3, NotifiedTrue DEF ToldTrue
  <2> QED BY <1>1, <1>7, <2>4 DEF ToldTrue
<1> QED BY <1>8, <1>9, <1>10, <1>11, <1>12

LEMMA AdoptionGivesUpKeeps ==
    ASSUME MonitorIInv, AdoptionGivesUp, page' = page PROVE MonitorIInv'
<1> USE DEF MonitorIInv
<1>1. /\ successor = "booted" /\ successor' = "gaveUp"
      /\ task' = [task EXCEPT !.phase = IF @ = "over" THEN @ ELSE "destroyed"]
      /\ UNCHANGED <<way, nested, group, count, hub, mirror, client, wire, page>>
  BY DEF AdoptionGivesUp, asked
<1>2. Runner' = Runner
  BY <1>1 DEF Runner
<1>3. /\ task' \in Tasks /\ task'.verdict = task.verdict
      /\ (task'.phase = "over" <=> task.phase = "over")
      /\ task'.phase \in {"over", "destroyed"}
  BY <1>1, ClonesEnd DEF Shapes
<1>4. Shapes' /\ Course'
  BY <1>1, <1>3 DEF Shapes, Course
<1>5. GroupsEnd' /\ Numbered' /\ StagesSaid' /\ ToldTrue'
  BY <1>1, <1>2, <1>3 DEF GroupsEnd, Numbered, StagesSaid, ToldTrue
<1> QED BY <1>4, <1>5

LEMMA UpgradeStepKeeps == ASSUME MonitorIInv, UpgradeStep, page' = page PROVE MonitorIInv'
  BY StageMarkerKeeps, TriggerCloneKeeps, HandoffKeeps, MirrorPollsKeeps, HubStopsKeeps,
     SuccessorBootsKeeps, AdoptsKeeps, AdoptionGivesUpKeeps DEF UpgradeStep

----------------------------------------------------------------------------
(* The client and the page.                                                 *)

LEMMA ServerIsAPlace ==
    ASSUME Server # "nobody"
    PROVE  Server \in Places
  BY DEF Server, Places

\* A client that learns a verdict learns the task's.
LEMMA ClientKeeps ==
    ASSUME MonitorIInv, "result" \in DOMAIN client',
           nested = {} /\ client'.result = "success" => task.verdict = "Completed",
           nested = {} /\ client'.result = "failure" => task.verdict = "Failed",
           UNCHANGED <<way, nested, group, count, task, hub, mirror, successor, wire, page>>
    PROVE  MonitorIInv'
<1>1. Runner' = Runner
  BY DEF Runner
<1> QED BY <1>1
        DEF MonitorIInv, Shapes, Course, GroupsEnd, Numbered, StagesSaid, ToldTrue

LEMMA PollAnsweredKeeps == ASSUME MonitorIInv, PollAnswered, page' = page PROVE MonitorIInv'
<1> DEFINE since == IF Recovers THEN NoIndex ELSE client.cursor
           g == group[Server]
           batch == Answer(g, since)
           seen == LookedAt(g, batch)
           ends == {k \in seen : g[k].finished}
           result == IF ends = {} THEN client.result
                     ELSE IF \A k \in ends : g[k].exit = "ok" THEN "success" ELSE "failure"
<1>1. /\ "result" \in DOMAIN client'
      /\ client'.result = result
      /\ UNCHANGED <<way, nested, group, count, task, hub, mirror, successor, wire, page>>
  BY DEF PollAnswered, asked, MonitorIInv, Shapes
<1>2. ends \subseteq DOMAIN g
  BY DEF LookedAt, Answer
<1>3. g \in Seq(ProperMessage) /\ Whole(g, nested, task.verdict)
  BY ServerIsAPlace DEF PollAnswered, MonitorIInv, Shapes, GroupsEnd
<1>4. \A k \in ends : nested = {} => Honest(g[k], task.verdict)
  BY <1>2, <1>3 DEF Whole, Ends
<1> HIDE DEF ends, g
<1>5. task.verdict \in {"none", "Completed", "Failed"}
  BY DEF MonitorIInv, Shapes, Tasks
<1>6. /\ nested = {} /\ result = "success" => task.verdict = "Completed"
      /\ nested = {} /\ result = "failure" => task.verdict = "Failed"
  <2>1. CASE ends = {}
    BY <2>1 DEF MonitorIInv, ToldTrue
  <2>2. CASE ends # {}
    BY <1>4, <1>5, <2>2 DEF Honest, ExitFor
  <2> QED BY <2>1, <2>2
<1> QED BY <1>1, <1>6, ClientKeeps

LEMMA ClientStepKeeps == ASSUME MonitorIInv, ClientStep, page' = page PROVE MonitorIInv'
<1>1. CASE PollAnswered
  BY <1>1, PollAnsweredKeeps
<1>2. CASE PollUnanswered \/ PollLost \/ CursorReset
  <2>1. /\ UNCHANGED <<way, nested, group, count, task, hub, mirror, successor, wire, page>>
        /\ \/ client' = Failed
           \/ client' = [client EXCEPT !.cursor = NoIndex, !.silent = FALSE]
    BY <1>2 DEF PollUnanswered, PollLost, CursorReset, asked
  <2>2. "result" \in DOMAIN client /\ client'.result \in {client.result, "gaveUp"}
        /\ "result" \in DOMAIN client'
    BY <2>1 DEF Failed, MonitorIInv, Shapes
  <2> QED BY <2>1, <2>2, ClientKeeps DEF MonitorIInv, ToldTrue
<1> QED BY <1>1, <1>2 DEF ClientStep

\* What is under way and on the page stays true.
LEMMA PageKeeps ==
    ASSUME MonitorIInv, wire' \in Wires(nested, task.verdict),
           page' \in Pages(nested, task.verdict),
           page'.streaming => \A g \in page'.rows : \A k \in DOMAIN g : ~ g[k].finished,
           UNCHANGED <<way, nested, group, count, task, hub, mirror, successor, client>>
    PROVE  MonitorIInv'
<1>1. Runner' = Runner
  BY DEF Runner
<1> QED BY <1>1
        DEF MonitorIInv, Shapes, Course, GroupsEnd, Numbered, StagesSaid, ToldTrue

LEMMA ConnectsKeeps == ASSUME MonitorIInv, Connects PROVE MonitorIInv'
<1>1. /\ wire' = Opened(Server) /\ Server \in Places
      /\ UNCHANGED <<way, nested, group, count, task, hub, mirror, successor, client, page>>
  BY ServerIsAPlace DEF Connects, asked
<1>2. group[Server] \in Seq(TrueMessages(nested, task.verdict))
  BY <1>1, WholeIsTrue DEF MonitorIInv, Shapes, GroupsEnd
<1> DEFINE e == [snapshot |-> TRUE, messages |-> group[Server]]
<1>3. e \in TrueEvents(nested, task.verdict)
  BY <1>2 DEF TrueEvents
<1> HIDE DEF e
<1>4. <<e>> \in Seq(TrueEvents(nested, task.verdict))
  BY <1>3
<1>5. wire' \in Wires(nested, task.verdict)
  BY <1>1, <1>4 DEF Opened, Wires, e
<1> QED BY <1>1, <1>5, PageKeeps DEF MonitorIInv, ToldTrue

LEMMA BreaksKeeps == ASSUME MonitorIInv, Breaks PROVE MonitorIInv'
<1>1. /\ wire' \in Broken(wire)
      /\ UNCHANGED <<way, nested, group, count, task, hub, mirror, successor, client, page>>
  BY DEF Breaks, asked
<1>2. wire' \in Wires(nested, task.verdict)
  BY <1>1, BrokenTrue DEF MonitorIInv, ToldTrue
<1> QED BY <1>1, <1>2, PageKeeps DEF MonitorIInv, ToldTrue

LEMMA HungIsTrue == \A N, v : Hung \in Wires(N, v)
<1> SUFFICES ASSUME NEW N, NEW v PROVE Hung \in Wires(N, v)
  OBVIOUS
<1>1. <<>> \in Seq(TrueEvents(N, v))
  OBVIOUS
<1> QED BY <1>1 DEF Hung, Wires

LEMMA ReopensKeeps == ASSUME MonitorIInv, Reopens PROVE MonitorIInv'
<1>1. /\ wire' = Hung /\ page' = [streaming |-> TRUE, rows |-> {}]
      /\ UNCHANGED <<way, nested, group, count, task, hub, mirror, successor, client>>
  BY DEF Reopens, asked
<1>2. page' \in Pages(nested, task.verdict)
  BY <1>1 DEF Pages
<1> QED BY <1>1, <1>2, HungIsTrue, PageKeeps

\* What the page finds for a message is a place among its rows.
LEMMA TheFirst ==
    ASSUME NEW at \in SUBSET Nat, FirstOf(at) # {}
    PROVE  The(FirstOf(at)) \in at
<1>1. at # {} /\ FirstOf(at) = {CHOOSE k \in at : \A j \in at : k <= j}
  BY DEF FirstOf
<1>2. (CHOOSE k \in at : \A j \in at : k <= j) \in at
  BY <1>1, FirstPlace
<1> QED BY <1>1, <1>2 DEF The

\* Rows that show no end, merged with a true message, are true.
LEMMA MergedTrue ==
    ASSUME NEW N, NEW v, NEW g \in Seq(TrueMessages(N, v)), NEW m \in TrueMessages(N, v),
           \A k \in DOMAIN g : ~ g[k].finished
    PROVE  MergedOne(g, m) \in Seq(TrueMessages(N, v))
<1> DEFINE running == Running(g, m)
           same == SameIndex(g, m)
<1>1. running # {} => The(running) \in DOMAIN g
  <2> DEFINE at == {k \in DOMAIN g : g[k].partial /\ CommandOf(g[k]) = CommandOf(m)}
  <2>1. at \in SUBSET Nat /\ at \subseteq DOMAIN g /\ running = FirstOf(at)
    BY DEF Running
  <2> HIDE DEF at
  <2> QED BY <2>1, TheFirst
<1>2. same # {} => The(same) \in DOMAIN g
  <2> DEFINE at == {k \in DOMAIN g : m.index # NoIndex /\ g[k].index = m.index}
  <2>1. at \in SUBSET Nat /\ at \subseteq DOMAIN g /\ same = FirstOf(at)
    BY DEF SameIndex
  <2> HIDE DEF at
  <2> QED BY <2>1, TheFirst
<1>3. MergedOne(g, m) = IF m.partial THEN IF running = {} THEN Append(g, m) ELSE g
                        ELSE IF running # {} THEN [g EXCEPT ![The(running)] = m]
                        ELSE IF same # {} THEN [g EXCEPT ![The(same)] = Overlaid(@, m)]
                        ELSE Append(g, m)
  BY DEF MergedOne
<1>4. ASSUME same # {} PROVE Overlaid(g[The(same)], m) \in TrueMessages(N, v)
  <2> DEFINE e == g[The(same)]
  <2>1. e \in Message /\ ~ e.finished /\ m \in Message
    BY <1>2, <1>4 DEF TrueMessages
  <2> HIDE DEF e
  <2>2. /\ Overlaid(e, m) \in Message /\ Overlaid(e, m).exit = m.exit
        /\ Overlaid(e, m).finished = m.finished
    BY <2>1 DEF Overlaid, Message
  <2> QED BY <2>2 DEF TrueMessages, e
<1> HIDE DEF running, same
<1>5. Append(g, m) \in Seq(TrueMessages(N, v))
  OBVIOUS
<1>6. ASSUME NEW k \in DOMAIN g, NEW x \in TrueMessages(N, v)
      PROVE  [g EXCEPT ![k] = x] \in Seq(TrueMessages(N, v))
  BY ExceptSeq
<1> QED BY <1>1, <1>2, <1>3, <1>4, <1>5, <1>6

LEMMA ArrivesKeeps == ASSUME MonitorIInv, Arrives PROVE MonitorIInv'
<1> DEFINE v == task.verdict
           T == TrueMessages(nested, v)
           e == Head(wire.events)
           g == IF e.snapshot THEN MergedAll(page.rows, e.messages)
                ELSE IF page.rows = {} THEN e.messages
                ELSE MergedOne(The(page.rows), e.messages[1])
<1>1. /\ page.streaming /\ wire.events # <<>>
      /\ page' = [streaming |-> InProgress(g), rows |-> {g}]
      /\ wire' = IF InProgress(g) THEN [wire EXCEPT !.events = Tail(@)] ELSE Hung
      /\ UNCHANGED <<way, nested, group, count, task, hub, mirror, successor, client>>
  BY DEF Arrives, asked
<1>2. wire \in Wires(nested, v) /\ page \in Pages(nested, v)
      /\ \A h \in page.rows : \A k \in DOMAIN h : ~ h[k].finished
  BY <1>1 DEF MonitorIInv, ToldTrue
<1>3. wire.events \in Seq(TrueEvents(nested, v))
  BY <1>2 DEF Wires
<1>4. e \in TrueEvents(nested, v) /\ Tail(wire.events) \in Seq(TrueEvents(nested, v))
  BY <1>1, <1>3, HeadTailProperties
<1> HIDE DEF e
<1>5. e.messages \in Seq(T) /\ (~ e.snapshot => e.messages[1] \in T)
  BY <1>4 DEF TrueEvents
<1>6. page.rows # {} => The(page.rows) \in page.rows /\ The(page.rows) \in Seq(T)
  BY <1>2 DEF The, Pages
<1>7. g \in Seq(T)
  <2>1. CASE e.snapshot
    <3>1. g = MergedAll(page.rows, e.messages)
      BY <2>1
    <3>2. page.rows # {} => The(page.rows) \o e.messages \in Seq(T)
      BY <1>5, <1>6
    <3> QED BY <1>5, <3>1, <3>2 DEF MergedAll
  <2>2. CASE ~ e.snapshot /\ page.rows = {}
    BY <1>5, <2>2
  <2>3. CASE ~ e.snapshot /\ page.rows # {}
    <3>1. g = MergedOne(The(page.rows), e.messages[1])
      BY <2>3
    <3>2. \A k \in DOMAIN The(page.rows) : ~ The(page.rows)[k].finished
      BY <1>2, <1>6, <2>3
    <3> QED BY <1>5, <1>6, <2>3, <3>1, <3>2, MergedTrue
  <2> QED BY <2>1, <2>2, <2>3
<1> HIDE DEF g
<1>8. InProgress(g) \in BOOLEAN /\ (InProgress(g) => \A k \in DOMAIN g : ~ g[k].finished)
  BY DEF InProgress, ToSet
<1>9. page' \in Pages(nested, v)
  BY <1>1, <1>7, <1>8 DEF Pages
<1>10. wire' \in Wires(nested, v)
  BY <1>1, <1>2, <1>4, HungIsTrue DEF Wires
<1>11. page'.streaming => \A h \in page'.rows : \A k \in DOMAIN h : ~ h[k].finished
  BY <1>1, <1>8
<1> QED BY <1>1, <1>9, <1>10, <1>11, PageKeeps

----------------------------------------------------------------------------
LEMMA MonitorStep == MonitorIInv /\ [MonitorNext]_monitorVars => MonitorIInv'
<1> SUFFICES ASSUME MonitorIInv, [MonitorNext]_monitorVars PROVE MonitorIInv'
  OBVIOUS
<1>1. CASE (TaskStep \/ OtherTask \/ UpgradeStep \/ ClientStep) /\ UNCHANGED page
  BY <1>1, TaskStepKeeps, OtherTaskKeeps, UpgradeStepKeeps, ClientStepKeeps
<1>2. CASE Connects \/ Breaks \/ Arrives \/ Reopens
  BY <1>2, ConnectsKeeps, BreaksKeeps, ArrivesKeeps, ReopensKeeps
<1>3. CASE UNCHANGED monitorVars
  <2>1. UNCHANGED <<way, nested, group, count, task, hub, mirror, successor, client, wire, page>>
    BY <1>3 DEF monitorVars, taskVars
  <2>2. Runner' = Runner
    BY <2>1 DEF Runner
  <2> QED BY <2>1, <2>2
          DEF MonitorIInv, Shapes, Course, GroupsEnd, Numbered, StagesSaid, ToldTrue
<1> QED BY <1>1, <1>2, <1>3 DEF MonitorNext

LEMMA MonitorAlways == MonitorSpec => []MonitorIInv
  BY MonitorStart, MonitorStep, PTL DEF MonitorSpec

\* Whatever breaks, is lost, comes twice or is adopted: the client reports and
\* the page shows the verdict of its task (webapp-ve-message-manager.mts:200,
\* cli-progress.mts:233, process-monitor.ts:623).
THEOREM VerdictsAreTrue == MonitorSpec => []VerdictIsTheTasks
<1>1. MonitorIInv => VerdictIsTheTasks
  <2> SUFFICES ASSUME MonitorIInv, nested = {}
               PROVE  /\ client.result = "success" \/ Shown("ok") => task.verdict = "Completed"
                      /\ client.result = "failure" \/ Shown("failed") => task.verdict = "Failed"
    BY DEF VerdictIsTheTasks
  <2>1. task.verdict \in {"none", "Completed", "Failed"}
    BY DEF MonitorIInv, Shapes, Tasks
  <2>2. ASSUME NEW exit, Shown(exit) PROVE task.verdict # "none" /\ exit = ExitFor(task.verdict)
    <3>1. PICK m \in Rows : m.finished /\ m.exit = exit
      BY <2>2 DEF Shown
    <3>2. PICK g \in page.rows : \E k \in DOMAIN g : m = g[k]
      BY <3>1 DEF Rows, ToSet
    <3>3. g \in Seq(TrueMessages(nested, task.verdict))
      BY <3>2 DEF MonitorIInv, ToldTrue, Pages
    <3>4. m \in TrueMessages(nested, task.verdict)
      BY <3>2, <3>3
    <3> QED BY <3>1, <3>4 DEF TrueMessages
  <2>3. Shown("ok") => task.verdict = "Completed"
    BY <2>1, <2>2 DEF ExitFor
  <2>4. Shown("failed") => task.verdict = "Failed"
    BY <2>1, <2>2 DEF ExitFor
  <2> QED BY <2>3, <2>4 DEF MonitorIInv, ToldTrue
<1> QED BY <1>1, MonitorAlways, PTL

\* The closing message is the last one of every group it is in, also where the
\* rollback's error takes its number, and the mirror never writes over the
\* hub's own stages (ve-execution.mts:895, self-upgrade-orchestrator.mts:543).
THEOREM RecordsHaveTheirEnds == MonitorSpec => []RecordHasItsEnds
<1>1. MonitorIInv => RecordHasItsEnds
  BY DEF MonitorIInv, GroupsEnd, StagesSaid, RecordHasItsEnds, Whole, Ends, Staged
<1> QED BY <1>1, MonitorAlways, PTL

----------------------------------------------------------------------------
(* What is handed over of a task that runs on the hub without nested runs.  *)

\* Its messages: only output has no index, and only the closing message is an end.
DirectMessage ==
    {m \in Message : /\ m.partial \/ m.index = NoIndex => m.kind = "chunk"
                     /\ m.kind = "chunk" => m.index = NoIndex
                     /\ m.finished = (m.kind = "closing")}

Same(a, b) == a.kind = b.kind /\ a.step = b.step /\ a.index = b.index

\* The rollback's error, which takes a number that is not its own, is in the group.
Spoilt(g) == \E k \in DOMAIN g : g[k].kind = "rollbackError"

\* Output is replaced by its result; of the rollback's error nothing is asked.
MayGo(m) == m.kind \in {"chunk", "rollbackError"}

Distinct(g) == ~ Spoilt(g) => \A o, j \in DOMAIN g :
                  g[o].index = g[j].index /\ g[o].index # NoIndex => o = j

GroupFollows(g) ==
    /\ g \in Seq(DirectMessage) /\ Distinct(g)
    /\ task.phase # "over" => ~ Spoilt(g)

ClientShapes ==
    /\ {"moved", "cursor", "result"} \subseteq DOMAIN client
    /\ ~ client.moved /\ client.cursor \in Nat \cup {NoIndex}

\* What the client was not handed is above its cursor.
Reaches(m) ==
    \/ m.kind = "rollbackError" \/ Name(m) \in got
    \/ client.cursor = NoIndex \/ m.index > client.cursor

ClientFollows(g) ==
    /\ ClientShapes
    /\ client.result = "polling" =>
          /\ client.cursor # NoIndex /\ task.phase \notin {"over", "destroyed"} =>
                client.cursor < count["hub"] /\ g # <<>>
          /\ \A k \in DOMAIN g : Reaches(g[k])

Told(e, m) == \E j \in DOMAIN e.messages : e.messages[j] = m

Pending(m) == \E o \in DOMAIN wire.events : Told(wire.events[o], m)

Closes(e) == \E j \in DOMAIN e.messages : e.messages[j].finished

PageShapes ==
    /\ wire \in [at : {"hub", "nobody"},
                 events : Seq([snapshot : BOOLEAN, messages : Seq(DirectMessage)])]
    /\ \E g \in Seq(DirectMessage) : page.rows \in {{}, {g}}
    /\ page.streaming \in BOOLEAN /\ (~ page.streaming => wire = Hung)
    /\ \A o \in DOMAIN wire.events : Closes(wire.events[o]) => o = Len(wire.events)

\* A message the page has or will get is one of the group.
Matches(g, m) ==
    /\ MayGo(m) \/ \E k \in DOMAIN g : Same(g[k], m)
    /\ m.kind = "rollbackError" =>
          \A k \in DOMAIN g : g[k].index = m.index => g[k].kind = "closing"

Seen == {m \in DirectMessage : m \in Rows \/ Pending(m)}

\* While the stream lasts, or once the end is on its way, the page has or will
\* get every message.
PageFollows(g) ==
    /\ PageShapes
    /\ ~ Spoilt(g) => \A m \in Seen : Matches(g, m)
    /\ task.phase # "over" => \A m \in Seen : m.kind # "rollbackError"
    /\ wire.at # "nobody" \/ (\E o \in DOMAIN wire.events : Closes(wire.events[o])) =>
          Kept(g) \subseteq {Name(m) : m \in Seen}

FollowInv ==
    way = "direct" /\ nested = {} =>
        /\ ~ moves /\ successor = "none"
        /\ GroupFollows(group["hub"])
        /\ ClientFollows(group["hub"])
        /\ PageFollows(group["hub"])

----------------------------------------------------------------------------
(* Recording the messages of such a task.                                   *)

\* They are messages of the kind the earlier lemmas speak of.
LEMMA DirectIsProper ==
    /\ \A m \in DirectMessage : m \in ProperMessage /\ m.index \in Nat \cup {NoIndex}
    /\ \A g \in Seq(DirectMessage) : g \in Seq(ProperMessage)
<1>1. \A m \in DirectMessage : m \in ProperMessage /\ m.index \in Nat \cup {NoIndex}
  BY DEF DirectMessage, ProperMessage, Message, MessageKinds
<1>2. DirectMessage \subseteq ProperMessage
  BY <1>1
<1>3. ASSUME NEW g \in Seq(DirectMessage) PROVE g \in Seq(ProperMessage)
  <2>1. g \in [1 .. Len(g) -> DirectMessage] /\ Len(g) \in Nat
    OBVIOUS
  <2>2. g \in [1 .. Len(g) -> ProperMessage]
    BY <1>2, <2>1
  <2> QED BY <2>1, <2>2
<1> QED BY <1>1, <1>3

\* A final message with an index of its own comes last.
LEMMA NewComesLast ==
    ASSUME NEW g \in Seq(DirectMessage), NEW m \in DirectMessage, ~ m.partial, m.index # NoIndex,
           \A k \in DOMAIN g : g[k].index # m.index
    PROVE  /\ Recorded(g, m) \in Seq(DirectMessage) /\ Len(Recorded(g, m)) = Len(g) + 1
           /\ Same(Recorded(g, m)[Len(g) + 1], m)
           /\ \A k \in DOMAIN g : Same(Recorded(g, m)[k], g[k])
<1> DEFINE s == [k \in DOMAIN g |-> Settled(g[k], m)]
           r == Append(s, m)
<1>1. ~ Known(g, m)
  BY DEF Known, Indexed
<1>2. Recorded(g, m) = r
  BY <1>1 DEF Recorded, RecordedFinal
<1>3. ASSUME NEW k \in DOMAIN g
      PROVE  Settled(g[k], m) \in DirectMessage /\ Same(Settled(g[k], m), g[k])
  <2>1. g[k] \in DirectMessage
    OBVIOUS
  <2> QED BY <2>1 DEF Settled, Same, DirectMessage, Message, Exits
<1>4. s = [k \in 1 .. Len(g) |-> Settled(g[k], m)]
  OBVIOUS
<1>5. s \in Seq(DirectMessage) /\ Len(s) = Len(g) /\ \A k \in DOMAIN g : Same(s[k], g[k])
  BY <1>3, <1>4
<1> HIDE DEF s
<1>6. /\ r \in Seq(DirectMessage) /\ Len(r) = Len(g) + 1 /\ r[Len(g) + 1] = m
      /\ \A k \in DOMAIN g : r[k] = s[k]
  BY <1>5
<1> HIDE DEF r
<1> QED BY <1>2, <1>5, <1>6 DEF Same

\* A final message with a number that is there takes its place.
LEMMA KnownTakesPlace ==
    ASSUME NEW g \in Seq(DirectMessage), NEW m \in DirectMessage, ~ m.partial, NEW o \in DOMAIN g,
           m.index # NoIndex, g[o].index = m.index,
           \A k \in DOMAIN g : ~ g[k].finished
    PROVE  \E p \in DOMAIN g :
              /\ g[p].index = m.index
              /\ Recorded(g, m) \in Seq(DirectMessage) /\ Len(Recorded(g, m)) = Len(g)
              /\ Same(Recorded(g, m)[p], m)
              /\ \A k \in DOMAIN g \ {p} : Recorded(g, m)[k] = g[k]
<1> DEFINE p == PlaceOf(g, m)
           r == [g EXCEPT ![p] = Merged(@, m)]
<1>1. Known(g, m)
  BY DEF Known, Indexed
<1>2. Recorded(g, m) = r
  BY <1>1 DEF Recorded, RecordedFinal
<1>3. p \in DOMAIN g /\ g[p].index = m.index /\ g[p] \in DirectMessage /\ ~ g[p].finished
  BY <1>1, KnownPlace, DirectIsProper
<1> HIDE DEF p
<1>4. Merged(g[p], m) \in DirectMessage /\ Same(Merged(g[p], m), m)
  BY <1>3 DEF Merged, Same, DirectMessage, Message, Exits
<1>5. /\ r \in Seq(DirectMessage) /\ Len(r) = Len(g) /\ r[p] = Merged(g[p], m)
      /\ \A k \in DOMAIN g \ {p} : r[k] = g[k]
  BY <1>3, <1>4
<1> HIDE DEF r
<1> QED BY <1>2, <1>3, <1>4, <1>5

\* Output is recorded only in an empty group.
LEMMA OutputRecorded ==
    ASSUME NEW g \in Seq(DirectMessage), NEW m \in DirectMessage, m.partial
    PROVE  /\ Recorded(g, m) \in Seq(DirectMessage)
           /\ g = <<>> => Recorded(g, m) = <<m>>
           /\ g # <<>> => /\ Len(Recorded(g, m)) = Len(g)
                          /\ \A k \in DOMAIN g : Same(Recorded(g, m)[k], g[k])
<1>1. ~ Known(g, m) /\ m.index = NoIndex
  BY DEF Known, DirectMessage
<1>2. CASE g = <<>>
  <2>1. Recorded(g, m) = <<m>>
    BY <1>1, <1>2 DEF Recorded, RecordedPartial
  <2>2. <<m>> \in Seq(DirectMessage)
    OBVIOUS
  <2> QED BY <1>2, <2>1, <2>2
<1>3. CASE g # <<>>
  <2> DEFINE r == [g EXCEPT ![Len(g)] = Cleared(@)]
  <2>1. Recorded(g, m) = r
    BY <1>1, <1>3 DEF Recorded, RecordedPartial
  <2>2. Len(g) \in DOMAIN g /\ g[Len(g)] \in DirectMessage
    BY <1>3
  <2>3. Cleared(g[Len(g)]) \in DirectMessage /\ Same(Cleared(g[Len(g)]), g[Len(g)])
    BY <2>2 DEF Cleared, Same, DirectMessage, Message, Exits
  <2>4. r \in Seq(DirectMessage) /\ Len(r) = Len(g) /\ DOMAIN r = DOMAIN g
    BY <2>2, <2>3
  <2>5. ASSUME NEW k \in DOMAIN g PROVE Same(r[k], g[k])
    <3>1. CASE k = Len(g)
      BY <2>2, <2>3, <2>4, <3>1
    <3>2. CASE k # Len(g)
      BY <2>4, <3>2 DEF Same
    <3> QED BY <3>1, <3>2
  <2> HIDE DEF r
  <2> QED BY <1>3, <2>1, <2>4, <2>5
<1> QED BY <1>2, <1>3

\* What recording the messages ms, numbered from c on, does to the group g of a
\* task that goes to phase p.
Hears(g, r, ms, c, p) ==
    /\ ms \in Seq(DirectMessage) /\ r \in Seq(DirectMessage) /\ Distinct(r)
    /\ \A j \in DOMAIN ms : ms[j].finished => j = Len(ms)
    /\ p # "over" => ~ Spoilt(r) /\ \A j \in DOMAIN ms : ms[j].kind # "rollbackError"
    /\ \A k \in DOMAIN r : \/ k \in DOMAIN g /\ Same(r[k], g[k])
                           \/ r[k].kind = "rollbackError" \/ r[k].index >= c \/ g = <<>>
    /\ ~ Spoilt(r) =>
          /\ Len(g) <= Len(r) /\ \A k \in DOMAIN g : Same(r[k], g[k])
          /\ \A k \in DOMAIN r : k \in DOMAIN g \/ \E j \in DOMAIN ms : Same(r[k], ms[j])
          /\ \A j \in DOMAIN ms : Matches(r, ms[j])

\* The group x is g with the messages ms behind it, numbered from c on and below n.
Grown(g, x, ms, c, n) ==
    /\ x \in Seq(DirectMessage) /\ ms \in Seq(DirectMessage) /\ n \in Nat /\ c <= n
    /\ Below(x, n) /\ Distinct(x) /\ ~ Spoilt(x)
    /\ Len(g) <= Len(x) /\ \A k \in DOMAIN g : Same(x[k], g[k])
    /\ \A k \in DOMAIN x : k \in DOMAIN g \/
          (x[k].index >= c /\ \E j \in DOMAIN ms : Same(x[k], ms[j]))
    /\ \A j \in DOMAIN ms : ms[j].kind # "rollbackError" /\ \E k \in DOMAIN x : Same(x[k], ms[j])

\* Nothing was said yet.
LEMMA StartsToGrow ==
    ASSUME NEW g \in Seq(DirectMessage), ~ Spoilt(g), Distinct(g), NEW c \in Nat, Below(g, c)
    PROVE  Grown(g, g, <<>>, c, c)
<1>1. <<>> \in Seq(DirectMessage) /\ DOMAIN <<>> = {}
  OBVIOUS
<1>2. \A k \in DOMAIN g : Same(g[k], g[k])
  BY DEF Same
<1>3. Len(g) <= Len(g) /\ c <= c
  OBVIOUS
<1> QED BY <1>1, <1>2, <1>3 DEF Grown

\* One more message, with a number that was not used, goes behind the others.
LEMMA GrowsMore ==
    ASSUME NEW g \in Seq(DirectMessage), NEW x, NEW ms, NEW c \in Nat, NEW n,
           Grown(g, x, ms, c, n), NEW m \in DirectMessage, ~ m.partial, m.index >= n,
           m.index # NoIndex, m.kind # "rollbackError"
    PROVE  Grown(g, Recorded(x, m), Append(ms, m), c, m.index + 1)
<1> DEFINE r == Recorded(x, m)
           L == Len(x)
           mt == Append(ms, m)
<1>1. /\ x \in Seq(DirectMessage) /\ ms \in Seq(DirectMessage) /\ n \in Nat /\ c <= n
      /\ Below(x, n) /\ Distinct(x) /\ ~ Spoilt(x) /\ Len(g) <= L
      /\ L \in Nat /\ Len(g) \in Nat /\ m.index \in Nat
      /\ \A k \in DOMAIN x : x[k].index \in Int
  BY DirectIsProper DEF Grown, NoIndex
<1>2. \A k \in DOMAIN x : x[k].index < m.index
  BY <1>1 DEF Below
<1>3. \A k \in DOMAIN x : x[k].index # m.index
  BY <1>1, <1>2
<1>4. /\ r \in Seq(DirectMessage) /\ Len(r) = L + 1 /\ Same(r[L + 1], m)
      /\ \A k \in DOMAIN x : Same(r[k], x[k])
  BY <1>1, <1>3, NewComesLast
<1> HIDE DEF r
<1>5. DOMAIN r = 1 .. L + 1 /\ DOMAIN x = 1 .. L /\ DOMAIN g = 1 .. Len(g)
  BY <1>1, <1>4
<1>6. /\ mt \in Seq(DirectMessage) /\ DOMAIN mt = 1 .. Len(ms) + 1 /\ mt[Len(ms) + 1] = m
      /\ \A j \in DOMAIN ms : j \in DOMAIN mt /\ mt[j] = ms[j]
      /\ \A j \in DOMAIN mt : j \in DOMAIN ms \/ j = Len(ms) + 1
      /\ Len(ms) + 1 \in DOMAIN mt
  BY <1>1
<1> HIDE DEF mt
<1>7. \A k \in DOMAIN r : k \in DOMAIN x \/ k = L + 1
  BY <1>1, <1>5
<1>8. Below(r, m.index + 1)
  <2>1. ASSUME NEW k \in DOMAIN r PROVE r[k].index < m.index + 1
    <3>1. CASE k \in DOMAIN x
      <4>1. r[k].index = x[k].index /\ x[k].index < m.index /\ x[k].index \in Int
        BY <1>1, <1>2, <1>4, <3>1 DEF Same
      <4> QED BY <1>1, <4>1
    <3>2. CASE k = L + 1
      <4>1. r[k].index = m.index
        BY <1>4, <3>2 DEF Same
      <4> QED BY <1>1, <4>1
    <3> QED BY <1>7, <3>1, <3>2
  <2> QED BY <2>1 DEF Below
<1>9. ~ Spoilt(r)
  BY <1>1, <1>4, <1>7 DEF Spoilt, Same
<1>10. Distinct(r)
  <2> SUFFICES ASSUME NEW o \in DOMAIN r, NEW j \in DOMAIN r, r[o].index = r[j].index,
                      r[o].index # NoIndex
               PROVE  o = j
    BY DEF Distinct
  <2>1. CASE o \in DOMAIN x /\ j \in DOMAIN x
    BY <1>1, <1>4, <2>1 DEF Distinct, Same
  <2>2. CASE o = L + 1 \/ j = L + 1
    BY <1>3, <1>4, <1>7, <2>2 DEF Same
  <2> QED BY <1>7, <2>1, <2>2
<1>11. Len(g) <= Len(r)
  BY <1>1, <1>4
<1>12. ASSUME NEW k \in DOMAIN g PROVE Same(r[k], g[k])
  <2>1. k \in DOMAIN x
    BY <1>1, <1>5
  <2>2. Same(x[k], g[k])
    BY DEF Grown
  <2> QED BY <1>4, <2>1, <2>2 DEF Same
<1>13. ASSUME NEW k \in DOMAIN r, k \notin DOMAIN g
       PROVE  r[k].index >= c /\ \E j \in DOMAIN mt : Same(r[k], mt[j])
  <2>1. CASE k \in DOMAIN x
    <3>1. PICK j \in DOMAIN ms : Same(x[k], ms[j])
      BY <1>13, <2>1 DEF Grown
    <3>2. x[k].index >= c
      BY <1>13, <2>1 DEF Grown
    <3> QED BY <1>4, <1>6, <2>1, <3>1, <3>2 DEF Same
  <2>2. CASE k = L + 1
    <3>1. r[k].index = m.index /\ Same(r[k], mt[Len(ms) + 1])
      BY <1>4, <1>6, <2>2 DEF Same
    <3> QED BY <1>1, <1>6, <3>1
  <2> QED BY <1>7, <2>1, <2>2
<1>14. ASSUME NEW j \in DOMAIN mt
       PROVE  mt[j].kind # "rollbackError" /\ \E k \in DOMAIN r : Same(r[k], mt[j])
  <2>1. CASE j \in DOMAIN ms
    <3>1. PICK k \in DOMAIN x : Same(x[k], ms[j])
      BY <2>1 DEF Grown
    <3>2. ms[j].kind # "rollbackError"
      BY <2>1 DEF Grown
    <3>3. k \in DOMAIN r /\ Same(r[k], ms[j])
      BY <1>1, <1>4, <1>5, <3>1 DEF Same
    <3> QED BY <1>6, <2>1, <3>2, <3>3
  <2>2. CASE j = Len(ms) + 1
    <3>1. L + 1 \in DOMAIN r
      BY <1>1, <1>5
    <3> QED BY <1>4, <1>6, <2>2, <3>1
  <2> QED BY <1>6, <2>1, <2>2
<1>15. m.index + 1 \in Nat /\ c <= m.index + 1
  BY <1>1
<1>16. Grown(g, r, mt, c, m.index + 1)
  BY <1>4, <1>6, <1>8, <1>9, <1>10, <1>11, <1>12, <1>13, <1>14, <1>15 DEF Grown
<1> QED BY <1>16 DEF r, mt

\* To be grown is enough to have heard.
LEMMA GrownHears ==
    ASSUME NEW g \in Seq(DirectMessage), NEW r, NEW ms, NEW c \in Nat, NEW n, NEW p,
           Grown(g, r, ms, c, n), \A j \in DOMAIN ms : ms[j].finished => j = Len(ms)
    PROVE  Hears(g, r, ms, c, p)
<1>1. \A j \in DOMAIN ms : Matches(r, ms[j])
  BY DEF Grown, Matches
<1>2. \A k \in DOMAIN r : \/ k \in DOMAIN g /\ Same(r[k], g[k])
                          \/ r[k].kind = "rollbackError" \/ r[k].index >= c \/ g = <<>>
  BY DEF Grown
<1> QED BY <1>1, <1>2 DEF Hears, Grown

\* The rollback fails behind x: its error b takes a number that may be in use, or
\* that of the closing message d.
LEMMA LastWordsHeard ==
    ASSUME NEW g \in Seq(DirectMessage), NEW x, NEW a \in DirectMessage,
           NEW c \in Nat, NEW n \in Nat,
           Grown(g, x, <<a>>, c, n), ~ a.finished, \A k \in DOMAIN x : ~ x[k].finished,
           NEW b \in DirectMessage, b.kind = "rollbackError", ~ b.partial, ~ b.finished,
           NEW d \in DirectMessage, d.kind = "closing", ~ d.partial, d.index = n
    PROVE  Hears(g, Recorded(Recorded(x, b), d), <<a, b, d>>, c, "over")
<1> DEFINE y == Recorded(x, b)
           z == Recorded(y, d)
           ms == <<a, b, d>>
           L == Len(x)
<1>1. /\ x \in Seq(DirectMessage) /\ c <= n /\ Below(x, n) /\ Distinct(x) /\ ~ Spoilt(x)
      /\ L \in Nat /\ Len(g) \in Nat /\ Len(g) <= L /\ DOMAIN x = 1 .. L
      /\ DOMAIN g = 1 .. Len(g)
      /\ \A k \in DOMAIN x : x[k].index \in Int /\ x[k].index < n
  BY DirectIsProper DEF Grown, Below, NoIndex
<1>2. b.index \in Nat /\ b.index # NoIndex /\ d.index # NoIndex /\ d.finished
  BY DEF DirectMessage, Message, NoIndex
<1>3. /\ ms \in Seq(DirectMessage) /\ Len(ms) = 3 /\ ms[1] = a /\ ms[2] = b /\ ms[3] = d
      /\ DOMAIN ms = 1 .. 3
  OBVIOUS
<1>4. <<a>>[1] = a /\ DOMAIN <<a>> = {1}
  OBVIOUS
<1>5. ASSUME NEW k \in DOMAIN x, k \notin DOMAIN g PROVE x[k].index >= c /\ Same(x[k], a)
  BY <1>4, <1>5 DEF Grown
<1>6. \A k \in DOMAIN g : k \in DOMAIN x /\ Same(x[k], g[k])
  BY <1>1 DEF Grown
<1>7. \E k \in DOMAIN x : Same(x[k], a)
  BY <1>4 DEF Grown
<1> HIDE DEF ms
<1>8. \A j \in DOMAIN ms : ms[j].finished => j = Len(ms)
  BY <1>3
<1>9. CASE b.index = n
  \* The closing message takes the place of the error.
  <2>1. \A k \in DOMAIN x : x[k].index # b.index
    BY <1>1, <1>9
  <2>2. /\ y \in Seq(DirectMessage) /\ Len(y) = L + 1 /\ Same(y[L + 1], b)
        /\ \A k \in DOMAIN x : Same(y[k], x[k])
    BY <1>1, <1>2, <2>1, NewComesLast
  <2>3. DOMAIN y = 1 .. L + 1 /\ L + 1 \in DOMAIN y /\ y[L + 1].index = d.index
        /\ \A k \in DOMAIN y : k \in DOMAIN x \/ k = L + 1
    BY <1>1, <1>9, <2>2 DEF Same
  <2>4. \A k \in DOMAIN y : ~ y[k].finished
    <3>1. ASSUME NEW k \in DOMAIN x PROVE ~ y[k].finished
      <4>1. /\ y[k] \in DirectMessage /\ x[k] \in DirectMessage
            /\ Same(y[k], x[k]) /\ ~ x[k].finished
        BY <1>1, <2>2, <2>3
      <4> QED BY <4>1 DEF Same, DirectMessage
    <3>2. y[L + 1] \in DirectMessage /\ y[L + 1].kind = "rollbackError"
      BY <2>2, <2>3 DEF Same
    <3>3. ~ y[L + 1].finished
      BY <3>2 DEF DirectMessage
    <3> QED BY <2>3, <3>1, <3>3
  <2> HIDE DEF y
  <2>5. PICK p \in DOMAIN y :
            /\ y[p].index = d.index
            /\ z \in Seq(DirectMessage) /\ Len(z) = Len(y) /\ Same(z[p], d)
            /\ \A k \in DOMAIN y \ {p} : z[k] = y[k]
    BY <1>2, <2>2, <2>3, <2>4, KnownTakesPlace
  <2>6. p = L + 1
    <3> SUFFICES ASSUME p \in DOMAIN x PROVE FALSE
      BY <2>3, <2>5
    <3>1. y[p].index = x[p].index
      BY <2>2 DEF Same
    <3>2. x[p].index < n /\ x[p].index \in Int
      BY <1>1
    <3> QED BY <2>5, <3>1, <3>2
  <2>7. /\ z \in Seq(DirectMessage) /\ DOMAIN z = 1 .. L + 1 /\ Len(z) = L + 1
        /\ Same(z[L + 1], d)
        /\ \A k \in DOMAIN x : Same(z[k], x[k])
        /\ \A k \in DOMAIN z : k \in DOMAIN x \/ k = L + 1
    <3>1. Len(z) = L + 1 /\ DOMAIN z = 1 .. L + 1
      BY <1>1, <2>2, <2>5
    <3>2. \A k \in DOMAIN x : k \in DOMAIN y \ {p}
      BY <1>1, <2>3, <2>6
    <3>3. \A k \in DOMAIN x : Same(z[k], x[k])
      BY <2>2, <2>5, <3>2
    <3>4. \A k \in DOMAIN z : k \in DOMAIN x \/ k = L + 1
      BY <2>3, <3>1
    <3> QED BY <2>5, <2>6, <3>1, <3>3, <3>4
  <2> HIDE DEF z
  <2>8. Distinct(z)
    <3> SUFFICES ASSUME NEW o \in DOMAIN z, NEW j \in DOMAIN z, z[o].index = z[j].index,
                        z[o].index # NoIndex
                 PROVE  o = j
      BY DEF Distinct
    <3>1. CASE o \in DOMAIN x /\ j \in DOMAIN x
      BY <1>1, <2>7, <3>1 DEF Distinct, Same
    <3>2. CASE o = L + 1 \/ j = L + 1
      BY <1>1, <2>7, <3>2 DEF Same
    <3> QED BY <2>7, <3>1, <3>2
  <2>9. ASSUME NEW k \in DOMAIN z
        PROVE  \/ k \in DOMAIN g /\ Same(z[k], g[k])
               \/ z[k].kind = "rollbackError" \/ z[k].index >= c \/ g = <<>>
    <3>1. CASE k \in DOMAIN g
      BY <1>6, <2>7, <3>1 DEF Same
    <3>2. CASE k \in DOMAIN x /\ k \notin DOMAIN g
      BY <1>5, <2>7, <3>2 DEF Same
    <3>3. CASE k = L + 1
      BY <1>1, <2>7, <3>3 DEF Same
    <3> QED BY <2>7, <3>1, <3>2, <3>3
  <2>10. Len(g) <= Len(z) /\ \A k \in DOMAIN g : Same(z[k], g[k])
    BY <1>1, <1>6, <2>7 DEF Same
  <2>11. ASSUME NEW k \in DOMAIN z, k \notin DOMAIN g PROVE \E j \in DOMAIN ms : Same(z[k], ms[j])
    <3>1. CASE k \in DOMAIN x
      BY <1>3, <1>5, <2>7, <2>11, <3>1 DEF Same
    <3>2. CASE k = L + 1
      BY <1>3, <2>7, <3>2
    <3> QED BY <2>7, <3>1, <3>2
  <2>12. ASSUME NEW j \in DOMAIN ms PROVE Matches(z, ms[j])
    <3>1. CASE j = 1
      <4>1. PICK k \in DOMAIN x : Same(x[k], a)
        BY <1>7
      <4>2. k \in DOMAIN z /\ Same(z[k], a)
        BY <1>1, <2>7, <4>1 DEF Same
      <4>3. a.kind # "rollbackError"
        BY <1>4 DEF Grown
      <4> QED BY <1>3, <3>1, <4>2, <4>3 DEF Matches
    <3>2. CASE j = 2
      <4>1. \A k \in DOMAIN z : z[k].index = b.index => z[k].kind = "closing"
        BY <1>1, <1>9, <2>7 DEF Same
      <4> QED BY <1>3, <3>2, <4>1 DEF Matches, MayGo
    <3>3. CASE j = 3
      <4>1. L + 1 \in DOMAIN z /\ d.kind # "rollbackError"
        BY <1>1, <2>7
      <4> QED BY <1>3, <2>7, <3>3, <4>1 DEF Matches
    <3> QED BY <1>3, <3>1, <3>2, <3>3
  <2>13. Hears(g, z, ms, c, "over")
    BY <1>3, <1>8, <2>7, <2>8, <2>9, <2>10, <2>11, <2>12 DEF Hears
  <2> QED BY <2>13 DEF y, z, ms
<1>10. CASE b.index # n
  \* The error stays.
  <2>1. /\ y \in Seq(DirectMessage) /\ Len(y) \in Nat
        /\ \E k \in DOMAIN y : y[k].kind = "rollbackError"
        /\ \A k \in DOMAIN y : \/ k \in DOMAIN x /\ Same(y[k], x[k])
                               \/ Same(y[k], b)
    <3>1. CASE \A k \in DOMAIN x : x[k].index # b.index
      <4>1. /\ y \in Seq(DirectMessage) /\ Len(y) = L + 1 /\ Same(y[L + 1], b)
            /\ \A k \in DOMAIN x : Same(y[k], x[k])
        BY <1>1, <1>2, <3>1, NewComesLast
      <4> HIDE DEF y
      <4>2. L + 1 \in DOMAIN y /\ \A k \in DOMAIN y : k \in DOMAIN x \/ k = L + 1
        BY <1>1, <4>1
      <4> QED BY <4>1, <4>2 DEF Same
    <3>2. CASE \E k \in DOMAIN x : x[k].index = b.index
      <4>1. PICK o \in DOMAIN x : x[o].index = b.index
        BY <3>2
      <4>2. PICK p \in DOMAIN x :
                /\ y \in Seq(DirectMessage) /\ Len(y) = L /\ Same(y[p], b)
                /\ \A k \in DOMAIN x \ {p} : y[k] = x[k]
        BY <1>1, <1>2, <4>1, KnownTakesPlace
      <4> HIDE DEF y
      <4>3. DOMAIN y = DOMAIN x
        BY <1>1, <4>2
      <4> QED BY <1>1, <4>2, <4>3 DEF Same
    <3> QED BY <3>1, <3>2
  <2> HIDE DEF y
  <2>2. \A k \in DOMAIN y : y[k].index # d.index
    BY <1>1, <1>10, <2>1 DEF Same
  <2>3. /\ z \in Seq(DirectMessage) /\ Len(z) = Len(y) + 1 /\ Same(z[Len(y) + 1], d)
        /\ \A k \in DOMAIN y : Same(z[k], y[k])
    BY <1>2, <2>1, <2>2, NewComesLast
  <2> HIDE DEF z
  <2>4. /\ \A k \in DOMAIN z : k \in DOMAIN y \/ k = Len(y) + 1
        /\ \A k \in DOMAIN y : k \in DOMAIN z
    BY <2>1, <2>3
  <2>5. Spoilt(z)
    BY <2>1, <2>3, <2>4 DEF Spoilt, Same
  <2>6. ASSUME NEW k \in DOMAIN z
        PROVE  \/ k \in DOMAIN g /\ Same(z[k], g[k])
               \/ z[k].kind = "rollbackError" \/ z[k].index >= c \/ g = <<>>
    <3>1. CASE k = Len(y) + 1
      BY <1>1, <2>3, <3>1 DEF Same
    <3>2. CASE k \in DOMAIN y /\ Same(y[k], b)
      BY <2>3, <3>2 DEF Same
    <3>3. CASE k \in DOMAIN y /\ k \in DOMAIN x /\ Same(y[k], x[k])
      <4>1. Same(z[k], x[k])
        BY <2>3, <3>3 DEF Same
      <4>2. CASE k \in DOMAIN g
        BY <1>6, <4>1, <4>2 DEF Same
      <4>3. CASE k \notin DOMAIN g
        BY <1>5, <3>3, <4>1, <4>3 DEF Same
      <4> QED BY <4>2, <4>3
    <3> QED BY <2>1, <2>4, <3>1, <3>2, <3>3
  <2>7. Hears(g, z, ms, c, "over")
    BY <1>3, <1>8, <2>3, <2>5, <2>6 DEF Hears, Distinct
  <2> QED BY <2>7 DEF y, z, ms
<1> QED BY <1>9, <1>10

----------------------------------------------------------------------------
(* The task speaks.                                                         *)

\* The places of two sequences, one behind the other.
LEMMA Joined ==
    ASSUME NEW S, NEW a \in Seq(S), NEW b \in Seq(S)
    PROVE  /\ a \o b \in Seq(S) /\ Len(a \o b) = Len(a) + Len(b)
           /\ DOMAIN a = 1 .. Len(a)
           /\ \A k \in DOMAIN a : k \in DOMAIN (a \o b) /\ (a \o b)[k] = a[k]
           /\ \A j \in DOMAIN b : Len(a) + j \in DOMAIN (a \o b) /\ (a \o b)[Len(a) + j] = b[j]
           /\ \A k \in DOMAIN (a \o b) : k \in DOMAIN a \/ k - Len(a) \in DOMAIN b
           /\ \A k \in DOMAIN (a \o b) : k \notin DOMAIN a => (a \o b)[k] = b[k - Len(a)]
<1> DEFINE c == a \o b
<1>1. /\ c \in Seq(S) /\ Len(c) = Len(a) + Len(b)
      /\ \A k \in 1 .. Len(a) + Len(b) : c[k] = IF k <= Len(a) THEN a[k] ELSE b[k - Len(a)]
  BY ConcatProperties
<1>2. /\ DOMAIN a = 1 .. Len(a) /\ DOMAIN b = 1 .. Len(b) /\ Len(a) \in Nat /\ Len(b) \in Nat
  OBVIOUS
<1> HIDE DEF c
<1>3. DOMAIN c = 1 .. Len(a) + Len(b)
  BY <1>1, <1>2
<1>4. /\ \A k \in DOMAIN a : k \in DOMAIN c /\ c[k] = a[k]
      /\ \A k \in DOMAIN c : k \in DOMAIN a \/ k - Len(a) \in DOMAIN b
      /\ \A k \in DOMAIN c : k \notin DOMAIN a => c[k] = b[k - Len(a)]
  BY <1>1, <1>2, <1>3
<1>5. ASSUME NEW j \in DOMAIN b PROVE Len(a) + j \in DOMAIN c /\ c[Len(a) + j] = b[j]
  <2>1. Len(a) + j \in DOMAIN c /\ Len(a) + j \notin DOMAIN a /\ (Len(a) + j) - Len(a) = j
    BY <1>2, <1>3
  <2> QED BY <1>4, <2>1
<1> QED BY <1>1, <1>2, <1>4, <1>5 DEF c

\* The stream carries what was said behind what is under way.
LEMMA ToldOnTheStream ==
    ASSUME wire \in [at : {"hub", "nobody"},
                     events : Seq([snapshot : BOOLEAN, messages : Seq(DirectMessage)])],
           \A o \in DOMAIN wire.events : ~ Closes(wire.events[o]),
           NEW ms \in Seq(DirectMessage), \A j \in DOMAIN ms : ms[j].finished => j = Len(ms),
           wire' = Notified("hub", ms)
    PROVE  /\ wire' \in [at : {"hub", "nobody"},
                         events : Seq([snapshot : BOOLEAN, messages : Seq(DirectMessage)])]
           /\ wire'.at = wire.at /\ (wire.at = "nobody" => wire' = wire)
           /\ \A o \in DOMAIN wire'.events : Closes(wire'.events[o]) => o = Len(wire'.events)
           /\ \A m : Pending(m)' => Pending(m) \/ \E j \in DOMAIN ms : ms[j] = m
           /\ wire.at = "hub" =>
                 \A m : Pending(m) \/ (\E j \in DOMAIN ms : ms[j] = m) => Pending(m)'
<1> DEFINE E == [snapshot : BOOLEAN, messages : Seq(DirectMessage)]
           es == [k \in DOMAIN ms |-> [snapshot |-> FALSE, messages |-> <<ms[k]>>]]
           old == wire.events
           new == old \o es
<1>1. CASE wire.at # "hub"
  <2>1. wire' = wire
    BY <1>1 DEF Notified
  <2> QED BY <1>1, <2>1 DEF Pending
<1>2. CASE wire.at = "hub"
  <2>1. ASSUME NEW k \in DOMAIN ms
        PROVE  /\ es[k] \in E /\ Len(es[k].messages) = 1 /\ es[k].messages[1] = ms[k]
               /\ DOMAIN es[k].messages = {1}
    <3>1. ms[k] \in DirectMessage
      OBVIOUS
    <3>2. <<ms[k]>> \in Seq(DirectMessage) /\ Len(<<ms[k]>>) = 1 /\ <<ms[k]>>[1] = ms[k]
          /\ DOMAIN <<ms[k]>> = {1}
      BY <3>1
    <3> QED BY <3>2
  <2>2. es = [k \in 1 .. Len(ms) |-> es[k]] /\ Len(ms) \in Nat /\ DOMAIN ms = 1 .. Len(ms)
    OBVIOUS
  <2>3. es \in Seq(E) /\ Len(es) = Len(ms)
    BY <2>1, <2>2
  <2> HIDE DEF es
  <2>4. old \in Seq(E) /\ Len(old) \in Nat
    OBVIOUS
  <2> HIDE DEF E, old
  <2>5. new \in Seq(E) /\ Len(new) = Len(old) + Len(ms)
    BY <2>3, <2>4, Joined
  <2>6. wire' = [wire EXCEPT !.events = new]
    BY <1>2 DEF Notified, old, es
  <2> HIDE DEF new
  <2>7. /\ wire' \in [at : {"hub", "nobody"}, events : Seq(E)]
        /\ wire'.at = "hub" /\ wire'.events = new
    BY <1>2, <2>5, <2>6 DEF E
  <2>8. /\ DOMAIN new = 1 .. Len(old) + Len(ms) /\ DOMAIN old = 1 .. Len(old)
        /\ \A k \in DOMAIN old : k \in DOMAIN new /\ new[k] = old[k]
        /\ \A j \in DOMAIN ms : Len(old) + j \in DOMAIN new /\ new[Len(old) + j] = es[j]
        /\ \A k \in DOMAIN new : k \in DOMAIN old \/ k - Len(old) \in DOMAIN ms
        /\ \A k \in DOMAIN new : k \notin DOMAIN old => new[k] = es[k - Len(old)]
    <3>1. DOMAIN new = 1 .. Len(old) + Len(ms)
      BY <2>4, <2>5
    <3>2. DOMAIN es = DOMAIN ms
      BY <2>2, <2>3
    <3> QED BY <2>3, <2>4, <3>1, <3>2, Joined DEF new
  <2>9. ASSUME NEW o \in DOMAIN new, Closes(new[o]) PROVE o = Len(new)
    <3>1. CASE o \in DOMAIN old
      BY <2>8, <2>9, <3>1 DEF old
    <3>2. CASE o \notin DOMAIN old
      <4>1. o - Len(old) \in DOMAIN ms /\ Closes(es[o - Len(old)])
        BY <2>8, <2>9, <3>2
      <4>2. ms[o - Len(old)].finished
        BY <2>1, <4>1 DEF Closes
      <4>3. o - Len(old) = Len(ms) /\ o \in Nat
        BY <2>4, <2>5, <2>8, <4>1, <4>2
      <4> QED BY <2>2, <2>4, <2>5, <4>3
    <3> QED BY <3>1, <3>2
  <2>10. ASSUME NEW m, \E o \in DOMAIN new : Told(new[o], m)
         PROVE  Pending(m) \/ \E j \in DOMAIN ms : ms[j] = m
    <3>1. PICK o \in DOMAIN new : Told(new[o], m)
      BY <2>10
    <3>2. CASE o \in DOMAIN old
      BY <2>8, <3>1, <3>2 DEF Pending, old
    <3>3. CASE o \notin DOMAIN old
      <4>1. o - Len(old) \in DOMAIN ms /\ Told(es[o - Len(old)], m)
        BY <2>8, <3>1, <3>3
      <4> QED BY <2>1, <4>1 DEF Told
    <3> QED BY <3>2, <3>3
  <2>11. ASSUME NEW m, Pending(m) PROVE \E o \in DOMAIN new : Told(new[o], m)
    BY <2>8, <2>11 DEF Pending, old
  <2>12. ASSUME NEW j \in DOMAIN ms PROVE \E o \in DOMAIN new : Told(new[o], ms[j])
    <3>1. Told(es[j], ms[j])
      BY <2>1 DEF Told
    <3> QED BY <2>8, <3>1
  <2>13. \A m : Pending(m)' <=> \E o \in DOMAIN new : Told(new[o], m)
    BY <2>7 DEF Pending
  <2>14. \A m : Pending(m)' => Pending(m) \/ \E j \in DOMAIN ms : ms[j] = m
    BY <2>10, <2>13
  <2>15. \A m : Pending(m) \/ (\E j \in DOMAIN ms : ms[j] = m) => Pending(m)'
    BY <2>11, <2>12, <2>13
  <2> QED BY <1>2, <2>7, <2>9, <2>14, <2>15 DEF E
<1> QED BY <1>1, <1>2

\* Nothing that was said before a task is over is an end.
LEMMA NoEndUnderWay ==
    ASSUME MonitorIInv, nested = {}, task.verdict = "none"
    PROVE  /\ \A o \in DOMAIN wire.events : ~ Closes(wire.events[o])
           /\ \A g \in page.rows : \A k \in DOMAIN g : ~ g[k].finished
<1>1. wire \in Wires(nested, task.verdict) /\ page \in Pages(nested, task.verdict)
  BY DEF MonitorIInv, ToldTrue
<1>2. ASSUME NEW o \in DOMAIN wire.events, NEW j \in DOMAIN wire.events[o].messages
      PROVE  ~ wire.events[o].messages[j].finished
  <2>1. wire.events[o] \in TrueEvents(nested, task.verdict)
    BY <1>1 DEF Wires
  <2>2. wire.events[o].messages[j] \in TrueMessages(nested, task.verdict)
    BY <2>1 DEF TrueEvents
  <2> QED BY <2>2 DEF TrueMessages
<1>3. ASSUME NEW g \in page.rows, NEW k \in DOMAIN g PROVE ~ g[k].finished
  <2>1. g[k] \in TrueMessages(nested, task.verdict)
    BY <1>1 DEF Pages
  <2> QED BY <2>1 DEF TrueMessages
<1> QED BY <1>2, <1>3 DEF Closes

\* A message matches a group that has grown.
LEMMA StillMatches ==
    ASSUME NEW g \in Seq(DirectMessage), NEW r \in Seq(DirectMessage), Len(g) <= Len(r),
           \A k \in DOMAIN g : Same(r[k], g[k]),
           NEW m, m.kind # "rollbackError", Matches(g, m)
    PROVE  Matches(r, m)
<1>1. CASE MayGo(m)
  BY <1>1 DEF Matches
<1>2. CASE \E k \in DOMAIN g : Same(g[k], m)
  <2>1. PICK k \in DOMAIN g : Same(g[k], m)
    BY <1>2
  <2>2. k \in DOMAIN r /\ Same(r[k], m)
    BY <2>1 DEF Same
  <2> QED BY <2>2 DEF Matches
<1> QED BY <1>1, <1>2 DEF Matches

\* A client and a page that follow the task go on when it speaks.
LEMMA SpeaksFollows ==
    ASSUME MonitorIInv, FollowInv, way = "direct", nested = {},
           task.phase \in {"steps", "rollback"},
           page' = page, NEW ms, NEW n \in Nat, Speaks(ms, n),
           NEW g, g = group["hub"], NEW r, r = RecordedAll(g, ms), NEW c, c = count["hub"],
           Hears(g, r, ms, c, task'.phase)
    PROVE  FollowInv'
<1>1. /\ Runner = "hub" /\ task.verdict = "none" /\ task.phase # "over"
      /\ group \in [Places -> Seq(ProperMessage)] /\ count \in [Places -> Nat] /\ "hub" \in Places
  BY DEF Runner, MonitorIInv, Shapes, Course, Tasks, Places
<1>2. /\ group'["hub"] = r /\ count'["hub"] = c + n /\ wire' = Notified("hub", ms)
      /\ UNCHANGED <<way, nested, moves, successor, client, got, page>>
  BY <1>1 DEF Speaks, Says, asked
<1>3. /\ ~ moves /\ successor = "none" /\ GroupFollows(g) /\ ClientFollows(g) /\ PageFollows(g)
  BY DEF FollowInv
<1>4. c \in Nat
  BY <1>1
<1>5. Hears(g, r, ms, c, task'.phase)
  OBVIOUS
<1>6. /\ g \in Seq(DirectMessage) /\ ~ Spoilt(g) /\ ms \in Seq(DirectMessage)
      /\ r \in Seq(DirectMessage) /\ Distinct(r) /\ Len(g) \in Nat /\ Len(r) \in Nat
  BY <1>1, <1>3, <1>5 DEF GroupFollows, Hears
<1>7. GroupFollows(r)'
  BY <1>5, <1>6 DEF GroupFollows, Hears
<1>8. ClientFollows(r)'
  <2>1. ClientShapes
    BY <1>3 DEF ClientFollows
  <2>2. ASSUME client.result = "polling", client.cursor # NoIndex
        PROVE  client.cursor < c /\ g # <<>> /\ client.cursor \in Nat
    BY <1>1, <1>3, <2>1, <2>2 DEF ClientFollows, ClientShapes
  <2>3. ASSUME client.result = "polling", client.cursor # NoIndex,
               task'.phase \notin {"over", "destroyed"}
        PROVE  client.cursor < c + n /\ r # <<>>
    <3>1. Len(g) <= Len(r) /\ Len(g) # 0
      BY <1>5, <1>6, <2>2, <2>3 DEF Hears
    <3> QED BY <1>4, <1>6, <2>2, <2>3, <3>1
  <2>4. ASSUME client.result = "polling", NEW k \in DOMAIN r PROVE Reaches(r[k])
    <3>1. CASE client.cursor = NoIndex
      BY <3>1 DEF Reaches
    <3>2. CASE client.cursor # NoIndex
      <4>1. client.cursor < c /\ g # <<>> /\ client.cursor \in Nat
        BY <2>2, <2>4, <3>2
      <4>2. CASE k \in DOMAIN g /\ Same(r[k], g[k])
        <5>1. Reaches(g[k])
          BY <1>3, <2>4, <4>2 DEF ClientFollows
        <5> QED BY <4>2, <5>1 DEF Reaches, Same, Name
      <4>3. CASE r[k].index >= c
        <5>1. r[k].index \in Int
          BY <1>6, DirectIsProper DEF NoIndex
        <5> QED BY <1>4, <4>1, <4>3, <5>1 DEF Reaches
      <4>4. CASE r[k].kind = "rollbackError"
        BY <4>4 DEF Reaches
      <4> QED BY <1>5, <4>1, <4>2, <4>3, <4>4 DEF Hears
    <3> QED BY <3>1, <3>2
  <2> QED BY <1>2, <2>1, <2>3, <2>4 DEF ClientFollows, Reaches, ClientShapes
<1>9. PageFollows(r)'
  <2>1. PageShapes /\ \A o \in DOMAIN wire.events : ~ Closes(wire.events[o])
    BY <1>1, <1>3, NoEndUnderWay DEF PageFollows
  <2>2. wire \in [at : {"hub", "nobody"},
                  events : Seq([snapshot : BOOLEAN, messages : Seq(DirectMessage)])]
    BY <2>1 DEF PageShapes
  <2>3. \A j \in DOMAIN ms : ms[j].finished => j = Len(ms)
    BY <1>5 DEF Hears
  <2>4. /\ wire' \in [at : {"hub", "nobody"},
                      events : Seq([snapshot : BOOLEAN, messages : Seq(DirectMessage)])]
        /\ wire'.at = wire.at /\ (wire.at = "nobody" => wire' = wire)
        /\ \A o \in DOMAIN wire'.events : Closes(wire'.events[o]) => o = Len(wire'.events)
        /\ \A m : Pending(m)' => Pending(m) \/ \E j \in DOMAIN ms : ms[j] = m
        /\ wire.at = "hub" =>
              \A m : Pending(m) \/ (\E j \in DOMAIN ms : ms[j] = m) => Pending(m)'
    BY <1>2, <1>6, <2>1, <2>2, <2>3, ToldOnTheStream
  <2>5. PageShapes'
    <3>1. ~ page.streaming => wire' = Hung
      BY <2>1, <2>4 DEF PageShapes, Hung
    <3> QED BY <1>2, <2>1, <2>4, <3>1 DEF PageShapes, Hung
  <2>6. Rows' = Rows
    BY <1>2 DEF Rows
  <2>7. ASSUME NEW m \in Seen' PROVE m \in Seen \/ \E j \in DOMAIN ms : ms[j] = m
    <3>1. m \in DirectMessage /\ (m \in Rows' \/ Pending(m)')
      BY DEF Seen
    <3> QED BY <2>4, <2>6, <3>1 DEF Seen
  <2>8. ASSUME ~ Spoilt(r), NEW m \in Seen' PROVE Matches(r, m)
    <3>1. CASE m \in Seen
      <4>1. Matches(g, m) /\ m.kind # "rollbackError"
        BY <1>1, <1>3, <1>6, <3>1 DEF PageFollows
      <4>2. Len(g) <= Len(r) /\ \A k \in DOMAIN g : Same(r[k], g[k])
        BY <1>5, <2>8 DEF Hears
      <4> QED BY <1>6, <4>1, <4>2, StillMatches
    <3>2. CASE \E j \in DOMAIN ms : ms[j] = m
      BY <1>5, <2>8, <3>2 DEF Hears
    <3> QED BY <2>7, <3>1, <3>2
  <2>9. ASSUME task'.phase # "over", NEW m \in Seen' PROVE m.kind # "rollbackError"
    <3>1. CASE m \in Seen
      BY <1>1, <1>3, <3>1 DEF PageFollows
    <3>2. CASE \E j \in DOMAIN ms : ms[j] = m
      BY <1>5, <2>9, <3>2 DEF Hears
    <3> QED BY <2>7, <3>1, <3>2
  <2>10. ASSUME wire'.at # "nobody" \/ (\E o \in DOMAIN wire'.events : Closes(wire'.events[o])),
                NEW nm \in Kept(r)
         PROVE  \E m \in Seen' : nm = Name(m)
    <3>1. wire.at = "hub"
      BY <2>1, <2>2, <2>4, <2>10
    <3>2. ~ Spoilt(r) /\ \E k \in DOMAIN r : r[k].kind # "chunk" /\ nm = Name(r[k])
      BY <2>10 DEF Kept, Spoilt, ToSet
    <3>3. PICK k \in DOMAIN r : r[k].kind # "chunk" /\ nm = Name(r[k])
      BY <3>2
    <3>4. \A m \in Seen : m \in Seen'
      BY <2>4, <2>6, <3>1 DEF Seen
    <3>5. CASE k \in DOMAIN g
      <4>1. Same(r[k], g[k])
        BY <1>5, <3>2, <3>5 DEF Hears
      <4>2. Name(g[k]) = nm /\ g[k].kind # "chunk"
        BY <3>3, <4>1 DEF Same, Name
      <4>3. Name(g[k]) \in Kept(g)
        BY <1>6, <3>5, <4>2 DEF Kept, Spoilt, ToSet
      <4>4. Kept(g) \subseteq {Name(m) : m \in Seen}
        BY <1>3, <3>1 DEF PageFollows
      <4> QED BY <3>4, <4>2, <4>3, <4>4
    <3>6. CASE k \notin DOMAIN g
      <4>1. PICK j \in DOMAIN ms : Same(r[k], ms[j])
        BY <1>5, <3>2, <3>6 DEF Hears
      <4>2. Name(ms[j]) = nm /\ ms[j] \in DirectMessage
        BY <1>6, <3>3, <4>1 DEF Same, Name
      <4>3. ms[j] \in Seen'
        BY <2>4, <3>1, <4>2 DEF Seen
      <4> QED BY <4>2, <4>3
    <3> QED BY <3>5, <3>6
  <2> QED BY <2>5, <2>8, <2>9, <2>10 DEF PageFollows
<1> QED BY <1>2, <1>3, <1>7, <1>8, <1>9 DEF FollowInv

\* What the group is like while the task goes on.
LEMMA DirectRuns ==
    ASSUME MonitorIInv, FollowInv, way = "direct", nested = {},
           task.phase \in {"steps", "rollback"}
    PROVE  /\ Runner = "hub" /\ count["hub"] \in Nat /\ group["hub"] \in Seq(DirectMessage)
           /\ Grown(group["hub"], group["hub"], <<>>, count["hub"], count["hub"])
           /\ \A k \in DOMAIN group["hub"] : ~ group["hub"][k].finished
<1>1. Runner = "hub" /\ "hub" \in Places
  BY DEF Runner, Places
<1>2. /\ count["hub"] \in Nat /\ Quiet(group["hub"], nested) /\ Below(group["hub"], count["hub"])
  BY <1>1, WhileItRuns
<1>3. group["hub"] \in Seq(DirectMessage) /\ Distinct(group["hub"]) /\ ~ Spoilt(group["hub"])
  BY DEF FollowInv, GroupFollows
<1> QED BY <1>1, <1>2, <1>3, StartsToGrow DEF Quiet, Ends

\* One of the messages that the hub's task says with an index.
LEMMA SaidIsDirect ==
    ASSUME Shapes, NEW n \in Nat,
           NEW kind \in {"result", "error", "rollback", "rollbackError", "closing"},
           NEW step \in Nat, NEW exit \in Exits, NEW error \in BOOLEAN
    PROVE  /\ Said("hub", n, kind, step, exit, error) \in DirectMessage
           /\ Said("hub", n, kind, step, exit, error).index = count["hub"] + n
           /\ Said("hub", n, kind, step, exit, error).kind = kind
           /\ ~ Said("hub", n, kind, step, exit, error).partial
           /\ kind # "closing" => ~ Said("hub", n, kind, step, exit, error).finished
           /\ kind = "closing" => Said("hub", n, kind, step, exit, error).finished
<1> DEFINE a == Said("hub", n, kind, step, exit, error)
<1>1. "hub" \in Places /\ kind \in MessageKinds
  BY DEF Places, MessageKinds
<1>2. /\ a \in ProperMessage /\ a.index = count["hub"] + n /\ a.kind = kind /\ ~ a.partial
      /\ a.finished = (kind \in {"closing", "nested"}) /\ count["hub"] \in Nat
  BY <1>1, SaidIsProper
<1> HIDE DEF a
<1>3. a.finished = (kind = "closing") /\ a.index # NoIndex /\ a.kind # "chunk"
  BY <1>2 DEF NoIndex
<1>4. a \in DirectMessage
  BY <1>2, <1>3 DEF DirectMessage, ProperMessage
<1> QED BY <1>2, <1>3, <1>4 DEF a

\* A final message with its own number.
Fresh(m, n) ==
    m \in DirectMessage /\ ~ m.partial /\ m.kind # "rollbackError" /\ m.index = n

\* A message with its own number lets the group grow.
LEMMA FreshGrows ==
    ASSUME NEW g \in Seq(DirectMessage), NEW x, NEW ms,
           NEW c \in Nat, NEW n \in Nat, NEW b \in Nat,
           Grown(g, x, ms, c, b), b <= n, NEW m, Fresh(m, n)
    PROVE  Grown(g, Recorded(x, m), Append(ms, m), c, n + 1)
<1>1. m.index >= b /\ m.index # NoIndex /\ m.index + 1 = n + 1
  BY DEF Fresh, NoIndex
<1> QED BY <1>1, GrowsMore DEF Fresh

\* Sequences of one, two and three messages.
LEMMA AppendedFirst == ASSUME NEW S, NEW a \in S PROVE Append(<<>>, a) = <<a>>
<1>1. /\ <<>> \in Seq(S) /\ Len(<<>>) = 0
      /\ <<a>> \in Seq(S) /\ Len(<<a>>) = 1 /\ <<a>>[1] = a
  OBVIOUS
<1>2. Append(<<>>, a) \in Seq(S) /\ Len(Append(<<>>, a)) = 1 /\ Append(<<>>, a)[1] = a
  BY <1>1
<1>3. \A k \in 1 .. Len(<<a>>) : Append(<<>>, a)[k] = <<a>>[k]
  BY <1>1, <1>2
<1> QED BY <1>1, <1>2, <1>3, SeqEqual

LEMMA AppendedNext ==
    ASSUME NEW S, NEW a \in S, NEW b \in S, NEW c \in S
    PROVE  Append(<<a>>, b) = <<a, b>> /\ Append(<<a, b>>, c) = <<a, b, c>>
<1>1. <<a>> \in Seq(S) /\ <<a, b>> \in Seq(S)
  OBVIOUS
<1>2. Append(<<a>>, b) = <<a>> \o <<b>> /\ Append(<<a, b>>, c) = <<a, b>> \o <<c>>
  BY <1>1, AppendIsConcat
<1> QED BY <1>2, OneAndOne, TwoAndOne

\* What one, two and three messages with their own numbers do.
LEMMA HearsOne ==
    ASSUME NEW g \in Seq(DirectMessage), NEW c \in Nat, Grown(g, g, <<>>, c, c), NEW n \in Nat,
           c <= n, NEW a, Fresh(a, n), NEW p
    PROVE  /\ Grown(g, Recorded(g, a), <<a>>, c, n + 1)
           /\ Hears(g, RecordedAll(g, <<a>>), <<a>>, c, p)
<1>1. Append(<<>>, a) = <<a>>
  BY AppendedFirst DEF Fresh
<1>4. Grown(g, Recorded(g, a), <<a>>, c, n + 1)
  BY <1>1, FreshGrows
<1>2. RecordedAll(g, <<a>>) = Recorded(g, a)
  BY DirectIsProper, RecordedOne DEF Fresh
<1>3. \A j \in DOMAIN <<a>> : j = Len(<<a>>)
  OBVIOUS
<1> QED BY <1>2, <1>3, <1>4, GrownHears

LEMMA HearsTwo ==
    ASSUME NEW g \in Seq(DirectMessage), NEW c \in Nat, Grown(g, g, <<>>, c, c), NEW n \in Nat,
           c <= n, NEW a, Fresh(a, n), ~ a.finished, NEW b, Fresh(b, n + 1), NEW p
    PROVE  /\ Grown(g, Recorded(Recorded(g, a), b), <<a, b>>, c, n + 2)
           /\ Hears(g, RecordedAll(g, <<a, b>>), <<a, b>>, c, p)
<1> DEFINE ms == <<a, b>>
<1>1. Grown(g, Recorded(g, a), <<a>>, c, n + 1)
  BY HearsOne
<1>2. n + 1 \in Nat /\ n + 1 <= n + 1 /\ (n + 1) + 1 = n + 2
  OBVIOUS
<1>3. Append(<<a>>, b) = ms
  BY AppendedNext DEF Fresh
<1> HIDE DEF ms
<1>4. Grown(g, Recorded(Recorded(g, a), b), Append(<<a>>, b), c, (n + 1) + 1)
  BY <1>1, <1>2, FreshGrows
<1>5. RecordedAll(g, ms) = Recorded(Recorded(g, a), b)
  BY DirectIsProper, RecordedTwo DEF Fresh, ms
<1>6. \A j \in DOMAIN ms : ms[j].finished => j = Len(ms)
  <2>1. ms[1] = a /\ Len(ms) = 2 /\ DOMAIN ms = 1 .. 2
    BY DEF ms
  <2> QED BY <2>1
<1>7. Grown(g, Recorded(Recorded(g, a), b), ms, c, n + 2)
  BY <1>2, <1>3, <1>4
<1>8. Hears(g, RecordedAll(g, ms), ms, c, p)
  BY <1>5, <1>6, <1>7, GrownHears
<1> QED BY <1>7, <1>8 DEF ms

LEMMA HearsThree ==
    ASSUME NEW g \in Seq(DirectMessage), NEW c \in Nat, Grown(g, g, <<>>, c, c),
           NEW a, Fresh(a, c), ~ a.finished, NEW b, Fresh(b, c + 1), ~ b.finished,
           NEW d, Fresh(d, c + 2), NEW p
    PROVE  Hears(g, RecordedAll(g, <<a, b, d>>), <<a, b, d>>, c, p)
<1> DEFINE ms == <<a, b, d>>
           x == Recorded(Recorded(g, a), b)
<1>1. Grown(g, x, <<a, b>>, c, c + 2)
  <2>1. c <= c
    OBVIOUS
  <2> QED BY <2>1, HearsTwo
<1>2. c + 2 \in Nat /\ c + 2 <= c + 2
  OBVIOUS
<1>3. Append(<<a, b>>, d) = ms
  BY AppendedNext DEF Fresh
<1>4. RecordedAll(g, ms) = Recorded(x, d)
  BY DirectIsProper, RecordedThree DEF Fresh
<1> HIDE DEF ms, x
<1>5. Grown(g, Recorded(x, d), Append(<<a, b>>, d), c, (c + 2) + 1)
  BY <1>1, <1>2, FreshGrows
<1>6. \A j \in DOMAIN ms : ms[j].finished => j = Len(ms)
  <2>1. ms[1] = a /\ ms[2] = b /\ Len(ms) = 3 /\ DOMAIN ms = 1 .. 3
    BY DEF ms
  <2> QED BY <2>1
<1>7. Hears(g, RecordedAll(g, ms), ms, c, p)
  BY <1>3, <1>4, <1>5, <1>6, GrownHears
<1> QED BY <1>7 DEF ms

\* Output says nothing new, unless it is the first.
LEMMA HearsOutput ==
    ASSUME NEW g \in Seq(DirectMessage), NEW c \in Nat, Grown(g, g, <<>>, c, c),
           NEW a \in DirectMessage, a.partial, NEW p
    PROVE  Hears(g, RecordedAll(g, <<a>>), <<a>>, c, p)
<1> DEFINE r == Recorded(g, a)
           ms == <<a>>
<1>1. RecordedAll(g, ms) = r
  BY DirectIsProper, RecordedOne
<1>2. /\ r \in Seq(DirectMessage) /\ (g = <<>> => r = ms)
      /\ g # <<>> => Len(r) = Len(g) /\ \A k \in DOMAIN g : Same(r[k], g[k])
  BY OutputRecorded
<1>3. a.kind = "chunk" /\ ~ a.finished /\ a.index = NoIndex
  BY DEF DirectMessage
<1>4. ms \in Seq(DirectMessage) /\ Len(ms) = 1 /\ ms[1] = a /\ DOMAIN ms = {1}
  OBVIOUS
<1>5. ~ Spoilt(g) /\ Distinct(g)
  BY DEF Grown
<1> HIDE DEF r, ms
<1>6. \A j \in DOMAIN ms : Matches(r, ms[j]) /\ ms[j].kind # "rollbackError" /\ ~ ms[j].finished
  BY <1>3, <1>4 DEF Matches, MayGo
<1>7. CASE g = <<>>
  <2>1. r = ms /\ Len(g) = 0 /\ DOMAIN g = {}
    BY <1>2, <1>7
  <2>2. ~ Spoilt(r) /\ Distinct(r)
    BY <1>3, <1>4, <2>1 DEF Spoilt, Distinct
  <2>3. \A k \in DOMAIN r : \E j \in DOMAIN ms : Same(r[k], ms[j])
    BY <2>1 DEF Same
  <2>4. Len(g) <= Len(r)
    BY <1>4, <2>1
  <2>5. Hears(g, r, ms, c, p)
    BY <1>2, <1>4, <1>6, <1>7, <2>1, <2>2, <2>3, <2>4 DEF Hears
  <2> QED BY <1>1, <2>5 DEF ms
<1>8. CASE g # <<>>
  <2>1. Len(r) = Len(g) /\ DOMAIN r = DOMAIN g /\ \A k \in DOMAIN g : Same(r[k], g[k])
    BY <1>2, <1>8
  <2>2. ~ Spoilt(r)
    BY <1>5, <2>1 DEF Spoilt, Same
  <2>3. Distinct(r)
    BY <1>5, <2>1 DEF Distinct, Same, Spoilt
  <2>4. Len(g) <= Len(r)
    BY <1>2, <2>1
  <2>5. Hears(g, r, ms, c, p)
    BY <1>2, <1>4, <1>6, <2>1, <2>2, <2>3, <2>4 DEF Hears
  <2> QED BY <1>1, <2>5 DEF ms
<1> QED BY <1>7, <1>8

\* The invariant goes on when the hub's group hears what was said.
LEMMA DirectSpeaks ==
    ASSUME MonitorIInv, FollowInv, way = "direct", nested = {},
           task.phase \in {"steps", "rollback"},
           page' = page, NEW ms, NEW n \in Nat, Speaks(ms, n),
           Hears(group["hub"], RecordedAll(group["hub"], ms), ms, count["hub"], task'.phase)
    PROVE  FollowInv'
<1>1. PICK g, r, c : g = group["hub"] /\ r = RecordedAll(group["hub"], ms) /\ c = count["hub"]
  OBVIOUS
<1>2. r = RecordedAll(g, ms) /\ Hears(g, r, ms, c, task'.phase)
  BY <1>1
<1> QED BY <1>1, <1>2, SpeaksFollows

\* Each step of the task: its output, the end of a command, a failure, the last words.
LEMMA TalksFollows ==
    ASSUME MonitorIInv, FollowInv, way = "direct", nested = {}, Talks, page' = page
    PROVE  FollowInv'
<1> DEFINE step == IF InStep THEN task.at ELSE 0
           a == Chunk(step)
<1>1. task.phase \in {"steps", "rollback"}
  BY DEF Talks, InStep
<1>2. task \in Tasks
  BY <1>1, WhileItRuns
<1>3. step \in Nat
  BY <1>2, StepsAssumption DEF Tasks
<1>4. a \in DirectMessage /\ a.partial
  BY <1>3 DEF Chunk, DirectMessage, Message, MessageKinds, Exits
<1>5. Speaks(<<a>>, 0)
  BY DEF Talks
<1> HIDE DEF a
<1>6. Hears(group["hub"], RecordedAll(group["hub"], <<a>>), <<a>>, count["hub"], task'.phase)
  BY <1>1, <1>4, DirectRuns, HearsOutput
<1> QED BY <1>1, <1>5, <1>6, DirectSpeaks

\* What the hub's task may say, as a final message.
LEMMA SaidIsFresh ==
    ASSUME Shapes, Runner = "hub", NEW n \in Nat,
           NEW kind \in {"result", "error", "rollback", "closing"},
           NEW step \in Nat, NEW exit \in Exits, NEW error \in BOOLEAN
    PROVE  /\ Fresh(Said(Runner, n, kind, step, exit, error), count["hub"] + n)
           /\ kind # "closing" => ~ Said(Runner, n, kind, step, exit, error).finished
           /\ kind = "closing" => Said(Runner, n, kind, step, exit, error).finished
<1>1. Said(Runner, n, kind, step, exit, error) = Said("hub", n, kind, step, exit, error)
  OBVIOUS
<1> HIDE DEF Said
<1> QED BY <1>1, SaidIsDirect DEF Fresh

\* The closing message, too.
LEMMA ClosingIsFresh ==
    ASSUME Shapes, Runner = "hub", NEW n \in Nat, NEW exit \in Exits
    PROVE  Fresh(Closing(n, exit), count["hub"] + n) /\ Closing(n, exit).finished
<1>1. "closing" \in {"result", "error", "rollback", "closing"} /\ 0 \in Nat /\ FALSE \in BOOLEAN
  OBVIOUS
<1> QED BY <1>1, SaidIsFresh DEF Closing

\* The arguments the messages are built from.
LEMMA DirectKinds ==
    /\ "result" # "closing" /\ "error" # "closing" /\ "rollback" # "closing"
    /\ "ok" \in Exits /\ "failed" \in Exits /\ "open" \in Exits
    /\ TRUE \in BOOLEAN /\ FALSE \in BOOLEAN
    /\ 0 \in Nat /\ 1 \in Nat /\ 2 \in Nat
  BY DEF Exits

LEMMA EndsFollows ==
    ASSUME MonitorIInv, FollowInv, way = "direct", nested = {}, page' = page,
           StepSucceeds \/ StepWarns \/ NestedEnds \/ Completes
    PROVE  FollowInv'
<1> DEFINE g == group["hub"]
           c == count["hub"]
<1>1. task.phase \in {"steps", "rollback"}
  BY DEF StepSucceeds, StepWarns, NestedEnds, Completes, InStep
<1>2. /\ Runner = "hub" /\ c \in Nat /\ g \in Seq(DirectMessage) /\ Grown(g, g, <<>>, c, c)
      /\ Shapes /\ task \in Tasks
  BY <1>1, DirectRuns, WhileItRuns
<1>3. task.at \in Nat
  BY <1>2, StepsAssumption DEF Tasks
<1>4. c + 0 = c /\ c <= c + 0 /\ c <= c + 1 /\ c + 0 \in Nat /\ c + 1 \in Nat
  BY <1>2
<1> HIDE DEF g, c
<1>5. ASSUME NEW a, NEW n \in Nat, Fresh(a, c + n), NEW u \in Nat, Speaks(<<a>>, u)
      PROVE  FollowInv'
  <2>1. c + n \in Nat /\ c <= c + n
    BY <1>2
  <2>2. Hears(g, RecordedAll(g, <<a>>), <<a>>, c, task'.phase)
    BY <1>2, <1>5, <2>1, HearsOne
  <2> QED BY <1>1, <1>5, <2>2, DirectSpeaks DEF g, c
<1>6. CASE StepSucceeds
  <2> DEFINE a == Said(Runner, 0, "result", task.at, "ok", FALSE)
  <2>1. Speaks(<<a>>, 1)
    BY <1>6 DEF StepSucceeds
  <2>2. Fresh(a, c + 0)
    BY <1>2, <1>3, SaidIsFresh, ClosingIsFresh, DirectKinds DEF c
  <2> HIDE DEF a
  <2> QED BY <1>5, <2>1, <2>2
<1>7. CASE StepWarns
  <2> DEFINE a == Said(Runner, 1, "result", task.at, "open", TRUE)
  <2>1. Speaks(<<a>>, 2)
    BY <1>7 DEF StepWarns
  <2>2. Fresh(a, c + 1)
    BY <1>2, <1>3, SaidIsFresh, ClosingIsFresh, DirectKinds DEF c
  <2> HIDE DEF a
  <2> QED BY <1>5, <2>1, <2>2
<1>8. CASE NestedEnds
  BY <1>8 DEF NestedEnds
<1>9. CASE Completes
  <2> DEFINE a == Closing(0, "ok")
  <2>1. Speaks(<<a>>, 1)
    BY <1>9 DEF Completes
  <2>2. Fresh(a, c + 0)
    BY <1>2, SaidIsFresh, ClosingIsFresh, DirectKinds DEF c
  <2> HIDE DEF a
  <2> QED BY <1>5, <2>1, <2>2
<1> QED BY <1>6, <1>7, <1>8, <1>9

LEMMA FailsFollows ==
    ASSUME MonitorIInv, FollowInv, way = "direct", nested = {}, page' = page,
           StepFails \/ StepBreaks
    PROVE  FollowInv'
<1> DEFINE g == group["hub"]
           c == count["hub"]
<1>1. task.phase \in {"steps", "rollback"}
  BY DEF StepFails, StepBreaks, InStep
<1>2. /\ Runner = "hub" /\ c \in Nat /\ g \in Seq(DirectMessage) /\ Grown(g, g, <<>>, c, c)
      /\ Shapes /\ task \in Tasks
  BY <1>1, DirectRuns, WhileItRuns
<1>3. task.at \in Nat
  BY <1>2, StepsAssumption DEF Tasks
<1>4. c + 0 = c /\ c <= c
  BY <1>2
<1> HIDE DEF g, c
<1>5. CASE StepFails
  <2> DEFINE a == Said(Runner, 0, "result", task.at, "failed", FALSE)
             b == Said(Runner, 1, "error", task.at, "open", FALSE)
             d == Closing(2, "failed")
  <2>1. PICK rollback \in BOOLEAN :
            Speaks(<<a, b>> \o (IF rollback THEN <<>> ELSE <<d>>), IF rollback THEN 2 ELSE 3)
    BY <1>5 DEF StepFails
  <2>2. /\ Fresh(a, c) /\ ~ a.finished /\ Fresh(b, c + 1) /\ ~ b.finished
        /\ Fresh(d, c + 2)
    <3>1. Fresh(a, c + 0) /\ ~ a.finished
      BY <1>2, <1>3, SaidIsFresh, DirectKinds DEF c
    <3>2. Fresh(b, c + 1) /\ ~ b.finished
      BY <1>2, <1>3, SaidIsFresh, DirectKinds DEF c
    <3>3. Fresh(d, c + 2)
      BY <1>2, ClosingIsFresh, DirectKinds DEF c
    <3> HIDE DEF a, b, d
    <3> QED BY <1>4, <3>1, <3>2, <3>3
  <2> HIDE DEF a, b, d
  <2>3. <<a, b>> \o <<>> = <<a, b>> /\ <<a, b>> \o <<d>> = <<a, b, d>>
    BY <2>2, TwoAndOne DEF Fresh
  <2>4. CASE rollback
    <3>1. Speaks(<<a, b>>, 2)
      BY <2>1, <2>3, <2>4
    <3>2. Hears(g, RecordedAll(g, <<a, b>>), <<a, b>>, c, task'.phase)
      BY <1>2, <1>4, <2>2, HearsTwo
    <3> QED BY <1>1, <3>1, <3>2, DirectSpeaks DEF g, c
  <2>5. CASE ~ rollback
    <3>1. Speaks(<<a, b, d>>, 3)
      BY <2>1, <2>3, <2>5
    <3>2. Hears(g, RecordedAll(g, <<a, b, d>>), <<a, b, d>>, c, task'.phase)
      BY <1>2, <2>2, HearsThree
    <3> QED BY <1>1, <3>1, <3>2, DirectSpeaks DEF g, c
  <2> QED BY <2>4, <2>5
<1>6. CASE StepBreaks
  <2> DEFINE a == Said(Runner, 0, "error", task.at, "open", FALSE)
             d == Closing(1, "failed")
  <2>1. PICK rollback \in BOOLEAN :
            Speaks(<<a>> \o (IF rollback THEN <<>> ELSE <<d>>), IF rollback THEN 1 ELSE 2)
    BY <1>6 DEF StepBreaks
  <2>2. Fresh(a, c) /\ ~ a.finished /\ Fresh(d, c + 1)
    <3>1. Fresh(a, c + 0) /\ ~ a.finished
      BY <1>2, <1>3, SaidIsFresh, DirectKinds DEF c
    <3>2. Fresh(d, c + 1)
      BY <1>2, ClosingIsFresh, DirectKinds DEF c
    <3> HIDE DEF a, d
    <3> QED BY <1>4, <3>1, <3>2
  <2> HIDE DEF a, d
  <2>3. <<a>> \o <<>> = <<a>> /\ <<a>> \o <<d>> = <<a, d>>
    BY <2>2, OneAndOne DEF Fresh
  <2>4. CASE rollback
    <3>1. Speaks(<<a>>, 1)
      BY <2>1, <2>3, <2>4
    <3>2. Hears(g, RecordedAll(g, <<a>>), <<a>>, c, task'.phase)
      BY <1>2, <1>4, <2>2, HearsOne
    <3> QED BY <1>1, <3>1, <3>2, DirectSpeaks DEF g, c
  <2>5. CASE ~ rollback
    <3>1. Speaks(<<a, d>>, 2)
      BY <2>1, <2>3, <2>5
    <3>2. Hears(g, RecordedAll(g, <<a, d>>), <<a, d>>, c, task'.phase)
      BY <1>2, <1>4, <2>2, HearsTwo
    <3> QED BY <1>1, <3>1, <3>2, DirectSpeaks DEF g, c
  <2> QED BY <2>4, <2>5
<1> QED BY <1>5, <1>6

\* The rollback's error, before it gets its number.
LEMMA ErrorIsDirect ==
    ASSUME Shapes, Runner = "hub"
    PROVE  /\ Said(Runner, 0, "rollbackError", 0, "open", FALSE) \in DirectMessage
           /\ Said(Runner, 0, "rollbackError", 0, "open", FALSE).kind = "rollbackError"
           /\ ~ Said(Runner, 0, "rollbackError", 0, "open", FALSE).partial
           /\ ~ Said(Runner, 0, "rollbackError", 0, "open", FALSE).finished
<1>1. Said(Runner, 0, "rollbackError", 0, "open", FALSE)
          = Said("hub", 0, "rollbackError", 0, "open", FALSE)
  OBVIOUS
<1>2. PICK kind \in {"result", "error", "rollback", "rollbackError", "closing"} :
          kind = "rollbackError"
  OBVIOUS
<1>3. PICK error \in BOOLEAN : error = FALSE
  OBVIOUS
<1>4. PICK n \in Nat : n = 0
  OBVIOUS
<1>5. PICK exit \in Exits : exit = "open"
  BY DEF Exits
<1> HIDE DEF Said
<1>6. /\ Said("hub", n, kind, n, exit, error) \in DirectMessage
      /\ Said("hub", n, kind, n, exit, error).kind = kind
      /\ ~ Said("hub", n, kind, n, exit, error).partial
      /\ kind # "closing" => ~ Said("hub", n, kind, n, exit, error).finished
  BY SaidIsDirect
<1>7. kind # "closing"
  BY <1>2
<1> QED BY <1>1, <1>2, <1>3, <1>4, <1>5, <1>6, <1>7

LEMMA RollbackEndsFollows ==
    ASSUME MonitorIInv, FollowInv, way = "direct", nested = {}, page' = page, RollbackEnds
    PROVE  FollowInv'
<1> DEFINE g == group["hub"]
           c == count["hub"]
           d == Closing(1, "failed")
<1>1. PICK ok \in BOOLEAN : Speaks(LastWords(ok), 2)
  BY DEF RollbackEnds
<1>2. task.phase \in {"steps", "rollback"} /\ task'.phase = "over"
  <2>1. task \in Tasks /\ task.phase = "rollback"
    BY DEF MonitorIInv, Shapes, RollbackEnds
  <2> QED BY <2>1 DEF RollbackEnds, Tasks
<1>3. /\ Runner = "hub" /\ c \in Nat /\ g \in Seq(DirectMessage) /\ Grown(g, g, <<>>, c, c)
      /\ Shapes /\ \A k \in DOMAIN g : ~ g[k].finished
  BY <1>2, DirectRuns, WhileItRuns
<1>4. c + 0 = c /\ c <= c
  BY <1>3
<1>5. Fresh(d, c + 1) /\ d.finished
  BY <1>3, SaidIsFresh, ClosingIsFresh, DirectKinds DEF c
<1>6. CASE ok
  <2> DEFINE a == Said(Runner, 0, "rollback", 0, "ok", FALSE)
  <2>1. LastWords(ok) = <<a>> \o <<d>>
    BY <1>6 DEF LastWords, RollbackSays
  <2>2. Fresh(a, c) /\ ~ a.finished
    <3>1. Fresh(a, c + 0) /\ ~ a.finished
      BY <1>3, SaidIsFresh, DirectKinds DEF c
    <3> HIDE DEF a
    <3> QED BY <1>4, <3>1
  <2> HIDE DEF a, d, g, c
  <2>3. Speaks(<<a, d>>, 2)
    BY <1>1, <1>5, <2>1, <2>2, OneAndOne DEF Fresh
  <2>4. Hears(g, RecordedAll(g, <<a, d>>), <<a, d>>, c, task'.phase)
    BY <1>3, <1>4, <1>5, <2>2, HearsTwo
  <2> QED BY <1>2, <2>3, <2>4, DirectSpeaks DEF g, c
<1>7. CASE ~ ok
  <2> DEFINE a == Said(Runner, 0, "rollback", 0, "failed", FALSE)
             s == Said(Runner, 0, "rollbackError", 0, "open", FALSE)
             b == [s EXCEPT !.index = NSteps]
             x == Recorded(g, a)
             ms == <<a, b, d>>
  <2>1. LastWords(ok) = <<a, b>> \o <<d>>
    BY <1>7 DEF LastWords, RollbackSays
  <2>2. Fresh(a, c) /\ ~ a.finished
    <3>1. "rollback" \in {"result", "error", "rollback", "closing"} /\ "rollback" # "closing"
      OBVIOUS
    <3>2. Shapes
      BY <1>3
    <3>3. Fresh(a, c + 0) /\ ~ a.finished
      BY <1>3, SaidIsFresh, DirectKinds DEF c
    <3> HIDE DEF a
    <3> QED BY <1>4, <3>1, <3>3
  <2>3. s \in DirectMessage /\ s.kind = "rollbackError" /\ ~ s.partial /\ ~ s.finished
    BY <1>3, ErrorIsDirect
  <2> HIDE DEF a, s, d, g, c
  <2>4. b \in DirectMessage /\ b.kind = "rollbackError" /\ ~ b.partial /\ ~ b.finished
    <3>1. s \in Message /\ NSteps \in Nat
      BY <2>3, StepsAssumption DEF DirectMessage
    <3>2. /\ b \in Message /\ b.index = NSteps /\ b.partial = s.partial
          /\ b.kind = s.kind /\ b.finished = s.finished
      BY <3>1 DEF Message
    <3> HIDE DEF b
    <3>3. b.index # NoIndex
      BY <3>1, <3>2 DEF NoIndex
    <3> QED BY <2>3, <3>2, <3>3 DEF DirectMessage
  <2> HIDE DEF b
  <2>5. Grown(g, x, <<a>>, c, c + 1)
    BY <1>3, <1>4, <2>2, HearsOne
  <2>6. RecordedAll(g, ms) = Recorded(Recorded(x, b), d)
    BY <1>3, <1>5, <2>2, <2>4, DirectIsProper, RecordedThree DEF Fresh
  <2>7. \A k \in DOMAIN x : ~ x[k].finished
    <3>1. x \in Seq(DirectMessage) /\ <<a>>[1] = a /\ DOMAIN <<a>> = {1}
      BY <2>5 DEF Grown
    <3> HIDE DEF x
    <3>2. ASSUME NEW k \in DOMAIN x PROVE ~ x[k].finished
      <4>1. x[k] \in DirectMessage
        BY <3>1
      <4>2. CASE k \in DOMAIN g
        <5>1. Same(x[k], g[k]) /\ ~ g[k].finished /\ g[k] \in DirectMessage
          BY <1>3, <2>5, <4>2 DEF Grown
        <5> QED BY <4>1, <5>1 DEF Same, DirectMessage
      <4>3. CASE k \notin DOMAIN g
        <5>1. Same(x[k], a)
          BY <2>5, <3>1, <4>3 DEF Grown
        <5> QED BY <2>2, <4>1, <5>1 DEF Same, DirectMessage, Fresh
      <4> QED BY <4>2, <4>3
    <3> QED BY <3>2
  <2> HIDE DEF x
  <2>8. d.kind = "closing"
    BY <1>5 DEF Fresh, DirectMessage
  <2>9. Hears(g, Recorded(Recorded(x, b), d), <<a, b, d>>, c, "over")
    <3>1. c + 1 \in Nat
      BY <1>3
    <3> QED BY <1>3, <1>5, <2>2, <2>4, <2>5, <2>7, <2>8, <3>1, LastWordsHeard DEF Fresh
  <2>10. Speaks(<<a, b, d>>, 2)
    BY <1>1, <1>5, <2>1, <2>2, <2>4, TwoAndOne DEF Fresh
  <2> QED BY <1>2, <2>6, <2>9, <2>10, DirectSpeaks DEF g, c
<1> QED BY <1>6, <1>7

LEMMA TaskFollows ==
    ASSUME MonitorIInv, FollowInv, way = "direct", nested = {}, page' = page, TaskStep
    PROVE  FollowInv'
  BY TalksFollows, EndsFollows, FailsFollows, RollbackEndsFollows DEF TaskStep

----------------------------------------------------------------------------
(* The client polls.                                                        *)

\* A group has an index that no other exceeds.
LEMMA SomeBound ==
    ASSUME NEW g \in Seq(ProperMessage)
    PROVE  \E n \in Nat : Below(g, n)
<1> DEFINE L == Len(g)
           Bounds(n, b) == \A k \in 1 .. n : g[k].index < b
           S == {n \in Nat : n <= L => \E b \in Nat : Bounds(n, b)}
<1>1. L \in Nat /\ DOMAIN g = 1 .. L /\ \A k \in 1 .. L : g[k].index \in Int
  BY DEF ProperMessage, Message, NoIndex
<1>2. 0 \in S
  <2>1. Bounds(0, 0)
    OBVIOUS
  <2> QED BY <2>1
<1>3. ASSUME NEW n \in Nat, n \in S PROVE n + 1 \in S
  <2> SUFFICES ASSUME n + 1 <= L PROVE \E b \in Nat : Bounds(n + 1, b)
    OBVIOUS
  <2>1. n <= L /\ n + 1 \in 1 .. L
    BY <1>1
  <2>2. PICK b \in Nat : Bounds(n, b)
    BY <1>3, <2>1
  <2> DEFINE top == g[n + 1].index
             c == IF top < b THEN b ELSE top + 1
  <2>3. top \in Int
    BY <1>1, <2>1
  <2>4. c \in Nat /\ b <= c /\ top < c
    BY <2>3
  <2> HIDE DEF c
  <2>5. ASSUME NEW k \in 1 .. (n + 1) PROVE g[k].index < c
    <3>1. CASE k = n + 1
      BY <2>4, <3>1
    <3>2. CASE k # n + 1
      <4>1. k \in 1 .. n /\ k \in 1 .. L
        BY <2>1, <3>2
      <4>2. g[k].index < b /\ g[k].index \in Int
        BY <1>1, <2>2, <4>1
      <4> QED BY <2>4, <4>2
    <3> QED BY <3>1, <3>2
  <2> QED BY <2>4, <2>5
<1> HIDE DEF S
<1>4. L \in S
  BY <1>1, <1>2, <1>3, AllNumbers
<1>5. \E b \in Nat : Bounds(L, b)
  BY <1>1, <1>4 DEF S
<1> QED BY <1>1, <1>5 DEF Below

\* The greatest of some numbers that are bounded.
LEMMA GreatestNumber ==
    ASSUME NEW T, NEW n \in Int, \A x \in T : x \in Int /\ x <= n, NEW y \in T
    PROVE  Max(T) \in T /\ \A x \in T : Max(T) >= x
<1> DEFINE U == {u \in Nat : n - u \in T}
<1>1. ASSUME NEW x \in T PROVE n - x \in U /\ n - (n - x) = x
  <2>1. x \in Int /\ x <= n
    OBVIOUS
  <2> QED BY <2>1
<1>2. PICK u \in U : \A o \in U : u <= o
  BY <1>1, LeastNumber
<1>3. n - u \in T /\ u \in Nat
  BY <1>2
<1>4. ASSUME NEW x \in T PROVE n - u >= x
  <2>1. x \in Int /\ x <= n /\ u <= n - x
    BY <1>1, <1>2
  <2> QED BY <1>3, <2>1
<1> QED BY <1>3, <1>4 DEF Max

\* The page and the group stay as they are.
LEMMA ClientMoves ==
    ASSUME FollowInv,
           UNCHANGED <<way, nested, moves, successor, group, task, wire, page>>,
           way = "direct" /\ nested = {} => ClientFollows(group["hub"])'
    PROVE  FollowInv'
  BY DEF FollowInv, GroupFollows, PageFollows, PageShapes, Seen, Rows, Pending

\* A number that another task takes leaves the cursor below the next.
LEMMA OtherFollows ==
    ASSUME MonitorIInv, FollowInv, OtherTask, page' = page
    PROVE  FollowInv'
<1>1. /\ count' = [count EXCEPT !["hub"] = @ + 1]
      /\ UNCHANGED <<way, nested, moves, successor, group, task, wire, page, client, got>>
  BY DEF OtherTask, asked
<1>2. count["hub"] \in Nat /\ count'["hub"] = count["hub"] + 1
  BY <1>1 DEF MonitorIInv, Shapes, Places
<1>3. ASSUME way = "direct", nested = {} PROVE ClientFollows(group["hub"])'
  <2>1. ClientFollows(group["hub"])
    BY <1>3 DEF FollowInv
  <2>2. client.cursor # NoIndex => client.cursor \in Nat
    BY <2>1 DEF ClientFollows, ClientShapes
  <2> QED BY <1>1, <1>2, <2>1, <2>2 DEF ClientFollows, Reaches, ClientShapes
<1> QED BY <1>1, <1>3, ClientMoves

\* Where the task runs on the hub, there is no upgrade.
LEMMA UpgradeFollows ==
    ASSUME MonitorIInv, FollowInv, UpgradeStep, page' = page
    PROVE  FollowInv'
<1>1. way = "direct" /\ nested = {} => FALSE
  <2> SUFFICES ASSUME way = "direct", nested = {} PROVE FALSE
    OBVIOUS
  <2>1. hub = "idle" /\ successor = "none"
    BY DEF MonitorIInv, Course, FollowInv
  <2> QED BY <2>1 DEF UpgradeStep, StageMarker, TriggerClone, Handoff, MirrorPolls, HubStops,
                      SuccessorBoots, Adopts, AdoptionGivesUp
<1>2. way' = way /\ nested' = nested
  BY DEF UpgradeStep, StageMarker, TriggerClone, Handoff, MirrorPolls, HubStops,
         SuccessorBoots, Adopts, AdoptionGivesUp, asked
<1> QED BY <1>1, <1>2 DEF FollowInv

\* An answer holds all that is above the cursor, and all of it is looked at.
LEMMA AnswerIsWhole ==
    ASSUME MonitorIInv, FollowInv, way = "direct", nested = {}, PollAnswered
    PROVE  /\ ClientFollows(group["hub"])'
           /\ \A k \in DOMAIN group["hub"] :
                 group["hub"][k].kind # "rollbackError" => Name(group["hub"][k]) \in got'
<1> DEFINE since == IF Recovers THEN NoIndex ELSE client.cursor
           g == group["hub"]
           batch == Answer(g, since)
           seen == LookedAt(g, batch)
           T == {since} \cup {g[k].index : k \in batch}
<1>1. ClientFollows(g) /\ ClientShapes /\ g \in Seq(DirectMessage) /\ Distinct(g)
  BY DEF FollowInv, ClientFollows, GroupFollows
<1>2. client.result = "polling"
  BY DEF PollAnswered, Polling
<1>3. Server = "hub"
  <2>1. hub = "idle" /\ ~ client.moved
    BY <1>1 DEF MonitorIInv, Course, ClientShapes
  <2> QED BY <2>1 DEF Server
<1>4. /\ client'.cursor = Max(T) /\ got' = got \cup {Name(g[k]) : k \in seen}
      /\ UNCHANGED <<way, nested, moves, successor, group, count, task, wire>>
      /\ client'.moved = client.moved /\ DOMAIN client' = DOMAIN client
  BY <1>1, <1>3 DEF PollAnswered, asked, ClientShapes
<1>5. g \in Seq(ProperMessage) /\ \A k \in DOMAIN g : g[k].index \in Nat \cup {NoIndex}
  BY <1>1, DirectIsProper
<1>6. since \in Nat \cup {NoIndex} /\ batch \subseteq DOMAIN g
  BY <1>1 DEF Answer, ClientShapes
<1>7. seen = batch
  <2>1. Whole(g, nested, task.verdict)
    BY DEF MonitorIInv, GroupsEnd, Places
  <2>2. ASSUME NEW k \in batch, NEW j \in batch, j < k PROVE ~ g[j].finished
    <3>1. j \in DOMAIN g /\ k \in DOMAIN g /\ j # Len(g)
      BY <1>5, <1>6, <2>2
    <3> QED BY <2>1, <3>1 DEF Whole, Ends
  <2> HIDE DEF batch, g
  <2> QED BY <2>2 DEF LookedAt
<1> HIDE DEF seen
<1>8. ASSUME NEW k \in DOMAIN g, g[k].kind # "rollbackError" PROVE Name(g[k]) \in got'
  <2>1. CASE k \in batch
    BY <1>4, <1>7, <2>1
  <2>2. CASE k \notin batch
    <3>1. since # NoIndex /\ ~ (g[k].index > since)
      BY <2>2 DEF Answer
    <3>2. since = client.cursor
      BY <3>1
    <3>3. Reaches(g[k])
      BY <1>1, <1>2 DEF ClientFollows
    <3>4. Name(g[k]) \in got
      BY <1>8, <3>1, <3>2, <3>3 DEF Reaches
    <3> QED BY <1>4, <3>4
  <2> QED BY <2>1, <2>2
<1> HIDE DEF g
<1>9. PICK n \in Nat : Below(g, n)
  BY <1>5, SomeBound
<1>10. Max(T) \in T /\ \A x \in T : Max(T) >= x
  <2>1. PICK b \in Nat : n <= b /\ since <= b
    <3>1. since <= n \/ (n <= since /\ since \in Nat)
      BY <1>6 DEF NoIndex
    <3> QED BY <3>1
  <2>2. ASSUME NEW x \in T PROVE x \in Int /\ x <= b
    <3>1. CASE x = since
      BY <1>6, <2>1, <3>1 DEF NoIndex
    <3>2. CASE \E k \in batch : x = g[k].index
      <4>1. PICK k \in batch : x = g[k].index
        BY <3>2
      <4>2. g[k].index < n /\ g[k].index \in Int
        BY <1>5, <1>6, <1>9, <4>1 DEF Below, NoIndex
      <4> QED BY <2>1, <4>1, <4>2
    <3> QED BY <2>2, <3>1, <3>2
  <2>3. since \in T
    OBVIOUS
  <2> HIDE DEF T
  <2> QED BY <2>1, <2>2, <2>3, GreatestNumber
<1>11. Max(T) \in Nat \cup {NoIndex}
  BY <1>5, <1>6, <1>10
<1>12. ClientShapes'
  BY <1>1, <1>4, <1>11 DEF ClientShapes
<1>13. ASSUME client'.cursor # NoIndex, task.phase \notin {"over", "destroyed"}
       PROVE  client'.cursor < count["hub"] /\ g # <<>>
  <2>1. Runner = "hub" /\ Below(g, count["hub"])
    BY <1>13 DEF Runner, MonitorIInv, Numbered, g
  <2>2. client'.cursor \in T
    BY <1>4, <1>10
  <2>3. CASE client'.cursor = since
    BY <1>1, <1>2, <1>13, <2>3 DEF ClientFollows, g
  <2>4. CASE \E k \in batch : client'.cursor = g[k].index
    <3>1. PICK k \in batch : client'.cursor = g[k].index
      BY <2>4
    <3>2. k \in DOMAIN g
      BY <1>6, <3>1
    <3>3. g # <<>>
      BY <1>5, <3>2
    <3> QED BY <2>1, <3>1, <3>2, <3>3 DEF Below
  <2> QED BY <2>2, <2>3, <2>4
<1>14. \A k \in DOMAIN g : g[k].kind = "rollbackError" \/ Name(g[k]) \in got'
  BY <1>8
<1>15. ClientFollows(group["hub"])'
  BY <1>4, <1>12, <1>13, <1>14 DEF ClientFollows, Reaches, g
<1> QED BY <1>8, <1>15 DEF g

\* Every step of the client.
LEMMA ClientStepFollows ==
    ASSUME MonitorIInv, FollowInv, ClientStep, page' = page
    PROVE  FollowInv'
<1>1. UNCHANGED <<way, nested, moves, successor, group, count, task, wire, page>>
  BY DEF ClientStep, PollAnswered, PollUnanswered, PollLost, CursorReset, asked
<1>2. ASSUME way = "direct", nested = {} PROVE ClientFollows(group["hub"])'
  <2>1. CASE PollAnswered
    BY <1>2, <2>1, AnswerIsWhole
  <2>2. ClientFollows(group["hub"]) /\ ClientShapes /\ ~ moves
    BY <1>2 DEF FollowInv, ClientFollows
  <2>3. CASE CursorReset
    <3>1. client' = [client EXCEPT !.cursor = NoIndex, !.silent = FALSE]
      BY <2>3 DEF CursorReset
    <3>2. ClientShapes' /\ client'.cursor = NoIndex
      BY <2>2, <3>1 DEF ClientShapes
    <3> QED BY <3>2 DEF ClientFollows, Reaches
  <2>4. CASE PollUnanswered \/ PollLost
    <3>1. client' = Failed /\ got' = got
      BY <2>4 DEF PollUnanswered, PollLost
    <3>2. \/ client' = [client EXCEPT !.gap = TRUE, !.result = "gaveUp"]
          \/ client' = [client EXCEPT !.gap = TRUE, !.retries = @ + 1]
      BY <2>2, <3>1 DEF Failed
    <3>3. /\ ClientShapes' /\ client'.cursor = client.cursor
          /\ client'.result = "polling" => client.result = "polling"
      BY <2>2, <3>2 DEF ClientShapes, Results
    <3> QED BY <1>1, <2>2, <3>1, <3>3 DEF ClientFollows, Reaches
  <2> QED BY <2>1, <2>3, <2>4 DEF ClientStep
<1> QED BY <1>1, <1>2, ClientMoves

----------------------------------------------------------------------------
(* The page merges what arrives.                                            *)

\* One message merged into rows that show no end.
LEMMA MergedSame ==
    ASSUME NEW h \in Seq(DirectMessage), NEW m \in DirectMessage,
           \A k \in DOMAIN h : ~ h[k].finished
    PROVE  /\ MergedOne(h, m) \in Seq(DirectMessage)
           /\ \A k \in DOMAIN MergedOne(h, m) :
                 \/ Same(MergedOne(h, m)[k], m)
                 \/ \E j \in DOMAIN h : Same(MergedOne(h, m)[k], h[j])
           /\ \A j \in DOMAIN h :
                 \/ h[j].kind = "chunk" \/ (h[j].index = m.index /\ m.index # NoIndex)
                 \/ \E k \in DOMAIN MergedOne(h, m) : Same(MergedOne(h, m)[k], h[j])
           /\ m.kind = "chunk" \/ \E k \in DOMAIN MergedOne(h, m) : Same(MergedOne(h, m)[k], m)
           /\ \A k \in DOMAIN MergedOne(h, m) : MergedOne(h, m)[k].finished => m.finished
<1> DEFINE running == Running(h, m)
           same == SameIndex(h, m)
           r == MergedOne(h, m)
<1>1. running # {} => The(running) \in DOMAIN h /\ h[The(running)].partial
  <2> DEFINE at == {k \in DOMAIN h : h[k].partial /\ CommandOf(h[k]) = CommandOf(m)}
  <2>1. /\ at \in SUBSET Nat /\ running = FirstOf(at)
        /\ \A k \in at : k \in DOMAIN h /\ h[k].partial
    BY DEF Running
  <2> HIDE DEF at
  <2> QED BY <2>1, TheFirst
<1>2. same # {} => /\ The(same) \in DOMAIN h /\ h[The(same)].index = m.index
                   /\ m.index # NoIndex
  <2> DEFINE at == {k \in DOMAIN h : m.index # NoIndex /\ h[k].index = m.index}
  <2>1. /\ at \in SUBSET Nat /\ same = FirstOf(at)
        /\ \A k \in at : k \in DOMAIN h /\ m.index # NoIndex /\ h[k].index = m.index
    BY DEF SameIndex
  <2> HIDE DEF at
  <2> QED BY <2>1, TheFirst
<1>3. r = IF m.partial THEN IF running = {} THEN Append(h, m) ELSE h
          ELSE IF running # {} THEN [h EXCEPT ![The(running)] = m]
          ELSE IF same # {} THEN [h EXCEPT ![The(same)] = Overlaid(@, m)]
          ELSE Append(h, m)
  BY DEF MergedOne
<1> HIDE DEF running, same, r
<1>4. \A x : Same(x, x)
  BY DEF Same
<1>5. m.partial => m.kind = "chunk"
  BY DEF DirectMessage
<1>6. CASE r = Append(h, m)
  <2>1. /\ r \in Seq(DirectMessage) /\ Len(r) = Len(h) + 1 /\ r[Len(h) + 1] = m
        /\ \A k \in DOMAIN h : r[k] = h[k]
    BY <1>6
  <2>2. /\ DOMAIN r = 1 .. Len(h) + 1 /\ DOMAIN h = 1 .. Len(h) /\ Len(h) \in Nat
    BY <2>1
  <2>3. Len(h) + 1 \in DOMAIN r /\ (\A k \in DOMAIN h : k \in DOMAIN r)
        /\ \A k \in DOMAIN r : k \in DOMAIN h \/ k = Len(h) + 1
    BY <2>2
  <2> QED BY <1>4, <2>1, <2>3 DEF r
<1>7. CASE r = h /\ m.partial
  BY <1>4, <1>5, <1>7 DEF r
<1>8. CASE \E p \in DOMAIN h : h[p].partial /\ r = [h EXCEPT ![p] = m]
  <2>1. PICK p \in DOMAIN h : h[p].partial /\ r = [h EXCEPT ![p] = m]
    BY <1>8
  <2>2. /\ r \in Seq(DirectMessage) /\ DOMAIN r = DOMAIN h /\ r[p] = m
        /\ \A k \in DOMAIN h \ {p} : r[k] = h[k]
    BY <2>1, ExceptSeq
  <2>3. h[p].kind = "chunk"
    BY <2>1 DEF DirectMessage
  <2> QED BY <1>4, <2>2, <2>3 DEF r
<1>9. CASE \E p \in DOMAIN h : /\ h[p].index = m.index /\ m.index # NoIndex /\ ~ m.partial
                               /\ r = [h EXCEPT ![p] = Overlaid(h[p], m)]
  <2>1. PICK p \in DOMAIN h : /\ h[p].index = m.index /\ m.index # NoIndex /\ ~ m.partial
                              /\ r = [h EXCEPT ![p] = Overlaid(h[p], m)]
    BY <1>9
  <2>2. h[p] \in DirectMessage /\ ~ h[p].finished
    OBVIOUS
  <2>3. /\ Overlaid(h[p], m) \in DirectMessage /\ Same(Overlaid(h[p], m), m)
        /\ Overlaid(h[p], m).finished => m.finished
    BY <2>2 DEF Overlaid, Same, DirectMessage, Message
  <2>4. /\ r \in Seq(DirectMessage) /\ DOMAIN r = DOMAIN h /\ r[p] = Overlaid(h[p], m)
        /\ \A k \in DOMAIN h \ {p} : r[k] = h[k]
    BY <2>1, <2>3, ExceptSeq
  <2> QED BY <1>4, <2>1, <2>3, <2>4 DEF r
<1> QED BY <1>1, <1>2, <1>3, <1>6, <1>7, <1>8, <1>9

\* The rows after an event: what was there or came, and nothing of it is lost
\* but output and what has the number of what came.
Taken(h, e, r) ==
    /\ r \in Seq(DirectMessage)
    /\ \A k \in DOMAIN r : \/ \E j \in DOMAIN h : Same(r[k], h[j])
                           \/ \E j \in DOMAIN e.messages : Same(r[k], e.messages[j])
    /\ \A j \in DOMAIN e.messages :
          e.messages[j].kind = "chunk" \/ \E k \in DOMAIN r : Same(r[k], e.messages[j])
    /\ \A j \in DOMAIN h :
          \/ h[j].kind = "chunk" \/ (\E k \in DOMAIN r : Same(r[k], h[j]))
          \/ \E o \in DOMAIN e.messages : h[j].index = e.messages[o].index /\ h[j].index # NoIndex
    /\ \A k \in DOMAIN r : r[k].finished => Closes(e)

\* An event of one message, and a snapshot.
LEMMA OneTaken ==
    ASSUME NEW h \in Seq(DirectMessage), \A k \in DOMAIN h : ~ h[k].finished,
           NEW e, e.messages \in Seq(DirectMessage), Len(e.messages) = 1
    PROVE  Taken(h, e, MergedOne(h, e.messages[1]))
<1> DEFINE ms == e.messages
<1>1. DOMAIN ms = {1} /\ ms[1] \in DirectMessage
  OBVIOUS
<1> HIDE DEF ms
<1> DEFINE r == MergedOne(h, ms[1])
<1>2. /\ r \in Seq(DirectMessage)
      /\ \A k \in DOMAIN r : Same(r[k], ms[1]) \/ \E j \in DOMAIN h : Same(r[k], h[j])
      /\ \A j \in DOMAIN h : \/ h[j].kind = "chunk"
                             \/ (h[j].index = ms[1].index /\ ms[1].index # NoIndex)
                             \/ \E k \in DOMAIN r : Same(r[k], h[j])
      /\ ms[1].kind = "chunk" \/ \E k \in DOMAIN r : Same(r[k], ms[1])
      /\ \A k \in DOMAIN r : r[k].finished => ms[1].finished
  BY <1>1, MergedSame
<1> HIDE DEF r
<1>3. Taken(h, e, r)
  BY <1>1, <1>2 DEF Taken, Closes, ms
<1> QED BY <1>3 DEF r, ms

LEMMA AllTaken ==
    ASSUME NEW h \in Seq(DirectMessage), \A k \in DOMAIN h : ~ h[k].finished,
           NEW e, e.messages \in Seq(DirectMessage)
    PROVE  Taken(h, e, h \o e.messages)
<1> DEFINE ms == e.messages
           r == h \o ms
           L == Len(h)
<1>1. /\ r \in Seq(DirectMessage)
      /\ \A k \in DOMAIN h : k \in DOMAIN r /\ r[k] = h[k]
      /\ \A j \in DOMAIN ms : L + j \in DOMAIN r /\ r[L + j] = ms[j]
      /\ \A k \in DOMAIN r : k \in DOMAIN h \/ k - L \in DOMAIN ms
      /\ \A k \in DOMAIN r : k \notin DOMAIN h => r[k] = ms[k - L]
  BY Joined
<1> HIDE DEF r, ms, L
<1>2. \A x : Same(x, x)
  BY DEF Same
<1>3. Taken(h, e, r)
  BY <1>1, <1>2 DEF Taken, Closes, ms
<1> QED BY <1>3 DEF r, ms

\* The page takes the first event.
Takes(h, e, r) ==
    /\ h \in Seq(DirectMessage) /\ Rows = ToSet(h) /\ (\A k \in DOMAIN h : ~ h[k].finished)
    /\ e = Head(wire.events) /\ e.messages \in Seq(DirectMessage) /\ Taken(h, e, r)
    /\ page' = [streaming |-> InProgress(r), rows |-> {r}]
    /\ wire' = IF InProgress(r) THEN [wire EXCEPT !.events = Tail(@)] ELSE Hung

\* What the page does with an event is one of these.
LEMMA ArrivesTakes ==
    ASSUME MonitorIInv, FollowInv, way = "direct", nested = {}, Arrives
    PROVE  \E h, e, r : Takes(h, e, r)
<1> DEFINE e == Head(wire.events)
           r == IF e.snapshot THEN MergedAll(page.rows, e.messages)
                ELSE IF page.rows = {} THEN e.messages
                ELSE MergedOne(The(page.rows), e.messages[1])
<1>1. /\ page.streaming /\ wire.events # <<>>
      /\ page' = [streaming |-> InProgress(r), rows |-> {r}]
      /\ wire' = IF InProgress(r) THEN [wire EXCEPT !.events = Tail(@)] ELSE Hung
  BY DEF Arrives
<1>2. PageShapes
  BY DEF FollowInv, PageFollows
<1>3. wire.events \in Seq([snapshot : BOOLEAN, messages : Seq(DirectMessage)])
  BY <1>2 DEF PageShapes
<1>4. wire.events \in Seq(TrueEvents(nested, task.verdict))
  BY DEF MonitorIInv, ToldTrue, Wires
<1>5. e.messages \in Seq(DirectMessage)
  <2>1. e \in [snapshot : BOOLEAN, messages : Seq(DirectMessage)]
    BY <1>1, <1>3, HeadTailProperties
  <2> QED BY <2>1
<1>6. ~ e.snapshot => Len(e.messages) = 1
  <2>1. e \in TrueEvents(nested, task.verdict)
    BY <1>1, <1>4, HeadTailProperties
  <2> QED BY <2>1 DEF TrueEvents
<1>7. PICK g \in Seq(DirectMessage) : page.rows \in {{}, {g}}
  BY <1>2 DEF PageShapes
<1> HIDE DEF e
<1>8. \A x : Same(x, x)
  BY DEF Same
<1>9. CASE page.rows = {}
  <2>1. r = e.messages
    <3>1. CASE e.snapshot
      BY <1>9, <3>1 DEF MergedAll
    <3>2. CASE ~ e.snapshot
      BY <1>9, <3>2
    <3> QED BY <3>1, <3>2
  <2>0. <<>> \in Seq(DirectMessage)
    OBVIOUS
  <2>2. PICK o : o = <<>>
    OBVIOUS
  <2>3. o \in Seq(DirectMessage) /\ DOMAIN o = {} /\ ToSet(o) = {}
    BY <2>0, <2>2 DEF ToSet
  <2>4. Rows = {}
    BY <1>9 DEF Rows
  <2> HIDE DEF r
  <2>5. Taken(o, e, r)
    BY <1>5, <1>8, <2>1, <2>3 DEF Taken, Closes
  <2>6. Takes(o, e, r)
    BY <1>1, <1>5, <2>3, <2>4, <2>5 DEF Takes, e, r
  <2> QED BY <2>6
<1>10. CASE page.rows # {}
  <2>1. page.rows = {g} /\ The(page.rows) = g
    BY <1>7, <1>10 DEF The
  <2>2. Rows = ToSet(g)
    BY <2>1 DEF Rows
  <2>3. \A k \in DOMAIN g : ~ g[k].finished
    BY <1>1, <2>1 DEF MonitorIInv, ToldTrue
  <2>4. Taken(g, e, r)
    <3>1. CASE e.snapshot
      <4>1. r = g \o e.messages
        BY <1>10, <2>1, <3>1 DEF MergedAll
      <4> HIDE DEF r
      <4> QED BY <1>5, <2>3, <4>1, AllTaken
    <3>2. CASE ~ e.snapshot
      <4>1. r = MergedOne(g, e.messages[1])
        BY <1>10, <2>1, <3>2
      <4> HIDE DEF r
      <4> QED BY <1>5, <1>6, <2>3, <3>2, <4>1, OneTaken
    <3> QED BY <3>1, <3>2
  <2>5. Takes(g, e, r)
    <3> HIDE DEF r
    <3> QED BY <1>1, <1>5, <1>7, <2>2, <2>3, <2>4 DEF Takes, e, r
  <2> QED BY <2>5
<1> QED BY <1>9, <1>10

\* What is kept of the group has a row behind the event if it had one or came.
LEMMA KeptStays ==
    ASSUME NEW g \in Seq(DirectMessage), Distinct(g), NEW h \in Seq(DirectMessage),
           \A k \in DOMAIN h : ~ h[k].finished,
           NEW e, e.messages \in Seq(DirectMessage), NEW r, Taken(h, e, r),
           ~ Spoilt(g) => /\ \A j \in DOMAIN h : Matches(g, h[j])
                          /\ \A j \in DOMAIN e.messages : Matches(g, e.messages[j]),
           NEW x, Name(x) \in Kept(g),
           (\E j \in DOMAIN h : x = h[j]) \/ (\E j \in DOMAIN e.messages : x = e.messages[j])
    PROVE  \E k \in DOMAIN r : Name(r[k]) = Name(x)
<1>1. \E k \in DOMAIN g : g[k].kind # "chunk" /\ Name(x) = Name(g[k])
  BY DEF Kept, ToSet
<1>2. ~ Spoilt(g)
  BY DEF Kept, ToSet, Spoilt
<1>3. x.kind # "chunk" /\ x.kind # "rollbackError"
  BY <1>1, <1>2 DEF Name, Spoilt
<1>4. CASE \E j \in DOMAIN e.messages : x = e.messages[j]
  BY <1>3, <1>4 DEF Taken, Same, Name
<1>5. CASE \E j \in DOMAIN h : x = h[j]
  <2>1. PICK j \in DOMAIN h : x = h[j]
    BY <1>5
  <2>2. CASE \E k \in DOMAIN r : Same(r[k], h[j])
    BY <2>1, <2>2 DEF Same, Name
  <2>3. CASE \E o \in DOMAIN e.messages : h[j].index = e.messages[o].index /\ h[j].index # NoIndex
    <3>1. PICK o \in DOMAIN e.messages : h[j].index = e.messages[o].index /\ h[j].index # NoIndex
      BY <2>3
    <3> DEFINE m == e.messages[o]
    <3>2. m \in DirectMessage /\ h[j] \in DirectMessage /\ ~ h[j].finished
      OBVIOUS
    <3>3. Matches(g, m) /\ Matches(g, h[j])
      BY <1>2, <3>1
    <3>4. PICK a \in DOMAIN g : Same(g[a], h[j])
      BY <1>3, <2>1, <3>3 DEF Matches, MayGo
    <3>5. g[a].index = m.index /\ g[a].kind # "closing" /\ g[a].kind = x.kind
      BY <2>1, <3>1, <3>2, <3>4 DEF Same, DirectMessage
    <3>6. m.kind # "rollbackError"
      BY <3>3, <3>5 DEF Matches
    <3>7. m.kind # "chunk"
      BY <3>1, <3>2 DEF DirectMessage
    <3>8. PICK b \in DOMAIN g : Same(g[b], m)
      BY <3>3, <3>6, <3>7 DEF Matches, MayGo
    <3>9. a = b
      BY <1>2, <3>1, <3>5, <3>8 DEF Same, Distinct
    <3>10. Name(m) = Name(x)
      BY <2>1, <3>4, <3>8, <3>9 DEF Same, Name
    <3>11. \E k \in DOMAIN r : Same(r[k], m)
      BY <3>7 DEF Taken
    <3> QED BY <3>10, <3>11 DEF Same, Name
  <2> QED BY <1>3, <2>1, <2>2, <2>3 DEF Taken
<1> QED BY <1>4, <1>5

\* The task and the client stay as they are.
LEMMA PageMoves ==
    ASSUME FollowInv,
           UNCHANGED <<way, nested, moves, successor, group, count, task, client, got>>,
           way = "direct" /\ nested = {} => PageFollows(group["hub"])'
    PROVE  FollowInv'
  BY DEF FollowInv, GroupFollows, ClientFollows, ClientShapes, Reaches

\* The page that starts anew, the stream that breaks, the one that is opened.
LEMMA ReopensFollows == ASSUME FollowInv, Reopens PROVE FollowInv'
<1>1. /\ page' = [streaming |-> TRUE, rows |-> {}] /\ wire' = Hung
      /\ UNCHANGED <<way, nested, moves, successor, group, count, task, client, got>>
  BY DEF Reopens, asked
<1>2. wire'.events = <<>> /\ wire'.at = "nobody" /\ DOMAIN wire'.events = {}
  BY <1>1 DEF Hung
<1>3. Seen' = {}
  BY <1>1, <1>2 DEF Seen, Rows, Pending
<1>4. PageShapes'
  <2>1. <<>> \in Seq([snapshot : BOOLEAN, messages : Seq(DirectMessage)])
        /\ <<>> \in Seq(DirectMessage)
    OBVIOUS
  <2> QED BY <1>1, <1>2, <2>1 DEF PageShapes, Hung
<1>5. PageFollows(group["hub"])'
  BY <1>2, <1>3, <1>4 DEF PageFollows
<1> QED BY <1>1, <1>5, PageMoves

LEMMA BreaksFollows == ASSUME FollowInv, Breaks PROVE FollowInv'
<1>1. /\ wire.at # "nobody" /\ wire' \in Broken(wire)
      /\ UNCHANGED <<page, way, nested, moves, successor, group, count, task, client, got>>
  BY DEF Breaks, asked
<1>2. ASSUME way = "direct", nested = {} PROVE PageFollows(group["hub"])'
  <2> DEFINE E == [snapshot : BOOLEAN, messages : Seq(DirectMessage)]
  <2>1. PageFollows(group["hub"]) /\ PageShapes
    BY <1>2 DEF FollowInv, PageFollows
  <2>2. wire.events \in Seq(E) /\ Len(wire.events) \in Nat
    BY <2>1 DEF PageShapes
  <2> HIDE DEF E
  <2>3. PICK n \in {0, Len(wire.events)} :
            wire' = [at |-> "nobody", events |-> SubSeq(wire.events, 1, n)]
    BY <1>1 DEF Broken
  <2>4. wire'.events = <<>> \/ wire'.events = wire.events
    <3> DEFINE w == SubSeq(wire.events, 1, n)
    <3>1. \A k \in 1 .. n : wire.events[k] \in E
      BY <2>2
    <3>2. w \in Seq(E) /\ Len(w) = n /\ \A k \in 1 .. n : w[k] = wire.events[k]
      BY <2>2, <3>1, SubSeqProperties
    <3>3. wire'.events = w
      BY <2>3
    <3> HIDE DEF w, E
    <3>4. CASE n = 0
      BY <3>2, <3>3, <3>4
    <3>5. CASE n = Len(wire.events)
      <4>1. w = wire.events
        BY <2>2, <3>2, <3>5, SeqEqual
      <4> QED BY <3>3, <4>1
    <3> QED BY <3>4, <3>5
  <2>5. wire'.at = "nobody" /\ DOMAIN <<>> = {} /\ <<>> \in Seq(E)
    BY <2>3
  <2>6. PageShapes'
    <3>1. page.streaming
      BY <1>1, <2>1 DEF PageShapes, Hung
    <3>2. wire' \in [at : {"hub", "nobody"}, events : Seq(E)]
      BY <2>2, <2>3, <2>4, <2>5
    <3> QED BY <1>1, <2>1, <2>4, <2>5, <3>1, <3>2 DEF PageShapes, E
  <2>7. Rows' = Rows
    BY <1>1 DEF Rows
  <2>8. \A m : Pending(m)' => Pending(m)
    BY <2>4, <2>5 DEF Pending
  <2>9. Seen' \subseteq Seen
    BY <2>7, <2>8 DEF Seen
  <2>10. CASE wire'.events = <<>>
    <3>1. ~ (wire'.at # "nobody" \/ \E o \in DOMAIN wire'.events : Closes(wire'.events[o]))
      BY <2>5, <2>10
    <3> QED BY <1>1, <2>1, <2>6, <2>9, <3>1 DEF PageFollows
  <2>11. CASE wire'.events = wire.events
    <3>1. Seen' = Seen
      BY <2>7, <2>11 DEF Seen, Pending
    <3> QED BY <1>1, <2>1, <2>5, <2>6, <2>11, <3>1 DEF PageFollows
  <2> QED BY <2>4, <2>10, <2>11
<1> QED BY <1>1, <1>2, PageMoves

LEMMA ConnectsFollows == ASSUME MonitorIInv, FollowInv, Connects PROVE FollowInv'
<1>1. /\ page.streaming /\ wire.events = <<>> /\ wire' = Opened(Server)
      /\ UNCHANGED <<page, way, nested, moves, successor, group, count, task, client, got>>
  BY DEF Connects, asked
<1>2. ASSUME way = "direct", nested = {} PROVE PageFollows(group["hub"])'
  <2> DEFINE E == [snapshot : BOOLEAN, messages : Seq(DirectMessage)]
             g == group["hub"]
             e == [snapshot |-> TRUE, messages |-> g]
  <2>1. /\ PageFollows(g) /\ PageShapes /\ g \in Seq(DirectMessage)
        /\ task.phase # "over" => ~ Spoilt(g)
    BY <1>2 DEF FollowInv, PageFollows, GroupFollows
  <2>2. Server = "hub"
    <3>1. hub = "idle" /\ ~ client.moved
      BY <1>2 DEF MonitorIInv, Course, FollowInv, ClientFollows, ClientShapes
    <3> QED BY <3>1 DEF Server
  <2>3. wire' = [at |-> "hub", events |-> <<e>>]
    BY <1>1, <2>2 DEF Opened
  <2>4. e \in E /\ e.messages = g
    BY <2>1
  <2> HIDE DEF e
  <2>5. <<e>> \in Seq(E) /\ Len(<<e>>) = 1 /\ DOMAIN <<e>> = {1} /\ <<e>>[1] = e
    BY <2>4
  <2> HIDE DEF E
  <2>6. /\ wire'.at = "hub" /\ DOMAIN wire'.events = {1} /\ wire'.events[1] = e
        /\ Len(wire'.events) = 1
        /\ wire' \in [at : {"hub", "nobody"}, events : Seq(E)]
    BY <2>3, <2>5
  <2>7. PageShapes'
    BY <1>1, <2>1, <2>6 DEF PageShapes, E
  <2>8. \A m : Pending(m)' <=> \E k \in DOMAIN g : g[k] = m
    BY <2>4, <2>6 DEF Pending, Told
  <2>9. Rows' = Rows
    BY <1>1 DEF Rows
  <2> HIDE DEF g
  <2>10. \A m \in Seen' : m \in Seen \/ \E k \in DOMAIN g : g[k] = m
    BY <2>8, <2>9 DEF Seen
  <2>11. \A k \in DOMAIN g : g[k] \in Seen'
    BY <2>1, <2>8 DEF Seen
  <2>12. ASSUME ~ Spoilt(g), NEW m \in Seen' PROVE Matches(g, m)
    <3>1. CASE m \in Seen
      BY <2>1, <2>12, <3>1 DEF PageFollows
    <3>2. CASE \E k \in DOMAIN g : g[k] = m
      BY <2>12, <3>2 DEF Matches, Spoilt, Same
    <3> QED BY <2>10, <3>1, <3>2
  <2>13. ASSUME task.phase # "over", NEW m \in Seen' PROVE m.kind # "rollbackError"
    BY <2>1, <2>10, <2>13 DEF PageFollows, Spoilt
  <2>14. Kept(g) \subseteq {Name(m) : m \in Seen'}
    BY <2>11 DEF Kept, ToSet
  <2>15. g' = g
    BY <1>1 DEF g
  <2> QED BY <1>1, <2>7, <2>12, <2>13, <2>14, <2>15 DEF PageFollows, g
<1> QED BY <1>1, <1>2, PageMoves

\* An event that is taken leaves what was known, in the rows or under way.
LEMMA TakenFollows ==
    ASSUME MonitorIInv, FollowInv, way = "direct", nested = {}, Arrives,
           NEW h, NEW e, NEW r, Takes(h, e, r), NEW g, g = group["hub"]
    PROVE  /\ PageFollows(g)'
           /\ ~ page'.streaming /\ (\E m \in Rows' : m.finished) =>
                 Kept(g) \subseteq {Name(m) : m \in Rows'}
<1> DEFINE E == [snapshot : BOOLEAN, messages : Seq(DirectMessage)]
           old == wire.events
           rest == Tail(wire.events)
<1>1. /\ page.streaming /\ old # <<>> /\ task' = task
  BY DEF Arrives
<1>2. /\ h \in Seq(DirectMessage) /\ Rows = ToSet(h) /\ (\A k \in DOMAIN h : ~ h[k].finished)
      /\ e = Head(old) /\ e.messages \in Seq(DirectMessage) /\ Taken(h, e, r)
      /\ page' = [streaming |-> InProgress(r), rows |-> {r}]
      /\ wire' = IF InProgress(r) THEN [wire EXCEPT !.events = rest] ELSE Hung
  BY DEF Takes
<1>3. PageShapes /\ PageFollows(g) /\ g \in Seq(DirectMessage) /\ Distinct(g)
  BY DEF FollowInv, PageFollows, GroupFollows
<1>4. /\ wire \in [at : {"hub", "nobody"}, events : Seq(E)]
      /\ \A o \in DOMAIN old : Closes(old[o]) => o = Len(old)
  BY <1>3 DEF PageShapes
<1>5. old \in Seq(E)
  BY <1>4
<1> HIDE DEF E
<1>6. /\ e = old[1] /\ rest \in Seq(E) /\ Len(rest) = Len(old) - 1 /\ Len(old) \in Nat
      /\ \A k \in 1 .. Len(old) - 1 : rest[k] = old[k + 1]
      /\ 1 \in DOMAIN old /\ DOMAIN old = 1 .. Len(old)
  BY <1>1, <1>2, <1>5, HeadTailProperties
<1> HIDE DEF rest
<1>7. /\ DOMAIN rest = 1 .. Len(old) - 1
      /\ \A k \in DOMAIN rest : k + 1 \in DOMAIN old /\ rest[k] = old[k + 1]
      /\ \A k \in DOMAIN old : k # 1 => k - 1 \in DOMAIN rest /\ old[k] = rest[k - 1]
  BY <1>6
<1>8. Rows' = ToSet(r)
  BY <1>2 DEF Rows
<1>9. \A m : Pending(m) <=> Told(e, m) \/ \E k \in DOMAIN rest : Told(rest[k], m)
  <2>1. ASSUME NEW m, Pending(m), ~ Told(e, m) PROVE \E k \in DOMAIN rest : Told(rest[k], m)
    BY <1>6, <1>7, <2>1 DEF Pending, old
  <2>2. ASSUME NEW m, Told(e, m) \/ \E k \in DOMAIN rest : Told(rest[k], m) PROVE Pending(m)
    BY <1>6, <1>7, <2>2 DEF Pending, old
  <2> QED BY <2>1, <2>2
<1>10. \A m : Pending(m)' => \E k \in DOMAIN rest : Told(rest[k], m)
  <2>1. CASE InProgress(r)
    <3>1. wire'.events = rest
      BY <1>2, <1>4, <2>1
    <3> QED BY <3>1 DEF Pending
  <2>2. CASE ~ InProgress(r)
    <3>1. DOMAIN wire'.events = {}
      BY <1>2, <2>2 DEF Hung
    <3> QED BY <3>1 DEF Pending
  <2> QED BY <2>1, <2>2
<1>11. \A j \in DOMAIN e.messages : e.messages[j] \in Seen
  BY <1>2, <1>9 DEF Seen, Told
<1>12. \A j \in DOMAIN h : h[j] \in Seen
  BY <1>2 DEF Seen, ToSet
<1>13. ASSUME NEW m \in Seen' PROVE \E x \in Seen : Same(m, x)
  <2>1. m \in DirectMessage /\ (m \in Rows' \/ Pending(m)')
    BY DEF Seen
  <2>2. CASE m \in Rows'
    <3>1. PICK k \in DOMAIN r : m = r[k]
      BY <1>8, <2>2 DEF ToSet
    <3> QED BY <1>2, <1>11, <1>12, <3>1 DEF Taken
  <2>3. CASE Pending(m)'
    <3>1. m \in Seen
      BY <1>9, <1>10, <2>1, <2>3 DEF Seen
    <3> QED BY <3>1 DEF Same
  <2> QED BY <2>1, <2>2, <2>3
<1>14. ASSUME ~ Spoilt(g), NEW m \in Seen' PROVE Matches(g, m)
  <2>1. PICK x \in Seen : Same(m, x)
    BY <1>13
  <2>2. Matches(g, x)
    BY <1>3, <1>14 DEF PageFollows
  <2> QED BY <2>1, <2>2 DEF Matches, MayGo, Same
<1>15. ASSUME task.phase # "over", NEW m \in Seen' PROVE m.kind # "rollbackError"
  <2>1. PICK x \in Seen : Same(m, x)
    BY <1>13
  <2> QED BY <1>3, <1>15, <2>1 DEF PageFollows, Same
<1>16. ASSUME NEW x, Name(x) \in Kept(g), x \in Rows \/ Told(e, x)
       PROVE  \E m \in Rows' : Name(m) = Name(x)
  <2>1. (\E j \in DOMAIN h : x = h[j]) \/ (\E j \in DOMAIN e.messages : x = e.messages[j])
    BY <1>2, <1>16 DEF ToSet, Told
  <2>2. ~ Spoilt(g) => /\ \A j \in DOMAIN h : Matches(g, h[j])
                       /\ \A j \in DOMAIN e.messages : Matches(g, e.messages[j])
    BY <1>3, <1>11, <1>12 DEF PageFollows
  <2>3. /\ g \in Seq(DirectMessage) /\ Distinct(g) /\ h \in Seq(DirectMessage)
        /\ (\A k \in DOMAIN h : ~ h[k].finished)
        /\ e.messages \in Seq(DirectMessage) /\ Taken(h, e, r) /\ Name(x) \in Kept(g)
    BY <1>2, <1>3, <1>16
  <2>4. \E k \in DOMAIN r : Name(r[k]) = Name(x)
    BY <2>1, <2>2, <2>3, KeptStays
  <2> QED BY <1>8, <2>4 DEF ToSet
<1>17. r \in Seq(DirectMessage)
  BY <1>2 DEF Taken
<1>18. ASSUME NEW m \in Rows' PROVE m \in Seen'
  BY <1>8, <1>17, <1>18 DEF Seen, ToSet
<1>19. PageShapes'
  <2>1. page'.rows \in {{}, {r}} /\ page'.streaming \in BOOLEAN
    BY <1>2 DEF InProgress
  <2>2. CASE InProgress(r)
    <3>1. wire' = [wire EXCEPT !.events = rest] /\ page'.streaming
      BY <1>2, <2>2
    <3>2. wire' \in [at : {"hub", "nobody"}, events : Seq(E)] /\ wire'.events = rest
      BY <1>4, <1>6, <3>1
    <3>3. ASSUME NEW o \in DOMAIN rest, Closes(rest[o]) PROVE o = Len(rest)
      <4>1. o + 1 = Len(old)
        BY <1>4, <1>7, <3>3
      <4> QED BY <1>6, <1>7, <4>1
    <3> QED BY <1>17, <2>1, <3>1, <3>2, <3>3 DEF PageShapes, E
  <2>3. CASE ~ InProgress(r)
    <3>1. wire' = Hung
      BY <1>2, <2>3
    <3>2. Hung \in [at : {"hub", "nobody"}, events : Seq(E)] /\ DOMAIN Hung.events = {}
      BY DEF Hung
    <3>3. Hung' = Hung
      BY DEF Hung
    <3> QED BY <1>17, <2>1, <3>1, <3>2, <3>3 DEF PageShapes, E
  <2> QED BY <2>2, <2>3
<1>20. ASSUME wire.at # "nobody" \/ (\E o \in DOMAIN old : Closes(old[o])), NEW nm \in Kept(g)
       PROVE  \/ \E m \in Rows' : Name(m) = nm
              \/ \E k \in DOMAIN rest : \E m \in DirectMessage : Told(rest[k], m) /\ Name(m) = nm
  <2>1. PICK x \in Seen : Name(x) = nm
    BY <1>3, <1>20 DEF PageFollows
  <2>2. x \in DirectMessage /\ (x \in Rows \/ Pending(x))
    BY <2>1 DEF Seen
  <2>3. CASE x \in Rows \/ Told(e, x)
    BY <1>16, <1>20, <2>1, <2>3
  <2>4. CASE \E k \in DOMAIN rest : Told(rest[k], x)
    BY <2>1, <2>2, <2>4
  <2> QED BY <1>9, <2>2, <2>3, <2>4
<1>21. ASSUME wire'.at # "nobody" \/ (\E o \in DOMAIN wire'.events : Closes(wire'.events[o])),
              NEW nm \in Kept(g)
       PROVE  \E m \in Seen' : Name(m) = nm
  <2>1. InProgress(r)
    BY <1>2, <1>21 DEF Hung
  <2>2. wire'.events = rest /\ wire'.at = wire.at
    BY <1>2, <1>4, <2>1
  <2>3. wire.at # "nobody" \/ (\E o \in DOMAIN old : Closes(old[o]))
    BY <1>7, <1>21, <2>2
  <2>4. CASE \E m \in Rows' : Name(m) = nm
    BY <1>18, <2>4
  <2>5. CASE \E k \in DOMAIN rest : \E m \in DirectMessage : Told(rest[k], m) /\ Name(m) = nm
    <3>1. PICK k \in DOMAIN rest, m \in DirectMessage : Told(rest[k], m) /\ Name(m) = nm
      BY <2>5
    <3>2. Pending(m)'
      BY <2>2, <3>1 DEF Pending
    <3> QED BY <3>1, <3>2 DEF Seen
  <2> QED BY <1>20, <1>21, <2>3, <2>4, <2>5
<1>22. PageFollows(g)'
  BY <1>1, <1>14, <1>15, <1>19, <1>21 DEF PageFollows
<1>23. ASSUME \E m \in Rows' : m.finished, NEW nm \in Kept(g) PROVE \E m \in Rows' : Name(m) = nm
  <2>1. Closes(e)
    BY <1>2, <1>8, <1>23 DEF ToSet, Taken
  <2>2. Len(old) = 1
    BY <1>4, <1>6, <2>1
  <2>3. \A k \in DOMAIN rest : FALSE
    BY <1>7, <2>2
  <2> QED BY <1>6, <1>20, <1>23, <2>1, <2>3
<1> QED BY <1>22, <1>23

\* The invariant at the beginning and along every step.
LEMMA ArrivesFollows == ASSUME MonitorIInv, FollowInv, Arrives PROVE FollowInv'
<1>1. UNCHANGED <<way, nested, moves, successor, group, count, task, client, got>>
  BY DEF Arrives, asked
<1>2. ASSUME way = "direct", nested = {} PROVE PageFollows(group["hub"])'
  <2>1. PICK h, e, r : Takes(h, e, r)
    BY <1>2, ArrivesTakes
  <2>2. PICK g : g = group["hub"]
    OBVIOUS
  <2>3. PageFollows(g)'
    BY <1>2, <2>1, <2>2, TakenFollows
  <2>4. group["hub"]' = g
    BY <1>1, <2>2
  <2> QED BY <2>3, <2>4
<1> QED BY <1>1, <1>2, PageMoves

LEMMA FollowStart == MonitorInit => FollowInv
<1> SUFFICES ASSUME MonitorInit, way = "direct", nested = {}
             PROVE  /\ ~ moves /\ successor = "none"
                    /\ GroupFollows(group["hub"])
                    /\ ClientFollows(group["hub"])
                    /\ PageFollows(group["hub"])
  BY DEF FollowInv
<1> USE DEF MonitorInit, TaskInit
<1>1. /\ ~ moves /\ successor = "none"
  BY ChoicesAssumption
<1>2. group["hub"] = <<>> /\ <<>> \in Seq(DirectMessage) /\ DOMAIN <<>> = {}
  BY DEF Places
<1>3. GroupFollows(group["hub"])
  BY <1>2 DEF GroupFollows, Distinct, Spoilt
<1>4. ClientFollows(group["hub"])
  BY <1>2 DEF ClientFollows, ClientShapes
<1>5. wire = Hung /\ wire.events = <<>> /\ wire.at = "nobody" /\ page.rows = {}
      /\ page.streaming \in BOOLEAN
  BY DEF Hung
<1>6. PageShapes
  <2>1. wire \in [at : {"hub", "nobody"},
                  events : Seq([snapshot : BOOLEAN, messages : Seq(DirectMessage)])]
    <3>1. <<>> \in Seq([snapshot : BOOLEAN, messages : Seq(DirectMessage)])
      OBVIOUS
    <3> QED BY <3>1
  <2>2. \E g \in Seq(DirectMessage) : page.rows \in {{}, {g}}
    BY <1>2, <1>5
  <2> QED BY <1>2, <1>5, <2>1, <2>2 DEF PageShapes
<1>7. Seen = {}
  BY <1>2, <1>5 DEF Seen, Rows, Pending
<1>8. PageFollows(group["hub"])
  BY <1>2, <1>5, <1>6, <1>7 DEF PageFollows
<1> QED BY <1>1, <1>3, <1>4, <1>8

LEMMA FollowStep == MonitorIInv /\ FollowInv /\ [MonitorNext]_monitorVars => FollowInv'
<1> SUFFICES ASSUME MonitorIInv, FollowInv, [MonitorNext]_monitorVars PROVE FollowInv'
  OBVIOUS
<1>1. CASE TaskStep /\ UNCHANGED page
  <2>1. UNCHANGED <<way, nested>>
    BY <1>1 DEF TaskStep, Talks, StepSucceeds, StepWarns, NestedEnds, StepFails, StepBreaks,
                RollbackEnds, Completes, Speaks, asked
  <2>2. CASE way = "direct" /\ nested = {}
    BY <1>1, <2>2, TaskFollows
  <2>3. CASE ~ (way = "direct" /\ nested = {})
    BY <2>1, <2>3 DEF FollowInv
  <2> QED BY <2>2, <2>3
<1>2. CASE (OtherTask \/ UpgradeStep \/ ClientStep) /\ UNCHANGED page
  BY <1>2, OtherFollows, UpgradeFollows, ClientStepFollows
<1>3. CASE Connects \/ Breaks \/ Arrives \/ Reopens
  BY <1>3, ConnectsFollows, BreaksFollows, ArrivesFollows, ReopensFollows
<1>4. CASE UNCHANGED monitorVars
  <2>1. UNCHANGED <<way, nested, moves, successor, group, count, task, client, got, wire, page>>
    BY <1>4 DEF monitorVars, taskVars
  <2>2. PageFollows(group["hub"]) => PageFollows(group["hub"])'
    BY <2>1 DEF PageFollows, PageShapes, Seen, Rows, Pending, Hung
  <2> QED BY <2>1, <2>2, PageMoves DEF FollowInv
<1> QED BY <1>1, <1>2, <1>3, <1>4 DEF MonitorNext

\* Who follows a task on one deployer is handed every message of it: the client's
\* cursor stays below the number that comes next, also where another task takes
\* it, and the page's merge loses only output (ve-execution.mts:637,
\* webapp-ve-message-manager.mts:200, process-monitor.ts:484).
THEOREM NothingIsMissed == MonitorSpec => NothingMissed
<1> DEFINE A == way = "direct" /\ nested = {} =>
                /\ client.result = "polling" /\ client'.result \in {"success", "failure"}
                   => \A m \in ToSet(group["hub"]) : m.kind # "rollbackError" => Name(m) \in got'
                /\ page.streaming /\ ~page'.streaming /\ (\E m \in Rows' : m.finished)
                   => Kept(group["hub"]) \subseteq {Name(m) : m \in Rows'}
<1>1. MonitorIInv /\ FollowInv /\ [MonitorNext]_monitorVars => [A]_monitorVars
  <2> SUFFICES ASSUME MonitorIInv, FollowInv, MonitorNext, way = "direct", nested = {}
               PROVE  A
    OBVIOUS
  <2>1. CASE ClientStep /\ UNCHANGED page
    <3>1. CASE PollAnswered
      BY <2>1, <3>1, AnswerIsWhole DEF ToSet
    <3>2. CASE PollUnanswered \/ PollLost \/ CursorReset
      <4>1. client' = Failed \/ client' = [client EXCEPT !.cursor = NoIndex, !.silent = FALSE]
        BY <3>2 DEF PollUnanswered, PollLost, CursorReset
      <4>2. "result" \in DOMAIN client
        BY DEF FollowInv, ClientFollows, ClientShapes
      <4>3. client'.result \in {client.result, "gaveUp"}
        BY <4>1, <4>2 DEF Failed
      <4> QED BY <2>1, <4>3
    <3> QED BY <2>1, <3>1, <3>2 DEF ClientStep
  <2>2. CASE (TaskStep \/ OtherTask \/ UpgradeStep) /\ UNCHANGED page
    <3>1. client' = client
      BY <2>2 DEF TaskStep, Talks, StepSucceeds, StepWarns, NestedEnds, StepFails, StepBreaks,
                  RollbackEnds, Completes, Speaks, OtherTask, UpgradeStep, StageMarker,
                  TriggerClone, Handoff, MirrorPolls, HubStops, SuccessorBoots, Adopts,
                  AdoptionGivesUp
    <3> QED BY <2>2, <3>1
  <2>3. CASE Connects \/ Breaks \/ Reopens
    <3>1. client' = client /\ (page.streaming => page'.streaming)
      BY <2>3 DEF Connects, Breaks, Reopens
    <3> QED BY <3>1
  <2>4. CASE Arrives
    <3>1. client' = client
      BY <2>4 DEF Arrives
    <3>2. PICK h, e, r : Takes(h, e, r)
      BY <2>4, ArrivesTakes
    <3>3. PICK g : g = group["hub"]
      OBVIOUS
    <3>4. ~ page'.streaming /\ (\E m \in Rows' : m.finished) =>
             Kept(g) \subseteq {Name(m) : m \in Rows'}
      BY <2>4, <3>2, <3>3, TakenFollows
    <3> QED BY <3>1, <3>3, <3>4
  <2> QED BY <2>1, <2>2, <2>3, <2>4 DEF MonitorNext
<1>2. MonitorSpec => []FollowInv
  BY MonitorAlways, FollowStart, FollowStep, PTL DEF MonitorSpec
<1> QED BY <1>1, <1>2, MonitorAlways, PTL DEF MonitorSpec, NothingMissed

=============================================================================

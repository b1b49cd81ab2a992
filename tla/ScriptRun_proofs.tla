--------------------------- MODULE ScriptRun_proofs ---------------------------
(* The files of the hooks are whole, and what is done is what the last runs  *)
(* of the commands did, for every task, host and number of attempts.         *)
EXTENDS ScriptRun, SequenceTheorems, TLAPS

----------------------------------------------------------------------------
(* The runs.                                                               *)

Parts == {"script", "deploy", "trigger"}

\* A run has its fields; those with values of the task stay what they are.
Run(s) == [command : {s.command}, part : Parts, vm : {s.vm}, step : 0 .. 4,
           printed : 0 .. 2, live : BOOLEAN, exit : Int, whole : BOOLEAN,
           sees : {s.sees}]

Runs ==
    /\ Len(scripts) \in Nat
    /\ scripts = [i \in 1 .. Len(scripts) |-> scripts[i]]
    /\ \A i \in 1 .. Len(scripts) : scripts[i] \in Run(scripts[i])

----------------------------------------------------------------------------
(* The hook.                                                               *)

Files == [whole : BOOLEAN, exec : BOOLEAN]

\* Every file is that of the run with its number, as is its name.
Numbered ==
    /\ files \in [DOMAIN files -> Files]
    /\ names = [n \in DOMAIN names |-> n]
    /\ DOMAIN names \subseteq DOMAIN files
    /\ DOMAIN files \subseteq 0 .. Len(scripts)
    /\ hook \subseteq DOMAIN files

\* How far the file is of a deployment that is under way.
Under(i) ==
    LET step == scripts[i].step
    IN /\ step \in 0 .. 3
       /\ step = 0 => i \notin DOMAIN files
       /\ step > 0 => /\ i \in DOMAIN names
                      /\ scripts[i].exit = i
                      /\ i \notin hook
       /\ step > 1 => files[i].whole
       /\ step > 2 => files[i].exec

Deployments ==
    \A i \in 1 .. Len(scripts) :
        scripts[i].live /\ scripts[i].part = "deploy" => Under(i)

HookInv == part \in Parts /\ Runs /\ Numbered /\ Deployments /\ HookIsWhole

----------------------------------------------------------------------------
(* What is done.                                                           *)

Procs == [run : Nat, got : 0 .. 2, heard : BOOLEAN, killed : BOOLEAN, closed : BOOLEAN,
          exit : Int]

Scope(s) == [outputs : {s.outputs}, inputs : {s.inputs}, defaults : {s.defaults}]

\* The task goes from command to command, and a process is that of the last run.
Progress ==
    /\ task \in {s.task : s \in Scenarios}
    /\ at \in Nat /\ start \in Nat /\ 0 < start /\ start <= at
    /\ phase \in {"next", "run", "delay", "done", "failed"}
    /\ part \in Parts
    /\ proc \in Procs
    /\ phase \in {"run", "delay"} => at <= Len(task.commands)
    /\ phase # "run" => proc.run = 0
    /\ proc.run # 0 => proc.run = Len(scripts) /\ scripts[proc.run].command = at
    /\ \A i \in 1 .. Len(scripts) : scripts[i].command \in 1 .. at

\* Only the last run can have made the deployer go on.
Heard ==
    proc.exit = 0 =>
        /\ proc.run # 0 /\ proc.got = scripts[proc.run].printed
        /\ ~scripts[proc.run].live /\ scripts[proc.run].exit = 0

\* The values are those of the task's variables.
OfTheTask(s) ==
    /\ s \in Scope(s)
    /\ s.outputs = [n \in DOMAIN s.outputs |-> s.outputs[n]]
    /\ Known(s) \subseteq Names(task)

\* What the last of the commands before has printed is what the next one will see.
Current(s) ==
    at <= Len(task.commands) =>
        \A giver \in Counted : \A v \in task.commands[giver].gives :
            GivesLast(giver, v, at) =>
                v \in DOMAIN s.outputs /\ s.outputs[v] = {Word(done[giver])}

Remembered ==
    /\ OfTheTask(scope) /\ OfTheTask(base)
    /\ Current(scope)
    /\ at = start => Current(base)

Behind ==
    /\ done = [c \in DOMAIN done |-> done[c]]
    /\ DOMAIN done \subseteq 1 .. at - 1
    /\ \A c \in Counted :
          /\ done[c] \in 1 .. Len(scripts)
          /\ scripts[done[c]].command = c

RunningTold == proc.run # 0 => ToldOfTheLast(proc.run, at)

DoneInv == Progress /\ Heard /\ Remembered /\ Behind /\ RunningTold /\ DoneByTheLastRun

----------------------------------------------------------------------------
(* Sequences of runs.                                                      *)

\* A function on 1 .. n is a sequence of length n.
LEMMA FunctionsAreSequences ==
    ASSUME NEW n \in Nat, NEW f, f = [i \in 1 .. n |-> f[i]]
    PROVE  f \in Seq({f[i] : i \in 1 .. n}) /\ Len(f) = n
<1> DEFINE S == {f[i] : i \in 1 .. n}
<1>1. f \in [1 .. n -> S]
  OBVIOUS
<1>2. f \in Seq(S)
  BY <1>1
<1> QED
  BY <1>1, <1>2, LenProperties, SMT

\* A run that starts gets the next number and leaves the others as they are.
LEMMA OneMore ==
    ASSUME Runs, NEW s, s \in Run(s), scripts' = Append(scripts, s)
    PROVE  /\ Runs' /\ Len(scripts') = Len(scripts) + 1
           /\ scripts'[Len(scripts) + 1] = s
           /\ \A i \in 1 .. Len(scripts) : scripts'[i] = scripts[i]
<1> DEFINE n == Len(scripts)
           S == {scripts[i] : i \in 1 .. n} \cup {s}
<1>1. scripts \in Seq({scripts[i] : i \in 1 .. n}) /\ n \in Nat
  BY FunctionsAreSequences DEF Runs
<1>2. scripts \in Seq(S) /\ s \in S
  BY <1>1
<1>3. /\ Append(scripts, s) \in Seq(S)
      /\ Len(Append(scripts, s)) = n + 1
      /\ \A i \in 1 .. n : Append(scripts, s)[i] = scripts[i]
      /\ Append(scripts, s)[n + 1] = s
  BY <1>2, AppendProperties
<1> HIDE DEF S
<1>4. scripts' \in [1 .. n + 1 -> S]
  <2>1. scripts' \in Seq(S) /\ Len(scripts') = n + 1
    BY <1>3
  <2> QED
    BY <2>1, LenProperties
<1>5. scripts' = [i \in 1 .. n + 1 |-> scripts'[i]]
  BY <1>4
<1> QED
  BY <1>1, <1>3, <1>5 DEF Runs, Run

\* A step of a run changes nothing else.
LEMMA OneChanges ==
    ASSUME Runs, NEW i \in 1 .. Len(scripts), NEW s, s \in Run(s),
           scripts' = [scripts EXCEPT ![i] = s]
    PROVE  /\ Runs' /\ Len(scripts') = Len(scripts)
           /\ scripts'[i] = s
           /\ \A j \in 1 .. Len(scripts) : j # i => scripts'[j] = scripts[j]
<1> DEFINE n == Len(scripts)
<1>1. n \in Nat /\ DOMAIN scripts = 1 .. n
  BY DEF Runs
<1>2. scripts' = [j \in 1 .. n |-> scripts'[j]]
  BY <1>1
<1>3. Len(scripts') = n
  BY <1>1, <1>2, FunctionsAreSequences
<1>4. scripts'[i] = s /\ \A j \in 1 .. n : j # i => scripts'[j] = scripts[j]
  BY <1>1
<1> QED
  BY <1>1, <1>2, <1>3, <1>4 DEF Runs, Run

\* A run is the record of its fields.
LEMMA Fields ==
    ASSUME NEW s, s \in Run(s)
    PROVE  s = [command |-> s.command, part |-> s.part, vm |-> s.vm, step |-> s.step,
                printed |-> s.printed, live |-> s.live, exit |-> s.exit, whole |-> s.whole,
                sees |-> s.sees]
BY DEF Run

\* A run that ends still has its fields.
LEMMA EndsAreRuns ==
    ASSUME NEW s, s \in Run(s), NEW code \in Int, NEW r, r = Exits(s, code)
    PROVE  /\ r \in Run(r)
           /\ r.command = s.command /\ r.part = s.part /\ r.sees = s.sees
           /\ r.step = s.step /\ r.printed = s.printed /\ r.whole = s.whole
           /\ ~r.live /\ r.exit = code
BY DEF Exits, Run, Parts


\* Another value of `printed'.
LEMMA PrintingRuns ==
    ASSUME NEW s, s \in Run(s), NEW n \in 0 .. 2, NEW r, r = [s EXCEPT !.printed = n]
    PROVE  /\ r \in Run(r)
           /\ r.command = s.command /\ r.part = s.part /\ r.sees = s.sees
           /\ r.step = s.step /\ r.live = s.live /\ r.exit = s.exit /\ r.whole = s.whole
           /\ r.printed = n
BY DEF Run, Parts

\* Of the output, all or a part may be in place.
LEMMA WholeRuns ==
    ASSUME NEW s, s \in Run(s), NEW w \in BOOLEAN, NEW r, r = [s EXCEPT !.whole = w]
    PROVE  /\ r \in Run(r)
           /\ r.command = s.command /\ r.part = s.part /\ r.sees = s.sees
           /\ r.step = s.step /\ r.live = s.live /\ r.exit = s.exit
           /\ r.printed = s.printed /\ r.whole = w
BY DEF Run, Parts

\* A deployment starts anew.
LEMMA FirstStepOfARun ==
    ASSUME NEW s, s \in Run(s), NEW r, r = [s EXCEPT !.step = 0]
    PROVE  /\ r \in Run(r)
           /\ r.command = s.command /\ r.part = s.part /\ r.sees = s.sees
           /\ r.live = s.live /\ r.exit = s.exit /\ r.whole = s.whole
           /\ r.printed = s.printed /\ r.step = 0
BY DEF Run, Parts

\* The next step of a deployment.
LEMMA NextStepOfARun ==
    ASSUME NEW s, s \in Run(s), s.step \in 0 .. 3, NEW r, r = [s EXCEPT !.step = @ + 1]
    PROVE  /\ r \in Run(r)
           /\ r.command = s.command /\ r.part = s.part /\ r.sees = s.sees
           /\ r.live = s.live /\ r.exit = s.exit /\ r.printed = s.printed /\ r.whole = s.whole
           /\ r.step = s.step + 1
BY DEF Run, Parts

\* The file that a deployment has open.
LEMMA ExitOfARun ==
    ASSUME NEW s, s \in Run(s), NEW file \in Int, NEW r, r = [s EXCEPT !.exit = file]
    PROVE  /\ r \in Run(r)
           /\ r.command = s.command /\ r.part = s.part /\ r.sees = s.sees
           /\ r.live = s.live /\ r.step = s.step /\ r.printed = s.printed /\ r.whole = s.whole
           /\ r.exit = file
BY DEF Run, Parts

----------------------------------------------------------------------------
(* No step harms the hook.                                                 *)

\* The deployments of before go on where they were; one that starts has no file.
NoFileTouched ==
    /\ UNCHANGED <<files, names, hook>>
    /\ part' \in Parts
    /\ Runs' /\ Len(scripts') >= Len(scripts)
    /\ \A i \in 1 .. Len(scripts') :
          scripts'[i].live /\ scripts'[i].part = "deploy" =>
              \/ i > Len(scripts) /\ scripts'[i].step = 0
              \/ /\ i <= Len(scripts) /\ scripts[i].live /\ scripts[i].part = "deploy"
                 /\ scripts'[i].step = scripts[i].step /\ scripts'[i].exit = scripts[i].exit

LEMMA FilesStay == ASSUME HookInv, NoFileTouched PROVE HookInv'
<1> USE DEF HookInv, NoFileTouched
<1>1. Numbered' /\ HookIsWhole'
  BY DEF Runs, Numbered, HookIsWhole
<1>2. Deployments'
  <2> SUFFICES ASSUME NEW i \in 1 .. Len(scripts'), scripts'[i].live,
                      scripts'[i].part = "deploy"
               PROVE  Under(i)'
    BY DEF Deployments
  <2>1. CASE i > Len(scripts)
    BY <2>1 DEF Under, Runs, Numbered
  <2>2. CASE ~(i > Len(scripts))
    <3>1. i \in 1 .. Len(scripts) /\ Under(i)
      BY <2>2 DEF Deployments, Runs
    <3> QED
      BY <2>2, <3>1 DEF Under, Runs
  <2> QED
    BY <2>1, <2>2
<1> QED
  BY <1>1, <1>2

\* A run changes that is no deployment, or becomes none, or not as far as its file
\* is concerned.
LEMMA FilesStayBeside ==
    ASSUME HookInv, NEW i \in 1 .. Len(scripts), NEW s, s \in Run(s), SetScript(i, s),
           UNCHANGED <<files, names, hook>>,
           s.live => /\ scripts[i].live /\ s.part = scripts[i].part
                     /\ s.step = scripts[i].step /\ s.exit = scripts[i].exit
    PROVE  HookInv'
<1>1. /\ Runs' /\ Len(scripts') = Len(scripts) /\ scripts'[i] = s /\ part' \in Parts
      /\ \A j \in 1 .. Len(scripts) : j # i => scripts'[j] = scripts[j]
  BY OneChanges DEF HookInv, SetScript
<1>2. NoFileTouched
  BY <1>1 DEF NoFileTouched, Runs
<1> QED
  BY <1>2, FilesStay

\* The steps of a deployment keep the others' files, as every run has its own name.
LEMMA DeploymentsGoOn ==
    ASSUME HookInv, NEW i \in 1 .. Len(scripts),
           OpenTemporary(i) \/ WriteTemporary(i) \/ MakeExecutable(i) \/ MoveIntoPlace(i)
    PROVE  HookInv'
<1> DEFINE s == scripts[i]
<1>1. s \in Run(s) /\ i \in Nat /\ i > 0 /\ part \in Parts /\ Runs
  BY DEF HookInv, Runs
<1>2. ASSUME NEW code \in Int, NEW k, Deploys(i, k)
      PROVE  s.live /\ s.part = "deploy" /\ s.step = k /\ Under(i) /\ k \in 0 .. 3
  BY <1>2, <1>1 DEF Deploys, HookInv, Deployments, Under
<1>3. CASE OpenTemporary(i)
  <2>1. s.live /\ s.part = "deploy" /\ s.step = 0 /\ i \notin DOMAIN files
        /\ i \notin DOMAIN names
    BY <1>2, <1>3 DEF OpenTemporary, Under, HookInv, Numbered
  <2>2. /\ names' = [n \in DOMAIN names \cup {i} |-> IF n = i THEN i ELSE names[n]]
        /\ files' = [f \in DOMAIN files \cup {i} |->
                        IF f # i THEN files[f] ELSE [whole |-> FALSE, exec |-> FALSE]]
        /\ hook' = hook /\ SetScript(i, [DeployStep(i) EXCEPT !.exit = i])
    BY <1>3, <2>1 DEF OpenTemporary, TemporaryName
  <2>t. PICK t : t = [s EXCEPT !.step = @ + 1]
    OBVIOUS
  <2>r. PICK r : r = [t EXCEPT !.exit = i]
    OBVIOUS
  <2>u. t \in Run(t) /\ t.part = "deploy" /\ t.step = 1 /\ t = DeployStep(i)
    BY <2>t, <2>r, <1>1, <2>1, NextStepOfARun DEF DeployStep
  <2>3. r \in Run(r) /\ r.part = "deploy" /\ r.step = 1 /\ r.exit = i /\ SetScript(i, r)
    <3>1. r \in Run(r) /\ r.part = "deploy" /\ r.step = 1 /\ r.exit = i
      BY <1>1, <2>r, <2>u, ExitOfARun
    <3>2. r = [DeployStep(i) EXCEPT !.exit = i]
      BY <2>r, <2>u
    <3> QED
      BY <2>2, <3>1, <3>2 DEF SetScript
  <2>4. /\ Runs' /\ Len(scripts') = Len(scripts) /\ scripts'[i] = r /\ part' \in Parts
        /\ \A j \in 1 .. Len(scripts) : j # i => scripts'[j] = scripts[j]
    BY <1>1, <2>2, <2>3, OneChanges DEF SetScript
  <2>5. Numbered' /\ HookIsWhole'
    BY <1>1, <2>1, <2>2, <2>4 DEF HookInv, Numbered, HookIsWhole, Files, Runs
  <2>6. Deployments'
    <3> SUFFICES ASSUME NEW j \in 1 .. Len(scripts), scripts'[j].live,
                        scripts'[j].part = "deploy"
                 PROVE  Under(j)'
      BY <2>4 DEF Deployments
    <3>1. CASE j = i
      BY <2>1, <2>2, <2>3, <2>4, <3>1 DEF Under, HookInv, Numbered
    <3>2. CASE j # i
      <4>1. scripts'[j] = scripts[j] /\ Under(j)
        BY <2>4, <3>2 DEF HookInv, Deployments
      <4> QED
        BY <2>2, <3>2, <4>1 DEF Under, HookInv, Numbered
    <3> QED
      BY <3>1, <3>2
  <2> QED
    BY <2>4, <2>5, <2>6 DEF HookInv
<1>4. CASE WriteTemporary(i)
  <2>1. s.live /\ s.part = "deploy" /\ s.step = 1 /\ s.exit = i /\ i \in DOMAIN files
        /\ i \notin hook
    BY <1>2, <1>4 DEF WriteTemporary, Under, HookInv, Numbered
  <2>2. CASE SetScript(i, Exits(s, 1)) /\ UNCHANGED files
    BY <1>1, <1>4, <2>2, EndsAreRuns, FilesStayBeside DEF WriteTemporary
  <2>3. CASE files' = [files EXCEPT ![s.exit].whole = TRUE] /\ SetScript(i, DeployStep(i))
    <3>r. PICK r : r = [s EXCEPT !.step = @ + 1]
      OBVIOUS
    <3>1. /\ r \in Run(r) /\ r.part = "deploy" /\ r.step = 2 /\ r.exit = i
          /\ r = DeployStep(i)
      BY <3>r, <1>1, <2>1, NextStepOfARun DEF DeployStep
    <3>2. /\ SetScript(i, r) /\ UNCHANGED <<names, hook>>
          /\ files' = [files EXCEPT ![i] = [@ EXCEPT !.whole = TRUE]]
      BY <1>4, <2>1, <2>3, <3>1 DEF WriteTemporary
    <3>3. /\ Runs' /\ Len(scripts') = Len(scripts) /\ scripts'[i] = r /\ part' \in Parts
          /\ \A j \in 1 .. Len(scripts) : j # i => scripts'[j] = scripts[j]
      BY <1>1, <3>1, <3>2, OneChanges DEF SetScript
    <3>4. Numbered' /\ HookIsWhole'
      <4>1. files[i] \in Files /\ files \in [DOMAIN files -> Files] /\ HookIsWhole
            /\ hook \subseteq DOMAIN files
        BY <2>1 DEF HookInv, Numbered
      <4>2. \A f \in DOMAIN files : f # i => files'[f] = files[f]
        BY <3>2, <4>1
      <4>3. files'[i].whole /\ DOMAIN files' = DOMAIN files
        BY <2>1, <3>2, <4>1 DEF Files
      <4>4. files' \in [DOMAIN files -> Files]
        BY <3>2, <4>1 DEF Files
      <4>5. HookIsWhole'
        BY <2>1, <3>2, <4>1, <4>2 DEF HookIsWhole
      <4> QED
        BY <1>1, <3>2, <3>3, <4>3, <4>4, <4>5 DEF HookInv, Numbered, Runs
    <3>5. Deployments'
      <4> SUFFICES ASSUME NEW j \in 1 .. Len(scripts), scripts'[j].live,
                          scripts'[j].part = "deploy"
                   PROVE  Under(j)'
        BY <3>3 DEF Deployments
      <4>1. CASE j = i
        <5>1. i \in DOMAIN names /\ files[i] \in Files
          BY <1>2, <1>4, <2>1 DEF WriteTemporary, Under, HookInv, Numbered
        <5> QED
          BY <2>1, <3>1, <3>2, <3>3, <4>1, <5>1 DEF Under, Files
      <4>2. CASE j # i
        <5>1. scripts'[j] = scripts[j] /\ Under(j)
          BY <3>3, <4>2 DEF HookInv, Deployments
        <5> QED
          BY <3>2, <4>2, <5>1 DEF Under, HookInv, Numbered
      <4> QED
        BY <4>1, <4>2
    <3> QED
      BY <3>3, <3>4, <3>5 DEF HookInv
  <2> QED
    BY <1>4, <2>2, <2>3 DEF WriteTemporary
<1>5. CASE MakeExecutable(i)
  <2>1. /\ s.live /\ s.part = "deploy" /\ s.step = 2 /\ s.exit = i /\ i \notin hook
        /\ i \in DOMAIN names /\ names[i] = i /\ files[i] \in Files /\ files[i].whole
    BY <1>2, <1>5 DEF MakeExecutable, Under, HookInv, Numbered
  <2>r. PICK r : r = [s EXCEPT !.step = @ + 1]
    OBVIOUS
  <2>2. /\ r \in Run(r) /\ r.part = "deploy" /\ r.step = 3 /\ r.exit = i
        /\ r = DeployStep(i)
    BY <2>r, <1>1, <2>1, NextStepOfARun DEF DeployStep
  <2>3. /\ SetScript(i, r) /\ UNCHANGED <<names, hook>>
        /\ files' = [files EXCEPT ![i] = [@ EXCEPT !.exec = TRUE]]
    BY <1>5, <2>1, <2>2 DEF MakeExecutable, TemporaryName
  <2>4. /\ Runs' /\ Len(scripts') = Len(scripts) /\ scripts'[i] = r /\ part' \in Parts
        /\ \A j \in 1 .. Len(scripts) : j # i => scripts'[j] = scripts[j]
    BY <1>1, <2>2, <2>3, OneChanges DEF SetScript
  <2>5. Numbered' /\ HookIsWhole'
    BY <1>1, <2>1, <2>3, <2>4 DEF HookInv, Numbered, HookIsWhole, Files, Runs
  <2>6. Deployments'
    <3> SUFFICES ASSUME NEW j \in 1 .. Len(scripts), scripts'[j].live,
                        scripts'[j].part = "deploy"
                 PROVE  Under(j)'
      BY <2>4 DEF Deployments
    <3>1. CASE j = i
      BY <2>1, <2>2, <2>3, <2>4, <3>1 DEF Under, Files, HookInv, Numbered
    <3>2. CASE j # i
      <4>1. scripts'[j] = scripts[j] /\ Under(j)
        BY <2>4, <3>2 DEF HookInv, Deployments
      <4> QED
        BY <2>3, <3>2, <4>1 DEF Under, HookInv, Numbered
    <3> QED
      BY <3>1, <3>2
  <2> QED
    BY <2>4, <2>5, <2>6 DEF HookInv
<1>6. CASE MoveIntoPlace(i)
  <2>1. /\ s.live /\ s.part = "deploy" /\ i \in DOMAIN names /\ names[i] = i
        /\ i \in DOMAIN files /\ files[i].whole /\ files[i].exec
    BY <1>2, <1>6 DEF MoveIntoPlace, Under, HookInv, Numbered
  <2>r. PICK r : r = Exits(s, 0)
    OBVIOUS
  <2>2. r = Exits(s, 0) /\ r \in Run(r) /\ ~r.live
    BY <2>r, <1>1, EndsAreRuns
  <2>3. /\ SetScript(i, r) /\ files' = files /\ hook' = {i}
        /\ names' = [n \in DOMAIN names \ {i} |-> names[n]]
    BY <1>6, <2>1, <2>2 DEF MoveIntoPlace, TemporaryName
  <2>4. /\ Runs' /\ Len(scripts') = Len(scripts) /\ scripts'[i] = r /\ part' \in Parts
        /\ \A j \in 1 .. Len(scripts) : j # i => scripts'[j] = scripts[j]
    BY <1>1, <2>2, <2>3, OneChanges DEF SetScript
  <2>5. Numbered' /\ HookIsWhole'
    BY <1>1, <2>1, <2>3, <2>4 DEF HookInv, Numbered, HookIsWhole, Files, Runs
  <2>6. Deployments'
    <3> SUFFICES ASSUME NEW j \in 1 .. Len(scripts), scripts'[j].live,
                        scripts'[j].part = "deploy"
                 PROVE  Under(j)'
      BY <2>4 DEF Deployments
    <3>1. j # i /\ scripts'[j] = scripts[j] /\ Under(j)
      BY <2>2, <2>4 DEF HookInv, Deployments
    <3> QED
      BY <2>3, <3>1 DEF Under, HookInv, Numbered
  <2> QED
    BY <2>4, <2>5, <2>6 DEF HookInv
<1> QED
  BY <1>3, <1>4, <1>5, <1>6

\* Every step of the deployer, the runs and the containers keeps the hook.
LEMMA HookStep == ASSUME HookInv, [Next]_vars PROVE HookInv'
<1>1. /\ part \in Parts /\ Runs /\ Len(scripts) \in Nat
      /\ DOMAIN scripts = 1 .. Len(scripts)
  BY DEF HookInv, Runs
<1>2. ASSUME part' \in Parts, UNCHANGED remote PROVE HookInv'
  BY <1>1, <1>2, FilesStay DEF NoFileTouched, remote, Runs
<1>3. CASE Deployer
  BY <1>1, <1>2, <1>3 DEF Deployer, Prepare, HandleProperties, Finish, Retry, AfterDelay,
                          Result, Start, Parts
<1>4. CASE Timers \/ CannotAttach \/ ConnectFails \/ ConnectionBreaks \/ OutputArrives
           \/ Chatter \/ ExitArrives \/ Restart
  BY <1>1, <1>2, <1>4 DEF Timers, Watchdog, HardTimeout, Killed, CannotAttach, ConnectFails,
                          ConnectionBreaks, OutputArrives, Chatter, ExitArrives, Restart,
                          SetProc
<1>5. CASE Connect
  <2>1. Started \in Run(Started) /\ Started.step = 0
    BY <1>1 DEF Started, Run
  <2>2. /\ scripts' = Append(scripts, Started) /\ UNCHANGED <<files, names, hook, part>>
    BY <1>5 DEF Connect
  <2>3. /\ Runs' /\ Len(scripts') = Len(scripts) + 1
        /\ scripts'[Len(scripts) + 1] = Started
        /\ \A i \in 1 .. Len(scripts) : scripts'[i] = scripts[i]
    BY <1>1, <2>1, <2>2, OneMore
  <2>4. NoFileTouched
    BY <1>1, <2>1, <2>2, <2>3 DEF NoFileTouched
  <2> QED
    BY <2>4, FilesStay
<1>6. ASSUME NEW i \in 1 .. Len(scripts), Script(i) PROVE HookInv'
  <2>1. scripts[i] \in Run(scripts[i])
    BY <1>1 DEF Runs
  <2>2. CASE ShellStarts(i)
    <3>s. PICK s : s = [scripts[i] EXCEPT !.printed = 1]
      OBVIOUS
    <3>1. /\ s = [scripts[i] EXCEPT !.printed = 1] /\ s \in Run(s)
          /\ s.part = scripts[i].part /\ s.step = scripts[i].step
          /\ s.live = scripts[i].live /\ s.exit = scripts[i].exit
      BY <3>s, <2>1, PrintingRuns
    <3> QED
      BY <2>2, <3>1, FilesStayBeside DEF ShellStarts
  <2>3. CASE Prints(i)
    <3>1. PICK w \in BOOLEAN :
                   SetScript(i, [scripts[i] EXCEPT !.printed = 2, !.whole = w])
      BY <2>3 DEF Prints
    <3>t. PICK t : t = [scripts[i] EXCEPT !.printed = 2]
      OBVIOUS
    <3>s. PICK s : s = [t EXCEPT !.whole = w]
      OBVIOUS
    <3>u. /\ t \in Run(t) /\ t.part = scripts[i].part /\ t.step = scripts[i].step
          /\ t.live = scripts[i].live /\ t.exit = scripts[i].exit
      BY <2>1, <3>t, PrintingRuns
    <3>v. s = [scripts[i] EXCEPT !.printed = 2, !.whole = w]
      BY <3>s, <3>t
    <3>2. /\ s \in Run(s) /\ s.part = t.part /\ s.step = t.step
          /\ s.live = t.live /\ s.exit = t.exit
      BY <3>s, <3>u, WholeRuns
    <3> QED
      <4>1. SetScript(i, s) /\ UNCHANGED <<files, names, hook>>
        BY <2>3, <3>1, <3>v DEF Prints, SetScript
      <4> QED
        BY <3>2, <3>u, <4>1, FilesStayBeside
  <2>4. CASE Ends(i)
    <3>1. PICK code \in {0, 1, 255} : SetScript(i, Exits(scripts[i], code))
      BY <2>4 DEF Ends
    <3>s. PICK s : s = Exits(scripts[i], code)
      OBVIOUS
    <3>2. s = Exits(scripts[i], code) /\ s \in Run(s) /\ ~s.live
      BY <3>s, <2>1, EndsAreRuns
    <3> QED
      <4>1. SetScript(i, s) /\ UNCHANGED <<files, names, hook>>
        BY <2>4, <3>1, <3>2 DEF Ends, SetScript
      <4> QED
        BY <3>2, <4>1, FilesStayBeside
  <2>5. CASE EndsUnheard(i)
    <3>t. PICK t : t = [scripts[i] EXCEPT !.printed = 0]
      OBVIOUS
    <3>s. PICK s : s = [t EXCEPT !.step = 0]
      OBVIOUS
    <3>u. t \in Run(t)
      BY <2>1, <3>t, PrintingRuns
    <3>1. s = [scripts[i] EXCEPT !.printed = 0, !.step = 0] /\ s \in Run(s)
      BY <3>s, <3>t, <3>u, FirstStepOfARun
    <3>r. PICK r : r = Exits(s, 1)
      OBVIOUS
    <3>2. r = Exits(s, 1) /\ r \in Run(r) /\ ~r.live
      BY <3>r, <3>1, EndsAreRuns
    <3>3. SetScript(i, r) /\ UNCHANGED <<files, names, hook>>
      BY <2>5, <3>1, <3>2 DEF EndsUnheard, SetScript
    <3> QED
      BY <3>2, <3>3, FilesStayBeside
  <2>6. CASE OpenTemporary(i) \/ WriteTemporary(i) \/ MakeExecutable(i) \/ MoveIntoPlace(i)
    BY <2>6, DeploymentsGoOn
  <2> QED
    BY <1>6, <2>2, <2>3, <2>4, <2>5, <2>6 DEF Script
<1>7. ASSUME NEW c \in Containers, ContainerChanges(c) PROVE HookInv'
  <2> DEFINE Stopped(i) == scripts[i].live /\ scripts[i].vm = c /\ mode # "test"
                           /\ c \notin running'
  <2>1. /\ scripts' = [i \in 1 .. Len(scripts) |->
                         IF Stopped(i) THEN Exits(scripts[i], 1) ELSE scripts[i]]
        /\ UNCHANGED <<files, names, hook, part>>
    BY <1>1, <1>7 DEF ContainerChanges
  <2>2. Runs' /\ Len(scripts') = Len(scripts)
    BY <1>1, <2>1, FunctionsAreSequences, EndsAreRuns DEF Runs
  <2>3. \A i \in 1 .. Len(scripts) : scripts'[i].live => scripts'[i] = scripts[i]
    BY <1>1, <2>1, EndsAreRuns DEF Runs
  <2>4. NoFileTouched
    BY <1>1, <2>1, <2>2, <2>3 DEF NoFileTouched
  <2> QED
    BY <2>4, FilesStay
<1>8. CASE UNCHANGED vars
  BY <1>1, <1>2, <1>8 DEF vars
<1> QED
  BY <1>1, <1>3, <1>4, <1>5, <1>6, <1>7, <1>8 DEF Next

LEMMA BeginsWhole == ASSUME Init PROVE HookInv
<1>1. Len(scripts) = 0 /\ DOMAIN scripts = {} /\ scripts = << >>
  BY DEF Init
<1>2. Runs
  BY <1>1 DEF Runs
<1> QED
  BY <1>1, <1>2 DEF Init, HookInv, Numbered, Deployments, HookIsWhole, Files, Parts

\* A hook under its name is a complete and executable file, whatever the connections
\* and the container did to the scripts that put it there, and however many of them
\* are still at it (ve-execution-command-processor.mts:584-600).
THEOREM HookStaysWhole == Spec => []HookIsWhole
<1>1. Init => HookInv
  BY BeginsWhole
<1>2. HookInv /\ [Next]_vars => HookInv'
  BY HookStep
<1>3. HookInv => HookIsWhole
  BY DEF HookInv
<1> QED
  BY <1>1, <1>2, <1>3, PTL DEF Spec

----------------------------------------------------------------------------
(* The values of the variables.                                            *)

\* What is put into the place of a variable that an output sets.
LEMMA OutputsAreRead ==
    ASSUME NEW s, NEW v, NEW k, v \in DOMAIN s.outputs, s.outputs[v] = {Word(k)},
           Entries(s, v) = {}
    PROVE  ReplaceVars(s, {Mention(v)}) = {Word(k)}
<1>1. Mention(v)[1] = "mention" /\ Mention(v)[2] = v /\ Word(k)[1] = "word"
  BY DEF Mention, Word
<1>2. Mentions({Mention(v)}) = {Mention(v)} /\ Mentions({Word(k)}) = {}
  BY <1>1 DEF Mentions
<1>3. v \in Known(s) /\ Lookup(s, v) = {Word(k)}
  BY DEF Known, Lookup
<1>4. Replacement(s, v, NotDefined) = {Word(k)}
  BY <1>3 DEF Replacement
<1>5. Pass(s, {Mention(v)}) = {Word(k)}
  <2>1. {Replacement(s, m[2], NotDefined) : m \in Mentions({Mention(v)})} = {{Word(k)}}
    BY <1>1, <1>2, <1>4
  <2> QED
    BY <1>2, <2>1 DEF Pass
<1> QED
  BY <1>2, <1>5 DEF ReplaceVars

\* In the place of an uploaded file is a file; all the rest stays.
LEMMA PlacesStay ==
    ASSUME NEW s, NEW known, NEW fs
    PROVE  /\ DOMAIN InPlace(s, known, fs) = DOMAIN known
           /\ InPlace(s, known, fs) =
                 [n \in DOMAIN InPlace(s, known, fs) |-> InPlace(s, known, fs)[n]]
           /\ \A n \in DOMAIN known \ fs : InPlace(s, known, fs)[n] = known[n]
BY DEF InPlace

LEMMA FilesAreResolved ==
    ASSUME NEW s, s \in Scope(s), NEW fs, NEW r, r = ResolveBase64Inputs(s, fs)
    PROVE  /\ r \in Scope(r) /\ Known(r) = Known(s)
           /\ r.outputs = [n \in DOMAIN r.outputs |-> r.outputs[n]]
           /\ DOMAIN r.outputs = DOMAIN s.outputs
           /\ \A n \in DOMAIN s.outputs \ fs : r.outputs[n] = s.outputs[n]
<1>1. PICK one : one = [s EXCEPT !.inputs = InPlace(s, @, fs)]
  OBVIOUS
<1>2. PICK two : two = [one EXCEPT !.outputs = InPlace(one, @, fs)]
  OBVIOUS
<1>3. r = [two EXCEPT !.defaults = InPlace(two, @, fs)]
  BY <1>1, <1>2 DEF ResolveBase64Inputs
<1>4. one \in Scope(one) /\ one.outputs = s.outputs /\ one.defaults = s.defaults
      /\ one.inputs = InPlace(s, s.inputs, fs)
  BY <1>1 DEF Scope
<1>5. two \in Scope(two) /\ two.outputs = InPlace(one, s.outputs, fs)
      /\ two.inputs = one.inputs /\ two.defaults = s.defaults
  BY <1>2, <1>4 DEF Scope
<1>6. r \in Scope(r) /\ r.outputs = two.outputs /\ r.inputs = two.inputs
      /\ r.defaults = InPlace(two, s.defaults, fs)
  BY <1>3, <1>5 DEF Scope
<1> QED
  BY <1>4, <1>5, <1>6, PlacesStay DEF Known

\* Properties are set, and the outputs of other names stay.
LEMMA PropertiesAreSet ==
    ASSUME NEW s, NEW properties, NEW o, o = SetProperties(s, properties)
    PROVE  /\ o = [n \in DOMAIN o |-> o[n]]
           /\ DOMAIN s.outputs \subseteq DOMAIN o
           /\ DOMAIN o \subseteq DOMAIN s.outputs \cup DOMAIN properties
           /\ \A n \in DOMAIN s.outputs \ DOMAIN properties : o[n] = s.outputs[n]
BY DEF SetProperties

\* What a run that got everything printed is in the outputs, and what other
\* commands gave stays there.
LEMMA ResultsAreStored ==
    ASSUME scope.outputs = [n \in DOMAIN scope.outputs |-> scope.outputs[n]],
           NEW o \in Fallback
    PROVE  /\ o = [n \in DOMAIN o |-> o[n]]
           /\ DOMAIN o \subseteq DOMAIN scope.outputs \cup Command.gives
           /\ \A v \in DOMAIN scope.outputs \ Command.gives :
                 v \in DOMAIN o /\ o[v] = scope.outputs[v]
           /\ proc.got = 2 /\ scripts[proc.run].whole =>
                 \A v \in Command.gives : v \in DOMAIN o /\ o[v] = {Word(proc.run)}
<1> DEFINE p == ParseAndUpdateOutputs
<1>1. /\ p = [n \in DOMAIN p |-> p[n]]
      /\ DOMAIN p \subseteq DOMAIN scope.outputs \cup Command.gives
      /\ \A v \in DOMAIN scope.outputs \ Command.gives :
            v \in DOMAIN p /\ p[v] = scope.outputs[v]
      /\ proc.got = 2 /\ scripts[proc.run].whole =>
            \A v \in Command.gives : v \in DOMAIN p /\ p[v] = {Word(proc.run)}
  BY DEF ParseAndUpdateOutputs, Printed
<1> HIDE DEF p
<1>2. CASE o = p
  BY <1>1, <1>2
<1>3. CASE o # p
  <2>1. p = Nothing /\ o \in {Nothing, Printed}
    BY <1>3 DEF Fallback, p
  <2>2. DOMAIN p = {} /\ DOMAIN Nothing = {} /\ Nothing = [n \in {} |-> Nothing[n]]
    BY <2>1 DEF Nothing
  <2>3. DOMAIN Printed = Command.gives /\ Printed = [v \in Command.gives |-> Printed[v]]
    BY DEF Printed
  <2> QED
    BY <1>1, <2>1, <2>2, <2>3
<1> QED
  BY <1>2, <1>3

----------------------------------------------------------------------------
(* What is done stays done.                                                *)

\* Runs that ended stay as they are, and only the command at hand gets new ones.
Frozen ==
    /\ Len(scripts) \in Nat /\ Len(scripts') \in Nat /\ Len(scripts') >= Len(scripts)
    /\ \A i \in 1 .. Len(scripts) :
          /\ scripts'[i].command = scripts[i].command
          /\ scripts'[i].sees = scripts[i].sees
          /\ scripts[i].live \/ scripts'[i] = scripts[i]
    /\ \A i \in Len(scripts) + 1 .. Len(scripts') : scripts'[i].command = at

LEMMA DoneIsLast ==
    ASSUME Runs, Behind, DoneByTheLastRun, NEW c \in Counted
    PROVE  /\ done[c] \in 1 .. Len(scripts) /\ scripts[done[c]].command = c
           /\ ~scripts[done[c]].live /\ scripts[done[c]].exit = 0
           /\ c \in 1 .. at - 1
           /\ \A j \in 1 .. Len(scripts) : scripts[j].command = c => j <= done[c]
BY DEF Runs, Behind, DoneByTheLastRun, Latest, Counted

LEMMA GivesTheSame ==
    ASSUME NEW giver, NEW v, NEW c, task' = task, done'[giver] = done[giver],
           scripts'[done[giver]] = scripts[done[giver]]
    PROVE  GivesLast(giver, v, c)' <=> GivesLast(giver, v, c)
BY DEF GivesLast

LEMMA DoneStays ==
    ASSUME Runs, Runs', Behind, DoneByTheLastRun, Frozen, UNCHANGED <<task, done>>,
           at \in Nat, at' \in {at, at + 1}
    PROVE  /\ Counted' = Counted /\ Behind' /\ DoneByTheLastRun'
           /\ \A giver \in Counted : scripts'[done[giver]] = scripts[done[giver]]
           /\ \A giver \in Counted : \A v, c :
                 GivesLast(giver, v, c)' <=> GivesLast(giver, v, c)
<1>1. Counted' = Counted
  BY DEF Counted
<1>2. \A giver \in Counted : scripts'[done[giver]] = scripts[done[giver]]
  BY DoneIsLast DEF Frozen
<1>3. \A giver \in Counted : \A v, c : GivesLast(giver, v, c)' <=> GivesLast(giver, v, c)
  BY <1>2, GivesTheSame
<1>4. Behind'
  BY <1>1, <1>2, DoneIsLast DEF Behind, Frozen
<1>5. ASSUME NEW c \in Counted
      PROVE  /\ done'[c] \in Latest(c)'
             /\ ~scripts'[done'[c]].live /\ scripts'[done'[c]].exit = 0
             /\ ToldOfTheLast(done[c], c)'
  <2>1. /\ done[c] \in 1 .. Len(scripts) /\ scripts[done[c]].command = c
        /\ ~scripts[done[c]].live /\ scripts[done[c]].exit = 0 /\ c \in 1 .. at - 1
        /\ \A j \in 1 .. Len(scripts) : scripts[j].command = c => j <= done[c]
        /\ scripts'[done[c]] = scripts[done[c]] /\ done'[c] = done[c]
    BY <1>2, DoneIsLast
  <2>2. DOMAIN scripts' = 1 .. Len(scripts')
    BY DEF Runs
  <2>3. \A j \in 1 .. Len(scripts') : scripts'[j].command = c => j <= done[c]
    BY <2>1 DEF Frozen
  <2>4. done'[c] \in Latest(c)'
    BY <2>1, <2>2, <2>3 DEF Latest, Frozen
  <2>5. ToldOfTheLast(done[c], c)
    BY DEF DoneByTheLastRun
  <2>6. ToldOfTheLast(done[c], c)'
    BY <1>1, <1>3, <2>1, <2>5 DEF ToldOfTheLast
  <2> QED
    BY <2>1, <2>4, <2>6
<1>6. DoneByTheLastRun'
  BY <1>1, <1>5 DEF DoneByTheLastRun
<1> QED
  BY <1>1, <1>2, <1>3, <1>4, <1>6

\* The values are still those of the last runs, if they do not change themselves.
LEMMA ValuesStay ==
    ASSUME Runs, Runs', DoneInv, Frozen, UNCHANGED <<task, done, at, start, base, scope>>
    PROVE  Remembered'
<1>1. /\ Counted' = Counted
      /\ \A giver \in Counted : \A v, c : GivesLast(giver, v, c)' <=> GivesLast(giver, v, c)
  BY DoneStays DEF DoneInv, Progress
<1>2. Current(scope) => Current(scope)'
  BY <1>1 DEF Current
<1>3. Current(base) => Current(base)'
  BY <1>1 DEF Current
<1> QED
  BY <1>2, <1>3 DEF DoneInv, Remembered, OfTheTask

\* A step of the host: scripts run on, and containers start and stop.
LEMMA HostSteps ==
    ASSUME Runs, Runs', DoneInv, Frozen, Len(scripts') = Len(scripts),
           UNCHANGED <<task, at, phase, part, proc, scope, start, base, done>>
    PROVE  DoneInv'
<1>1. /\ Counted' = Counted /\ Behind' /\ DoneByTheLastRun'
      /\ \A giver \in Counted : \A v, c : GivesLast(giver, v, c)' <=> GivesLast(giver, v, c)
  BY DoneStays DEF DoneInv, Progress
<1>2. Progress' /\ Heard'
  BY DEF DoneInv, Progress, Heard, Frozen
<1>3. RunningTold'
  BY <1>1 DEF DoneInv, Progress, RunningTold, ToldOfTheLast, Frozen
<1> QED
  BY <1>1, <1>2, <1>3, ValuesStay DEF DoneInv

\* A step of the client.
LEMMA ClientSteps ==
    ASSUME Runs, Runs', DoneInv, proc' \in Procs, proc'.run = proc.run,
           proc'.exit = 0 => \/ proc' = proc
                             \/ /\ proc.run # 0 /\ proc'.got = scripts[proc.run].printed
                                /\ ~scripts[proc.run].live /\ scripts[proc.run].exit = 0,
           UNCHANGED <<task, at, phase, part, scripts, scope, start, base, done>>
    PROVE  DoneInv'
<1>1. Frozen
  BY DEF Runs, Frozen
<1>2. /\ Counted' = Counted /\ Behind' /\ DoneByTheLastRun'
      /\ \A giver \in Counted : \A v, c : GivesLast(giver, v, c)' <=> GivesLast(giver, v, c)
  BY <1>1, DoneStays DEF DoneInv, Progress
<1>3. Progress' /\ Heard'
  BY DEF DoneInv, Progress, Heard
<1>4. RunningTold'
  BY <1>2 DEF DoneInv, RunningTold, ToldOfTheLast
<1> QED
  BY <1>1, <1>2, <1>3, <1>4, ValuesStay DEF DoneInv

\* A run begins with the values of the last runs before it.
LEMMA RunsAreTold ==
    ASSUME Runs, Runs', part \in Parts, DoneInv, Connect
    PROVE  DoneInv'
<1>1. /\ scripts' = Append(scripts, Started) /\ Started \in Run(Started)
      /\ Started.command = at
      /\ Started.sees = [v \in Command.reads |-> ReplaceVars(scope, {Mention(v)})]
  BY DEF Connect, Started, Run
<1>2. /\ Len(scripts') = Len(scripts) + 1 /\ scripts'[Len(scripts) + 1] = Started
      /\ \A i \in 1 .. Len(scripts) : scripts'[i] = scripts[i]
      /\ Len(scripts) \in Nat
  BY <1>1, OneMore DEF Runs
<1>3. /\ UNCHANGED <<task, at, phase, part, scope, start, base, done>>
      /\ proc' = [proc EXCEPT !.run = Len(scripts) + 1] /\ phase = "run"
  BY <1>2 DEF Connect, Open, values
<1>4. Frozen
  BY <1>1, <1>2 DEF Frozen
<1>5. /\ Counted' = Counted /\ Behind' /\ DoneByTheLastRun'
      /\ \A giver \in Counted : \A v, c : GivesLast(giver, v, c)' <=> GivesLast(giver, v, c)
  BY <1>3, <1>4, DoneStays DEF DoneInv, Progress
<1>6. proc' \in Procs /\ proc'.run = Len(scripts) + 1 /\ proc'.exit = proc.exit
  BY <1>2, <1>3 DEF DoneInv, Progress, Procs
<1>7. Progress'
  BY <1>1, <1>2, <1>3, <1>6 DEF DoneInv, Progress
<1>8. Heard'
  BY <1>6 DEF DoneInv, Heard, Connect
<1>9. RunningTold'
  <2>1. at \in 1 .. Len(task.commands) /\ task \in {s.task : s \in Scenarios}
    BY <1>3 DEF DoneInv, Progress
  <2>2. ASSUME NEW v \in task.commands[at].reads, NEW giver \in Counted \cap 1 .. at - 1,
               GivesLast(giver, v, at)
        PROVE  Started.sees[v] = {Word(done[giver])}
    <3>1. v \in DOMAIN scope.outputs /\ scope.outputs[v] = {Word(done[giver])}
      BY <2>1, <2>2 DEF DoneInv, Remembered, Current, GivesLast, Progress
    <3>2. v \in task.commands[giver].gives /\ giver \in 1 .. Len(task.commands)
      BY <2>1, <2>2 DEF GivesLast, DoneInv, Progress
    <3>3. \A n \in Names(task) : ~(Len(n) = 2 /\ <<n[1]>> = v)
      BY <2>1, <3>2, OutputsArePlain
    <3>4. Entries(scope, v) = {}
      BY <3>3 DEF Entries, DoneInv, Remembered, OfTheTask
    <3>5. ReplaceVars(scope, {Mention(v)}) = {Word(done[giver])}
      BY <3>1, <3>4, OutputsAreRead
    <3> QED
      BY <1>1, <3>5 DEF Command
  <2> QED
    BY <1>2, <1>3, <1>5, <1>6, <2>2 DEF RunningTold, ToldOfTheLast
<1>10. Remembered'
  BY <1>3, <1>4, ValuesStay
<1> QED
  BY <1>5, <1>7, <1>8, <1>9, <1>10 DEF DoneInv

\* A new process, or none.
LEMMA FreshProcs ==
    /\ NewProc \in Procs /\ NewProc.run = 0 /\ NewProc.exit = -1
    /\ NoProc \in Procs /\ NoProc.run = 0 /\ NoProc.exit = -1
<1>1. NewProc \in Procs /\ NewProc.run = 0 /\ NewProc.exit = -1
  BY DEF NewProc, Procs
<1> QED
  BY <1>1 DEF NoProc, Procs

\* A step of the deployer that gives no result.
LEMMA PreparedSteps ==
    ASSUME Runs, Runs', DoneInv, UNCHANGED <<task, scripts, start, base, done>>,
           at' \in {at, at + 1}, phase' \in {"next", "run", "delay", "done", "failed"},
           phase' \in {"run", "delay"} => at' <= Len(task.commands),
           part' \in Parts,
           \/ proc' \in {NewProc, NoProc}
           \/ proc' = proc /\ proc.run = 0,
           OfTheTask(scope)', Current(scope)'
    PROVE  DoneInv'
<1>1. Frozen
  BY DEF Frozen, Runs
<1>2. /\ Counted' = Counted /\ Behind' /\ DoneByTheLastRun'
      /\ \A giver \in Counted : \A v, c : GivesLast(giver, v, c)' <=> GivesLast(giver, v, c)
  BY <1>1, DoneStays DEF DoneInv, Progress
<1>3. proc' \in Procs /\ proc'.run = 0 /\ (proc'.exit = 0 => FALSE)
  BY FreshProcs DEF DoneInv, Progress, Heard
<1>4. Progress' /\ Heard' /\ RunningTold'
  BY <1>3 DEF DoneInv, Progress, Heard, RunningTold
<1>5. OfTheTask(base)'
  BY DEF DoneInv, Remembered, OfTheTask
<1>6. at' = start' => Current(base)'
  BY <1>2 DEF DoneInv, Remembered, Current, Progress
<1> QED
  BY <1>2, <1>4, <1>5, <1>6 DEF DoneInv, Remembered

\* The deployer prepares the next command, sets properties, tries again or ends.
LEMMA DeployerSteps ==
    ASSUME Runs, Runs', part \in Parts, DoneInv,
           Prepare \/ HandleProperties \/ Finish \/ Retry \/ AfterDelay
    PROVE  DoneInv'
<1>1. /\ at \in Nat /\ task \in {s.task : s \in Scenarios} /\ Len(task.commands) \in Nat
      /\ phase # "run" => proc.run = 0
      /\ phase \in {"run", "delay"} => at <= Len(task.commands)
      /\ OfTheTask(scope) /\ Current(scope)
  BY OutputsArePlain DEF DoneInv, Progress, Remembered
<1>2. ASSUME UNCHANGED <<task, scripts, done, at, scope>>
      PROVE  OfTheTask(scope)' /\ Current(scope)'
  BY <1>1, <1>2 DEF OfTheTask, Current, Counted, GivesLast
<1>3. CASE Prepare
  <2>1. /\ UNCHANGED <<task, scripts, start, base, done, at>>
        /\ phase' \in {"run", "failed"} /\ at <= Len(task.commands) /\ phase = "next"
        /\ part' \in Parts /\ (proc' = NewProc \/ proc' = proc)
        /\ scope' = scope \/ scope' = ResolveBase64Inputs(scope, task.files)
    BY <1>3 DEF Prepare, Start, remote, Parts
  <2>2. CASE scope' = scope
    BY <1>1, <1>2, <2>1, <2>2, PreparedSteps
  <2>3. CASE scope' = ResolveBase64Inputs(scope, task.files)
    <3>1. /\ scope' \in Scope(scope') /\ Known(scope') = Known(scope)
          /\ scope'.outputs = [n \in DOMAIN scope'.outputs |-> scope'.outputs[n]]
          /\ DOMAIN scope'.outputs = DOMAIN scope.outputs
          /\ \A n \in DOMAIN scope.outputs \ task.files :
                scope'.outputs[n] = scope.outputs[n]
      BY <1>1, <2>3, FilesAreResolved DEF OfTheTask
    <3>2. OfTheTask(scope)'
      BY <1>1, <2>1, <3>1 DEF OfTheTask
    <3>3. ASSUME NEW giver \in Counted, NEW v \in task.commands[giver].gives,
                 GivesLast(giver, v, at)
          PROVE  v \in DOMAIN scope'.outputs /\ scope'.outputs[v] = {Word(done[giver])}
      <4>1. v \in DOMAIN scope.outputs /\ scope.outputs[v] = {Word(done[giver])}
        BY <1>1, <2>1, <3>3 DEF Current
      <4>2. giver \in 1 .. Len(task.commands)
        BY <1>1, <2>1 DEF DoneInv, Behind, Counted
      <4>3. v \notin task.files
        BY <1>1, <4>2, OutputsArePlain
      <4> QED
        BY <3>1, <4>1, <4>3
    <3>4. Current(scope)'
      BY <2>1, <3>3 DEF Current, Counted, GivesLast
    <3> QED
      BY <1>1, <2>1, <3>2, <3>4, PreparedSteps
  <2> QED
    BY <2>1, <2>2, <2>3
<1>4. CASE HandleProperties
  <2>1. /\ UNCHANGED <<task, scripts, start, base, done, phase, part, proc>>
        /\ at' = at + 1 /\ at <= Len(task.commands) /\ phase = "next"
        /\ scope' = [scope EXCEPT !.outputs = SetProperties(scope, Command.sets)]
    BY <1>4 DEF HandleProperties, remote
  <2>2. PICK o : o = SetProperties(scope, Command.sets)
    OBVIOUS
  <2>3. /\ scope' \in Scope(scope') /\ scope'.outputs = o
        /\ scope'.inputs = scope.inputs /\ scope'.defaults = scope.defaults
    BY <1>1, <2>1, <2>2 DEF OfTheTask, Scope
  <2>4. /\ o = [n \in DOMAIN o |-> o[n]]
        /\ DOMAIN o \subseteq DOMAIN scope.outputs \cup DOMAIN Command.sets
        /\ DOMAIN scope.outputs \subseteq DOMAIN o
        /\ \A n \in DOMAIN scope.outputs \ DOMAIN Command.sets : o[n] = scope.outputs[n]
    BY <2>2, PropertiesAreSet
  <2>5. at \in 1 .. Len(task.commands) /\ DOMAIN Command.sets \subseteq Names(task)
    BY <1>1, <2>1 DEF Names, Command, DoneInv, Progress
  <2>6. OfTheTask(scope)'
    BY <1>1, <2>1, <2>3, <2>4, <2>5 DEF OfTheTask, Known
  <2>7. ASSUME NEW giver \in Counted, NEW v \in task.commands[giver].gives,
               GivesLast(giver, v, at + 1)
        PROVE  v \in DOMAIN scope'.outputs /\ scope'.outputs[v] = {Word(done[giver])}
    <3>1. giver \in 1 .. at - 1
      BY DEF DoneInv, Behind, Counted
    <3>2. GivesLast(giver, v, at) /\ v \notin DOMAIN Command.sets
      BY <1>1, <2>7, <3>1 DEF GivesLast, Command
    <3>3. v \in DOMAIN scope.outputs /\ scope.outputs[v] = {Word(done[giver])}
      BY <1>1, <2>1, <3>2 DEF Current
    <3> QED
      BY <2>3, <2>4, <3>2, <3>3
  <2>8. Current(scope)'
    BY <2>1, <2>7 DEF Current, Counted, GivesLast
  <2>9. phase' = "next" /\ part' \in Parts /\ proc' = proc /\ proc.run = 0
    BY <1>1, <2>1
  <2> QED
    BY <1>1, <2>1, <2>6, <2>8, <2>9, PreparedSteps
<1>5. CASE Finish
  <2>1. /\ UNCHANGED <<task, scripts, start, base, done, at, scope, part, proc>>
        /\ phase' = "done" /\ phase = "next"
    BY <1>5 DEF Finish, remote, values
  <2> QED
    BY <1>1, <1>2, <2>1, PreparedSteps
<1>6. CASE Retry
  <2>1. /\ UNCHANGED <<task, scripts, start, base, done, at, scope, part>>
        /\ phase' = "delay" /\ phase = "run" /\ proc' = NoProc
    BY <1>6 DEF Retry, Ended, remote, values
  <2> QED
    BY <1>1, <1>2, <2>1, PreparedSteps
<1>7. CASE AfterDelay
  <2>1. /\ UNCHANGED <<task, scripts, start, base, done, at, scope, part>>
        /\ phase' = "run" /\ phase = "delay" /\ proc' = NewProc
    BY <1>7 DEF AfterDelay, Start, remote, values
  <2> QED
    BY <1>1, <1>2, <2>1, PreparedSteps
<1> QED
  BY <1>3, <1>4, <1>5, <1>6, <1>7

\* A restart has the values of the run of the task, or those before it.
LEMMA RestartSteps ==
    ASSUME Runs, Runs', part \in Parts, DoneInv, Restart
    PROVE  DoneInv'
<1>1. /\ at \in Nat /\ start \in Nat /\ start <= at
      /\ phase = "failed" /\ phase' = "next" /\ start' = at
      /\ UNCHANGED <<task, scripts, done, at, part, proc>>
      /\ \/ at > start /\ base' = scope /\ scope' = scope
         \/ at = start /\ base' = base /\ scope' = base
  BY DEF Restart, remote, DoneInv, Progress
<1>2. Frozen
  BY <1>1 DEF Frozen, Runs
<1>3. /\ Counted' = Counted /\ Behind' /\ DoneByTheLastRun'
      /\ \A giver \in Counted : \A v, c : GivesLast(giver, v, c)' <=> GivesLast(giver, v, c)
  BY <1>1, <1>2, DoneStays DEF DoneInv
<1>4. Progress' /\ Heard' /\ RunningTold'
  BY <1>1 DEF DoneInv, Progress, Heard, RunningTold
<1>5. Remembered'
  <2>1. CASE at > start
    BY <1>1, <1>3, <2>1 DEF DoneInv, Remembered, OfTheTask, Current
  <2>2. CASE at = start
    BY <1>1, <1>3, <2>2 DEF DoneInv, Remembered, OfTheTask, Current
  <2> QED
    BY <1>1, <2>1, <2>2
<1> QED
  BY <1>3, <1>4, <1>5 DEF DoneInv

LEMMA ToldTheSame ==
    ASSUME NEW run, NEW c, UNCHANGED <<task, scripts>>,
           Counted' \cap 1 .. c - 1 = Counted \cap 1 .. c - 1,
           \A giver \in Counted : done'[giver] = done[giver],
           \A giver \in Counted : \A v, d : GivesLast(giver, v, d)' <=> GivesLast(giver, v, d),
           ToldOfTheLast(run, c)
    PROVE  ToldOfTheLast(run, c)'
BY DEF ToldOfTheLast

\* A result of a run: the command is done, failed, or goes on with its trigger.
LEMMA ResultSteps ==
    ASSUME Runs, Runs', part \in Parts, DoneInv, Result
    PROVE  DoneInv'
<1>1. /\ at \in 1 .. Len(task.commands) /\ at \in Nat /\ Len(task.commands) \in Nat
      /\ task \in {s.task : s \in Scenarios} /\ start \in Nat /\ start <= at
      /\ OfTheTask(scope) /\ Current(scope) /\ phase = "run" /\ proc \in Procs
      /\ proc.run # 0 => /\ proc.run = Len(scripts) /\ proc.run \in 1 .. Len(scripts)
                         /\ scripts[proc.run].command = at
  BY OutputsArePlain DEF DoneInv, Progress, Remembered, Result, Ended, Procs
<1>2. PICK o \in Fallback : scope' = [scope EXCEPT !.outputs = o]
  BY DEF Result
<1>3. /\ scope' \in Scope(scope') /\ scope'.outputs = o
      /\ scope'.inputs = scope.inputs /\ scope'.defaults = scope.defaults
  BY <1>1, <1>2 DEF OfTheTask, Scope
<1>4. /\ o = [n \in DOMAIN o |-> o[n]]
      /\ DOMAIN o \subseteq DOMAIN scope.outputs \cup Command.gives
      /\ \A v \in DOMAIN scope.outputs \ Command.gives :
            v \in DOMAIN o /\ o[v] = scope.outputs[v]
      /\ proc.got = 2 /\ scripts[proc.run].whole =>
            \A v \in Command.gives : v \in DOMAIN o /\ o[v] = {Word(proc.run)}
  BY <1>1, ResultsAreStored DEF OfTheTask
<1>5. UNCHANGED <<task, scripts, start, base>>
  BY DEF Result, remote
<1>6. OfTheTask(scope)'
  <2>1. Command.gives \subseteq Names(task)
    BY <1>1 DEF Names, Command
  <2> QED
    BY <1>1, <1>3, <1>4, <1>5, <2>1 DEF OfTheTask, Known
<1>7. ASSUME NEW giver \in Counted, NEW v \in task.commands[giver].gives,
             GivesLast(giver, v, at)
      PROVE  v \in DOMAIN o /\ o[v] = {Word(done[giver])}
  <2>1. v \in DOMAIN scope.outputs /\ scope.outputs[v] = {Word(done[giver])}
    BY <1>1, <1>7 DEF Current
  <2>2. v \notin Command.gives
    BY <1>1, <1>7, DoneIsLast DEF GivesLast, Command, DoneInv
  <2> QED
    BY <1>4, <2>1, <2>2
<1>8. CASE UNCHANGED <<at, done>>
  <2>1. /\ phase' \in {"run", "failed"} /\ part' \in Parts /\ proc' \in {NewProc, NoProc}
    BY <1>1, <1>8 DEF Result, Start, Parts
  <2>2. Current(scope)'
    BY <1>3, <1>5, <1>7, <1>8 DEF Current, Counted, GivesLast
  <2> QED
    BY <1>1, <1>5, <1>6, <1>8, <2>1, <2>2, PreparedSteps
<1>9. CASE ~UNCHANGED <<at, done>>
  <2>1. /\ ~Fails /\ phase' = "next" /\ at' = at + 1 /\ proc' = NoProc /\ part' = part
        /\ done' = [c \in DOMAIN done \cup {at} |-> IF c = at THEN proc.run ELSE done[c]]
    BY <1>9 DEF Result, Start
  <2>2. /\ DOMAIN done' = DOMAIN done \cup {at} /\ done'[at] = proc.run
        /\ \A c \in DOMAIN done : c \in 1 .. at - 1 /\ done'[c] = done[c]
    BY <1>1, <2>1 DEF DoneInv, Behind
  <2>3. Counted' = Counted \cup (IF Command.target = "host" THEN {} ELSE {at})
    BY <1>5, <2>2 DEF Counted, Command
  <2>4. Command.target # "host" =>
           /\ proc.run # 0 /\ proc.got = scripts[proc.run].printed
           /\ ~scripts[proc.run].live /\ scripts[proc.run].exit = 0
    BY <2>1 DEF Fails, DoneInv, Heard
  <2>5. \A giver \in Counted : \A v, c : GivesLast(giver, v, c)' <=> GivesLast(giver, v, c)
    <3> SUFFICES ASSUME NEW giver \in Counted PROVE \A v, c :
                    GivesLast(giver, v, c)' <=> GivesLast(giver, v, c)
      OBVIOUS
    <3>1. done'[giver] = done[giver]
      BY <2>2 DEF Counted
    <3> QED
      BY <1>5, <3>1, GivesTheSame
  <2>6. Behind'
    <3>1. done' = [c \in DOMAIN done' |-> done'[c]] /\ DOMAIN done' \subseteq 1 .. at' - 1
      BY <1>1, <2>1, <2>2
    <3>2. \A c \in Counted' : done'[c] \in 1 .. Len(scripts) /\ scripts[done'[c]].command = c
      BY <1>1, <2>2, <2>3, <2>4 DEF DoneInv, Behind, Counted
    <3> QED
      BY <1>5, <3>1, <3>2 DEF Behind
  <2>7. DoneByTheLastRun'
    <3>1. \A giver \in Counted : done'[giver] = done[giver]
      BY <2>2 DEF Counted
    <3>2. ASSUME NEW c \in Counted
          PROVE  /\ done'[c] \in Latest(c)' /\ ToldOfTheLast(done[c], c)'
                 /\ ~scripts'[done'[c]].live /\ scripts'[done'[c]].exit = 0
      <4>1. /\ done'[c] = done[c] /\ done[c] \in Latest(c) /\ ToldOfTheLast(done[c], c)
            /\ ~scripts[done[c]].live /\ scripts[done[c]].exit = 0 /\ c \in 1 .. at - 1
        BY <2>2 DEF DoneInv, DoneByTheLastRun, Counted
      <4>2. Counted' \cap 1 .. c - 1 = Counted \cap 1 .. c - 1
        BY <1>1, <2>3, <4>1
      <4>3. PICK run : run = done[c]
        OBVIOUS
      <4>4. ToldOfTheLast(run, c)'
        BY <1>5, <2>5, <3>1, <4>1, <4>2, <4>3, ToldTheSame
      <4>5. ToldOfTheLast(done[c], c)'
        BY <4>1, <4>3, <4>4 DEF ToldOfTheLast
      <4> QED
        BY <1>5, <4>1, <4>5 DEF Latest
    <3>3. ASSUME Command.target # "host", NEW c, c = at
          PROVE  /\ done'[c] \in Latest(c)' /\ ToldOfTheLast(done[c], c)'
                 /\ ~scripts'[done'[c]].live /\ scripts'[done'[c]].exit = 0
      <4>1. /\ done'[c] = proc.run /\ ToldOfTheLast(proc.run, c)
            /\ ~scripts[proc.run].live /\ scripts[proc.run].exit = 0
        BY <2>2, <2>4, <3>3 DEF DoneInv, RunningTold
      <4>2. Counted' \cap 1 .. c - 1 = Counted \cap 1 .. c - 1
        BY <1>1, <2>3, <3>3
      <4>3. PICK run : run = proc.run
        OBVIOUS
      <4>4. ToldOfTheLast(run, c)'
        BY <1>5, <2>5, <3>1, <4>1, <4>2, <4>3, ToldTheSame
      <4>5. ToldOfTheLast(done[c], c)'
        BY <4>1, <4>3, <4>4 DEF ToldOfTheLast
      <4>6. proc.run \in Latest(c)
        BY <1>1, <2>4, <3>3 DEF Latest, Runs, DoneInv, Progress
      <4> QED
        BY <1>5, <4>1, <4>5, <4>6 DEF Latest
    <3> QED
      BY <2>3, <3>2, <3>3 DEF DoneByTheLastRun
  <2>8. ASSUME NEW giver \in Counted', NEW v \in task.commands[giver].gives, NEW k,
               k = at + 1, GivesLast(giver, v, k)'
        PROVE  v \in DOMAIN o /\ o[v] = {Word(done'[giver])}
    <3>1. CASE giver \in Counted
      <4>1. giver \in 1 .. at - 1 /\ done'[giver] = done[giver] /\ GivesLast(giver, v, k)
        BY <2>2, <2>5, <2>8, <3>1 DEF Counted
      <4>2. GivesLast(giver, v, at)
        BY <1>1, <2>8, <4>1 DEF GivesLast
      <4> QED
        BY <1>7, <3>1, <4>1, <4>2
    <3>2. CASE giver = at /\ Command.target # "host"
      <4>1. scripts[proc.run].printed = 2 /\ scripts[proc.run].whole /\ v \in Command.gives
        BY <1>5, <2>2, <2>8, <3>2 DEF GivesLast, Command
      <4> QED
        BY <1>4, <2>2, <2>4, <3>2, <4>1
    <3> QED
      BY <2>3, <3>1, <3>2
  <2>9. Current(scope)'
    <3> SUFFICES ASSUME NEW giver \in Counted', NEW v \in task.commands[giver].gives,
                        GivesLast(giver, v, at)'
                 PROVE  v \in DOMAIN o /\ o[v] = {Word(done'[giver])}
      BY <1>3, <1>5 DEF Current
    <3>1. PICK k : k = at + 1
      OBVIOUS
    <3>2. GivesLast(giver, v, k)'
      BY <2>1, <3>1 DEF GivesLast
    <3> QED
      BY <2>8, <3>1, <3>2
  <2>10. Progress' /\ Heard' /\ RunningTold'
    BY <1>1, <1>5, <2>1, FreshProcs DEF DoneInv, Progress, Heard, RunningTold
  <2>11. Remembered'
    <3>1. OfTheTask(base)'
      BY <1>5 DEF DoneInv, Remembered, OfTheTask
    <3>2. at' # start'
      BY <1>1, <1>5, <2>1
    <3> QED
      BY <1>6, <2>9, <3>1, <3>2 DEF Remembered
  <2> QED
    BY <2>6, <2>7, <2>10, <2>11 DEF DoneInv
<1> QED
  BY <1>8, <1>9

\* A step of a script.
LEMMA ScriptSteps ==
    ASSUME Runs, Runs', Numbered, DoneInv, NEW i \in 1 .. Len(scripts), Script(i)
    PROVE  DoneInv'
<1>1. scripts[i] \in Run(scripts[i]) /\ DOMAIN scripts = 1 .. Len(scripts)
      /\ Len(scripts) \in Nat
  BY DEF Runs
<1>2. ASSUME NEW s, SetScript(i, s), scripts[i].live, s \in Run(s),
             s.command = scripts[i].command, s.sees = scripts[i].sees
      PROVE  DoneInv'
  <2>1. scripts' = [scripts EXCEPT ![i] = s]
        /\ UNCHANGED <<task, at, phase, part, proc, scope, start, base, done>>
    BY <1>2 DEF SetScript, values
  <2>2. Len(scripts') = Len(scripts) /\ scripts'[i] = s
        /\ \A j \in 1 .. Len(scripts) : j # i => scripts'[j] = scripts[j]
    BY <1>2, <2>1, OneChanges
  <2>3. Frozen
    BY <1>1, <1>2, <2>2 DEF Frozen
  <2> QED
    BY <2>1, <2>2, <2>3, HostSteps
<1>3. ASSUME NEW code \in {0, 1, 255}, SetScript(i, Exits(scripts[i], code)), scripts[i].live
      PROVE  DoneInv'
  <2>0. PICK u : u = scripts[i]
    OBVIOUS
  <2>1. PICK s : s = Exits(u, code)
    OBVIOUS
  <2>2. s \in Run(s) /\ s.command = u.command /\ s.sees = u.sees
    <3>1. u \in Run(u)
      BY <1>1, <2>0 DEF Run
    <3>2. code \in Int
      BY <1>3
    <3>3. s \in Run(s)
      BY <2>1, <3>1, <3>2, EndsAreRuns
    <3>4. s.command = u.command /\ s.sees = u.sees
      BY <2>1, <3>1 DEF Exits, Run
    <3> QED
      BY <3>3, <3>4
  <2>3. SetScript(i, s)
    BY <1>3, <2>0, <2>1 DEF SetScript, Exits
  <2> QED
    BY <1>2, <1>3, <2>0, <2>2, <2>3
<1>4. ASSUME SetScript(i, DeployStep(i)), scripts[i].live, scripts[i].step \in 0 .. 3
      PROVE  DoneInv'
  <2>1. PICK s : s = [scripts[i] EXCEPT !.step = @ + 1]
    OBVIOUS
  <2>2. s \in Run(s) /\ s.command = scripts[i].command /\ s.sees = scripts[i].sees
    BY <1>1, <1>4, <2>1, NextStepOfARun
  <2>3. SetScript(i, s)
    BY <1>4, <2>1 DEF SetScript, DeployStep
  <2> QED
    BY <1>2, <1>4, <2>2, <2>3
<1>5. CASE ShellStarts(i)
  <2>1. PICK s : s = [scripts[i] EXCEPT !.printed = 1]
    OBVIOUS
  <2>2. s \in Run(s) /\ s.command = scripts[i].command /\ s.sees = scripts[i].sees
    BY <1>1, <2>1, PrintingRuns
  <2>3. SetScript(i, s) /\ scripts[i].live
    BY <1>5, <2>1 DEF ShellStarts, SetScript
  <2> QED
    BY <1>2, <2>2, <2>3
<1>6. CASE Prints(i)
  <2>1. PICK w \in BOOLEAN : SetScript(i, [scripts[i] EXCEPT !.printed = 2, !.whole = w])
    BY <1>6 DEF Prints
  <2>2. PICK t : t = [scripts[i] EXCEPT !.printed = 2]
    OBVIOUS
  <2>3. PICK s : s = [t EXCEPT !.whole = w]
    OBVIOUS
  <2>4. t \in Run(t) /\ t.command = scripts[i].command /\ t.sees = scripts[i].sees
    BY <1>1, <2>2, PrintingRuns
  <2>5. s \in Run(s) /\ s.command = t.command /\ s.sees = t.sees
    BY <2>3, <2>4, WholeRuns
  <2>6. SetScript(i, s) /\ scripts[i].live
    BY <1>6, <2>1, <2>2, <2>3 DEF SetScript, Prints
  <2> QED
    BY <1>2, <2>4, <2>5, <2>6
<1>7. CASE Ends(i)
  BY <1>3, <1>7 DEF Ends
<1>8. CASE EndsUnheard(i)
  <2>1. PICK t : t = [scripts[i] EXCEPT !.printed = 0]
    OBVIOUS
  <2>2. PICK s : s = [t EXCEPT !.step = 0]
    OBVIOUS
  <2>3. PICK r0 : r0 = Exits(s, 1)
    OBVIOUS
  <2>4. t \in Run(t) /\ t.command = scripts[i].command /\ t.sees = scripts[i].sees
    BY <1>1, <2>1, PrintingRuns
  <2>5. s \in Run(s) /\ s.command = t.command /\ s.sees = t.sees
    BY <2>2, <2>4, FirstStepOfARun
  <2>6. r0 \in Run(r0) /\ r0.command = s.command /\ r0.sees = s.sees
    BY <2>3, <2>5, EndsAreRuns
  <2>7. s = [scripts[i] EXCEPT !.printed = 0, !.step = 0]
    BY <2>1, <2>2
  <2>8. SetScript(i, r0) /\ scripts[i].live
    BY <1>8, <2>3, <2>7 DEF EndsUnheard, SetScript
  <2> QED
    BY <1>2, <2>4, <2>5, <2>6, <2>8
<1>9. CASE OpenTemporary(i)
  <2>1. /\ SetScript(i, [DeployStep(i) EXCEPT !.exit = i])
        /\ scripts[i].live /\ scripts[i].step = 0
    BY <1>9 DEF OpenTemporary, Deploys, TemporaryName, Numbered
  <2>2. PICK t : t = [scripts[i] EXCEPT !.step = @ + 1]
    OBVIOUS
  <2>3. PICK s : s = [t EXCEPT !.exit = i]
    OBVIOUS
  <2>4. t \in Run(t) /\ t.command = scripts[i].command /\ t.sees = scripts[i].sees
    BY <1>1, <2>1, <2>2, NextStepOfARun
  <2>5. s \in Run(s) /\ s.command = t.command /\ s.sees = t.sees
    BY <1>1, <2>3, <2>4, ExitOfARun
  <2>6. SetScript(i, s)
    BY <2>1, <2>2, <2>3 DEF SetScript, DeployStep
  <2> QED
    BY <1>2, <2>1, <2>4, <2>5, <2>6
<1>10. CASE WriteTemporary(i)
  BY <1>3, <1>4, <1>10 DEF WriteTemporary, Deploys
<1>11. CASE MakeExecutable(i)
  BY <1>3, <1>4, <1>11 DEF MakeExecutable, Deploys
<1>12. CASE MoveIntoPlace(i)
  BY <1>3, <1>12 DEF MoveIntoPlace, Deploys
<1> QED
  BY <1>5, <1>6, <1>7, <1>8, <1>9, <1>10, <1>11, <1>12 DEF Script

\* A container that stops ends what runs in it.
LEMMA ContainerSteps ==
    ASSUME Runs, Runs', DoneInv, NEW c \in Containers, ContainerChanges(c)
    PROVE  DoneInv'
<1>1. /\ DOMAIN scripts = 1 .. Len(scripts) /\ Len(scripts) \in Nat
      /\ \A i \in 1 .. Len(scripts) : scripts[i] \in Run(scripts[i])
  BY DEF Runs
<1>2. /\ scripts' = [i \in 1 .. Len(scripts) |->
                        IF scripts[i].live /\ scripts[i].vm = c /\ mode # "test"
                           /\ c \notin running'
                        THEN Exits(scripts[i], 1) ELSE scripts[i]]
      /\ UNCHANGED <<task, at, phase, part, proc, scope, start, base, done>>
  BY <1>1 DEF ContainerChanges, values
<1>3. Len(scripts') = Len(scripts)
  BY <1>1, <1>2, FunctionsAreSequences
<1>4. \A i \in 1 .. Len(scripts) :
         /\ scripts'[i].command = scripts[i].command /\ scripts'[i].sees = scripts[i].sees
         /\ scripts[i].live \/ scripts'[i] = scripts[i]
  BY <1>1, <1>2, EndsAreRuns
<1>5. Frozen
  BY <1>1, <1>3, <1>4 DEF Frozen
<1> QED
  BY <1>2, <1>3, <1>5, HostSteps

\* The client, its timers and its connection.
LEMMA ConnectionSteps ==
    ASSUME Runs, Runs', DoneInv,
           Timers \/ CannotAttach \/ ConnectFails \/ ConnectionBreaks \/ OutputArrives
             \/ Chatter \/ ExitArrives
    PROVE  DoneInv'
<1>1. proc \in Procs /\ UNCHANGED <<task, at, phase, part, scripts, scope, start, base, done>>
  BY DEF DoneInv, Progress, Timers, Watchdog, HardTimeout, Killed, CannotAttach, ConnectFails,
         ConnectionBreaks, OutputArrives, Chatter, ExitArrives, SetProc, values, remote
<1>2. \A code \in Int : /\ Close(code) \in Procs /\ Close(code).run = proc.run
                        /\ Close(code).exit = code /\ Close(code).got = proc.got
  BY <1>1 DEF Close, Procs
<1>3. ASSUME NEW code \in Int \ {0}, proc' = Close(code) PROVE DoneInv'
  BY <1>1, <1>2, <1>3, ClientSteps
<1>4. ASSUME proc' \in Procs, proc'.run = proc.run, proc'.exit = proc.exit,
             proc'.got = proc.got \/ proc.exit # 0
      PROVE  DoneInv'
  <2>1. proc'.exit = 0 => /\ proc.run # 0 /\ proc'.got = scripts[proc.run].printed
                          /\ ~scripts[proc.run].live /\ scripts[proc.run].exit = 0
    BY <1>4 DEF DoneInv, Heard
  <2> QED
    BY <1>1, <1>4, <2>1, ClientSteps
<1>5. CASE Watchdog \/ HardTimeout \/ Chatter
  <2>1. proc' \in {[proc EXCEPT !.heard = FALSE], [proc EXCEPT !.killed = TRUE],
                   [proc EXCEPT !.heard = TRUE]}
    BY <1>5 DEF Watchdog, HardTimeout, Chatter, SetProc
  <2>2. /\ proc' \in Procs /\ proc'.run = proc.run /\ proc'.exit = proc.exit
        /\ proc'.got = proc.got
    BY <1>1, <2>1 DEF Procs
  <2> QED
    BY <1>4, <2>2
<1>6. CASE OutputArrives
  <2>1. proc' = [proc EXCEPT !.got = @ + 1, !.heard = TRUE]
        /\ proc.run # 0 /\ proc.got < scripts[proc.run].printed
    BY <1>6 DEF OutputArrives, SetProc
  <2>2. scripts[proc.run].printed \in 0 .. 2
    BY <1>1, <2>1 DEF DoneInv, Progress, Runs, Run, Procs
  <2>3. proc.exit # 0
    BY <1>1, <2>1, <2>2 DEF DoneInv, Heard, Procs
  <2>4. PICK q : q = [proc EXCEPT !.got = @ + 1]
    OBVIOUS
  <2>5. q \in Procs /\ q.run = proc.run /\ q.exit = proc.exit
    BY <1>1, <2>1, <2>2, <2>4 DEF Procs
  <2>6. proc' = [q EXCEPT !.heard = TRUE]
    BY <2>1, <2>4
  <2>7. proc' \in Procs /\ proc'.run = proc.run /\ proc'.exit = proc.exit
    BY <2>5, <2>6 DEF Procs
  <2> QED
    BY <1>4, <2>3, <2>7
<1>7. CASE Killed \/ CannotAttach \/ ConnectFails \/ ConnectionBreaks
  BY <1>3, <1>7 DEF Killed, CannotAttach, ConnectFails, ConnectionBreaks, SetProc,
                    ExitOfTheKilled
<1>8. CASE ExitArrives
  <2>1. /\ proc' = Close(scripts[proc.run].exit) /\ proc.run # 0
        /\ ~scripts[proc.run].live /\ proc.got = scripts[proc.run].printed
    BY <1>8 DEF ExitArrives, SetProc
  <2>2. scripts[proc.run].exit \in Int
    BY <1>1, <2>1 DEF DoneInv, Progress, Runs, Run, Procs
  <2> QED
    BY <1>1, <1>2, <2>1, <2>2, ClientSteps
<1> QED
  BY <1>5, <1>6, <1>7, <1>8 DEF Timers

LEMMA DoneStep == ASSUME HookInv, HookInv', DoneInv, [Next]_vars PROVE DoneInv'
<1>1. Runs /\ Runs' /\ Numbered /\ part \in Parts /\ DOMAIN scripts = 1 .. Len(scripts)
  BY DEF HookInv, Runs
<1>2. CASE Deployer
  BY <1>1, <1>2, DeployerSteps, ResultSteps DEF Deployer
<1>3. CASE Timers \/ CannotAttach \/ ConnectFails \/ ConnectionBreaks \/ OutputArrives
           \/ Chatter \/ ExitArrives
  BY <1>1, <1>3, ConnectionSteps
<1>4. CASE Connect
  BY <1>1, <1>4, RunsAreTold
<1>5. CASE \E i \in DOMAIN scripts : Script(i)
  BY <1>1, <1>5, ScriptSteps
<1>6. CASE \E c \in Containers : ContainerChanges(c)
  BY <1>1, <1>6, ContainerSteps
<1>7. CASE Restart
  BY <1>1, <1>7, RestartSteps
<1>8. CASE UNCHANGED vars
  <2>1. UNCHANGED <<task, at, phase, part, proc, scripts, scope, start, base, done>>
    BY <1>8 DEF vars, values, remote
  <2>2. proc' \in Procs /\ proc'.run = proc.run
    BY <2>1 DEF DoneInv, Progress
  <2> QED
    BY <1>1, <2>1, <2>2, ClientSteps
<1> QED
  BY <1>2, <1>3, <1>4, <1>5, <1>6, <1>7, <1>8 DEF Next

\* A command counts as done by the last of its runs, which ended with 0 and all of
\* whose output was read, and which had the values that the last runs of the commands
\* before it printed, however many connections broke, attempts were repeated and
\* restarts there were (ve-execution-ssh-executor.mts:286,
\* ve-execution-state-manager.mts:30).
THEOREM LastRunsCount == Spec => []DoneByTheLastRun
<1>1. Init => HookInv /\ DoneInv
  <2> SUFFICES ASSUME Init PROVE HookInv /\ DoneInv
    OBVIOUS
  <2>1. HookInv
    BY BeginsWhole
  <2>2. PICK s \in Scenarios : task = s.task
    BY DEF Init
  <2>3. /\ Len(scripts) = 0 /\ at = 1 /\ start = 1 /\ phase = "next" /\ proc = NoProc
        /\ part = "script" /\ DOMAIN done = {} /\ done = [c \in {} |-> done[c]]
        /\ scope = [outputs |-> Nothing, inputs |-> task.inputs, defaults |-> task.defaults]
        /\ base = [scope EXCEPT !.defaults = Nothing]
    BY DEF Init
  <2>4. Counted = {}
    BY <2>3 DEF Counted
  <2>5. base = [outputs |-> Nothing, inputs |-> task.inputs, defaults |-> Nothing]
    BY <2>3
  <2>6. DOMAIN Nothing = {} /\ Nothing = [n \in {} |-> Nothing[n]]
    BY DEF Nothing
  <2>7. OfTheTask(scope) /\ OfTheTask(base)
    BY <2>3, <2>5, <2>6 DEF OfTheTask, Scope, Known, Names
  <2>8. Progress
    BY <2>2, <2>3, FreshProcs DEF Progress, Parts
  <2> QED
    BY <2>1, <2>3, <2>4, <2>7, <2>8, FreshProcs DEF DoneInv, Heard, Remembered, Current,
       Behind, RunningTold, DoneByTheLastRun
<1>2. HookInv /\ DoneInv /\ [Next]_vars => HookInv' /\ DoneInv'
  BY HookStep, DoneStep
<1>3. DoneInv => DoneByTheLastRun
  BY DEF DoneInv
<1> QED
  BY <1>1, <1>2, <1>3, PTL DEF Spec
===============================================================================

------------------------------- MODULE ScriptRun -------------------------------
(***************************************************************************)
(* How the commands of a task reach the host and the containers: the ssh   *)
(* client with its timers and retries, the script at the other end, what   *)
(* comes back of its output (ve-execution-ssh-executor.mts,                *)
(* spawn-utils.mts, output-processor.mts), the choice of the container     *)
(* (ve-execution-command-processor.mts, ve-execution-host-discovery.mts)   *)
(* and the file a hook is put into.                                        *)
(*                                                                         *)
(* A task is [commands, inputs, defaults, files, context]: what the user   *)
(* gave and the defaults (see Variables), which of them are uploaded       *)
(* files, the container stored for a host name, if any, and commands       *)
(* [target, reads, gives, sets, trigger], where the target is "ve", "lxc", *)
(* "hook", "host", "application" or "properties"; `reads' are the          *)
(* variables of the script, `gives' its outputs and `sets' properties.     *)
(* A run of a script is numbered by its place in `scripts' and prints its  *)
(* number for each of its outputs.  Of what it prints, 1 is the marker of  *)
(* its shell, and 2 everything.                                            *)
(***************************************************************************)
EXTENDS Variables

CONSTANTS
    Scenarios,   \* [mode, task, deployed, budget]: deployed says whether there is a
                 \* hook; the budget bounds lost connections and failed attempts to
                 \* connect (breaks), restarts and changes of a container (changes)
    Containers,  \* of one application
    MaxRetries

ASSUME RetriesAreFinite == MaxRetries \in Nat \ {0}

Names(t) ==
    DOMAIN t.inputs \cup DOMAIN t.defaults
        \cup UNION {t.commands[c].gives \cup DOMAIN t.commands[c].sets :
                       c \in 1 .. Len(t.commands)}

\* What a command gives is neither an uploaded file nor has it the name of a list.
ASSUME OutputsArePlain ==
    \A s \in Scenarios :
        /\ Len(s.task.commands) \in Nat
        /\ \A c \in 1 .. Len(s.task.commands) : \A v \in s.task.commands[c].gives :
              /\ v \notin s.task.files
              /\ \A n \in Names(s.task) : ~(Len(n) = 2 /\ <<n[1]>> = v)

VARIABLES
    mode,      \* "production" or "test", where "sh" takes the place of ssh
    task,
    at,        \* the one that runs
    phase,     \* "next", "run", "delay", "done" or "failed"
    vm,        \* where it runs: "ve" or a container
    part,      \* "script", "deploy" or "trigger"
    tries,     \* attempts that did not reach a shell
    proc,      \* the child process: see NewProc
    scripts,   \* the runs: see Started
    scope,     \* the values of the variables
    start,     \* the command this run of the task began with
    base,      \* the values that a restart falls back to
    done,      \* command -> the run that counts
    files,     \* the hook's files: run that created it -> [whole, exec]
    names,     \* temporary name -> file
    hook,      \* {} or {the file under the hook's name}
    running,   \* containers
    budget     \* [breaks, changes]

remote == <<scripts, files, names, hook, running>>
values == <<scope, start, base>>
vars == <<mode, task, at, phase, vm, part, tries, proc, values, done, remote, budget>>

Command == task.commands[at]
Spend(what) == budget[what] > 0 /\ budget' = [budget EXCEPT ![what] = @ - 1]

----------------------------------------------------------------------------
(* Targets.                                                                *)

HasVmId ==
    \/ <<"vm_id">> \in DOMAIN scope.inputs \cup DOMAIN scope.outputs
    \/ <<"previous_vm_id">> \in DOMAIN scope.inputs

TheContainer == CHOOSE c \in Containers : TRUE

\* The containers a command may mean; it fails unless there is exactly one.
Meant(command) ==
    CASE command.target = "ve"             -> {"ve"}
      [] command.target \in {"lxc", "hook"} -> IF HasVmId THEN {TheContainer} ELSE {}
      [] command.target = "host"           -> task.context
      [] command.target = "application"    -> running

----------------------------------------------------------------------------
(* The child process and its timers.                                       *)

\* `run' is 0 until the connection stands; `heard' says whether there was
\* output since the watchdog looked.
NewProc == [run |-> 0, got |-> 0, heard |-> TRUE, killed |-> FALSE, closed |-> FALSE,
            exit |-> -1]
NoProc == [NewProc EXCEPT !.closed = TRUE]

Open == phase = "run" /\ ~proc.closed

Start(p) == proc' = NewProc /\ phase' = "run" /\ part' = p

Prepare ==
    /\ phase = "next" /\ at <= Len(task.commands) /\ Command.target # "properties"
    /\ tries' = 0
    /\ scope' = IF Command.target = "host" THEN scope
                ELSE ResolveBase64Inputs(scope, task.files)
    /\ IF Cardinality(Meant(Command)) = 1
       THEN /\ vm' \in Meant(Command)
            /\ Start(IF Command.target = "hook" THEN "deploy" ELSE "script")
       ELSE phase' = "failed" /\ UNCHANGED <<vm, part, proc>>
    /\ UNCHANGED <<mode, task, at, start, base, done, remote, budget>>

\* Properties become outputs without a script.
HandleProperties ==
    /\ phase = "next" /\ at <= Len(task.commands) /\ Command.target = "properties"
    /\ scope' = [scope EXCEPT !.outputs = SetProperties(scope, Command.sets)]
    /\ at' = at + 1
    /\ UNCHANGED <<mode, task, phase, vm, part, tries, proc, start, base, done, remote,
                   budget>>

Finish ==
    /\ phase = "next" /\ at > Len(task.commands)
    /\ phase' = "done"
    /\ UNCHANGED <<mode, task, at, vm, part, tries, proc, values, done, remote, budget>>

\* The signal stops the client; the script at the other end is not told.
SetProc(p) ==
    /\ proc' = p
    /\ UNCHANGED <<mode, task, at, phase, vm, part, tries, values, done, remote, budget>>

Close(code) == [proc EXCEPT !.closed = TRUE, !.exit = code]

Watchdog ==
    /\ Open /\ ~proc.killed
    /\ SetProc(IF proc.heard THEN [proc EXCEPT !.heard = FALSE]
               ELSE [proc EXCEPT !.killed = TRUE])

\* Mutant: the long timeout is put off by output, too.
HardTimeout_Idle ==
    /\ Open /\ ~proc.killed /\ ~proc.heard
    /\ SetProc([proc EXCEPT !.killed = TRUE])

HardTimeout ==
    /\ Open /\ ~proc.killed
    /\ SetProc([proc EXCEPT !.killed = TRUE])

\* Mutant: a process that died of a signal has no exit code, which counts as 0.
ExitOfTheKilled_Zero == 0

ExitOfTheKilled == -1

\* SIGTERM, or SIGKILL two seconds later.
Killed ==
    /\ Open /\ proc.killed
    /\ SetProc(Close(ExitOfTheKilled))

----------------------------------------------------------------------------
(* The connection.                                                         *)

\* A run: what its variables were, how far it is, what it printed, how it ended.
Started == [command |-> at, part |-> part, vm |-> vm, step |-> 0, printed |-> 0,
            live |-> TRUE, exit |-> -1, whole |-> TRUE,
            sees |-> [v \in Command.reads |-> ReplaceVars(scope, {Mention(v)})]]

\* In test mode the container is not entered.
Reachable == mode = "test" \/ vm \in running \cup {"ve"}

Connect ==
    /\ Open /\ proc.run = 0 /\ Reachable
    /\ scripts' = Append(scripts, Started)
    /\ proc' = [proc EXCEPT !.run = Len(scripts')]
    /\ UNCHANGED <<mode, task, at, phase, vm, part, tries, values, done, files, names, hook,
                   running, budget>>

\* lxc-attach finds no running container.
CannotAttach ==
    /\ Open /\ proc.run = 0 /\ ~Reachable
    /\ SetProc(Close(1))

ConnectFails ==
    /\ Open /\ proc.run = 0 /\ mode = "production" /\ Spend("breaks")
    /\ proc' = Close(255)
    /\ UNCHANGED <<mode, task, at, phase, vm, part, tries, values, done, remote>>

\* Nobody tells the script.
ConnectionBreaks ==
    /\ Open /\ proc.run # 0 /\ mode = "production" /\ Spend("breaks")
    /\ proc' = Close(255)
    /\ UNCHANGED <<mode, task, at, phase, vm, part, tries, values, done, remote>>

OutputArrives ==
    /\ Open /\ proc.run # 0 /\ proc.got < scripts[proc.run].printed
    /\ SetProc([proc EXCEPT !.got = @ + 1, !.heard = TRUE])

\* Progress on stderr.
Chatter ==
    /\ Open /\ proc.run # 0 /\ scripts[proc.run].live /\ ~proc.heard
    /\ SetProc([proc EXCEPT !.heard = TRUE])

\* All of the output is there before the exit code is.
ExitArrives ==
    /\ Open /\ proc.run # 0
    /\ ~scripts[proc.run].live /\ proc.got = scripts[proc.run].printed
    /\ SetProc(Close(scripts[proc.run].exit))

----------------------------------------------------------------------------
(* The script at the other end.                                            *)

SetScript(i, s) ==
    /\ scripts' = [scripts EXCEPT ![i] = s]
    /\ UNCHANGED <<mode, task, at, phase, vm, part, tries, proc, values, done, running,
                   budget>>

Exits(s, code) == [s EXCEPT !.live = FALSE, !.exit = code]

\* What a script does for nobody is left out, unless it concerns the hook.
Listened(i) == i = proc.run /\ ~proc.closed

ShellStarts(i) ==
    /\ scripts[i].live /\ scripts[i].printed = 0
    /\ Listened(i) \/ scripts[i].part = "deploy"
    /\ SetScript(i, [scripts[i] EXCEPT !.printed = 1])
    /\ UNCHANGED <<files, names, hook>>

\* What it prints need not be its outputs, or not all of them.
Prints(i) ==
    /\ scripts[i].live /\ scripts[i].part = "script" /\ scripts[i].printed = 1
    /\ Listened(i)
    /\ \E whole \in BOOLEAN :
          SetScript(i, [scripts[i] EXCEPT !.printed = 2, !.whole = whole])
    /\ UNCHANGED <<files, names, hook>>

\* A script of its own ends as it likes, 255 included.
Ends(i) ==
    /\ scripts[i].live /\ scripts[i].part # "deploy" /\ scripts[i].printed > 0
    /\ Listened(i)
    /\ \E code \in {0, 1, 255} :
          /\ (code = 0 /\ scripts[i].part = "trigger") => hook # {}
          /\ SetScript(i, Exits(scripts[i], code))
    /\ UNCHANGED <<files, names, hook>>

\* Without its connection it ends, early or not, with a code that nobody reads.
EndsUnheard(i) ==
    /\ scripts[i].live /\ ~Listened(i)
    /\ SetScript(i, Exits([scripts[i] EXCEPT !.printed = 0, !.step = 0], 1))
    /\ UNCHANGED <<files, names, hook>>

\* Mutant: every deployment writes to the same name.
TemporaryName_Shared(i) == 0

\* The name holds the number of the shell's process.
TemporaryName(i) == i

Deploys(i, step) ==
    scripts[i].live /\ scripts[i].part = "deploy" /\ scripts[i].printed = 1
        /\ scripts[i].step = step

DeployStep(i) == [scripts[i] EXCEPT !.step = @ + 1]

\* The redirection creates the file, or empties the one that is there.
OpenTemporary(i) ==
    LET name == TemporaryName(i)
        file == IF name \in DOMAIN names THEN names[name] ELSE i
    IN  /\ Deploys(i, 0)
        /\ names' = [n \in DOMAIN names \cup {name} |-> IF n = name THEN file ELSE names[n]]
        /\ files' = [f \in DOMAIN files \cup {file} |->
                        IF f # file THEN files[f]
                        ELSE [whole |-> FALSE,
                              exec  |-> f \in DOMAIN files /\ files[f].exec]]
        /\ SetScript(i, [DeployStep(i) EXCEPT !.exit = file])
        /\ UNCHANGED hook

\* `exit' holds the open file until the script ends.
WriteTemporary(i) ==
    /\ Deploys(i, 1)
    /\ \/ /\ files' = [files EXCEPT ![scripts[i].exit].whole = TRUE]
          /\ SetScript(i, DeployStep(i))
       \/ SetScript(i, Exits(scripts[i], 1)) /\ UNCHANGED files
    /\ UNCHANGED <<names, hook>>

MakeExecutable(i) ==
    /\ Deploys(i, 2)
    /\ IF TemporaryName(i) \in DOMAIN names
       THEN /\ files' = [files EXCEPT ![names[TemporaryName(i)]].exec = TRUE]
            /\ SetScript(i, DeployStep(i))
       ELSE SetScript(i, Exits(scripts[i], 1)) /\ UNCHANGED files
    /\ UNCHANGED <<names, hook>>

MoveIntoPlace(i) ==
    /\ Deploys(i, 3)
    /\ IF TemporaryName(i) \in DOMAIN names
       THEN /\ hook' = {names[TemporaryName(i)]}
            /\ names' = [n \in DOMAIN names \ {TemporaryName(i)} |-> names[n]]
            /\ SetScript(i, Exits(scripts[i], 0))
       ELSE SetScript(i, Exits(scripts[i], 1)) /\ UNCHANGED <<names, hook>>
    /\ UNCHANGED files

\* A container starts, or stops with what runs in it.
ContainerChanges(c) ==
    /\ Spend("changes")
    /\ running' = IF c \in running THEN running \ {c} ELSE running \cup {c}
    /\ scripts' = [i \in DOMAIN scripts |->
                      IF scripts[i].live /\ scripts[i].vm = c /\ mode # "test" /\ c \notin running'
                      THEN Exits(scripts[i], 1) ELSE scripts[i]]
    /\ UNCHANGED <<mode, task, at, phase, vm, part, tries, proc, values, done, files, names,
                   hook>>

----------------------------------------------------------------------------
(* What the deployer makes of it.                                          *)

Ended == phase = "run" /\ proc.closed

\* Exit code 255 without the marker: nobody ran the script.
NotReached == proc.exit = 255 /\ mode = "production" /\ proc.got = 0

\* The client is started again, with more to say.
Retry ==
    /\ Ended /\ NotReached /\ tries + 1 < MaxRetries
    /\ tries' = tries + 1 /\ phase' = "delay" /\ proc' = NoProc
    /\ UNCHANGED <<mode, task, at, vm, part, values, done, remote, budget>>

AfterDelay ==
    /\ phase = "delay" /\ Start(part)
    /\ UNCHANGED <<mode, task, at, vm, tries, values, done, remote, budget>>

Printed == [v \in Command.gives |-> {Word(proc.run)}]

\* The outputs are those of the script, if all of it arrived and it is JSON;
\* what else it is makes no difference to the task.
ParseAndUpdateOutputs ==
    IF proc.got = 2 /\ scripts[proc.run].whole
    THEN [v \in Command.gives \cup DOMAIN scope.outputs |->
             IF v \in Command.gives THEN Printed[v] ELSE scope.outputs[v]]
    ELSE scope.outputs

\* parseFallbackOutputs: while there are no outputs at all, other JSON will do.
Fallback ==
    IF proc.got = 2 /\ proc.exit = 0 /\ Command.target = "ve"
       /\ ParseAndUpdateOutputs = Nothing
    THEN {Nothing, Printed}
    ELSE {ParseAndUpdateOutputs}

\* The result of the nested task of a host's template is not read.
Fails == proc.exit # 0 /\ Command.target # "host"

Result ==
    /\ Ended /\ ~(NotReached /\ tries + 1 < MaxRetries)
    /\ \E outputs \in Fallback : scope' = [scope EXCEPT !.outputs = outputs]
    /\ IF Fails
       THEN phase' = "failed" /\ proc' = NoProc /\ UNCHANGED <<at, part, done>>
       ELSE IF part = "deploy" /\ Command.trigger
       THEN Start("trigger") /\ UNCHANGED <<at, done>>
       ELSE /\ phase' = "next" /\ at' = at + 1
            /\ done' = [c \in DOMAIN done \cup {at} |-> IF c = at THEN proc.run ELSE done[c]]
            /\ proc' = NoProc /\ UNCHANGED part
    /\ tries' = 0
    /\ UNCHANGED <<mode, task, vm, start, base, remote, budget>>

\* The task is restarted with the command that failed and the values it had by
\* then, or, if it was the first one of its run, with those that run began with.
Restart ==
    /\ phase = "failed" /\ Spend("changes")
    /\ phase' = "next"
    /\ IF at > start THEN base' = scope /\ UNCHANGED scope
       ELSE scope' = base /\ UNCHANGED base
    /\ start' = at
    /\ UNCHANGED <<mode, task, at, vm, part, tries, proc, done, remote>>

----------------------------------------------------------------------------

Init ==
    /\ \E s \in Scenarios :
          /\ mode = s.mode /\ task = s.task /\ budget = s.budget
          /\ hook = IF s.deployed THEN {0} ELSE {}
    /\ at = 1 /\ phase = "next" /\ vm = "ve" /\ part = "script" /\ tries = 0
    /\ proc = NoProc
    /\ scripts = <<>>
    /\ scope = [outputs |-> Nothing, inputs |-> task.inputs, defaults |-> task.defaults]
    /\ start = 1
    /\ base = [scope EXCEPT !.defaults = Nothing]
    /\ done = [c \in {} |-> 0]
    /\ files = [f \in hook |-> [whole |-> TRUE, exec |-> TRUE]]
    /\ names = [n \in {} |-> 0]
    /\ \E c \in Containers : running = {c}

Deployer == Prepare \/ HandleProperties \/ Finish \/ Retry \/ AfterDelay \/ Result

Timers == Watchdog \/ HardTimeout \/ Killed

Script(i) ==
    \/ ShellStarts(i) \/ Prints(i) \/ Ends(i) \/ EndsUnheard(i)
    \/ OpenTemporary(i) \/ WriteTemporary(i) \/ MakeExecutable(i) \/ MoveIntoPlace(i)

Next ==
    \/ Deployer \/ Timers
    \/ Connect \/ CannotAttach \/ ConnectFails \/ ConnectionBreaks
    \/ OutputArrives \/ Chatter \/ ExitArrives
    \/ \E i \in DOMAIN scripts : Script(i)
    \/ \E c \in Containers : ContainerChanges(c)
    \/ Restart

\* The deployer and its timers go on; the scripts and the host need not.
Fairness == WF_vars(Deployer) /\ WF_vars(Watchdog) /\ WF_vars(HardTimeout) /\ WF_vars(Killed)

Spec == Init /\ [][Next]_vars /\ Fairness

----------------------------------------------------------------------------

(* A hook under its name, which the next start of the container runs, is a *)
(* complete and executable file, although the script of a lost connection  *)
(* may still be writing when the retry deploys the same hook, and although *)
(* the container may stop between any two steps                            *)
(* (ve-execution-command-processor.mts:584).                               *)
HookIsWhole == \A f \in hook : files[f].whole /\ files[f].exec

Latest(c) == {i \in DOMAIN scripts : scripts[i].command = c
                                     /\ \A j \in DOMAIN scripts : scripts[j].command = c => j <= i}

\* The commands that are done, but for those on a host: the task does not learn
\* how these ended.
Counted == {c \in DOMAIN done : task.commands[c].target # "host"}

\* Of the commands up to c, `giver' is the last to give v, and it printed it.
\* (If c gives v itself, a restart of c has what the run that failed printed.)
GivesLast(giver, v, c) ==
    /\ v \in task.commands[giver].gives
    /\ scripts[done[giver]].printed = 2 /\ scripts[done[giver]].whole
    /\ \A d \in giver + 1 .. c :
          v \notin task.commands[d].gives \cup DOMAIN task.commands[d].sets

\* What the script was told is what the last runs of the commands before c printed.
ToldOfTheLast(run, c) ==
    \A v \in task.commands[c].reads, giver \in Counted \cap 1 .. c - 1 :
        GivesLast(giver, v, c) => scripts[run].sees[v] = {Word(done[giver])}

(* A command that counts as done was run to its end: of all the runs that  *)
(* lost connections, retries and restarts left behind it is the last one,  *)
(* it ended with 0, and its variables were what the last runs of the       *)
(* commands before it printed (ve-execution-ssh-executor.mts:286,          *)
(* ve-execution-state-manager.mts:30).                                     *)
DoneByTheLastRun ==
    \A c \in Counted :
        /\ done[c] \in Latest(c)
        /\ ~scripts[done[c]].live /\ scripts[done[c]].exit = 0
        /\ ToldOfTheLast(done[c], c)

(* Every task ends, also when a script hangs, keeps talking, never         *)
(* answers, or cannot be reached (spawn-utils.mts:94).                     *)
EveryTaskEnds == <>[](phase \in {"done", "failed"})

=============================================================================

------------------------------ MODULE MCScriptRun ------------------------------
(* A command in the container that the one before creates, a hook for a     *)
(* container that is there, and a command in the container known by its     *)
(* host name before one in the only container of an application.            *)
EXTENDS ScriptRun, TLC

To(target, reads, gives) ==
    [target |-> target, reads |-> reads, gives |-> gives, sets |-> Nothing, trigger |-> FALSE]
Hook == [To("hook", {}, {}) EXCEPT !.trigger = TRUE]
Set(properties) == [To("properties", {}, {}) EXCEPT !.sets = properties]

Task(commands) == [commands |-> commands, inputs |-> Nothing, defaults |-> Nothing,
                   files |-> {}, context |-> {}]

vm_id == <<"vm_id">>   compose_file == <<"compose_file">>   envs == <<"envs">>
volumes == <<"volumes">>

Create ==
    [Task(<<Set(envs :> {Mention(<<"port">>)} @@ <<"uid">> :> {Mention(<<"user">>)}),
            To("ve", {volumes}, {vm_id}),
            To("lxc", {vm_id, envs, compose_file}, {})>>)
       EXCEPT !.inputs = <<"volumes", "data">> :> {Word(0)}
                            @@ compose_file :> {Mention(vm_id), Mention(envs)},
              !.defaults = <<"port">> :> {Word(-2)} @@ <<"volumes", "logs">> :> {Word(-2)},
              !.files = {compose_file}]
Deploy == [Task(<<Hook>>) EXCEPT !.inputs = <<"previous_vm_id">> :> {Word(0)}]
Check(context) == [Task(<<To("host", {}, {}), To("application", {}, {})>>)
                     EXCEPT !.context = context]

Case(how, what, deployed, breaks, changes) ==
    [mode |-> how, task |-> what, deployed |-> deployed,
     budget |-> [breaks |-> breaks, changes |-> changes]]

MCScenarios ==
    {Case("production", Deploy, deployed, 1, 1) : deployed \in BOOLEAN}
    \cup {Case("production", Deploy, FALSE, 2, 0), Case("test", Deploy, FALSE, 0, 1),
          Case("production", Create, FALSE, 1, 0), Case("production", Create, FALSE, 0, 1), Case("test", Create, FALSE, 0, 1),
          Case("production", Check({}), FALSE, 0, 1),
          Case("production", Check({"a"}), FALSE, 0, 1)}
=============================================================================

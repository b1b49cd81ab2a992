-------------------------- MODULE TemplateProcessing --------------------------
(***************************************************************************)
(* From the list of a task's templates to the commands that run and the    *)
(* parameters that are asked for (templateprocessor.mts and its helpers).  *)
(*                                                                         *)
(* `files' is what the repositories answer during one load:                *)
(*    templates   name -> template [executeOn, skipIfSet, skipIfMissing,   *)
(*                parameters, commands]                                    *)
(*    scripts     name -> the variables its text uses, libraries alike     *)
(* A parameter is [id, required, default, choices, described, internal];   *)
(* `default' says whether it has one, `choices' how many values the host   *)
(* offers for it ("" when it is no enumeration).                           *)
(* A command is [kind, of, uses, outputs, properties, libraries, inside]:  *)
(* `uses' are the variables in the text of a command of that kind,         *)
(* `inside' says whether it runs in the container, {} when it does not say *)
(***************************************************************************)
EXTENDS TemplateLists

BuiltInVariables == {"application", "application_id", "application_name",
                     "task", "task_type"}

Ids(entries) == {entries[i].id : i \in DOMAIN entries}

\* Parameters as the schemas grant them.
AreParameters(entries) == IsList(entries) /\ \A i \in DOMAIN entries : "id" \in DOMAIN entries[i]

\* The schema forbids properties of a command that names a template; that such
\* a command has outputs no schema forbids, but none has any.
IsCommand(command) ==
    /\ IsList(command.outputs) /\ IsList(command.properties)
    /\ command.kind = "template" => command.outputs = <<>> /\ command.properties = <<>>

IsTemplate(template) ==
    /\ AreParameters(template.parameters)
    /\ IsList(template.commands) /\ \A c \in DOMAIN template.commands : IsCommand(template.commands[c])

Complaints(load, errors) == [load EXCEPT !.errors = @ \cup errors]
Complain(load, what) == Complaints(load, {what})

----------------------------------------------------------------------------
(* The outputs a template announces.                                       *)

\* A value or no default either makes a property an output at once; a bare
\* default only changes the parameter, at the end.
OnlyDefault(property) == property.default /\ ~property.value

Announced(template) ==
    LET Outputs(command) ==
            [i \in DOMAIN command.outputs |->
                [id |-> command.outputs[i].id, optional |-> command.outputs[i].optional,
                 late |-> FALSE]]
        Properties(command) ==
            [i \in DOMAIN command.properties |->
                [id |-> command.properties[i].id, optional |-> FALSE,
                 late |-> OnlyDefault(command.properties[i])]]
    IN  FlattenSeq([c \in DOMAIN template.commands |->
                        Outputs(template.commands[c]) \o Properties(template.commands[c])])

HasDuplicates(template) ==
    LET all == Announced(template)
    IN  \E i, j \in DOMAIN all : i # j /\ all[i].id = all[j].id

AllOutputs(template) ==
    LET all == Announced(template) IN Only(all, {o \in ToSet(all) : ~o.late})

PropertyDefaults(template) ==
    LET all  == Announced(template)
        late == Only(all, {o \in ToSet(all) : o.late})
    IN  [i \in DOMAIN late |-> [id |-> late[i].id, default |-> TRUE, required |-> {}]]

IsConditional(template) == template.skipIfSet # {} \/ template.skipIfMissing # {}

\* What an earlier template, if it is one, says about the output.
SetsIt(files, name, id) ==
    name \in DOMAIN files.templates
        => id \in Ids(Announced(files.templates[name]))
OptionalIn(files, name, id) ==
    name \in DOMAIN files.templates
        /\ \E o \in ToSet(Announced(files.templates[name])) : o.id = id /\ o.optional

MayReplace(load, files, output, template) ==
    LET earlier == load.resolved[output.id]
    IN  earlier = "user_input"
        \/ (earlier \in DOMAIN load.processed /\ ~SetsIt(files, earlier, output.id))
        \/ IsConditional(template)
        \/ (earlier \in DOMAIN load.processed /\ load.processed[earlier].conditional)
        \/ output.optional
        \/ (earlier \in DOMAIN load.processed /\ OptionalIn(files, earlier, output.id))

\* An id is announced once, so that each is judged by what was there before.
ApplyOutputs(load, files, name, template) ==
    LET outputs == ToSet(AllOutputs(template))
        refused == {o \in outputs : o.id \in DOMAIN load.resolved
                                      /\ ~MayReplace(load, files, o, template)}
        set     == [id \in {o.id : o \in outputs \ refused} |-> name]
    IN  Complaints([load EXCEPT !.resolved = Over(set, @)],
                   {<<"set twice", o.id>> : o \in refused})

\* The first parameter of the name gets the default, and the last word on
\* whether it is required.
ApplyPropertyDefaults(parameters, defaults) ==
    LET Given(i, key(_)) ==
          {d \in DOMAIN defaults :
              /\ defaults[d].id = parameters[i].id /\ key(defaults[d])
              /\ \A j \in 1 .. i - 1 : parameters[j].id # parameters[i].id}
        Defaults(i) == Given(i, LAMBDA d : d.default)
        Required(i) == Given(i, LAMBDA d : d.required # {})
    IN  [i \in DOMAIN parameters |->
            [parameters[i] EXCEPT
                !.default  = @ \/ Defaults(i) # {},
                !.required = IF Required(i) = {} THEN @
                             ELSE defaults[Max(Required(i))].required = {TRUE}]]

----------------------------------------------------------------------------
(* Skipping, parameters, and the variables of scripts and commands.        *)

\* Why a template is skipped: "no" when it is not.
ShouldSkip(load, template) ==
    LET set    == DOMAIN load.resolved \cup Ids(load.defaults)
        known  == set \cup Ids(load.parameters)
        needed == {p \in ToSet(template.parameters) :
                      p.required /\ p.id \notin template.skipIfMissing}
    IN  CASE template.skipIfSet \cap set # {} -> "property_set"
          [] template.skipIfMissing # {}
             /\ template.skipIfMissing \cap known = {}
             /\ \A p \in needed : p.id \in set       -> "all_missing"
          [] OTHER -> "no"

\* Those whose names are new, the first of each name.
ValidateAndAddParameters(load, name, template) ==
    LET all   == template.parameters
        fresh == {i \in DOMAIN all : /\ all[i].id \notin Ids(load.parameters)
                                     /\ \A j \in 1 .. i - 1 : all[j].id # all[i].id}
        added == Only([i \in DOMAIN all |-> i], fresh)
        One(p) == [p EXCEPT !.default = @ \/ p.choices = "one"]
    IN  Complaints([load EXCEPT !.parameters = @ \o [k \in DOMAIN added |-> One(all[added[k]])]],
                   {<<"no description", all[i].id>> : i \in {j \in fresh : ~all[j].described}})

CheckVariables(load, of, uses) ==
    LET known == BuiltInVariables \cup Ids(load.parameters) \cup DOMAIN load.resolved
    IN  IF uses \subseteq known THEN load ELSE Complain(load, <<"undefined variable", of>>)

ValidateScriptContent(load, files, command) ==
    IF command.of \in DOMAIN files.scripts
    THEN CheckVariables(load, command.of, files.scripts[command.of])
    ELSE Complain(load, <<"no script", command.of>>)

ValidateLibraryContent(load, files, libraries) ==
    LET missing == libraries \ DOMAIN files.libraries
        using   == {library \in libraries \ missing : files.libraries[library] # {}}
    IN  Complaints(load, {<<"no library", library>> : library \in missing}
                         \cup {<<"library with variables", library>> : library \in using})

\* The values of properties are not looked at.
VariablesOf(files, command) ==
    CASE command.kind = "script" /\ command.of \in DOMAIN files.scripts ->
           files.scripts[command.of]
      [] command.kind = "command" -> command.uses
      [] OTHER -> {}

----------------------------------------------------------------------------
(* One template and those its commands name.                               *)

\* `skipped' is "" for a command that runs, `within' its template and those
\* in which that is nested.
CommandOf(item, category, files, skipped) ==
    LET command == item.command
    IN  [template |-> item.name, within |-> item.within, category |-> category,
         skipped  |-> skipped, kind |-> command.kind, of |-> command.of,
         uses     |-> VariablesOf(files, command),
         gives    |-> Ids(command.outputs) \cup
                      {p.id : p \in {q \in ToSet(command.properties) : ~OnlyDefault(q)}}]

\* The commands of a template, to be gone through one by one.
Items(name, within, template) ==
    [c \in DOMAIN template.commands |->
        [name |-> name, within |-> within \cup {name}, command |-> template.commands[c]]]

\* Mutant: the outputs of a template that is skipped count as well.
SkipCommands_Announced(load, files, items, category, template, why) ==
    [ApplyOutputs(load, files, items[1].name, template) EXCEPT !.commands =
        @ \o [c \in DOMAIN items |-> CommandOf(items[c], category, files, why)]]

SkipCommands(load, files, items, category, template, why) ==
    [load EXCEPT !.commands =
        @ \o [c \in DOMAIN items |-> CommandOf(items[c], category, files, why)]]

AddCommand(load, files, item, category) ==
    LET command == item.command
        checked ==
          CASE command.kind = "script" ->
                 ValidateLibraryContent(ValidateScriptContent(load, files, command),
                                        files, ToSet(command.libraries))
            [] command.kind = "command" -> CheckVariables(load, item.name, command.uses)
            [] OTHER -> load
    IN  [checked EXCEPT !.commands = Append(@, CommandOf(item, category, files, ""))]

Executable(template) ==
    \E c \in ToSet(template.commands) : c.kind \in {"script", "command", "template"}

MarkProcessed(load, name, category, template) ==
    [load EXCEPT !.processed =
        With(@, name, [conditional |-> IsConditional(template), category |-> category,
                       skipped |-> ShouldSkip(load, template) # "no"])]

\* What is announced, asked for and preset before the first of the commands.
RunThrough(load, files, name, template) ==
    [ValidateAndAddParameters(ApplyOutputs(load, files, name, template), name, template)
        EXCEPT !.defaults = @ \o PropertyDefaults(template)]

\* The commands of a template that runs come before those `todo'.
Enter(load, todo, files, name, within, category) ==
    LET met      == [load EXCEPT !.visited = @ \cup {name}]
        template == files.templates[name]
        items    == Items(name, within, template)
        typed    == IF Executable(template) /\ ~template.executeOn
                    THEN Complain(met, <<"no execute_on", name>>) ELSE met
        why      == ShouldSkip(typed, template)
        noted    == MarkProcessed(typed, name, category, template)
        skipped  == SkipCommands(noted, files, items, category, template, why)
        Stop(l) == [load |-> l, todo |-> todo]
    IN  CASE name \in load.visited ->
               Stop(Complain(load, <<"endless recursion", name>>))
          [] name \notin load.visited \cup DOMAIN files.templates ->
               Stop(Complain(met, <<"no template", name>>))
          [] OTHER ->
               CASE why = "all_missing" ->
                      Stop(ValidateAndAddParameters(skipped, name, template))
                 [] why = "property_set" -> Stop(skipped)
                 [] why = "no" /\ HasDuplicates(template) ->
                      Stop(Complain(noted, <<"announced twice", name>>))
                 [] OTHER -> [load |-> RunThrough(noted, files, name, template),
                              todo |-> items \o todo]

\* One command: it is added, or it names the template to go on with.
Advance(walk, files, category) ==
    LET item == Head(walk.todo)
    IN  IF walk.todo = <<>> THEN walk
        ELSE IF item.command.kind = "template"
        THEN Enter(walk.load, Tail(walk.todo), files, item.command.of, item.within, category)
        ELSE [load |-> AddCommand(walk.load, files, item, category),
              todo |-> Tail(walk.todo)]

\* No template is entered twice: there are no more commands to go through.
Longest(files) ==
    Max({0} \cup {Len(files.templates[n].commands) : n \in DOMAIN files.templates})
MostCommands(files) == Cardinality(DOMAIN files.templates) * Longest(files)

GoThrough(entered, files, category) ==
    LET most == IF entered.todo = <<>> THEN 0 ELSE MostCommands(files)
        walk[n \in 0 .. most] ==
          IF n = 0 THEN entered ELSE Advance(walk[n - 1], files, category)
    IN  walk[most].load

ProcessTemplate(load, files, name, category) ==
    GoThrough(Enter([load EXCEPT !.visited = {}], <<>>, files, name, {}, category),
              files, category)

----------------------------------------------------------------------------
(* The whole task.                                                         *)

SkipCommandsByCategory(commands, category) ==
    [i \in DOMAIN commands |->
        IF commands[i].category = category /\ commands[i].skipped = ""
        THEN [commands[i] EXCEPT !.skipped = "look-ahead"] ELSE commands[i]]

ApplyLookaheadSkipping(commands) ==
    LET Runs(cs, category) ==
          \E c \in ToSet(cs) : c.category = category /\ c.skipped = ""
        created == IF Runs(commands, "pre_start") THEN commands
                   ELSE SkipCommandsByCategory(commands, "create_ct")
    IN  IF Runs(created, "post_start") THEN created
        ELSE SkipCommandsByCategory(created, "start")

\* Properties with a value are outputs of "application.json"; the first of
\* the commands sets them.
Prepared(application, inputs) ==
    LET valued == {p \in ToSet(application.properties) : p.value}
        late   == Only(application.properties,
                       {p \in ToSet(application.properties) : p.default \/ p.required # {}})
    IN  [parameters |-> application.parameters,
         inputs     |-> inputs,
         resolved   |-> [id \in inputs \cup {p.id : p \in valued} |->
                           IF id \in inputs THEN "user_input" ELSE "application.json"],
         commands   |-> IF valued = {} THEN <<>>
                        ELSE <<[template |-> "application.json", within |-> {}, category |-> "",
                                skipped |-> "", uses |-> {}, kind |-> "other", of |-> "",
                                gives |-> {p.id : p \in valued}]>>,
         defaults   |-> [i \in DOMAIN late |-> [id |-> late[i].id, default |-> late[i].default,
                                                required |-> late[i].required]],
         processed  |-> [n \in {} |-> {}],
         visited    |-> {},
         errors     |-> {}]

\* `list' are the task's templates; `errors' what reading the application
\* found.  A load with errors gives the caller nothing but these.
\* Once all templates are processed.
Completed(load) ==
    [load EXCEPT !.parameters = ApplyPropertyDefaults(@, load.defaults),
                 !.commands   = ApplyLookaheadSkipping(@)]

LoadApplication(application, list, files, inputs, errors) ==
    LET load[n \in 0 .. Len(list)] ==
          IF n = 0 THEN [Prepared(application, inputs) EXCEPT !.errors = errors]
          ELSE ProcessTemplate(load[n - 1], files, list[n].name, list[n].category)
    IN  Completed(load[Len(list)])

----------------------------------------------------------------------------
(* Where a parameter's value comes from, and who is asked for it.          *)

ParameterSource(load, p) ==
    CASE p.id \in DOMAIN load.resolved ->
           IF load.resolved[p.id] = "user_input" THEN "user_input" ELSE "template"
      [] p.id \notin DOMAIN load.resolved /\ p.default -> "default"
      [] OTHER -> "missing"

UnresolvedParameters(load) ==
    {p.id : p \in {q \in ToSet(load.parameters) :
        /\ ~q.internal
        /\ (q.choices # "" \/ ParameterSource(load, q) \in {"missing", "default"})}}

=============================================================================

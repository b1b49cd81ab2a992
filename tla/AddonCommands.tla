----------------------------- MODULE AddonCommands -----------------------------
(***************************************************************************)
(* What the addons of a configuration request put between the commands of  *)
(* the application (webapp-ve-addon-command-builder.mts).                  *)
(*                                                                         *)
(* An addon is [properties, notes, tasks, upgrade, check, disable]:        *)
(* `properties' are those it has a value for, `notes' says whether it has  *)
(* a key of its own in the notes, `tasks' maps installation and            *)
(* reconfigure, as far as it has them, to [pre_start, post_start], as      *)
(* `disable' is; all lists are sequences of names of shared templates.     *)
(* A plan is a sequence of [category, by, phase, kind, of, gives].         *)
(***************************************************************************)
EXTENDS TemplateLists

NotesScript == "host-update-lxc-notes-addon.py"

AddonPhases == {"pre_start", "post_start"}

AreLists(lists) == \A phase \in AddonPhases : IsList(lists[phase])
IsAddon(addon) ==
    /\ IsList(addon.check) /\ IsList(addon.upgrade) /\ AreLists(addon.disable)
    /\ \A task \in DOMAIN addon.tasks : AreLists(addon.tasks[task])

TemplatesFor(addon, task, phase) ==
    CASE phase = "check"   -> addon.check
      [] phase # "check" /\ task = "upgrade" -> addon.upgrade
      [] phase # "check" /\ task \in DOMAIN addon.tasks \ {"upgrade"} -> addon.tasks[task][phase]
      [] OTHER             -> <<>>

Step(id, phase, kind, of, gives) ==
    [category |-> "", by |-> id, phase |-> phase, kind |-> kind, of |-> of, gives |-> gives]

\* A command says where it runs, or leaves that to its template.
Inside(command, template) ==
    TRUE \in command.inside \/ (command.inside = {} /\ template.inside)

\* The commands of shared templates; a hidden application, the host itself,
\* has no container to run any of them in.
CommandsOf(files, id, phase, names, hidden) ==
    LET Of(name) ==
          IF name \notin DOMAIN files.shared THEN <<>>
          ELSE LET all      == files.shared[name].commands
                   commands == Only(all, {c \in ToSet(all) :
                                            ~(hidden /\ Inside(c, files.shared[name]))})
               IN  [c \in DOMAIN commands |->
                      Step(id, phase, IF commands[c].kind # "script" /\ commands[c].properties # <<>>
                                      THEN "properties" ELSE commands[c].kind,
                           commands[c].of,
                           {commands[c].outputs[o].id : o \in DOMAIN commands[c].outputs})]
    IN  FlattenSeq([n \in DOMAIN names |-> Of(names[n])])

\* Properties come with the first phase, when the addon has templates for it.
PropertiesCommand(addon, id, phase) ==
    IF phase = "pre_start" /\ (addon.properties # {} \/ addon.notes)
    THEN <<Step(id, "properties", "properties", id, addon.properties)>> ELSE <<>>

LoadAddonCommandsForPhase(files, ids, task, phase, hidden) ==
    LET Of(id) ==
          LET names == TemplatesFor(files.addons[id], task, phase)
          IN  IF names = <<>> THEN <<>>
              ELSE PropertiesCommand(files.addons[id], id, phase)
                   \o CommandsOf(files, id, phase, names, hidden)
        known == Only(ids, DOMAIN files.addons)
    IN  FlattenSeq([i \in DOMAIN known |-> Of(known[i])])

LoadDisableCommandsForPhase(files, ids, phase) ==
    LET known == Only(ids, DOMAIN files.addons)
    IN  FlattenSeq([i \in DOMAIN known |->
            CommandsOf(files, known[i], "disable", files.addons[known[i]].disable[phase], FALSE)])

\* Mutant: the commands go behind the one that ends the stage before the start.
FindAddonInsertionIndex_Start(plan, phase) ==
    FirstOf({i \in DOMAIN plan :
        plan[i].category \in (IF phase = "pre_start" THEN {"start"} ELSE {"replace_ct"})}, plan)

FindAddonInsertionIndex(plan, phase) ==
    FirstOf({i \in DOMAIN plan :
        plan[i].category \in (IF phase = "pre_start" THEN {"pre_start_finalize", "start"}
                              ELSE {"replace_ct"})}, plan)

InsertAll(plan, at, steps) == SubSeq(plan, 1, at - 1) \o steps \o SubSeq(plan, at, Len(plan))

\* The id of the addon, and whether it goes, for the script that follows.
AddonNotes(files, ids, phase, sets) ==
    LET Of(id) == <<Step(id, phase, "properties", id, sets),
                    Step(id, phase, "script", NotesScript, {"success"})>>
        known  == Only(ids, DOMAIN files.addons)
    IN  IF NotesScript \notin DOMAIN files.scripts THEN <<>>
        ELSE FlattenSeq([i \in DOMAIN known |-> Of(known[i])])

InsertAddonCommands(plan, files, ids, task, hidden) ==
    LET Load(phase) == LoadAddonCommandsForPhase(files, ids, task, phase, hidden)
        before  == Load("pre_start")
        values  == {s \in ToSet(before) : s.kind = "properties"}
        after   == Load("post_start")
        set     == Only(before, values) \o plan
        early   == InsertAll(set, FindAddonInsertionIndex(set, "pre_start"),
                             Only(before, ToSet(before) \ values))
        late    == InsertAll(early, FindAddonInsertionIndex(early, "post_start"), after)
        checked == late \o Load("check")
    IN  IF before \o after = <<>> \/ hidden THEN checked
        ELSE InsertAll(checked, FindAddonInsertionIndex(checked, "pre_start"),
                       AddonNotes(files, ids, "notes", {"addon_id"}))

InsertAddonDisableCommands(plan, files, ids) ==
    LET early == InsertAll(plan, FindAddonInsertionIndex(plan, "pre_start"),
                           LoadDisableCommandsForPhase(files, ids, "pre_start"))
        late  == early \o LoadDisableCommandsForPhase(files, ids, "post_start")
    IN  InsertAll(late, FindAddonInsertionIndex(late, "pre_start"),
                  AddonNotes(files, ids, "notes", {"addon_id", "addon_action"}))

----------------------------------------------------------------------------
(* A request names the addons selected, those installed, and those to be   *)
(* disabled; an application may require some.                              *)

Selected(request, required) ==
    request.selected \o Only(required, ToSet(required) \ ToSet(request.selected))

\* What a reconfiguration no longer selects is disabled.
Disabled(request, task, required) ==
    IF task # "reconfigure" \/ request.installed = <<>> THEN request.disabled
    ELSE LET kept == ToSet(Selected(request, required)) \cup ToSet(request.disabled)
             gone == request.disabled
                     \o Only(request.installed, ToSet(request.installed) \ kept)
         IN  Only(gone, ToSet(gone) \ ToSet(required))

Plan(commands, files, request, task, application) ==
    LET own    == [c \in DOMAIN commands |->
                     [category |-> commands[c].category, by |-> "", phase |-> "",
                      kind |-> commands[c].kind, of |-> commands[c].of,
                      gives |-> commands[c].gives]]
        chosen == Selected(request, application.required)
        gone   == Disabled(request, task, application.required)
        with   == IF chosen = <<>> THEN own
                  ELSE InsertAddonCommands(own, files, chosen, task, application.hidden)
    IN  IF gone = <<>> THEN with ELSE InsertAddonDisableCommands(with, files, gone)

\* An addon put into a running container by itself.
InstallPlan(files, id) ==
    (IF "reconfigure" \notin DOMAIN files.addons[id].tasks THEN <<>>
     ELSE CommandsOf(files, id, "post_start",
                     files.addons[id].tasks["reconfigure"]["post_start"], FALSE))
    \o (IF NotesScript \notin DOMAIN files.scripts THEN <<>>
        ELSE <<Step(id, "installed", "script", NotesScript, {"success"})>>)

----------------------------------------------------------------------------

Boots(plan) == {i \in DOMAIN plan : plan[i].category \in {"pre_start_finalize", "start"}}

\* In a task that starts the container, what an addon does before the start
\* is done before the volumes are released, and the rest behind the start and
\* before the container replaces its predecessor.
AddonsAtTheirStage(plan) ==
    \A i \in DOMAIN plan, j \in DOMAIN plan :
        /\ (i \in Boots(plan) /\ plan[j].phase \in {"properties", "pre_start", "notes"})
              => j < i
        /\ (i \in Boots(plan) /\ plan[j].phase = "post_start") => i < j
        /\ (plan[i].category = "replace_ct" /\ plan[j].phase = "post_start") => j < i

\* The script that writes an addon into the notes finds that addon's id set
\* last, and the order to remove it only when it is to be removed.
NotesOfTheirAddon(plan, gone) ==
    \A i \in DOMAIN plan :
        (plan[i].phase = "notes" /\ plan[i].kind = "script") =>
            /\ i > 1 /\ plan[i - 1].phase = "notes" /\ plan[i - 1].by = plan[i].by
            /\ "addon_id" \in plan[i - 1].gives
            /\ (\E j \in 1 .. i : "addon_action" \in plan[j].gives) => plan[i].by \in gone

=============================================================================

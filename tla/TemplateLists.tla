---------------------------- MODULE TemplateLists ----------------------------
(***************************************************************************)
(* Which templates a task runs, and in which order: the lists of an        *)
(* application and of those it extends, put together                       *)
(* (application-persistence-handler.mts).                                  *)
(*                                                                         *)
(* An application's own part of a task is [flat, noExtend, lists]: `flat'  *)
(* is the array form, whose templates have the category "root"; otherwise  *)
(* `lists' maps the categories it has to sequences of entries              *)
(* [name, category, start].  A task's templates are gathered in            *)
(* [list, twice], `twice' holding the names met a second time.             *)
(***************************************************************************)
EXTENDS Naturals, Sequences, SequencesExt, FiniteSetsExt

\* The elements of s that are wanted, in their order.
Only(s, wanted) == FlattenSeq([i \in DOMAIN s |-> IF s[i] \in wanted THEN <<s[i]>> ELSE <<>>])

\* What f says, and g where f says nothing.
Over(f, g) == [x \in DOMAIN f \cup DOMAIN g |-> IF x \in DOMAIN f THEN f[x] ELSE g[x]]
With(f, x, value) == Over([y \in {x} |-> value], f)

CategoryOrder == <<"image", "create_ct", "pre_start", "pre_start_finalize",
                   "start", "post_start", "replace_ct", "check">>

\* The place of a category in the order of the stages, 0 when it has none.
Rank(category) ==
    IF \E i \in DOMAIN CategoryOrder : CategoryOrder[i] = category
    THEN CHOOSE i \in DOMAIN CategoryOrder : CategoryOrder[i] = category
    ELSE 0

\* The first of the positions, or the one behind the list.
FirstOf(positions, list) == Min(positions \cup {Len(list) + 1})

\* Mutant: a template is put behind all others.
CategoryInsertIndex_Append(list, category) == Len(list) + 1

CategoryInsertIndex(list, category) ==
    IF Rank(category) = 0
    THEN Len(list) + 1
    ELSE FirstOf({i \in DOMAIN list : Rank(list[i].category) > Rank(category)}, list)

CategoryStartIndex(list, category) ==
    LET same == {i \in DOMAIN list : list[i].category = category}
    IN  IF same # {} THEN FirstOf(same, list) ELSE CategoryInsertIndex(list, category)

Names(list) == {list[i].name : i \in DOMAIN list}

IsTemplateDuplicate(task, name) == name \in Names(task.list)

AddTemplate(task, template, at) ==
    IF IsTemplateDuplicate(task, template.name)
    THEN [task EXCEPT !.twice = @ \cup {template.name}]
    ELSE [task EXCEPT !.list = InsertAt(@, at, template)]

Place(task, entry, category) ==
    LET template == [name     |-> entry.name,
                     category |-> IF entry.category = {} THEN category
                                  ELSE CHOOSE c \in entry.category : TRUE]
    IN  AddTemplate(task, template,
                    IF entry.start
                    THEN CategoryStartIndex(task.list, template.category)
                    ELSE CategoryInsertIndex(task.list, template.category))

ProcessTemplateList(task, list, category) ==
    FoldLeft(LAMBDA t, entry : Place(t, entry, category), task, list)

ByCategory(task, lists) ==
    FoldLeft(LAMBDA t, category : IF category \in DOMAIN lists
                                  THEN ProcessTemplateList(t, lists[category], category)
                                  ELSE t,
             task, CategoryOrder)

----------------------------------------------------------------------------
(* What the schemas of the files grant.                                    *)

IsList(s) == s \in Seq(ToSet(s))

Category == STRING \cup {"root"} \cup {CategoryOrder[n] : n \in DOMAIN CategoryOrder}

\* A template of a task's list, and an entry of an application's own part.
ListedTemplate == [name : STRING, category : Category]
PartEntry == [name : STRING, category : SUBSET Category, start : BOOLEAN]

IsPart(part) ==
    /\ part.flat => "root" \in DOMAIN part.lists
    /\ \A category \in DOMAIN part.lists : part.lists[category] \in Seq(PartEntry)

IsParts(parts) == DOMAIN parts \subseteq STRING /\ \A t \in DOMAIN parts : IsPart(parts[t])

----------------------------------------------------------------------------
(* `tasks' maps the tasks met so far to what was gathered for them.        *)

NoTemplates == [list |-> <<>>, twice |-> {}]

OwnPart(task, part) ==
    IF part.flat
    THEN ProcessTemplateList(task, part.lists["root"], "root")
    ELSE ByCategory(IF part.noExtend THEN [task EXCEPT !.list = <<>>] ELSE task,
                    part.lists)

OwnTemplates(tasks, parts) ==
    [t \in DOMAIN tasks \cup DOMAIN parts |->
        LET task == IF t \in DOMAIN tasks THEN tasks[t] ELSE NoTemplates
        IN  IF t \in DOMAIN parts THEN OwnPart(task, parts[t]) ELSE task]

\* The checks run at the end of every deployment task there is.
WithChecks(tasks, parts) ==
    IF "check" \notin DOMAIN parts \/ parts["check"].flat
    THEN tasks
    ELSE [t \in DOMAIN tasks |->
            IF t \in {"installation", "upgrade", "reconfigure"}
            THEN ByCategory(tasks[t], parts["check"].lists)
            ELSE tasks[t]]

ProcessTemplates(tasks, parts) == WithChecks(OwnTemplates(tasks, parts), parts)

\* The applications of the chain, the one that extends none first.
TaskTemplates(chain) == FoldLeft(ProcessTemplates, [t \in {} |-> NoTemplates], chain)

----------------------------------------------------------------------------

\* Templates whose category is a stage follow the order of the stages.
InStageOrder(list) ==
    \A i, j \in DOMAIN list :
        i < j /\ Rank(list[i].category) > 0 /\ Rank(list[j].category) > 0
            => Rank(list[i].category) <= Rank(list[j].category)

=============================================================================

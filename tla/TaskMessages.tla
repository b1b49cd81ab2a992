---------------------------- MODULE TaskMessages ----------------------------
(* One task tells a polling client how it goes (ve-execution.mts,           *)
(* ve-execution-ssh-executor.mts, webapp-ve-message-manager.mts,            *)
(* cli-progress.mts), and whoever listens at an event stream. The task runs *)
(* on the deployer the client asked ("hub")                                 *)
(* or, when the deployer replaces itself, on a clone of it: then the hub    *)
(* mirrors the clone's messages until it is stopped, and its successor      *)
(* ("new") adopts them when the clone's task is over                        *)
(* (self-upgrade-orchestrator.mts, clone-cleanup-service.mts).              *)
(*                                                                          *)
(* Every deployer counts its messages itself, so the indexes of the three   *)
(* groups have nothing to do with each other, while the client keeps one    *)
(* cursor for all of them.                                                  *)
EXTENDS MessageGroups, SequencesExt, FiniteSetsExt

CONSTANTS
    NSteps,          \* commands of the task
    NestedChoices,   \* sets of commands that may run on another host (host:...)
    Ways,            \* where the task may run: "direct", "clone"
    Moves,           \* whether the successor may answer under another URL
    EndpointStep,    \* the command that tells the successor's URL (351)
    ReplaceStep,     \* the command that stops the hub (900-replace-ct)
    FirstIndexes,    \* where the hub's message counter may stand
    MaxOthers,       \* bound: messages of other tasks of the hub
    MaxRetries,      \* failing polls in a row a client puts up with
    MaxLosses,       \* bound: polls or streams that fail though a deployer answers
    MaxBehind        \* bound: events under way when the mirror polls

Steps == 1 .. NSteps
Places == {"hub", "clone", "new"}

ASSUME StepsAssumption ==
    /\ NSteps \in Nat \ {0}
    /\ NestedChoices \subseteq SUBSET Steps
    /\ EndpointStep \in Steps /\ ReplaceStep \in Steps

ASSUME ChoicesAssumption ==
    /\ Ways \subseteq {"direct", "clone"}
    /\ Moves \subseteq BOOLEAN
    /\ FirstIndexes \subseteq Nat

ASSUME BoundsAssumption ==
    /\ MaxOthers \in Nat /\ MaxRetries \in Nat /\ MaxLosses \in Nat /\ MaxBehind \in Nat

VARIABLES
    way, nested, moves,   \* what is asked; chosen once
    viewer,       \* who follows the task: "cli" polls, "browser" listens
    wire,         \* the browser's event stream: where it ends, what is under way
    group,        \* the task's messages on each deployer
    count,        \* globalMessageIndex of each deployer
    task,         \* where the task is
    hub,          \* where the hub's part of a self-upgrade is
    mirror,       \* offset and seenIndices of mirrorCloneTaskMessages
    successor,    \* what became of the hub's successor
    client,       \* the fields of CliProgress
    got,          \* names of the messages the client was handed
    others, losses

taskVars == <<way, nested, moves, viewer, wire, group, count, task, hub, mirror,
              successor, client, got, others, losses>>

asked == <<way, nested, moves, viewer>>

----------------------------------------------------------------------------
Phases == {"waiting", "steps", "rollback", "over", "destroyed"}
HubStates == {"idle", "stage", "handoff", "mirror", "mirrored", "down"}
Results == {"polling", "success", "failure", "gaveUp"}

Event == [snapshot : BOOLEAN, messages : Seq(Message)]

MessagesTypeOK ==
    /\ viewer \in {"cli", "browser"}
    /\ wire \in [at : Places \cup {"nobody"}, events : Seq(Event)]
    /\ way \in Ways /\ nested \in NestedChoices /\ moves \in Moves
    /\ group \in [Places -> Seq(Message)]
    /\ count \in [Places -> Nat]
    /\ task \in [phase : Phases, at : 1 .. NSteps + 1, talk : BOOLEAN,
                 verdict : {"none", "Completed", "Failed"}]
    /\ hub \in HubStates
    /\ mirror \in [offset : Nat \cup {NoIndex}, seen : SUBSET Nat]
    /\ successor \in {"none", "booted", "adopted", "gaveUp"}
    /\ client \in [moved : BOOLEAN, cursor : Nat \cup {NoIndex}, gap : BOOLEAN,
                   pending : BOOLEAN, retries : 0 .. MaxRetries, silent : BOOLEAN,
                   result : Results]
    /\ got \subseteq MessageKinds \X Nat
    /\ others \in 0 .. MaxOthers
    /\ losses \in 0 .. MaxLosses

\* A browser follows a deployer that keeps its address; the other case is a
\* redirect to another page. To bound the instances, nested runs and other
\* tasks of the hub are left out when the deployer's address changes, and other
\* tasks when a browser follows a clone's task.
TaskInit ==
    /\ way \in Ways /\ nested \in NestedChoices /\ moves \in Moves
    /\ viewer \in {"cli", "browser"} /\ (viewer = "browser" => ~moves /\ nested = {})
    /\ (moves => way = "clone" /\ nested = {})
    /\ wire = [at |-> "nobody", events |-> <<>>]
    /\ group = [p \in Places |-> <<>>]
    /\ \E n \in FirstIndexes : count = [p \in Places |-> IF p = "hub" THEN n ELSE 0]
    /\ task = [phase |-> IF way = "direct" THEN "steps" ELSE "waiting",
               at |-> 1, talk |-> FALSE, verdict |-> "none"]
    /\ hub = IF way = "direct" THEN "idle" ELSE "stage"
    /\ mirror = [offset |-> NoIndex, seen |-> {}]
    /\ successor = "none"
    /\ client = [moved |-> FALSE, cursor |-> NoIndex, gap |-> FALSE, pending |-> FALSE,
                 retries |-> 0, silent |-> FALSE, result |-> "polling"]
    /\ got = {}
    /\ others = IF way = "clone" /\ (viewer = "browser" \/ moves) THEN MaxOthers ELSE 0
    /\ losses = 0

----------------------------------------------------------------------------
(* What the task says. Messages sent without an await between them reach a  *)
(* poll together, so one action says them all.                              *)

Runner == IF way = "direct" THEN "hub" ELSE "clone"

\* The n-th message from now on of deployer p.
Said(p, n, kind, step, exit, error) ==
    [kind |-> kind, step |-> step, index |-> count[p] + n, exit |-> exit,
     error |-> error, partial |-> FALSE, finished |-> kind \in {"closing", "nested"}]

Chunk(step) ==
    [kind |-> "chunk", step |-> step, index |-> NoIndex, exit |-> "open",
     error |-> FALSE, partial |-> TRUE, finished |-> FALSE]

\* notifyListeners: the stream carries each message as it came.
Notified(p, ms) ==
    IF wire.at = p
    THEN [wire EXCEPT !.events = @ \o [k \in DOMAIN ms |->
                                         [snapshot |-> FALSE, messages |-> <<ms[k]>>]]]
    ELSE wire

\* Deployer p records the messages ms, and n indexes are used up.
Says(p, ms, n) ==
    /\ group' = [group EXCEPT ![p] = RecordedAll(@, ms)]
    /\ count' = [count EXCEPT ![p] = @ + n]
    /\ wire' = Notified(p, ms)

Speaks(ms, n) ==
    /\ Says(Runner, ms, n)
    /\ UNCHANGED <<asked, hub, mirror, successor, client, got, others, losses>>

InStep == task.phase = "steps" /\ task.at <= NSteps

\* The command that replaces the hub ends behind the hub's end.
MayEnd == task.at = ReplaceStep /\ way = "clone" => hub = "down"

NextStep == task' = [task EXCEPT !.at = @ + 1, !.talk = FALSE]

\* emitPartialMessage; one chunk of output stands for all of a script.
Talks ==
    /\ InStep \/ task.phase = "rollback"
    /\ ~task.talk
    /\ Speaks(<<Chunk(IF InStep THEN task.at ELSE 0)>>, 0)
    /\ task' = [task EXCEPT !.talk = TRUE]

\* A script that succeeds, also a skipped command and one of properties only.
StepSucceeds ==
    /\ InStep /\ MayEnd /\ task.at \notin nested
    /\ Speaks(<<Said(Runner, 0, "result", task.at, "ok", FALSE)>>, 1)
    /\ NextStep

\* Its output does not validate: a warning, but the message has an error. It is
\* one object that is sent twice, with a new index the second time.
StepWarns ==
    /\ InStep /\ MayEnd /\ task.at \notin nested
    /\ Speaks(<<Said(Runner, 1, "result", task.at, "open", TRUE)>>, 2)
    /\ NextStep

\* The closing message of the nested run is passed on like its others.
NestedEnds ==
    /\ InStep /\ MayEnd /\ task.at \in nested
    /\ \E exit \in {"ok", "failed"} :
          Speaks(<<Said(Runner, 0, "nested", task.at, exit, FALSE)>>, 1)
    /\ NextStep

Fails(withRollback) ==
    task' = [task EXCEPT !.phase = IF withRollback THEN "rollback" ELSE "over",
                         !.talk = FALSE,
                         !.verdict = IF withRollback THEN @ ELSE "Failed"]

Closing(n, exit) == Said(Runner, n, "closing", 0, exit, FALSE)

\* A script ends with an error: its result, the error that was thrown, and the
\* closing message unless a rollback comes first.
StepFails ==
    /\ InStep /\ task.at \notin nested
    /\ \E rollback \in BOOLEAN :
          /\ Speaks(<<Said(Runner, 0, "result", task.at, "failed", FALSE),
                      Said(Runner, 1, "error", task.at, "open", FALSE)>>
                    \o (IF rollback THEN <<>> ELSE <<Closing(2, "failed")>>),
                    IF rollback THEN 2 ELSE 3)
          /\ Fails(rollback)

\* A command that cannot even be started.
StepBreaks ==
    /\ InStep
    /\ \E rollback \in BOOLEAN :
          /\ Speaks(<<Said(Runner, 0, "error", task.at, "open", FALSE)>>
                    \o (IF rollback THEN <<>> ELSE <<Closing(1, "failed")>>),
                    IF rollback THEN 1 ELSE 2)
          /\ Fails(rollback)

\* rollbackFailedReplacement. Its error takes the number of commands for index.
RollbackSays(n, ok) ==
    IF ok THEN <<Said(Runner, n, "rollback", 0, "ok", FALSE)>>
    ELSE <<Said(Runner, n, "rollback", 0, "failed", FALSE),
           [Said(Runner, n, "rollbackError", 0, "open", FALSE) EXCEPT !.index = NSteps]>>

LastWords(ok) == RollbackSays(0, ok) \o <<Closing(1, "failed")>>

RollbackEnds ==
    /\ task.phase = "rollback"
    /\ \E ok \in BOOLEAN : Speaks(LastWords(ok), 2)
    /\ task' = [task EXCEPT !.phase = "over", !.talk = FALSE, !.verdict = "Failed"]

Completes ==
    /\ task.phase = "steps" /\ task.at = NSteps + 1
    /\ Speaks(<<Closing(0, "ok")>>, 1)
    /\ task' = [task EXCEPT !.phase = "over", !.verdict = "Completed"]

\* Mutant: a run that starts numbers its messages from zero again.
OtherTask_Restarts ==
    /\ hub # "down" /\ others < MaxOthers
    /\ others' = others + 1
    /\ count' = [count EXCEPT !["hub"] = 0]
    /\ UNCHANGED <<asked, wire, group, task, hub, mirror, successor, client, got, losses>>

\* Another task of the hub takes a number.
OtherTask ==
    /\ hub # "down" /\ others < MaxOthers
    /\ others' = others + 1
    /\ count' = [count EXCEPT !["hub"] = @ + 1]
    /\ UNCHANGED <<asked, wire, group, task, hub, mirror, successor, client, got, losses>>

TaskStep ==
    \/ Talks \/ StepSucceeds \/ StepWarns \/ NestedEnds \/ StepFails \/ StepBreaks
    \/ RollbackEnds \/ Completes

----------------------------------------------------------------------------
(* The hub, its clone and its successor.                                    *)

\* emitStage, before the clone is asked to do the task. Of the five stages the
\* first and the last stand for all.
StageMarker ==
    /\ hub = "stage"
    /\ Says("hub", <<Said("hub", 0, "stage", 1, "ok", FALSE)>>, 1)
    /\ hub' = "handoff"
    /\ UNCHANGED <<asked, task, mirror, successor, client, got, others, losses>>

\* triggerUpgradeViaClone
TriggerClone ==
    /\ hub = "handoff" /\ task.phase = "waiting"
    /\ task' = [task EXCEPT !.phase = "steps"]
    /\ UNCHANGED <<asked, wire, group, count, hub, mirror, successor, client, got, others, losses>>

\* The last stage and the handoff message, which has no index; then the mirror
\* starts and the client gets its answer.
Handoff ==
    /\ hub = "handoff" /\ task.phase # "waiting"
    /\ Says("hub", <<Said("hub", 0, "stage", 5, "ok", FALSE),
                     [Said("hub", 0, "handoff", 0, "ok", FALSE) EXCEPT !.index = NoIndex]>>, 1)
    /\ hub' = "mirror"
    /\ UNCHANGED <<asked, task, mirror, successor, client, got, others, losses>>

\* hubMax + 1, established with the clone's first message.
Offset ==
    IF mirror.offset = NoIndex
    THEN Max({NoIndex} \cup {group["hub"][k].index : k \in DOMAIN group["hub"]}) + 1
    ELSE mirror.offset

\* Mutant: the clone's indexes are taken as they are.
Remapped_AsIs(m) == m

Remapped(m) == IF m.index = NoIndex THEN m ELSE [m EXCEPT !.index = @ + Offset]

\* One poll of the clone: what was not seen is recorded; what has no index is
\* recorded every time.
Mirrored(m, acc) ==
    IF m.index \in acc.seen THEN acc
    ELSE [group |-> Recorded(acc.group, Remapped(m)),
          told |-> Append(acc.told, Remapped(m)),
          seen |-> IF m.index = NoIndex THEN acc.seen ELSE acc.seen \cup {m.index}]

MirroredAll ==
    LET ms == group["clone"]
        upTo[n \in 0 .. Len(ms)] ==
            IF n = 0 THEN [group |-> group["hub"], told |-> <<>>, seen |-> mirror.seen]
            ELSE Mirrored(ms[n], upTo[n - 1])
    IN upTo[Len(ms)]

\* Mutant: the mirror goes on behind the closing message.
MirrorEnds_Never == FALSE

MirrorEnds == group["clone"][Len(group["clone"])].finished

MirrorPolls ==
    /\ hub = "mirror" /\ group["clone"] # <<>> /\ task.phase # "destroyed"
    /\ Len(wire.events) <= MaxBehind
    /\ group' = [group EXCEPT !["hub"] = MirroredAll.group]
    /\ wire' = Notified("hub", MirroredAll.told)
    /\ mirror' = [offset |-> Offset, seen |-> MirroredAll.seen]
    /\ hub' = IF MirrorEnds THEN "mirrored" ELSE "mirror"
    /\ UNCHANGED <<asked, count, task, successor, client, got, others, losses>>

\* What is under way when a stream breaks may be lost.
Broken(w) == {[at |-> "nobody", events |-> SubSeq(w.events, 1, n)] : n \in {0, Len(w.events)}}

\* The clone's task stops the hub; its groups are gone with it.
HubStops ==
    /\ hub \in {"mirror", "mirrored"}
    /\ task.phase = "steps" /\ task.at = ReplaceStep
    /\ hub' = "down"
    /\ group' = [group EXCEPT !["hub"] = <<>>]
    /\ wire' \in Broken(wire)
    /\ UNCHANGED <<asked, count, task, mirror, successor, client, got, others, losses>>

\* The new deployer, or after a rollback the old one again.
SuccessorBoots ==
    /\ hub = "down" /\ successor = "none"
    /\ successor' = "booted"
    /\ UNCHANGED <<asked, wire, group, count, task, hub, mirror, client, got, others, losses>>

\* waitForCloneTaskFinished, pullAndAdoptMessages; the clone is destroyed.
Adopts ==
    /\ successor = "booted"
    /\ group["clone"] # <<>> /\ group["clone"][Len(group["clone"])].finished
    /\ successor' = "adopted"
    /\ group' = [group EXCEPT !["new"] = Adopted(@, group["clone"])]
    /\ wire' = Notified("new", SubSeq(group'["new"], Len(group["new"]) + 1, Len(group'["new"])))
    /\ task' = [task EXCEPT !.phase = IF @ = "over" THEN @ ELSE "destroyed"]
    /\ UNCHANGED <<asked, count, hub, mirror, client, got, others, losses>>

\* The wait or the pull fails: nothing is adopted, and the clone is destroyed
\* although its task may still run.
AdoptionGivesUp ==
    /\ successor = "booted"
    /\ successor' = "gaveUp"
    /\ task' = [task EXCEPT !.phase = IF @ = "over" THEN @ ELSE "destroyed"]
    /\ UNCHANGED <<asked, wire, group, count, hub, mirror, client, got, others, losses>>

UpgradeStep ==
    \/ StageMarker \/ TriggerClone \/ Handoff \/ MirrorPolls
    \/ HubStops \/ SuccessorBoots \/ Adopts \/ AdoptionGivesUp

----------------------------------------------------------------------------
(* The client: CliProgress.poll.                                            *)

\* It polls once its request was answered.
Polling == viewer = "cli" /\ client.result = "polling" /\ hub \notin {"stage", "handoff"}

\* Who answers under the client's URL.
Server ==
    IF ~client.moved /\ hub # "down" THEN "hub"
    ELSE IF client.moved = moves /\ successor # "none" THEN "new" ELSE "nobody"

\* Behind a gap, with the successor's URL known, the cursor is given up.
Recovers == client.gap /\ client.pending /\ client.cursor # NoIndex

\* The messages of a batch that are looked at: the first finished one ends it.
LookedAt(g, batch) ==
    {k \in batch : \A j \in batch : j < k => ~g[j].finished}

Tells(m) == m.kind = "result" /\ m.step = EndpointStep /\ m.exit = "ok"

PollAnswered ==
    /\ Polling /\ Server # "nobody"
    /\ LET since == IF Recovers THEN NoIndex ELSE client.cursor
           g == group[Server]
           batch == Answer(g, since)
           seen == LookedAt(g, batch)
           ends == {k \in seen : g[k].finished}
       IN /\ client' =
                [client EXCEPT
                    !.cursor = Max({since} \cup {g[k].index : k \in batch}),
                    !.gap = FALSE,
                    !.retries = 0,
                    !.silent = batch = {},
                    !.pending = @ \/ \E k \in seen : Tells(g[k]),
                    !.result = IF ends = {} THEN @
                               ELSE IF \A k \in ends : g[k].exit = "ok" THEN "success"
                               ELSE "failure"]
          /\ got' = got \cup {Name(g[k]) : k \in seen}
    /\ UNCHANGED <<asked, wire, group, count, task, hub, mirror, successor, others, losses>>

\* A second failure in a row makes the client turn to the successor's URL.
Failed ==
    IF client.retries >= 1 /\ client.pending /\ moves /\ ~client.moved
    THEN [client EXCEPT !.moved = TRUE, !.cursor = NoIndex, !.retries = 0]
    ELSE IF client.retries = MaxRetries
         THEN [client EXCEPT !.gap = TRUE, !.result = "gaveUp"]
         ELSE [client EXCEPT !.gap = TRUE, !.retries = @ + 1]

PollUnanswered ==
    /\ Polling /\ Server = "nobody"
    /\ client' = Failed
    /\ UNCHANGED <<asked, wire, group, count, task, hub, mirror, successor, got, others, losses>>

\* A poll fails on its way.
PollLost ==
    /\ Polling /\ Server # "nobody" /\ losses < MaxLosses
    /\ client' = Failed
    /\ losses' = losses + 1
    /\ UNCHANGED <<asked, wire, group, count, task, hub, mirror, successor, got, others>>

\* Mutant: the cursor is only given up once the successor's URL is known.
CursorReset_Pending ==
    /\ Polling /\ client.silent /\ client.cursor # NoIndex /\ client.pending
    /\ client' = [client EXCEPT !.cursor = NoIndex, !.silent = FALSE]
    /\ UNCHANGED <<asked, wire, group, count, task, hub, mirror, successor, got, others, losses>>

\* Nothing new for CURSOR_RESET_AFTER_MS.
CursorReset ==
    /\ Polling /\ client.silent /\ client.cursor # NoIndex
    /\ client' = [client EXCEPT !.cursor = NoIndex, !.silent = FALSE]
    /\ UNCHANGED <<asked, wire, group, count, task, hub, mirror, successor, got, others, losses>>

ClientStep == PollAnswered \/ PollUnanswered \/ PollLost \/ CursorReset

----------------------------------------------------------------------------
\* A task's record begins and ends as its readers expect.  Nothing follows the
\* closing message, for the mirror and the successor look at the last message
\* only to learn that a task is over (self-upgrade-orchestrator.mts:645,
\* clone-cleanup-service.mts:209); and what the mirror brings never takes the
\* place of what the hub said itself (self-upgrade-orchestrator.mts:543).
RecordHasItsEnds ==
    /\ \A p \in Places : \A k \in DOMAIN group[p] :
          group[p][k].kind = "closing" => k = Len(group[p])
    /\ hub \in {"mirror", "mirrored"} =>
          \A n \in {1, 5} : \E k \in DOMAIN group["hub"] :
              Name(group["hub"][k]) = <<"stage", n>>
=============================================================================

--------------------------- MODULE ProcessMonitor ---------------------------
(* The page that shows a task while it runs (process-monitor.ts), and the   *)
(* event stream between it and the deployer (ve-configuration.service.ts,   *)
(* webapp-ve.mts). The stream brings all the messages there are when it is  *)
(* opened and each further one as the task said it, so the page merges them *)
(* by rules of its own, which are not those of the deployer.                *)
(*                                                                          *)
(* One task is on the page. A second group of the same application and task *)
(* (a restart, or the same task again within half an hour) is not modelled. *)
EXTENDS TaskMessages

VARIABLE page    \* [streaming, rows]: rows is empty or holds the group's messages

monitorVars == <<taskVars, page>>

MonitorInit == TaskInit /\ page = [streaming |-> viewer = "browser", rows |-> {}]

The(set) == CHOOSE x \in set : TRUE
Rows == UNION {ToSet(g) : g \in page.rows}

----------------------------------------------------------------------------
(* Merging.                                                                *)

\* What the page takes for the same command.
CommandOf(m) == <<IF m.kind \in {"stage", "handoff", "closing"} THEN m.kind ELSE "command",
                m.step>>

FirstOf(at) == IF at = {} THEN {} ELSE {CHOOSE k \in at : \A j \in at : k <= j}

Running(g, m) == FirstOf({k \in DOMAIN g : g[k].partial /\ CommandOf(g[k]) = CommandOf(m)})

SameIndex(g, m) == FirstOf({k \in DOMAIN g : m.index # NoIndex /\ g[k].index = m.index})

\* A field the message does not have stays.
Overlaid(e, m) == [m EXCEPT !.error = @ \/ e.error, !.finished = @ \/ e.finished]

MergedOne(g, m) ==
    LET running == Running(g, m)
        same == SameIndex(g, m) IN
    IF m.partial THEN IF running = {} THEN Append(g, m) ELSE g
    ELSE IF running # {} THEN [g EXCEPT ![The(running)] = m]
    ELSE IF same # {} THEN [g EXCEPT ![The(same)] = Overlaid(@, m)]
    ELSE Append(g, m)

\* A snapshot is put behind what is there, whatever of it is there already.
MergedAll(rows, g) == IF rows = {} THEN g ELSE The(rows) \o g

Bad(m) == ~m.partial /\ (m.error \/ m.exit # "ok")

InProgress(g) == \A m \in ToSet(g) : ~m.finished /\ ~Bad(m)

----------------------------------------------------------------------------
(* The stream.                                                             *)

\* What the deployer sends when it takes the connection.
Opened(p) == [at |-> p, events |-> <<[snapshot |-> TRUE, messages |-> group[p]]>>]

\* At the client's end: the first attempt, or one behind a pause.
Connects ==
    /\ page.streaming /\ wire.at = "nobody" /\ wire.events = <<>>
    /\ hub \notin {"stage", "handoff"} /\ Server # "nobody"
    /\ wire' = Opened(Server)
    /\ UNCHANGED <<page, asked, group, count, task, hub, mirror, successor, client, got,
                   others, losses>>

Breaks ==
    /\ wire.at # "nobody" /\ losses < MaxLosses
    /\ wire' \in Broken(wire) /\ losses' = losses + 1
    /\ UNCHANGED <<page, asked, group, count, task, hub, mirror, successor, client, got, others>>

Hung == [at |-> "nobody", events |-> <<>>]

\* The page takes one event; it stops listening when nothing is in progress.
Arrives ==
    /\ page.streaming /\ wire.events # <<>>
    /\ LET e == Head(wire.events)
           g == IF e.snapshot THEN MergedAll(page.rows, e.messages)
                ELSE IF page.rows = {} THEN e.messages
                ELSE MergedOne(The(page.rows), e.messages[1]) IN
       /\ page' = [streaming |-> InProgress(g), rows |-> {g}]
       /\ wire' = IF InProgress(g) THEN [wire EXCEPT !.events = Tail(@)] ELSE Hung
    /\ UNCHANGED <<asked, group, count, task, hub, mirror, successor, client, got,
                   others, losses>>

\* Another host is chosen in the page's header, or the page is loaded anew.
Reopens ==
    /\ viewer = "browser" /\ losses < MaxLosses /\ losses' = losses + 1
    /\ page' = [streaming |-> TRUE, rows |-> {}]
    /\ wire' = Hung
    /\ UNCHANGED <<asked, group, count, task, hub, mirror, successor, client, got, others>>

MonitorNext ==
    \/ (TaskStep \/ OtherTask \/ UpgradeStep \/ ClientStep) /\ UNCHANGED page
    \/ Connects \/ Breaks \/ Arrives \/ Reopens

MonitorSpec == MonitorInit /\ [][MonitorNext]_monitorVars

\* The client's loop goes on by itself; so does the browser, which connects
\* again and again.
FairSpec ==
    /\ MonitorSpec
    /\ WF_monitorVars(PollAnswered /\ UNCHANGED page) /\ WF_monitorVars(PollUnanswered /\ UNCHANGED page)
    /\ WF_monitorVars(CursorReset /\ UNCHANGED page)
    /\ WF_monitorVars(Connects) /\ WF_monitorVars(Arrives)

----------------------------------------------------------------------------
(* Properties. Most speak of tasks without nested runs: a nested run sends  *)
(* a finished message of its own while the task goes on.                    *)

Shown(exit) == \E m \in Rows : m.finished /\ m.exit = exit

\* The client reports and the page shows the verdict of its task, wherever it
\* was read and whatever was recorded in between (cli-progress.mts:233,
\* process-monitor.ts:623).
VerdictIsTheTasks ==
    nested = {} =>
        /\ client.result = "success" \/ Shown("ok") => task.verdict = "Completed"
        /\ client.result = "failure" \/ Shown("failed") => task.verdict = "Failed"

\* The rollback's error may take the place of another message; output that is
\* only a part is replaced.
Kept(g) ==
    IF \E m \in ToSet(g) : m.kind = "rollbackError" THEN {}
    ELSE {Name(m) : m \in {n \in ToSet(g) : n.kind # "chunk"}}

\* Who follows a task on one deployer has been handed every message of it when
\* it ends, whatever other tasks of that deployer say meanwhile
\* (ve-execution.mts:637), and the page has a row for each, however often its
\* stream broke (process-monitor.ts:484).
NothingMissed ==
    [][ way = "direct" /\ nested = {} =>
        /\ client.result = "polling" /\ client'.result \in {"success", "failure"}
           => \A m \in ToSet(group["hub"]) : m.kind # "rollbackError" => Name(m) \in got'
        /\ page.streaming /\ ~page'.streaming /\ (\E m \in Rows' : m.finished)
           => Kept(group["hub"]) \subseteq {Name(m) : m \in Rows'} ]_monitorVars

\* A closing message that stays within reach is found, however far the
\* client's cursor is beyond it (cli-progress.mts:17), and ends the page's
\* listening.
ClosingInReach ==
    /\ Server # "nobody"
    /\ \E k \in DOMAIN group[Server] : group[Server][k].finished

VerdictArrives ==
    <>[]ClosingInReach =>
        <>(IF viewer = "cli" THEN client.result # "polling" ELSE ~page.streaming)
=============================================================================

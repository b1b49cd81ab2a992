# proxvex: verification project

TLA+ models of the deployer's core logic, the TLC runs that check them and the
TLAPS proofs about them. Paths below are relative to the repository root;
`backend/src/` and `frontend/src/app/` are left out where a file name is
unambiguous.

proxvex deploys applications as LXC containers on Proxmox VE hosts. A Node.js
backend turns a request (install, upgrade, reconfigure) into a list of commands,
sends each as a shell script over SSH to the PVE host, and streams messages to a
browser or the command line client. Almost everything that can go wrong lies
between those parts: a script fails halfway, its answer is lost, a task is
restarted from the middle, two scripts touch one container, a page sends what it
loaded long ago, a process restarts.

## 1. Inventory

### Components that carry the core logic

| Component | State it keeps | Operations | Modelled in |
|---|---|---|---|
| Task engine: `ve-execution/ve-execution.mts`, `-state-manager`, `-rollback`; `webapp-ve-restart-manager.mts`, `webapp-ve-execution-setup.mts` | loop index, outputs, `lastSuccessfull`, restart info per key | run, nested run on another host, switchover, verdict, rollback, restart | `VeExecution` |
| Script runs: `ve-execution-ssh-executor.mts`, `spawn-utils.mts`, `-command-processor`, `-host-discovery`, `output-processor.mts`, `variable-resolver.mts` | a child process and its timers, outputs and other values | run, retry, kill, resolve, deploy a hook | `ScriptRun`, `Variables` |
| Container replacement: `create-ct-clone.sh`, `lxc-start.sh`, `replace-ct.sh`, `rollback-failed-replacement.sh` | on the PVE host: which container exists, runs, boots, is locked, replaced, tagged | clone, start, retire, hand over, roll back | `Replacement` |
| Unfinished rebuilds: `unfinished-rebuild-service.mts`, `host-{pause,resume,finish,discard}-unfinished-rebuild.sh` | the rebuild tag | pause after a failure, resume before a restart, finish, discard | `Replacement` |
| Timer services: `replaced-container-cleanup-service.mts`, `log-rotation-service.mts`, the timer of `certificate-auto-renewal-service.mts` | a setting, an interval, a running flag | check, change a setting, forced destroy | `HostServices` |
| Configuration requests: `handleVeConfiguration`, `handleVeRestart*`, `container-config-service.mts` | `activeHostnameTasks`; the snapshot in the container's notes | admit, reject, dispatch, hand to a clone, release; merge values | `HostnameGuard`, `Deployments` |
| Live-test queue: `webapp-test-queue-routes.mts`, `tests/livetests/src/queue-worker.mts` | queue entries and their status; each worker's job | init, next, complete, fail with cascade, status | `TestQueue` |
| Task messages: `webapp-ve-message-manager.mts`, `cli/src/cli-progress.mts`, `process-monitor.ts` | message groups; the client's cursor; the page's rows | partial, final, inject; poll, retry, change of URL; stream, break, merge | `MessageGroups`, `TaskMessages`, `ProcessMonitor` |
| Self-upgrade: `self-upgrade-orchestrator.mts`, `clone-cleanup-service.mts`, `upgrade-finalization-service.mts` | two marker files, the clone | clone, start, trigger, mirror; finalize at boot | `SelfUpgrade`; messages in `TaskMessages`, admission in `HostnameGuard` |
| Certificates: `certificate-authority-service.mts`, `remote-ca-provider.mts`, `certificate-auto-renewal-service.mts`, `conf-generate-certificates.sh`, `certificate-management-dialog.ts` | CAs, caches of the provider, certificate and chain of a container; the dialog's rows | generate, import, sign, deploy, renew; click and answer | `Certificates`, `CertificateDialog` |
| Stacks: `stack-provider.mts` and its two forms, `webapp-stack-routes.mts`, `webapp-stack-refresh-routes.mts`, `stack-restore-service.mts`, `stacks-page.ts` | stacks on the deployer or its hub; a page's list and form | save, rename, delete, refresh, restore, write back | `Stacks` |
| Command line client: `cli/src/*.mts`, `parameter-validator.mts` | the parameters of one run | read, look up and create stacks, validate, submit | `CommandLine` |
| Creating an application: `create-application.ts` with its steps and state service, `docker-compose.service.ts`, `frameworkloader.mts` | the wizard's page, requests and timers; applications | choose, read files, fill in, classify, save | `ComposeFile`, `CreateApplication` |
| Templates: `application-persistence-handler.mts` (lists), `templateprocessor.mts`, `webapp-ve-addon-command-builder.mts` | none | merge lists, skip, nest, insert addon commands | `TemplateLists`, `TemplateProcessing`, `AddonCommands` |
| Persistence: `persistence/*`, `repositories.mts` | files, caches, watchers, managers | read, invalidate, reload, rebind | `Library` |

The others (dependency resolver, hub and spoke download, contexts, debug
collector, authentication, remaining routes and frontend, documentation tools,
other host scripts, test runner) are listed in `PROJECT.json` with the reason for
which they are left out.

### How they interact

```
wizard --> applications, templates (Library, caches) --> commands of a task
                                                               |
client, page --HTTP--> handleVeConfiguration --admit--> activeHostnameTasks
   |  ^                    | values: request, notes, stacks   (HostnameGuard,
   |  |                    v                                   Deployments)
   |  |                VeExecution.run --ssh--> scripts on host and in containers
   |  |                |  |  ^                  (ScriptRun, Replacement)
   |  |     messages   |  |  | restart                  ^
   |  +----------------+  v  |                          | unawaited pause, rollback,
   |   (polled, streamed) restart info                  | finish, discard, checks
   +--> stacks, certificates, settings ------------------+ (HostServices)
        (Stacks, Certificates)
```

* A request is answered when its run has *started*; the run goes on in the
  background and gives up its hostname when it settles.
* A restart takes up the command list by position, behind the last command that
  succeeded, with the outputs known then.
* A failing task rolls back what it can and starts, without waiting, a script
  that stops the new container ("pause"). The user may restart the task while
  that script still runs.
* An administrator may finish or discard what a failed task left; a timer
  destroys containers that were replaced long enough ago.
* The deployer runs in a container of its own and can be asked to replace
  itself: then a clone of it carries out the task.
* A spoke keeps stacks on its hub and has its certificates signed there, through
  a provider chosen on first use; pages send back lists and forms as they were
  loaded.

### What is hard, and what must be true

* **Verdicts.** *Completed means everything was carried out, failed means
  something failed; the order is kept over restarts; progress is never lost; what
  counts as done was run to its end with the values of the commands before it.*
* **Who lives.** Between clone and retirement there are two containers with one
  identity, and three actors that stop, start, mark and destroy. *A container
  that was not replaced always exists; what runs has its volumes; what rests
  serves alone and boots with the host.* For the deployer itself: *a successor is
  alone in the end, and no clone is forgotten.*
* **Who may work.** *One task per hostname; a request is rejected only when
  another task is really at work; no entry stays; a reconfiguration loses no
  value.*
* **Who is told what.** A task's messages are kept by up to three deployers and a
  page, each of which numbers or merges them itself. *Client and page end with
  their task's verdict and have been shown everything.*
* **Whose secret, whose signature.** Stacks and CAs are read, worked with for
  minutes and written back. *A stack is what was last written to it, a restored one what
  the containers hold; a fresh signature replaces an outdated one.*
* **Old answers.** Pages, caches and checks hold what was true when they asked.
  *A setting holds; a cache catches up; what the user chose is what is stored.*
* **Who gets what.** *Two test workers never share a container; a failure reaches
  exactly its dependents; a dead worker costs its own scenario only.*

`PROJECT.json` lists the hazards at their lines with the properties that cover
them.

## 2. Modules

Each component's module has its state as variables and one action per handler or
step. Modules that extend another one compose two components: the steps of both
interleave.

| Module | Role |
|---|---|
| `TaskPromise` | abstract: what a task promises whoever started it |
| `VeExecution` | the task engine; implements `TaskPromise` |
| `ScriptRun`, `Variables` | how a command reaches its host; what a variable is replaced by |
| `Handover` | abstract: the installation moves once from OLD to NEW |
| `Replacement` | scripts and hooks that replace a container; implements `Handover` |
| `HostServices` | the timer services; cleanup of replaced containers |
| `HostnameGuard` | admission of configuration tasks |
| `Deployments` | + where a task's values come from; the composition that is run |
| `TestQueue` | the live-test queue with its workers |
| `MessageGroups` | how messages are recorded, merged, adopted and answered |
| `TaskMessages` | a task's messages on the hub, its clone and its successor, and the polling client |
| `ProcessMonitor` | + the event stream and the page; the composition that is run |
| `SelfUpgrade` | a deployer replaced by way of a clone |
| `Certificates` | CAs, providers, deployment and renewal |
| `CertificateDialog` | + the page that asks for them; the composition that is run |
| `Stacks` | stores, pages, refresh, restore |
| `CommandLine` | + a run of the client; the composition that is run |
| `ComposeFile` | what is read out of compose and .env files |
| `CreateApplication` | the wizard and what the deployer writes |
| `TemplateLists`, `AddonCommands`, `TemplateProcessing` | from an application's files to a task's commands |
| `Library` | files, caches, watchers, managers; loads tasks with the three above |
| `*_proofs` | theorems about `ScriptRun`, `Replacement`, `SelfUpgrade`, and `Certificates` with its dialog; four modules hold components that share nothing: `Requests_proofs` (`HostnameGuard` with `Deployments`; `Library` with `TemplateLists`, `AddonCommands` and `TemplateProcessing`), `Task_proofs` (`VeExecution`; `TaskMessages` with `ProcessMonitor`), `Deployer_proofs` (`HostServices`; `CreateApplication` with `ComposeFile`), `Clients_proofs` (`TestQueue`; `CommandLine` with `Stacks`) |
| `MC*` | constants for the runs |

Definitions named `X_Something` with the comment "Mutant" are variants of `X` with
a plausible bug; each property is violated when its variant takes the place of
the original. They are not part of any specification.

### VeExecution

State: the locals and fields of `VeExecution.run` (`list`, `start`, `i`, `last` =
`lastSuccessfull` + 1, `outputs`), the restart info stored under each run's key
(`infos`), what a run falls back to (`base`), the closing message (`verdict`).
Lists are numbered from 1. `done` and `failing` are history variables.

One action is one way through the loop body: `StepSkipped`, `StepProperties`,
`StepScript` (with the switchover that ends the loop), `StepHost` (a group of
consecutive commands with the same `execute_on: host:...` as a nested run whose
result nobody reads), and the failing ways `ScriptFails` and `HostUnknown`. Behind
the loop `FinishCompleted` and `FinishFailed` give the verdict, decide on the
rollback and store the restart info. `Configure`, `Restart` and
`RestartInstallation` start runs. A restart may use any stored key, that of a
completed run included, since the route accepts it.

A restart loads the list anew (`Reloaded`), which lacks the commands of the task's
addons (`webapp-ve-route-handlers.mts:1476-1486`), but takes it up at a position of the
list before (`Behind`): the commands have moved, and one may be skipped or met twice.
`TaskPromise` therefore promises positions: within a run the commands go in order from
the position it began at, which an earlier run has really reached.

Outputs are reduced to the three names the loop reacts to (`vm_id`, `started`,
`switchover_scheduled`); what nested scripts print reaches the outputs of the run as
well (`host-discovery.mts:265-289`). Left out: name/value arrays (`outputsRaw`), which only
list scripts print, debug twins, message texts. How one command is run, and with
which values, is `ScriptRun`.

### ScriptRun, Variables

State: where the deployer is (`at`, `phase`, `part`, `tries`), the child process
with its timers (`proc`), the scripts that run at the other end (`scripts`), the
values known (`scope`) and those a restart falls back to (`base`), the files of a
hook in the container (`files`, `names`, `hook`), the containers that run. `done`
is a history variable: which run of a script counts for a command.

A script is two steps at its own end, the marker of its shell and the rest, so it
may go on when its client was killed or its connection broke. `Watchdog`,
`HardTimeout` and `Killed` are the timers of `spawnAsync`; `Result` decides between
success, failure and a retry (exit 255 without marker). Putting a hook in place is
the three steps of its script: temporary file, mode, name. `Variables` has
`replaceVars` with lists, nested mentions and the order outputs, inputs, defaults;
a value is the set of its words, each named for the run that printed it.

Left out: redacted copies of scripts for the debug bundle, ssh keys, the port.

### Replacement

State: one record `host` of sets of containers (there, up, onboot, locked,
replaced, data, tagged), the task (`run`, `step`, `started`), where each of the
three actors' scripts is (`pc`) and what it remembered (`boot`).

The scripts of `json/shared/scripts` are followed command by command wherever
another script or a reboot can notice the difference: `replace-ct.sh` alone is seven
actions (ensure NEW runs, stop OLD, unlink its volumes, mark it, take its boot setting,
lock it, hand the boot setting over); the four of the retirement (`Retires`) are shared
with the finish script.
`TaskFails` is the rollback followed by the start of the unawaited pause.
`HostReboots` loses every script and the deployer's tasks. Answers may be lost
after `lxc-start.sh` and after `replace-ct.sh`: the task then fails although the
script took effect.

`Allowed` names the circumstances beyond the ordinary failures: lost answers, a
restart while the pause runs, a restart of a task an administrator settled, an
administrator who acts while a task runs. `met` is a history variable for
situations no script guards against (a restart into a running pause, a rollback
behind the retirement of OLD, a reboot between two commands of the retirement, a clone
that a failing script leaves behind); the properties that do not hold after them say so.
The stray clone itself is not followed: nothing lists it, and a retry takes another vmid.

Assumed: commands whose failure a script only warns about succeed (`pct set`, the
start of OLD when nothing locks it), setting tags succeeds. The grace period of
the cleanup is looked at in `HostServices`. Left out: the test mode without pause
and resume, the branch of `lxc-start.sh` for the deployer's own upgrade (see
`SelfUpgrade`), how volumes are copied and renamed, chains of rebuilds.

### HostServices

State: per service its stored setting, interval timer, pending first check and
running check; per container whether it serves, is replaced or gone, its age since
the replacement and its locks. A grace period is any number of days at or above 0
(`replaced-container-cleanup-service.mts:77-78`), so time is counted in units that are any
part of a day: who is as old as the grace period is due (`Past`), at once if that is 0.
A rollback comes within `RollbackWithin` units. Assumed: the hosts' clocks, which stamp
`replaced-at`, agree with the deployer's. The stored object is shared with a running
check, except with a first check that found nothing stored (`own`). A check of the
cleanup lists what is old, lists again per host and destroys one by one; `DestroyFails` is not
noticed. `SweepLists` and `SweepDestroys` are the forced destruction of everything
locked, `DestroyNamed` that of one. `Replace`, `Revive` and `Backup` are the world.
All three services have this shape; the run takes two.

### HostnameGuard, Deployments

State: the map `active`, and per request its kind, hostname, lock key and where
its handling is. `Ask` awaits the hostname (which may stay unknown: the guard
then lets the request pass, as the code comments say), `Acquire` is the
`get`-check-`set` without await, `Reject` the 409. `PrepareFails`, `CloneFails` and
`HandToClone` leave the handler through its `finally`; `Dispatch` hands the release to
the background run, whose end is `Settle`. Restarts pass by the guard. `Reboot` is a
restart of the deployer: map and tasks are gone, a clone goes on.

`Deployments` refines those steps by values: `ReadBaseline` parses the snapshot in
the notes, `Merged` lays the request over it, `Inputs` adds stacks and defaults,
`Snapshot` is what the end of the task writes into the notes. A value is named by
the request that gave it. One VE context.

### MessageGroups, TaskMessages, ProcessMonitor

State: the task's messages as each of three deployers keeps them (`group`) and
their counters (`count`), where the task, the hub's part of a self-upgrade and
the successor are, the mirror's `offset` and `seenIndices`, the fields of
`CliProgress` (`client`), the event stream (`wire`) and what the page shows
(`page`). `got`, what the client was handed, is a history variable.

A message is its kind, the command it tells of, its index, exit code and flags;
`MessageGroups` has what `handleExecutionMessage`, `injectMessages` and
`handleGetMessages` do with it. Messages that are sent without an `await` between
them reach a poll together, so one action says them all. A script's output is one
chunk, as every further one meets what the first left. `OtherTask` is another task
of the hub: all it does to this one is to take a number. The task runs on the hub,
or on its clone: then `StageMarker`, `TriggerClone` and `Handoff` are the hub's part,
`MirrorPolls` is one poll of the mirror, `HubStops` and `SuccessorBoots` what the task
does to the hub, `Adopts` or `AdoptionGivesUp` how the successor's wait ends.
`PollAnswered`, `PollUnanswered`, `PollLost` and `CursorReset` are the client, whose
retry limit is 90 in the code.

`Connects` sends all messages there are, `Notified` every further one as the task
said it, `Arrives` merges one event by the page's own rules (`MergedOne`,
`MergedAll`), `Breaks` and `Reopens` lose the stream. Left out: the sweep of old
groups, a second group of the same application and task, planned steps, what is
printed.

### SelfUpgrade

State: the containers of OLD, the clones and the successors (`there`, `onboot`,
`locked`), where each deployer's process is in its boot (`proc`), the two marker
files, which the copy of `/config` carries along, the request OLD orchestrates
(`hub`) and each upgrade's `task`. `left` names clones nobody was told of, each with
the action that left it. Steps: create, start, wait for and trigger the clone;
copy, mark, start and end the switchover; at boot finalize, adopt, destroy. Every
await may fail; any deployer or the host may restart between two steps;
`AdminRecovers` is an operator who starts OLD again.

### Certificates, CertificateDialog

A CA is named by its deployer and its number. State: each deployer's CA, the
spoke's entry and memoised `provider` with its two caches, and per container what
is about to write its certificate (`op`), who signed it (`leaf`), the CA in its chain
and whether it is due. Tasks of different hostnames run side by side. `DeployLocally`
signs with the deployer's own CA. `DeployFromHub` looks at the provider's CA cache and
either goes on or awaits the hub; `HubAnswers` is the hub reading its CA, `CaFromHub` the
answer arriving and taking its place in the cache, `HubFails` its loss; `SignAtHub` is
the signature. The way back of that one is left out: only tasks of its hostname look at
it, one at a time. `known` says how the caches stand to the hub's CA (`mixed`: two
answers with different CAs), and a task whose provider was reset goes on with caches of
its own (`orphan`). `WriteDeployed` is `conf-generate-certificates.sh` (which
keeps a certificate its CA still verifies), `BeginRenewal` ... `EndRenewal` the
renewal. The dialog has up to two requests under way, answered (`Arrives`) or lost
(`Fails`) in any order. Left out: domain suffix, downloads, key and certificate as
two files.

### Stacks, CommandLine

State: the stacks in the store with the array of entries they share (`era`: the
local provider hands out the stored object, the remote one copies), each page's
list and form, the saves, refreshes and installations under way, and what `has` each
place where a container keeps a variable. A container may keep one in several places
and under names of its own (`Place`: container, variable, method, name), as it declares.

A save reads what there is (`SaveRead`) and writes later (`SaveWrite`), with nothing in
between when the store is the deployer's own (`Free`); a secret left blank keeps its
value or gets a generated one, an external value may be required or optional. The
dialog sends one refresh per variable: each reads the stack (`ReadForRefresh`), goes
from place to place (`Act`, `Patch`: the file is read and written back whole) and writes
that stack back (`EndRefresh`); `late` says that somebody saved or deleted it meanwhile.
A scan asks the hosts one by one for each name a container uses and takes the first
match in configuration, on-start scripts and compose files (`Searched`), where scripts
or compose files may be unreadable (`blind`); it is refused when the matches disagree
and fills a form otherwise (`EndScan`). Values are numbers, so a generated one is always
new. `wrote` and `restored` are history variables: what each stack was last given, and the
findings its last save came from.

Assumed: one refresh dialog at a time, and a name within a container belongs to one
variable. Left out: the `dirty` flag.

`CommandLine` adds a run of the client: fetch, look up the stack by id or name,
create it, validate, submit. `Abort` ends it at any request. Left out: the values
installations provide, several stacks in one file, uploads, tokens.

### ComposeFile, CreateApplication

`ComposeFile` has the operators that read a compose file: the four forms of a
reference, the effective environment of a service, image, command, user and
mounts. `CreateApplication` holds the page as one record; a method of the wizard
is an operator on it, and `page.jobs` are its file readers, timers and requests,
each of which goes on with the page it then finds. `preview` says whether the
parameters are shown, loading or failed (`Retry` asks again), `reached` how far the
heads of the steps may be used to jump. `overtaken` is a history variable: a late
answer has put an older .env file back. The deployer's side is `Create`,
`CreateFails` and `Conflict`. `Occupied` looks at the applications themselves; the code
asks a cache of their names (`application-persistence-handler.mts:86-100`), which every
write of the server invalidates, so that it differs only for a moment after an edit by
hand, and which `Library` follows. Left out: names, icons, tags, edit mode.

### TemplateLists, AddonCommands, TemplateProcessing, Library

`TemplateLists` merges the lists of an application chain by category and place;
`AddonCommands` inserts addon commands; `TemplateProcessing` walks nested templates
with skipping, announced outputs and conflicts. They are operators. The code's recursion
through nested templates is a walk over the commands that are still to come (`Advance`):
a template that is entered puts its own in front of them. No template is entered twice,
so `MostCommands` bounds the walk, a recursive function, without cutting one short.
`Library` has the state: files by root, kind and name, and per manager (there are two after a
reload) names, list, contents, hierarchy, preloaded resources, pending watcher
events and the debounce timer. `LoadTask` is the whole chain from files to commands
through those caches; `BeginRead` and `FinishRead` split a read, since the handlers
stat after it. An addon's command goes inside or outside the container by its own
`execute_on`, else by that of its template (`Inside`). Left out: icons, markdown,
enumeration values, whether the values of properties mention variables, and the
category directory of a shared file (`repositories.mts:491-510`): a name is looked up in
all of them. The shipped names are unique across categories; a file under a wrong
category would be found here and not by the code.

### TestQueue

State: the queue's flag, entries and statuses, and per worker where its loop is
and the scenario it holds. Handlers have no await, so each is one action. A worker
may die anywhere, the answer of `next` may be lost, the deployer may restart and
lose the queue. `Cascade` states the set `cascadeFail` reaches as the least set
closed under pending dependents, since the code's recursion walks pending entries
only. `cascadeFail` is only meaningful for acyclic dependencies, an assumption of the
module (`DepsAcyclic`) that the shipped test definitions meet; the code does not
check it.

## 3. Runs

| Run | Instance | Shows |
|---|---|---|
| `test_queue` | 4 scenarios in a diamond whose queue order is not topological, 2 workers, filters that miss a dependency, 1 crash, 1 restart | exclusive use, dependencies stay completed, the cascade is exact, everything else settles |
| `ve_execution` | 8 commands of every kind with a two-command host group in the middle and a switchover before the end, 3 attempts, of which a restart lacks the addon's command | verdicts are earned, progress is kept, the refinement of `TaskPromise`, every run ends |
| `script_run` | a task that creates a container and works in it, one that deploys a hook, one that finds containers by name; up to 2 lost connections or restarts, up to 1 change of what runs, production and test mode, 2 tries | a hook under its name is whole, what counts as done was done by the last run with the right values, every task ends |
| `replacement` | with and without a static address, all circumstances but an administrator during a task, 2 restarts, 2 reboots | who lives, serves and boots, the refinement of `Handover` |
| `host_services` | cleanup and one other service, 1 host, grace periods shorter than a rollback takes (0 units), as long (1) and longer (2, the default), 2 settings, 1 replacement, 1 restart | settings hold, a grace period longer than a rollback protects it, what is past it goes |
| `hostname_guard` | 3 requests of any kind on 2 hostnames with five parameters treated differently, 1 restart of the deployer | exclusion, right rejections, every entry freed, no value lost |
| `task_messages` | 2 commands, the first tells the successor's URL, the second stops the hub and may be one on another host; on the hub or on its clone, same or another URL; client or page; 1 retry, 1 lost poll or stream, 1 message of another task | client and page end with the task's verdict and miss nothing; the record has its ends |
| `self_upgrade` | 2 upgrades, 1 restart or reboot; OLD is not restarted by itself when it took 2 requests and works on none | a successor is alone, clones are remembered, a successor serves in the end |
| `certificates` | 2 containers of a spoke with tasks of their own and 1 change of CAs, entries or due dates; or 1 of them, 2 changes and clicks, the dialog of spoke or hub with its list and 1 further request | what the caches keep and when they may not fit, that a fresh signature heals |
| `stacks` | 2 stacks of one type with required, optional or no external values, 2 variables in 5 places of 2 containers on 2 hosts (one secret twice in a container and under another name in the other), 1 page, 1 run of the client, 3 moves | on the deployer a stack is what was written to it, a restored one fits what the containers gave |
| `create_application` | 2 compose files, 2 .env files, 1 image, both frameworks and modes, four budgets of what the user does per step, 1 other page | the image is that of the files, everything is stored as chosen, nothing is replaced |
| `library` | an application chain over json, local and hub, own and shared templates, 2 addons, 1 framework; six budgets of edits, failing watchers, reload, rebind, reads and loads | commands in stage order, variables have a source, caches catch up |

### Bounds

* Three attempts are the least with a restart of a restart, where the restart info
  falls back twice. Two restarts and two reboots let every script of a replacement
  meet what an earlier, interrupted one left, the administrator's after a reboot
  included; a further reboot only repeats these, as nothing remembers how many there were.
* Two workers and four scenarios give a dependent with two parents, one of them
  failing; the third request of `hostname_guard` is needed to enter behind a wrongly
  released entry. Two of its requests give the same parameters, so they start in
  order, which loses nothing.
* One retry is what it takes to turn to the successor's URL, two commands give a
  result below and one above the cursor, and a counter that does not start at zero
  keeps the three numberings apart.
* Two upgrades are the least in which a finalizer meets the marker of an earlier
  one; each needs several restarts only if it also needs several upgrades.
* Two containers are needed in `certificates`, since tasks of different hostnames share
  a provider's caches: one asks the hub while the other's answer is on its way. With both
  at work one change from outside is what it takes for two answers to differ, and the
  dialog, whose every effect has a cause in the world too, is left unused; with it, one
  container and two changes are (`OneOrTheOther`). One container suffices for
  `host_services`, as a check destroys one after the other and remembers none.
* `stacks` needs two hosts, read one by one, two variables in one file, two places of a
  variable in one container for the match that hides another, and two names of one
  variable. A restore is followed only while no client runs and nothing but the default
  stack is there (`Narrowed`); the theorems have no such limit.
* The budgets of `create_application` and `library` split the steps by what they
  concern: a step of one framework's read says nothing about an addon's cache.
  Each budget allows the sequences in which an answer overtakes another, or an edit
  falls between a read and its bookkeeping. A second .env file is what a late answer
  needs to put the first one back. A change of the framework behind a parameter
  marked editable needs more steps than the run's budgets give; the theorem
  `ChoicesAreStored` has no budgets.
* Generated values, messages and runs of scripts are numbered; the bounds on the
  steps that make them (`MaxValues`, `MaxOthers`, `MaxRetries`, ...) are constants of
  the modules and stand in the guards.

The two containers of `certificates`, whose properties are invariants, are
interchangeable and declared symmetric. Requests, workers and scenarios have no other
identity than their place either, but the liveness checks of their runs forbid symmetry.

Where a run does not check deadlock the system may stop: all requests, tasks,
workers or budgets are done.

### Fairness

* `VeExecution`, `ScriptRun`: weak fairness of the running task and of the timers of
  its child process. Each step awaits one child, which ends by itself or is killed
  on its idle or hard timeout (`spawn-utils.mts:94`). Nothing makes a script answer.
  Starting and restarting tasks is up to the user.
* `TestQueue`: weak fairness of each living worker's loop, which polls without
  waiting for anybody; none for the operator, crashes and restarts.
* `HostnameGuard`, `Deployments`: weak fairness of what goes on by itself in a
  handler, a run or a clone, for the same reason; none for new requests.
* `TaskMessages`, `ProcessMonitor`: weak fairness of the client's polling loop with
  its reset and of the page's reconnecting stream; none for the task, the hub or
  losses (`VerdictArrives` starts from a closing message that stays within reach).
* `SelfUpgrade`: weak fairness of a deployer's boot, whose steps and waits are all
  bounded; none for requests, restarts and the administrator.
* `HostServices`: weak fairness of the interval and of a check's steps; strong
  fairness of listing a host that has something due and of destroying it, as a host
  that is asked every day answers again and again in the end. None for operators.
* `Library`: weak fairness of watcher events, the debounce timer and the end of a
  read; none for edits, requests and reloads.
* `Replacement`, `Certificates`, `Stacks` and `CreateApplication` have safety
  properties only: a settled state is a condition, not something to bring about.

### Where the code departs from what it says

Seen while modelling, and left as they are in the models. None is a run of its
own; where one would violate a property, the property names it as an exception.

Tasks and scripts:

* "all commands completed successfully": the exit of a nested host run is not read,
  and such a run sends a `finished` message of its own, with which a client leaves;
* "Restart from last successful step": the reloaded list lacks addon commands
  (`webapp-ve-route-handlers.mts:1476-1486`), so the position means another command: one
  may be skipped without ever having been carried out, and the task still ends
  "Completed"; `InOrder`, `CompletedMeansDone` and `TaskPromise` are stated on positions
  for that. Restart handlers do not ask the guard;
* a task that fails at its first command stores restart info with `defaults: []`
  (`webapp-ve-restart-manager.mts:35`); the restart builds defaults, which restoring
  the info clears again;
* the contents of uploaded files are replaced for good before every command
  (`ve-execution.mts:750`) by what is known then, although
  `variable-resolver.mts:219-224` says later outputs are waited for; values that
  mention each other overflow the stack;
* outputs of a failing script are stored before the error is thrown
  (`ve-execution.mts:431`); missing outputs are only a warning; `outputsRaw` stays, so
  later restart infos carry an older array; a lost marker with exit 255 runs a
  script twice; a script whose connection broke goes on beside a restart;
* the first output of the rollback script clears the failure of the command before
  it (`webapp-ve-message-manager.mts:174`); the error of a failing rollback takes the
  number of commands for its index (`ve-execution.mts:945`), so a client beyond it
  never sees it;
* restarting a completed replacement finds nothing left to do, takes that for a
  failure and rolls it back (`ve-execution.mts:847`, `:896`).

Replacement, upgrade and checks:

* OLD loses its volumes before it is marked, and is marked before it loses its boot
  setting (`replace-ct.sh:133`, `vol-common.sh:981-983`): a reboot in between starts an
  unlocked OLD without its volumes next to NEW; before the mark it still counts as live,
  so discarding the rebuild destroys NEW, which has them;
* the trap of `create-ct-clone.sh` says no half-built target remains (`:121-124`), but an
  error behind `SOURCE_RESTORED` (`:417`, say in `:463`) leaves the clone untagged and with
  OLD's boot setting; the second `pct start` of `lxc-start.sh:220` may bring NEW up beside
  an OLD that is then started again;
* after a failure behind the start OLD should serve again, but `lxc-start.sh` does
  not print the output the rollback waits for; behind a failing check the rollback
  revives OLD without its volumes;
* discard refuses when NEW may be the only live instance, but the check is not held
  while a restarted task retires OLD;
* discarding a rebuild with a static address leaves OLD without its boot setting;
  after a failed attempt NEW does not get it either (`replace-ct.sh:142`); a restart
  into a running pause can end with nothing running; finishing a rebuild with a
  static address starts NEW beside OLD;
* a self-upgrade gives up its entry in the guard while the clone works; one without
  hostname and `previous_vm_id` has no lock key at all; a clone whose task goes on for
  eight minutes behind the successor's boot is destroyed with its task
  (`clone-cleanup-service.mts:232`);
* a grace period of 0, or one shorter than a rollback takes, is accepted
  (`replaced-container-cleanup-service.mts:77`): a check that lists OLD as due does not look
  again before it destroys it, and a rollback may have brought it back meanwhile;
* after a restart of the deployer a worker's late report of a scenario nobody has handed
  out again overwrites its status (`webapp-test-queue-routes.mts:166`); while the deployer
  runs, `DepsStayCompleted` holds;
* the first check of the cleanup writes the default over what the operator sets
  meanwhile if nothing was stored; failed destroys are reported as destroyed;
  `destroyAllLocked` also destroys what a backup has locked.

Messages on a page:

* consumers are said to drop what they have by `msg.index`
  (`ve-configuration.service.ts:295-302`), but `mergeMessages` appends a snapshot
  unfiltered, so rows appear twice after a break; behind a restart the old failed
  group is shown and the new one dropped; any message with an error ends the stream.

Values, stacks and secrets:

* `types.mts:968-972` says `dirty` is "cleared after a successful refresh-stack run",
  but the refresh of one variable clears it (`webapp-stack-refresh-routes.mts:127`)
  while the dialog sends one request per entry; refreshes that run in parallel patch
  one compose file unlocked; `set -eu` makes the branch that appends a variable
  unreachable in `refresh-lxc-config-env.sh`;
* a stack's page saves the form as it was loaded: a tab that was opened before others
  saved or refreshed writes their values back to what they were, and nothing tells it so
  (`webapp-stack-routes.mts:81-155` compares nothing); a refresh, which takes minutes,
  writes back all of the stack it read, over a save or deletion that came between
  (`webapp-stack-refresh-routes.mts:127-130`);
* "Different values for the same key → aborted (system drift)"
  (`create-stack-dialog.ts:184`), but per name the restore looks no further than the
  first match in a container (`find-stack-values-on-apps.py:387-407`), passes over scripts and
  compose files it cannot read, and never looks at .env files: a container that disagrees with itself, as a
  refresh that patched one of its places leaves it, is restored from its first place;
* saving a stack in the page drops what it provides (`stacks-page.ts:349`); renaming
  deletes the old id before the 400 of an incomplete body
  (`webapp-stack-routes.mts:96-101`, `:124`); with a hub, a save, a refresh and an
  installation overwrite each other; a page creates the default stack with new
  secrets when the store was lost; an unreadable context file becomes an empty one;
* the client posts a stack named in its file on every run, since it looks it up by
  id; an empty value for a required parameter is refused although there is a
  default; a container's snapshot is dropped when its notes are too long, so that
  later reconfigurations start from defaults.

Certificates:

* "Certificates from other CAs stay untouched" compares common names, and every
  generated CA is named "Proxvex CA"; with an imported CA the page offers rows the
  service does not renew, and answers 200;
* a spoke's caches outlive its hub's CA; PUT and DELETE of an SSH entry do not reset
  the providers although `persistence-manager.mts:357-364` says entries that change
  do; two tasks that ask for the hub's CA at once may be answered with different ones, and
  the answer that arrives last stays cached beside a certificate the other one signed
  (`remote-ca-provider.mts:234-240`); a spoke shows its own CA as "Synced from Hub";
  "identity+chain unchanged" looks at the certificate only;
  renew-all while a check runs answers 200 and does nothing.

Applications and their files:

* values marked for the installation only are stored although
  `summary-step.component.ts:167` says they are "not saved in the application"; an .env
  file read behind a compose file resets `volumes` and `oci_image`
  (`create-application-state.service.ts:466`, `:649`); late answers for an earlier image
  or framework are applied to the newer one: the .env file an answer brings back is
  then not the one the image was derived from
  (`create-application-state.service.ts:1111`); edit mode always ends in "Framework not
  found" (`create-application.ts:178`); an update deletes the application's directory
  before it writes (`frameworkloader.mts:276`);
* behind a change of the framework the summary still lists the former framework's
  parameters until the new ones arrive; those marked editable, "saved permanently"
  (`summary-step.component.ts:36`), are dropped without a word when the new framework
  lacks them (`frameworkloader.mts:386`);
* checks are said to run "at the end of every deployment task"
  (`application-persistence-handler.mts:1054`), but commands of addons for post_start
  go behind them when the task has no replace_ct; an addon's upgrade list is
  inserted in both phases, so its templates run twice; an array-form upgrade list of
  a child comes behind its framework's checks; a template met twice in any task makes
  every task's load fail; outputs a template announces count before its nested
  templates run;
* after POST reload, routes that captured the manager keep the closed one
  (`webapp-application-routes.mts:35`); rebinding keeps names, lists and watchers of the
  old root (`persistence-manager.mts:371-385`); hierarchy caches are never revalidated;
  handlers stat a file after they read it.

## 4. Proofs

TLAPS proves the following for every value of the constants (under the modules'
named assumptions) and without bounds on anything but what the constants bound.

| Theorem | Statement | Argument |
|---|---|---|
| `Clients_proofs!NobodyShares`, `DependenciesStay`, `CascadeIsExact` | exclusive use; completed dependencies stay completed; a failure reaches exactly its dependents | `IInv` adds that what is outside the queue is fresh and that a living worker's job is running in the queue; `CascadeClosed` and `CascadeHasCause` state what the least set contains |
| `Clients_proofs!ShapesStay`, `StoreHoldsWhatWasWritten` | types; on the deployer a stack holds what was last written to it, a refresh that somebody overtook apart | `StoreInv`: requests hold the stored object and not a copy (`ObjectsAreShared`), a save is alone and has read what it replaces (`SavesAreCurrent`), a refresh nobody overtook holds what is stored now, and the requests of one dialog are about one stack (`JobsAreCurrent`), so that what one stores the others have |
| `Clients_proofs!RestoresFit` | a stack saved from a restored form has every value that was found | `RestoreInv`: a form and a save under way hold what was found for them (`Fits`); of values that agree there is one, however many hosts, containers and places gave it (`AgreedIsOne`) |
| `Task_proofs!TypeCorrect`, `FailedSafe`, `VerdictSafe`, `PromiseKept`, `OrderKept`, `ProgressStays` | types; Failed only after a failure; both verdicts are earned; the engine implements `TaskPromise`; the order is kept over restarts; a stored restart info is never behind its run's. All of it whatever lists a task begins and is taken up with | `IInv` says which list a run follows (`ListKnown`), where the loop may stand relative to `last` (`LoopPosition`), that a stored or current result is a position some run has got to (`ResultsReached`, `Behind`), that a run leaves its restart info at its end (`Unstored`), and that a verdict is given exactly when it is over (`VerdictGiven`) |
| `Task_proofs!VerdictsAreTrue`, `RecordsHaveTheirEnds` | client and page end with the task's own verdict; the record of a task that is over holds every command's end | `Numbered`: each of the three records has its indices below its counter, and the closing message last; `GroupsEnd` and `ToldTrue`: a final message anywhere, on its way, merged or mirrored, is the task's |
| `Task_proofs!NothingIsMissed` | who follows a task on one deployer has been handed every message of it when it ends, and the page has a row for each | `FollowInv`: what a client was not handed is above its cursor, and the cursor is below the number that comes next (`ClientFollows`); what the page has or will get are messages of the group, and while the stream lasts, or once the end is on its way, it is all of them (`PageFollows`). `MergedSame` says what one merge of the page may lose |
| `Deployer_proofs!ImageFollowsTheFiles`, `ChoicesAreStored`, `OnlyUpdatesReplace` | the image is that of the files; what is stored is what was chosen; creating replaces nothing | `PageInv`: the image is right or a timer is due that derives it again (`ImageFollows`), an open parameter has a class (`OpenInv`); `Asked`: what a request under way carries is what the page showed |
| `ScriptRun_proofs!HookStaysWhole`, `LastRunsCount` | a hook under its name is a whole file; what counts as done is what the last run did, told what the last runs before it printed | `HookInv`: every run has a file and a name of its own (`Numbered`), which are as far as its script is (`Under`). `DoneInv`: where the deployer is has a run that belongs to it (`Progress`, `Heard`), what `scope` and `base` hold of a variable is what the last run of the last command gave (`Remembered`, `Behind`) |
| `Replacement_proofs!TypeCorrect`, `LiveInstanceKept`, `HandoverKept` | types; a container that was not replaced always exists; the scripts implement `Handover` | `IInv` ties the scripts' places to the host: who is past the mark has a NEW, a tag means the container is there, at most one of task and administrator is inside its critical script |
| `Replacement_proofs!DataServes`, `OneOfThemServes`, `BootSettingMoves` | what runs has its volumes; one of the two serves when all is settled; the boot setting moves to NEW | `ServiceInv` adds who is attached to the volumes at which step of which script (`DataInv`) and, step by step, what runs and what boots (`ByStep`) |
| `Deployer_proofs!TypeCorrect`, `SettingKept`, `GraceKept` | types; a setting holds; who serves is destroyed only by a check whose grace period was no longer than a rollback takes | `SettingHolds` is inductive with the types; `OldStayAway`: whom a check with a longer grace period found past its cutoff was replaced too long ago to be brought back |
| `Requests_proofs!TypeCorrect`, `GuardExcludes`, `RejectionsAreRight` | types; at most one guarded task per hostname; a 409 only while another task works | `IInv`: a guarded task has the entry of its hostname, and an entry belongs to a guarded task under its own key |
| `Requests_proofs!DeploymentsAreAdmitted`, `GivenValuesStay` | `Deployments` implements `HostnameGuard`; a reconfiguration loses no value | every step of the composition is one of the guard, or none; `BaseIsCurrent`: who has read the notes and works alone on its hostname has read what is there |
| `Requests_proofs!TemplatesInStageOrder` | whatever the applications of a chain contribute to a task, its templates come in the order of the stages and none of them twice | the place a template is put at is behind all of an earlier stage and before all of a later one (`PlacesKeepStages`), so `Gathered` is kept by every entry, list, category and application; a fold goes through the sets of first places (`GatheringExists`, `GatheringEnds`) |
| `Requests_proofs!CommandsComeInOrder` | the commands of every task that is loaded come in the order of the stages, what addons add to them at its stage, and notes are written under the id of their addon | a template, skipped or not and with all that it nests, adds commands of its own category behind those there are (`Longer`), so the commands are ordered as the list is (`Stages`). Of the plan, `Staged` says where each step of an addon may stand, `Paired` that the script of the notes is behind the properties that name its addon, and `IsQuiet` that nothing else carries the action the script reads; `MovedInOrder` and `Fits` say what putting further steps in between keeps of that |
| `Requests_proofs!VariablesAreGiven` | in a load without an error somebody gives each variable of a text that runs its value | `Sourced`: who is said to give a value has done so or still comes in the walk (`HasGiver`), and what a command uses is settled or comes within a template the command is nested in (`Comes`); the walk ends, so nothing stays to come |
| `SelfUpgrade_proofs!TypeCorrect`, `SuccessorIsAlone`, `NoCloneIsForgotten` | types; a successor is alone; every clone is remembered | `OldStaysDown`: once the marker is gone OLD is down and locked. `Memory` follows a clone from the request through the marker and its copies: a task is accepted once, before there is a successor (`AcceptedOnce`), and who serves as a clone has cleared the marker it was copied with (`ClonesAreCleared`) |
| `Certificates_proofs!TypeCorrect`, `ChainsAreNotNewer`, `SignaturesHeal` | types; certificate and chain fit or the certificate is newer, unless two tasks were given different CAs at once; a fresh signature heals | `CertInv`: the caches are filled in order until an answer takes the place of another one (`CacheInv`), and so is what each of any number of tasks, with the provider's caches or with its own, and a renewal are about to write (`OpInv`, `RunInv`) |

Why the invariants are needed: exclusion alone is not inductive, since a step
that releases an entry by key could release another task's; an earned verdict
says nothing of runs that failed and are taken up again, and those are where the
prefix is kept; `LiveInstance` says nothing of a script that has checked and is
about to destroy, nor `ServesWithItsData` of one that is about to start what it
found. That a hook is whole needs that no two runs write one file, and so that
files and names are those of their runs. What a task is loaded from is minutes or days
old: the order of its commands needs that every cached, preloaded or half-read file was
one its schema accepts (`LibraryInv`), and that a plan is read off lists that were merged
before it. `GraceCoversRollback` speaks of what
happened, but a check acts on lists that are hours old: the invariant says of
whoever is on them that nobody can bring him back. Chains and caches are only
filled in an order, so the order of what is written follows from that of what was
read two steps before. A marker is copied with `/config`, so whether a clone is
remembered depends on every marker its ancestors had. That a stack is what was written
says nothing of the requests that will write it back minutes later: each of them has to
hold the very array that is stored (`era`), or else what one refresh stores the next one
takes back, which is what happens with the copies a hub hands out. The closing
message lands last only if every number in use is below the counter, which the
error of a rollback, numbered after the commands, breaks in the very step that says
it; and the page, whose merge keeps an old row's end, shows only true ends because
a page that listens shows none. The image of the wizard is often not that of its
files: then a timer is due that derives it again.

Proof attempts also corrected properties. `DoneByTheLastRun` used to say that a
command is told what the last commands before it printed even if it gives the
variable itself; after a restart it is told what its own failed run printed, as
outputs are stored before the error is thrown (`ve-execution.mts:431`).
`GivesLast` now leaves that case out. `ImageOfTheFiles` and `StoredAsChosen` left out
the preview that comes back for an older `.env` file, and the parameters of a
framework that was chosen before; both now say what the page does there.

Induction over a sequence is done with sets: the numbers for which something holds
have a least one outside (`LeastNumber`, `AllNumbers`, from the well-founded
relation of the library), a value carried along by a function is one of a sequence of
values (`StepByStep`), and what holds at first and is kept holds all along
(`AllAlong`). The folds of the community modules are recursive functions on sets of
places; one with values in the wanted set exists, so the chosen one is a solution, and
its values at the sets `1 .. n` are in the set one after the other. The walk of nested
templates is a function on numbers, followed by `AllNumbers`; that it is long enough is
shown with a measure (`Left`), the commands to come and, for each template not yet
entered, as many as the longest has: each step makes it smaller (`LessIsLeft`), so none
is left at the end (`Processed`). None of these takes an operator for a parameter.

Assumptions beyond the modules' own: `OrderKept` assumes that no command is twice in a
list (`EachOnce`), since what is done is a set of commands; the other theorems about tasks
assume nothing. `LiveInstanceKept`, `HandoverKept`, `DataServes`, `OneOfThemServes` and
`BootSettingMoves` assume that no administrator acts while a task runs (`AdminWaits`).
Of the modules' own, `OutputsArePlain` of `ScriptRun` says that outputs share no name
with an uploaded file or a list, `GracesAreBounded` of `HostServices` that among the
spans of time that matter there is a longest one, and `ImagesProposeNoFile` of `CreateApplication`
that the defaults of an image do not name an uploaded file. Those of `Library` are that
files follow the schemas they are validated against, initially and after every edit
(`FilesFollowTheirSchemas`); among them is what no schema says and all shipped files
respect: no command that names a template has outputs, and nobody but the server gives
`addon_action`, by which the script of the notes learns that an addon goes.
`RequestsAreLists` says that a request lists the addons it selects.
`DeploymentsAreAdmitted` carries what is proved of the guard over to the composition
the run checks.

Only model-checked:

* liveness (`EverythingElseSettles`, `RunEnds`, `EveryTaskEnds`, `HostnameIsFreed`,
  `VerdictArrives`, `TakesOver`, `PastGraceGoes`, `CatchesUp`), which is beyond the prover.

Every other property of a run is stated by a theorem.

## 5. Not modelled, and what comes next

Not modelled because nothing concurrent or stateful happens there, or because it
is pure file or network I/O: the components with that status in `PROJECT.json`.
Not modelled because nothing calls it: `docker-compose-step.component.ts`,
`env-vars-step.component.ts`, `detectComposeWarnings`, `extractServiceVolumes`,
`state.reset`, `deleteApplication`, `writeFramework`, `mergeAddonTemplates`,
`insertTemplate`, `clearMessagesForApplication`, `executeOnHost` of the host discovery,
`fetchMessagesFallback` (its stream never completes), POST CertificateRenew.

Next, in this order:

1. The configuration dialog of the frontend; a second group of messages for a
   restarted task; the values that installations provide to stacks on a hub.
2. What the values of properties mention, and the values an enumeration offers, in
   `TemplateProcessing`.
3. What the look-ahead takes away: a stage whose commands it drops may have been the only
   one to give a variable its value, which `Supplied` allows.

## 6. Running

```
tlc -config MCReplacement.cfg MCReplacement      # and likewise the other .cfg
tlapm Replacement_proofs.tla                     # and the other *_proofs.tla
```

`Requests_proofs` takes some ten minutes to prove, the other modules less.

With two workers `certificates` (917 000 states), `stacks` (815 000), `hostname_guard`
(416 000), `self_upgrade` and `task_messages` take two to three minutes each, `library`,
`script_run` and `create_application` more than one, the others below a minute.

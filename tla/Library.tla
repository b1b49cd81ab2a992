------------------------------- MODULE Library -------------------------------
(***************************************************************************)
(* The applications, addons, frameworks, templates and scripts on disk and *)
(* what the server remembers of them: the persistence handlers with their  *)
(* caches, the file watchers, the repositories, and the reload that puts a *)
(* new PersistenceManager beside the one the routes hold.                  *)
(*                                                                         *)
(* A path is <<root, kind, name>>; the name of a template or script is     *)
(* <<owner, name>> with the owner "shared" or an application.  The file at *)
(* a path is [at, is]: when it was written, and what it holds.  The files  *)
(* of the roots "json" (the image) and "hub" (synchronised at the start)   *)
(* do not change while the server runs; those of "local" do.               *)
(*                                                                         *)
(* An application is [extends, parameters, properties, parts, required,    *)
(* hidden]: `extends' is {} or {[name, pinned]}, pinned for the prefix     *)
(* "json:", `parts' maps its tasks to its own part of each (see            *)
(* TemplateLists), `required' are addons.                                  *)
(***************************************************************************)
EXTENDS AddonCommands, TemplateProcessing

CONSTANTS
    Initial,     \* the files at the start: path -> content
    Versions,    \* local path -> what may be written there
    Written,     \* the applications written by way of the server
    HasHub,      \* a hub's workspace was bound at the start
    Tasks,       \* the tasks asked for
    Requests,    \* the addons asked for with a task
    Budgets      \* how often, in all: edit, rebind, fail, reload, read, load;
                 \* and `about', the kinds of files that change and are asked for

ASSUME EditsAreLocal == \A path \in DOMAIN Versions : path[1] \in {"local", "workspace"}
ASSUME BudgetsAreNumbers ==
    \A b \in Budgets : \A what \in {"edit", "rebind", "fail", "reload", "read", "load"} :
        b[what] \in Nat

IsApplication(app) ==
    /\ {"parameters", "properties", "required"} \subseteq DOMAIN app
    /\ AreParameters(app.parameters) /\ IsList(app.properties) /\ IsList(app.required)
    /\ IsParts(app.parts)

\* What a file of the kind holds when its schema accepts it.
IsContent(kind, content) ==
    /\ kind = "application" => IsApplication(content)
    /\ kind = "template" => IsTemplate(content)
    /\ kind = "addon" => IsAddon(content)

\* The ids that a file gives a value to.
Gives(kind, content) ==
    CASE kind = "application" -> Ids(content.properties)
      [] kind = "template" -> UNION {Ids(c.outputs) \cup Ids(c.properties) :
                                        c \in ToSet(content.commands)}
      [] kind = "addon" -> content.properties
      [] OTHER -> {}

\* The id by which the notes' script learns that an addon goes is the server's.
IsFile(kind, content) == IsContent(kind, content) /\ "addon_action" \notin Gives(kind, content)

ASSUME FilesFollowTheirSchemas ==
    /\ IsFiniteSet(DOMAIN Initial)
    /\ \A path \in DOMAIN Initial \cup DOMAIN Versions : path = <<path[1], path[2], path[3]>>
    /\ \A path \in DOMAIN Initial : IsFile(path[2], Initial[path])
    /\ \A path \in DOMAIN Versions : \A content \in Versions[path] : IsFile(path[2], content)
ASSUME WrittenAreLocal ==
    \A app \in Written : <<"local", "application", app>> \in DOMAIN Versions
ASSUME RequestsAreLists ==
    \A request \in Requests :
        IsList(request.selected) /\ IsList(request.installed) /\ IsList(request.disabled)

FileKinds == {"application", "template", "framework", "addon"}

VARIABLES
    disk,      \* path -> [at, is]
    clock,     \* the time of the last write
    dirs,      \* the kinds with a directory under "local"
    pms,       \* the managers: the routes' own first, the current one last
    reading,   \* {} or the read that is not yet in a cache
    answer,    \* {} or the load the last step answered
    budget     \* what is left of the steps nobody counts on

libraryVars == <<disk, clock, dirs, pms, reading, answer, budget>>

Current == Len(pms)
Open    == {i \in DOMAIN pms : pms[i].open}
About(kind) == kind \in budget.about
NoAddons == [selected : {<<>>}, installed : {<<>>}, disabled : {<<>>}]
Spend(what) == budget[what] > 0 /\ budget' = [budget EXCEPT ![what] = @ - 1]

----------------------------------------------------------------------------
(* Where a manager looks.                                                  *)

Roots(p) == <<p.local>> \o (IF p.hub THEN <<"hub">> ELSE <<>>) \o <<"json">>

\* The first of the paths that exists, {} when none does.
Existing(paths) ==
    LET there == {i \in DOMAIN paths : paths[i] \in DOMAIN disk}
    IN  {paths[i] : i \in {k \in there : \A j \in there : k <= j}}

Everywhere(p, kind, name) == [i \in DOMAIN Roots(p) |-> <<Roots(p)[i], kind, name>>]
TheOne(set) == CHOOSE x \in set : TRUE

ResolveApplicationPath(p, ref) ==
    Existing(IF ref.pinned THEN <<<<"json", "application", ref.name>>>>
             ELSE Everywhere(p, "application", ref.name))

ScanDir(root, kind) == {path[3] : path \in {q \in DOMAIN disk : q[1] = root /\ q[2] = kind}}

LocalNames(p, kind) ==
    IF p.names[kind] = {} THEN ScanDir(p.local, kind) ELSE TheOne(p.names[kind])
HubNames(p) == IF p.hub THEN ScanDir("hub", "application") ELSE {}
AllAppNames(p) ==
    LocalNames(p, "application") \cup HubNames(p) \cup ScanDir("json", "application")
AddonIds(p) == LocalNames(p, "addon") \cup ScanDir("json", "addon")
AllFrameworkNames(p) == LocalNames(p, "framework") \cup ScanDir("json", "framework")

Remember(p, kind) == [p EXCEPT !.names[kind] = {LocalNames(p, kind)}]

SourceOf(p, name) ==
    IF name \in LocalNames(p, "application") THEN p.local
    ELSE IF name \in HubNames(p) THEN "hub" ELSE "json"

\* The directories of an application, the overriding one first; behind them
\* the one the names' cache knows.
ApplicationPaths(p, ref) ==
    IF ref.pinned
    THEN Only(<<<<"json", "application", ref.name>>>>, DOMAIN disk)
    ELSE LET there  == Only(<<<<p.local, "application", ref.name>>,
                              <<"json", "application", ref.name>>>>, DOMAIN disk)
             cached == <<SourceOf(p, ref.name), "application", ref.name>>
         IN  IF ref.name \notin AllAppNames(p) \/ cached \in ToSet(there) THEN there
             ELSE Append(there, cached)

----------------------------------------------------------------------------
(* Reading an application and those it extends.                            *)

Ref(name) == [name |-> name, pinned |-> FALSE]
Applications == {path \in DOMAIN disk : path[2] = "application"}

\* One application more: `next' is empty when the chain ends.
ReadNext(p, read) ==
    LET ref == TheOne(read.next) found == ResolveApplicationPath(p, ref)
        Fail(error) == [read EXCEPT !.next = {}, !.errors = {<<error, ref.name>>}]
    IN  CASE read.next = {} -> read
          [] read.next # {} /\ found = {} -> Fail("not found")
          [] read.next # {} /\ found # {} /\ found \subseteq ToSet(read.chain) ->
               Fail("cyclic inheritance")
          [] OTHER -> [read EXCEPT !.chain = Append(@, TheOne(found)),
                                   !.next  = disk[TheOne(found)].is.extends]

\* The paths from the application to the one that extends none; an application
\* met twice ends it.
ReadChain(p, name) ==
    LET most == Cardinality(Applications) + 1
        read[n \in 0 .. most] ==
          IF n = 0 THEN [chain |-> <<>>, errors |-> {}, next |-> {Ref(name)}]
          ELSE ReadNext(p, read[n - 1])
    IN  read[most]

Without(entries, ids) == Only(entries, {e \in ToSet(entries) : e.id \notin ids})

\* A child's own entries replace the parent's; a property with a value or a
\* default becomes the default of the parameter that has none.
Inherit(parent, child) ==
    LET properties == Without(parent.properties, Ids(child.properties)) \o child.properties
        parameters == Without(parent.parameters, Ids(child.parameters)) \o child.parameters
        filled     == {q.id : q \in {r \in ToSet(properties) : r.value \/ r.default}}
    IN  [child EXCEPT !.properties = properties,
                      !.parameters = [i \in DOMAIN parameters |->
                          [parameters[i] EXCEPT !.default = @ \/ parameters[i].id \in filled]]]

\* chain: child first, not empty.
ReadApplication(chain) ==
    LET read[n \in 1 .. Len(chain)] ==
          LET file == disk[chain[Len(chain) - n + 1]].is
          IN  IF n = 1 THEN file ELSE Inherit(read[n - 1], file)
    IN  read[Len(chain)]

TaskLists(chain) ==
    TaskTemplates([i \in DOMAIN chain |-> disk[chain[Len(chain) - i + 1]].is.parts])

ListEntry(p, name) ==
    LET read == ReadChain(p, name)
    IN  [id |-> name, source |-> SourceOf(p, name), errors |-> read.errors,
         of |-> [i \in DOMAIN read.chain |-> disk[read.chain[i]]]]

BuildApplicationList(p) == {ListEntry(p, name) : name \in AllAppNames(p)}

----------------------------------------------------------------------------
(* Templates and scripts.                                                  *)

MeetNext(p, walk) ==
    LET ref == TheOne(walk.next) paths == ApplicationPaths(p, ref)
    IN  IF walk.next = {} THEN walk
        ELSE IF ref \in ToSet(walk.met) THEN [walk EXCEPT !.next = {}]
        ELSE [met  |-> Append(walk.met, ref),
              next |-> IF paths = <<>> \/ paths[1] \notin DOMAIN disk THEN {}
                       ELSE disk[paths[1]].is.extends]

\* The application and those it extends; one met twice ends it.
WalkHierarchy(p, name) ==
    LET most == Cardinality(Applications) + 2
        walk[n \in 0 .. most] ==
          IF n = 0 THEN [met |-> <<>>, next |-> {Ref(name)}] ELSE MeetNext(p, walk[n - 1])
    IN  walk[most].met

\* Found once, it is never looked up again.
Hierarchy(p, name) ==
    IF name \in DOMAIN p.hierarchy THEN p.hierarchy[name]
    ELSE WalkHierarchy(p, name)

\* Where the application's own files may be, then those of the applications
\* it extends, then those of all.
Homes(p, app) ==
    LET hierarchy == Hierarchy(p, app)
        Of(ref)   == [i \in DOMAIN ApplicationPaths(p, ref) |->
                        <<ApplicationPaths(p, ref)[i][1], ref.name>>]
    IN  FlattenSeq([i \in DOMAIN hierarchy |-> Of(hierarchy[i])])
        \o [i \in DOMAIN Roots(p) |-> <<Roots(p)[i], "shared">>]

Resolve(homes, kind, name) ==
    Existing([i \in DOMAIN homes |-> <<homes[i][1], kind, <<homes[i][2], name>>>>])

ResolveTemplateRef(homes, name) == Resolve(homes, "template", name)
ResolveScriptPath(homes, name)  == Resolve(homes, "script", name)

\* What a cache that compares the time of the file gives for it.
Revalidated(p, path) ==
    IF path \in DOMAIN p.cached /\ p.cached[path].at = disk[path].at
    THEN p.cached[path].is ELSE disk[path].is

\* Templates found under "json" are not looked at again.
GetTemplate(p, path) ==
    IF path[1] = "json" /\ path[3] \in DOMAIN p.preloaded
    THEN p.preloaded[path[3]] ELSE Revalidated(p, path)

\* Of the roots in the order json, hub, local the last one stays.
PreloadJsonResources(p) ==
    LET here  == {path \in DOMAIN disk : path[2] = "template" /\ path[1] \in ToSet(Roots(p))}
        First(key) == TheOne(Existing(Everywhere(p, "template", key)))
    IN  [p EXCEPT !.hierarchy = [n \in {} |-> <<>>],
                  !.preloaded = [key \in {path[3] : path \in here} |-> disk[First(key)].is]]

----------------------------------------------------------------------------
(* One load of an application's task.                                      *)

Owned(kind) == {path[3][2] : path \in {q \in DOMAIN disk : q[2] = kind}}

FilesFor(p, app) ==
    LET homes     == Homes(p, app)
        templates == {n \in Owned("template") : ResolveTemplateRef(homes, n) # {}}
        scripts   == [n \in {m \in Owned("script") : ResolveScriptPath(homes, m) # {}} |->
                        Revalidated(p, TheOne(ResolveScriptPath(homes, n)))]
    IN  [templates |-> [n \in templates |->
                          GetTemplate(p, TheOne(ResolveTemplateRef(homes, n)))],
         scripts   |-> scripts,
         libraries |-> scripts]

\* Addons are cached by their id, frameworks too.
CacheKey(kind, id) == <<"any", kind, id>>
PathOf(p, kind, id) == Existing(<<<<p.local, kind, id>>, <<"json", kind, id>>>>)

Cached(p, kind, id) ==
    LET key == CacheKey(kind, id) path == TheOne(PathOf(p, kind, id))
    IN  IF key \in DOMAIN p.cached /\ p.cached[key].at = disk[path].at
        THEN p.cached[key].is ELSE disk[path].is

AddonFiles(p, app) ==
    LET Shared(n) == Existing(Everywhere(p, "template", <<"shared", n>>))
        addons    == {path[3] : path \in {q \in DOMAIN disk : q[2] = "addon"}}
    IN  [addons  |-> [id \in {a \in addons : PathOf(p, "addon", a) # {}} |->
                        Cached(p, "addon", id)],
         shared  |-> [n \in {m \in Owned("template") : Shared(m) # {}} |->
                        Revalidated(p, TheOne(Shared(n)))],
         scripts |-> FilesFor(p, app).scripts]

\* A template met twice in any task makes every task's load fail.
LoadOf(p, app, task, inputs) ==
    LET read  == ReadChain(p, app)
        lists == TaskLists(read.chain)
        twice == UNION {{<<"twice", n>> : n \in lists[t].twice} : t \in DOMAIN lists}
    IN  IF read.chain = <<>> \/ task \notin DOMAIN lists
        THEN [commands |-> <<>>, processed |-> [n \in {} |-> {}],
              errors |-> read.errors \cup {<<"no task", task>>}]
        ELSE LoadApplication(ReadApplication(read.chain), lists[task].list,
                             FilesFor(p, app), inputs, read.errors \cup twice)

Answered(load, of, files, request, task) ==
    [load |-> load,
     plan |-> IF load.errors # {} THEN <<>>
              ELSE Plan(load.commands, files, request, task, of),
     gone |-> IF load.errors # {} THEN {} ELSE ToSet(Disabled(request, task, of.required))]

AddonInputs(addons, request) ==
    UNION {addons[id].properties : id \in ToSet(request.selected) \cap DOMAIN addons}

PlanOf(p, app, task, request) ==
    LET files == AddonFiles(p, app)
    IN  Answered(LoadOf(p, app, task, AddonInputs(files.addons, request)),
                 ReadApplication(ReadChain(p, app).chain), files, request, task)

\* The files a load opened are in the caches afterwards.
Remembered(p, app, load) ==
    LET homes     == Homes(p, app)
        ran       == {c \in ToSet(load.commands) : c.kind = "script"}
        scripts   == UNION {ResolveScriptPath(homes, c.of) : c \in ran}
        templates == UNION {ResolveTemplateRef(homes, n) : n \in DOMAIN load.processed}
        looked    == {path \in templates : ~(path[1] = "json" /\ path[3] \in DOMAIN p.preloaded)}
    IN  [Remember(p, "application") EXCEPT
            !.hierarchy = With(@, app, Hierarchy(p, app)),
            !.cached    = Over([path \in looked \cup scripts |-> disk[path]], @)]

----------------------------------------------------------------------------
(* A manager, its watchers, and the files under them.                      *)

\* The watched kinds are those whose directory was there.
NewManager(hub) ==
    PreloadJsonResources(
        [local     |-> "local", hub |-> hub, open |-> TRUE, watching |-> dirs,
         events    |-> {}, timer |-> FALSE, names |-> [k \in FileKinds |-> {}], list |-> {},
         cached    |-> [q \in {} |-> {}], hierarchy |-> [n \in {} |-> <<>>],
         preloaded |-> [n \in {} |-> {}]])

Closed(p) == [p EXCEPT !.open = FALSE, !.watching = {}, !.events = {}, !.timer = FALSE]

\* A change of an application's file or directory, of a shared template, a
\* framework or an addon under "local" is an event; a template or script of
\* an application's own is not.
Announces(path, kind) ==
    path[1] = "local" /\ path[2] = kind /\ (kind = "template" => path[3][1] = "shared")

Notified(path) ==
    [i \in DOMAIN pms |->
        [pms[i] EXCEPT !.events = @ \cup {k \in pms[i].watching : Announces(path, k)}]]

\* Only a directory that is there when the watchers start is watched.
WithDirectory(path) ==
    dirs \cup {k \in FileKinds : path[1] = "local" /\ path[2] = k}

Edit(path, content) ==
    /\ About(path[2]) /\ Spend("edit")
    /\ disk' = With(disk, path, [at |-> clock + 1, is |-> content])
    /\ clock' = clock + 1
    /\ dirs' = WithDirectory(path)
    /\ pms' = Notified(path)
    /\ UNCHANGED reading /\ answer' = {}

Delete(path) ==
    /\ About(path[2]) /\ Spend("edit")
    /\ path \in DOMAIN disk /\ path[1] \in {"local", "workspace"}
    /\ disk' = [q \in DOMAIN disk \ {path} |-> disk[q]]
    /\ pms' = Notified(path)
    /\ UNCHANGED <<clock, dirs, reading>> /\ answer' = {}

----------------------------------------------------------------------------
(* What the server does, one step at a time: no step of it begins while a  *)
(* file is being read, but a file may change meanwhile.                    *)

Idle == reading = {}

SetManager(i, p) == pms' = [pms EXCEPT ![i] = p]

InvalidateApplicationCache(p) == [p EXCEPT !.names["application"] = {}, !.list = {}]

\* Mutant: the names are read again, the contents are kept.
Forget_Names(p, kind) == [p EXCEPT !.names[kind] = {}]

Forget(p, kind) ==
    [p EXCEPT !.cached = [q \in {r \in DOMAIN @ : r[2] # kind} |-> @[q]],
              !.names[kind] = {}]

\* The event reaches the watcher's listener.
Deliver(i, kind) ==
    /\ Idle /\ i \in Open /\ kind \in pms[i].events
    /\ LET p == [pms[i] EXCEPT !.events = @ \ {kind}]
       IN  SetManager(i, IF kind = "application" THEN [p EXCEPT !.timer = TRUE]
                         ELSE Forget(p, kind))
    /\ UNCHANGED <<disk, clock, dirs, reading, budget>> /\ answer' = {}

\* 300 ms without another event.
DebouncedInvalidate(i) ==
    /\ Idle /\ i \in Open /\ pms[i].timer
    /\ SetManager(i, InvalidateApplicationCache([pms[i] EXCEPT !.timer = FALSE]))
    /\ UNCHANGED <<disk, clock, dirs, reading, budget>> /\ answer' = {}

WatcherFails(i, kind) ==
    /\ Idle /\ i \in Open /\ kind \in pms[i].watching /\ Spend("fail")
    /\ SetManager(i, [pms[i] EXCEPT !.watching = @ \ {kind}, !.events = @ \ {kind}])
    /\ UNCHANGED <<disk, clock, dirs, reading>> /\ answer' = {}

\* The routes of the frameworks and applications hold the first manager.
WriteApplication(app, content) ==
    LET path == <<pms[1].local, "application", app>>
    IN  /\ Idle /\ About("application") /\ Spend("edit")
        /\ disk' = With(disk, path, [at |-> clock + 1, is |-> content])
        /\ clock' = clock + 1
        /\ dirs' = WithDirectory(path)
        /\ pms' = [Notified(path) EXCEPT ![1] = InvalidateApplicationCache(@)]
        /\ UNCHANGED reading /\ answer' = {}

ListApplications ==
    /\ Idle /\ About("application") /\ pms[1].list = {}
    /\ SetManager(1, [Remember(pms[1], "application") EXCEPT
                         !.list = {BuildApplicationList(pms[1])}])
    /\ UNCHANGED <<disk, clock, dirs, reading, budget>> /\ answer' = {}

ListOthers(i, kind) ==
    /\ Idle /\ About(kind) /\ kind \in {"framework", "addon"} /\ pms[i].names[kind] = {}
    /\ SetManager(i, Remember(pms[i], kind))
    /\ UNCHANGED <<disk, clock, dirs, reading, budget>> /\ answer' = {}

LoadTask(app, task, request) ==
    LET p == pms[Current]
    IN  /\ Idle /\ Spend("load") /\ app \in AllAppNames(p)
        /\ request \in NoAddons \/ About("addon")
        /\ answer' = {PlanOf(p, app, task, request)}
        /\ SetManager(Current, Remembered(p, app, TheOne(answer').load))
        /\ UNCHANGED <<disk, clock, dirs, reading>>

\* By itself, into a container that runs.
InstallAddon(id) ==
    LET p == pms[1] files == AddonFiles(p, "")
        plan == InstallPlan(files, id)
    IN  /\ Idle /\ About("addon") /\ Spend("load") /\ id \in DOMAIN files.addons /\ plan # <<>>
        /\ answer' = {[load |-> Prepared([parameters |-> <<>>, properties |-> <<>>], {}),
                       plan |-> plan, gone |-> {}]}
        /\ SetManager(1, Remember(p, "addon"))
        /\ UNCHANGED <<disk, clock, dirs, reading>>

\* The cache has the time of the file and the read begins; frameworks of the
\* image are read again every time.
BeginRead(i, kind, id) ==
    LET p == pms[i] found == PathOf(p, kind, id) key == CacheKey(kind, id)
    IN  /\ Idle /\ About(kind) /\ Spend("read") /\ kind \in {"framework", "addon"} /\ found # {}
        /\ ~(key \in DOMAIN p.cached /\ p.cached[key].at = disk[TheOne(found)].at)
        /\ kind = "framework" => TheOne(found)[1] = p.local
        /\ reading' = {[by |-> i, key |-> key, path |-> TheOne(found),
                        is |-> disk[TheOne(found)].is]}
        /\ UNCHANGED <<disk, clock, dirs, pms>> /\ answer' = {}

\* The time noted is the one the file has after the read; a file that is gone
\* ends in an error.
FinishRead ==
    \E r \in reading :
        /\ reading' = {}
        /\ pms' = IF r.path \in DOMAIN disk
                  THEN [pms EXCEPT ![r.by].cached =
                          With(@, r.key, [at |-> disk[r.path].at, is |-> r.is])]
                  ELSE pms
        /\ UNCHANGED <<disk, clock, dirs, budget>> /\ answer' = {}

\* POST /api/reload: a new manager without a hub; the old one is closed.
Reload ==
    /\ Idle /\ Spend("reload")
    /\ pms' = Append([pms EXCEPT ![Current] = Closed(@)], NewManager(FALSE))
    /\ UNCHANGED <<disk, clock, dirs, reading>> /\ answer' = {}

\* The hub's workspace becomes the local root of the current manager.
RebindRepositoriesRoot ==
    /\ Idle /\ Spend("rebind") /\ pms[Current].local = "local"
    /\ SetManager(Current, PreloadJsonResources([pms[Current] EXCEPT !.local = "workspace"]))
    /\ UNCHANGED <<disk, clock, dirs, reading>> /\ answer' = {}

----------------------------------------------------------------------------

LibraryInit ==
    /\ disk = [path \in DOMAIN Initial |-> [at |-> 0, is |-> Initial[path]]]
    /\ clock = 0
    /\ dirs \in {{k \in FileKinds : ScanDir("local", k) # {}}, FileKinds}
    /\ pms = <<NewManager(HasHub)>>
    /\ reading = {}
    /\ answer = {}
    /\ budget \in Budgets

Outside ==
    \/ \E path \in DOMAIN Versions : \E content \in Versions[path] : Edit(path, content)
    \/ \E path \in DOMAIN Versions : Delete(path)
    \/ \E i \in DOMAIN pms, kind \in FileKinds : WatcherFails(i, kind)

Asked ==
    \/ \E app \in Written : \E content \in Versions[<<"local", "application", app>>] :
          WriteApplication(app, content)
    \/ ListApplications
    \/ \E i \in DOMAIN pms, kind \in FileKinds : ListOthers(i, kind)
    \/ \E app \in AllAppNames(pms[Current]) : 
          \E task \in Tasks, request \in Requests : LoadTask(app, task, request)
    \/ \E id \in AddonIds(pms[1]) : InstallAddon(id)
    \/ \E i \in DOMAIN pms : \E kind \in {"framework", "addon"} :
          \E id \in ScanDir("local", kind) \cup ScanDir("json", kind) : BeginRead(i, kind, id)
    \/ Reload
    \/ RebindRepositoriesRoot

Delivered == \E i \in DOMAIN pms, kind \in FileKinds : Deliver(i, kind)
Timer     == \E i \in DOMAIN pms : DebouncedInvalidate(i)

LibraryNext == Outside \/ Asked \/ Delivered \/ Timer \/ FinishRead

Fairness ==
    /\ \A kind \in FileKinds : \A i \in 1 .. 2 : WF_libraryVars(i \in DOMAIN pms /\ Deliver(i, kind))
    /\ \A i \in 1 .. 2 : WF_libraryVars(i \in DOMAIN pms /\ DebouncedInvalidate(i))
    /\ WF_libraryVars(FinishRead)

LibrarySpec == LibraryInit /\ [][LibraryNext]_libraryVars /\ Fairness

----------------------------------------------------------------------------

Watched(p, kind) == kind \in p.watching /\ p.local = "local"

NamesFresh(p, kind) == p.names[kind] \in {{}, {ScanDir(p.local, kind)}}

\* What a manager would answer from its caches is what is on disk.
UpToDate(p) ==
    /\ Watched(p, "application") =>
          /\ NamesFresh(p, "application")
          /\ p.list \in {{}, {BuildApplicationList([p EXCEPT !.names["application"] = {}])}}
    /\ \A kind \in {"framework", "addon"} : Watched(p, kind) =>
          /\ NamesFresh(p, kind)
          /\ \A path \in DOMAIN disk :
                LET key == CacheKey(kind, path[3])
                IN  (PathOf(p, kind, path[3]) = {path} /\ key \in DOMAIN p.cached
                     /\ p.cached[key].at = disk[path].at)
                        => p.cached[key].is = disk[path].is

(* The list of the applications, the names and the contents of addons and  *)
(* frameworks catch up with the files: once nobody changes them any more,  *)
(* the manager whose watchers run answers what is on disk, although a file *)
(* may change in the middle of a read (addon-persistence-handler.mts:123)  *)
(* and every change of an application puts the invalidation off            *)
(* (file-watcher-manager.mts:148).                                         *)
CatchesUp == <>[](\A i \in Open : UpToDate(pms[i]))

(* The commands of a task come in the order of the stages, whatever        *)
(* applications of a chain contribute them, by name or at the start of a   *)
(* stage (application-persistence-handler.mts:1054); what addons add comes *)
(* at its stage as well, and each addon's notes are written under its own  *)
(* id (webapp-ve-addon-command-builder.mts:377).                           *)
CommandsInStageOrder ==
    \A a \in answer :
        /\ InStageOrder(a.load.commands)
        /\ AddonsAtTheirStage(a.plan)
        /\ NotesOfTheirAddon(a.plan, a.gone)

Supplied(load, i, v) ==
    \/ v \in BuiltInVariables \cup load.inputs \cup Ids(load.parameters)
    \/ \E j \in DOMAIN load.commands :
          LET from == load.commands[j] by == load.commands[i]
          IN  /\ v \in from.gives /\ from.skipped \in {"", "look-ahead"}
              /\ j <= i \/ from.template \in by.within

(* A task that loads without an error has for each variable in the text of *)
(* a script or command that runs somebody who gives it a value: the user,  *)
(* the application, or a command of a template that is not skipped, before *)
(* it or, as templates announce what they give when they begin, in one it  *)
(* is nested in (templateprocessor.mts:544, 609).  The look-ahead that     *)
(* drops a stage whose followers are all skipped is left out.              *)
VariablesHaveASource ==
    \A load \in {a.load : a \in {b \in answer : b.load.errors = {}}} :
        \A i \in DOMAIN load.commands :
            load.commands[i].skipped = "" =>
                \A v \in load.commands[i].uses : Supplied(load, i, v)
=============================================================================

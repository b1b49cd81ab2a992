------------------------------- MODULE Stacks -------------------------------
(****************************************************************************)
(* Stacks: the shared secrets of one stacktype, the pages that edit them,   *)
(* the refresh that carries a changed value to the containers and the scan  *)
(* that restores a lost stack from them.                                    *)
(*                                                                          *)
(* A stack lives in the store of the deployer, or on a hub.  The local      *)
(* provider hands out the stored object itself, so a request that keeps it  *)
(* shares its entries with the store until somebody replaces them (`era`).  *)
(* The remote provider hands out copies.  Nothing locks a stack: a save, a  *)
(* refresh of minutes and a finishing installation each read it, work and   *)
(* write all of it back.                                                    *)
(*                                                                          *)
(* A container may keep a variable in several places, and under a name of   *)
(* its own in each: what it declares of its use is where a refresh patches  *)
(* it and under which names a restore looks for it.                         *)
(****************************************************************************)
EXTENDS Naturals, Functions

CONSTANTS
    Ids,         \* stack ids: one stacktype, one id per stack name
    Default,     \* the id of the stack that a page creates on its own
    Vars,        \* the variables of the stacktype
    Types,       \* the stacktypes to look at: which variables are external
    Pages,       \* browser tabs with the stacks page or the create dialog
    Clients,     \* runs of the command line client, which save stacks as well
    Containers,  \* containers an installation may create
    HostOf,      \* the host of each container
    BoundTo,     \* the stack id in the notes of each container
    Places,      \* the places where containers keep variables
    Place,       \* each place: its container, variable, method and name there
    MaxValues,   \* bound on the values that are generated or typed in
    MaxMoves     \* bound on what operators set off on the server

Hosts == Range(HostOf)
Methods == {"compose-env", "lxc-config-env", "on-start-env", "env-file",
            "manual", "no-action", "rerun-template"}

ASSUME StackAssumptions ==
    /\ Default \in Ids
    /\ \A t \in Types : t.required \subseteq t.external /\ t.external \subseteq Vars
    /\ BoundTo \in [Containers -> Ids]
    /\ DOMAIN HostOf = Containers
    /\ DOMAIN Place = Places
    /\ \A u \in Places : /\ Place[u].container \in Containers /\ Place[u].var \in Vars
                         /\ Place[u].method \in Methods
                         /\ DOMAIN Place[u] = {"container", "var", "method", "name"}
    /\ MaxValues \in Nat \ {0} /\ MaxMoves \in Nat
    /\ Vars # {"none"}   \* so that None is nobody's entries

Senders == Pages \cup Clients

Blank == 0
Values == 0 .. MaxValues
Entries == [Vars -> Values]
None == [none |-> TRUE]

(* A stored stack: its entries and the array they are kept in (0: a copy).  *)
Stack == [entries : Entries, era : Nat]
EntriesOf(s) == IF s = None THEN None ELSE s.entries

VARIABLES
    externals, \* variables whose value the operator must give, not the deployer
    required, \* those of them that a save is refused without
    onHub,    \* BOOLEAN: the stacks are on a hub and reached by HTTP
    stacks,   \* Ids -> Stack or None
    era,      \* number of entry arrays made so far
    minted,   \* number of values generated or typed in so far
    pages,    \* Pages -> the list the tab loaded and the form of a restore
    posts,    \* Senders -> the save under way on the server, or None
    jobs,     \* Vars -> the refresh of that variable under way, or None
    scan,     \* the restore scan under way or its result, or None
    has,      \* Places -> the value there, if the container is installed
    installed, \* containers that exist
    up,       \* those of them that run
    coming,   \* Containers -> the entries of an installation under way, or None
    collects, \* Containers -> the stack read to store its provided values, or None
    moves,    \* number of saves, refreshes, scans and the like so far
    wrote,    \* history: what those who wrote each stack made of it, or None
    restored  \* history: the findings that the form of its last save came from

kind == <<externals, required, onHub>>
store == <<stacks, era, wrote, restored>>

hosts == <<has, installed, up>>

stackVars == <<kind, store, minted, pages, posts, jobs, scan, hosts, coming,
               collects, moves>>

(* The places of a container, and those in one of its files: what is        *)
(* patched in another way is in another file.                               *)
PlacesOf(c) == {u \in Places : Place[u].container = c}
FileOf(u) == {w \in PlacesOf(Place[u].container) : Place[w].method = Place[u].method}

(* Nothing is stored yet, or the default stack is, its containers use it,   *)
(* and it may have been changed since.                                      *)
StacksInit ==
    /\ \E t \in Types : externals = t.external /\ required = t.required
    /\ onHub \in BOOLEAN
    /\ \E used \in BOOLEAN, newest \in {1, MaxValues} :
         /\ stacks = [i \in Ids |-> IF used /\ i = Default
                        THEN [entries |-> [v \in Vars |-> newest], era |-> 1] ELSE None]
         /\ installed = {c \in Containers : used /\ BoundTo[c] = Default}
         /\ up = installed
         /\ has = [u \in Places |-> IF Place[u].container \in installed THEN 1 ELSE Blank]
         /\ era = IF used THEN 1 ELSE 0
         /\ minted = IF used THEN newest ELSE 0
    /\ moves = 0
    /\ pages = [p \in Pages |-> [list |-> None, form |-> None]]
    /\ posts = [p \in Senders |-> None]
    /\ jobs = [v \in Vars |-> None]
    /\ scan = None
    /\ coming = [c \in Containers |-> None]
    /\ collects = [c \in Containers |-> None]
    /\ wrote = [i \in Ids |-> EntriesOf(stacks[i])]
    /\ restored = [i \in Ids |-> {}]

(* With the local provider the awaits of a save resolve at once: no other   *)
(* request of the deployer runs between its read and its write.             *)
Free == onHub \/ \A p \in Senders : posts[p] = None

------------------------------------------------------------------------------
(* The store.                                                               *)

(* getStack: the object itself on the deployer, a copy from the hub.        *)
FromHub(id) == IF stacks[id] = None THEN None ELSE [stacks[id] EXCEPT !.era = 0]

\* Mutant: the local provider hands out copies as well.
Read_Copies(id) == FromHub(id)

Read(id) == IF onHub THEN FromHub(id) ELSE stacks[id]

(* A refresh of one of these stacks that has read it is overtaken.          *)
Overtaken(ids) ==
    [v \in Vars |-> IF jobs[v] # None /\ jobs[v].id \in ids
                    THEN [jobs[v] EXCEPT !.late = jobs[v].held # None] ELSE jobs[v]]

(* deleteStack, and what history says of it.                                *)
Removed(ids) ==
    /\ stacks' = [i \in Ids |-> IF i \in ids THEN None ELSE stacks[i]]
    /\ wrote' = [i \in Ids |-> IF i \in ids THEN None ELSE wrote[i]]
    /\ restored' = [i \in Ids |-> IF i \in ids THEN {} ELSE restored[i]]
    /\ jobs' = Overtaken(ids)

------------------------------------------------------------------------------
(* The stacks page and the create dialog.                                   *)

Load(p) ==
    /\ Free
    /\ pages' = [pages EXCEPT ![p].list = [i \in Ids |-> EntriesOf(stacks[i])]]
    /\ UNCHANGED <<kind, store, minted, posts, jobs, scan, hosts, coming,
                   collects, moves>>

(* What a form can send: a listed stack or a new one, as it is, with one    *)
(* value typed in or blanked, or under another name; or what a restore      *)
(* filled in.                                                               *)
Fresh(id) == [from |-> {}, name |-> id, entries |-> [v \in Vars |-> Blank], found |-> {}]
Listed(p, id) == [from |-> {id}, name |-> id, entries |-> pages[p].list[id], found |-> {}]

Forms(p) == {Fresh(id) : id \in Ids}
            \cup {Listed(p, id) : id \in {i \in Ids : pages[p].list[i] # None}}

Typed(f) == {[f EXCEPT !.entries[v] = x] : v \in Vars, x \in {Blank, minted + 1}}
            \cup {[f EXCEPT !.name = id] : id \in Ids}

(* A page whose list has no default stack creates it, unless the stacktype  *)
(* has values of the operator.                                              *)
AutoDefault(p) == IF pages[p].list[Default] = None /\ externals = {}
                  THEN {Fresh(Default)} ELSE {}

Bodies(p) == (UNION {Typed(f) : f \in Forms(p)}) \cup AutoDefault(p)
             \cup (IF pages[p].form = None THEN {} ELSE {pages[p].form})

(* Where a save looks for what it replaces: under the new id, or else under *)
(* the id the form came from.                                               *)
PriorId(body) ==
    LET known == {i \in body.from : stacks[body.name] = None}
    IN IF known = {} THEN body.name ELSE CHOOSE i \in known : TRUE

(* The save arrives at the server.                                          *)
Received(s, body) ==
    /\ Free /\ posts[s] = None
    /\ posts' = [posts EXCEPT ![s] = [body |-> body, prior |-> Read(PriorId(body))]]

(* The save of a restored form is part of the move that began the restore.  *)
SaveRead(p) ==
    /\ pages[p].list # None
    /\ \E body \in Bodies(p) :
         /\ \A v \in Vars : body.entries[v] <= MaxValues
         /\ minted' = IF \E v \in Vars : body.entries[v] = minted + 1
                      THEN minted + 1 ELSE minted
         /\ Received(p, body)
         /\ \/ body = pages[p].form /\ moves' = moves
            \/ body # pages[p].form /\ moves < MaxMoves /\ moves' = moves + 1
    /\ pages' = [pages EXCEPT ![p].form = None]
    /\ UNCHANGED <<kind, store, jobs, scan, hosts, coming, collects>>

PriorValue(prior, v) == IF prior = None THEN Blank ELSE prior[v]

(* A blank secret keeps the prior value, or gets a generated one; a blank   *)
(* external value stays blank.                                              *)
Filled(body, prior, new) ==
    [v \in Vars |->
        CASE body.entries[v] # Blank \/ v \in externals -> body.entries[v]
          [] OTHER -> IF PriorValue(prior, v) # Blank THEN PriorValue(prior, v) ELSE new]

(* Renaming deletes the old id first, so a save refused for a missing       *)
(* external value has already lost the stack under its old name.  History   *)
(* fills the blanks of the form with what was written last.                 *)
SaveWrite(s) ==
    /\ posts[s] # None
    /\ LET body == posts[s].body
           id == body.name
           left == body.from \ {id}
           prior == EntriesOf(posts[s].prior)
           mints == \E v \in Vars \ externals : body.entries[v] = Blank
                                               /\ PriorValue(prior, v) = Blank
       IN \/ /\ \E v \in required : body.entries[v] = Blank
             /\ Removed(left)
             /\ UNCHANGED <<era, minted>>
          \/ /\ \A v \in required : body.entries[v] # Blank
             /\ mints => minted < MaxValues
             /\ minted' = IF mints THEN minted + 1 ELSE minted
             /\ era' = era + 1
             /\ stacks' = [i \in Ids |->
                    CASE i = id -> [entries |-> Filled(body, prior, minted + 1),
                                    era |-> era + 1]
                      [] i \in left -> None
                      [] OTHER -> stacks[i]]
             /\ wrote' = [i \in Ids |->
                    CASE i = id -> Filled(body, wrote[PriorId(body)], minted + 1)
                      [] i \in left -> None
                      [] OTHER -> wrote[i]]
             /\ restored' = [i \in Ids |->
                    CASE i = id -> body.found [] i \in left -> {} [] OTHER -> restored[i]]
             /\ jobs' = Overtaken(left \cup {id})
    /\ posts' = [posts EXCEPT ![s] = None]
    /\ UNCHANGED <<kind, pages, scan, hosts, coming, collects, moves>>

Delete ==
    /\ moves < MaxMoves
    /\ Free
    /\ \E id \in Ids : stacks[id] # None /\ Removed({id})
    /\ moves' = moves + 1
    /\ UNCHANGED <<kind, era, minted, pages, posts, scan, hosts, coming, collects>>

------------------------------------------------------------------------------
(* The refresh: the dialog sends one request per entry, all at once, with   *)
(* the values of the list it was opened from.  It counts as two moves.      *)

StartRefresh(p) ==
    /\ moves + 1 < MaxMoves
    /\ pages[p].list # None
    /\ \A v \in Vars : jobs[v] = None
    /\ \E id \in {i \in Ids : pages[p].list[i] # None} :
         jobs' = [v \in Vars |->
             [id |-> id, new |-> pages[p].list[id][v], held |-> None, late |-> FALSE,
              todo |-> {}, at |-> None, ok |-> FALSE, error |-> FALSE]]
    /\ moves' = moves + 2
    /\ UNCHANGED <<kind, store, minted, pages, posts, scan, hosts, coming, collects>>

(* findRefreshTargets: the containers of the host that is selected by then  *)
(* which are bound to the stack, each with all places of the variable.      *)
Targets(host, id, v) ==
    {u \in Places : /\ Place[u].var = v /\ Place[u].container \in installed
                    /\ HostOf[Place[u].container] = host
                    /\ BoundTo[Place[u].container] = id}

(* The request arrives and reads the stack, if there is one.                *)
ReadForRefresh(v) ==
    /\ Free
    /\ jobs[v] # None /\ jobs[v].held = None
    /\ \E host \in Hosts :
         jobs' = [jobs EXCEPT ![v] =
             IF stacks[jobs[v].id] = None THEN None
             ELSE [jobs[v] EXCEPT !.held = Read(jobs[v].id),
                                  !.todo = Targets(host, jobs[v].id, v)]]
    /\ UNCHANGED <<kind, store, minted, pages, posts, scan, hosts, coming,
                   collects, moves>>

Patching == {"compose-env", "lxc-config-env", "on-start-env", "env-file"}

(* One action of the refresh, the places one after another: nothing to do   *)
(* counts as done, a deprecated method as failed; the others run a script   *)
(* that reads the file first.                                               *)
Act(v) ==
    /\ jobs[v] # None /\ jobs[v].at = None
    /\ \E u \in jobs[v].todo :
         jobs' = [jobs EXCEPT ![v] = [jobs[v] EXCEPT
             !.todo = jobs[v].todo \ {u},
             !.ok = jobs[v].ok \/ Place[u].method \in {"manual", "no-action"},
             !.error = jobs[v].error \/ Place[u].method = "rerun-template",
             !.at = IF Place[u].method \in Patching
                    THEN [place |-> u, file |-> [w \in FileOf(u) |-> has[w]]] ELSE None]]
    /\ UNCHANGED <<kind, store, minted, pages, posts, scan, hosts, coming,
                   collects, moves>>

(* The .env file is inside the container and reached only while it runs.    *)
Reachable(u) == Place[u].container \in up \/ Place[u].method # "env-file"

(* The script writes back the whole file it read, with the new value.       *)
Patched(at, new) ==
    [w \in Places |-> CASE w = at.place -> new
                        [] w # at.place /\ w \in DOMAIN at.file -> at.file[w]
                        [] OTHER -> has[w]]

Patch(v) ==
    /\ jobs[v] # None /\ jobs[v].at # None
    /\ \/ /\ Reachable(jobs[v].at.place)
          /\ has' = Patched(jobs[v].at, jobs[v].new)
          /\ jobs' = [jobs EXCEPT ![v] = [jobs[v] EXCEPT !.at = None, !.ok = TRUE]]
       \/ /\ jobs' = [jobs EXCEPT ![v] = [jobs[v] EXCEPT !.at = None, !.error = TRUE]]
          /\ has' = has
    /\ UNCHANGED <<kind, store, minted, pages, posts, scan, installed, up, coming,
                   collects, moves>>

(* The end of a refresh: with one success the value is stored, in the stack *)
(* that was read at the start.  That stack is written back, also over a     *)
(* save or a deletion that came between.                                    *)
Refreshed(v) == [jobs[v].held EXCEPT !.entries[v] = jobs[v].new]

(* A request that holds the same array sees the value too; the others are   *)
(* overtaken by a refresh that was overtaken itself.                        *)
SameArray(v, w) == jobs[w].held.era # 0 /\ jobs[w].held.era = jobs[v].held.era

Beside(v, w) ==
    CASE w = v -> None
      [] w # v /\ (jobs[w] = None \/ jobs[w].held = None) -> jobs[w]
      [] OTHER -> [jobs[w] EXCEPT
                     !.held = IF SameArray(v, w) THEN [@ EXCEPT !.entries[v] = jobs[v].new]
                              ELSE @,
                     !.late = jobs[w].late \/ jobs[v].late]

EndRefresh(v) ==
    /\ Free
    /\ jobs[v] # None /\ jobs[v].held # None
    /\ jobs[v].at = None /\ jobs[v].todo = {}
    /\ IF jobs[v].ok
       THEN LET id == jobs[v].id
            IN /\ stacks' = [stacks EXCEPT ![id] = Refreshed(v)]
               /\ wrote' = [wrote EXCEPT ![id] =
                      IF jobs[v].late THEN Refreshed(v).entries
                      ELSE [@ EXCEPT ![v] = jobs[v].new]]
               /\ restored' = [restored EXCEPT ![id] = {}]
               /\ jobs' = [w \in Vars |-> Beside(v, w)]
       ELSE /\ jobs' = [jobs EXCEPT ![v] = None]
            /\ UNCHANGED <<stacks, wrote, restored>>
    /\ UNCHANGED <<kind, era, minted, pages, posts, scan, hosts, coming,
                   collects, moves>>

------------------------------------------------------------------------------
(* Installations: the values are taken from the stack when the run is       *)
(* prepared and written into the container when it ends.                    *)

Install(c) ==
    /\ Free
    /\ c \notin installed /\ coming[c] = None
    /\ stacks[BoundTo[c]] # None
    /\ coming' = [coming EXCEPT ![c] = stacks[BoundTo[c]].entries]
    /\ UNCHANGED <<kind, store, minted, pages, posts, jobs, scan, hosts,
                   collects, moves>>

Installed(c) ==
    /\ coming[c] # None
    /\ has' = [u \in Places |->
           IF u \in PlacesOf(c) THEN coming[c][Place[u].var] ELSE has[u]]
    /\ installed' = installed \cup {c} /\ up' = up \cup {c}
    /\ coming' = [coming EXCEPT ![c] = None]
    /\ collects' = [collects EXCEPT ![c] = IF onHub THEN FromHub(BoundTo[c]) ELSE None]
    /\ UNCHANGED <<kind, store, minted, pages, posts, jobs, scan, moves>>

(* collectAndStoreProvides writes the stack back with what the container    *)
(* provides.  On the deployer it does so in the turn in which it reads it,  *)
(* which leaves the entries as they are.                                    *)
StoreProvides(c) ==
    /\ collects[c] # None
    /\ stacks' = [stacks EXCEPT ![BoundTo[c]] = collects[c]]
    /\ wrote' = [wrote EXCEPT ![BoundTo[c]] = collects[c].entries]
    /\ restored' = [restored EXCEPT ![BoundTo[c]] = {}]
    /\ collects' = [collects EXCEPT ![c] = None]
    /\ UNCHANGED <<kind, era, minted, pages, posts, jobs, scan, hosts, coming, moves>>

(* Somebody starts or stops a container.                                    *)
Power(c) ==
    /\ moves < MaxMoves
    /\ c \in installed
    /\ up' = IF c \in up THEN up \ {c} ELSE up \cup {c}
    /\ moves' = moves + 1
    /\ UNCHANGED <<kind, store, minted, pages, posts, jobs, scan, has, installed,
                   coming, collects>>

------------------------------------------------------------------------------
(* Restoring a stack that the deployer lost, from the containers.           *)

(* The deployer comes up without its store.                                 *)
LoseStore ==
    /\ moves < MaxMoves
    /\ ~onHub /\ Free
    /\ \A v \in Vars : jobs[v] = None
    /\ Removed(Ids)
    /\ moves' = moves + 1
    /\ UNCHANGED <<kind, era, minted, pages, posts, scan, hosts, coming, collects>>

StartScan(p) ==
    /\ moves < MaxMoves
    /\ scan = None
    /\ pages[p].list # None
    /\ \E f \in Forms(p) : pages' = [pages EXCEPT ![p].form = f]
    /\ scan' = [page |-> p, hosts |-> Hosts, found |-> {}]
    /\ moves' = moves + 1
    /\ UNCHANGED <<kind, store, minted, posts, jobs, hosts, coming, collects>>

(* The scan looks for each name in the container's configuration, then in   *)
(* its on-start scripts, then in its compose files, and takes the first     *)
(* place that has it; a .env file is not looked at.  The scripts or the     *)
(* compose files may not be readable (`blind`).                             *)
Searched == <<"lxc-config-env", "on-start-env", "compose-env">>
MayBeBlind == {"on-start-env", "compose-env"}

Before(m, n) == \E i, j \in DOMAIN Searched : i < j /\ Searched[i] = m /\ Searched[j] = n

Looked(c, blind) == {u \in PlacesOf(c) : Place[u].method \in Range(Searched) \ blind}

FirstOf(c, blind) ==
    {u \in Looked(c, blind) : \A w \in Looked(c, blind) :
        Place[w].name = Place[u].name => ~Before(Place[w].method, Place[u].method)}

(* Every running consumer of the stacktype counts, whichever stack its      *)
(* notes name.                                                              *)
Sources(h) == {c \in up : HostOf[c] = h}

(* What a container says.                                                   *)
Findings(c, blind) == {[place |-> u, value |-> has[u]] : u \in FirstOf(c, blind)}

(* A host answers or cannot be asked.                                       *)
ScanHost ==
    /\ scan # None
    /\ \E h \in scan.hosts :
         \/ \E blind \in [Sources(h) -> SUBSET MayBeBlind] :
               scan' = [scan EXCEPT !.hosts = @ \ {h}, !.found = @ \cup
                           UNION {Findings(c, blind[c]) : c \in Sources(h)}]
         \/ scan' = [scan EXCEPT !.hosts = @ \ {h}]
    /\ UNCHANGED <<kind, store, minted, pages, posts, jobs, hosts, coming,
                   collects, moves>>

ValuesFound(v) == {f.value : f \in {g \in scan.found : Place[g.place].var = v}}

\* Mutant: of several values one is taken.
Agreed_First(v) == v \in Vars

Agreed(v) == \A x, y \in ValuesFound(v) : x = y

Restored(v) == IF ValuesFound(v) = {} THEN Blank
               ELSE CHOOSE x \in ValuesFound(v) : TRUE

(* The form is filled with the values found, and blank where none was; two  *)
(* values of one variable abort the restore.                                *)
EndScan ==
    /\ scan # None /\ scan.hosts = {}
    /\ IF pages[scan.page].form # None /\ \A v \in Vars : Agreed(v)
       THEN pages' = [pages EXCEPT ![scan.page].form =
                [@ EXCEPT !.entries = [v \in Vars |-> Restored(v)], !.found = scan.found]]
       ELSE pages' = pages
    /\ scan' = None
    /\ UNCHANGED <<kind, store, minted, posts, jobs, hosts, coming, collects, moves>>

------------------------------------------------------------------------------
StacksNext ==
    \/ \E p \in Pages : Load(p) \/ SaveRead(p)
    \/ \E s \in Senders : SaveWrite(s)
    \/ Delete
    \/ \E p \in Pages : StartRefresh(p)
    \/ \E v \in Vars : ReadForRefresh(v) \/ Act(v) \/ Patch(v) \/ EndRefresh(v)
    \/ \E c \in Containers : Install(c) \/ Installed(c) \/ StoreProvides(c) \/ Power(c)
    \/ LoseStore
    \/ \E p \in Pages : StartScan(p)
    \/ ScanHost \/ EndScan

StacksSpec == StacksInit /\ [][StacksNext]_stackVars

------------------------------------------------------------------------------
(* Properties.                                                              *)

(* The shape of the stored stacks, of the requests, the pages and the       *)
(* containers.                                                              *)
Finding == [place : Places, value : Values]
Body == [from : SUBSET Ids, name : Ids, entries : Entries, found : SUBSET Finding]
Page == [list : {None} \cup [Ids -> {None} \cup Entries], form : {None} \cup Body]
Post == [body : Body, prior : {None} \cup Stack]
Script == UNION {[place : {u}, file : [FileOf(u) -> Values]] : u \in Places}
Job  == [id : Ids, new : Values, held : {None} \cup Stack, late : BOOLEAN,
         todo : SUBSET Places, at : {None} \cup Script, ok : BOOLEAN, error : BOOLEAN]
Scan == [page : Pages, hosts : SUBSET Hosts, found : SUBSET Finding]

StacksTypeOK ==
    /\ externals \subseteq Vars /\ required \subseteq externals /\ onHub \in BOOLEAN
    /\ stacks \in [Ids -> {None} \cup Stack]
    /\ era \in Nat /\ minted \in Values /\ moves \in 0 .. MaxMoves
    /\ pages \in [Pages -> Page] /\ posts \in [Senders -> {None} \cup Post]
    /\ jobs \in [Vars -> {None} \cup Job] /\ scan \in {None} \cup Scan
    /\ has \in [Places -> Values] /\ up \subseteq installed /\ installed \subseteq Containers
    /\ coming \in [Containers -> {None} \cup Entries]
    /\ collects \in [Containers -> {None} \cup Stack]
    /\ restored \in [Ids -> SUBSET Finding]

(* On the deployer a stack holds what was written to it last: the values of *)
(* the last save, its blank secrets as they were and not generated anew,    *)
(* and each value a refresh has stored since.  Tabs, clients, the refreshes *)
(* of one dialog and installations that end between never take a value back *)
(* or bring one back, with one exception: a refresh that read the stack     *)
(* before somebody saved or deleted it writes back all that it read.  (A    *)
(* form that was loaded long ago is a save like any other, and what it      *)
(* holds is what its sender wrote: stack-refresh-routes.mts:112-131,        *)
(* webapp-stack-routes.mts:81-155.)                                         *)
StoredAsWritten == ~onHub => \A i \in Ids : EntriesOf(stacks[i]) = wrote[i]

(* A stack that was saved from the form of a restore holds every value that *)
(* a running container gave when it was asked, by whatever name it keeps    *)
(* it: containers that disagree, since a refresh reached only some of them  *)
(* or went on during the scan, stop the restore.  The places that the scan  *)
(* does not look at, behind the first one of a name or unreadable, are not  *)
(* covered (stack-restore-service.mts:137-186).                             *)
RestoredFits ==
    \A i \in Ids : stacks[i] # None =>
        \A f \in restored[i] :
            f.value # Blank => stacks[i].entries[Place[f.place].var] = f.value
==============================================================================

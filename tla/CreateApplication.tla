-------------------------- MODULE CreateApplication --------------------------
(***************************************************************************)
(* The wizard that creates an application (create-application.ts, its      *)
(* steps and create-application-state.service.ts) and the deployer that    *)
(* writes it (frameworkloader.mts, webapp-framework-routes.mts).           *)
(*                                                                         *)
(* `page' is the wizard's state; a method of the wizard is an operator on  *)
(* it.  `page.jobs' are the file readers, timers and HTTP requests under   *)
(* way: each goes on with the page it then finds.  Steps: 0 framework, 1   *)
(* properties, 2 parameters, 3 summary.  A control's value is a set, {}    *)
(* when it is blank.  `apps' are the deployer's local applications and     *)
(* `requests' those to create one, of this page and of others.             *)
(***************************************************************************)
EXTENDS ComposeFile

CONSTANTS
    ComposeText,        \* the compose files the user has, by their name
    EnvText,            \* the .env files, by their name
    Images,             \* image references the user types
    Annotations,        \* [image -> what its annotations propose for a control]
    ParameterText,      \* [parameter -> default, a string as in a compose file]
    Loaded,             \* [framework -> parameters the wizard asks for]
    Unresolved,         \* [framework -> parameters asked for at installation]
    Properties,         \* [framework -> properties of the framework]
    EditableProperties, \* those marked default in the framework's JSON
    Mandatory,          \* required parameters
    Ids,                \* application ids
    Budgets             \* bounds: [step -> what the user does in it, going back
                        \* included, and 4 -> requests of other pages]

Compose   == "docker-compose"
OciImage  == "oci-image"
Framework == {Compose, OciImage}

\* Every framework's properties can be written without a parameter: only the
\* content of an upload has no definition in the base application.
Upload == "upload_content"

ASSUME ParametersAreKnown ==
    \A f \in Framework : Loaded[f] \cup Unresolved[f] \subseteq DOMAIN ParameterText
ASSUME ContentComesWithTheFile ==
    \A f \in Framework : Upload \notin Loaded[f] \cup Unresolved[f] \cup Properties[f]

\* What a registry tells of an image concerns no file (framework-from-image.mts:298).
ASSUME ImagesProposeNoFile ==
    \A image \in DOMAIN Annotations : "env_file" \notin DOMAIN Annotations[image].values

VARIABLES page, apps, requests, edits

wizardVars == <<page, apps, requests, edits>>

None == {}
Empty == [c \in {} |-> {}]          \* a form without controls
The(set) == CHOOSE x \in set : TRUE
Text(s) == IF s = Blank THEN {} ELSE {s}

Merge(f, g) == [c \in DOMAIN f \cup DOMAIN g |-> IF c \in DOMAIN g THEN g[c] ELSE f[c]]
Filled(f)   == [c \in {d \in DOMAIN f : f[d] # {}} |-> f[c]]

----------------------------------------------------------------------------
(* The page.                                                               *)

OciCompose(p) == p.framework = OciImage /\ p.mode = "compose"

Value(p, c) == IF c \in DOMAIN p.form THEN p.form[c] ELSE {}

Set(p, c, v) == IF c \in DOMAIN p.form THEN [p EXCEPT !.form[c] = v] ELSE p

\* A control that does not exist yet gets its value when the parameters come.
SetOrKeep(p, c, v) ==
    IF c \in DOMAIN p.form THEN Set(p, c, v)
    ELSE [p EXCEPT !.pending = Merge(@, [d \in {c} |-> v])]

AddControl(p, c, v) ==
    IF c \in DOMAIN p.form THEN p ELSE [p EXCEPT !.form = Merge(@, [d \in {c} |-> v])]

Job(p, job) == [p EXCEPT !.jobs = @ \cup {job}]

EnvOf(p) ==
    IF Value(p, "env_file") = {} THEN EnvFileText(<<>>)
    ELSE EnvFile(EnvText[The(Value(p, "env_file"))])

\* Defaults may refer to variables of the .env file.
ParameterDefault(p, c) ==
    IF c \in DOMAIN ParameterText /\ c \in p.parameters
    THEN Text(Resolve(ParameterText[c], EnvOf(p))) ELSE {}

ResetControls(p, kept) ==
    [p EXCEPT !.form = [c \in DOMAIN @ |->
                           IF c \in kept THEN @[c] ELSE ParameterDefault(p, c)]]

ParsedServices(p) == {ServiceSet(ComposeText[f]) : f \in p.parsed}
HasServices(p) == p.parsed # {} /\ ComposeText[The(p.parsed)].services # <<>>

SelectedService(p) ==
    LET services == ComposeText[The(p.parsed)].services IN
    IF p.service = Blank THEN services[1]
    ELSE The({s \in ServiceSet(ComposeText[The(p.parsed)]) : s.name = p.service})

EffectiveEnvs(p) == EffectiveEnvironment(SelectedService(p), EnvOf(p))

StringOf(p, field) == {s \in Strings(SelectedService(p)) : s.at = field}

----------------------------------------------------------------------------
(* What is derived from the compose file.                                  *)

OciImageParameter(p, image) ==
    IF image = {} THEN p ELSE SetOrKeep(p, "oci_image", image)

ImageFromCompose(p) ==
    IF StringOf(p, "image") = {} THEN p
    ELSE LET image == Text(Resolve(The(StringOf(p, "image")), EffectiveEnvs(p)))
             q == [p EXCEPT !.overtaken = FALSE] IN
         IF image = p.image THEN q
         ELSE OciImageParameter([q EXCEPT !.image = image, !.typed = {image}], image)

CommandFromCompose(p) ==
    IF StringOf(p, "command") = {} THEN p
    ELSE SetOrKeep(p, "initial_command",
                   Text(Resolve(The(StringOf(p, "command")), EffectiveEnvs(p))))

\* uid stands for uid and gid.
UserFromCompose(p) ==
    IF StringOf(p, "user") = {} THEN p
    ELSE LET user == Text(Resolve(The(StringOf(p, "user")), EffectiveEnvs(p))) IN
         IF user = {} THEN p ELSE SetOrKeep(p, "uid", user)

EnvsFromCompose(p) ==
    LET envs == EffectiveEnvs(p) IN
    IF DOMAIN envs = {} THEN p
    ELSE SetOrKeep(p, "envs", {<<v, envs[v]>> : v \in DOMAIN envs})

FieldsFromService(p) ==
    IF ~OciCompose(p) \/ ~HasServices(p) THEN p
    ELSE EnvsFromCompose(UserFromCompose(CommandFromCompose(ImageFromCompose(p))))

MissingVars(p, env) == {v \in p.required : ~Given(v, env)}

RequiredVars(p) ==
    LET all == CASE p.parsed = {}             -> {}
                 [] p.framework = Compose     -> AllRequired(The(ParsedServices(p)))
                 [] OciCompose(p) /\ HasServices(p) -> ServiceRequired(SelectedService(p))
                 [] OTHER                     -> {}
        q == [p EXCEPT !.required = all] IN
    [q EXCEPT !.missing = MissingVars(q, EnvOf(q))]

EnvFileNeeded(p) ==
    IF "env_file" \notin DOMAIN p.form THEN p
    ELSE IF p.framework = Compose /\ p.missing # {}
         THEN [p EXCEPT !.validated = @ \cup {"env_file"}]
         ELSE [p EXCEPT !.validated = @ \ {"env_file"}]

RefreshEnvSummary(p) == EnvFileNeeded(RequiredVars(p))

ComposeFileRequired(p, needed) ==
    IF "compose_file" \notin DOMAIN p.form THEN p
    ELSE [p EXCEPT !.validated = IF needed THEN @ \cup {"compose_file"}
                                 ELSE @ \ {"compose_file"}]

EnsureComposeControls(p) ==
    AddControl(AddControl(ComposeFileRequired(AddControl(p, "compose_file", {}), TRUE),
                          "env_file", {}), "volumes", {})

----------------------------------------------------------------------------
(* Clearing, and the parameters of a framework.                            *)

ClearForCompose(p) ==
    LET q == ResetControls(p, {"compose_file", "env_file"}) IN
    [q EXCEPT !.image = IF OciCompose(p) THEN {} ELSE @,
              !.parsed = {}, !.service = Blank]

ClearForEnv(p) ==
    IF OciCompose(p) THEN ResetControls(p, {"compose_file", "env_file"}) ELSE p

ClearForImage(p) ==
    LET q == ResetControls(p, {"compose_file", "env_file", "volumes", "envs", "uid",
                               "initial_command"}) IN
    [q EXCEPT !.id = {}, !.annotated = {}]

\* A hostname that is blank or the id before follows the application's id.
SyncHostname(p) ==
    LET Follow(form) ==
            [c \in DOMAIN form |->
                IF c = "hostname" /\ form[c] \in {{}, p.lastId} THEN p.id ELSE form[c]] IN
    IF p.id = {} THEN p
    ELSE [p EXCEPT !.form = Follow(@), !.install = Follow(@), !.lastId = p.id]

\* Only what is blank takes a proposal.
FillFromAnnotations(p, image) ==
    LET found == Annotations[image]
        q == [p EXCEPT !.id = IF @ = {} THEN found.id ELSE @,
                       !.form = [c \in DOMAIN @ |->
                           IF @[c] = {} /\ c \in DOMAIN found.values
                           THEN found.values[c] ELSE @[c]]] IN
    IF q.image # {} /\ Value(q, "oci_image") = {} THEN Set(q, "oci_image", q.image) ELSE q

FetchAnnotations(p, image) ==
    Job(ClearForImage(p), [kind |-> "annotate", image |-> image])

Preserved(p) ==
    IF p.framework = Compose THEN {"compose_file", "env_file", "volumes", "envs"}
    ELSE {"oci_image", "volumes", "envs"}
         \cup (IF OciCompose(p) THEN {"compose_file", "env_file"} ELSE {})

\* The form is made anew with some of its controls; all its values wait with the
\* request for the parameters.
LoadParameters(p) ==
    LET q == [p EXCEPT !.parameters = {}, !.validated = {},
                       !.form = [c \in Preserved(p) |-> Value(p, c)]]
        r == IF p.framework = Compose THEN EnvFileNeeded(ComposeFileRequired(q, TRUE))
             ELSE q IN
    Job(r, [kind |-> "parameters", framework |-> p.framework, kept |-> Filled(p.form)])

\* The response is taken for the framework the page has by then, and the values
\* are those from before the request: also the .env file, though another may have
\* been read since (`overtaken', a history field, until the fields are derived).
ParametersLoaded(p, job) ==
    LET ids  == Loaded[job.framework]
        new  == ids \ DOMAIN p.form
        q    == [p EXCEPT !.parameters = ids]
        made == Merge([c \in new |-> ParameterDefault(q, c)], p.form)
        Late(c) == IF c \in DOMAIN Filled(p.pending) THEN p.pending[c]
                   ELSE IF c \in DOMAIN job.kept THEN job.kept[c] ELSE made[c]
        r    == [q EXCEPT !.form = [c \in DOMAIN made |-> Late(c)],
                          !.pending = Empty,
                          !.validated = @ \cup (new \cap Mandatory)]
        o    == [r EXCEPT !.overtaken = @ \/ Value(r, "env_file") # Value(p, "env_file")]
        s    == SyncHostname(EnvFileNeeded(o)) IN
    IF p.framework = Compose THEN Job(s, [kind |-> "hydrate"]) ELSE s

Hydrate(p) ==
    IF Value(p, "compose_file") = {} THEN p
    ELSE LET file == The(Value(p, "compose_file"))
             q == IF ~ComposeText[file].readable THEN p ELSE
                  [p EXCEPT !.parsed = {file},
                            !.service = IF OciCompose(p) /\ ComposeText[file].services # <<>>
                                        THEN ComposeText[file].services[1].name ELSE @] IN
         EnvFileNeeded(IF Parsed(ComposeText[file]) = {} THEN q ELSE FieldsFromService(q))

----------------------------------------------------------------------------
(* Step 2: the parameters that stay open, and what becomes of each.        *)

CollectValues(p) ==
    LET asked == Filled([c \in p.parameters \cap DOMAIN p.form |-> p.form[c]])
        ensured == IF p.framework # Compose THEN Empty
                   ELSE Filled([c \in {"compose_file", "env_file", "volumes"}
                                        \cap DOMAIN p.form |-> p.form[c]]) IN
    Merge(Merge(ensured, asked), Filled(p.install))

PreviewBody(p) ==
    [kind |-> "preview", framework |-> p.framework, values |-> CollectValues(p),
     uploads |-> p.uploads]

DefaultClasses(ids, f) ==
    [c \in ids |-> IF c \notin Properties[f] THEN "install"
                   ELSE IF c \in EditableProperties THEN "default" ELSE "value"]

\* A default as the template has it.
RawDefault(c) ==
    IF c = Upload THEN {}
    ELSE IF IsReference(ParameterText[c]) THEN {"reference"}
    ELSE Text(ParameterText[c].text)

\* The deployer puts the values of the request in as defaults.
OpenParameters(body) ==
    LET ids == Unresolved[body.framework] \cup body.uploads IN
    [c \in ids |-> IF c \in DOMAIN body.values THEN body.values[c]
                   ELSE RawDefault(c)]

\* An error stays until the next request.
InstallLoaded(p, body) ==
    [p EXCEPT !.install = OpenParameters(body),
              !.preview = IF @ = "failed" THEN @ ELSE "shown",
              !.classes = DefaultClasses(DOMAIN OpenParameters(body), body.framework)]

\* What the user has seen and chosen, for every parameter with a value.
Chosen(p) ==
    [c \in {d \in DOMAIN Filled(p.install) : p.classes[d] # "install"} |->
        <<p.classes[c], p.install[c]>>]

FormValid(p) ==
    /\ p.id # {}
    /\ \A c \in p.validated \cap DOMAIN p.form : p.form[c] # {}

CreateBody(p) ==
    [id |-> The(p.id), update |-> FALSE, framework |-> p.framework,
     values |-> CollectValues(p),
     classes |-> [c \in {d \in DOMAIN p.classes : p.classes[d] # "install"} |->
                    p.classes[c]],
     uploads |-> p.uploads, own |-> TRUE, asked |-> Chosen(p)]

NewState ==
    [framework |-> None, mode |-> "compose", step |-> 0, form |-> Empty,
     parameters |-> {}, pending |-> Empty, validated |-> {}, image |-> {},
     parsed |-> {}, service |-> Blank, required |-> {}, missing |-> {},
     typed |-> {}, seen |-> {}, annotated |-> {}, id |-> {}, lastId |-> {},
     install |-> Empty, classes |-> Empty, uploads |-> {}, jobs |-> {},
     preview |-> "shown", overtaken |-> FALSE, reached |-> 0, saving |-> FALSE, left |-> FALSE]

\* The framework oci-image is chosen when the page opens.
Fresh == EnsureComposeControls([NewState EXCEPT !.framework = OciImage])

----------------------------------------------------------------------------
(* The deployer: a request for a new application becomes its properties    *)
(* (fixed), its parameters (with a default) and its upload templates.      *)

Defined(req) == Loaded[req.framework] \cup Unresolved[req.framework]

Target(req, c) == IF c \in DOMAIN req.classes THEN req.classes[c] ELSE "unclassified"

\* Mutant: the framework's mark wins over the user's choice.
AsParameter_MarkWins(req, c) ==
    IF c \in EditableProperties THEN c \in Defined(req) ELSE Target(req, c) = "default"

\* A framework property without a class of its own is a parameter when the
\* framework marks it so.
AsParameter(req, c) ==
    IF c \in Properties[req.framework]
    THEN /\ c \in Defined(req)
         /\ \/ Target(req, c) = "default"
            \/ /\ Target(req, c) = "unclassified"
               /\ \/ c \in EditableProperties
                  \/ req.framework = Compose /\ c = "hostname"
    ELSE /\ c \in DOMAIN req.values \cap Defined(req)
         /\ \/ Target(req, c) = "default"
            \/ Target(req, c) = "unclassified" /\ req.values[c] # RawDefault(c)

AsProperty(req, c) ==
    /\ c \in DOMAIN req.values
    /\ IF c \in Properties[req.framework]
       THEN Target(req, c) # "install" /\ ~AsParameter(req, c)
       ELSE Target(req, c) = "value"

Initial(req, c) == IF c \in DOMAIN req.values THEN req.values[c] ELSE RawDefault(c)

StoredParameters(req) ==
    LET ids == {c \in DOMAIN req.values \cup Properties[req.framework] :
                  AsParameter(req, c)} IN
    [c \in ids |-> IF c = "hostname" /\ Initial(req, c) = {} THEN {req.id}
                   ELSE Initial(req, c)]

StoredProperties(req) ==
    [c \in {d \in DOMAIN req.values : AsProperty(req, d)} |-> req.values[c]]

\* A compose file and an .env file are always fixed; the compose file is offered
\* as a parameter as well.
ComposeHandling(req, app) ==
    LET files == {c \in {"compose_file", "env_file"} :
                    /\ c \in DOMAIN req.values
                    /\ req.framework = Compose \/ c = "env_file"}
        offered == {c \in files : /\ c = "compose_file" /\ c \in Defined(req)
                                  /\ c \notin DOMAIN app.parameters} IN
    [app EXCEPT !.properties = Merge(@, [c \in files |-> req.values[c]]),
                !.parameters = Merge(@, [c \in offered |-> req.values[c]])]

EnsureHostname(req, app) ==
    IF "hostname" \in DOMAIN req.values \cup DOMAIN app.properties THEN app
    ELSE [app EXCEPT !.properties = Merge(@, [c \in {"hostname"} |-> {req.id}])]

ApplicationJson(req) ==
    EnsureHostname(req, ComposeHandling(req,
        [properties |-> StoredProperties(req), parameters |-> StoredParameters(req),
         framework |-> req.framework, templates |-> Empty, listed |-> {},
         asked |-> req.asked, own |-> req.own]))

\* Templates and scripts are written before application.json lists them.
WithTemplates(req, app) ==
    [app EXCEPT !.templates = [c \in req.uploads |->
                                IF c \in DOMAIN req.values THEN req.values[c] ELSE {}]]
WithUploads(req, app) == [WithTemplates(req, app) EXCEPT !.listed = req.uploads]

\* Mutant: the wizard's form has checked the id already.
Occupied_ByForm(req) == FALSE

Occupied(req) == req.id \in DOMAIN apps

WriteApplication(req, app) ==
    apps' = [i \in DOMAIN apps \cup {req.id} |-> IF i = req.id THEN app ELSE apps[i]]

Answer(req, answer) ==
    /\ requests' = requests \ {req}
    /\ page' = CASE ~req.own          -> page
                 [] answer = "created" -> [Fresh EXCEPT !.left = TRUE]
                 [] OTHER             -> [page EXCEPT !.saving = FALSE]
    /\ UNCHANGED edits

Conflict(req) ==
    /\ Occupied(req) /\ ~req.update
    /\ UNCHANGED apps
    /\ Answer(req, "conflict")

\* Everything behind the await of the base application's parameters.
Create(req) ==
    /\ ~Occupied(req) \/ req.update
    /\ WriteApplication(req, WithUploads(req, ApplicationJson(req)))
    /\ Answer(req, "created")

\* A failing write leaves what was written; an update has removed the directory.
CreateFails(req) ==
    /\ ~Occupied(req) \/ req.update
    /\ \/ apps' = [i \in DOMAIN apps \ {req.id} |-> apps[i]]
       \/ WriteApplication(req, ApplicationJson(req))
       \/ WriteApplication(req, WithTemplates(req, ApplicationJson(req)))
    /\ Answer(req, "failed")

----------------------------------------------------------------------------
(* What the user does.                                                     *)

WizardInit ==
    /\ page = Fresh
    /\ apps = [i \in {} |-> Fresh] /\ requests = {} /\ edits \in Budgets

\* A timer without delay runs before the next input or response.
TimerDue == \E job \in page.jobs : job.kind \in {"fields", "hydrate", "fill", "open"}

Edit(step, p) ==
    /\ ~page.left /\ ~TimerDue /\ page.step = step /\ edits[step] > 0
    /\ edits' = [edits EXCEPT ![step] = @ - 1] /\ page' = p
    /\ UNCHANGED <<apps, requests>>

SelectFramework(f) ==
    LET p == [page EXCEPT !.framework = f, !.image = {}, !.parsed = {},
                          !.service = Blank, !.mode = "compose"] IN
    f # page.framework /\ Edit(0, EnsureComposeControls(p))

ModeChanged(p) ==
    IF p.mode = "compose" THEN EnsureComposeControls(p)
    ELSE RefreshEnvSummary(EnvFileNeeded(ComposeFileRequired(p, FALSE)))

ChangeMode(mode) ==
    LET p == [page EXCEPT !.mode = mode, !.parsed = {}, !.service = Blank] IN
    /\ page.framework = OciImage /\ mode # page.mode
    /\ Edit(0, ModeChanged(p))

\* Clearing the fields precedes the reading of the file.
SelectCompose(file) ==
    /\ page.framework = Compose \/ OciCompose(page)
    /\ Edit(0, Job(ClearForCompose(page), [kind |-> "compose", file |-> file]))

SelectEnv(file) ==
    /\ page.framework = Compose \/ OciCompose(page)
    /\ Edit(0, Job(ClearForEnv(page), [kind |-> "env", file |-> file]))

SelectService(name) ==
    LET p == [page EXCEPT !.service = name] IN
    /\ OciCompose(page) /\ HasServices(page)
    /\ name \in {s.name : s \in The(ParsedServices(page))} \ {page.service}
    /\ Edit(0, EnvFileNeeded(FieldsFromService(p)))

TypeImage(image) ==
    /\ page.framework = OciImage /\ page.mode = "image"
    /\ Edit(0, [page EXCEPT !.image = {image}, !.typed = {{image}}])

TypeId(id) == Edit(1, SyncHostname([page EXCEPT !.id = {id}]))

AddUpload == page.uploads = {} /\ Edit(2, [page EXCEPT !.uploads = {Upload}])

\* A value of the user's own: volumes and environments are sets of pairs.
Entered(c) ==
    CASE c = "volumes" -> {<<<<"own">>, "own">>}
      [] c = "envs"    -> {<<"own", "own">>}
      [] OTHER         -> {"own"}

\* The parameters are shown when no request for them is awaited or has failed.
EnterValue(c, v) ==
    /\ page.preview = "shown" /\ c \in DOMAIN page.install /\ v # page.install[c]
    /\ Edit(2, [page EXCEPT !.install[c] = v])

Classify(c, target) ==
    /\ page.preview = "shown" /\ c \in DOMAIN page.classes /\ target # page.classes[c]
    /\ Edit(2, [page EXCEPT !.classes[c] = target])

Retry ==
    /\ page.preview = "failed"
    /\ Edit(2, Job([page EXCEPT !.preview = "loading"], PreviewBody(page)))

\* The stepper's heads lead to any step whose predecessors were left and are valid.
\* Forward from the framework the parameters are asked for and what the image
\* proposed is filled in again; forward to the parameters asks for those open.
StepChange(step) ==
    /\ ~page.left /\ ~TimerDue /\ step # page.step /\ step <= page.reached + 1
    /\ step >= 2 => page.id # {}
    /\ step = 3 => FormValid(page)
    /\ step < page.step => edits[page.step] > 0
    /\ LET p == [page EXCEPT !.step = step,
                              !.reached = IF step > @ THEN step ELSE @]
           q == IF page.step = 0 /\ step = 1 THEN LoadParameters(p) ELSE p
           r == IF page.step = 0 /\ step = 1 /\ p.annotated # {}
                THEN Job(q, [kind |-> "fill", image |-> The(p.annotated)]) ELSE q IN
       page' = IF step = 2 /\ page.step < 2 THEN Job(r, [kind |-> "open"]) ELSE r
    /\ edits' = IF step < page.step THEN [edits EXCEPT ![page.step] = @ - 1] ELSE edits
    /\ UNCHANGED <<apps, requests>>

Save ==
    /\ ~page.left /\ ~TimerDue /\ page.step = 3 /\ ~page.saving /\ FormValid(page)
    /\ requests' = requests \cup {CreateBody(page)}
    /\ page' = [page EXCEPT !.saving = TRUE]
    /\ UNCHANGED <<apps, edits>>

----------------------------------------------------------------------------
(* What goes on by itself.                                                 *)

Goes(job, p) ==
    /\ ~page.left /\ job \in page.jobs
    /\ TimerDue => job.kind \in {"fields", "hydrate", "fill", "open"}
    /\ page' = [p EXCEPT !.jobs = (p.jobs \ {job}) \cup (p.jobs \ page.jobs)]
    /\ UNCHANGED <<apps, requests, edits>>

ComposeRead(job) ==
    LET p == Set(page, "compose_file", {job.file})
        text == ComposeText[job.file]
        volumes == ComposeVolumes(text.mounts)
        q == [p EXCEPT !.parsed = {job.file}]
        r == IF volumes # {} /\ Value(q, "volumes") = {}
             THEN SetOrKeep(q, "volumes", volumes) ELSE q
        t == IF OciCompose(r) /\ text.services # <<>>
             THEN FieldsFromService([r EXCEPT !.service = text.services[1].name]) ELSE r IN
    /\ job.kind = "compose"
    /\ Goes(job, IF text.readable THEN RefreshEnvSummary(EnvFileNeeded(RequiredVars(t))) ELSE p)

\* Mutant: the fields are not derived anew.
EnvRead_Only(job) ==
    LET p == Set(page, "env_file", {job.file}) IN
    /\ job.kind = "env"
    /\ Goes(job, EnvFileNeeded([p EXCEPT !.missing = MissingVars(p, EnvOf(p))]))

EnvRead(job) ==
    LET p == Set(page, "env_file", {job.file})
        q == [p EXCEPT !.missing = MissingVars(p, EnvOf(p))] IN
    /\ job.kind = "env"
    /\ Goes(job, Job(EnvFileNeeded(q), [kind |-> "fields"]))

FieldsTimer(job) == job.kind = "fields" /\ Goes(job, FieldsFromService(page))

HydrateTimer(job) == job.kind = "hydrate" /\ Goes(job, Hydrate(page))

FillTimer(job) == job.kind = "fill" /\ Goes(job, FillFromAnnotations(page, job.image))

ParametersCome(job) == job.kind = "parameters" /\ Goes(job, ParametersLoaded(page, job))

OpenTimer(job) ==
    /\ job.kind = "open"
    /\ Goes(job, Job([page EXCEPT !.preview = "loading"], PreviewBody(page)))

PreviewComes(job) == job.kind = "preview" /\ Goes(job, InstallLoaded(page, job))

\* Half a second without typing: an image other than the last is looked up.
Debounced ==
    /\ ~page.left /\ ~TimerDue /\ page.typed # {}
    /\ LET image == The(page.typed)
           p == [page EXCEPT !.typed = {}, !.seen = {image}] IN
       page' = IF {image} = page.seen THEN [page EXCEPT !.typed = {}]
               ELSE IF image = {} THEN Set(p, "oci_image", {})
               ELSE FetchAnnotations(OciImageParameter(p, image), The(image))
    /\ UNCHANGED <<apps, requests, edits>>

\* The registry knows the image.
AnnotationsCome(job) ==
    /\ job.kind = "annotate" /\ job.image \in DOMAIN Annotations
    /\ Goes(job, FillFromAnnotations([page EXCEPT !.annotated = {job.image}], job.image))

\* A request that fails changes nothing but what is said, and hides the parameters
\* that are open.
RequestFails(job) ==
    /\ job.kind \in {"annotate", "parameters", "preview"}
    /\ Goes(job, IF job.kind = "preview" THEN [page EXCEPT !.preview = "failed"] ELSE page)

\* Another page, or the command line client, asks for an application. Requests
\* that ended before this page's user is done are as if they came then.
OtherAsks(id, update) ==
    /\ page.step = 3 /\ edits[4] > 0 /\ edits' = [edits EXCEPT ![4] = @ - 1]
    /\ requests' = requests \cup
         {[id |-> id, update |-> update, framework |-> OciImage, values |-> Empty,
           classes |-> Empty, uploads |-> {}, own |-> FALSE, asked |-> Empty]}
    /\ UNCHANGED <<page, apps>>

UserEdits ==
    \/ \E f \in Framework : SelectFramework(f)
    \/ \E mode \in {"image", "compose"} : ChangeMode(mode)
    \/ \E file \in DOMAIN ComposeText : SelectCompose(file)
    \/ \E file \in DOMAIN EnvText : SelectEnv(file)
    \/ \E p \in page.parsed : \E s \in ServiceSet(ComposeText[p]) : SelectService(s.name)
    \/ \E image \in Images : TypeImage(image)
    \/ \E id \in Ids : TypeId(id)
    \/ AddUpload \/ Retry
    \/ \E c \in DOMAIN page.install : \E v \in {{}, Entered(c)} : EnterValue(c, v)
    \/ \E c \in DOMAIN page.classes, t \in {"install", "default", "value"} : Classify(c, t)

GoesOn ==
    \E job \in page.jobs :
        \/ ComposeRead(job) \/ EnvRead(job) \/ FieldsTimer(job) \/ HydrateTimer(job)
        \/ FillTimer(job) \/ ParametersCome(job) \/ OpenTimer(job) \/ PreviewComes(job)
        \/ AnnotationsCome(job) \/ RequestFails(job)

WizardNext ==
    \/ UserEdits \/ GoesOn \/ Debounced \/ Save
    \/ \E step \in 0 .. 3 : StepChange(step)
    \/ \E id \in Ids, update \in BOOLEAN : OtherAsks(id, update)
    \/ \E req \in requests : Conflict(req) \/ Create(req) \/ CreateFails(req)

WizardSpec == WizardInit /\ [][WizardNext]_wizardVars

----------------------------------------------------------------------------
(* Properties.                                                             *)

\* At rest in compose mode the image shown is the one the compose file gives the
\* selected service with the .env file there is, whatever was chosen, in which
\* order the files were read, and what was shown before
\* (create-application-state.service.ts:649). Only a late answer to the request for
\* the parameters may have put an older .env file back since.
AtRest(p) == p.jobs = {} /\ p.typed = {}

ImageOfTheFiles ==
    /\ AtRest(page) /\ OciCompose(page) /\ HasServices(page)
    /\ StringOf(page, "image") # {} /\ ~page.overtaken
    => page.image = Text(Resolve(The(StringOf(page, "image")), EffectiveEnvs(page)))

\* What the user marks as fixed is stored as a property and what is marked as
\* editable as a parameter's default, each with the value that was shown
\* (frameworkloader.mts:290), but for the two files, which are always fixed, and
\* for what is to be editable of the parameters of a framework chosen before: the
\* page shows them until the answer for the new one comes.
AsChosen(app) ==
    \A c \in DOMAIN app.asked \ {"compose_file", "env_file"} :
        LET target == app.asked[c][1]
            value  == app.asked[c][2] IN
        IF target = "value"
        THEN /\ c \in DOMAIN app.properties /\ app.properties[c] = value
             /\ c \notin DOMAIN app.parameters
        ELSE \/ c \notin Defined(app) /\ c # Upload
             \/ /\ c \notin DOMAIN app.properties
                /\ \/ c \in DOMAIN app.parameters /\ app.parameters[c] = value
                   \/ c = Upload /\ (c \in app.listed => app.templates[c] = value)

StoredAsChosen == \A i \in DOMAIN apps : AsChosen(apps[i])

\* An application that is there changes or goes only by a request that says it
\* is an update, although several pages check the same id before they ask
\* (frameworkloader.mts:273).
CreateNeverReplaces ==
    [][\A i \in DOMAIN apps :
         (IF i \in DOMAIN apps' THEN apps'[i] # apps[i] ELSE TRUE)
         => \E r \in requests \ requests' : r.id = i /\ r.update]_wizardVars

=============================================================================

----------------------------- MODULE ComposeFile -----------------------------
(***************************************************************************)
(* What the application wizard reads out of a docker-compose file and an   *)
(* .env file (docker-compose.service.ts).                                  *)
(*                                                                         *)
(* A compose file is a sequence of services, each with its strings in      *)
(* file order, and the volumes of all of them.  A string of a service is a *)
(* literal or one reference to a variable: $V and ${V} ("plain"), ${V:-d}  *)
(* ("colon") and ${V-d} ("dash").  Its place is "image", "command", "user" *)
(* or the key of its environment.  An .env file is the sequence of its     *)
(* lines.                                                                  *)
(***************************************************************************)
EXTENDS Sequences, Naturals, FiniteSets

Fields == {"image", "command", "user"}

Blank == ""

IsReference(str) == str.form # "literal"

\* The variable of a string, its default, and whether a value has to be given:
\* a blank default is none.
VarRefs(str) ==
    [vars     |-> IF IsReference(str) THEN {str.var} ELSE {},
     defaults |-> IF str.form \in {"colon", "dash"} /\ str.text # Blank
                  THEN {<<str.var, str.text>>} ELSE {},
     required |-> IF IsReference(str) /\ (str.form = "plain" \/ str.text = Blank)
                  THEN {str.var} ELSE {}]

Given(var, env) == var \in DOMAIN env /\ env[var] # Blank

\* ":-" takes its default for an empty variable too, "-" only for an unset one.
\* The first pattern takes ${V}, the last one $V: both are blank without value.
Resolve(str, env) ==
    CASE str.form = "literal" -> str.text
      [] str.form = "plain"   -> IF Given(str.var, env) THEN env[str.var] ELSE Blank
      [] str.form = "colon"   -> IF Given(str.var, env) THEN env[str.var] ELSE str.text
      [] str.form = "dash"    -> IF str.var \in DOMAIN env THEN env[str.var] ELSE str.text

----------------------------------------------------------------------------
(* The .env file: comments and lines without a key are skipped, and of two *)
(* lines with one key the last counts.                                     *)

EnvFileText(text) ==
    LET keys == {text[k].key : k \in DOMAIN text} \ {Blank} IN
    [v \in keys |->
        text[CHOOSE k \in DOMAIN text :
                /\ text[k].key = v
                /\ \A l \in k + 1 .. Len(text) : text[l].key # v].value]

\* An unreadable file, or none, gives no variables.
EnvFile(file) == IF file.readable THEN EnvFileText(file.lines) ELSE EnvFileText(<<>>)

----------------------------------------------------------------------------
(* A service: its variables, those it requires, and its defaults, of which *)
(* the first in the file counts.                                           *)

Strings(svc) == {svc.strings[k] : k \in DOMAIN svc.strings}

EnvironmentKeys(svc) == {str.at : str \in Strings(svc)} \ Fields

ServiceVariables(svc) ==
    EnvironmentKeys(svc) \cup UNION {VarRefs(str).vars : str \in Strings(svc)}

ServiceRequired(svc) == UNION {VarRefs(str).required : str \in Strings(svc)}

ServiceDefaults(svc) ==
    LET Gives(k, v) == \E d \in VarRefs(svc.strings[k]).defaults : d[1] = v
        named == {v \in ServiceVariables(svc) : \E k \in DOMAIN svc.strings : Gives(k, v)} IN
    [v \in named |->
        svc.strings[CHOOSE k \in DOMAIN svc.strings :
                        Gives(k, v) /\ \A l \in 1 .. k - 1 : ~Gives(l, v)].text]

\* Of all services: a default counts when those that have one agree on it.
GlobalDefaults(services) ==
    LET values(v) == {ServiceDefaults(s)[v] : s \in {t \in services :
                                                v \in DOMAIN ServiceDefaults(t)}}
        agreed == {v \in UNION {DOMAIN ServiceDefaults(s) : s \in services} :
                     Cardinality(values(v)) = 1} IN
    [v \in agreed |-> CHOOSE d \in values(v) : TRUE]

AllVariables(services) == UNION {ServiceVariables(s) : s \in services}

AllRequired(services) == UNION {ServiceRequired(s) : s \in services}

----------------------------------------------------------------------------
(* Volumes: the key of a host path is the volume's name, a relative path   *)
(* with its slashes replaced, or the last part of an absolute one; the     *)
(* first mount under a key counts.                                         *)

VolumeKey(mount) ==
    CASE mount.kind = "named"    -> <<mount.path[1]>>
      [] mount.kind = "relative" -> IF mount.path = <<>> THEN <<"data">> ELSE mount.path
      [] mount.kind = "absolute" -> IF mount.path = <<>> THEN <<"data">>
                                    ELSE <<mount.path[Len(mount.path)]>>

ComposeVolumes(mounts) ==
    {<<VolumeKey(mounts[k]), mounts[k].target>> :
        k \in {l \in DOMAIN mounts :
                 \A j \in 1 .. l - 1 : VolumeKey(mounts[j]) # VolumeKey(mounts[l])}}

----------------------------------------------------------------------------
ServiceSet(file) == {file.services[k] : k \in DOMAIN file.services}

\* What parsing tells the wizard; a file that is no YAML tells nothing ({}).
Parsed(file) ==
    IF ~file.readable THEN {}
    ELSE {[services    |-> file.services,
           variables   |-> AllVariables(ServiceSet(file)),
           required    |-> AllRequired(ServiceSet(file)),
           defaults    |-> GlobalDefaults(ServiceSet(file)),
           volumes     |-> ComposeVolumes(file.mounts)]}

\* What a service runs with: the .env file before the file's own defaults
\* before the literals of its environment; a variable without any is blank.
EffectiveEnvironment(svc, env) ==
    LET defaults == ServiceDefaults(svc)
        Own(v) == CHOOSE str \in Strings(svc) : str.at = v IN
    [v \in ServiceVariables(svc) |->
        IF v \in DOMAIN env THEN env[v]
        ELSE IF v \in DOMAIN defaults THEN defaults[v]
        ELSE IF v \in EnvironmentKeys(svc) THEN Resolve(Own(v), env)
        ELSE Blank]

=============================================================================

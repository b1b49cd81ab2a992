------------------------- MODULE MCCreateApplication -------------------------
(* Two compose files whose image depends on the .env file in one case, and  *)
(* two services of one file; what the shipped frameworks ask for, reduced   *)
(* to the controls the wizard treats differently.                           *)
EXTENDS CreateApplication, TLC

Lit(at, text)      == [at |-> at, form |-> "literal", var |-> Blank, text |-> text]
Ref(at, form, var, text) == [at |-> at, form |-> form, var |-> var, text |-> text]

MCCompose ==
    "stack" :> [readable |-> TRUE,
                mounts |-> <<[kind |-> "named", path |-> <<"data">>, target |-> "var"]>>,
                services |-> <<[name |-> "web", strings |->
                                  <<Ref("image", "colon", "IMAGE", "nginx"),
                                    Ref("command", "plain", "CMD", Blank),
                                    Lit("CMD", "run")>>],
                               [name |-> "db", strings |->
                                  <<Lit("image", "pg"), Ref("user", "dash", "USER", "70")>>]>>]
    @@ "app" :> [readable |-> TRUE, mounts |-> <<>>,
                 services |-> <<[name |-> "one", strings |->
                                   <<Ref("image", "plain", "IMAGE", Blank)>>]>>]

MCEnv ==
    "env" :> [readable |-> TRUE, lines |-> <<[key |-> "IMAGE", value |-> "redis"],
                                             [key |-> "USER", value |-> Blank]>>]
    @@ "test.env" :> [readable |-> TRUE, lines |-> <<[key |-> "IMAGE", value |-> "nginx"]>>]

MCAnnotations == [i \in {"redis", "nginx", "pg"} |->
                    [id |-> {i}, values |-> [c \in {"hostname"} |-> {i}]]]

MCParameters ==
    [c \in {"hostname", "compose_file", "env_file", "volumes", "envs", "oci_image", "uid",
            "initial_command", "disk"} |->
       IF c = "disk" THEN Lit(c, "4")
       ELSE IF c = "uid" THEN Ref(c, "colon", "USER", "0") ELSE Lit(c, Blank)]

MCLoaded ==
    "docker-compose" :> {"hostname", "compose_file", "env_file", "volumes"}
    @@ "oci-image" :> {"hostname", "oci_image", "uid", "volumes", "envs", "initial_command"}

MCUnresolved ==
    "docker-compose" :> {"hostname", "disk"} @@ "oci-image" :> {"volumes", "oci_image", "disk"}

MCEditable == {"volumes", "envs"}
Budget(a, b, c, o) ==
    [s \in 0 .. 4 |-> CASE s = 0 -> a [] s = 1 -> b [] s = 2 -> c [] s = 3 -> 0 [] s = 4 -> o]
MCBudgets == {Budget(3, 0, 0, 0), Budget(1, 1, 1, 1), Budget(1, 0, 2, 1), Budget(1, 0, 3, 0)}
MCMandatory == {"oci_image"}
=============================================================================

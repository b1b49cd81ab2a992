------------------------------ MODULE MCStacks ------------------------------
(* Two stack names of one stacktype, a page, two hosts with a container     *)
(* each.  One keeps a secret twice, the other under another name, and a     *)
(* variable where a restore does not look.                                  *)
EXTENDS CommandLine

SecretsOnlyOrOptional == {[external |-> {}, required |-> {}],
                          [external |-> {"token"}, required |-> {"token"}],
                          [external |-> {"token"}, required |-> {}]}
HostOfEach == [c \in {"db", "app"} |-> c]
OneStack == [c \in {"db", "app"} |-> "t_default"]
In(c, v, m, n) == [container |-> c, var |-> v, method |-> m, name |-> n]
FivePlaces ==
    [dbLxc      |-> In("db", "password", "lxc-config-env", "PASSWORD"),
     dbCompose  |-> In("db", "password", "compose-env", "PASSWORD"),
     dbToken    |-> In("db", "token", "compose-env", "TOKEN"),
     appStart   |-> In("app", "password", "on-start-env", "DB_PASSWORD"),
     appToken   |-> In("app", "token", "env-file", "TOKEN")]

\* One parameter file names the stack, one leaves it open and asks for an addon
\* whose parameter it does not give.
Parameters == [hostname |-> [required |-> TRUE, default |-> FALSE, needs |-> {}],
               realm |-> [required |-> TRUE, default |-> FALSE, needs |-> {"hostname"}],
               cores |-> [required |-> TRUE, default |-> TRUE, needs |-> {}]]
Addon == [oidc |-> [requires |-> {"hostname"},
                    defs |-> [redirect |-> [required |-> TRUE, default |-> FALSE,
                                            needs |-> {}]]]]
File(stack, addons, redirect) ==
    [stack |-> stack, addons |-> addons,
     params |-> [n \in {"hostname", "realm", "redirect"} |->
                    IF n = "redirect" THEN redirect ELSE "fits"]]
TwoFiles == {File({[by |-> "name", id |-> "t_default"]}, {"oidc"}, "fits"),
             File({}, {"oidc"}, "empty")}

\* The hub keeps stacks of secrets only.  A restore is followed while no client
\* runs and only the default stack exists, which can be saved.
Narrowed ==
    /\ onHub => externals = {}
    /\ (scan # None \/ \E p \in Pages : pages[p].form # None) =>
        /\ \A k \in Clients : cli[k] = None
        /\ required = {} /\ \A i \in Ids \ {Default} : stacks[i] = None
        /\ \A p \in Pages : pages[p].form # None => pages[p].form.name = Default
==============================================================================

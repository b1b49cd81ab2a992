------------------------------- MODULE MCLibrary -------------------------------
(* An application of the image and one of the operator's that extends it;   *)
(* a template that is skipped when nobody names a bridge, one that uses     *)
(* what it announces, and one of the application's own.                     *)
EXTENDS Library

Param(id, default) == [id |-> id, required |-> FALSE, default |-> default, choices |-> "",
                       described |-> TRUE, internal |-> FALSE]
Entry(name) == [name |-> name, category |-> {}, start |-> FALSE]
First(name) == [name |-> name, category |-> {}, start |-> TRUE]
Part(lists) == [flat |-> FALSE, noExtend |-> FALSE, lists |-> lists]

Script(of, gives) == [kind |-> "script", of |-> of, uses |-> {},
                      outputs |-> [i \in DOMAIN gives |-> [id |-> gives[i], optional |-> FALSE]],
                      properties |-> <<>>, libraries |-> <<>>, inside |-> {}]
Nested(name) == [kind |-> "template", of |-> name, uses |-> {}, outputs |-> <<>>,
                 properties |-> <<>>, libraries |-> <<>>, inside |-> {}]
Template(missing, parameters, commands) ==
    [executeOn |-> TRUE, inside |-> FALSE, skipIfSet |-> {}, skipIfMissing |-> missing,
     parameters |-> parameters, commands |-> commands]

Base == [extends |-> {}, required |-> <<"log">>, hidden |-> FALSE, parameters |-> <<Param("host", FALSE)>>, properties |-> <<>>,
         parts |-> "installation" :>
             Part("create_ct" :> <<Entry("create")>> @@ "pre_start" :> <<Entry("net")>>
                  @@ "start" :> <<Entry("run")>>)
           @@ "reconfigure" :>
             Part("create_ct" :> <<Entry("create")>> @@ "pre_start_finalize" :> <<Entry("done")>>
                  @@ "start" :> <<Entry("run")>> @@ "replace_ct" :> <<Entry("swap")>>)
           @@ "check" :> Part("check" :> <<Entry("ask")>>)]

Web(extra, properties) ==
    [extends |-> {[name |-> "base", pinned |-> FALSE]}, parameters |-> <<>>,
     required |-> <<>>, hidden |-> FALSE, properties |-> properties,
     parts |-> "installation" :> Part("pre_start" :> extra @@ "post_start" :> <<Entry("conf")>>)]

Bridge == <<[id |-> "bridge", value |-> TRUE, default |-> FALSE, required |-> {}]>>

Own == [extends |-> {[name |-> "base", pinned |-> TRUE]}, parameters |-> <<>>,
        required |-> <<>>, hidden |-> TRUE,
        properties |-> <<>>, parts |-> [t \in {} |-> {}]]

Both(before, after) == [pre_start |-> before, post_start |-> after]
Ssl(early, late) ==
    [properties |-> {"bridge"}, notes |-> TRUE, check |-> <<"ask">>, upgrade |-> <<"trust">>,
     tasks |-> "installation" :> Both(early, late) @@ "reconfigure" :> Both(early, late),
     disable |-> Both(<<"tell">>, <<>>)]
Log == [properties |-> {}, notes |-> FALSE, check |-> <<>>, upgrade |-> <<>>,
        tasks |-> "reconfigure" :> Both(<<>>, <<"trust">>), disable |-> Both(<<>>, <<"trust">>)]

Net(missing) == Template(missing, <<Param("mtu", TRUE)>>, <<Script("net.sh", <<"ip">>)>>)

MCInitial ==
    <<"json", "application", "base">> :> Base
    @@ <<"local", "application", "web">> :> Web(<<Entry("pre")>>, <<>>)
    @@ <<"json", "template", <<"shared", "create">>>> :>
         Template({}, <<>>, <<Script("new.sh", <<"vm">>)>>)
    @@ <<"json", "template", <<"shared", "net">>>> :> Net({"bridge"})
    @@ <<"json", "template", <<"shared", "run">>>> :> Template({}, <<>>, <<Script("run.sh", <<>>)>>)
    @@ <<"json", "template", <<"shared", "ask">>>> :> Template({}, <<>>, <<Script("run.sh", <<>>)>>)
    @@ <<"local", "template", <<"web", "pre">>>> :>
         Template({}, <<Param("port", TRUE)>>, <<Nested("tell"), Script("new.sh", <<>>)>>)
    @@ <<"json", "template", <<"shared", "tell">>>> :> Template({}, <<>>, <<Script("tell.sh", <<>>)>>)
    @@ <<"json", "template", <<"shared", "conf">>>> :> Template({}, <<>>, <<Script("conf.sh", <<>>)>>)
    @@ <<"json", "script", <<"shared", "new.sh">>>> :> {"host"}
    @@ <<"json", "script", <<"shared", "net.sh">>>> :> {"vm", "mtu"}
    @@ <<"json", "script", <<"shared", "run.sh">>>> :> {"vm"}
    @@ <<"json", "script", <<"shared", "tell.sh">>>> :> {"port"}
    @@ <<"json", "script", <<"shared", "conf.sh">>>> :> {"ip", "task"}
    @@ <<"json", "template", <<"shared", "done">>>> :> Template({}, <<>>, <<Script("run.sh", <<>>)>>)
    @@ <<"json", "template", <<"shared", "swap">>>> :> Template({}, <<>>, <<Script("run.sh", <<>>)>>)
    @@ <<"json", "template", <<"shared", "trust">>>> :>
         [Template({}, <<>>, <<Script("tell.sh", <<>>),
                               [Script("run.sh", <<>>) EXCEPT !.inside = {FALSE}]>>)
          EXCEPT !.inside = TRUE]
    @@ <<"json", "script", <<"shared", NotesScript>>>> :> {"addon_id"}
    @@ <<"json", "addon", "ssl">> :> Ssl(<<"tell">>, <<"trust">>)
    @@ <<"json", "addon", "log">> :> Log
    @@ <<"local", "framework", "oci">> :> {"1"}
    @@ <<"hub", "application", "shop">> :> [Own EXCEPT !.extends = {[name |-> "web", pinned |-> FALSE]}]
    @@ <<"hub", "template", <<"shared", "run">>>> :> Template({}, <<>>, <<Script("tell.sh", <<>>)>>)
    @@ <<"workspace", "template", <<"shared", "net">>>> :> Net({"mtu"})

MCVersions ==
    <<"local", "application", "web">> :> {Web(<<First("pre")>>, Bridge), Web(<<>>, <<>>)}
    @@ <<"local", "application", "base">> :> {Own}
    @@ <<"local", "template", <<"shared", "net">>>> :> {Net({}), Net({"mtu"})}
    @@ <<"local", "script", <<"web", "conf.sh">>>> :> {{"host"}}
    @@ <<"local", "addon", "ssl">> :> {Ssl(<<>>, <<"trust">>), Ssl(<<"tell", "trust">>, <<>>)}
    @@ <<"local", "framework", "oci">> :> {{"2"}}

Request(selected, installed, disabled) ==
    [selected |-> selected, installed |-> installed, disabled |-> disabled]
MCRequests == {Request(<<>>, <<>>, <<>>), Request(<<"ssl">>, <<>>, <<>>),
               Request(<<"ssl">>, <<"log">>, <<>>), Request(<<"log">>, <<"ssl">>, <<>>)}

Budget(about, edit, rebind, fail, reload, read, load) ==
    [about |-> about, edit |-> edit, rebind |-> rebind, fail |-> fail, reload |-> reload,
     read |-> read, load |-> load]
MCBudgets == {Budget({"application"}, 3, 0, 0, 1, 0, 0),
              Budget({"application", "template", "script"}, 2, 1, 0, 0, 0, 1),
              Budget({"template", "script"}, 2, 0, 0, 1, 0, 1),
              Budget({"addon"}, 2, 0, 0, 1, 2, 0),
              Budget({"addon"}, 1, 0, 0, 0, 0, 1),
              Budget({"framework"}, 2, 1, 1, 0, 2, 0)}
=============================================================================

--------------------------- MODULE MCVeExecution ---------------------------
(* Command lists of the shape the application loader builds: conditions and *)
(* properties first, create (vm_id), an addon's pre_start step, start,      *)
(* templates on another host, a last step that may schedule the switchover. *)
EXTENDS VeExecution, TLC

CONSTANTS skip, props, create, addon, boot, remote1, remote2, swap, nored

MCCommand == {skip, props, create, addon, boot, remote1, remote2, swap}

MCKind ==
    skip :> "skipped" @@ props :> "properties" @@ create :> "script" @@
    addon :> "script" @@ boot :> "script" @@ remote1 :> "properties" @@
    remote2 :> "script" @@ swap :> "script"

MCHost == [c \in MCCommand |-> IF c \in {remote1, remote2} THEN nored ELSE "nohost"]

MCGives ==
    [c \in MCCommand |->
        CASE c = create -> {"vm_id"}
          [] c \in {boot, remote2} -> {"started"}
          [] c = swap   -> {"switchover_scheduled"}
          [] OTHER      -> {}]

AllCommands == <<props, create, remote1, remote2, addon, boot, swap, skip>>

\* A restart loads the application without its addons: behind the addon's
\* command every position means another command.
AppCommands == SelectSeq(AllCommands, LAMBDA c : c # addon)

=============================================================================

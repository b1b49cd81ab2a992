---------------------------- MODULE CommandLine ----------------------------
(***************************************************************************)
(* The command line client beside everything that happens to the stacks    *)
(* (module Stacks).                                                        *)
(*                                                                         *)
(* A run reads its parameter file, fetches what it needs to know of the    *)
(* application and its stacks, creates the stack it cannot find, has its   *)
(* parameters validated and submits them.  Each of these is a request of   *)
(* its own: what it saw in the first may be wrong by the last, and a       *)
(* request that fails ends the run while the server goes on.               *)
(***************************************************************************)
EXTENDS Stacks, FiniteSets

CONSTANTS
    Files,       \* the parameter files a run may be given
    Defs,        \* the unresolved parameters of the application and its task
    Pinned,      \* properties whose value the application sets itself
    Compatible,  \* addons that may be selected: what they need and ask for
    Available    \* names of the parameters and properties of the application

(* A file gives parameters a value, which may be empty or not of their type *)
(* or choice, and says which stack to use: none, or one by its id, or by    *)
(* what should have been its id but is only its name.                       *)
Given == {"fits", "odd", "empty"}
Wanted == [by : {"id", "name"}, id : Ids]

(* `needs` are the parameters without which it is not required after all.   *)
IsDefinitions(defs) ==
    \A n \in DOMAIN defs : /\ defs[n].required \in BOOLEAN
                           /\ defs[n].default \in BOOLEAN
                           /\ DOMAIN defs[n] = {"required", "default", "needs"}

ASSUME CommandLineAssumption ==
    /\ \A f \in Files : /\ Range(f.params) \subseteq Given
                        /\ f.stack \subseteq Wanted /\ Cardinality(f.stack) <= 1
                        /\ DOMAIN f = {"params", "stack", "addons"}
    /\ IsDefinitions(Defs)
    /\ \A a \in DOMAIN Compatible : IsDefinitions(Compatible[a].defs)

VARIABLE cli   \* Clients -> how far the run is, or None

everything == <<stackVars, cli>>

(* `typed`: the stacktype of the application is known; `sees`: the stacks   *)
(* that were listed; `stack`: at most one, the one to use.                  *)
Run == [at : {"fetched", "creating", "resolved", "valid"}, file : Files,
        typed : BOOLEAN, sees : SUBSET Ids, stack : SUBSET (Ids \cup {"unknown"})]

CommandLineTypeOK ==
    /\ StacksTypeOK
    /\ cli \in [Clients -> {None} \cup Run]

CommandLineInit == StacksInit /\ cli = [k \in Clients |-> None]

Ends(k) == cli' = [cli EXCEPT ![k] = None]

------------------------------------------------------------------------------
(* The validation of the parameters.                                        *)

Holds(p, n) == n \in DOMAIN p /\ p[n] # "empty"

(* Defaults are sent for what the file does not mention.                    *)
WithDefaults(p) ==
    [n \in DOMAIN p \cup {d \in DOMAIN Defs : Defs[d].default} |->
        IF n \in DOMAIN p THEN p[n] ELSE "fits"]

Needed(defs, p) == {n \in DOMAIN defs : /\ defs[n].required
                                        /\ \A c \in defs[n].needs : Holds(p, c)}

(* A value given as empty is not replaced by the default.                   *)
Missing(p) == {n \in Needed(Defs, p) :
                  IF n \in DOMAIN p THEN p[n] = "empty" ELSE ~Defs[n].default}

Misfits(p) == {n \in DOMAIN p \cap DOMAIN Defs : p[n] = "odd"}

(* What an addon asks for the application may have set as well.             *)
MissingFor(a, p) ==
    {n \in Needed(Compatible[a].defs, p) :
        ~Holds(p, n) /\ n \notin Pinned /\ ~Compatible[a].defs[n].default}

AddonFits(a, p) ==
    /\ a \in DOMAIN Compatible
    /\ Compatible[a].requires \subseteq Available
    /\ MissingFor(a, p) = {}

Accepted(f, p) ==
    /\ DOMAIN p \cap Pinned = {}
    /\ Missing(p) = {} /\ Misfits(p) = {}
    /\ \A a \in f.addons : AddonFits(a, p)

------------------------------------------------------------------------------
(* The run.                                                                 *)

(* The list of applications or the one of the stacks may not be had: the    *)
(* run goes on without the stacktype, or with no stacks.  A run may set off *)
(* a save and an installation: it counts as two moves.                      *)
Fetch(k) ==
    /\ Free /\ cli[k] = None /\ moves + 1 < MaxMoves
    /\ \E f \in Files, typed \in BOOLEAN, listed \in BOOLEAN :
         cli' = [cli EXCEPT ![k] =
             [at |-> "fetched", file |-> f, typed |-> typed, stack |-> {},
              sees |-> {i \in Ids : typed /\ listed /\ stacks[i] # None}]]
    /\ moves' = moves + 2
    /\ UNCHANGED <<kind, store, minted, pages, posts, jobs, scan, hosts,
                   coming, collects>>

(* The stack as the file names it: a name is nobody's id.                   *)
AsAsked(f) == {IF w.by = "id" THEN w.id ELSE "unknown" : w \in f.stack}

(* One that was listed, by its id; without a wish the first of the list.    *)
Found(r) == IF r.file.stack = {} THEN {{i} : i \in r.sees}
            ELSE {s \in {AsAsked(r.file)} : s \subseteq r.sees}

(* What was fetched is not looked at again.                                 *)
Settle(k, at, s) == cli' = [cli EXCEPT ![k].at = at, ![k].stack = s,
                                       ![k].sees = {}, ![k].typed = TRUE]
UseStack(k, s) == Settle(k, "resolved", s)

UseFound(k) ==
    /\ cli[k] # None /\ cli[k].at = "fetched"
    /\ \/ ~cli[k].typed /\ UseStack(k, AsAsked(cli[k].file))
       \/ cli[k].typed /\ \E s \in Found(cli[k]) : UseStack(k, s)
    /\ UNCHANGED stackVars

(* The stack that is created is named as the wanted one or, without a wish, *)
(* "default".  Named after an id it gets one that nobody here uses.         *)
ToCreate(f) == IF f.stack = {} THEN Default ELSE (CHOOSE w \in f.stack : TRUE).id
UnderItsId(f) == \A w \in f.stack : w.by = "name"

Nothing(k) == /\ cli[k] # None /\ cli[k].at = "fetched"
              /\ cli[k].typed /\ Found(cli[k]) = {}

(* Values that only a human can give are not made up, provided that the     *)
(* stacktypes can be had.                                                   *)
RefuseEmptyAutoCreate(k) ==
    /\ Nothing(k)
    /\ externals # {} \/ ~UnderItsId(cli[k].file)
    /\ Ends(k)
    /\ UNCHANGED stackVars

PostCreateStack(k) ==
    /\ Nothing(k) /\ UnderItsId(cli[k].file)
    /\ Received(k, Fresh(ToCreate(cli[k].file)))
    /\ Settle(k, "creating", {})
    /\ UNCHANGED <<kind, store, minted, pages, jobs, scan, hosts, coming,
                   collects, moves>>

(* The answer names the stack, or it is an error, which ends the run.       *)
Created(k) ==
    /\ cli[k] # None /\ cli[k].at = "creating"
    /\ SaveWrite(k)
    /\ IF required = {} THEN UseStack(k, {ToCreate(cli[k].file)}) ELSE Ends(k)

(* postValidateParameters, with the stacks that the server has by now.      *)
Validate(k) ==
    /\ Free
    /\ cli[k] # None /\ cli[k].at = "resolved"
    /\ IF /\ Accepted(cli[k].file, WithDefaults(cli[k].file.params))
          /\ \A i \in cli[k].stack : i \in Ids /\ stacks[i] # None
       THEN cli' = [cli EXCEPT ![k].at = "valid"]
       ELSE Ends(k)
    /\ UNCHANGED stackVars

(* postVeConfiguration.  A run whose stack is gone by now installs without  *)
(* its values, which is not followed here.                                  *)
Submit(k) ==
    /\ cli[k] # None /\ cli[k].at = "valid"
    /\ \E c \in Containers : BoundTo[c] \in cli[k].stack /\ Install(c)
    /\ Ends(k)

(* A request fails, or its answer does not arrive: the run is over.         *)
Abort(k) ==
    /\ cli[k] # None
    /\ Ends(k)
    /\ UNCHANGED stackVars

CommandLineNext ==
    \/ StacksNext /\ UNCHANGED cli
    \/ \E k \in Clients : \/ Fetch(k) \/ UseFound(k) \/ RefuseEmptyAutoCreate(k)
                          \/ PostCreateStack(k) \/ Created(k) \/ Validate(k)
                          \/ Submit(k) \/ Abort(k)

CommandLineSpec == CommandLineInit /\ [][CommandLineNext]_everything
==============================================================================

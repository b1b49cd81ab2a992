---------------------------- MODULE Deployments ----------------------------
(***************************************************************************)
(* The values a deployment is made with, beside the guard that admits it   *)
(* (module HostnameGuard).                                                 *)
(*                                                                         *)
(* A task runs with the parameters of its request and, for the rest, with  *)
(* what the deployer finds elsewhere.  The container it makes carries the  *)
(* parameters in its notes, and a later reconfiguration, which sends only  *)
(* what is to change, starts from them: it reads the notes when it is      *)
(* prepared and replaces them when it ends, minutes later.                 *)
(* A parameter's value is the request that gave it.                        *)
(***************************************************************************)
EXTENDS HostnameGuard

CONSTANTS
    Name,        \* names of variables
    Given,       \* the parameters each request gives a value
    Blank,       \* and those it sends empty
    Transient,   \* names that identify a container or a run
    Upload,      \* parameters whose value is a file
    Computed,    \* variables the deployer sets for every run
    Entry,       \* entries of the stacks that the task uses
    Provided,    \* what other installations provide through these stacks
    Defined,     \* parameters with a default of their own
    Projected    \* properties with a default

ASSUME ValuesAssumption ==
    /\ Given \in [Request -> SUBSET Name] /\ Blank \in [Request -> SUBSET Name]
    /\ \A r \in Request : Given[r] \cap Blank[r] = {}
    /\ Transient \cup Upload \cup Computed \cup Entry \cup Provided
         \cup Defined \cup Projected \subseteq Name

VARIABLES
    notes,   \* the snapshot in the notes of each hostname's container
    base,    \* what each task read of it: {} before, or if it could not
    sent     \* the values each task was started with

values == <<notes, base, sent>>
all    == <<vars, values>>

NoParams == [n \in {} |-> Nobody]

DeploymentsInit ==
    /\ Init
    /\ notes = [h \in Hostname |-> NoParams]
    /\ base = [r \in Request |-> {}]
    /\ sent = [r \in Request |-> NoParams]

-----------------------------------------------------------------------------
(* The values.                                                             *)

\* decodeDeployParams: no snapshot is as good as an empty one.
Read(snapshots) == IF snapshots = {} THEN NoParams ELSE CHOOSE b \in snapshots : TRUE

\* Mutant: an empty value of the request overwrites the one that was given.
Merged_BlankWins(r, b) ==
    LET before == Read(b)
    IN [n \in DOMAIN before \cup Given[r] \cup Blank[r] |->
          CASE n \in Given[r] -> r
            [] n \in Blank[r] -> Nobody
            [] OTHER -> before[n]]

\* mergeDeployBaseline: the request wins, unless it sends nothing.
Merged(r, b) ==
    LET before == Read(b)
    IN [n \in DOMAIN before \cup Given[r] \cup Blank[r] |->
          CASE n \in Given[r] -> r
            [] n \in DOMAIN before \ Given[r] -> before[n]
            [] OTHER -> Nobody]

\* Where a variable that is no parameter of the request gets its value.
Default(n) ==
    CASE n \in Computed -> "computed"
      [] n \in Entry \ Computed -> "stack"
      [] n \in Defined \ (Computed \cup Entry) -> "definition"
      [] n \in Projected \ (Computed \cup Entry \cup Defined) -> "property"
      [] n \in Provided \ (Computed \cup Entry \cup Defined \cup Projected) -> "provided"
      [] OTHER -> "not defined"

Defaults == [n \in Name |-> <<Default(n)>>]

\* Inputs come before defaults, also empty ones.
Inputs(r, b) ==
    LET params == Merged(r, b)
    IN [n \in Name |-> IF n \in DOMAIN params THEN <<params[n]>> ELSE Defaults[n]]

\* buildDeployParamsSnapshot: what was given, as far as it can be given again.
Snapshot(r) ==
    LET kept == {n \in DOMAIN sent[r] \ (Transient \cup Upload) :
                    sent[r][n][1] \in Request}
    IN [n \in kept |-> sent[r][n][1]]

-----------------------------------------------------------------------------
(* The tasks.                                                              *)

\* getContainerConfig and decodeDeployParams, in the task's preparation or on
\* the clone; a container that is to be made has no notes.
ReadBaseline(r) ==
    /\ kind[r] = "configuration" /\ phase[r] = "preparing" /\ base[r] = {}
    /\ base' = [base EXCEPT ![r] = {notes[host[r]]}]
    /\ UNCHANGED <<vars, notes, sent>>

\* The notes could not be read, or were: the task starts.
Start(r) ==
    /\ kind[r] = "configuration"
    /\ Dispatch(r)
    /\ sent' = [sent EXCEPT ![r] = Inputs(r, base[r])]
    /\ UNCHANGED <<notes, base>>

\* The task replaced the container, whose notes have its parameters, or it failed
\* before that.
Writes(r) == notes' \in {notes, [notes EXCEPT ![host[r]] = Snapshot(r)]}

End(r) ==
    /\ Settle(r) \/ CloneEnds(r) \/ RestartEnds(r)
    /\ Writes(r)
    /\ base' = [base EXCEPT ![r] = {}]
    /\ UNCHANGED sent

\* A clone prepares the task itself, with what the deployer forwards.
ToClone(r) ==
    /\ HandToClone(r) \/ CloneFails(r)
    /\ IF phase'[r] = "at_clone"
       THEN sent' = [sent EXCEPT ![r] = Inputs(r, {notes[host[r]]})]
       ELSE UNCHANGED sent
    /\ UNCHANGED <<notes, base>>

\* The inputs of the run that failed are used again, as they were.
Again(r) ==
    /\ Restart(r)
    /\ \E s \in accepted : /\ host[s] = host[r]
                           /\ sent' = [sent EXCEPT ![r] = sent[s]]
    /\ UNCHANGED <<notes, base>>

Goes(r) ==
    \/ /\ \/ Reject(r) \/ Acquire(r) \/ PrepareFails(r)
          \/ kind[r] = "restart" /\ Dispatch(r)
       /\ UNCHANGED values
    \/ ReadBaseline(r) \/ Start(r) \/ ToClone(r) \/ End(r)

DeploymentsNext ==
    \/ \E r \in Request : Goes(r) \/ Again(r) \/ (Ask(r) /\ UNCHANGED values)
    \/ Reboot /\ UNCHANGED values

DeploymentsSpec ==
    /\ DeploymentsInit /\ [][DeploymentsNext]_all
    /\ \A r \in Request : WF_all(Goes(r))

-----------------------------------------------------------------------------
(* Properties.                                                             *)

\* Everybody who works on hostnames of this deployer asks the guard by name.
AllGuarded ==
    \A s \in Request : phase[s] \in {"unsent", "asking"}
                       \/ (kind[s] = "configuration" /\ key[s] # Nobody)

\* A reconfiguration that could read the notes keeps every value that it was
\* not asked to change, as it is in the notes when it replaces them: of the
\* minutes in between it knows nothing, and relies on the guard
\* (webapp-ve-route-handlers.mts:767-805).
KeepsWhatWasGiven ==
    [][ notes' # notes /\ AllGuarded =>
        \A r \in Request :
            LET h == host[r] IN
            (/\ phase[r] = "running" /\ phase'[r] = "over" /\ base[r] # {}
             /\ notes'[h] # notes[h])
               => \A n \in DOMAIN notes[h] \ Given[r] :
                    n \in DOMAIN notes'[h] /\ notes'[h][n] = notes[h][n] ]_all
=============================================================================

---------------------------- MODULE TaskPromise ----------------------------
(***************************************************************************)
(* What a deployment task promises whoever started it: its commands are    *)
(* carried out in the order of the list, "Completed" is said only when     *)
(* every one of them has been, and a task that is over can be taken up     *)
(* again behind a position one of its runs has really reached.  Taken up   *)
(* again it follows another list, which may lack commands of the first:    *)
(* the promise is about positions, and where the lists differ a position   *)
(* means another command (README, departures).  A stretch of commands may  *)
(* be handed over as a whole: to another host, or, in the deployer's own   *)
(* upgrade, to the new deployer.                                           *)
(***************************************************************************)
EXTENDS Naturals, Sequences

CONSTANTS
    Planned,   \* the list a task begins with
    Reloaded   \* the list it is taken up again with

VARIABLES
    list,      \* the list the current run follows
    from,      \* the position it began at
    reached,   \* the positions runs of this task have got to
    done, outcome

promiseVars == <<list, from, reached, done, outcome>>

Stretch(a, b) == {list[k] : k \in a .. b}

Init ==
    /\ list = Planned
    /\ from = 1
    /\ reached = {}
    /\ done = {}
    /\ outcome = "none"

\* The commands a .. b, everything before them in this run carried out.
Carry(a, b) ==
    /\ outcome = "none"
    /\ Stretch(from, a - 1) \subseteq done
    /\ done' = done \cup Stretch(a, b)
    /\ UNCHANGED <<list, from, reached, outcome>>

Complete ==
    /\ outcome = "none"
    /\ from <= Len(list)
    /\ Stretch(from, Len(list)) \subseteq done
    /\ reached' = reached \cup {Len(list)}
    /\ outcome' = "Completed"
    /\ UNCHANGED <<list, from, done>>

\* A run that fails has got to n: no further than what is carried out, and not
\* behind the position it began at.
Fail(n) ==
    /\ outcome = "none"
    /\ Stretch(from, n) \subseteq done
    /\ reached' = reached \cup {n}
    /\ outcome' = "Failed"
    /\ UNCHANGED <<list, from, done>>

TakeUpAgain(n) ==
    /\ outcome # "none"
    /\ outcome' = "none"
    /\ list' = Reloaded
    /\ from' = n + 1
    /\ UNCHANGED <<reached, done>>

Next ==
    \/ \E a, b \in from .. Len(list) : a <= b /\ Carry(a, b)
    \/ Complete
    \/ \E n \in {from - 1} \cup (from .. Len(list)) : Fail(n)
    \/ \E n \in {0} \cup reached : TakeUpAgain(n)

Spec == Init /\ [][Next]_promiseVars

=============================================================================

----------------------------- MODULE Handover -----------------------------
(***************************************************************************)
(* What replacing a container promises, whoever carries it out: there is   *)
(* always exactly one container the installation rests on, it is the old   *)
(* one until a single moment and the new one from then on, and only the    *)
(* other one is ever destroyed.                                            *)
(***************************************************************************)
CONSTANTS Old, New

VARIABLES live, there

Init == live = Old /\ there = {Old}

Create ==
    /\ there' = there \cup {New}
    /\ UNCHANGED live

Commit ==
    /\ live = Old /\ New \in there
    /\ live' = New
    /\ UNCHANGED there

Destroy(c) ==
    /\ c # live
    /\ there' = there \ {c}
    /\ UNCHANGED live

Next == Create \/ Commit \/ \E c \in {Old, New} : Destroy(c)

Spec == Init /\ [][Next]_<<live, there>>

=============================================================================

--------------------------- MODULE MCCertificates ---------------------------
(* Two containers of a spoke, with the dialog of the spoke or of the hub.   *)
EXTENDS CertificateDialog, FiniteSets, TLC

CONSTANTS a, b

TwoContainers == [c \in {a, b} |-> "spoke"]

Alike == Permutations({a, b})

Touched == {c \in Containers : op[c] # Idle \/ leaf[c] # NoCa \/ leafCache[c] # NoCa}

DialogUnused == At = "hub" /\ clicks = 0 /\ calls[1].at = "sent"

\* Either one container with the dialog, or both with one change from outside and
\* no dialog: its steps do nothing to the world that could not happen without it.
OneOrTheOther ==
    \/ Cardinality(Touched) <= 1 /\ clicks + turns <= 2
    \/ DialogUnused /\ turns <= 1
=============================================================================

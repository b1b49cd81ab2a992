-------------------------- MODULE MCHostnameGuard --------------------------
(* Three requests on the deployer itself and on one application.  Two of    *)
(* them give the same parameters: which of the two is which makes no        *)
(* difference, so a run starts with them in order.                          *)
EXTENDS Deployments

CONSTANTS r1, r2, r3, deployer, application

MCRequest  == {r1, r2, r3}
MCHostname == {deployer, application}
MCGiven == [r \in MCRequest |-> IF r = r1 THEN {"memory", "cert"} ELSE {"port"}]
MCBlank == [r \in MCRequest |-> IF r = r1 THEN {} ELSE {"memory"}]

Rank(r) == CASE kind[r] = "self_upgrade"  -> 0
             [] kind[r] = "configuration" -> 1
             [] kind[r] = "restart"       -> 2

InOrder ==
    /\ Rank(r2) <= Rank(r3)
    /\ kind[r2] = kind[r3] /\ host[r3] = deployer => host[r2] = deployer

MCInit == DeploymentsInit /\ InOrder

MCSpec == MCInit /\ [][DeploymentsNext]_all /\ \A r \in Request : WF_all(Goes(r))
=============================================================================

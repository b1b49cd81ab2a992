--------------------------- MODULE MCSelfUpgrade ---------------------------
(* Two upgrades one after the other or side by side, and a restart.         *)
EXTENDS SelfUpgrade

\* To bound the run: a deployer that took two requests and is done with them is
\* not restarted itself. The host and the other deployers are.
Bounded == asked' <= 1 \/ ~Restart(Old) \/ hub # Idle

BoundedSpec == Init /\ [][Next /\ Bounded]_vars /\ \A d \in Deployers : WF_vars(Boot(d))
=============================================================================

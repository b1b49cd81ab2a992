--------------------------- MODULE MCHostServices ---------------------------
(* The cleanup and one service of the other shape; a host with a container. *)
(* A unit is half of the two days of the default: a rollback within a unit, *)
(* grace periods shorter than it, as long, and longer.                      *)
EXTENDS HostServices

OneHost == [c \in {"c1"} |-> "h1"]
=============================================================================

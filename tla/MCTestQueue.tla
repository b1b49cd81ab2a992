---------------------------- MODULE MCTestQueue ----------------------------
(* Four scenarios: 1 needs 3, 2 needs 1, 3 and 4 are roots; 4 is a          *)
(* diamond's second parent of 2.  The queue order is not a topological one. *)
EXTENDS TestQueue, TLC

MCDeps == 1 :> {3} @@ 2 :> {1, 4} @@ 3 :> {} @@ 4 :> {}
MCFilters == {{1, 2, 4}, {3, 4}}

=============================================================================

---------------------------- MODULE MCTaskMessages ----------------------------
(* Two commands: one tells the successor's URL, one stops the hub.       *)
EXTENDS ProcessMonitor

MCNested == {{}, {2}}

MCWays == {"direct", "clone"}

MCCounters == {2}
=============================================================================

--------------------------- MODULE MCReplacement ---------------------------
EXTENDS Replacement

Disturbed == Circumstances \ {"admin_during_task"}

=============================================================================

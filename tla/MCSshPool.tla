------------------------------ MODULE MCSshPool ------------------------------
(* An instance of SshPool for TLC.                                         *)
EXTENDS SshPool

CONSTANTS r1, r2
TwoRuns == {r1, r2}
=============================================================================

------------------------------- MODULE MCLive -------------------------------
(* Instances of LiveMigration for TLC.                                     *)
EXTENDS LiveMigration

AllFaults == {"refused", "lost", "late"}
LostReplies == {"refused", "lost"}
NoFaults == {}
=============================================================================

------------------------------- MODULE MCCold -------------------------------
(* Instances of ColdMigration for TLC.                                     *)
EXTENDS ColdMigration

AllFaults == {"refused", "lost", "late"}
NoFaults == {}
=============================================================================

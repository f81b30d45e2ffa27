------------------------------ MODULE MCSwitch ------------------------------
(* Instances of Switch for TLC.                                            *)
EXTENDS Switch

AllFaults == {"refused", "lost", "late"}
NoFaults == {}
=============================================================================

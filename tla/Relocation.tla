----------------------------- MODULE Relocation -----------------------------
(***************************************************************************)
(* What a migration promises its operator, without how: where the VM is    *)
(* registered, and what the tool may say about it.  The README's table of  *)
(* results and its rules on stopping and rolling back, made a state        *)
(* machine.  ColdMigration and Switch are shown to implement it.           *)
(***************************************************************************)

VARIABLES
    asked,       \* [mode, powerOn]: what the operator confirmed
    home,        \* the VMs that are registered: source, target or, between, none
    started,     \* the target was powered on
    outcome,     \* what the page reports
    reversible,  \* the page offers to roll back
    returning,   \* a rollback that passed its checks is under way
    disturbed    \* others changed the host, or a command outlived its reply

relocationVars == <<asked, home, started, outcome, reversible, returning, disturbed>>

RelocationInit ==
    /\ home = {"source"}
    /\ outcome = "running"
    /\ ~started /\ ~reversible /\ ~returning /\ ~disturbed

(***************************************************************************)
(* The VM's way from the source to the target, or back after a failure.    *)
(***************************************************************************)
Moves(from, to) == home = from /\ home' = to /\ UNCHANGED <<started, outcome, reversible, returning>>

LeaveSource == asked.mode = "move" /\ outcome = "running" /\ Moves({"source"}, {})
ReachTarget == outcome = "running" /\ Moves({}, {"target"})
ReturnAtOnce == outcome = "running" /\ Moves({}, {"source"})

LeaveTarget == returning /\ ~started /\ Moves({"target"}, {})
ReturnLater == returning /\ Moves({}, {"source"})

StartTarget ==
    /\ asked.powerOn /\ outcome = "running" /\ home = {"target"} /\ reversible
    /\ started' = TRUE
    /\ UNCHANGED <<home, outcome, reversible, returning>>

(* The operator powers a target off before rolling back.                   *)
StopTarget ==
    /\ outcome = "failed" /\ reversible /\ started
    /\ started' = FALSE
    /\ UNCHANGED <<home, outcome, reversible, returning>>

(***************************************************************************)
(* What the tool says.  Only the target's home makes a move reversible,    *)
(* and only once.                                                          *)
(***************************************************************************)
Offer ==
    /\ outcome = "running" /\ home = {"target"}
    /\ reversible' = TRUE
    /\ UNCHANGED <<home, started, outcome, returning>>

Withdraw ==
    /\ outcome = "running" /\ reversible /\ started
    /\ reversible' = FALSE
    /\ UNCHANGED <<home, started, outcome, returning>>

Complete ==
    /\ outcome = "running" /\ outcome' = "completed"
    /\ home = (IF asked.mode = "move" THEN {"target"} ELSE {"source"})
    /\ started = asked.powerOn
    /\ reversible' = FALSE
    /\ UNCHANGED <<home, started, returning>>

Stop ==
    /\ outcome = "running" /\ outcome' = "stopped"
    /\ home = {"source"} /\ ~reversible
    /\ UNCHANGED <<home, started, reversible, returning>>

Fail ==
    /\ outcome = "running" /\ outcome' \in {"failed", "unknown"}
    /\ outcome' = "unknown" => home = {"source"}
    /\ UNCHANGED <<home, started, reversible, returning>>

TakeBack ==
    /\ outcome = "failed" /\ reversible /\ home = {"target"} /\ ~started
    /\ reversible' = FALSE /\ returning' = TRUE
    /\ UNCHANGED <<home, started, outcome>>

RollbackEnds ==
    /\ returning /\ returning' = FALSE
    /\ \/ UNCHANGED outcome
       \/ home = {"source"} /\ outcome' = "rolled_back"
    /\ UNCHANGED <<home, started, reversible>>

(***************************************************************************)
(* On a host that others change, or where a command outlives its reply,    *)
(* nothing is promised from then on.                                       *)
(***************************************************************************)
Promise ==
    \/ LeaveSource \/ ReachTarget \/ ReturnAtOnce \/ LeaveTarget \/ ReturnLater
    \/ StartTarget \/ StopTarget \/ Offer \/ Withdraw
    \/ Complete \/ Stop \/ Fail \/ TakeBack \/ RollbackEnds

RelocationNext == UNCHANGED asked /\ (disturbed' \/ (~disturbed' /\ ~disturbed /\ Promise))

RelocationSpec == RelocationInit /\ [][RelocationNext]_relocationVars
=============================================================================

--------------------------- MODULE LiveRelocation ---------------------------
(***************************************************************************)
(* What a live migration promises its operator.  It is Relocation with two *)
(* things a cold migration cannot do: register the copy for a while, to    *)
(* merge its snapshot, and undo the job before it ends, whatever the       *)
(* switch had reached.  LiveMigration is shown to implement it.            *)
(***************************************************************************)
EXTENDS Relocation

(* A COPY shows its copy to the host, and takes it away again.             *)
ShowCopy == asked.mode = "copy" /\ outcome = "running" /\ Moves({"source"}, {"source", "target"})
HideCopy == asked.mode = "copy" /\ outcome = "running" /\ Moves({"source", "target"}, {"source"})

(* The undo is reported as under way.  It takes away a target that never   *)
(* ran, brings the source back only when nobody is registered, and is done *)
(* only with the source at home.                                           *)
UndoBegins ==
    /\ outcome = "running" /\ ~started
    /\ outcome' = "restoring"
    /\ UNCHANGED <<home, started, reversible, returning>>

UndoLeavesTarget ==
    /\ outcome = "restoring" /\ ~started /\ "target" \in home
    /\ home' = home \ {"target"}
    /\ UNCHANGED <<started, outcome, reversible, returning>>

UndoReturns == outcome = "restoring" /\ Moves({}, {"source"})

UndoEnds ==
    /\ outcome = "restoring"
    /\ \/ outcome' = "failed" /\ UNCHANGED reversible
       \/ home = {"source"} /\ outcome' = "rolled_back" /\ reversible' = FALSE
    /\ UNCHANGED <<home, started, returning>>

LivePromise == Promise \/ ShowCopy \/ HideCopy \/ UndoBegins \/ UndoLeavesTarget \/ UndoReturns \/ UndoEnds

LiveRelocationNext == UNCHANGED asked /\ (disturbed' \/ (~disturbed' /\ ~disturbed /\ LivePromise))

LiveRelocationSpec == RelocationInit /\ [][LiveRelocationNext]_relocationVars
=============================================================================

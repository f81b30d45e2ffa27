------------------------------- MODULE Preflight -------------------------------
(***************************************************************************)
(* The preflight's decisions on other VMs and on space, for one job: the   *)
(* walk along the other VMs' disks, and then the free-space check that is  *)
(* repeated before every clone.  The other VMs' disks do not change while  *)
(* the job runs, so one walk stands for that of every repetition.          *)
(***************************************************************************)
EXTENDS Isolation, Capacity

CONSTANT Inputs   \* what may be on the host

FreeSpaces == {i.free : i \in Inputs}

ASSUME InputAssumption == Inputs \subseteq [layout : Layouts, sizes : Sizes, free : 0..MaxInt]

vars == <<isolationVars, capacityVars>>

Init == \E i \in Inputs : WalkInit(i.layout) /\ SpaceInit(i.sizes, i.free)

Walks == Walk /\ UNCHANGED capacityVars

Proceeds ==
    /\ verdict = "isolated"
    /\ Check \/ Clone \/ \E f \in FreeSpaces : OthersWrite(f)
    /\ UNCHANGED isolationVars

Next == Walks \/ Proceeds

(* The walk is a loop of one handler.                                      *)
Spec == Init /\ [][Next]_vars /\ WF_vars(Walks)
=============================================================================

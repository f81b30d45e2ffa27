---------------------------- MODULE DetachedClone ----------------------------
(***************************************************************************)
(* What the engine relies on of the detached clones of a VM's disks, with  *)
(* the states JobSteps gives a worker: each is launched at most once, its  *)
(* end is final and is published by the worker alone, and a clone that was *)
(* signalled never ends well.                                              *)
(***************************************************************************)
CONSTANT Disks

VARIABLE worker   \* disk -> its worker

Becomes(d, from, to) == worker[d] \in from /\ \E w \in to : worker' = [worker EXCEPT ![d] = w]

Init == worker = [d \in Disks |-> "none"]

Launch(d) == Becomes(d, {"none"}, {"launched"})

(* Without a proof that the VM is off, the worker ends before it clones.   *)
CheckPower(d) == Becomes(d, {"launched"}, {"cloning", "failed"})

Kill(d) == Becomes(d, {"cloning"}, {"killed"})

End(d) == Becomes(d, {"cloning"}, {"done", "failed"}) \/ Becomes(d, {"killed"}, {"failed"})

Die(d) == Becomes(d, {"launched", "cloning", "killed"}, {"dead"})

Next == \E d \in Disks : Launch(d) \/ CheckPower(d) \/ Kill(d) \/ End(d) \/ Die(d)

Spec == Init /\ [][Next]_worker
=============================================================================

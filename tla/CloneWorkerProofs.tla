-------------------------- MODULE CloneWorkerProofs --------------------------
(***************************************************************************)
(* Proofs about the scripts of a detached clone, for every interleaving of *)
(* the worker, vmkfstools, CloneStatus and StopClone, with and without     *)
(* failing writes and a killed worker.                                     *)
(***************************************************************************)
EXTENDS CloneWorker, TLAPS

(***************************************************************************)
(* What the files and the processes say of each other.  The worker is the  *)
(* only one to publish, and does so after its clone ended; the answers of  *)
(* CloneStatus rest on the marker alone.                                   *)
(***************************************************************************)
BeforeFork == {"none", "pid.create", "pid.write", "check", "fork"}
AfterFork == {"clonepid.create", "clonepid.write", "wait"}
Ending == {"tmp", "mv"}

Typing ==
    /\ at \in BeforeFork \cup AfterFork \cup Ending \cup {"gone"}
    /\ clone \in {"none", "runs", "complete", "failed"}
    /\ signalled \in BOOLEAN
    /\ rc \in {"0", "not 0"}
    /\ marker \in {"absent", "0", "not 0"}
    /\ told \in {"nothing", "done", "failed", "alive", "unknown"}

CloneFits ==
    /\ at \in BeforeFork => clone = "none"
    /\ at \in AfterFork => clone # "none"
    /\ at \in Ending => clone # "runs" /\ (rc = "0" <=> clone = "complete")
    /\ at \notin Ending \cup {"gone"} => rc = "not 0"
    /\ signalled => clone = "failed"

MarkerFits ==
    /\ marker # "absent" => at = "gone" /\ clone # "runs"
    /\ marker = "0" <=> marker # "absent" /\ clone = "complete"

ScriptInv == Typing /\ CloneFits /\ MarkerFits /\ ExitProven

LEMMA InitFits == Init => ScriptInv
  BY DEF Init, ScriptInv, Typing, CloneFits, MarkerFits, ExitProven, BeforeFork, AfterFork, Ending

(* The worker's statements, a clone that ends and a worker that is killed. *)
LEMMA WorkerFits ==
  ASSUME ScriptInv, Launch \/ Worker \/ CloneEnds \/ Die
  PROVE  ScriptInv'
<1> USE DEF ScriptInv, Typing, CloneFits, MarkerFits, ExitProven, BeforeFork, AfterFork, Ending, pollVars
<1>1. CASE Launch
  BY <1>1 DEF Launch
<1>2. CASE WritePid
  BY <1>2 DEF WritePid, Creates, Writes
<1>3. CASE CheckPower
  BY <1>3 DEF CheckPower
<1>4. CASE Fork
  BY <1>4 DEF Fork
<1>5. CASE WriteClonePid
  BY <1>5 DEF WriteClonePid, Creates, Writes
<1>6. CASE Wait
  BY <1>6 DEF Wait
<1>7. CASE WriteExit
  BY <1>7 DEF WriteExit
<1>8. CASE Publish
  BY <1>8 DEF Publish
<1>9. CASE CloneEnds
  BY <1>9 DEF CloneEnds
<1>10. CASE Die
  BY <1>10 DEF Die
<1> QED
  BY <1>1, <1>2, <1>3, <1>4, <1>5, <1>6, <1>7, <1>8, <1>9, <1>10 DEF Worker

LEMMA PollFits ==
  ASSUME ScriptInv, Poll
  PROVE  ScriptInv'
<1> USE DEF ScriptInv, Typing, CloneFits, MarkerFits, ExitProven, workerVars, Says, Asks
<1>1. CASE PollBegins
  BY <1>1 DEF PollBegins
<1>2. CASE PollExit
  BY <1>2 DEF PollExit
<1>3. CASE PollPid
  BY <1>3 DEF PollPid
<1>4. CASE PollAlive
  BY <1>4 DEF PollAlive
<1> QED
  BY <1>1, <1>2, <1>3, <1>4 DEF Poll

(* StopClone writes no file; its signal ends a clone that runs.            *)
LEMMA StopFits ==
  ASSUME ScriptInv, StopWanted \/ Stop
  PROVE  ScriptInv'
<1> USE DEF ScriptInv, Typing, CloneFits, MarkerFits, ExitProven, pollVars
<1>1. CASE StopKill
  BY <1>1 DEF StopKill, StopReturns, BeforeFork, AfterFork, Ending
<1>2. CASE StopWanted \/ StopBegins \/ StopExit \/ StopCat
  <2>1. UNCHANGED <<at, clone, signalled, rc, marker, told>>
    BY <1>2 DEF StopWanted, StopBegins, StopExit, StopCat, workerVars
  <2> QED
    BY <2>1
<1> QED
  BY <1>1, <1>2 DEF Stop

LEMMA NextFits == ScriptInv /\ [Next]_vars => ScriptInv'
<1> SUFFICES ASSUME ScriptInv, [Next]_vars
             PROVE  ScriptInv'
  OBVIOUS
<1>1. CASE Next
  BY <1>1, WorkerFits, PollFits, StopFits DEF Next
<1>2. CASE UNCHANGED vars
  BY <1>2 DEF vars, workerVars, pollVars, ScriptInv, Typing, CloneFits, MarkerFits, ExitProven
<1> QED
  BY <1>1, <1>2

LEMMA AlwaysFits == Spec => []ScriptInv
  BY InitFits, NextFits, PTL DEF Spec

(* An answer that the clone has ended is a proof: see ExitProven.          *)
THEOREM ExitIsProven == Spec => []ExitProven
<1>1. ScriptInv => ExitProven
  BY DEF ScriptInv
<1> QED
  BY <1>1, AlwaysFits, PTL

(***************************************************************************)
(* The refinement.  WorkerState of each step is unchanged, or the step is  *)
(* one of DetachedClone.                                                   *)
(***************************************************************************)
StateFits ==
    /\ marker = "0" => WorkerState = "done"
    /\ marker = "not 0" => WorkerState = "failed"
    /\ marker = "absent" /\ at = "none" => WorkerState = "none"
    /\ marker = "absent" /\ at = "gone" => WorkerState = "dead"
    /\ marker = "absent" /\ at \notin {"none", "gone"} /\ clone = "none" => WorkerState = "launched"
    /\ marker = "absent" /\ at \notin {"none", "gone"} /\ clone # "none" =>
         WorkerState = IF signalled THEN "killed" ELSE "cloning"

LEMMA StateCases == ScriptInv => StateFits
<1> USE DEF StateFits, WorkerState, Ended
<1> SUFFICES ASSUME ScriptInv
             PROVE  StateFits
  OBVIOUS
<1>1. CASE marker = "absent"
  BY <1>1
<1>2. CASE marker # "absent"
  BY <1>2 DEF ScriptInv, Typing, MarkerFits
<1> QED
  BY <1>1, <1>2

(* The move from one state to another that DetachedClone allows.           *)
Allowed(from, to) ==
    \/ from = to
    \/ from = "none" /\ to = "launched"
    \/ from = "launched" /\ to \in {"cloning", "failed", "dead"}
    \/ from = "cloning" /\ to \in {"killed", "done", "failed", "dead"}
    \/ from = "killed" /\ to \in {"failed", "dead"}

LEMMA StepAllowed ==
  ASSUME ScriptInv, ScriptInv', Next
  PROVE  Allowed(WorkerState, WorkerState')
<1>s. CASE UNCHANGED <<at, clone, signalled, marker>>
  BY <1>s DEF WorkerState, Ended, Allowed
<1>0. StateFits /\ StateFits'
  <2>1. ScriptInv' => StateFits'
    BY StateCases, PTL
  <2> QED
    BY StateCases, <2>1
<1>a. at \notin {"none", "gone"} => marker = "absent"
  BY DEF ScriptInv, MarkerFits
<1>m. CASE /\ at \notin {"none", "gone"} /\ at' \notin {"none", "gone"}
           /\ UNCHANGED <<signalled, marker>> /\ (clone = "none" <=> clone' = "none")
  BY <1>0, <1>a, <1>m DEF StateFits, Allowed
<1>g. CASE at \notin {"none", "gone"} /\ at' = "gone" /\ UNCHANGED marker
  <2>1. WorkerState \in {"launched", "cloning", "killed"} /\ WorkerState' = "dead"
    BY <1>0, <1>a, <1>g DEF StateFits
  <2> QED
    BY <2>1 DEF Allowed
<1>1. CASE Launch
  <2>1. WorkerState = "none" /\ WorkerState' = "launched"
    BY <1>0, <1>1 DEF Launch, StateFits, ScriptInv, CloneFits, MarkerFits, BeforeFork
  <2> QED
    BY <2>1 DEF Allowed
<1>2. CASE WritePid \/ WriteClonePid \/ CheckPower \/ Wait
  BY <1>2, <1>m DEF WritePid, WriteClonePid, CheckPower, Wait, Creates, Writes
<1>3. CASE Fork
  <2>1. WorkerState = "launched" /\ WorkerState' = "cloning"
    BY <1>0, <1>a, <1>3 DEF Fork, StateFits, ScriptInv, CloneFits, BeforeFork
  <2> QED
    BY <2>1 DEF Allowed
<1>4. CASE WriteExit \/ Die
  BY <1>4, <1>m, <1>g DEF WriteExit, Die
<1>5. CASE Publish
  <2>1. CASE UNCHANGED marker
    BY <1>5, <2>1, <1>g DEF Publish
  <2>2. CASE marker' = rc
    <3>1. /\ at = "mv" /\ rc \in {"0", "not 0"} /\ (rc = "0" => clone = "complete")
          /\ (clone = "complete" => ~signalled)
      BY <1>5 DEF Publish, ScriptInv, Typing, CloneFits, Ending
    <3>2. WorkerState \in {"launched", "cloning", "killed"} /\ (rc = "0" => WorkerState = "cloning")
      BY <1>0, <1>a, <3>1 DEF StateFits
    <3>3. WorkerState' = IF rc = "0" THEN "done" ELSE "failed"
      BY <1>0, <2>2, <3>1 DEF StateFits
    <3> QED
      BY <3>1, <3>2, <3>3 DEF Allowed
  <2> QED
    BY <1>5, <2>1, <2>2 DEF Publish
<1>6. CASE CloneEnds
  <2>1. /\ UNCHANGED <<at, signalled, marker>> /\ clone # "none" /\ clone' # "none"
        /\ at # "none" /\ marker = "absent"
    BY <1>6 DEF CloneEnds, ScriptInv, Typing, CloneFits, MarkerFits, BeforeFork
  <2> QED
    BY <1>0, <2>1 DEF StateFits, Allowed
<1>7. CASE Poll \/ StopWanted \/ StopBegins \/ StopExit \/ StopCat
  BY <1>7, <1>s DEF Poll, PollBegins, PollExit, PollPid, PollAlive, Says, Asks, StopWanted, StopBegins,
         StopExit, StopCat, workerVars
<1>8. CASE StopKill
  <2>1. CASE clone # "runs"
    BY <1>8, <1>s, <2>1 DEF StopKill
  <2>2. CASE clone = "runs"
    <3>1. /\ UNCHANGED <<at, marker>> /\ clone' = "failed" /\ signalled' /\ ~signalled
          /\ at # "none" /\ marker = "absent"
      BY <1>8, <2>2 DEF StopKill, ScriptInv, CloneFits, MarkerFits, BeforeFork
    <3> QED
      BY <1>0, <2>2, <3>1 DEF StateFits, Allowed
  <2> QED
    BY <2>1, <2>2
<1> QED
  BY <1>1, <1>2, <1>3, <1>4, <1>5, <1>6, <1>7, <1>8 DEF Next, Worker, Stop

LEMMA StepImplements ==
  ScriptInv /\ ScriptInv' /\ [Next]_vars => [Promised!Next]_[d \in {"N"} |-> WorkerState]
<1> SUFFICES ASSUME ScriptInv, ScriptInv', [Next]_vars
             PROVE  [Promised!Next]_[d \in {"N"} |-> WorkerState]
  OBVIOUS
<1>1. Allowed(WorkerState, WorkerState')
  <2>1. CASE UNCHANGED vars
    BY <2>1 DEF vars, workerVars, WorkerState, Ended, Allowed
  <2> QED
    BY <2>1, StepAllowed
<1> DEFINE from == WorkerState
           to == WorkerState'
           w == [d \in {"N"} |-> from]
           v == [d \in {"N"} |-> to]
<1>2. \A x : v = [w EXCEPT !["N"] = x] <=> x = to
  OBVIOUS
<1> QED
  BY <1>1, <1>2 DEF Allowed, Promised!Next, Promised!Launch, Promised!CheckPower, Promised!Kill,
     Promised!End, Promised!Die, Promised!Becomes

(* The scripts implement DetachedClone, whichever of them races with the   *)
(* others: a clone is launched once, its end is final and published by the *)
(* worker alone, and one that was signalled does not end well.             *)
THEOREM ScriptsImplement == Spec => Implements
<1>1. Init => Promised!Init
  BY DEF Init, WorkerState, Ended, Promised!Init
<1> QED
  BY <1>1, AlwaysFits, StepImplements, PTL DEF Spec, Implements, Promised!Spec
=============================================================================

------------------------------ MODULE ColdProofs ------------------------------
(***************************************************************************)
(* Proofs about ColdMigration, for any number of disks, every set of       *)
(* faults and every number of outside changes.                             *)
(***************************************************************************)
EXTENDS ColdMigration, StepsProofs

USE DEF VMs, SourceId

(***************************************************************************)
(* Type correctness.                                                       *)
(***************************************************************************)
ColdPcs == SwitchLabels \cup StepLabels \cup ColdLabels

LEMMA ColdInitTyped == ColdInit => ColdTypeOK
<1> SUFFICES ASSUME ColdInit
             PROVE  ColdTypeOK
  OBVIOUS
<1>1. HostTypeOK
  BY DEF ColdInit, HostInit, HostTypeOK, OnlySource, PowerStates, Questions, LockStates
<1>2. job \in Jobs /\ job.phase = "queued" /\ ~job.verified
  BY DEF ColdInit, NewJob, Jobs, Phases, Views
<1>3. 1 \in Disks
  BY StepsAssumption DEF Disks
<1>4. StepsTypeOK
  BY <1>3 DEF ColdInit, StepsInit, StepsTypeOK, WorkerStates
<1> QED
  BY <1>1, <1>2, <1>4 DEF ColdInit, ColdTypeOK, SwitchTypeOK, PowerStates, StepLabels

(* What the checks between the shared steps do to the job.                 *)
LEMMA ColdStepsFrame ==
  ASSUME Typing, ColdSteps
  PROVE  /\ Query /\ UNCHANGED <<plan, answered, online, stop, channel, inbox, watch, clones, changed>>
         /\ job' \in Jobs /\ job'.complete = job.complete /\ job'.canRollback = job.canRollback
         /\ job'.phase \in {job.phase, "cloning", "verifying_disk", "verifying_config"}
         /\ polled' \in PowerStates
         /\ pc \in {"preflight", "preflight.own", "shutdown.revalidate", "shutdown.done",
                    "disk.guard", "disk.off", "clone.done", "all.guard", "verify.all", "last.guard"}
         /\ pc' \in {"failing", "stopped", "acquire", "shutdown.begin", "shutdown.force", "folder",
                     "disk.off", "clone.start", "disk.verify", "config", "last.guard",
                     "commit.check", "finish"}
<1> USE DEF Advance, Goto, Local, stepVars, watch, clones
<1>1. job \in Jobs /\ polled \in PowerStates /\ power["source"] \in PowerStates
  BY DEF Typing, SwitchTypeOK, HostTypeOK
<1>2. \A p \in Phases : Phase(p) => job' \in Jobs /\ job'.complete = job.complete /\ job'.phase = p
                                    /\ job'.canRollback = job.canRollback
  BY <1>1 DEF Phase, Jobs
<1>3. CASE Preflight \/ PreflightOwn \/ ShutdownRevalidate \/ GuardAfterShutdown \/ DiskOff \/ VerifyAll
  BY <1>1, <1>3 DEF Preflight, PreflightOwn, ShutdownRevalidate, GuardAfterShutdown, DiskOff, VerifyAll
<1>4. CASE DiskGuard
  BY <1>1, <1>2, <1>4 DEF DiskGuard, Phases
<1>5. CASE DiskCloned
  <2>1. UNCHANGED job \/ Phase("verifying_disk")
    BY <1>5 DEF DiskCloned, Phase
  <2> QED
    BY <1>1, <1>2, <1>5, <2>1 DEF DiskCloned, Phases
<1>6. CASE AllGuard
  <2>1. UNCHANGED job \/ Phase("verifying_config")
    BY <1>6 DEF AllGuard, Proceed
  <2> QED
    BY <1>1, <1>2, <1>6, <2>1 DEF AllGuard, Proceed, control, Phases
<1>7. CASE LastGuard
  <2>1. job' \in Jobs /\ job'.complete = job.complete /\ job'.phase = job.phase
        /\ job'.canRollback = job.canRollback
    BY <1>1, <1>7 DEF LastGuard, Jobs
  <2> QED
    BY <1>1, <1>7, <2>1 DEF LastGuard
<1> QED
  BY <1>3, <1>4, <1>5, <1>6, <1>7 DEF ColdSteps

LEMMA ColdStepsTyped ==
  ASSUME Typing, ColdSteps
  PROVE  Typing' /\ pc' \in ColdPcs
<1>1. final' \in BOOLEAN
  BY DEF Typing, StepsTypeOK, ColdSteps, Preflight, PreflightOwn, ShutdownRevalidate,
         GuardAfterShutdown, DiskGuard, DiskOff, DiskCloned, AllGuard, Proceed, VerifyAll, LastGuard,
         stepVars, control
<1>2. HostTypeOK' /\ SwitchTypeOK'
  BY ColdStepsFrame, QueryTyped DEF Typing, SwitchTypeOK
<1>3. StepsTypeOK'
  BY <1>1, ColdStepsFrame DEF Typing, StepsTypeOK, watch, clones
<1>4. pc' \in ColdPcs
  BY ColdStepsFrame DEF ColdPcs, SwitchLabels, StepLabels, ColdLabels
<1> QED
  BY <1>2, <1>3, <1>4 DEF Typing

(* Every step of ColdNext is one of these.                                 *)
LEMMA ColdCases ==
  ASSUME ColdNext
  PROVE  \/ SharedSteps \/ ColdSteps \/ Shutdown \/ ShutdownDeadline
         \/ CloneSteps \/ CloneGivesUp \/ Stopped
         \/ SwitchStep /\ UNCHANGED stepVars
         \/ Operator \/ GuestStops \/ Worker \/ Disturb
  BY DEF ColdNext, ColdEngine, Deadlines, SwitchStep

LEMMA ColdNextTyped == ColdTypeOK /\ [ColdNext]_coldVars => ColdTypeOK'
<1> SUFFICES ASSUME ColdTypeOK, [ColdNext]_coldVars
             PROVE  Typing' /\ pc' \in ColdPcs
  BY DEF ColdTypeOK, Typing, ColdPcs
<1>0. Typing /\ pc \in ColdPcs
  BY DEF ColdTypeOK, Typing, ColdPcs
<1>l. StepLabels \cup Landings \subseteq ColdPcs /\ SwitchLabels \subseteq ColdPcs
  BY DEF ColdPcs, Landings, SwitchLabels
<1>1. CASE SharedSteps
  BY <1>0, <1>l, <1>1, SharedTyped
<1>2. CASE ColdSteps
  BY <1>0, <1>2, ColdStepsTyped
<1>3. CASE Shutdown \/ ShutdownDeadline
  BY <1>0, <1>l, <1>3, ShutdownTyped
<1>4. CASE CloneSteps \/ CloneGivesUp
  BY <1>0, <1>l, <1>4, CloneTyped
<1>5. CASE Stopped
  BY <1>0, <1>l, <1>5, StoppedTyped DEF Landings
<1>6. CASE SwitchStep /\ UNCHANGED stepVars
  <2>1. StepsTypeOK'
    BY <1>0, <1>6 DEF Typing, StepsTypeOK, stepVars
  <2> QED
    BY <1>0, <1>l, <1>6, <2>1, SwitchStepTyped DEF Typing
<1>7. CASE Operator
  BY <1>0, <1>7, OperatorTyped DEF switchVars
<1>8. CASE GuestStops
  BY <1>0, <1>8, GuestTyped DEF switchVars
<1>9. CASE Worker
  BY <1>0, <1>9, WorkerTyped DEF switchVars
<1>10. CASE Disturb
  <2>1. HostTypeOK' /\ UNCHANGED <<switchVars, control, watch, clones>> /\ changed' \in BOOLEAN
    BY <1>0, <1>10, EnvironmentTyped DEF Disturb, Typing, StepsTypeOK
  <2> QED
    BY <1>0, <2>1 DEF Typing, SwitchTypeOK, switchVars, StepsTypeOK, control, watch, clones
<1>11. CASE UNCHANGED coldVars
  BY <1>0, <1>11, QueryTyped
  DEF coldVars, vars, Query, switchVars, Typing, SwitchTypeOK, StepsTypeOK, stepVars
<1> QED
  BY <1>1, <1>2, <1>3, <1>4, <1>5, <1>6, <1>7, <1>8, <1>9, <1>10, <1>11, ColdCases

(* Every reachable state of a cold migration has the types of State, of    *)
(* the host interface and of the workers.                                  *)
THEOREM ColdTyped == ColdSpec => []ColdTypeOK
  BY ColdInitTyped, ColdNextTyped, PTL DEF ColdSpec

(***************************************************************************)
(* Clones, by CloneInv of StepsProofs.                                     *)
(***************************************************************************)
LEMMA ColdInitClones == ColdInit => CloneInv
<1> SUFFICES ASSUME ColdInit
             PROVE  CloneInv
  OBVIOUS
<1>1. job.phase = "queued" /\ ~job.complete
  BY DEF ColdInit, NewJob
<1> QED
  BY <1>1 DEF ColdInit, StepsInit, CloneInv, Active

LEMMA ColdStepsClones ==
  ASSUME Typing, CloneInv, ColdSteps
  PROVE  CloneInv'
<1>1. UNCHANGED <<worker, lock, disk>>
  BY ColdStepsFrame DEF Query, hostVars, clones, watch
<1>2. pc \notin Watching \cup Closed \cup Landings
  BY ColdStepsFrame DEF Watching, Closed, RollbackLabels, Landings
<1>3. job.phase # "unknown"
  BY <1>2 DEF CloneInv
<1>4. job'.phase \in Phases \ {"unknown"}
  BY <1>3, ColdStepsFrame DEF Jobs
<1>5. pc \in Early \/ pc' \notin Early
  BY DEF ColdSteps, Preflight, PreflightOwn, ShutdownRevalidate, GuardAfterShutdown, DiskGuard,
         DiskOff, DiskCloned, AllGuard, VerifyAll, LastGuard, Advance, Goto, Early, Watching
<1> QED
  BY <1>1, <1>2, <1>4, <1>5, ColdStepsFrame, WorkKeeps

LEMMA ColdNextClones == ColdTypeOK /\ CloneInv /\ [ColdNext]_coldVars => CloneInv'
<1> SUFFICES ASSUME ColdTypeOK, CloneInv, [ColdNext]_coldVars
             PROVE  CloneInv'
  OBVIOUS
<1>0. Typing
  BY DEF ColdTypeOK, Typing
<1>1. CASE SharedSteps \/ Shutdown \/ ShutdownDeadline
  BY <1>0, <1>1, SharedKeeps, ShutdownKeeps
<1>2. CASE ColdSteps
  BY <1>0, <1>2, ColdStepsClones
<1>3. CASE CloneSteps \/ CloneGivesUp \/ Stopped
  BY <1>0, <1>3, CloneKeeps, StoppedKeeps
<1>4. CASE SwitchStep /\ UNCHANGED stepVars
  <2>1. SwitchShape /\ pc \in SwitchLabels /\ pc' \in SwitchLabels
    BY <1>0, <1>4, Shaped, SwitchStepTyped DEF Typing
  <2> QED
    BY <1>4, <2>1, SwitchKeeps DEF stepVars
<1>5. CASE Operator
  BY <1>0, <1>5, OperatorTyped, OperatorKeeps DEF hostVars, watch, clones
<1>6. CASE GuestStops
  BY <1>0, <1>6, GuestTyped, OperatorKeeps DEF stepVars
<1>7. CASE Worker
  BY <1>0, <1>7, WorkerKeeps
<1>8. CASE Disturb
  BY <1>8, EnvironmentKeeps DEF Disturb, watch, clones
<1>9. CASE UNCHANGED coldVars
  BY <1>9, OperatorKeeps DEF coldVars, vars, hostVars, stepVars
<1> QED
  BY <1>1, <1>2, <1>3, <1>4, <1>5, <1>6, <1>7, <1>8, <1>9, ColdCases

(* A cold migration that ended as anything but "unknown", or whose lock is *)
(* archived, left no clone that may still write: see ClonesAccounted.      *)
THEOREM ClonesAreAccounted == ColdSpec => []ClonesAccounted
  BY ColdTyped, ColdInitClones, ColdNextClones, CloneInvMeans, PTL DEF ColdSpec

(***************************************************************************)
(* A stop.  From Past on it is refused, and before Past nothing is         *)
(* registered, unregistered or called verified.                            *)
(***************************************************************************)
Past == {"config", "verify.all", "last.guard"} \cup (SwitchLabels \ Landings)

StopInv ==
    /\ stop => ~final
    /\ job.verified \/ job.canRollback \/ pc \in Past => final
    /\ Undisturbed /\ ~final => reg = OnlySource

LEMMA ColdInitStop == ColdInit => StopInv
<1> SUFFICES ASSUME ColdInit
             PROVE  StopInv
  OBVIOUS
<1>1. ~job.verified /\ ~job.canRollback
  BY DEF ColdInit, NewJob
<1> QED
  BY <1>1 DEF ColdInit, StepsInit, HostInit, StopInv, Past, SwitchLabels, RollbackLabels

(* A step that changes no registration, gives the job no new verdict, and  *)
(* gets to Past from Past only.                                            *)
LEMMA StopStays ==
  ASSUME StopInv, UNCHANGED <<reg, landed, outside, final>>, stop' = stop \/ ~final,
         job'.verified => job.verified, job'.canRollback => job.canRollback,
         pc' \in Past => pc \in Past
  PROVE  StopInv'
  BY DEF StopInv, Undisturbed

LEMMA ColdStepsStop ==
  ASSUME Typing, StopInv, ColdSteps
  PROVE  StopInv'
<1> USE DEF Advance, Goto, stepVars, Past, Landings
<1>1. job \in Jobs /\ UNCHANGED <<reg, landed, outside, stop>> /\ job'.canRollback = job.canRollback
  BY ColdStepsFrame DEF Typing, SwitchTypeOK, Query, hostVars, inventory
<1>2. CASE LastGuard
  BY <1>1, <1>2 DEF LastGuard, StopInv, Undisturbed
<1>3. CASE AllGuard
  <2>1. job'.verified = job.verified
    BY <1>1, <1>3 DEF AllGuard, Proceed, Phase, Jobs
  <2>2. pc' \in {"failing", "stopped"} \/ (final' /\ ~stop)
    BY <1>3 DEF AllGuard, Proceed
  <2>3. UNCHANGED final \/ final'
    BY <1>3 DEF AllGuard, Proceed, control
  <2>4. pc' \notin Past \/ (final' /\ ~stop)
    BY <2>2 DEF SwitchLabels, RollbackLabels
  <2>5. stop => final' = final
    BY <1>3 DEF AllGuard, Proceed, control
  <2> QED
    BY <1>1, <2>1, <2>3, <2>4, <2>5 DEF StopInv, Undisturbed
<1>4. CASE VerifyAll
  BY <1>1, <1>4 DEF VerifyAll, StopInv, Undisturbed
<1>5. CASE Preflight \/ PreflightOwn \/ ShutdownRevalidate \/ GuardAfterShutdown \/ DiskGuard \/ DiskOff
           \/ DiskCloned
  <2>1. UNCHANGED final
    BY <1>5 DEF Preflight, PreflightOwn, ShutdownRevalidate, GuardAfterShutdown, DiskGuard, DiskOff,
           DiskCloned
  <2>2. job'.verified = job.verified
    BY <1>1, <1>5 DEF Preflight, PreflightOwn, ShutdownRevalidate, GuardAfterShutdown, DiskGuard, DiskOff,
           DiskCloned, Phase, Jobs
  <2>3. pc' \in {"failing", "stopped", "acquire", "shutdown.begin", "shutdown.force", "folder",
                "disk.off", "clone.start", "disk.verify"}
    BY <1>5 DEF Preflight, PreflightOwn, ShutdownRevalidate, GuardAfterShutdown, DiskGuard, DiskOff,
           DiskCloned
  <2>4. pc' \notin Past
    BY <2>3 DEF SwitchLabels, RollbackLabels
  <2> QED
    BY <1>1, <2>1, <2>2, <2>4, StopStays
<1> QED
  BY <1>2, <1>3, <1>4, <1>5 DEF ColdSteps

LEMMA SharedStop ==
  ASSUME Typing, StopInv, SharedSteps
  PROVE  StopInv'
<1> USE DEF Advance, Goto, stepVars, Past, Landings
<1>1. job \in Jobs /\ UNCHANGED <<reg, landed, outside, stop, final>>
  BY DEF Typing, SwitchTypeOK, SharedSteps, Run, Acquire, CreateTarget, CopyConfig, DiskVerify, Query,
         hostVars, inventory, control
<1>2. job'.verified = job.verified /\ job'.canRollback = job.canRollback
  BY <1>1 DEF SharedSteps, Run, Acquire, CreateTarget, CopyConfig, DiskVerify, Phase, Jobs
<1>3. CASE CopyConfig
  BY <1>1, <1>2, <1>3 DEF CopyConfig, StopInv, Undisturbed
<1>4. CASE Run \/ Acquire \/ CreateTarget \/ DiskVerify
  <2>1. pc' \in {"preflight", "preflight.own", "failing", "disk.guard", "all.guard"}
    BY <1>4 DEF Run, Acquire, CreateTarget, DiskVerify, NextDisk
  <2>2. pc' \notin Past
    BY <2>1 DEF SwitchLabels, RollbackLabels
  <2> QED
    BY <1>1, <1>2, <2>2, StopStays
<1> QED
  BY <1>3, <1>4 DEF SharedSteps

LEMMA ShutdownStop ==
  ASSUME Typing, StopInv, Shutdown \/ ShutdownDeadline
  PROVE  StopInv'
<1> USE DEF Goto, stepVars, control
<1>1. job \in Jobs /\ UNCHANGED <<stop, final>>
  BY DEF Typing, SwitchTypeOK, Shutdown, ShutdownBegin, ShutdownRequest, ShutdownPoll, ShutdownReceive,
         ShutdownForce, ShutdownDeadline
<1>2. UNCHANGED job \/ Phase("shutdown") \/ Phase("awaiting_shutdown")
  BY DEF Shutdown, ShutdownBegin, ShutdownRequest, ShutdownPoll, ShutdownReceive, ShutdownForce,
         ShutdownDeadline
<1>3. job'.verified = job.verified /\ job'.canRollback = job.canRollback
  BY <1>1, <1>2 DEF Phase, Jobs
<1>4. CASE ShutdownForce
  <2>1. UNCHANGED <<reg, landed, outside>>
    BY <1>4, ForceTyped DEF Typing
  <2>2. pc' \notin Past
    BY <1>4 DEF ShutdownForce, Past, Landings, SwitchLabels, RollbackLabels
  <2> QED
    BY <1>1, <1>3, <2>1, <2>2, StopStays
<1>5. CASE ShutdownBegin \/ ShutdownRequest \/ ShutdownPoll \/ ShutdownReceive \/ ShutdownDeadline
  <2>1. UNCHANGED <<reg, landed, outside>>
    BY <1>5 DEF ShutdownBegin, ShutdownRequest, ShutdownPoll, ShutdownReceive, ShutdownDeadline, Query,
           hostVars, inventory
  <2>2. pc' \in {"shutdown.done", "shutdown.request", "failing", "shutdown.poll", "stopped",
                "shutdown.revalidate", "shutdown.await"}
    BY <1>5 DEF ShutdownBegin, ShutdownRequest, ShutdownPoll, ShutdownReceive, ShutdownDeadline
  <2>3. pc' \notin Past
    BY <2>2 DEF Past, Landings, SwitchLabels, RollbackLabels
  <2> QED
    BY <1>1, <1>3, <2>1, <2>3, StopStays
<1> QED
  BY <1>4, <1>5 DEF Shutdown

LEMMA CloneStops ==
  ASSUME Typing, StopInv, CloneSteps \/ CloneGivesUp \/ Stopped
  PROVE  StopInv'
<1> USE DEF Goto, stepVars, control
<1>1. job \in Jobs /\ UNCHANGED <<reg, landed, outside, stop, final>>
  BY DEF Typing, SwitchTypeOK, CloneSteps, CloneStart, ClonePoll, CloneStop, CloneGivesUp, Stopped, Query,
         hostVars, inventory
<1>2. job'.verified = job.verified /\ job'.canRollback = job.canRollback
  BY <1>1 DEF CloneSteps, CloneStart, ClonePoll, CloneExits, CloneRuns, CloneStop, CloneGivesUp, Stopped,
         Phase, Jobs
<1>3. pc' \in {"clone.poll", "clone.stop", "failing", "stopped", "clone.done", "ended"}
  BY DEF CloneSteps, CloneStart, ClonePoll, CloneExits, CloneRuns, CloneStop, CloneGivesUp, Stopped, Watch
<1>4. pc' \notin Past
  BY <1>3 DEF Past, Landings, SwitchLabels, RollbackLabels
<1> QED
  BY <1>1, <1>2, <1>4, StopStays

LEMMA SwitchStop ==
  ASSUME Typing, StopInv, SwitchStep, UNCHANGED stepVars
  PROVE  StopInv'
<1>1. SwitchShape /\ pc \in SwitchLabels /\ pc' \in SwitchLabels
  BY Shaped, SwitchStepTyped DEF Typing
<1>2. UNCHANGED <<stop, final, landed, outside>>
  BY <1>1 DEF SwitchShape, stepVars
<1>3. CASE pc \in Past
  BY <1>2, <1>3 DEF StopInv, Undisturbed
<1>4. CASE pc \in Landings
  <2>1. UNCHANGED reg /\ job'.verified = job.verified /\ (job'.canRollback => job.canRollback)
    BY <1>1, <1>4 DEF SwitchShape, Landings
  <2>2. pc' \in Past => job.canRollback
    BY <1>1, <1>4 DEF SwitchShape, Landings, Past
  <2> QED
    BY <1>2, <2>1, <2>2 DEF StopInv, Undisturbed
<1> QED
  BY <1>1, <1>3, <1>4 DEF Past

LEMMA DisturbIsSeen ==
  ASSUME HostTypeOK, Environment
  PROVE  ~Undisturbed'
  BY DEF HostTypeOK, Environment, Land, Outside, Undisturbed

LEMMA ColdNextStop == ColdTypeOK /\ StopInv /\ [ColdNext]_coldVars => StopInv'
<1> SUFFICES ASSUME ColdTypeOK, StopInv, [ColdNext]_coldVars
             PROVE  StopInv'
  OBVIOUS
<1>0. Typing
  BY DEF ColdTypeOK, Typing
<1>1. CASE SharedSteps \/ ColdSteps \/ Shutdown \/ ShutdownDeadline
  BY <1>0, <1>1, SharedStop, ColdStepsStop, ShutdownStop
<1>2. CASE CloneSteps \/ CloneGivesUp \/ Stopped
  BY <1>0, <1>2, CloneStops
<1>3. CASE SwitchStep /\ UNCHANGED stepVars
  BY <1>0, <1>3, SwitchStop
<1>4. CASE Operator
  <2>1. UNCHANGED <<reg, landed, outside, job, pc, final>>
    BY <1>0, <1>4, OperatorTyped DEF hostVars, inventory, switchVars
  <2>2. stop' = stop \/ ~final
    BY <1>4 DEF Operator, RequestStop, ControlChecks, ControlSends, StopAccepted
  <2> QED
    BY <2>1, <2>2, StopStays
<1>5. CASE GuestStops
  BY <1>0, <1>5, GuestTyped, StopStays DEF switchVars, stepVars
<1>6. CASE Worker
  BY <1>6, StopStays DEF Worker, hostVars, inventory, switchVars, control
<1>7. CASE Disturb
  <2>1. ~Undisturbed' /\ UNCHANGED <<job, pc, stop, final>>
    BY <1>0, <1>7, DisturbIsSeen DEF Disturb, Typing, switchVars, control
  <2> QED
    BY <2>1 DEF StopInv
<1>8. CASE UNCHANGED coldVars
  BY <1>8, StopStays DEF coldVars, vars, hostVars, inventory, switchVars, stepVars
<1> QED
  BY <1>1, <1>2, <1>3, <1>4, <1>5, <1>6, <1>7, <1>8, ColdCases

(* A stop that was accepted is honoured: see StopRegistersNothing.         *)
THEOREM StopIsHonoured == ColdSpec => []StopRegistersNothing
<1>1. StopInv => StopRegistersNothing
  BY DEF StopInv, StopRegistersNothing
<1> QED
  BY <1>1, ColdTyped, ColdInitStop, ColdNextStop, PTL DEF ColdSpec

(***************************************************************************)
(* The target.  A finished clone holds one state of the source unless the  *)
(* source changed; it changes when somebody starts the source, which is    *)
(* off from the folder's creation on; and LastGuard looks at the change    *)
(* after VerifyAll saw every clone's end.                                  *)
(***************************************************************************)
SeenOff == {"folder", "disk.guard", "disk.off", "clone.start", "clone.poll", "clone.stop", "clone.done",
            "disk.verify", "all.guard", "config", "verify.all", "last.guard"}

AllDone == \A d \in Disks : worker[d] = "done"
Touched == \E d \in Disks : worker[d] # "none"

FaithInv ==
    /\ \A d \in Disks : worker[d] = "done" => copied[d] = "snapshot of the source" \/ changed
    /\ pc = "last.guard" => AllDone
    /\ job.verified => AllDone /\ \A d \in Disks : copied[d] = "snapshot of the source"
    /\ pc \in SeenOff \/ Touched => power["source"] # "on" \/ changed

LEMMA ColdInitFaith == ColdInit => FaithInv
<1> SUFFICES ASSUME ColdInit
             PROVE  FaithInv
  OBVIOUS
<1>1. ~job.verified
  BY DEF ColdInit, NewJob
<1> QED
  BY <1>1 DEF ColdInit, StepsInit, FaithInv, SeenOff, Touched

(* A step that leaves the clones alone, does not start the source          *)
(* unnoticed, gives no new verdict, and comes from where the source was    *)
(* seen off.                                                               *)
LEMMA FaithStays ==
  ASSUME FaithInv, UNCHANGED clones, changed => changed',
         power'["source"] = "on" => power["source"] = "on" \/ changed',
         job'.verified => job.verified,
         pc' = "last.guard" => pc = "last.guard" \/ AllDone,
         pc' \in SeenOff => pc \in SeenOff \/ power["source"] # "on"
  PROVE  FaithInv'
  BY DEF FaithInv, clones, AllDone, Touched

LEMMA ColdStepsFaith ==
  ASSUME Typing, FaithInv, ColdSteps
  PROVE  FaithInv'
<1> USE DEF Advance, Goto, stepVars, SeenOff
<1>1. job \in Jobs /\ UNCHANGED <<clones, changed, power>>
  BY ColdStepsFrame DEF Typing, SwitchTypeOK, Query, hostVars, inventory
<1>2. CASE LastGuard
  <2>1. CASE pc' = "failing"
    BY <1>1, <1>2, <2>1, FaithStays DEF LastGuard
  <2>2. CASE pc' # "failing"
    <3>1. ~changed /\ AllDone
      BY <1>2, <2>2 DEF LastGuard, GuardOk, InspectOk, FaithInv
    <3>2. \A d \in Disks : copied[d] = "snapshot of the source"
      BY <3>1 DEF FaithInv, AllDone
    <3>3. pc' \in {"commit.check", "finish"} /\ pc = "last.guard"
      BY <1>2, <2>2 DEF LastGuard
    <3> QED
      BY <1>1, <3>1, <3>2, <3>3 DEF FaithInv, clones, AllDone, Touched
  <2> QED
    BY <2>1, <2>2
<1>3. CASE GuardAfterShutdown
  <2>1. UNCHANGED job /\ pc' \in {"failing", "folder"} /\ (pc' = "folder" => power["source"] = "off")
    BY <1>3 DEF GuardAfterShutdown, GuardOk
  <2> QED
    BY <1>1, <2>1, FaithStays
<1>4. CASE Preflight \/ PreflightOwn \/ ShutdownRevalidate \/ DiskGuard \/ DiskOff \/ DiskCloned
           \/ AllGuard \/ VerifyAll
  <2>1. job'.verified = job.verified
    BY <1>1, <1>4 DEF Preflight, PreflightOwn, ShutdownRevalidate, DiskGuard, DiskOff, DiskCloned,
           AllGuard, Proceed, VerifyAll, Phase, Jobs
  <2>2. pc' = "last.guard" => AllDone
    BY <1>4 DEF Preflight, PreflightOwn, ShutdownRevalidate, DiskGuard, DiskOff, DiskCloned,
           AllGuard, Proceed, VerifyAll, AllDone
  <2>3. pc' \in SeenOff => pc \in SeenOff
    BY <1>4 DEF Preflight, PreflightOwn, ShutdownRevalidate, DiskGuard, DiskOff, DiskCloned,
           AllGuard, Proceed, VerifyAll
  <2> QED
    BY <1>1, <2>1, <2>2, <2>3, FaithStays
<1> QED
  BY <1>2, <1>3, <1>4 DEF ColdSteps

LEMMA SharedFaith ==
  ASSUME Typing, FaithInv, SharedSteps \/ Stopped
  PROVE  FaithInv'
<1> USE DEF Advance, Goto, stepVars, SeenOff
<1>1. job \in Jobs /\ UNCHANGED <<clones, changed, power>>
  BY DEF Typing, SwitchTypeOK, SharedSteps, Run, Acquire, CreateTarget, CopyConfig, DiskVerify, Stopped,
         Query, hostVars, inventory, clones
<1>2. job'.verified = job.verified
  BY <1>1 DEF SharedSteps, Run, Acquire, CreateTarget, CopyConfig, DiskVerify, Stopped, Phase, Jobs
<1>3. pc' # "last.guard" /\ (pc' \in SeenOff => pc \in SeenOff)
  BY DEF SharedSteps, Run, Acquire, CreateTarget, CopyConfig, DiskVerify, Stopped, NextDisk
<1> QED
  BY <1>1, <1>2, <1>3, FaithStays

(* A forced power-off does not start the source.                           *)
LEMMA ForceStartsNothing ==
  ASSUME HostTypeOK, ShutdownForce
  PROVE  power'["source"] = "on" => power["source"] = "on"
<1>1. CASE Obey(ForceOff)
  BY <1>1 DEF Obey, TakeEffect, ForceOff, PowerOff, HostTypeOK
<1>2. CASE Ignore \/ Delay(ForceOff)
  BY <1>2 DEF Ignore, Delay, inventory
<1> QED
  BY <1>1, <1>2 DEF ShutdownForce

LEMMA ShutdownFaith ==
  ASSUME Typing, FaithInv, Shutdown \/ ShutdownDeadline
  PROVE  FaithInv'
<1> USE DEF Goto, stepVars
<1>1. job \in Jobs /\ UNCHANGED <<clones, changed>>
  BY DEF Typing, SwitchTypeOK, Shutdown, ShutdownBegin, ShutdownRequest, ShutdownPoll, ShutdownReceive,
         ShutdownForce, ShutdownDeadline, clones
<1>2. UNCHANGED job \/ Phase("shutdown") \/ Phase("awaiting_shutdown")
  BY DEF Shutdown, ShutdownBegin, ShutdownRequest, ShutdownPoll, ShutdownReceive, ShutdownForce,
         ShutdownDeadline
<1>3. job'.verified = job.verified
  BY <1>1, <1>2 DEF Phase, Jobs
<1>4. power'["source"] = "on" => power["source"] = "on"
  BY ForceStartsNothing DEF Typing, Shutdown, ShutdownBegin, ShutdownRequest, ShutdownPoll,
     ShutdownReceive, ShutdownDeadline, Query, hostVars, inventory
<1>5. pc' \in {"shutdown.done", "shutdown.request", "failing", "shutdown.poll", "stopped",
              "shutdown.revalidate", "shutdown.await"}
  BY DEF Shutdown, ShutdownBegin, ShutdownRequest, ShutdownPoll, ShutdownReceive, ShutdownForce,
         ShutdownDeadline
<1>6. pc' # "last.guard" /\ pc' \notin SeenOff
  BY <1>5 DEF SeenOff
<1> QED
  BY <1>1, <1>3, <1>4, <1>6, FaithStays

(* Launching, watching and stopping a clone: one that has ended stays as   *)
(* it is, and none ends here.                                              *)
LEMMA CloneFaith ==
  ASSUME Typing, FaithInv, CloneSteps \/ CloneGivesUp
  PROVE  FaithInv'
<1> USE DEF Goto, stepVars
<1>1. job \in Jobs /\ disk \in Disks /\ worker \in [Disks -> WorkerStates]
      /\ UNCHANGED <<copied, changed, power>>
  BY DEF Typing, SwitchTypeOK, StepsTypeOK, CloneSteps, CloneStart, ClonePoll, CloneStop, CloneGivesUp,
         Query, hostVars, inventory, clones
<1>2. job'.verified = job.verified
  BY <1>1 DEF CloneSteps, CloneStart, ClonePoll, CloneExits, CloneRuns, CloneStop, CloneGivesUp, Phase, Jobs
<1>3. pc' # "last.guard" /\ pc \in SeenOff
  BY DEF CloneSteps, CloneStart, ClonePoll, CloneExits, CloneRuns, CloneStop, CloneGivesUp, Watch, SeenOff
<1>4. \A d \in Disks : worker'[d] = "done" <=> worker[d] = "done"
  BY <1>1 DEF CloneSteps, CloneStart, ClonePoll, CloneStop, CloneGivesUp, ExitSeen, WorkerBecomes, clones
<1> QED
  BY <1>1, <1>2, <1>3, <1>4 DEF FaithInv, AllDone

(* A worker that copied while the source was on holds a torn disk, and     *)
(* then the source has changed.                                            *)
LEMMA WorkerFaith ==
  ASSUME Typing, FaithInv, Worker
  PROVE  FaithInv'
<1>1. UNCHANGED <<power, job, pc, changed>>
  BY DEF Worker, hostVars, inventory, switchVars
<1>2. PICK d \in Disks : WorkerLaunches(d) \/ WorkerChecksPower(d) \/ WorkerEnds(d) \/ WorkerDies(d)
  BY DEF Worker
<1>3. Touched
  BY <1>2 DEF WorkerLaunches, WorkerChecksPower, WorkerEnds, WorkerDies, Touched
<1>4. Torn => changed
  BY <1>3 DEF Torn, FaithInv
<1>5. \A e \in Disks : worker[e] = "done" => worker'[e] = "done" /\ copied'[e] = copied[e]
  BY <1>2 DEF Typing, StepsTypeOK, WorkerLaunches, WorkerChecksPower, WorkerEnds, WorkerDies, WorkerBecomes
<1>6. \A e \in Disks : worker'[e] = "done" =>
         worker[e] = "done" \/ copied'[e] = "snapshot of the source" \/ changed
  BY <1>2, <1>4 DEF Typing, StepsTypeOK, WorkerLaunches, WorkerChecksPower, WorkerEnds, WorkerDies,
         WorkerBecomes
<1>7. \A e \in Disks : worker'[e] = "done" => copied'[e] = "snapshot of the source" \/ changed
  BY <1>5, <1>6 DEF FaithInv
<1> QED
  BY <1>1, <1>3, <1>5, <1>7 DEF FaithInv, AllDone

LEMMA ColdNextFaith == ColdTypeOK /\ FaithInv /\ [ColdNext]_coldVars => FaithInv'
<1> SUFFICES ASSUME ColdTypeOK, FaithInv, [ColdNext]_coldVars
             PROVE  FaithInv'
  OBVIOUS
<1>0. Typing
  BY DEF ColdTypeOK, Typing
<1>1. CASE SharedSteps \/ ColdSteps \/ Shutdown \/ ShutdownDeadline \/ Stopped
  BY <1>0, <1>1, SharedFaith, ColdStepsFaith, ShutdownFaith
<1>2. CASE CloneSteps \/ CloneGivesUp \/ Worker
  BY <1>0, <1>2, CloneFaith, WorkerFaith
<1>3. CASE SwitchStep /\ UNCHANGED stepVars
  <2>1. SwitchShape /\ pc' \in SwitchLabels
    BY <1>0, <1>3, Shaped, SwitchStepTyped DEF Typing
  <2>2. pc' # "last.guard" /\ pc' \notin SeenOff
    BY <2>1 DEF SwitchLabels, RollbackLabels, SeenOff
  <2>3. UNCHANGED <<clones, changed>> /\ job'.verified = job.verified /\ power'["source"] = power["source"]
    BY <1>3, <2>1 DEF SwitchShape, stepVars, clones
  <2> QED
    BY <2>2, <2>3, FaithStays
<1>4. CASE Operator
  BY <1>0, <1>4, OperatorTyped, FaithStays DEF hostVars, inventory, switchVars
<1>5. CASE GuestStops
  BY <1>0, <1>5, GuestTyped, FaithStays DEF switchVars, stepVars, clones
<1>6. CASE Disturb
  <2>1. changed' = (changed \/ (power["source"] # "on" /\ power'["source"] = "on"))
        /\ UNCHANGED <<clones, job, pc>>
    BY <1>6 DEF Disturb, switchVars
  <2> QED
    BY <2>1, FaithStays
<1>7. CASE UNCHANGED coldVars
  BY <1>7, FaithStays DEF coldVars, vars, hostVars, inventory, switchVars, stepVars, clones
<1> QED
  BY <1>1, <1>2, <1>3, <1>4, <1>5, <1>6, <1>7, ColdCases

(* Every disk of a target called verified holds one and the same state of  *)
(* the source, for any number of disks: see FaithfulTarget.                *)
THEOREM TargetIsFaithful == ColdSpec => []FaithfulTarget
<1>1. FaithInv => FaithfulTarget
  BY DEF FaithInv, FaithfulTarget
<1> QED
  BY <1>1, ColdTyped, ColdInitFaith, ColdNextFaith, PTL DEF ColdSpec

(***************************************************************************)
(* The whole job.  Until its target is verified the VM is at home and      *)
(* nothing final is reported; then a MOVE is where SwitchProofs has it,    *)
(* and a COPY only has its lock left to archive.                           *)
(***************************************************************************)
Finals == {"completed", "failed", "unknown", "stopped", "rolled_back"}
JobLabels == StepLabels \cup ColdLabels

AtHome == reg = OnlySource /\ power["target"] = "off" /\ question = "none" /\ ~job.canRollback

HomeInv ==
    /\ AtHome
    /\ pc \in JobLabels \cup Landings
    /\ job.source = "registered" /\ job.target = "not registered"
    /\ job.phase \notin {"completed", "rolled_back"}
    /\ pc \in JobLabels => job.phase \notin Finals
    /\ pc = "failing" => job.phase \notin Finals \ {"unknown"}

CopyInv ==
    /\ AtHome /\ power["source"] = "off"
    /\ pc \in {"finish"} \cup Landings
    /\ job.phase # "rolled_back"
    /\ pc # "ended" => job.phase \notin Finals
    /\ job.phase = "completed" => lock = "archived"

MoveInv == pc \in SwitchLabels /\ Facts

WholeInv ==
    Undisturbed => IF ~job.verified THEN HomeInv
                   ELSE IF plan.mode = "copy" THEN CopyInv ELSE MoveInv

LEMMA AtHomeShown == AtHome => Home = {"source"}
<1>1. AtHome => Registered("source") /\ ~Registered("target")
  BY DEF AtHome, OnlySource, Registered
<1> QED
  BY <1>1, HomeValues DEF HomeIs

LEMMA ColdInitWhole == ColdInit => WholeInv /\ Promised!RelocationInit
<1> SUFFICES ASSUME ColdInit
             PROVE  HomeInv /\ ~job.verified /\ Promised!RelocationInit
  BY DEF WholeInv
<1>1. /\ job.source = "registered" /\ job.target = "not registered" /\ job.phase = "queued"
      /\ ~job.canRollback /\ ~job.verified /\ pc = "queued"
  BY DEF ColdInit, NewJob
<1>2. AtHome
  BY <1>1 DEF ColdInit, HostInit, AtHome
<1>3. HomeInv
  BY <1>1, <1>2 DEF HomeInv, JobLabels, StepLabels, Finals
<1>4. Home = {"source"} /\ Outcome = "running"
  BY <1>1, <1>2, AtHomeShown DEF Outcome
<1> QED
  BY <1>1, <1>2, <1>3, <1>4 DEF ColdInit, HostInit, AtHome, Undisturbed, RollbackCommits,
     Promised!RelocationInit

LEMMA LabelsDisjoint ==
  /\ JobLabels \cap SwitchLabels = {} /\ Landings \subseteq SwitchLabels
  /\ RollbackCommits \subseteq SwitchLabels /\ RollbackCommits \cap Landings = {}
  BY DEF JobLabels, StepLabels, ColdLabels, SwitchLabels, RollbackLabels, Landings, RollbackCommits

(* What a step of the job does before the target is verified: it moves on, *)
(* and at most tells the page how far it is.                               *)
StepFrame(phases) ==
    /\ UNCHANGED <<plan, reg, question, landed, outside>> /\ power'["target"] = power["target"]
    /\ UNCHANGED job \/ \E p \in phases : Phase(p)

LEMMA SharedFrame ==
  ASSUME SharedSteps
  PROVE  StepFrame(Phases \ Finals) /\ pc \in JobLabels /\ pc' \in JobLabels \cup {"failing"}
  BY DEF SharedSteps, Run, Acquire, CreateTarget, CopyConfig, DiskVerify, NextDisk, Advance, Goto,
         Local, Query, hostVars, inventory, StepFrame, Phases, Finals, JobLabels, StepLabels

LEMMA ColdFrame ==
  ASSUME Typing, ColdSteps
  PROVE  /\ pc \in JobLabels
         /\ ~LastGuard => StepFrame(Phases \ Finals) /\ pc' \in JobLabels \cup {"failing"}
<1>1. /\ UNCHANGED <<plan, reg, power, question, landed, outside>> /\ pc \in JobLabels
  BY ColdStepsFrame DEF Query, hostVars, inventory, JobLabels, StepLabels, ColdLabels
<1>2. ~LastGuard => pc' \in JobLabels \cup {"failing"}
  BY DEF ColdSteps, Preflight, PreflightOwn, ShutdownRevalidate, GuardAfterShutdown, DiskGuard, DiskOff,
         DiskCloned, AllGuard, Proceed, VerifyAll, Advance, Goto, JobLabels, StepLabels, ColdLabels
<1>3. ~LastGuard => UNCHANGED job \/ Phase("cloning") \/ Phase("verifying_disk") \/ Phase("verifying_config")
  BY DEF ColdSteps, Preflight, PreflightOwn, ShutdownRevalidate, GuardAfterShutdown, DiskGuard, DiskOff,
         DiskCloned, AllGuard, Proceed, VerifyAll, Phase
<1>4. {"cloning", "verifying_disk", "verifying_config"} \subseteq Phases \ Finals
  BY DEF Phases, Finals
<1> QED
  BY <1>1, <1>2, <1>3, <1>4 DEF StepFrame

LEMMA ShutdownFrame ==
  ASSUME Typing, Shutdown \/ ShutdownDeadline
  PROVE  StepFrame(Phases \ Finals) /\ pc \in JobLabels /\ pc' \in JobLabels \cup {"failing"}
<1> USE DEF Goto, Local
<1>1. UNCHANGED job \/ Phase("shutdown") \/ Phase("awaiting_shutdown")
  BY DEF Shutdown, ShutdownBegin, ShutdownRequest, ShutdownPoll, ShutdownReceive, ShutdownForce,
         ShutdownDeadline
<1>2. UNCHANGED plan /\ pc \in JobLabels /\ pc' \in JobLabels \cup {"failing"}
  BY DEF Shutdown, ShutdownBegin, ShutdownRequest, ShutdownPoll, ShutdownReceive, ShutdownForce,
         ShutdownDeadline, JobLabels, StepLabels
<1>3. UNCHANGED <<reg, question, landed, outside>> /\ power'["target"] = power["target"]
  <2>1. CASE ShutdownForce /\ Obey(ForceOff)
    BY <2>1 DEF ShutdownForce, Obey, TakeEffect, ForceOff, PowerOff, Typing, HostTypeOK
  <2>2. CASE ShutdownForce /\ (Ignore \/ Delay(ForceOff))
    BY <2>2 DEF ShutdownForce, Ignore, Delay, inventory
  <2>3. CASE ShutdownBegin \/ ShutdownRequest \/ ShutdownPoll \/ ShutdownReceive \/ ShutdownDeadline
    BY <2>3 DEF ShutdownBegin, ShutdownRequest, ShutdownPoll, ShutdownReceive, ShutdownDeadline, Query,
           hostVars, inventory
  <2> QED
    BY <2>1, <2>2, <2>3 DEF Shutdown, ShutdownForce
<1>4. {"shutdown", "awaiting_shutdown"} \subseteq Phases \ Finals
  BY DEF Phases, Finals
<1> QED
  BY <1>1, <1>2, <1>3, <1>4 DEF StepFrame

LEMMA CloneFrame ==
  ASSUME CloneSteps
  PROVE  StepFrame(Phases \ Finals) /\ pc \in JobLabels /\ pc' \in JobLabels \cup {"failing"}
<1> USE DEF Goto, Local
<1>1. UNCHANGED job \/ Phase("cloning") \/ Phase("reconnecting")
  BY DEF CloneSteps, CloneStart, ClonePoll, CloneExits, CloneRuns, CloneStop
<1>2. UNCHANGED <<plan, reg, power, question, landed, outside>>
  BY DEF CloneSteps, CloneStart, ClonePoll, CloneStop, Query, hostVars, inventory
<1>3. pc \in JobLabels /\ pc' \in JobLabels \cup {"failing"}
  BY DEF CloneSteps, CloneStart, ClonePoll, CloneExits, CloneRuns, CloneStop, Watch, JobLabels, StepLabels
<1>4. {"cloning", "reconnecting"} \subseteq Phases \ Finals
  BY DEF Phases, Finals
<1> QED
  BY <1>1, <1>2, <1>3, <1>4 DEF StepFrame

(* Such a step is one Relocation does not see.                             *)
LEMMA HomeSteps ==
  ASSUME Typing, HomeInv, ~job.verified, StepFrame(Phases \ Finals), pc \in JobLabels,
         pc' \in JobLabels \cup {"failing"}
  PROVE  HomeInv' /\ ~job'.verified /\ Shown
<1>1. /\ job'.source = job.source /\ job'.target = job.target /\ job'.canRollback = job.canRollback
      /\ job'.verified = job.verified /\ job'.phase \notin Finals
  BY DEF StepFrame, Typing, SwitchTypeOK, Jobs, Phase, HomeInv
<1>2. AtHome'
  BY <1>1 DEF HomeInv, AtHome, StepFrame
<1>3. HomeInv' /\ ~job'.verified
  BY <1>1, <1>2 DEF HomeInv, Landings, Finals
<1>4. Outcome = "running" /\ Outcome' = "running"
  BY <1>1 DEF HomeInv, Outcome, Finals
<1>5. pc \notin RollbackCommits /\ pc' \notin RollbackCommits
  BY LabelsDisjoint DEF Landings
<1> QED
  BY <1>1, <1>3, <1>4, <1>5, Unseen DEF Shown, StepFrame

(* A clone given up, a job that failed or was stopped: what it then says.  *)
LEMMA HomeEnds ==
  ASSUME Typing, HomeInv, ~job.verified, CloneGivesUp \/ Stopped \/ MarkFailed
  PROVE  HomeInv' /\ ~job'.verified /\ Shown
<1>0. job \in Jobs
  BY DEF Typing, SwitchTypeOK
<1>1. UNCHANGED <<plan, reg, power, question, landed, outside>>
  BY DEF CloneGivesUp, Stopped, MarkFailed, Query, Local, hostVars, inventory
<1>2. /\ job'.source = job.source /\ job'.target = job.target /\ job'.canRollback = job.canRollback
      /\ job'.verified = job.verified
  BY <1>0 DEF CloneGivesUp, Stopped, MarkFailed, Phase, Jobs
<1>3. pc \in {"clone.poll", "stopped", "failing"} /\ pc' \in Landings /\ (pc' = "failing" => CloneGivesUp)
  BY DEF CloneGivesUp, Stopped, MarkFailed, Goto, Landings
<1>4. /\ CloneGivesUp => job'.phase = "unknown" /\ pc = "clone.poll"
      /\ Stopped => job'.phase = "stopped" /\ pc = "stopped"
      /\ MarkFailed => job'.phase = (IF job.phase = "unknown" THEN "unknown" ELSE "failed") /\ pc = "failing"
  BY <1>0 DEF CloneGivesUp, Stopped, MarkFailed, Phase, Jobs
<1>5. AtHome'
  BY <1>1, <1>2 DEF HomeInv, AtHome
<1>6. HomeInv' /\ ~job'.verified
  <2>1. pc' \notin JobLabels
    BY <1>3, LabelsDisjoint
  <2> QED
    BY <1>2, <1>3, <1>4, <1>5, <2>1 DEF HomeInv, Finals, Landings
<1>7. Home = {"source"} /\ UNCHANGED Home
  BY <1>1, AtHomeShown, HomeFrame DEF HomeInv
<1>8. pc \notin RollbackCommits /\ pc' \notin RollbackCommits
  BY <1>3, LabelsDisjoint DEF RollbackCommits
<1>9. "clone.poll" \in JobLabels /\ "stopped" \in JobLabels
  BY DEF JobLabels, StepLabels
<1>10. CASE UNCHANGED Outcome
  BY <1>1, <1>2, <1>6, <1>8, <1>10, Unseen DEF Shown
<1>11. CASE Outcome' # Outcome
  <2>1. Outcome = "running" /\ Outcome' \in {"failed", "unknown", "stopped"}
    BY <1>3, <1>4, <1>9, <1>11 DEF HomeInv, Outcome, Finals
  <2>2. UNCHANGED (power["target"] = "on") /\ UNCHANGED (pc \in RollbackCommits)
    BY <1>1, <1>8
  <2> QED
    BY <1>1, <1>2, <1>6, <1>7, <2>1, <2>2
    DEF Shown, HomeInv, AtHome, Promised!Promise, Promised!Fail, Promised!Stop
<1> QED
  BY <1>10, <1>11

(* The last guard decides: a MOVE starts at its first reading of the       *)
(* registrations, a COPY has only its lock left.                           *)
LEMMA GuardWhole ==
  ASSUME Typing, HomeInv, ~job.verified, LastGuard
  PROVE  /\ Shown
         /\ \/ HomeInv' /\ ~job'.verified
            \/ job'.verified /\ plan'.mode = "copy" /\ CopyInv'
            \/ job'.verified /\ plan'.mode = "move" /\ MoveInv'
<1> USE DEF Advance, Goto, Local
<1>0. job \in Jobs /\ plan.mode \in {"copy", "move"}
  BY DEF Typing, SwitchTypeOK, Requests
<1>1. UNCHANGED <<plan, reg, power, question, landed, outside>>
  BY DEF LastGuard, Query, hostVars, inventory
<1>2. /\ pc = "last.guard" /\ pc \in JobLabels /\ job.phase \notin Finals
      /\ AtHome /\ job.source = "registered" /\ job.target = "not registered"
  BY DEF LastGuard, HomeInv, JobLabels, ColdLabels
<1>3. /\ job'.source = job.source /\ job'.target = job.target /\ job'.canRollback = job.canRollback
      /\ job'.phase = job.phase /\ (pc' # "failing" => job'.verified)
      /\ (pc' = "failing" => job'.verified = job.verified)
  BY <1>0 DEF LastGuard, Jobs
<1>4. /\ pc' \in {"failing", "commit.check", "finish"}
      /\ pc' = "commit.check" => plan.mode = "move" /\ power["source"] = "off"
      /\ pc' = "finish" => plan.mode # "move" /\ power["source"] = "off"
  BY DEF LastGuard, GuardOk
<1>5. AtHome'
  BY <1>1, <1>2, <1>3 DEF AtHome
<1>6. Shown
  <2>1. pc \notin RollbackCommits /\ pc' \notin RollbackCommits
    BY <1>2, <1>4 DEF RollbackCommits
  <2>2. UNCHANGED Outcome
    BY <1>3 DEF Outcome
  <2> QED
    BY <1>1, <1>3, <2>1, <2>2, Unseen DEF Shown
<1>7. CASE pc' = "failing"
  <2>1. HomeInv' /\ ~job'.verified
    BY <1>2, <1>3, <1>5, <1>7 DEF HomeInv, Landings, Finals
  <2> QED
    BY <1>6, <2>1
<1>8. CASE pc' = "finish"
  <2>1. CopyInv'
    BY <1>1, <1>2, <1>3, <1>4, <1>5, <1>8 DEF CopyInv, Finals
  <2> QED
    BY <1>0, <1>1, <1>3, <1>4, <1>6, <1>8, <2>1
<1>9. CASE pc' = "commit.check"
  <2>1. reg' = OnlySource /\ power'["source"] = "off" /\ power'["target"] = "off" /\ question' = "none"
    BY <1>1, <1>4, <1>5, <1>9 DEF AtHome
  <2>2. RegistrationInv'
    BY <1>1, <1>4, <1>9, <2>1 DEF RegistrationInv, Registered, OnlySource, PowerOnLabels
  <2>3. ViewInv'
    <3>1. reg'["source"] = 1 /\ reg'["target"] = 0
      BY <2>1 DEF OnlySource
    <3> QED
      BY <1>2, <1>3, <1>9, <3>1, ViewValues DEF ViewInv, ViewOf
  <2>4. OfferInv'
    BY <1>5, <1>9 DEF AtHome, OfferInv, PowerOnLabels, RollbackLabels, RollbackCommits
  <2>5. PowerInv'
    BY <1>9, <2>1 DEF PowerInv, PowerOnLabels, RollbackCommits
  <2>6. OutcomeInv'
    BY <1>2, <1>3, <1>5, <1>9 DEF AtHome, OutcomeInv, RollbackLabels, Finals
  <2>7. MoveInv'
    BY <1>9, <2>2, <2>3, <2>4, <2>5, <2>6 DEF MoveInv, Facts, SwitchLabels
  <2> QED
    BY <1>1, <1>3, <1>4, <1>6, <1>9, <2>7
<1> QED
  BY <1>4, <1>7, <1>8, <1>9

(* A step of Switch before the verdict can only be the job's failure, and  *)
(* after it a COPY only ends.                                              *)
LEMMA HomeSwitch ==
  ASSUME Typing, HomeInv, SwitchStep
  PROVE  MarkFailed
<1>1. SwitchShape /\ pc \in SwitchLabels
  BY Shaped, SwitchStepTyped DEF Typing
<1>2. pc = "failing"
  BY <1>1, LabelsDisjoint DEF HomeInv, AtHome, SwitchShape, Landings
<1> QED
  BY <1>2 DEF SwitchStep, Engine, Commit, CommitCheck, CommitSourceOff, CommitUnregister,
         CommitUnregistered, CommitRegister, CommitRegistered, CommitRestore, CommitRestored,
         CommitTargetOff, Committed, PowerOnLoop, PowerOnCheck, PowerOnCommand, PowerOnPoll,
         PowerOnMessage, PowerOnAnswer, PowerOnDeadline, Finish, Rollback, RollbackCheck,
         RollbackPower, RollbackMessage, RollbackUnregister, RollbackUnregistered, RollbackRegister,
         RollbackRegistered, RollbackFinish, RollbackStart, BrowserCloses, OperatorPowersOff,
         RollbackLabels

LEMMA CopySwitch ==
  ASSUME Typing, CopyInv, SwitchStep
  PROVE  Finish \/ MarkFailed
<1>1. SwitchShape /\ pc \in {"finish", "failing"}
  BY Shaped DEF Typing, CopyInv, AtHome, SwitchShape, Landings
<1> QED
  BY <1>1 DEF SwitchStep, Engine, Commit, CommitCheck, CommitSourceOff, CommitUnregister,
         CommitUnregistered, CommitRegister, CommitRegistered, CommitRestore, CommitRestored,
         CommitTargetOff, Committed, PowerOnLoop, PowerOnCheck, PowerOnCommand, PowerOnPoll,
         PowerOnMessage, PowerOnAnswer, PowerOnDeadline, Rollback, RollbackCheck,
         RollbackPower, RollbackMessage, RollbackUnregister, RollbackUnregistered, RollbackRegister,
         RollbackRegistered, RollbackFinish, RollbackStart, BrowserCloses, OperatorPowersOff,
         RollbackLabels

LEMMA CopyEnds ==
  ASSUME Typing, CopyInv, plan.mode = "copy", job.verified, Finish \/ MarkFailed
  PROVE  CopyInv' /\ plan'.mode = "copy" /\ job'.verified /\ Shown
<1> USE DEF Local
<1>0. job \in Jobs /\ ~plan.powerOn
  BY DEF Typing, SwitchTypeOK, Requests
<1>1. UNCHANGED <<plan, reg, power, question, landed, outside>>
  BY DEF Finish, FinishOk, FinishError, MarkFailed, Query, hostVars, inventory
<1>2. /\ pc \in {"finish", "failing"} /\ pc' \in Landings /\ job.phase \notin Finals
      /\ AtHome /\ power["source"] = "off"
  BY DEF CopyInv, Finish, MarkFailed, Landings
<1>3. job'.verified = job.verified /\ job'.canRollback = job.canRollback
  BY <1>0, <1>2 DEF AtHome, Finish, MarkFailed, Jobs
<1>4. AtHome' /\ Outcome = "running" /\ UNCHANGED Home /\ Home = {"source"}
  BY <1>1, <1>2, <1>3, AtHomeShown, HomeFrame DEF AtHome, Outcome, Finals
<1>5. pc \notin RollbackCommits /\ pc' \notin RollbackCommits
  BY <1>2 DEF RollbackCommits, Landings
<1>6. UNCHANGED (power["target"] = "on") /\ UNCHANGED (pc \in RollbackCommits)
  BY <1>1, <1>5
<1>7. CASE UNCHANGED job
  <2>1. CopyInv'
    BY <1>1, <1>2, <1>4, <1>7 DEF CopyInv, Finish, MarkFailed, Finals
  <2> QED
    BY <1>1, <1>3, <1>5, <1>7, <2>1, Unseen DEF Shown, Outcome
<1>8. CASE MarkFailed
  <2>1. job'.phase = "failed" /\ Outcome' = "failed" /\ pc' = "ended"
    BY <1>0, <1>2, <1>8 DEF MarkFailed, Jobs, Outcome, Finals
  <2>2. CopyInv'
    BY <1>1, <1>2, <1>4, <2>1 DEF CopyInv, Landings
  <2> QED
    BY <1>1, <1>3, <1>4, <1>6, <2>1, <2>2 DEF Shown, Promised!Promise, Promised!Fail
<1>9. CASE Finish /\ pc' = "ended"
  <2>1. job'.phase = "completed" /\ Outcome' = "completed" /\ lock' = "archived"
    BY <1>0, <1>9 DEF Finish, FinishOk, Archived, Jobs, Outcome
  <2>2. CopyInv'
    BY <1>1, <1>2, <1>4, <1>9, <2>1 DEF CopyInv, Landings
  <2>3. (power["target"] = "on") = plan.powerOn
    <3>1. (power["target"] = "on") = FALSE /\ plan.powerOn = FALSE
      BY <1>0, <1>2 DEF AtHome, Typing, SwitchTypeOK, Requests
    <3> QED
      BY <3>1
  <2> QED
    BY <1>1, <1>2, <1>3, <1>4, <1>6, <2>1, <2>2, <2>3
    DEF Shown, AtHome, Promised!Promise, Promised!Complete
<1> QED
  BY <1>7, <1>8, <1>9 DEF Finish

(* A MOVE after the verdict is where SwitchProofs has it.                  *)
LEMMA MoveSwitch ==
  ASSUME Typing, MoveInv, SwitchStep
  PROVE  MoveInv' /\ plan' = plan /\ Shown
<1>1. TypeOK /\ TypeOK' /\ pc' \in SwitchLabels
  BY SwitchStepTyped DEF Typing, TypeOK, MoveInv
<1>2. Facts'
  BY <1>1, CommitKeeps, PowerOnKeeps, EndKeeps, RollbackKeeps DEF MoveInv, SwitchStep, Engine
<1>3. Shown
  BY <1>1, <1>2, FactsRollback, CommitShown, PowerOnShown, EndShown, RollbackShown, OperatorShown
  DEF MoveInv, SwitchStep, Engine, Facts, OutcomeInv
<1> QED
  BY <1>1, <1>2, <1>3 DEF MoveInv, Shown

(* The operator, the workers and the guest change nothing of this.         *)
LEMMA AsideWhole ==
  ASSUME Typing, WholeInv, Undisturbed,
         UNCHANGED <<reg, question, lock, landed, outside, switchVars>>,
         power'["target"] = power["target"],
         UNCHANGED power \/ pc \in JobLabels
  PROVE  WholeInv' /\ Shown
<1>1. UNCHANGED <<plan, job, pc>> /\ UNCHANGED AtHome
  BY DEF switchVars, AtHome
<1>2. Shown
  BY <1>1, Unseen DEF Shown, Outcome
<1>3. CASE ~job.verified
  BY <1>1, <1>2, <1>3 DEF WholeInv, HomeInv
<1>4. CASE job.verified /\ plan.mode = "copy"
  <2>1. pc \notin JobLabels
    BY <1>4, LabelsDisjoint DEF WholeInv, CopyInv, JobLabels, StepLabels, ColdLabels, Landings
  <2> QED
    BY <1>1, <1>2, <1>4, <2>1 DEF WholeInv, CopyInv
<1>5. CASE job.verified /\ plan.mode # "copy"
  <2>1. MoveInv /\ UNCHANGED power
    BY <1>5, LabelsDisjoint DEF WholeInv, MoveInv
  <2>2. Facts'
    BY <2>1 DEF MoveInv, Facts, switchVars, RegistrationInv, ViewInv, OfferInv, PowerInv, OutcomeInv,
           Registered, Identified, OnlyTarget, Restored
  <2> QED
    BY <1>1, <1>2, <1>5, <2>1, <2>2 DEF WholeInv, MoveInv
<1> QED
  BY <1>3, <1>4, <1>5

(* Where the engine is when it takes a step, in terms of its verdict.      *)
LEMMA JobAtHome ==
  ASSUME Typing, WholeInv, Undisturbed,
         SharedSteps \/ ColdSteps \/ Shutdown \/ ShutdownDeadline \/ CloneSteps \/ CloneGivesUp \/ Stopped
  PROVE  ~job.verified /\ HomeInv
<1>1. pc \in JobLabels
  <2>1. CASE SharedSteps \/ ColdSteps \/ Shutdown \/ ShutdownDeadline \/ CloneSteps
    BY <2>1, SharedFrame, ColdFrame, ShutdownFrame, CloneFrame
  <2>2. CASE CloneGivesUp \/ Stopped
    BY <2>2 DEF CloneGivesUp, Stopped, JobLabels, StepLabels
  <2> QED
    BY <2>1, <2>2
<1>2. pc \notin SwitchLabels
  BY <1>1, LabelsDisjoint
<1>3. pc \notin {"finish"} \cup Landings
  BY <1>2, LabelsDisjoint DEF SwitchLabels
<1> QED
  BY <1>2, <1>3 DEF WholeInv, CopyInv, MoveInv

LEMMA UndisturbedStep ==
  ASSUME ColdTypeOK, WholeInv, ColdNext, Undisturbed'
  PROVE  Undisturbed /\ WholeInv' /\ Shown
<1>0. Typing
  BY DEF ColdTypeOK, Typing
<1>1. CASE SharedSteps \/ ColdSteps \/ Shutdown \/ ShutdownDeadline \/ CloneSteps \/ CloneGivesUp \/ Stopped
  <2>1. Undisturbed
    <3>1. CASE LastGuard
      BY <3>1 DEF LastGuard, Query, hostVars, Undisturbed
    <3>2. CASE CloneGivesUp \/ Stopped
      BY <3>2 DEF CloneGivesUp, Stopped, Query, hostVars, Undisturbed
    <3>3. CASE ~LastGuard /\ ~CloneGivesUp /\ ~Stopped
      BY <1>0, <1>1, <3>3, SharedFrame, ColdFrame, ShutdownFrame, CloneFrame DEF StepFrame, Undisturbed
    <3> QED
      BY <3>1, <3>2, <3>3
  <2>2. ~job.verified /\ HomeInv
    BY <1>0, <1>1, <2>1, JobAtHome
  <2>3. CASE LastGuard
    BY <1>0, <2>1, <2>2, <2>3, GuardWhole DEF WholeInv
  <2>4. CASE CloneGivesUp \/ Stopped
    BY <1>0, <2>1, <2>2, <2>4, HomeEnds DEF WholeInv
  <2>5. CASE ~LastGuard /\ ~CloneGivesUp /\ ~Stopped
    BY <1>0, <1>1, <2>1, <2>2, <2>5, SharedFrame, ColdFrame, ShutdownFrame, CloneFrame, HomeSteps DEF WholeInv
  <2> QED
    BY <2>3, <2>4, <2>5
<1>2. CASE SwitchStep /\ UNCHANGED stepVars
  <2>1. Undisturbed /\ job'.verified = job.verified
    BY <1>0, <1>2, Shaped DEF Typing, SwitchShape, Undisturbed
  <2>2. CASE ~job.verified
    BY <1>0, <1>2, <2>1, <2>2, HomeSwitch, HomeEnds DEF WholeInv
  <2>3. CASE job.verified /\ plan.mode = "copy"
    BY <1>0, <1>2, <2>1, <2>3, CopySwitch, CopyEnds DEF WholeInv
  <2>4. CASE job.verified /\ plan.mode # "copy"
    BY <1>0, <1>2, <2>1, <2>4, MoveSwitch DEF WholeInv
  <2> QED
    BY <2>2, <2>3, <2>4
<1>3. CASE Operator \/ Worker
  <2>1. UNCHANGED <<hostVars, switchVars>>
    BY <1>0, <1>3, OperatorTyped, WorkerTyped
  <2> QED
    BY <1>0, <2>1, AsideWhole DEF hostVars, inventory, Undisturbed
<1>4. CASE GuestStops
  <2>1. /\ UNCHANGED <<reg, question, lock, landed, outside, switchVars>>
        /\ power'["target"] = power["target"] /\ pc \in JobLabels
    BY <1>0, <1>4 DEF GuestStops, Typing, HostTypeOK, JobLabels, StepLabels
  <2> QED
    BY <1>0, <2>1, AsideWhole DEF Undisturbed
<1>5. CASE Disturb
  BY <1>0, <1>5, DisturbIsSeen DEF Typing, Disturb
<1> QED
  BY <1>1, <1>2, <1>3, <1>4, <1>5, ColdCases

LEMMA PlanStays ==
  ASSUME Typing, ColdNext
  PROVE  UNCHANGED plan
<1>1. CASE SharedSteps \/ ColdSteps \/ Shutdown \/ ShutdownDeadline \/ CloneSteps
  <2>1. CASE LastGuard
    BY <2>1 DEF LastGuard, Local
  <2> QED
    BY <1>1, <2>1, SharedFrame, ColdFrame, ShutdownFrame, CloneFrame DEF StepFrame
<1>2. CASE CloneGivesUp \/ Stopped
  BY <1>2 DEF CloneGivesUp, Stopped, Local
<1>3. CASE SwitchStep
  BY <1>3 DEF SwitchStep, Engine, Commit, PowerOnLoop, PowerOnDeadline, Rollback, Finish, MarkFailed,
         RollbackStart, BrowserCloses, OperatorPowersOff, Local, switchVars,
         CommitCheck, CommitSourceOff, CommitUnregister, CommitUnregistered, CommitRegister,
         CommitRegistered, CommitRestore, CommitRestored, CommitTargetOff, Committed,
         PowerOnCheck, PowerOnCommand, PowerOnPoll, PowerOnMessage, PowerOnAnswer,
         RollbackCheck, RollbackPower, RollbackMessage, RollbackUnregister, RollbackUnregistered,
         RollbackRegister, RollbackRegistered, RollbackFinish
<1>4. CASE Operator \/ Worker \/ GuestStops \/ Disturb
  BY <1>4, OperatorTyped, WorkerTyped DEF GuestStops, Disturb, switchVars
<1> QED
  BY <1>1, <1>2, <1>3, <1>4, ColdCases

LEMMA ColdNextWhole == ColdTypeOK /\ WholeInv /\ [ColdNext]_coldVars => WholeInv'
<1> SUFFICES ASSUME ColdTypeOK, WholeInv, [ColdNext]_coldVars
             PROVE  WholeInv'
  OBVIOUS
<1>1. CASE ColdNext /\ Undisturbed'
  BY <1>1, UndisturbedStep
<1>2. CASE ~Undisturbed'
  BY <1>2 DEF WholeInv
<1>3. CASE UNCHANGED coldVars /\ Undisturbed'
  <2>1. /\ UNCHANGED <<reg, power, question, lock, landed, outside, switchVars>> /\ Undisturbed
    BY <1>3 DEF coldVars, vars, hostVars, inventory, Undisturbed
  <2> QED
    BY <2>1, AsideWhole DEF ColdTypeOK, Typing
<1> QED
  BY <1>1, <1>2, <1>3

LEMMA ColdNextImplements ==
  ColdTypeOK /\ WholeInv /\ [ColdNext]_coldVars => [Promised!RelocationNext]_Promised!relocationVars
<1> SUFFICES ASSUME ColdTypeOK, WholeInv, [ColdNext]_coldVars
             PROVE  [Promised!RelocationNext]_Promised!relocationVars
  OBVIOUS
<1>1. CASE UNCHANGED coldVars
  <2>1. UNCHANGED <<plan, reg, power, job, pc, landed, outside>>
    BY <1>1 DEF coldVars, vars, hostVars, inventory, switchVars
  <2> QED
    BY <2>1, Unseen DEF Outcome
<1>2. CASE ColdNext /\ ~Undisturbed'
  <2>1. UNCHANGED plan
    BY <1>2, PlanStays DEF ColdTypeOK, Typing
  <2> QED
    BY <1>2, <2>1 DEF Promised!RelocationNext
<1>3. CASE ColdNext /\ Undisturbed'
  <2>1. Undisturbed /\ Shown
    BY <1>3, UndisturbedStep
  <2> QED
    BY <1>3, <2>1 DEF Shown, Promised!RelocationNext
<1> QED
  BY <1>1, <1>2, <1>3

(* A cold migration, for any number of disks, does only what Relocation    *)
(* allows: the VM stays at home until its target is verified, and a stop,  *)
(* a failure and a copy leave it there.                                    *)
THEOREM ColdImplements == ColdSpec => Relocates
  BY ColdTyped, ColdInitWhole, ColdNextWhole, ColdNextImplements, PTL
  DEF ColdSpec, Relocates, Promised!RelocationSpec

(* A cold migration called completed left what the README's table says:    *)
(* see ColdResult.                                                         *)
THEOREM ColdEndsAsPromised == ColdSpec => []ColdResult
<1>1. ColdTypeOK /\ WholeInv => ColdResult
  <2> SUFFICES ASSUME ColdTypeOK, WholeInv, job.phase = "completed", Undisturbed
               PROVE  ColdResult
    BY DEF ColdResult
  <2>1. job.verified
    BY DEF WholeInv, HomeInv
  <2>2. plan \in Requests
    BY DEF ColdTypeOK, SwitchTypeOK
  <2>3. CASE plan.mode = "copy"
    BY <2>1, <2>2, <2>3 DEF WholeInv, CopyInv, AtHome, ColdResult, Requests
  <2>4. CASE plan.mode # "copy"
    BY <2>1, <2>4 DEF WholeInv, MoveInv, Facts, OutcomeInv, PowerInv, ColdResult
  <2> QED
    BY <2>3, <2>4
<1> QED
  BY <1>1, ColdTyped, ColdInitWhole, ColdNextWhole, PTL DEF ColdSpec

(* Each disk's worker of a cold migration behaves as DetachedClone says:   *)
(* see ClonesAsPromised.                                                   *)
THEOREM ColdImplementsClones == ColdSpec => ClonesAsPromised
<1>1. ColdInit => Clones!Init
  BY ShadowInit DEF ColdInit
<1>2. ColdTypeOK /\ [ColdNext]_coldVars => [Clones!Next]_Shadow
  <2> SUFFICES ASSUME Typing, [ColdNext]_coldVars
               PROVE  [Clones!Next]_Shadow
    BY DEF ColdTypeOK, Typing
  <2>1. CASE SharedSteps \/ Shutdown \/ ShutdownDeadline \/ Stopped
    BY <2>1, SharedClones, ShadowStays
  <2>2. CASE CloneSteps \/ CloneGivesUp \/ Worker
    BY <2>2, ClonesStep
  <2>3. CASE ColdSteps \/ GuestStops \/ Disturb \/ (SwitchStep /\ UNCHANGED stepVars)
    <3>1. UNCHANGED worker
      BY <2>3 DEF ColdSteps, Preflight, PreflightOwn, ShutdownRevalidate, GuardAfterShutdown, DiskGuard,
             DiskOff, DiskCloned, AllGuard, VerifyAll, LastGuard, GuestStops, Disturb, stepVars, clones
    <3> QED
      BY <3>1, ShadowStays
  <2>4. CASE Operator
    BY <2>4, OperatorTyped, ShadowStays DEF clones
  <2>5. CASE UNCHANGED coldVars
    BY <2>5, ShadowStays DEF coldVars, stepVars
  <2> QED
    BY <2>1, <2>2, <2>3, <2>4, <2>5, ColdCases
<1>3. ColdTypeOK /\ [ColdNext]_coldVars =>
          [Clones!Next]_([d \in Disks |-> IF worker[d] = "delayed" THEN "none" ELSE worker[d]])
  BY <1>2 DEF Shadow
<1> QED
  BY <1>1, <1>3, ColdTyped, PTL DEF ColdSpec, ClonesAsPromised, Clones!Spec
=============================================================================

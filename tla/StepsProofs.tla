------------------------------ MODULE StepsProofs ------------------------------
(***************************************************************************)
(* What a cold and a live migration share, for any number of disks: the    *)
(* types of the steps of JobSteps, the shape of the steps of Switch, and   *)
(* the invariant behind ClonesAccounted.                                   *)
(***************************************************************************)
EXTENDS JobSteps, SwitchProofs

USE DEF VMs, SourceId

Typing == HostTypeOK /\ SwitchTypeOK /\ StepsTypeOK

(***************************************************************************)
(* The steps of Switch, seen from the job.                                 *)
(***************************************************************************)
SwitchStep == Engine \/ PowerOnDeadline \/ RollbackStart \/ BrowserCloses \/ OperatorPowersOff

LEMMA SwitchStepTyped ==
  ASSUME HostTypeOK, SwitchTypeOK, SwitchStep
  PROVE  HostTypeOK' /\ SwitchTypeOK' /\ pc \in SwitchLabels /\ pc' \in SwitchLabels
<1>1. pc \in SwitchLabels
  BY DEF SwitchStep, Engine, Commit, CommitCheck, CommitSourceOff, CommitUnregister,
         CommitUnregistered, CommitRegister, CommitRegistered, CommitRestore, CommitRestored,
         CommitTargetOff, Committed, PowerOnLoop, PowerOnCheck, PowerOnCommand, PowerOnPoll,
         PowerOnMessage, PowerOnAnswer, PowerOnDeadline, Finish, MarkFailed, Rollback, RollbackCheck,
         RollbackPower, RollbackMessage, RollbackUnregister, RollbackUnregistered, RollbackRegister,
         RollbackRegistered, RollbackFinish, RollbackStart, BrowserCloses, OperatorPowersOff,
         SwitchLabels, RollbackLabels
<1>2. TypeOK
  BY <1>1 DEF TypeOK
<1>3. [Next]_vars
  BY DEF SwitchStep, Next
<1> QED
  BY <1>1, <1>2, <1>3, NextTyped DEF TypeOK

(* An ended job can only be rolled back, a failed one only end; the lock   *)
(* is archived by the last call alone; and no step touches the source's    *)
(* power or takes the verdict on the target back.                          *)
Closed == {"ended"} \cup RollbackLabels

SwitchShape ==
    /\ UNCHANGED <<landed, outside>>
    /\ job'.verified = job.verified
    /\ power'["source"] = power["source"]
    /\ job'.complete => job.complete \/ pc' = "ended"
    /\ pc \in Closed => pc' \in Closed
    /\ pc \notin {"ended", "failing"} =>
         job'.phase \in {job.phase, "commit", "power_on", "completed", "rolled_back"}
    /\ pc = "failing" => pc' = "ended" /\ job'.phase \in {"unknown", "failed"} /\ UNCHANGED lock
                         /\ (job'.phase = "unknown" <=> job.phase = "unknown")
    /\ pc = "ended" => /\ job.canRollback /\ UNCHANGED <<lock, job>>
                       /\ pc' = "ended" \/ job.phase = "failed"
    /\ lock' # lock => pc \in {"finish", "rollback.finish"}
    /\ reg' # reg => pc \notin {"failing", "ended"}
    /\ job'.canRollback => job.canRollback \/ pc = "commit.registered"

LEMMA CommitShape ==
  ASSUME HostTypeOK, SwitchTypeOK, Commit
  PROVE  SwitchShape
<1> USE DEF SwitchShape, Closed, RollbackLabels
<1>1. job \in Jobs /\ Published(job).phase = job.phase /\ Published(job).verified = job.verified
      /\ Published(job).complete = job.complete /\ Published(job).canRollback = job.canRollback
  BY DEF SwitchTypeOK, Published, Jobs
<1>2. CASE CommitCheck
  BY <1>2 DEF CommitCheck, Query, hostVars, inventory
<1>3. CASE CommitSourceOff
  BY <1>1, <1>3 DEF CommitSourceOff, Query, hostVars, inventory, Jobs
<1>4. CASE CommitUnregister
  BY <1>4, UnregisterCall DEF CommitUnregister, CallFrame
<1>5. CASE CommitUnregistered
  BY <1>1, <1>5 DEF CommitUnregistered, Query, hostVars, inventory
<1>6. CASE CommitRegister
  BY <1>1, <1>6, RegisterCall DEF CommitRegister, CallFrame, Jobs
<1>7. CASE CommitRegistered
  <2>1. Published(job) \in Jobs
    BY PublishedTyped DEF SwitchTypeOK
  <2> QED
    BY <1>1, <1>7, <2>1 DEF CommitRegistered, Query, hostVars, inventory, Jobs
<1>8. CASE CommitRestore
  BY <1>8, RegisterCall DEF CommitRestore, CallFrame
<1>9. CASE CommitRestored
  BY <1>1, <1>9 DEF CommitRestored, Query, hostVars, inventory
<1>10. CASE CommitTargetOff
  BY <1>1, <1>10 DEF CommitTargetOff, Query, hostVars, inventory, Jobs
<1>11. CASE Committed
  BY <1>11 DEF Committed, Query, hostVars, inventory
<1> QED
  BY <1>2, <1>3, <1>4, <1>5, <1>6, <1>7, <1>8, <1>9, <1>10, <1>11 DEF Commit

LEMMA PowerOnShape ==
  ASSUME HostTypeOK, SwitchTypeOK, PowerOnLoop \/ PowerOnDeadline
  PROVE  SwitchShape
<1> USE DEF SwitchShape, Closed, RollbackLabels
<1>1. job \in Jobs /\ power \in [VMs -> PowerStates]
  BY DEF SwitchTypeOK, HostTypeOK
<1>2. CASE PowerOnCheck
  BY <1>1, <1>2 DEF PowerOnCheck, Query, hostVars, inventory, Jobs
<1>3. CASE PowerOnCommand
  <2>1. UNCHANGED <<reg, lock, landed, outside>> /\ power'["source"] = power["source"]
    BY <1>1, <1>3, PowerOnCall DEF PowerOnCommand, CallFrame
  <2> QED
    BY <1>3, <2>1 DEF PowerOnCommand
<1>4. CASE PowerOnPoll
  BY <1>1, <1>4 DEF PowerOnPoll, Query, hostVars, inventory, Jobs
<1>5. CASE PowerOnMessage
  BY <1>1, <1>5 DEF PowerOnMessage, Query, hostVars, inventory, Jobs
<1>6. CASE PowerOnAnswer
  BY <1>6 DEF PowerOnAnswer
<1>7. CASE PowerOnDeadline
  BY <1>7 DEF PowerOnDeadline, Query, hostVars, inventory
<1> QED
  BY <1>2, <1>3, <1>4, <1>5, <1>6, <1>7 DEF PowerOnLoop

LEMMA EndShape ==
  ASSUME HostTypeOK, SwitchTypeOK, Finish \/ MarkFailed
  PROVE  SwitchShape
<1> USE DEF SwitchShape, Closed, RollbackLabels
<1>1. job \in Jobs
  BY DEF SwitchTypeOK
<1>2. CASE Finish
  BY <1>1, <1>2 DEF Finish, inventory, Jobs
<1>3. CASE MarkFailed
  BY <1>1, <1>3 DEF MarkFailed, Query, hostVars, inventory, Jobs
<1> QED
  BY <1>2, <1>3

LEMMA RollbackShape ==
  ASSUME HostTypeOK, SwitchTypeOK, Rollback \/ RollbackStart \/ BrowserCloses \/ OperatorPowersOff
  PROVE  SwitchShape
<1> USE DEF SwitchShape, Closed, RollbackLabels
<1>1. job \in Jobs /\ Published(job).phase = job.phase /\ Published(job).verified = job.verified
      /\ Published(job).complete = job.complete /\ Published(job).canRollback = job.canRollback
  BY DEF SwitchTypeOK, Published, Jobs
<1>2. Published(job) \in Jobs
  BY PublishedTyped DEF SwitchTypeOK
<1>3. CASE RollbackCheck
  BY <1>3 DEF RollbackCheck, Query, hostVars, inventory
<1>4. CASE RollbackPower
  BY <1>4 DEF RollbackPower, Query, hostVars, inventory
<1>5. CASE RollbackMessage
  BY <1>1, <1>5 DEF RollbackMessage, OfferWithdrawn, Query, hostVars, inventory, Jobs
<1>6. CASE RollbackUnregister
  BY <1>6, UnregisterCall DEF RollbackUnregister, CallFrame
<1>7. CASE RollbackUnregistered
  BY <1>1, <1>2, <1>7 DEF RollbackUnregistered, Query, hostVars, inventory, Jobs
<1>8. CASE RollbackRegister
  BY <1>8, RegisterCall DEF RollbackRegister, CallFrame
<1>9. CASE RollbackRegistered
  BY <1>1, <1>2, <1>9 DEF RollbackRegistered, Query, hostVars, inventory, Jobs
<1>10. CASE RollbackFinish
  BY <1>1, <1>10 DEF RollbackFinish, inventory, Jobs
<1>11. CASE RollbackStart
  BY <1>11 DEF RollbackStart, Query, hostVars, inventory
<1>12. CASE BrowserCloses
  BY <1>12 DEF BrowserCloses, Query, hostVars, inventory
<1>13. CASE OperatorPowersOff
  <2>1. power'["source"] = power["source"]
    BY <1>13 DEF OperatorPowersOff, HostTypeOK
  <2> QED
    BY <1>13, <2>1 DEF OperatorPowersOff, switchVars
<1> QED
  BY <1>3, <1>4, <1>5, <1>6, <1>7, <1>8, <1>9, <1>10, <1>11, <1>12, <1>13 DEF Rollback

LEMMA Shaped == HostTypeOK /\ SwitchTypeOK /\ SwitchStep => SwitchShape
  BY CommitShape, PowerOnShape, EndShape, RollbackShape DEF SwitchStep, Engine

(***************************************************************************)
(* Types of the steps of JobSteps.                                         *)
(***************************************************************************)
Landings == {"failing", "ended"}

LEMMA PhaseTyped ==
  ASSUME SwitchTypeOK, NEW p \in Phases, Phase(p), Local
  PROVE  SwitchTypeOK'
  BY DEF SwitchTypeOK, Phase, Local, Jobs

LEMMA LocalTyped ==
  ASSUME SwitchTypeOK, UNCHANGED job, Local
  PROVE  SwitchTypeOK'
  BY DEF SwitchTypeOK, Local

LEMMA OperatorTyped ==
  ASSUME Typing, Operator
  PROVE  Typing' /\ UNCHANGED <<hostVars, switchVars, watch, clones, changed, final>>
<1> USE DEF Typing
<1>1. UNCHANGED <<hostVars, switchVars, watch, clones, changed, final>>
  BY DEF Operator, RequestStop, ControlChecks, ControlSends
<1>2. StepsTypeOK'
  BY <1>1 DEF Operator, RequestStop, ControlChecks, ControlSends, StepsTypeOK, watch, clones
<1>3. SwitchTypeOK' /\ HostTypeOK'
  BY <1>1, QueryTyped DEF SwitchTypeOK, switchVars, Query
<1> QED
  BY <1>1, <1>2, <1>3

LEMMA SharedTyped ==
  ASSUME Typing, SharedSteps
  PROVE  Typing' /\ pc' \in StepLabels \cup Landings
<1> USE DEF Typing, StepLabels, Landings, Goto, Advance
<1>1. CASE Run
  BY <1>1, QueryTyped, PhaseTyped DEF Run, StepsTypeOK, stepVars, Phases
<1>2. CASE Acquire
  <2>1. HostTypeOK' /\ UNCHANGED job
    BY <1>2 DEF Acquire, HostTypeOK, LockStates, inventory
  <2>2. SwitchTypeOK' /\ StepsTypeOK'
    BY <1>2, <2>1, LocalTyped DEF Acquire, StepsTypeOK, stepVars
  <2>3. pc' \in {"preflight.own", "failing"}
    BY <1>2 DEF Acquire
  <2> QED
    BY <2>1, <2>2, <2>3
<1>3. CASE CreateTarget
  <2>1. SwitchTypeOK' /\ StepsTypeOK'
    BY <1>3, LocalTyped DEF CreateTarget, StepsTypeOK, control, clones
  <2>2. pc' \in {"disk.guard", "failing"} /\ Query
    BY <1>3 DEF CreateTarget
  <2> QED
    BY <2>1, <2>2, QueryTyped
<1>4. CASE CopyConfig
  <2>1. SwitchTypeOK' /\ StepsTypeOK'
    BY <1>4, LocalTyped DEF CopyConfig, StepsTypeOK, stepVars
  <2>2. pc' \in {"verify.all", "failing"} /\ Query
    BY <1>4 DEF CopyConfig
  <2> QED
    BY <2>1, <2>2, QueryTyped
<1>5. CASE DiskVerify
  <2>1. disk \in 1..NDisks /\ NDisks \in Nat
    BY StepsAssumption DEF StepsTypeOK, Disks
  <2>2. pc' = "disk.guard" => disk < NDisks
    BY <1>5 DEF DiskVerify, NextDisk
  <2>3. disk' \in Disks
    BY <1>5, <2>1, <2>2 DEF DiskVerify, Disks
  <2>4. pc' \in {"failing", "disk.guard", "all.guard"}
    BY <1>5 DEF DiskVerify, NextDisk
  <2>5. SwitchTypeOK' /\ StepsTypeOK' /\ Query
    BY <1>5, <2>3, LocalTyped DEF DiskVerify, StepsTypeOK, control, clones
  <2> QED
    BY <2>4, <2>5, QueryTyped
<1> QED
  BY <1>1, <1>2, <1>3, <1>4, <1>5 DEF SharedSteps

LEMMA ForceTyped ==
  ASSUME HostTypeOK, ShutdownForce
  PROVE  HostTypeOK' /\ UNCHANGED <<reg, lock, landed, outside>>
<1>1. ForceOff \in Commands
  BY DEF ForceOff, Commands
<1>2. UNCHANGED <<lock, landed, outside>>
  BY DEF ShutdownForce
<1>3. CASE Obey(ForceOff)
  <2>1. UNCHANGED reg
    BY <1>3 DEF Obey, TakeEffect, ForceOff, PowerOff
  <2> QED
    BY <1>1, <1>2, <1>3, <2>1, EffectTyped DEF Obey, HostTypeOK
<1>4. CASE Ignore
  BY <1>2, <1>4 DEF Ignore, HostTypeOK, inventory
<1>5. CASE Delay(ForceOff)
  BY <1>1, <1>2, <1>5 DEF Delay, HostTypeOK, inventory
<1> QED
  BY <1>3, <1>4, <1>5 DEF ShutdownForce

LEMMA ShutdownTyped ==
  ASSUME Typing, Shutdown \/ ShutdownDeadline
  PROVE  Typing' /\ pc' \in StepLabels \cup Landings
<1> USE DEF Typing, StepLabels, Landings, Goto
<1>1. CASE ShutdownBegin
  <2>1. SwitchTypeOK'
    BY <1>1, PhaseTyped DEF ShutdownBegin, Phases, SwitchTypeOK, Local
  <2> QED
    BY <1>1, <2>1, QueryTyped DEF ShutdownBegin, StepsTypeOK, stepVars, SwitchTypeOK, PowerStates
<1>2. CASE ShutdownRequest
  BY <1>2, QueryTyped DEF ShutdownRequest, SwitchTypeOK, StepsTypeOK, stepVars, Local
<1>3. CASE ShutdownPoll
  <2>1. SwitchTypeOK' /\ StepsTypeOK' /\ Query
    BY <1>3, LocalTyped DEF ShutdownPoll, StepsTypeOK, stepVars
  <2>2. pc' \in {"stopped", "failing", "shutdown.done", "shutdown.poll"}
    BY <1>3 DEF ShutdownPoll
  <2> QED
    BY <2>1, <2>2, QueryTyped
<1>4. CASE ShutdownReceive
  <2>1. SwitchTypeOK'
    BY <1>4, PhaseTyped DEF ShutdownReceive, Phases, SwitchTypeOK, Local
  <2>2. StepsTypeOK'
    BY <1>4 DEF ShutdownReceive, StepsTypeOK, watch, clones
  <2>3. pc' \in {"stopped", "shutdown.revalidate", "shutdown.poll"}
    BY <1>4 DEF ShutdownReceive
  <2> QED
    BY <1>4, <2>1, <2>2, <2>3, QueryTyped DEF ShutdownReceive
<1>5. CASE ShutdownForce
  <2>1. SwitchTypeOK'
    BY <1>5, PhaseTyped DEF ShutdownForce, Phases, SwitchTypeOK, Local
  <2>2. pc' \in {"failing", "shutdown.poll"}
    BY <1>5 DEF ShutdownForce
  <2> QED
    BY <1>5, <2>1, <2>2, ForceTyped DEF ShutdownForce, StepsTypeOK, stepVars
<1>6. CASE ShutdownDeadline
  BY <1>6, QueryTyped, PhaseTyped DEF ShutdownDeadline, StepsTypeOK, stepVars, Phases
<1> QED
  BY <1>1, <1>2, <1>3, <1>4, <1>5, <1>6 DEF Shutdown

LEMMA GuestTyped ==
  ASSUME Typing, GuestStops
  PROVE  /\ Typing' /\ UNCHANGED <<reg, lock, landed, outside, switchVars, stepVars>>
         /\ power'["source"] = "off"
<1>1. /\ power' = [power EXCEPT !["source"] = "off"]
      /\ UNCHANGED <<reg, lastId, question, lock, flying, landed, outside, switchVars, stepVars>>
  BY DEF GuestStops
<1>2. HostTypeOK' /\ power'["source"] = "off"
  BY <1>1 DEF Typing, HostTypeOK, PowerStates
<1> QED
  BY <1>1, <1>2 DEF Typing, SwitchTypeOK, switchVars, StepsTypeOK, stepVars

LEMMA CloneTyped ==
  ASSUME Typing, CloneSteps \/ CloneGivesUp
  PROVE  Typing' /\ pc' \in StepLabels \cup Landings
<1> USE DEF Typing, StepLabels, Landings, Goto
<1>0. job \in Jobs /\ \A p \in Phases : [job EXCEPT !.phase = p] \in Jobs
  BY DEF SwitchTypeOK, Jobs
<1>1. CASE CloneStart
  <2>1. job' \in Jobs
    BY <1>0, <1>1 DEF CloneStart, Phase, Phases
  <2> QED
    BY <1>1, <2>1, QueryTyped
    DEF CloneStart, SwitchTypeOK, StepsTypeOK, Local, control, WorkerBecomes, WorkerStates
<1>2. CASE ClonePoll
  <2>1. job' \in Jobs
    BY <1>0, <1>2 DEF ClonePoll, CloneExits, CloneRuns, Phase, Phases
  <2>2. cause' \in BOOLEAN
    BY <1>2 DEF ClonePoll, CloneExits, CloneRuns, StepsTypeOK
  <2>3. pc' \in {"clone.poll", "clone.stop", "failing", "stopped", "clone.done"}
    BY <1>2 DEF ClonePoll, CloneExits, CloneRuns, Watch
  <2>4. SwitchTypeOK' /\ Query
    BY <1>2, <2>1 DEF ClonePoll, SwitchTypeOK, Local
  <2>5. StepsTypeOK'
    BY <1>2, <2>2 DEF ClonePoll, StepsTypeOK, control, clones
  <2> QED
    BY <2>3, <2>4, <2>5, QueryTyped
<1>3. CASE CloneStop
  <2>1. stopping' \in BOOLEAN /\ worker' \in [Disks -> WorkerStates]
    BY <1>3 DEF CloneStop, StepsTypeOK, WorkerBecomes, WorkerStates
  <2> QED
    BY <1>3, <2>1, QueryTyped DEF CloneStop, SwitchTypeOK, StepsTypeOK, Local, control
<1>4. CASE CloneGivesUp
  BY <1>4, QueryTyped, PhaseTyped DEF CloneGivesUp, StepsTypeOK, stepVars, Phases
<1> QED
  BY <1>1, <1>2, <1>3, <1>4 DEF CloneSteps

LEMMA StoppedTyped ==
  ASSUME Typing, Stopped
  PROVE  Typing' /\ pc' = "ended" /\ UNCHANGED <<reg, power, landed, outside, stepVars>>
<1>1. HostTypeOK' /\ UNCHANGED <<reg, power, landed, outside, stepVars>>
  BY DEF Typing, Stopped, FinishOk, FinishError, Archived, HostTypeOK, LockStates, inventory
<1>2. job' \in Jobs
  BY DEF Typing, SwitchTypeOK, Stopped, Jobs, Phases
<1> QED
  BY <1>1, <1>2 DEF Typing, Stopped, SwitchTypeOK, Local, StepsTypeOK, stepVars, Goto

LEMMA WorkerTyped ==
  ASSUME Typing, Worker
  PROVE  Typing' /\ UNCHANGED <<hostVars, switchVars, control, watch, changed>>
<1>1. UNCHANGED <<hostVars, switchVars, control, watch, changed>>
  BY DEF Worker
<1>2. HostTypeOK' /\ SwitchTypeOK'
  BY <1>1, QueryTyped DEF Typing, SwitchTypeOK, switchVars, Query
<1>3. worker' \in [Disks -> WorkerStates] /\ copied' \in [Disks -> {"nothing", "snapshot of the source", "torn"}]
  BY DEF Typing, StepsTypeOK, Worker, WorkerLaunches, WorkerChecksPower, WorkerEnds, WorkerDies,
         WorkerBecomes, WorkerStates
<1> QED
  BY <1>1, <1>2, <1>3 DEF Typing, StepsTypeOK, control, watch

(***************************************************************************)
(* Clones.  Only the disk the engine is at may have a worker that has not  *)
(* ended, and only while waitClone watches it or after the job was given   *)
(* up as "unknown"; the lock is archived past every clone.                 *)
(***************************************************************************)
Watching == {"clone.poll", "clone.stop"}

(* From these the engine still gets to a clone.                            *)
Early == {"queued", "preflight", "acquire", "preflight.own", "folder", "shutdown.begin",
          "shutdown.request", "shutdown.poll", "shutdown.await", "shutdown.revalidate",
          "shutdown.force", "shutdown.done", "disk.guard", "disk.off", "clone.start", "clone.done",
          "disk.verify", "all.guard", "snapshot", "deltas"} \cup Watching

CloneInv ==
    /\ \A d \in Disks : Active(d) => d = disk /\ (pc \in Watching \/ job.phase = "unknown")
    /\ job.phase = "unknown" => pc \in Landings
    /\ job.complete => pc \in Closed
    /\ lock = "archived" => job.phase # "unknown" /\ pc \notin Early

LEMMA CloneInvMeans == CloneInv => ClonesAccounted
  BY DEF CloneInv, ClonesAccounted, NoneActive, Closed, RollbackLabels, Watching, Early

LEMMA LabelsApart ==
  /\ Watching \subseteq Early /\ Early \cap SwitchLabels = {} /\ Closed \subseteq SwitchLabels
  /\ "failing" \in SwitchLabels /\ "ended" \in Closed /\ "failing" \notin Closed
  /\ "stopped" \notin Early \cup SwitchLabels
  BY DEF Watching, Early, SwitchLabels, Closed, RollbackLabels

(* A step of the engine that launches, watches and ends nothing.           *)
LEMMA WorkKeeps ==
  ASSUME CloneInv, pc \notin Watching \cup Closed \cup Landings, UNCHANGED <<worker, lock>>,
         job'.complete = job.complete, job'.phase \in Phases \ {"unknown"} \/ UNCHANGED job,
         pc \in Early \/ pc' \notin Early
  PROVE  CloneInv'
  BY DEF CloneInv, Active

LEMMA SwitchKeeps ==
  ASSUME CloneInv, SwitchShape, pc \in SwitchLabels, pc' \in SwitchLabels, UNCHANGED <<worker, disk>>
  PROVE  CloneInv'
<1>1. pc \notin Early /\ pc' \notin Early /\ pc \notin Watching
  BY LabelsApart
<1>2. CASE pc \notin Landings
  <2>1. job.phase # "unknown" /\ job'.phase # "unknown"
    BY <1>2 DEF CloneInv, SwitchShape, Landings
  <2>2. job'.complete => pc' \in Closed
    BY LabelsApart DEF CloneInv, SwitchShape
  <2> QED
    BY <1>1, <2>1, <2>2 DEF CloneInv, Active
<1>3. CASE pc = "failing"
  BY <1>1, <1>3 DEF CloneInv, SwitchShape, Active, Landings, Closed
<1>4. CASE pc = "ended"
  <2>1. UNCHANGED <<job, lock>> /\ (pc' = "ended" \/ job.phase = "failed")
    BY <1>4 DEF SwitchShape
  <2>2. pc' \in Closed
    BY <1>4, LabelsApart DEF SwitchShape
  <2> QED
    BY <1>1, <1>4, <2>1, <2>2 DEF CloneInv, Active, Landings
<1> QED
  BY <1>2, <1>3, <1>4 DEF Landings

LEMMA OperatorKeeps ==
  ASSUME CloneInv, UNCHANGED <<switchVars, lock, worker, disk>>
  PROVE  CloneInv'
  BY DEF CloneInv, Active, switchVars

LEMMA SharedKeeps ==
  ASSUME Typing, CloneInv, SharedSteps
  PROVE  CloneInv'
<1> USE DEF Goto, Advance, Watching, Closed, RollbackLabels, Landings
<1>1. job \in Jobs
  BY DEF Typing, SwitchTypeOK
<1>2. CASE Run
  <2>1. job'.complete = job.complete /\ job'.phase = "preflight"
    BY <1>1, <1>2 DEF Run, Phase, Jobs
  <2>2. pc = "queued" /\ UNCHANGED <<worker, lock>>
    BY <1>2 DEF Run, Query, hostVars, stepVars
  <2> QED
    BY <2>1, <2>2, WorkKeeps DEF Early, Phases
<1>3. CASE Acquire
  <2>1. pc = "acquire" /\ UNCHANGED <<worker, disk, job>> /\ pc' \in {"preflight.own", "failing"}
        /\ lock' \in {lock, "held"}
    BY <1>3 DEF Acquire, stepVars
  <2> QED
    BY <2>1 DEF CloneInv, Active, Early
<1>4. CASE CreateTarget
  BY <1>4, WorkKeeps DEF CreateTarget, Query, hostVars, clones, Early
<1>5. CASE CopyConfig
  BY <1>5, WorkKeeps DEF CopyConfig, Query, hostVars, stepVars, Early
<1>6. CASE DiskVerify
  BY <1>6, WorkKeeps DEF DiskVerify, Query, hostVars, clones, Early
<1> QED
  BY <1>2, <1>3, <1>4, <1>5, <1>6 DEF SharedSteps

LEMMA ShutdownKeeps ==
  ASSUME Typing, CloneInv, Shutdown \/ ShutdownDeadline
  PROVE  CloneInv'
<1> USE DEF Goto, Watching, Closed, RollbackLabels, Landings
<1>1. job \in Jobs
  BY DEF Typing, SwitchTypeOK
<1>2. \A p \in Phases : Phase(p) => job'.complete = job.complete /\ job'.phase = p
  BY <1>1 DEF Phase, Jobs
<1>3. pc \in {"shutdown.begin", "shutdown.request", "shutdown.poll", "shutdown.await", "shutdown.force"}
  BY DEF Shutdown, ShutdownBegin, ShutdownRequest, ShutdownPoll, ShutdownReceive, ShutdownForce,
         ShutdownDeadline
<1>4. UNCHANGED <<worker, lock>>
  BY DEF Shutdown, ShutdownBegin, ShutdownRequest, ShutdownPoll, ShutdownReceive, ShutdownForce,
         ShutdownDeadline, Query, hostVars, stepVars, clones
<1>5. UNCHANGED job \/ Phase("shutdown") \/ Phase("awaiting_shutdown")
  BY DEF Shutdown, ShutdownBegin, ShutdownRequest, ShutdownPoll, ShutdownReceive, ShutdownForce,
         ShutdownDeadline
<1>6. job'.complete = job.complete /\ (UNCHANGED job \/ job'.phase \in {"shutdown", "awaiting_shutdown"})
  BY <1>2, <1>5 DEF Phases
<1> QED
  BY <1>3, <1>4, <1>6, WorkKeeps DEF Early, Phases

LEMMA CloneKeeps ==
  ASSUME Typing, CloneInv, CloneSteps \/ CloneGivesUp
  PROVE  CloneInv'
<1> USE DEF Goto, Watching, Landings
<1>1. job \in Jobs /\ disk \in Disks /\ worker \in [Disks -> WorkerStates]
  BY DEF Typing, SwitchTypeOK, StepsTypeOK
<1>2. \A p \in Phases : Phase(p) => job'.complete = job.complete /\ job'.phase = p
  BY <1>1 DEF Phase, Jobs
<1>3. pc \in {"clone.start", "clone.poll", "clone.stop"} /\ UNCHANGED <<disk, lock>>
  BY DEF CloneSteps, CloneStart, ClonePoll, CloneStop, CloneGivesUp, Query, hostVars, stepVars
<1>4. ~job.complete /\ job.phase # "unknown" /\ lock # "archived"
  BY <1>3 DEF CloneInv, Closed, RollbackLabels, Early
<1>5. \A d \in Disks : Active(d) => d = disk /\ pc # "clone.start"
  BY <1>3, <1>4 DEF CloneInv
<1>6. CASE CloneStart
  <2>1. \A d \in Disks : d # disk => worker'[d] = worker[d]
    BY <1>1, <1>6 DEF CloneStart, WorkerBecomes
  <2>2. job'.complete = job.complete /\ job'.phase # "unknown"
    BY <1>2, <1>4, <1>6 DEF CloneStart, Phases
  <2> QED
    BY <1>3, <1>4, <1>5, <1>6, <2>1, <2>2 DEF CloneStart, CloneInv, Active
<1>7. CASE ClonePoll
  <2>1. UNCHANGED worker /\ (pc' \in Watching \/ ExitSeen)
    BY <1>7 DEF ClonePoll, CloneRuns, Watch, clones
  <2>2. job'.complete = job.complete /\ job'.phase # "unknown"
    BY <1>2, <1>7 DEF ClonePoll, CloneRuns, CloneExits, Phases
  <2> QED
    BY <1>3, <1>4, <1>5, <2>1, <2>2 DEF CloneInv, Active, ExitSeen
<1>8. CASE CloneStop
  <2>1. pc' = "clone.poll" /\ UNCHANGED job
    BY <1>8 DEF CloneStop
  <2>2. \A d \in Disks : d # disk => worker'[d] = worker[d]
    BY <1>1, <1>8 DEF CloneStop, WorkerBecomes
  <2> QED
    BY <1>3, <1>4, <1>5, <2>1, <2>2 DEF CloneInv, Active
<1>9. CASE CloneGivesUp
  <2>1. pc' = "failing" /\ UNCHANGED worker
    BY <1>9 DEF CloneGivesUp, stepVars
  <2>2. job'.complete = job.complete /\ job'.phase = "unknown"
    BY <1>2, <1>9 DEF CloneGivesUp, Phases
  <2> QED
    BY <1>3, <1>4, <1>5, <2>1, <2>2 DEF CloneInv, Active
<1> QED
  BY <1>6, <1>7, <1>8, <1>9 DEF CloneSteps

LEMMA StoppedKeeps ==
  ASSUME Typing, CloneInv, Stopped
  PROVE  CloneInv'
<1>1. job'.phase = "stopped" /\ pc = "stopped" /\ pc' = "ended" /\ UNCHANGED worker
  BY DEF Typing, SwitchTypeOK, Jobs, Stopped, Goto, stepVars
<1>2. \A d \in Disks : ~Active(d)
  BY <1>1 DEF CloneInv, Watching, Landings
<1> QED
  BY <1>1, <1>2, LabelsApart DEF CloneInv, Active

(* A worker goes on, ends or dies; none that has ended comes back.         *)
LEMMA WorkerKeeps ==
  ASSUME Typing, CloneInv, Worker
  PROVE  CloneInv'
<1>1. UNCHANGED <<lock, job, pc, disk>>
  BY DEF Worker, hostVars, switchVars, watch
<1>2. \A d \in Disks : Active(d)' => Active(d)
  BY DEF Typing, StepsTypeOK, Worker, WorkerLaunches, WorkerChecksPower, WorkerEnds, WorkerDies,
         WorkerBecomes, Active
<1> QED
  BY <1>1, <1>2 DEF CloneInv

(* Everybody else: nobody but a job archives a lock.                       *)
LEMMA EnvironmentKeeps ==
  ASSUME CloneInv, Environment, UNCHANGED <<switchVars, worker, disk>>
  PROVE  CloneInv'
<1>1. lock' = "archived" => lock = "archived"
  BY DEF Environment, Outside, Land
<1> QED
  BY <1>1 DEF CloneInv, Active, switchVars

(***************************************************************************)
(* The workers of a job are those of DetachedClone, to which a launch that *)
(* ESXi obeys later has not happened yet.                                  *)
(***************************************************************************)
Launched(w) == IF w = "delayed" THEN "none" ELSE w
Shadow == [d \in Disks |-> IF worker[d] = "delayed" THEN "none" ELSE worker[d]]

LEMMA ShadowBecomes ==
  ASSUME worker \in [Disks -> WorkerStates], NEW d \in Disks, NEW w \in WorkerStates,
         WorkerBecomes(d, w)
  PROVE  Shadow' = [Shadow EXCEPT ![d] = Launched(w)] /\ Shadow[d] = Launched(worker[d])
<1>1. \A e \in Disks : worker'[e] = (IF e = d THEN w ELSE worker[e])
  BY DEF WorkerBecomes
<1> QED
  BY <1>1 DEF Shadow, Launched

(* A step of one worker that DetachedClone allows, or does not see.        *)
WorkerStep(from, to) ==
    \/ from = to
    \/ from = "none" /\ to = "launched"
    \/ from = "launched" /\ to \in {"cloning", "failed", "dead"}
    \/ from = "cloning" /\ to \in {"killed", "done", "failed", "dead"}
    \/ from = "killed" /\ to \in {"failed", "dead"}

LEMMA ShadowSteps ==
  ASSUME worker \in [Disks -> WorkerStates], NEW d \in Disks, NEW w \in WorkerStates,
         WorkerBecomes(d, w), WorkerStep(Launched(worker[d]), Launched(w))
  PROVE  [Clones!Next]_Shadow
<1> DEFINE to == Launched(w)
<1>1. Shadow' = [Shadow EXCEPT ![d] = to] /\ WorkerStep(Shadow[d], to)
  BY ShadowBecomes
<1>2. Shadow = [e \in Disks |-> Shadow[e]]
  BY DEF Shadow
<1> HIDE DEF to
<1>3. CASE Shadow[d] = to
  BY <1>1, <1>2, <1>3
<1>4. CASE Shadow[d] # to
  <2>1. \A F, T : Shadow[d] \in F /\ to \in T => Clones!Becomes(d, F, T)
    BY <1>1 DEF Clones!Becomes, Shadow
  <2>2. \/ Clones!Launch(d) \/ Clones!CheckPower(d) \/ Clones!Kill(d) \/ Clones!End(d) \/ Clones!Die(d)
    BY <1>1, <1>4, <2>1 DEF WorkerStep, Clones!Launch, Clones!CheckPower, Clones!Kill, Clones!End, Clones!Die
  <2> QED
    BY <2>2 DEF Clones!Next
<1> QED
  BY <1>3, <1>4

LEMMA ShadowStays == UNCHANGED worker => [Clones!Next]_Shadow
  BY DEF Shadow

LEMMA ShadowInit == StepsInit => Clones!Init
  BY DEF StepsInit, Clones!Init

(* Only these steps launch, signal, or end a worker.                       *)
LEMMA ClonesStep ==
  ASSUME Typing, CloneSteps \/ CloneGivesUp \/ Worker
  PROVE  [Clones!Next]_Shadow
<1> USE DEF Launched, WorkerStep, WorkerStates
<1>1. disk \in Disks /\ worker \in [Disks -> WorkerStates]
  BY DEF Typing, StepsTypeOK
<1>2. CASE CloneStart
  <2>1. worker[disk] = "none" /\ (WorkerBecomes(disk, "launched") \/ WorkerBecomes(disk, "delayed") \/ UNCHANGED worker)
    BY <1>2 DEF CloneStart
  <2> QED
    BY <1>1, <2>1, ShadowSteps, ShadowStays
<1>3. CASE CloneStop
  <2>1. \/ UNCHANGED worker
        \/ worker[disk] \in {"cloning", "killed"} /\ WorkerBecomes(disk, "killed")
    BY <1>3 DEF CloneStop
  <2> QED
    BY <1>1, <2>1, ShadowSteps, ShadowStays
<1>4. CASE ClonePoll \/ CloneGivesUp
  BY <1>4, ShadowStays DEF ClonePoll, CloneGivesUp, clones, stepVars
<1>5. CASE Worker
  <2>1. PICK d \in Disks : WorkerLaunches(d) \/ WorkerChecksPower(d) \/ WorkerEnds(d) \/ WorkerDies(d)
    BY <1>5 DEF Worker
  <2>2. CASE WorkerLaunches(d)
    BY <1>1, <2>2, ShadowSteps DEF WorkerLaunches
  <2>3. CASE WorkerChecksPower(d)
    <3>1. worker[d] = "launched" /\ \E w \in {"cloning", "failed"} : WorkerBecomes(d, w)
      BY <2>3 DEF WorkerChecksPower
    <3> QED
      BY <1>1, <3>1, ShadowSteps
  <2>4. CASE WorkerEnds(d)
    <3>1. \/ worker[d] = "cloning" /\ WorkerBecomes(d, "done")
          \/ worker[d] \in {"cloning", "killed"} /\ WorkerBecomes(d, "failed")
      BY <2>4 DEF WorkerEnds
    <3> QED
      BY <1>1, <3>1, ShadowSteps
  <2>5. CASE WorkerDies(d)
    <3>1. worker[d] \in {"launched", "cloning", "killed"} /\ WorkerBecomes(d, "dead")
      BY <2>5 DEF WorkerDies
    <3> QED
      BY <1>1, <3>1, ShadowSteps
  <2> QED
    BY <2>1, <2>2, <2>3, <2>4, <2>5
<1> QED
  BY <1>2, <1>3, <1>4, <1>5 DEF CloneSteps

(* The others leave every worker alone.                                    *)
LEMMA SharedClones ==
  ASSUME SharedSteps \/ Shutdown \/ ShutdownDeadline \/ Stopped
  PROVE  UNCHANGED worker
  BY DEF SharedSteps, Run, Acquire, CreateTarget, CopyConfig, DiskVerify, Shutdown, ShutdownBegin,
         ShutdownRequest, ShutdownPoll, ShutdownReceive, ShutdownForce, ShutdownDeadline, Stopped,
         stepVars, clones
=============================================================================

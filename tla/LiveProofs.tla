------------------------------ MODULE LiveProofs ------------------------------
(***************************************************************************)
(* Proofs about LiveMigration, for any number of disks, every set of       *)
(* faults and every number of outside changes.                             *)
(***************************************************************************)
EXTENDS LiveMigration, StepsProofs

USE DEF VMs, SourceId

(***************************************************************************)
(* Type correctness.                                                       *)
(***************************************************************************)
LivePcs == SwitchLabels \cup StepLabels \cup LiveLabels

OwnTyping ==
    /\ tree \in [VMs -> Trees] /\ pending \subseteq SnapshotCommands /\ session \in Nat
    /\ header \in [Disks -> 0..session] /\ extent \in [Disks -> 0..session]
    /\ undo \in {"none", "due", "begun", "done"} /\ unproven \in BOOLEAN /\ warned \in BOOLEAN
    /\ merge \in [for : Purposes, vm : VMs, id : Nat]

LEMMA LiveTypes == LiveTypeOK <=> Typing /\ pc \in LivePcs /\ OwnTyping
  BY DEF LiveTypeOK, Typing, LivePcs, OwnTyping

LEMMA LiveInitTyped == LiveInit => LiveTypeOK
<1> SUFFICES ASSUME LiveInit
             PROVE  LiveTypeOK
  OBVIOUS
<1>1. HostTypeOK
  BY DEF LiveInit, HostInit, HostTypeOK, OnlySource, PowerStates, Questions, LockStates
<1>2. job \in Jobs
  BY DEF LiveInit, NewJob, Jobs, Phases, Views
<1>3. 1 \in Disks
  BY StepsAssumption DEF Disks
<1>4. StepsTypeOK
  BY <1>3 DEF LiveInit, StepsInit, StepsTypeOK, WorkerStates
<1>5. OwnTyping
  <2>1. /\ tree \in [VMs -> Trees] /\ pending \subseteq SnapshotCommands /\ session = 1
        /\ merge \in [for : Purposes, vm : VMs, id : Nat]
    BY DEF LiveInit, Trees, Purposes
  <2>2. header \in [Disks -> 0..session] /\ extent \in [Disks -> 0..session]
    BY <2>1 DEF LiveInit
  <2>3. undo \in {"none", "due", "begun", "done"} /\ unproven \in BOOLEAN /\ warned \in BOOLEAN
    BY DEF LiveInit
  <2>4. session \in Nat
    BY <2>1
  <2> QED
    BY <2>1, <2>2, <2>3, <2>4 DEF OwnTyping
<1> QED
  BY <1>1, <1>2, <1>4, <1>5, LiveTypes
  DEF LiveInit, Typing, SwitchTypeOK, PowerStates, LivePcs, StepLabels

(* What a new phase leaves of the job.                                     *)
JobKept ==
    /\ job' \in Jobs /\ job'.complete = job.complete /\ job'.canRollback = job.canRollback
    /\ job'.verified = job.verified

LEMMA PhaseFrame ==
  ASSUME job \in Jobs, NEW p \in Phases, job' = [job EXCEPT !.phase = p]
  PROVE  JobKept /\ job'.phase = p
  BY DEF Jobs, JobKept

LEMMA JobStays ==
  ASSUME job \in Jobs, UNCHANGED job
  PROVE  JobKept
  BY DEF JobKept

(* The checks between the shared steps: where they lead, and what they     *)
(* leave alone.                                                            *)
Checks ==
    \/ LivePreflight \/ LivePreflightOwn \/ LiveDeltas \/ LiveDiskGuard \/ LiveDiskCloned
    \/ AfterClones \/ LiveRevalidate \/ CutoverGuard \/ Metadata

Goes(from, to) == pc = from /\ pc' \in to

ChecksGo ==
    \/ Goes("preflight", {"failing", "acquire"}) \/ Goes("preflight.own", {"failing", "snapshot"})
    \/ Goes("deltas", {"failing", "folder"})
    \/ Goes("disk.guard", {"stopped", "failing", "clone.start"})
    \/ Goes("clone.done", {"disk.verify"})
    \/ Goes("all.guard", {"failing", "stopped", "shutdown.begin"})
    \/ Goes("shutdown.revalidate", {"failing", "shutdown.force"})
    \/ Goes("shutdown.done", {"failing", "metadata"})
    \/ Goes("metadata", {"failing", "delta.descriptor"})

LEMMA ChecksFrame ==
  ASSUME Typing, Checks
  PROVE  /\ Query /\ UNCHANGED <<plan, answered, online, stop, channel, inbox, folder, stopping, cause,
                                 worker, copied, changed, liveOwn>>
         /\ polled' \in PowerStates /\ disk' \in Disks /\ (pc # "all.guard" => UNCHANGED <<disk, final>>)
         /\ pc = "all.guard" /\ pc' # "shutdown.begin" => UNCHANGED <<disk, final>>
         /\ JobKept /\ job'.phase \in {job.phase, "snapshot", "cloning", "verifying_disk", "cutover"}
         /\ ChecksGo
<1> USE DEF Advance, Goto, Local, Quiet, Still, stepVars, clones, watch, control, ChecksGo, Goes
<1>1. job \in Jobs /\ polled \in PowerStates /\ power["source"] \in PowerStates /\ disk \in Disks
  BY DEF Typing, SwitchTypeOK, HostTypeOK, StepsTypeOK
<1>2. ASSUME NEW p \in {"snapshot", "cloning", "verifying_disk", "cutover"},
             UNCHANGED job \/ job' = [job EXCEPT !.phase = p]
      PROVE  JobKept /\ job'.phase \in {job.phase, p}
  BY <1>1, <1>2, PhaseFrame, JobStays DEF Phases
<1>3. CASE LivePreflight \/ LiveDeltas \/ LiveRevalidate \/ CutoverGuard
  BY <1>1, <1>3, JobStays DEF LivePreflight, LiveDeltas, LiveRevalidate, CutoverGuard
<1>4. CASE LivePreflightOwn
  BY <1>1, <1>2, <1>4 DEF LivePreflightOwn
<1>5. CASE Metadata
  BY <1>1, <1>2, <1>5 DEF Metadata
<1>6. CASE LiveDiskGuard
  BY <1>1, <1>2, <1>6 DEF LiveDiskGuard, Phase
<1>7. CASE LiveDiskCloned
  BY <1>1, <1>2, <1>7 DEF LiveDiskCloned, Phase
<1>8. CASE AfterClones
  <2>1. 1 \in Disks
    BY StepsAssumption DEF Disks
  <2>2. UNCHANGED job \/ job' = [job EXCEPT !.phase = "cutover"]
    BY <1>8 DEF AfterClones, Proceed, Phase
  <2>3. pc' # "shutdown.begin" => UNCHANGED final
    BY <1>8 DEF AfterClones, Proceed
  <2> QED
    BY <1>1, <1>2, <1>8, <2>1, <2>2, <2>3 DEF AfterClones, Proceed
<1> QED
  BY <1>3, <1>4, <1>5, <1>6, <1>7, <1>8 DEF Checks

LEMMA PublishedKept ==
  ASSUME HostTypeOK, job \in Jobs, job' = Published(job)
  PROVE  JobKept /\ job'.phase = job.phase
<1>1. Published(job) \in Jobs
  BY PublishedTyped
<1> QED
  BY <1>1 DEF JobKept, Published, Jobs

(* The snapshot commands.                                                  *)
LEMMA SnapshotTyped ==
  ASSUME tree \in [VMs -> Trees], changed \in BOOLEAN, NEW c \in SnapshotCommands, SnapshotTakes(c)
  PROVE  tree' \in [VMs -> Trees] /\ changed' \in BOOLEAN /\ (changed => changed')
<1>1. CASE c.op = "create"
  BY <1>1 DEF SnapshotTakes, SnapshotCommands, Trees
<1>2. CASE c.op = "merge"
  <2>1. tree' \in [VMs -> Trees]
    BY <1>2 DEF SnapshotTakes, SnapshotCommands, Trees
  <2>2. changed' = (changed \/ tree'["source"] # tree["source"])
    BY <1>2 DEF SnapshotTakes
  <2> QED
    BY <2>1, <2>2
<1> QED
  BY <1>1, <1>2 DEF SnapshotCommands

LEMMA IssueTyped ==
  ASSUME tree \in [VMs -> Trees], pending \subseteq SnapshotCommands, changed \in BOOLEAN,
         NEW c \in SnapshotCommands, NEW done \in BOOLEAN, IssueSnapshot(c, done)
  PROVE  /\ tree' \in [VMs -> Trees] /\ pending' \subseteq SnapshotCommands
         /\ changed' \in BOOLEAN /\ (changed => changed')
<1>1. CASE SnapshotTakes(c) /\ UNCHANGED pending
  BY <1>1, SnapshotTyped
<1>2. CASE UNCHANGED <<tree, changed>> /\ (UNCHANGED pending \/ pending' = pending \cup {c})
  BY <1>2
<1> QED
  BY <1>1, <1>2 DEF IssueSnapshot

(***************************************************************************)
(* The other steps of the engine between its clones and its end: none of   *)
(* them touches a worker or the lock, or disturbs the host.                *)
(***************************************************************************)
Deltas == CopyDescriptor \/ CopyExtent \/ CopyMetadata

RestoreWork ==
    \/ RestoreCheck \/ RestoreOff \/ RestoreUnregister \/ RestoreUnregistered
    \/ RestoreRegister \/ RestoreRegistered \/ RestoreTree

DeltasGo ==
    \/ Goes("delta.descriptor", {"failing", "delta.extent"})
    \/ Goes("delta.extent", {"failing", "delta.descriptor", "metadata.copy"})
    \/ Goes("metadata.copy", {"failing", "config"})

MergeGo ==
    \/ Goes("merge.list", {"finish", "failing", "merge.remove"})
    \/ Goes("merge.remove", {"finish", "failing", "merge.check"})
    \/ Goes("merge.check", {"finish", "failing", "copy.unregister", "restore.finish"})

MergeCopyGo ==
    \/ Goes("copy.register", {"copy.registered"}) \/ Goes("copy.registered", {"failing", "copy.off"})
    \/ Goes("copy.off", {"failing", "merge.list"}) \/ Goes("copy.unregister", {"copy.unregistered"})
    \/ Goes("copy.unregistered", {"failing", "merge.list"})

RestoreGo ==
    \/ Goes("restore.check", {"failing", "restore.off", "restore.register", "restore.tree"})
    \/ Goes("restore.off", {"failing", "restore.unregister"})
    \/ Goes("restore.unregister", {"restore.unregistered"})
    \/ Goes("restore.unregistered", {"failing", "restore.tree", "restore.register"})
    \/ Goes("restore.register", {"restore.registered"})
    \/ Goes("restore.registered", {"failing", "restore.tree"})
    \/ Goes("restore.tree", {"failing", "merge.check", "merge.list"})

WorkFrame ==
    /\ UNCHANGED <<plan, answered, online, stop, channel, inbox, folder, stopping, cause, worker,
                   copied, lock, landed, outside, session, unproven>>
    /\ HostTypeOK' /\ polled' \in PowerStates /\ disk' \in Disks /\ final' \in BOOLEAN /\ JobKept

LEMMA ChecksWork ==
  ASSUME Typing, OwnTyping, Checks
  PROVE  WorkFrame /\ OwnTyping'
<1>1. UNCHANGED liveOwn /\ HostTypeOK'
  BY ChecksFrame, QueryTyped DEF Typing
<1>2. final' \in BOOLEAN
  BY DEF Typing, StepsTypeOK, Checks, LivePreflight, LivePreflightOwn, LiveDeltas, LiveDiskGuard,
         LiveDiskCloned, AfterClones, LiveRevalidate, CutoverGuard, Metadata, Proceed, Still, stepVars, control
<1> QED
  BY <1>1, <1>2, ChecksFrame DEF WorkFrame, OwnTyping, liveOwn, Query, hostVars

LEMMA CreateFrame ==
  ASSUME Typing, OwnTyping, CreateSnapshot
  PROVE  /\ WorkFrame /\ OwnTyping' /\ Goes("snapshot", {"deltas", "failing"})
         /\ UNCHANGED <<reg, power, disk, final, polled, job, deltas, merge>> /\ (changed => changed')
         /\ changed' \in BOOLEAN
<1> USE DEF Quiet, Local, control, watch, clones
<1>1. /\ UNCHANGED <<plan, polled, answered, online, job, control, watch, clones, session, deltas, unproven,
                     merge, warned>> /\ Query /\ undo' = "due"
  BY DEF CreateSnapshot
<1>2. UNCHANGED <<reg, power, lock, landed, outside>> /\ HostTypeOK'
  BY <1>1, QueryTyped DEF Query, hostVars, inventory, Typing
<1>3. /\ tree' \in [VMs -> Trees] /\ pending' \subseteq SnapshotCommands
      /\ changed' \in BOOLEAN /\ (changed => changed')
  <2> DEFINE c == [op |-> "create", vm |-> "source", id |-> SourceId]
  <2>1. c \in SnapshotCommands
    BY DEF SnapshotCommands
  <2>2. PICK done \in BOOLEAN : IssueSnapshot(c, done)
    BY DEF CreateSnapshot
  <2>3. tree \in [VMs -> Trees] /\ pending \subseteq SnapshotCommands /\ changed \in BOOLEAN
    BY DEF OwnTyping, Typing, StepsTypeOK
  <2> HIDE DEF c
  <2> QED
    BY <2>1, <2>2, <2>3, IssueTyped
<1>4. Goes("snapshot", {"deltas", "failing"})
  BY DEF CreateSnapshot, Goto, Goes
<1>5. JobKept
  BY <1>1, JobStays DEF Typing, SwitchTypeOK
<1> QED
  BY <1>1, <1>2, <1>3, <1>4, <1>5 DEF WorkFrame, OwnTyping, Typing, SwitchTypeOK, StepsTypeOK, deltas

LEMMA DeltasFrame ==
  ASSUME Typing, OwnTyping, Deltas
  PROVE  /\ WorkFrame /\ OwnTyping' /\ DeltasGo
         /\ UNCHANGED <<reg, power, final, polled, changed, pending, undo, merge>>
         /\ job'.phase \in {job.phase, "verifying_config"} /\ tree'["source"] = tree["source"]
<1> USE DEF Quiet, Local, Goto, Goes, DeltasGo, CopyFails, control, watch, clones, stepVars, snapshots
<1>1. /\ disk \in Disks /\ job \in Jobs /\ 1 \in Disks
      /\ disk < NDisks => disk + 1 \in Disks
  <2>1. disk \in Disks /\ job \in Jobs
    BY DEF Typing, StepsTypeOK, SwitchTypeOK
  <2> QED
    BY <2>1, StepsAssumption DEF Disks
<1>2. /\ UNCHANGED <<plan, polled, answered, online, stop, final, channel, inbox, folder, stopping, cause,
                     worker, copied, session, changed, pending, undo, merge, unproven, warned>> /\ Query
  <2>1. CASE CopyDescriptor
    BY <2>1 DEF CopyDescriptor
  <2>2. CASE CopyExtent
    BY <2>2 DEF CopyExtent
  <2>3. CASE CopyMetadata
    BY <2>3 DEF CopyMetadata
  <2> QED
    BY <2>1, <2>2, <2>3 DEF Deltas
<1>3. UNCHANGED <<reg, power, lock, landed, outside>> /\ HostTypeOK'
  BY <1>2, QueryTyped DEF Query, hostVars, inventory, Typing
<1>4. CASE CopyDescriptor
  <2>1. header' \in [Disks -> 0..session] /\ UNCHANGED <<extent, tree>>
    BY <1>4 DEF CopyDescriptor, OwnTyping
  <2>2. JobKept /\ UNCHANGED <<job, disk>>
    BY <1>1, <1>4, JobStays DEF CopyDescriptor
  <2>3. DeltasGo
    BY <1>4 DEF CopyDescriptor
  <2> QED
    BY <1>1, <1>2, <1>3, <2>1, <2>2, <2>3 DEF WorkFrame, OwnTyping, Typing, SwitchTypeOK, StepsTypeOK
<1>5. CASE CopyExtent
  <2>1. extent' \in [Disks -> 0..session] /\ UNCHANGED <<header, tree>>
    BY <1>5 DEF CopyExtent, OwnTyping
  <2>2. JobKept /\ UNCHANGED job
    BY <1>1, <1>5, JobStays DEF CopyExtent
  <2>3. disk' \in Disks
    BY <1>1, <1>5 DEF CopyExtent
  <2>4. DeltasGo
    BY <1>5 DEF CopyExtent, NextDelta
  <2> QED
    BY <1>2, <1>3, <2>1, <2>2, <2>3, <2>4 DEF WorkFrame, OwnTyping, Typing, SwitchTypeOK, StepsTypeOK
<1>6. CASE CopyMetadata
  <2>1. tree' \in [VMs -> Trees] /\ tree'["source"] = tree["source"] /\ UNCHANGED deltas
    BY <1>6 DEF CopyMetadata, OwnTyping, Trees
  <2>2. UNCHANGED job \/ job' = [job EXCEPT !.phase = "verifying_config"]
    BY <1>6 DEF CopyMetadata, Phase
  <2>3. JobKept /\ job'.phase \in {job.phase, "verifying_config"}
    BY <1>1, <2>2, JobStays, PhaseFrame DEF Phases
  <2>4. DeltasGo /\ UNCHANGED disk
    BY <1>6 DEF CopyMetadata
  <2> QED
    BY <1>1, <1>2, <1>3, <2>1, <2>3, <2>4 DEF WorkFrame, OwnTyping, Typing, SwitchTypeOK, StepsTypeOK, deltas
<1> QED
  BY <1>4, <1>5, <1>6 DEF Deltas

LEMMA MergeFrame ==
  ASSUME Typing, OwnTyping, Merge
  PROVE  /\ WorkFrame /\ OwnTyping' /\ MergeGo
         /\ UNCHANGED <<reg, power, final, polled, disk, job, session, deltas, undo, merge>>
         /\ changed' \in BOOLEAN /\ (changed => changed')
         /\ pc # "merge.remove" => UNCHANGED <<tree, pending, changed>>
<1> USE DEF Quiet, Local, control, watch, clones, snapshots, stepVars
<1>1. /\ UNCHANGED <<plan, polled, answered, online, job, control, watch, clones, session, deltas, undo,
                     unproven, merge>> /\ Query /\ warned' \in BOOLEAN
  BY DEF Merge, MergeList, MergeRemove, MergeCheck, MergeFails, Goto, OwnTyping
<1>2. UNCHANGED <<reg, power, lock, landed, outside>> /\ HostTypeOK'
  BY <1>1, QueryTyped DEF Query, hostVars, inventory, Typing
<1>3. /\ tree' \in [VMs -> Trees] /\ pending' \subseteq SnapshotCommands
      /\ changed' \in BOOLEAN /\ (changed => changed')
  <2> DEFINE c == [op |-> "merge", vm |-> merge.vm, id |-> merge.id]
  <2>1. c \in SnapshotCommands
    BY DEF SnapshotCommands, OwnTyping
  <2>2. tree \in [VMs -> Trees] /\ pending \subseteq SnapshotCommands /\ changed \in BOOLEAN
    BY DEF OwnTyping, Typing, StepsTypeOK
  <2>3. CASE MergeRemove
    <3>1. PICK done \in BOOLEAN : IssueSnapshot(c, done)
      BY <2>3 DEF MergeRemove
    <3> HIDE DEF c
    <3> QED
      BY <2>1, <2>2, <3>1, IssueTyped
  <2>4. CASE MergeList \/ MergeCheck
    BY <2>2, <2>4 DEF MergeList, MergeCheck
  <2> QED
    BY <2>3, <2>4 DEF Merge
<1>4. MergeGo
  BY DEF Merge, MergeList, MergeRemove, MergeCheck, MergeFails, AfterMerge, Goto, MergeGo, Goes
<1>5. JobKept
  BY <1>1, JobStays DEF Typing, SwitchTypeOK
<1>6. pc # "merge.remove" => UNCHANGED <<tree, pending, changed>>
  BY DEF Merge, MergeList, MergeRemove, MergeCheck
<1>7. OwnTyping'
  BY <1>1, <1>3 DEF OwnTyping, deltas
<1>8. WorkFrame
  BY <1>1, <1>2, <1>5 DEF WorkFrame, Typing, SwitchTypeOK, StepsTypeOK
<1> QED
  BY <1>1, <1>2, <1>3, <1>4, <1>6, <1>7, <1>8

(* Registering and unregistering touches no VM's power.                    *)
LEMMA RegistrationCall ==
  ASSUME HostTypeOK, NEW op \in {"register", "unregister"}, NEW vm \in VMs, NEW id \in Nat,
         Call(op, vm, id)
  PROVE  HostTypeOK' /\ UNCHANGED <<power, lock, landed, outside>>
<1>1. HostTypeOK'
  BY CallTyped
<1>2. UNCHANGED <<power, lock, landed, outside>>
  BY DEF Call, Issue, Obey, Ignore, Delay, TakeEffect, Register, Unregister, inventory
<1> QED
  BY <1>1, <1>2

LEMMA MergeCopyFrame ==
  ASSUME Typing, OwnTyping, MergeCopy
  PROVE  /\ WorkFrame /\ OwnTyping' /\ MergeCopyGo
         /\ UNCHANGED <<power, final, polled, disk, changed, tree, pending, session, deltas, undo>>
         /\ job'.phase \in {job.phase, "consolidating"}
         /\ UNCHANGED reg \/ pc \in {"copy.register", "copy.unregister"}
         /\ UNCHANGED merge \/ merge'.for = "copy" \/ merge' = [merge EXCEPT !.id = reg["target"]]
              \/ merge' = [for |-> "source", vm |-> "source", id |-> SourceId]
<1> USE DEF Quiet, Local, Still, KeepSnapshots, control, watch, clones, snapshots, deltas, stepVars, liveOwn,
            Goto, Advance, Begin
<1>1. /\ job \in Jobs /\ merge \in [for : Purposes, vm : VMs, id : Nat] /\ reg \in [VMs -> Nat]
      /\ merge.id \in Nat /\ reg["target"] \in Nat
  BY DEF Typing, SwitchTypeOK, HostTypeOK, OwnTyping
<1>2. /\ UNCHANGED <<plan, polled, answered, online, control, watch, clones, changed, tree, pending, session,
                     deltas, undo, unproven, warned>>
      /\ MergeCopyGo
  BY DEF MergeCopy, CopyRegister, CopyRegistered, CopyOff, CopyUnregister, CopyUnregistered, MergeCopyGo, Goes
<1>3. /\ HostTypeOK' /\ UNCHANGED <<power, lock, landed, outside>>
      /\ UNCHANGED reg \/ pc \in {"copy.register", "copy.unregister"}
  <2>1. CASE CopyRegister
    BY <2>1, RegistrationCall DEF CopyRegister, Typing
  <2>2. CASE CopyUnregister
    BY <1>1, <2>2, RegistrationCall DEF CopyUnregister, Typing
  <2>3. CASE CopyRegistered \/ CopyOff \/ CopyUnregistered
    BY <2>3, QueryTyped DEF CopyRegistered, CopyOff, CopyUnregistered, Query, hostVars, inventory, Typing
  <2> QED
    BY <2>1, <2>2, <2>3 DEF MergeCopy
<1>4. JobKept /\ job'.phase \in {job.phase, "consolidating"}
  <2>1. UNCHANGED job \/ job' = [job EXCEPT !.phase = "consolidating"]
    BY DEF MergeCopy, CopyRegister, CopyRegistered, CopyOff, CopyUnregister, CopyUnregistered, Phase
  <2> QED
    BY <1>1, <2>1, JobStays, PhaseFrame DEF Phases
<1>5. \/ UNCHANGED merge
      \/ merge'.for = "copy" /\ merge' \in [for : Purposes, vm : VMs, id : Nat]
      \/ merge' = [merge EXCEPT !.id = reg["target"]]
      \/ merge' = [for |-> "source", vm |-> "source", id |-> SourceId]
  <2>1. CASE CopyRegister
    <3>1. reg'["target"] \in Nat
      BY <1>3 DEF HostTypeOK
    <3> QED
      BY <2>1, <3>1 DEF CopyRegister, Purposes
  <2>2. CASE CopyRegistered \/ CopyOff \/ CopyUnregister \/ CopyUnregistered
    BY <2>2 DEF CopyRegistered, CopyOff, CopyUnregister, CopyUnregistered
  <2> QED
    BY <2>1, <2>2 DEF MergeCopy
<1>6. merge' \in [for : Purposes, vm : VMs, id : Nat]
  BY <1>1, <1>5 DEF Purposes
<1>7. OwnTyping'
  BY <1>2, <1>6 DEF OwnTyping, deltas
<1>8. WorkFrame
  BY <1>2, <1>3, <1>4 DEF WorkFrame, Typing, SwitchTypeOK, StepsTypeOK
<1> QED
  BY <1>2, <1>3, <1>4, <1>5, <1>7, <1>8

LEMMA FoundFrame ==
  ASSUME HostTypeOK, job \in Jobs, Found
  PROVE  /\ JobKept /\ job'.phase = job.phase /\ merge'.for = "restore" /\ merge'.vm = "source"
         /\ merge' \in [for : Purposes, vm : VMs, id : Nat]
<1>1. reg["source"] \in Nat
  BY DEF HostTypeOK
<1> QED
  BY <1>1, PublishedKept DEF Found, Purposes

LEMMA RestoreFrame ==
  ASSUME Typing, OwnTyping, RestoreWork
  PROVE  /\ WorkFrame /\ OwnTyping' /\ RestoreGo
         /\ UNCHANGED <<power, final, polled, disk, changed, tree, pending, session, deltas, undo>>
         /\ job'.phase = job.phase
         /\ UNCHANGED reg \/ pc \in {"restore.unregister", "restore.register"}
         /\ UNCHANGED merge \/ (merge'.for = "restore" /\ merge'.vm = "source")
<1> USE DEF Quiet, Local, Still, KeepSnapshots, control, watch, clones, snapshots, deltas, stepVars, liveOwn,
            Goto, Advance
<1>1. job \in Jobs /\ job.targetId \in Nat /\ merge \in [for : Purposes, vm : VMs, id : Nat]
  BY DEF Typing, SwitchTypeOK, Jobs, OwnTyping
<1>2. /\ UNCHANGED <<plan, polled, answered, online, control, watch, clones, changed, tree, pending, session,
                     deltas, undo, unproven, warned>>
      /\ RestoreGo
  BY DEF RestoreWork, RestoreCheck, RestoreOff, RestoreUnregister, RestoreUnregistered, RestoreRegister,
         RestoreRegistered, RestoreTree, RestoreGo, Goes
<1>3. /\ HostTypeOK' /\ UNCHANGED <<power, lock, landed, outside>>
      /\ UNCHANGED reg \/ pc \in {"restore.unregister", "restore.register"}
  <2>1. CASE RestoreUnregister
    BY <1>1, <2>1, RegistrationCall DEF RestoreUnregister, Typing
  <2>2. CASE RestoreRegister
    BY <2>2, RegistrationCall DEF RestoreRegister, Typing
  <2>3. CASE RestoreCheck \/ RestoreOff \/ RestoreUnregistered \/ RestoreRegistered \/ RestoreTree
    BY <2>3, QueryTyped
    DEF RestoreCheck, RestoreOff, RestoreUnregistered, RestoreRegistered, RestoreTree, Query, hostVars,
        inventory, Typing
  <2> QED
    BY <2>1, <2>2, <2>3 DEF RestoreWork
<1>4. Found \/ UNCHANGED <<job, merge>>
  BY DEF RestoreWork, RestoreCheck, RestoreOff, RestoreUnregister, RestoreUnregistered, RestoreRegister,
         RestoreRegistered, RestoreTree
<1>5. /\ JobKept /\ job'.phase = job.phase /\ merge' \in [for : Purposes, vm : VMs, id : Nat]
      /\ UNCHANGED merge \/ (merge'.for = "restore" /\ merge'.vm = "source")
  BY <1>1, <1>4, FoundFrame, JobStays DEF Typing
<1>6. OwnTyping'
  BY <1>2, <1>5 DEF OwnTyping, deltas
<1>7. WorkFrame
  BY <1>2, <1>3, <1>5 DEF WorkFrame, Typing, SwitchTypeOK, StepsTypeOK
<1> QED
  BY <1>2, <1>3, <1>5, <1>6, <1>7

LEMMA BeginFrame ==
  ASSUME Typing, OwnTyping, MergeTarget \/ Undo
  PROVE  /\ WorkFrame /\ OwnTyping'
         /\ UNCHANGED <<reg, power, final, polled, disk, changed, tree, pending, session, deltas>>
         /\ \/ /\ Goes("finish", {"merge.list"}) /\ job'.phase = "consolidating"
               /\ merge'.for = "move" /\ UNCHANGED undo
            \/ /\ pc \in Unfinished /\ undo = "due" /\ undo' = "begun" /\ UNCHANGED merge
               /\ \/ unproven /\ pc' = "failing" /\ UNCHANGED job
                  \/ ~unproven /\ pc' = "restore.check" /\ job'.phase = "restoring"
<1> USE DEF Quiet, Local, KeepSnapshots, control, watch, clones, snapshots, deltas, stepVars,
            Goto, Begin, Goes
<1>1. job \in Jobs /\ job.targetId \in Nat /\ merge \in [for : Purposes, vm : VMs, id : Nat]
  BY DEF Typing, SwitchTypeOK, Jobs, OwnTyping
<1>2. /\ UNCHANGED <<plan, polled, answered, online, control, watch, clones, changed, tree, pending, session,
                     deltas, unproven, warned>> /\ Query
  BY DEF MergeTarget, Undo
<1>3. HostTypeOK' /\ UNCHANGED <<reg, power, lock, landed, outside>>
  BY <1>2, QueryTyped DEF Query, hostVars, inventory, Typing
<1>4. CASE MergeTarget
  <2>1. /\ merge' = [for |-> "move", vm |-> "target", id |-> job.targetId] /\ UNCHANGED undo
        /\ job' = [job EXCEPT !.phase = "consolidating"] /\ Goes("finish", {"merge.list"})
    BY <1>4 DEF MergeTarget, Phase
  <2>2. JobKept /\ job'.phase = "consolidating"
    BY <1>1, <2>1, PhaseFrame DEF Phases
  <2>3. merge' \in [for : Purposes, vm : VMs, id : Nat] /\ merge'.for = "move"
    BY <1>1, <2>1 DEF Purposes
  <2>4. OwnTyping'
    BY <1>2, <2>1, <2>3 DEF OwnTyping
  <2>5. WorkFrame
    BY <1>2, <1>3, <2>2 DEF WorkFrame, Typing, SwitchTypeOK, StepsTypeOK
  <2> QED
    BY <1>2, <1>3, <2>1, <2>2, <2>3, <2>4, <2>5
<1>5. CASE Undo
  <2>1. /\ pc \in Unfinished /\ undo = "due" /\ undo' = "begun" /\ UNCHANGED merge
        /\ \/ unproven /\ pc' = "failing" /\ UNCHANGED job
           \/ ~unproven /\ pc' = "restore.check" /\ job' = [job EXCEPT !.phase = "restoring"]
    BY <1>5 DEF Undo, UndoOrKeep, Phase
  <2>2. JobKept /\ (job' = [job EXCEPT !.phase = "restoring"] => job'.phase = "restoring")
    BY <1>1, <2>1, PhaseFrame, JobStays DEF Phases
  <2>4. OwnTyping'
    BY <1>2, <2>1 DEF OwnTyping
  <2>5. WorkFrame
    BY <1>2, <1>3, <2>2 DEF WorkFrame, Typing, SwitchTypeOK, StepsTypeOK
  <2> QED
    BY <1>2, <1>3, <2>1, <2>2, <2>4, <2>5
<1> QED
  BY <1>4, <1>5

WorkSteps == Checks \/ CreateSnapshot \/ Deltas \/ Merge \/ MergeCopy \/ RestoreWork \/ MergeTarget \/ Undo

LEMMA WorkTyped ==
  ASSUME Typing, OwnTyping, WorkSteps
  PROVE  WorkFrame /\ Typing' /\ OwnTyping' /\ pc' \in LivePcs
<1>1. WorkFrame /\ OwnTyping' /\ changed' \in BOOLEAN /\ pc' \in LivePcs
  <2> USE DEF Goes, LivePcs, SwitchLabels, StepLabels, LiveLabels
  <2>0. changed \in BOOLEAN
    BY DEF Typing, StepsTypeOK
  <2>1. CASE Checks
    BY <2>0, <2>1, ChecksFrame, ChecksWork DEF ChecksGo
  <2>2. CASE CreateSnapshot
    BY <2>2, CreateFrame
  <2>3. CASE Deltas
    BY <2>0, <2>3, DeltasFrame DEF DeltasGo
  <2>4. CASE Merge
    BY <2>4, MergeFrame DEF MergeGo
  <2>5. CASE MergeCopy
    BY <2>0, <2>5, MergeCopyFrame DEF MergeCopyGo
  <2>6. CASE RestoreWork
    BY <2>0, <2>6, RestoreFrame DEF RestoreGo
  <2>7. CASE MergeTarget \/ Undo
    BY <2>0, <2>7, BeginFrame
  <2> QED
    BY <2>1, <2>2, <2>3, <2>4, <2>5, <2>6, <2>7 DEF WorkSteps
<1>2. HostTypeOK'
  BY <1>1 DEF WorkFrame
<1>3. SwitchTypeOK'
  BY <1>1 DEF WorkFrame, JobKept, Typing, SwitchTypeOK
<1>4. StepsTypeOK'
  BY <1>1 DEF WorkFrame, Typing, StepsTypeOK
<1> QED
  BY <1>1, <1>2, <1>3, <1>4 DEF Typing

(* The verdict on the target, and the end of a restore.                    *)
LEMMA VerifyFrame ==
  ASSUME Typing, OwnTyping, VerifyDelta
  PROVE  /\ Typing' /\ OwnTyping' /\ Query
         /\ UNCHANGED <<plan, polled, answered, online, stop, final, channel, inbox, folder, stopping,
                        cause, clones, changed, liveOwn>>
         /\ Goes("verify.all", {"failing", "verify.all", "commit.check", "copy.register"})
         /\ pc' # "failing" => worker[disk] = "done" /\ DeltaIntact(disk)
         /\ pc' = "verify.all" => disk' = disk + 1 /\ disk < NDisks
         /\ pc' \in {"commit.check", "copy.register"} => disk >= NDisks
         /\ job'.complete = job.complete /\ job'.canRollback = job.canRollback
         /\ job'.phase \in {job.phase, "consolidating"}
         /\ job'.verified => job.verified \/ pc' \in {"commit.check", "copy.register"}
<1> USE DEF Quiet, Local, control, Goto, Advance, Goes
<1>1. job \in Jobs /\ disk \in Disks
  BY DEF Typing, SwitchTypeOK, StepsTypeOK
<1>2. /\ Query /\ UNCHANGED <<plan, polled, answered, online, stop, final, channel, inbox, folder, stopping,
                              cause, clones, changed, liveOwn>>
      /\ pc = "verify.all"
      /\ \/ pc' = "failing" \/ (pc' = NextVerify /\ worker[disk] = "done" /\ DeltaIntact(disk))
      /\ disk' = IF pc' = "verify.all" THEN disk + 1 ELSE disk
  BY DEF VerifyDelta
<1>3. NextVerify \in {"verify.all", "commit.check", "copy.register"}
      /\ (NextVerify = "verify.all" <=> disk < NDisks)
  BY DEF NextVerify
<1>4. disk' \in Disks /\ (disk >= NDisks <=> ~(disk < NDisks))
  <2>1. disk < NDisks => disk + 1 \in Disks
    BY <1>1, StepsAssumption DEF Disks
  <2>2. disk >= NDisks <=> ~(disk < NDisks)
    BY <1>1, StepsAssumption DEF Disks
  <2> QED
    BY <1>1, <1>2, <1>3, <2>1, <2>2
<1>5. \/ job' = [job EXCEPT !.verified = TRUE] /\ pc' = "commit.check"
      \/ job' = [job EXCEPT !.verified = TRUE, !.phase = "consolidating"] /\ pc' = "copy.register"
      \/ UNCHANGED job
  BY <1>2, <1>3 DEF VerifyDelta
<1>6. /\ job' \in Jobs /\ job'.complete = job.complete /\ job'.canRollback = job.canRollback
      /\ job'.phase \in {job.phase, "consolidating"}
      /\ job'.verified => job.verified \/ pc' \in {"commit.check", "copy.register"}
  BY <1>1, <1>5 DEF Jobs, Phases
<1>7. Typing'
  BY <1>2, <1>4, <1>6, QueryTyped DEF Typing, SwitchTypeOK, StepsTypeOK, clones
<1>8. OwnTyping'
  BY <1>2 DEF OwnTyping, liveOwn
<1> QED
  BY <1>2, <1>3, <1>4, <1>6, <1>7, <1>8

LEMMA RestoreFinishFrame ==
  ASSUME Typing, OwnTyping, RestoreFinish
  PROVE  /\ Typing' /\ OwnTyping'
         /\ UNCHANGED <<plan, stepVars, reg, power, landed, outside, snapshots, deltas, unproven, merge>>
         /\ job'.verified = job.verified
         /\ \/ /\ Goes("restore.finish", {"ended"}) /\ undo' = "done" /\ lock' = "archived"
               /\ job'.phase = "rolled_back" /\ job'.complete /\ ~job'.canRollback
            \/ Goes("restore.finish", {"failing"}) /\ UNCHANGED <<job, undo>>
<1> USE DEF Local, Goto, Goes
<1>1. job \in Jobs
  BY DEF Typing, SwitchTypeOK
<1>2. /\ UNCHANGED <<plan, polled, answered, online, stepVars, inventory, flying, landed, outside, snapshots,
                     deltas, unproven, merge, warned>>
      /\ \/ /\ pc = "restore.finish" /\ pc' = "ended" /\ FinishOk /\ undo' = "done"
            /\ job' = [job EXCEPT !.phase = "rolled_back", !.complete = TRUE, !.canRollback = FALSE]
         \/ pc = "restore.finish" /\ pc' = "failing" /\ FinishError /\ UNCHANGED <<job, undo>>
  BY DEF RestoreFinish
<1>3. HostTypeOK' /\ (FinishOk => lock' = "archived")
  BY <1>2 DEF Typing, HostTypeOK, FinishOk, FinishError, Archived, LockStates, inventory
<1>4. job' = [job EXCEPT !.phase = "rolled_back", !.complete = TRUE, !.canRollback = FALSE] =>
        /\ job' \in Jobs /\ job'.phase = "rolled_back" /\ job'.complete /\ ~job'.canRollback
        /\ job'.verified = job.verified
  BY <1>1 DEF Jobs, Phases
<1>5. Typing'
  BY <1>1, <1>2, <1>3, <1>4 DEF Typing, SwitchTypeOK, StepsTypeOK, stepVars
<1>6. OwnTyping'
  BY <1>2 DEF OwnTyping, snapshots, deltas
<1> QED
  BY <1>2, <1>3, <1>4, <1>5, <1>6 DEF inventory

(* Every step of LiveNext is one of these.                                 *)
JobSide ==
    /\ SharedSteps \/ Shutdown \/ ShutdownDeadline \/ CloneStop \/ CloneGivesUp
    /\ UNCHANGED liveOwn
CloneSide == LiveCloneStart \/ LiveClonePoll
SwitchSide ==
    /\ SwitchStep
    /\ UNCHANGED <<stepVars, snapshots, deltas, unproven, merge, warned>>
    /\ undo' = UndoAfter
    /\ pc = "finish" /\ plan.mode = "move" => merge.for = "move"
Aside == (Operator \/ GuestStops \/ Worker) /\ UNCHANGED liveOwn
SnapshotSide == (\E vm \in VMs : OutsideSnapshot(vm)) \/ \E c \in pending : LandSnapshot(c)

LEMMA LiveCases ==
  ASSUME LiveNext
  PROVE  \/ WorkSteps \/ VerifyDelta \/ RestoreFinish \/ JobSide \/ CloneSide \/ SwitchSide
         \/ Aside \/ LiveDisturb \/ SnapshotSide
<1> USE DEF JobSide, CloneSide, SwitchSide, Aside, SnapshotSide, WorkSteps, Checks, Deltas, RestoreWork, UndoAfter
<1>1. CASE LiveSwitch \/ LiveFinish \/ LiveFailed
  <2>1. LiveSwitch \/ LiveFailed => pc # "finish"
    BY DEF LiveSwitch, LiveFailed, MarkFailed, Commit, CommitCheck, CommitSourceOff, CommitUnregister,
       CommitUnregistered, CommitRegister, CommitRegistered, CommitRestore, CommitRestored,
       CommitTargetOff, Committed, PowerOnLoop, PowerOnCheck, PowerOnCommand, PowerOnPoll,
       PowerOnMessage, PowerOnAnswer, Rollback, RollbackCheck, RollbackPower, RollbackMessage,
       RollbackUnregister, RollbackUnregistered, RollbackRegister, RollbackRegistered, RollbackFinish
  <2> QED
    BY <1>1, <2>1
    DEF LiveSwitch, LiveFinish, LiveFailed, Finish, MarkFailed, Still, snapshots, deltas, liveOwn, SwitchStep, Engine
<1>2. CASE PowerOnDeadline /\ Still
  BY <1>2 DEF PowerOnDeadline, Still, snapshots, deltas, liveOwn, SwitchStep
<1>3. CASE (RollbackStart \/ BrowserCloses \/ OperatorPowersOff) /\ Still
  BY <1>3 DEF RollbackStart, BrowserCloses, OperatorPowersOff, RollbackLabels, Still, snapshots, deltas,
     liveOwn, SwitchStep
<1>4. CASE LiveSteps
  BY <1>1, <1>4 DEF LiveSteps, Restore
<1> QED
  BY <1>1, <1>2, <1>3, <1>4 DEF LiveNext, LiveEngine, LiveDeadlines

LEMMA CloneSideFrame ==
  ASSUME Typing, OwnTyping, CloneSide
  PROVE  /\ CloneStart \/ ClonePoll
         /\ OwnTyping' /\ unproven' = (pc' \in Watching)
         /\ UNCHANGED <<snapshots, deltas, undo, merge, warned>>
<1>1. /\ CloneStart \/ ClonePoll
      /\ unproven' = (pc' \in Watching) /\ UNCHANGED <<snapshots, deltas, undo, merge, warned>>
  BY DEF CloneSide, LiveCloneStart, LiveClonePoll, CloneStart, ExitObserved, Watching, Goto
<1> QED
  BY <1>1 DEF OwnTyping, snapshots, deltas

LEMMA SnapshotSideFrame ==
  ASSUME Typing, OwnTyping, SnapshotSide
  PROVE  /\ Typing' /\ OwnTyping' /\ (changed => changed')
         /\ UNCHANGED <<inventory, lock, switchVars, control, watch, clones, session, deltas, undo, unproven,
                        merge>>
         /\ ~Undisturbed' /\ (outside' = 0 => outside = 0)
<1>1. changed \in BOOLEAN /\ tree \in [VMs -> Trees] /\ pending \subseteq SnapshotCommands
      /\ outside \in Nat
  BY DEF Typing, HostTypeOK, StepsTypeOK, OwnTyping
<1>2. /\ UNCHANGED <<inventory, lock, flying, switchVars, control, watch, clones, session, deltas, undo,
                     unproven, merge, warned>>
      /\ landed' \in BOOLEAN /\ outside' \in Nat /\ ~Undisturbed' /\ (outside' = 0 => outside = 0)
      /\ changed' \in BOOLEAN /\ (changed => changed')
      /\ tree' \in [VMs -> Trees] /\ pending' \subseteq SnapshotCommands
  <2>1. ASSUME NEW vm \in VMs, OutsideSnapshot(vm)
        PROVE  <1>2!:
    <3>1. /\ UNCHANGED <<inventory, lock, flying, landed, switchVars, control, watch, clones, pending,
                         session, deltas, undo, unproven, merge, warned>>
          /\ outside' = outside + 1
      BY <2>1 DEF OutsideSnapshot
    <3>2. changed' \in BOOLEAN /\ (changed => changed') /\ tree' \in [VMs -> Trees]
      BY <1>1, <2>1 DEF OutsideSnapshot, Trees
    <3>3. outside' # 0 /\ outside' \in Nat /\ landed' \in BOOLEAN
      BY <1>1, <3>1 DEF Typing, HostTypeOK
    <3> QED
      BY <1>1, <3>1, <3>2, <3>3 DEF Undisturbed
  <2>2. ASSUME NEW c \in pending, LandSnapshot(c)
        PROVE  <1>2!:
    <3>1. c \in SnapshotCommands
      BY <1>1
    <3>2. changed' \in BOOLEAN /\ (changed => changed') /\ tree' \in [VMs -> Trees]
      BY <1>1, <2>2, <3>1, SnapshotTyped DEF LandSnapshot
    <3> QED
      BY <1>1, <2>2, <3>2 DEF LandSnapshot, Undisturbed
  <2> QED
    BY <2>1, <2>2 DEF SnapshotSide
<1>3. HostTypeOK'
  BY <1>2 DEF Typing, HostTypeOK, inventory
<1>4. SwitchTypeOK' /\ StepsTypeOK'
  BY <1>2 DEF Typing, SwitchTypeOK, StepsTypeOK, switchVars, control, watch, clones
<1>5. OwnTyping'
  BY <1>2 DEF OwnTyping, deltas
<1> QED
  BY <1>2, <1>3, <1>4, <1>5 DEF Typing

LEMMA DisturbFrame ==
  ASSUME Typing, OwnTyping, LiveDisturb
  PROVE  /\ Typing' /\ OwnTyping' /\ (changed => changed')
         /\ UNCHANGED <<switchVars, control, watch, clones, tree, pending, deltas, undo, unproven, merge>>
         /\ session' \in {session, session + 1} /\ session' >= session
         /\ ~Undisturbed' /\ (outside' = 0 => outside = 0)
<1>1. /\ UNCHANGED <<switchVars, control, watch, clones, tree, pending, deltas, undo, unproven, merge, warned>>
      /\ session' \in {session, session + 1} /\ Environment
      /\ changed' \in BOOLEAN /\ (changed => changed')
  BY DEF LiveDisturb, Typing, StepsTypeOK
<1>2. HostTypeOK'
  BY <1>1, EnvironmentTyped DEF Typing
<1>3. ~Undisturbed' /\ (outside' = 0 => outside = 0)
  <2>1. outside \in Nat
    BY DEF Typing, HostTypeOK
  <2>2. CASE Outside
    BY <2>1, <2>2 DEF Outside, Undisturbed
  <2>3. CASE \E c \in flying : Land(c)
    BY <2>1, <2>3 DEF Land, Undisturbed
  <2> QED
    BY <1>1, <2>2, <2>3 DEF Environment
<1>4. SwitchTypeOK' /\ StepsTypeOK'
  BY <1>1 DEF Typing, SwitchTypeOK, StepsTypeOK, switchVars, control, watch, clones
<1>5. session \in Nat /\ session' \in Nat /\ session' >= session
  BY <1>1 DEF OwnTyping
<1>6. 0..session \subseteq 0..session'
  BY <1>5
<1>7. OwnTyping'
  BY <1>1, <1>5, <1>6 DEF OwnTyping, deltas
<1> QED
  BY <1>1, <1>2, <1>3, <1>4, <1>5, <1>7 DEF Typing

LEMMA LiveNextTyped == LiveTypeOK /\ [LiveNext]_liveVars => LiveTypeOK'
<1> SUFFICES ASSUME Typing, OwnTyping, pc \in LivePcs, [LiveNext]_liveVars
             PROVE  Typing' /\ OwnTyping' /\ pc' \in LivePcs
  <2>1. LiveTypeOK' <=> (Typing' /\ pc' \in LivePcs /\ OwnTyping')
    BY DEF LiveTypeOK, Typing, LivePcs, OwnTyping
  <2> QED
    BY <2>1, LiveTypes
<1>l. StepLabels \cup Landings \subseteq LivePcs /\ SwitchLabels \subseteq LivePcs
  BY DEF LivePcs, Landings, SwitchLabels
<1>o. UNCHANGED liveOwn => OwnTyping'
  BY DEF OwnTyping, liveOwn
<1>1. CASE WorkSteps
  BY <1>1, WorkTyped
<1>2. CASE VerifyDelta \/ RestoreFinish
  <2>1. pc' \in LivePcs
    BY <1>2, VerifyFrame, RestoreFinishFrame DEF Goes, LivePcs, SwitchLabels, StepLabels, LiveLabels
  <2> QED
    BY <1>2, <2>1, VerifyFrame, RestoreFinishFrame
<1>3. CASE JobSide
  BY <1>3, <1>l, <1>o, SharedTyped, ShutdownTyped, CloneTyped DEF JobSide, CloneSteps
<1>4. CASE CloneSide
  BY <1>4, <1>l, CloneSideFrame, CloneTyped DEF CloneSteps
<1>5. CASE SwitchSide
  <2>0. /\ UNCHANGED stepVars /\ UNCHANGED <<snapshots, deltas, unproven, merge, warned>>
        /\ undo' \in {undo, "none"}
    BY <1>5 DEF SwitchSide, UndoAfter
  <2>2. StepsTypeOK'
    BY <2>0 DEF Typing, StepsTypeOK, stepVars
  <2>1. StepsTypeOK' /\ OwnTyping'
    BY <2>0, <2>2 DEF OwnTyping, snapshots, deltas
  <2> QED
    BY <1>5, <1>l, <2>1, SwitchStepTyped DEF SwitchSide, Typing
<1>6. CASE Aside
  BY <1>6, <1>o, OperatorTyped, GuestTyped, WorkerTyped DEF Aside, switchVars
<1>7. CASE LiveDisturb \/ SnapshotSide
  BY <1>7, DisturbFrame, SnapshotSideFrame DEF switchVars
<1>8. CASE UNCHANGED liveVars
  <2>1. UNCHANGED vars /\ UNCHANGED stepVars /\ UNCHANGED liveOwn
    BY <1>8 DEF liveVars
  <2> QED
    BY <2>1, <1>o, QueryTyped DEF vars, Query, switchVars, Typing, SwitchTypeOK, StepsTypeOK, stepVars
<1> QED
  BY <1>1, <1>2, <1>3, <1>4, <1>5, <1>6, <1>7, <1>8, LiveCases

(* Every reachable state of a live migration has the types of State, of    *)
(* the host interface, of the workers and of the snapshots.                *)
THEOREM LiveTyped == LiveSpec => []LiveTypeOK
  BY LiveInitTyped, LiveNextTyped, PTL DEF LiveSpec

(***************************************************************************)
(* Clones, by CloneInv of StepsProofs: the engine knows of a clone whose   *)
(* exit it did not see, and then undoes nothing.                           *)
(***************************************************************************)
KnownInv == unproven = (pc \in Watching \/ job.phase = "unknown")

LiveCloneInv == CloneInv /\ KnownInv

LEMMA LiveInitClones == LiveInit => LiveCloneInv
<1> SUFFICES ASSUME LiveInit
             PROVE  LiveCloneInv
  OBVIOUS
<1>1. job.phase = "queued" /\ ~job.complete
  BY DEF LiveInit, NewJob
<1> QED
  BY <1>1 DEF LiveInit, StepsInit, LiveCloneInv, KnownInv, CloneInv, Active, Watching

(* Where the steps that launch, watch and end no clone lead.               *)
LEMMA WorkPlaces ==
  ASSUME Typing, OwnTyping, WorkSteps \/ VerifyDelta
  PROVE  /\ pc \notin Watching \cup Closed /\ pc' \notin Watching \cup Closed
         /\ pc \in Early \/ pc' \notin Early
         /\ pc \in Landings => Undo /\ pc = "failing"
         /\ Undo => pc' \in {"failing", "restore.check"}
<1> USE DEF Goes, Watching, Closed, RollbackLabels, Early, Landings
<1>1. CASE Checks
  BY <1>1, ChecksFrame DEF ChecksGo, Undo, Unfinished
<1>2. CASE CreateSnapshot
  BY <1>2, CreateFrame DEF Undo, Unfinished
<1>3. CASE Deltas
  BY <1>3, DeltasFrame DEF DeltasGo, Undo, Unfinished
<1>4. CASE Merge
  BY <1>4, MergeFrame DEF MergeGo, Undo, Unfinished
<1>5. CASE MergeCopy
  BY <1>5, MergeCopyFrame DEF MergeCopyGo, Undo, Unfinished
<1>6. CASE RestoreWork
  BY <1>6, RestoreFrame DEF RestoreGo, Undo, Unfinished
<1>7. CASE MergeTarget
  BY <1>7, BeginFrame DEF Undo, Unfinished, MergeTarget
<1>8. CASE Undo
  BY <1>8, BeginFrame DEF Undo, Unfinished
<1>9. CASE VerifyDelta
  BY <1>9, VerifyFrame DEF Undo, Unfinished
<1> QED
  BY <1>1, <1>2, <1>3, <1>4, <1>5, <1>6, <1>7, <1>8, <1>9 DEF WorkSteps

(* The phases those steps give a job: none of them is "unknown".           *)
LEMMA WorkPhases ==
  ASSUME Typing, OwnTyping, WorkSteps \/ VerifyDelta
  PROVE  /\ job \in Jobs /\ job' \in Jobs /\ job'.complete = job.complete
         /\ UNCHANGED <<worker, lock, unproven>>
         /\ job'.phase \in {job.phase, "snapshot", "cloning", "verifying_disk", "cutover",
                            "verifying_config", "consolidating", "restoring"}
<1>1. job \in Jobs
  BY DEF Typing, SwitchTypeOK
<1>2. CASE WorkSteps
  <2>1. WorkFrame
    BY <1>2, WorkTyped
  <2>2. UNCHANGED job \/ job'.phase \in {job.phase, "snapshot", "cloning", "verifying_disk", "cutover",
                          "verifying_config", "consolidating", "restoring"}
    BY <1>2, ChecksFrame, CreateFrame, DeltasFrame, MergeFrame, MergeCopyFrame, RestoreFrame, BeginFrame
    DEF WorkSteps
  <2> QED
    BY <1>1, <2>1, <2>2 DEF WorkFrame, JobKept
<1>3. CASE VerifyDelta
  <2>1. Typing' /\ Query
    BY <1>3, VerifyFrame
  <2> QED
    BY <1>1, <1>3, <2>1, VerifyFrame DEF Typing, SwitchTypeOK, Query, hostVars, clones, liveOwn
<1> QED
  BY <1>2, <1>3

LEMMA WorkClones ==
  ASSUME Typing, OwnTyping, LiveCloneInv, WorkSteps \/ VerifyDelta
  PROVE  LiveCloneInv'
<1>1. CASE pc \notin Landings
  <2>1. job.phase # "unknown"
    BY <1>1 DEF LiveCloneInv, CloneInv
  <2>2. job'.phase \in Phases \ {"unknown"}
    BY <2>1, WorkPhases DEF Jobs
  <2>3. CloneInv'
    BY <1>1, <2>2, WorkPlaces, WorkPhases, WorkKeeps DEF LiveCloneInv
  <2>4. KnownInv'
    BY <2>1, <2>2, WorkPlaces, WorkPhases DEF LiveCloneInv, KnownInv
  <2> QED
    BY <2>3, <2>4 DEF LiveCloneInv
<1>2. CASE pc \in Landings
  <2>1. Undo /\ pc = "failing" /\ UNCHANGED <<worker, lock, unproven, disk>>
    BY <1>2, WorkPlaces, WorkPhases, BeginFrame
  <2>2. \/ unproven /\ pc' = "failing" /\ UNCHANGED job
        \/ ~unproven /\ pc' = "restore.check" /\ job'.phase = "restoring" /\ job'.complete = job.complete
    BY <2>1, BeginFrame, WorkPhases DEF MergeTarget, Goes
  <2>3. ~job.complete /\ "restore.check" \notin Early \cup Watching
    BY <2>1, LabelsApart DEF LiveCloneInv, CloneInv, Early, Watching
  <2>4. ~unproven => \A d \in Disks : ~Active(d)
    BY <2>1 DEF LiveCloneInv, CloneInv, KnownInv, Watching
  <2>5. CASE unproven
    BY <2>1, <2>2, <2>5 DEF LiveCloneInv, CloneInv, KnownInv, Active
  <2>6. CASE ~unproven
    BY <2>1, <2>2, <2>3, <2>4, <2>6 DEF LiveCloneInv, CloneInv, KnownInv, Active, Landings
  <2> QED
    BY <2>5, <2>6
<1> QED
  BY <1>1, <1>2

LEMMA RestoreFinishClones ==
  ASSUME Typing, OwnTyping, LiveCloneInv, RestoreFinish
  PROVE  LiveCloneInv'
<1>1. /\ UNCHANGED <<stepVars, unproven>> /\ pc = "restore.finish"
      /\ \/ pc' = "ended" /\ job'.phase = "rolled_back"
         \/ pc' = "failing" /\ UNCHANGED job
  BY RestoreFinishFrame DEF Goes
<1>2. pc \notin Watching \cup Landings \cup Closed /\ pc' \notin Watching \cup Early
  BY <1>1, LabelsApart DEF Watching, Landings, Closed, RollbackLabels, Early
<1>3. /\ job.phase # "unknown" /\ ~job.complete /\ ~unproven
      /\ \A d \in Disks : ~Active(d)
  BY <1>2 DEF LiveCloneInv, CloneInv, KnownInv
<1>4. job'.phase # "unknown" /\ (job'.complete => pc' \in Closed) /\ UNCHANGED worker
  BY <1>1, <1>3 DEF Closed, stepVars
<1> QED
  BY <1>1, <1>2, <1>3, <1>4 DEF LiveCloneInv, CloneInv, KnownInv, Active

LEMMA JobSideKnown ==
  ASSUME Typing, LiveCloneInv, JobSide
  PROVE  KnownInv'
<1> USE DEF Goto, Watching, Landings
<1>1. job \in Jobs /\ UNCHANGED unproven
  BY DEF Typing, SwitchTypeOK, JobSide, liveOwn
<1>2. \A p \in Phases : Phase(p) => job'.phase = p
  BY <1>1 DEF Phase, Jobs
<1>3. CASE SharedSteps \/ Shutdown \/ ShutdownDeadline
  <2>1. pc \notin Watching \cup Landings /\ pc' \notin Watching
    BY <1>3 DEF SharedSteps, Run, Acquire, CreateTarget, CopyConfig, DiskVerify, NextDisk, Advance,
           Shutdown, ShutdownBegin, ShutdownRequest, ShutdownPoll, ShutdownReceive, ShutdownForce,
           ShutdownDeadline
  <2>2. job.phase # "unknown"
    BY <2>1 DEF LiveCloneInv, CloneInv
  <2>3. UNCHANGED job \/ Phase("preflight") \/ Phase("shutdown") \/ Phase("awaiting_shutdown")
    BY <1>3 DEF SharedSteps, Run, Acquire, CreateTarget, CopyConfig, DiskVerify,
           Shutdown, ShutdownBegin, ShutdownRequest, ShutdownPoll, ShutdownReceive, ShutdownForce,
           ShutdownDeadline
  <2>4. job'.phase # "unknown"
    BY <1>2, <2>2, <2>3 DEF Phases
  <2> QED
    BY <1>1, <2>1, <2>2, <2>4 DEF LiveCloneInv, KnownInv
<1>4. CASE CloneStop
  BY <1>1, <1>4 DEF CloneStop, LiveCloneInv, KnownInv
<1>5. CASE CloneGivesUp
  BY <1>1, <1>2, <1>5 DEF CloneGivesUp, LiveCloneInv, KnownInv, Phases
<1> QED
  BY <1>3, <1>4, <1>5 DEF JobSide

LEMMA CloneSideKnown ==
  ASSUME Typing, OwnTyping, LiveCloneInv, CloneSide
  PROVE  KnownInv'
<1>1. job \in Jobs /\ pc \in {"clone.start", "clone.poll"}
  BY CloneSideFrame DEF Typing, SwitchTypeOK, CloneStart, ClonePoll
<1>2. UNCHANGED job \/ Phase("reconnecting") \/ Phase("cloning")
  BY CloneSideFrame DEF CloneStart, ClonePoll, CloneExits, CloneRuns
<1>3. job'.phase # "unknown"
  BY <1>1, <1>2 DEF Phase, Jobs, LiveCloneInv, CloneInv, Landings
<1> QED
  BY <1>3, CloneSideFrame DEF KnownInv

LEMMA LiveNextClones == LiveTypeOK /\ LiveCloneInv /\ [LiveNext]_liveVars => LiveCloneInv'
<1> SUFFICES ASSUME LiveTypeOK, LiveCloneInv, [LiveNext]_liveVars
             PROVE  LiveCloneInv'
  OBVIOUS
<1>0. Typing /\ OwnTyping
  BY LiveTypes
<1>1. CASE WorkSteps \/ VerifyDelta \/ RestoreFinish
  BY <1>0, <1>1, WorkClones, RestoreFinishClones
<1>2. CASE JobSide
  BY <1>0, <1>2, JobSideKnown, SharedKeeps, ShutdownKeeps, CloneKeeps DEF LiveCloneInv, JobSide, CloneSteps
<1>3. CASE CloneSide
  BY <1>0, <1>3, CloneSideFrame, CloneSideKnown, CloneKeeps DEF LiveCloneInv, CloneSteps
<1>4. CASE SwitchSide
  <2>1. /\ SwitchShape /\ pc \in SwitchLabels /\ pc' \in SwitchLabels
        /\ UNCHANGED <<worker, disk, unproven>>
    BY <1>0, <1>4, Shaped, SwitchStepTyped DEF Typing, SwitchSide, stepVars
  <2>2. CloneInv'
    BY <2>1, SwitchKeeps DEF LiveCloneInv
  <2>3. pc \notin Watching /\ pc' \notin Watching
    BY <2>1, LabelsApart
  <2>4. job'.phase = "unknown" <=> job.phase = "unknown"
    BY <2>1 DEF SwitchShape, LiveCloneInv, CloneInv, Landings
  <2> QED
    BY <2>1, <2>2, <2>3, <2>4 DEF LiveCloneInv, KnownInv
<1>5. CASE Aside
  <2>1. UNCHANGED <<switchVars, unproven>>
    BY <1>0, <1>5, OperatorTyped, GuestTyped, WorkerTyped DEF Aside, liveOwn
  <2>2. CloneInv'
    <3>1. CASE Operator
      BY <1>0, <3>1, OperatorTyped, OperatorKeeps DEF hostVars, watch, clones, LiveCloneInv
    <3>2. CASE GuestStops
      BY <1>0, <3>2, GuestTyped, OperatorKeeps DEF stepVars, LiveCloneInv
    <3>3. CASE Worker
      BY <1>0, <3>3, WorkerKeeps DEF LiveCloneInv
    <3> QED
      BY <1>5, <3>1, <3>2, <3>3 DEF Aside
  <2> QED
    BY <2>1, <2>2 DEF LiveCloneInv, KnownInv, switchVars
<1>6. CASE LiveDisturb
  <2>1. CloneInv'
    BY <1>6, EnvironmentKeeps DEF LiveDisturb, watch, clones, LiveCloneInv
  <2> QED
    BY <1>6, <2>1 DEF LiveDisturb, LiveCloneInv, KnownInv, switchVars
<1>7. CASE SnapshotSide
  <2>1. UNCHANGED <<lock, switchVars, watch, clones, unproven>>
    BY <1>0, <1>7, SnapshotSideFrame
  <2>2. CloneInv'
    BY <2>1, OperatorKeeps DEF LiveCloneInv, watch, clones
  <2> QED
    BY <2>1, <2>2 DEF LiveCloneInv, KnownInv, switchVars
<1>8. CASE UNCHANGED liveVars
  <2>1. UNCHANGED <<switchVars, lock, worker, disk, unproven>>
    BY <1>8 DEF liveVars, vars, hostVars, stepVars, liveOwn
  <2>2. CloneInv'
    BY <2>1, OperatorKeeps DEF LiveCloneInv
  <2> QED
    BY <2>1, <2>2 DEF LiveCloneInv, KnownInv, switchVars
<1> QED
  BY <1>1, <1>2, <1>3, <1>4, <1>5, <1>6, <1>7, <1>8, LiveCases

(* A live migration that ended as anything but "unknown", or whose lock is *)
(* archived, left no clone that may still write: see ClonesAccounted.      *)
THEOREM LiveClonesAccounted == LiveSpec => []ClonesAccounted
<1>1. LiveCloneInv => ClonesAccounted
  BY CloneInvMeans DEF LiveCloneInv
<1> QED
  BY <1>1, LiveTyped, LiveInitClones, LiveNextClones, PTL DEF LiveSpec

(***************************************************************************)
(* The source's base disks.  Until every clone's end was seen there is no  *)
(* merge under way that could still reach them, and the job's snapshot is  *)
(* in place.                                                               *)
(***************************************************************************)
Before == {"queued", "preflight", "acquire", "preflight.own", "snapshot"}
OnBase == {"deltas", "folder", "disk.guard", "clone.start", "clone.done", "disk.verify", "all.guard"}
          \cup Watching

FrozenInv ==
    /\ pc \in Before \cup OnBase \/ unproven => pending = {}
    /\ outside = 0 /\ (pc \in OnBase \/ unproven) => "own" \in tree["source"]

LEMMA LiveInitFrozen == LiveInit => FrozenInv
  BY DEF LiveInit, FrozenInv, OnBase, Watching

LEMMA FrozenStays ==
  ASSUME FrozenInv, UNCHANGED <<tree, pending>>, outside' = 0 => outside = 0,
         unproven' => unproven \/ pc \in OnBase,
         pc' \in Before => pc \in Before, pc' \in OnBase => pc \in OnBase
  PROVE  FrozenInv'
  BY DEF FrozenInv

(* A created snapshot is there when the engine goes on.                    *)
LEMMA CreateTakes ==
  ASSUME tree \in [VMs -> Trees], CreateSnapshot, pc' = "deltas"
  PROVE  UNCHANGED <<pending, changed>> /\ "own" \in tree'["source"]
<1> DEFINE c == [op |-> "create", vm |-> "source", id |-> SourceId]
<1>1. IssueSnapshot(c, TRUE)
  BY DEF CreateSnapshot, Goto
<1>2. Identified(c.vm, c.id) /\ SnapshotTakes(c) /\ UNCHANGED pending
  BY <1>1 DEF IssueSnapshot
<1>3. tree' = [tree EXCEPT !["source"] = @ \cup {"own"}] /\ UNCHANGED changed
  BY <1>2 DEF SnapshotTakes
<1> QED
  BY <1>2, <1>3

LEMMA WorkFrozen ==
  ASSUME Typing, OwnTyping, LiveCloneInv, FrozenInv, WorkSteps
  PROVE  FrozenInv'
<1> USE DEF Goes, Before, OnBase, Watching
<1>1. UNCHANGED <<outside, unproven>>
  BY WorkTyped DEF WorkFrame
<1>2. ~Undo => ~unproven
  BY WorkPlaces DEF LiveCloneInv, KnownInv, CloneInv
<1>3. CASE Checks
  <2>1. UNCHANGED <<tree, pending>>
    BY <1>3, ChecksFrame DEF liveOwn
  <2>2. pc' \in Before => pc \in Before
    BY <1>3, ChecksFrame DEF ChecksGo
  <2>3. pc' \in OnBase => pc \in OnBase
    BY <1>3, ChecksFrame DEF ChecksGo
  <2> HIDE DEF Before, OnBase
  <2> QED
    BY <1>1, <2>1, <2>2, <2>3, FrozenStays
<1>4. CASE CreateSnapshot
  <2>1. pc = "snapshot" /\ pc' \in {"deltas", "failing"} /\ ~unproven
    BY <1>2, <1>4, CreateFrame DEF Undo, Unfinished
  <2> QED
    BY <1>1, <1>4, <2>1, CreateTakes DEF FrozenInv, OwnTyping
<1>5. CASE Deltas \/ Merge \/ MergeCopy \/ RestoreWork \/ MergeTarget
  <2>1. pc' \notin Before \cup OnBase
    BY <1>5, DeltasFrame, MergeFrame, MergeCopyFrame, RestoreFrame, BeginFrame
    DEF DeltasGo, MergeGo, MergeCopyGo, RestoreGo, Unfinished
  <2>2. pc \notin Unfinished
    BY <1>5, DeltasFrame, MergeFrame, MergeCopyFrame, RestoreFrame
    DEF DeltasGo, MergeGo, MergeCopyGo, RestoreGo, Unfinished, MergeTarget
  <2>3. ~unproven
    BY <1>2, <2>2 DEF Undo
  <2> QED
    BY <1>1, <2>1, <2>3 DEF FrozenInv
<1>6. CASE Undo
  <2>1. UNCHANGED <<tree, pending>> /\ pc' \in {"failing", "restore.check"}
    BY <1>6, BeginFrame, WorkPlaces DEF snapshots
  <2> QED
    BY <1>1, <2>1, FrozenStays
<1> QED
  BY <1>3, <1>4, <1>5, <1>6 DEF WorkSteps

LEMMA JobSidePlaces ==
  ASSUME Typing, JobSide
  PROVE  /\ UNCHANGED <<landed, outside, reg, liveOwn, changed, copied, stop, final>>
         /\ pc' \in Before => pc \in Before
         /\ pc' \in OnBase => pc \in OnBase
         /\ lock' # "archived" \/ UNCHANGED lock
<1> USE DEF Goto, Advance, Before, OnBase, Watching, stepVars, control
<1>1. CASE SharedSteps
  BY <1>1 DEF JobSide, SharedSteps, Run, Acquire, CreateTarget, CopyConfig, DiskVerify, NextDisk, Query,
              hostVars, inventory, clones
<1>2. CASE Shutdown \/ ShutdownDeadline
  <2>1. UNCHANGED <<landed, outside, reg, lock>>
    BY <1>2, ForceTyped
    DEF Typing, Shutdown, ShutdownBegin, ShutdownRequest, ShutdownPoll, ShutdownReceive, ShutdownDeadline,
        Query, hostVars, inventory
  <2>2. /\ UNCHANGED <<changed, copied, stop, final>>
        /\ pc' \in {"shutdown.done", "shutdown.request", "failing", "shutdown.poll", "stopped",
                    "shutdown.revalidate", "shutdown.await"}
    BY <1>2 DEF Shutdown, ShutdownBegin, ShutdownRequest, ShutdownPoll, ShutdownReceive, ShutdownForce,
         ShutdownDeadline, clones
  <2> QED
    BY <2>1, <2>2 DEF JobSide
<1>3. CASE CloneStop \/ CloneGivesUp
  BY <1>3 DEF JobSide, CloneStop, CloneGivesUp, Query, hostVars, inventory
<1> QED
  BY <1>1, <1>2, <1>3 DEF JobSide

LEMMA LiveNextFrozen == LiveTypeOK /\ LiveCloneInv /\ FrozenInv /\ [LiveNext]_liveVars => FrozenInv'
<1> SUFFICES ASSUME LiveTypeOK, LiveCloneInv, FrozenInv, [LiveNext]_liveVars
             PROVE  FrozenInv'
  OBVIOUS
<1>0. Typing /\ OwnTyping
  BY LiveTypes
<1>1. CASE WorkSteps
  BY <1>0, <1>1, WorkFrozen
<1>2. CASE VerifyDelta \/ RestoreFinish
  <2>1. pc' \notin Before \cup OnBase /\ UNCHANGED <<outside, tree, pending, unproven>>
    BY <1>0, <1>2, VerifyFrame, RestoreFinishFrame
    DEF Goes, Before, OnBase, Watching, Query, hostVars, liveOwn, snapshots
  <2> QED
    BY <2>1, FrozenStays
<1>3. CASE JobSide
  BY <1>0, <1>3, JobSidePlaces, FrozenStays DEF liveOwn
<1>4. CASE CloneSide
  <2>1. /\ pc \in OnBase /\ pc' \notin Before /\ (unproven' => pc' \in OnBase)
        /\ UNCHANGED <<tree, pending, outside>>
    BY <1>0, <1>4, CloneSideFrame DEF CloneStart, ClonePoll, CloneExits, CloneRuns, Watch, Goto, Query,
       hostVars, OnBase, Before, Watching, snapshots
  <2> QED
    BY <2>1, FrozenStays
<1>5. CASE SwitchSide
  <2>1. pc' \in SwitchLabels /\ UNCHANGED <<tree, pending, outside, unproven>>
    BY <1>0, <1>5, SwitchStepTyped, Shaped DEF Typing, SwitchSide, SwitchShape, snapshots
  <2>2. pc' \notin Before \cup OnBase
    BY <2>1 DEF SwitchLabels, RollbackLabels, Before, OnBase, Watching
  <2> QED
    BY <2>1, <2>2, FrozenStays
<1>6. CASE Aside
  <2>1. UNCHANGED <<pc, outside, tree, pending, unproven>>
    BY <1>0, <1>6, OperatorTyped, GuestTyped, WorkerTyped DEF Aside, liveOwn, switchVars, hostVars
  <2> QED
    BY <2>1, FrozenStays
<1>7. CASE LiveDisturb
  <2>1. UNCHANGED <<pc, tree, pending, unproven>> /\ (outside' = 0 => outside = 0)
    BY <1>0, <1>7, DisturbFrame DEF switchVars
  <2> QED
    BY <2>1, FrozenStays
<1>8. ASSUME NEW vm \in VMs, OutsideSnapshot(vm)
      PROVE  FrozenInv'
  <2>1. UNCHANGED <<pc, pending, unproven>> /\ outside' # 0
    BY <1>0, <1>8 DEF OutsideSnapshot, switchVars, Typing, HostTypeOK
  <2> QED
    BY <2>1 DEF FrozenInv
<1>9. ASSUME NEW c \in pending, LandSnapshot(c)
      PROVE  FrozenInv'
  <2>1. UNCHANGED <<pc, unproven>> /\ pending # {}
    BY <1>9 DEF LandSnapshot, switchVars
  <2> QED
    BY <2>1 DEF FrozenInv
<1>10. CASE UNCHANGED liveVars
  BY <1>10, FrozenStays DEF liveVars, vars, hostVars, switchVars, liveOwn
<1> QED
  BY <1>1, <1>2, <1>3, <1>4, <1>5, <1>6, <1>7, <1>8, <1>9, <1>10, LiveCases DEF SnapshotSide

(* Unless somebody else deletes it, the job's snapshot stays in place      *)
(* while a clone may read the base disks, however the job ends: see        *)
(* BaseStaysFrozen.                                                        *)
THEOREM BaseIsFrozen == LiveSpec => []BaseStaysFrozen
<1>1. LiveCloneInv /\ FrozenInv => BaseStaysFrozen
  BY DEF LiveCloneInv, CloneInv, KnownInv, FrozenInv, BaseStaysFrozen, NoneActive
<1> QED
  BY <1>1, LiveTyped, LiveInitClones, LiveNextClones, LiveInitFrozen, LiveNextFrozen, PTL DEF LiveSpec

(***************************************************************************)
(* A stop.  It is refused from the cutover on; before it the source is as  *)
(* it was, so that a restore finds nothing to register.                    *)
(***************************************************************************)
Cutover == {"shutdown.begin", "shutdown.request", "shutdown.poll", "shutdown.await",
            "shutdown.revalidate", "shutdown.force", "shutdown.done", "metadata", "delta.descriptor",
            "delta.extent", "metadata.copy", "config", "verify.all"}
CopyLabels == {"copy.register", "copy.registered", "copy.off", "copy.unregister", "copy.unregistered"}
MergeLabels == {"merge.list", "merge.remove", "merge.check"}
Rebuilding == {"restore.off", "restore.unregister", "restore.unregistered", "restore.register",
               "restore.registered"}
PastStop == Cutover \cup CopyLabels \cup (SwitchLabels \ Landings)

(* What a merge under way is for.                                          *)
PurposeInv ==
    /\ pc \in MergeLabels => merge.for # "none"
    /\ pc \in CopyLabels \ {"copy.register"} => merge.for = "copy"
    /\ pc \in Rebuilding \cup {"restore.tree", "restore.finish"} => merge.for = "restore"

LiveStopInv ==
    /\ stop => ~final
    /\ job.canRollback \/ merge.for \in {"copy", "source", "move"} \/ pc \in PastStop => final
    /\ PurposeInv
    /\ Undisturbed /\ ~final => reg = OnlySource /\ power["source"] = "on" /\ pc \notin Rebuilding

LEMMA PlacesApart ==
  /\ \A l \in MergeLabels \cup Rebuilding \cup {"restore.check", "restore.tree", "restore.finish"} :
        l \notin PastStop
  /\ \A l \in MergeLabels : l \notin CopyLabels \cup Rebuilding \cup {"restore.tree", "restore.finish"}
  /\ \A l \in SwitchLabels \cup Cutover :
        l \notin MergeLabels \cup CopyLabels \cup Rebuilding \cup {"restore.tree", "restore.finish"}
  /\ \A l \in CopyLabels : l \notin MergeLabels \cup Rebuilding \cup {"restore.tree", "restore.finish"}
  /\ \A l \in {"failing", "stopped", "ended", "restore.check"} \cup Before \cup OnBase :
        l \notin PastStop \cup MergeLabels \cup CopyLabels \cup Rebuilding \cup {"restore.tree", "restore.finish"}
  BY DEF PastStop, Cutover, CopyLabels, MergeLabels, Rebuilding, SwitchLabels, RollbackLabels, Landings,
         Before, OnBase, Watching

LEMMA LiveInitStop == LiveInit => LiveStopInv
<1> SUFFICES ASSUME LiveInit
             PROVE  LiveStopInv
  OBVIOUS
<1>1. ~job.canRollback /\ merge.for = "none"
  BY DEF LiveInit, NewJob
<1>2. pc \in Before
  BY DEF LiveInit, Before
<1> QED
  BY <1>1, <1>2, PlacesApart DEF LiveInit, StepsInit, HostInit, LiveStopInv, PurposeInv

(* A step past the point of no return, and one before it that touches      *)
(* neither the registrations nor the source's power.                       *)
LEMMA StopPast ==
  ASSUME LiveStopInv, pc \in PastStop, UNCHANGED <<stop, final>>, PurposeInv'
  PROVE  LiveStopInv'
  BY DEF LiveStopInv

LEMMA StopKept ==
  ASSUME LiveStopInv, UNCHANGED <<stop, final, reg, landed, outside>>, power'["source"] = power["source"],
         job'.canRollback => job.canRollback,
         merge'.for \in {"restore", merge.for},
         pc' \in PastStop => pc \in PastStop,
         pc' \in Rebuilding => pc \in Rebuilding \/ ~Undisturbed \/ final,
         PurposeInv'
  PROVE  LiveStopInv'
  BY DEF LiveStopInv, Undisturbed

LEMMA ChecksStop ==
  ASSUME Typing, OwnTyping, LiveStopInv, Checks
  PROVE  LiveStopInv'
<1> USE DEF Goes
<1>1. /\ UNCHANGED <<stop, reg, landed, outside, merge, power>> /\ job'.canRollback = job.canRollback
  BY ChecksFrame DEF Query, hostVars, inventory, liveOwn, JobKept
<1>2. pc \in OnBase \cup Before \cup Cutover /\ pc' \in {"failing", "stopped"} \cup Before \cup OnBase \cup Cutover
  BY ChecksFrame DEF ChecksGo, OnBase, Before, Cutover
<1>3. PurposeInv'
  BY <1>2, PlacesApart DEF PurposeInv
<1>4. pc' \notin Rebuilding
  BY <1>2, PlacesApart
<1>5. CASE pc = "all.guard" /\ pc' = "shutdown.begin"
  <2>1. AfterClones
    BY <1>5 DEF Checks, LivePreflight, LivePreflightOwn, LiveDeltas, LiveDiskGuard, LiveDiskCloned,
       LiveRevalidate, CutoverGuard, Metadata, Advance
  <2>2. final' /\ ~stop
    BY <1>5, <2>1 DEF AfterClones, Proceed, Goto
  <2> QED
    BY <1>1, <1>3, <2>2 DEF LiveStopInv
<1>6. CASE ~(pc = "all.guard" /\ pc' = "shutdown.begin")
  <2>1. UNCHANGED final
    BY <1>6, ChecksFrame
  <2>2. pc' \in {"failing", "stopped"} \cup Before \cup OnBase \/ pc \in Cutover
    BY <1>6, ChecksFrame DEF ChecksGo, OnBase, Before, Cutover
  <2>3. pc' \in PastStop => pc \in PastStop
    BY <2>2, PlacesApart DEF PastStop
  <2> QED
    BY <1>1, <1>3, <1>4, <2>1, <2>3, StopKept
<1> QED
  BY <1>5, <1>6

LEMMA MergeEnds ==
  ASSUME Merge
  PROVE  /\ pc' = "finish" => merge.for # "restore"
         /\ pc' = "copy.unregister" => merge.for = "copy"
         /\ pc' = "restore.finish" => merge.for = "restore"
<1> USE DEF Goto
<1>1. MergeFails => pc' = (IF merge.for = "move" THEN "finish" ELSE "failing")
  BY DEF MergeFails
<1>2. CASE MergeList
  BY <1>1, <1>2 DEF MergeList
<1>3. CASE MergeRemove
  BY <1>1, <1>3 DEF MergeRemove
<1>4. CASE MergeCheck
  <2>1. MergeFails \/ pc' = AfterMerge
    BY <1>4 DEF MergeCheck
  <2>2. /\ AfterMerge = "finish" => merge.for # "restore"
        /\ AfterMerge = "copy.unregister" => merge.for = "copy"
        /\ AfterMerge = "restore.finish" => merge.for = "restore"
    BY DEF AfterMerge
  <2> QED
    BY <1>1, <2>1, <2>2
<1> QED
  BY <1>2, <1>3, <1>4 DEF Merge

LEMMA MergeStop ==
  ASSUME Typing, OwnTyping, LiveStopInv, Merge
  PROVE  LiveStopInv'
<1>1. /\ WorkFrame /\ pc \in MergeLabels /\ UNCHANGED <<reg, power, final, job, merge>>
      /\ pc' \in {"finish", "failing", "merge.remove", "merge.check", "copy.unregister", "restore.finish"}
  BY MergeFrame DEF MergeGo, Goes, MergeLabels
<1>2. merge.for \in Purposes /\ merge.for # "none"
  BY <1>1 DEF OwnTyping, LiveStopInv, PurposeInv
<1>3. PurposeInv'
  BY <1>1, <1>2, MergeEnds DEF PurposeInv, MergeLabels, CopyLabels, Rebuilding
<1>4. pc' \in PastStop => merge.for \in {"copy", "source", "move"}
  BY <1>1, <1>2, MergeEnds, PlacesApart DEF Purposes, MergeLabels
<1>5. pc' \notin Rebuilding
  BY <1>1 DEF Rebuilding
<1> QED
  BY <1>1, <1>3, <1>4, <1>5 DEF WorkFrame, LiveStopInv, Undisturbed

LEMMA MergeCopyStop ==
  ASSUME Typing, OwnTyping, LiveStopInv, MergeCopy
  PROVE  LiveStopInv'
<1> USE DEF Goto, Begin, KeepSnapshots, Advance, CopyLabels
<1>1. pc \in CopyLabels /\ UNCHANGED <<stop, final>>
  BY MergeCopyFrame DEF WorkFrame, MergeCopyGo, Goes
<1>2. pc \in CopyLabels \ {"copy.register"} => merge.for = "copy"
  BY DEF LiveStopInv, PurposeInv
<1>3. merge \in [for : Purposes, vm : VMs, id : Nat]
  BY DEF OwnTyping
<1>4. /\ pc' \in CopyLabels => pc' # "copy.register" /\ merge'.for = "copy"
      /\ pc' = "merge.list" => merge'.for # "none"
  BY <1>2, <1>3 DEF MergeCopy, CopyRegister, CopyRegistered, CopyOff, CopyUnregister, CopyUnregistered,
     Still, liveOwn
<1>5. pc' \in CopyLabels \cup {"merge.list", "failing"}
  BY MergeCopyFrame DEF MergeCopyGo, Goes
<1>6. PurposeInv'
  BY <1>4, <1>5 DEF PurposeInv, MergeLabels, Rebuilding
<1> QED
  BY <1>1, <1>6, StopPast DEF PastStop

LEMMA RestoreStop ==
  ASSUME Typing, OwnTyping, LiveStopInv, RestoreWork
  PROVE  LiveStopInv'
<1> USE DEF Goes
<1>1. /\ pc \in Rebuilding \cup {"restore.check", "restore.tree"}
      /\ pc' \in Rebuilding \cup {"failing", "restore.tree", "merge.check", "merge.list"}
      /\ pc = "restore.tree" => pc' \in {"failing", "merge.check", "merge.list"}
  BY RestoreFrame DEF RestoreGo, Rebuilding
<1>2. /\ UNCHANGED <<stop, final, landed, outside, power>> /\ job'.canRollback = job.canRollback
      /\ merge'.for \in {"restore", merge.for}
  BY RestoreFrame DEF WorkFrame, JobKept
<1>3. pc = "restore.check" /\ pc' # "failing" => Found
  BY DEF RestoreWork, RestoreCheck, RestoreOff, RestoreUnregister, RestoreUnregistered, RestoreRegister,
         RestoreRegistered, RestoreTree, Goto, Advance
<1>4. pc' # "failing" => merge'.for = "restore"
  BY <1>1, <1>2, <1>3 DEF LiveStopInv, PurposeInv, Found
<1>5. PurposeInv'
  <2>1. pc' \notin CopyLabels
    BY <1>1 DEF CopyLabels, Rebuilding
  <2>2. "failing" \notin MergeLabels \cup Rebuilding
    BY DEF MergeLabels, Rebuilding
  <2> QED
    BY <1>4, <2>1, <2>2 DEF PurposeInv
<1>6. pc' \notin PastStop
  BY <1>1, PlacesApart DEF MergeLabels
<1>7. CASE Undisturbed /\ ~final
  <2>1. reg = OnlySource /\ pc \in {"restore.check", "restore.tree"}
    BY <1>1, <1>7 DEF LiveStopInv
  <2>2. ~Registered("target") /\ reg # Nobody
    BY <2>1 DEF Registered, OnlySource, Nobody
  <2>3. pc' \notin Rebuilding
    <3>1. CASE pc = "restore.check"
      <4>1. pc' \in {"failing", "restore.tree"}
        BY <2>2, <3>1 DEF RestoreWork, RestoreCheck, RestoreOff, RestoreUnregister, RestoreUnregistered,
           RestoreRegister, RestoreRegistered, RestoreTree, Goto, Advance
      <4> QED
        BY <4>1 DEF Rebuilding
    <3> QED
      BY <1>1, <2>1, <3>1 DEF Rebuilding
  <2>4. UNCHANGED reg
    BY <2>1, RestoreFrame
  <2> QED
    BY <1>2, <1>5, <1>6, <2>3, <2>4, StopKept
<1>8. CASE ~(Undisturbed /\ ~final)
  BY <1>2, <1>5, <1>6, <1>8 DEF LiveStopInv, Undisturbed
<1> QED
  BY <1>7, <1>8

LEMMA BeginStop ==
  ASSUME Typing, OwnTyping, LiveStopInv, MergeTarget \/ Undo
  PROVE  LiveStopInv'
<1>1. /\ UNCHANGED <<stop, final, reg, power, landed, outside>> /\ job'.canRollback = job.canRollback
  BY BeginFrame DEF WorkFrame, JobKept
<1>2. CASE pc = "finish" /\ pc' = "merge.list" /\ merge'.for = "move"
  <2>1. PurposeInv'
    BY <1>2, PlacesApart DEF PurposeInv, MergeLabels
  <2>2. pc \in PastStop
    BY <1>2 DEF PastStop, SwitchLabels, Landings
  <2> QED
    BY <1>1, <2>1, <2>2, StopPast
<1>3. CASE pc' \in {"failing", "restore.check"} /\ UNCHANGED merge
  <2>1. PurposeInv' /\ pc' \notin PastStop \cup Rebuilding
    BY <1>3, PlacesApart DEF PurposeInv
  <2> QED
    BY <1>1, <1>3, <2>1, StopKept
<1> QED
  BY <1>2, <1>3, BeginFrame DEF Goes

LEMMA VerdictStop ==
  ASSUME Typing, OwnTyping, LiveStopInv, VerifyDelta \/ RestoreFinish
  PROVE  LiveStopInv'
<1> USE DEF Goes
<1>1. CASE VerifyDelta
  <2>1. /\ pc = "verify.all" /\ pc' \in {"failing", "verify.all", "commit.check", "copy.register"}
        /\ UNCHANGED <<stop, final>>
    BY <1>1, VerifyFrame
  <2>2. PurposeInv' /\ pc \in PastStop
    BY <2>1 DEF PurposeInv, PastStop, MergeLabels, CopyLabels, Rebuilding, Cutover
  <2> QED
    BY <2>1, <2>2, StopPast
<1>2. CASE RestoreFinish
  <2>1. /\ UNCHANGED <<reg, power, landed, outside, stop, final, merge>> /\ pc' \in {"failing", "ended"}
        /\ job'.canRollback => job.canRollback
    BY <1>2, RestoreFinishFrame DEF stepVars
  <2>2. PurposeInv' /\ pc' \notin PastStop \cup Rebuilding
    BY <2>1, PlacesApart DEF PurposeInv
  <2> QED
    BY <2>1, <2>2, StopKept
<1> QED
  BY <1>1, <1>2

(* The shared steps change nothing of the job but its phase.               *)
LEMMA SharedPhase ==
  ASSUME Typing, JobSide \/ CloneStart \/ ClonePoll
  PROVE  /\ job'.canRollback = job.canRollback /\ job'.verified = job.verified
         /\ job'.complete = job.complete
<1>1. UNCHANGED job \/ \E p \in Phases : Phase(p)
  <2> USE DEF Phases
  <2>1. CASE SharedSteps
    BY <2>1 DEF SharedSteps, Run, Acquire, CreateTarget, CopyConfig, DiskVerify
  <2>2. CASE Shutdown \/ ShutdownDeadline
    BY <2>2 DEF Shutdown, ShutdownBegin, ShutdownRequest, ShutdownPoll, ShutdownReceive, ShutdownForce,
       ShutdownDeadline
  <2>3. CASE CloneStart \/ ClonePoll \/ CloneStop \/ CloneGivesUp
    BY <2>3 DEF CloneStart, ClonePoll, CloneExits, CloneRuns, CloneStop, CloneGivesUp
  <2> QED
    BY <2>1, <2>2, <2>3 DEF JobSide
<1> QED
  BY <1>1 DEF Phase, Typing, SwitchTypeOK, Jobs

LEMMA JobSideStop ==
  ASSUME Typing, OwnTyping, LiveStopInv, JobSide
  PROVE  LiveStopInv'
<1> USE DEF Goto, Advance
<1>1. UNCHANGED <<stop, final, reg, landed, outside, merge>>
  BY JobSidePlaces DEF liveOwn
<1>2. job'.canRollback = job.canRollback
  BY SharedPhase
<1>3. CASE Shutdown \/ ShutdownDeadline \/ CopyConfig
  <2>1. /\ pc \in Cutover
        /\ pc' \in {"shutdown.done", "shutdown.request", "failing", "shutdown.poll", "stopped",
                    "shutdown.revalidate", "shutdown.await", "verify.all"}
    BY <1>3 DEF Shutdown, ShutdownBegin, ShutdownRequest, ShutdownPoll, ShutdownReceive, ShutdownForce,
       ShutdownDeadline, CopyConfig, Cutover
  <2>2. PurposeInv'
    BY <2>1 DEF PurposeInv, MergeLabels, CopyLabels, Rebuilding
  <2> QED
    BY <1>1, <2>1, <2>2, StopPast DEF PastStop
<1>4. CASE Run \/ Acquire \/ CreateTarget \/ DiskVerify \/ CloneStop \/ CloneGivesUp
  <2>1. pc' \in {"failing"} \cup Before \cup OnBase
    BY <1>4 DEF Run, Acquire, CreateTarget, DiskVerify, NextDisk, CloneStop, CloneGivesUp, Before, OnBase,
       Watching
  <2>2. PurposeInv' /\ pc' \notin PastStop \cup Rebuilding
    BY <2>1, PlacesApart DEF PurposeInv
  <2>3. UNCHANGED power
    BY <1>4 DEF Run, Acquire, CreateTarget, DiskVerify, CloneStop, CloneGivesUp, Query, hostVars, inventory
  <2> QED
    BY <1>1, <1>2, <2>2, <2>3, StopKept
<1> QED
  BY <1>3, <1>4 DEF JobSide, SharedSteps

LEMMA CloneSideStop ==
  ASSUME Typing, OwnTyping, LiveStopInv, CloneSide
  PROVE  LiveStopInv'
<1>1. CloneStart \/ ClonePoll
  BY CloneSideFrame
<1>2. UNCHANGED <<stop, final, reg, power, landed, outside, merge>> /\ job'.canRollback = job.canRollback
  BY <1>1, CloneSideFrame, SharedPhase DEF CloneStart, ClonePoll, Query, hostVars, inventory, control
<1>3. pc' \in {"failing", "stopped"} \cup OnBase
  BY <1>1 DEF CloneStart, ClonePoll, CloneExits, CloneRuns, Watch, Goto, OnBase, Watching
<1>4. PurposeInv' /\ pc' \notin PastStop \cup Rebuilding
  BY <1>3, PlacesApart DEF PurposeInv
<1> QED
  BY <1>2, <1>4, StopKept

LEMMA SwitchSideStop ==
  ASSUME Typing, OwnTyping, LiveStopInv, SwitchSide
  PROVE  LiveStopInv'
<1>1. /\ SwitchShape /\ pc \in SwitchLabels /\ pc' \in SwitchLabels /\ UNCHANGED <<stop, final, merge>>
  BY Shaped, SwitchStepTyped DEF Typing, SwitchSide, stepVars
<1>2. PurposeInv' /\ pc' \notin Rebuilding
  BY <1>1, PlacesApart DEF PurposeInv
<1>3. CASE pc \notin Landings
  BY <1>1, <1>2, <1>3, StopPast DEF PastStop
<1>4. CASE pc = "ended"
  BY <1>1, <1>2, <1>4 DEF SwitchShape, LiveStopInv
<1>5. CASE pc = "failing"
  <2>1. UNCHANGED <<landed, outside, reg>> /\ power'["source"] = power["source"] /\ pc' = "ended"
        /\ (job'.canRollback => job.canRollback)
    BY <1>1, <1>5 DEF SwitchShape
  <2> QED
    BY <1>1, <1>2, <2>1, StopKept, PlacesApart
<1> QED
  BY <1>3, <1>4, <1>5 DEF Landings

LEMMA AsideStop ==
  ASSUME Typing, OwnTyping, LiveStopInv, Aside
  PROVE  LiveStopInv'
<1>1. UNCHANGED <<job, pc, merge>> /\ PurposeInv'
  BY OperatorTyped, GuestTyped, WorkerTyped DEF Aside, liveOwn, switchVars, LiveStopInv, PurposeInv
<1>2. CASE Operator
  <2>1. UNCHANGED <<reg, power, landed, outside, final>>
    BY <1>2, OperatorTyped DEF hostVars, inventory
  <2>2. stop' => stop \/ ~final
    BY <1>2 DEF Operator, RequestStop, StopAccepted, ControlChecks, ControlSends
  <2> QED
    BY <1>1, <2>1, <2>2 DEF LiveStopInv, Undisturbed
<1>3. CASE GuestStops
  <2>1. UNCHANGED <<stop, final>>
    BY <1>3, GuestTyped DEF stepVars
  <2>2. pc \in PastStop
    BY <1>3 DEF GuestStops, PastStop, Cutover
  <2> QED
    BY <1>1, <2>1, <2>2, StopPast
<1>4. CASE Worker
  <2>1. UNCHANGED <<reg, power, landed, outside, stop, final>>
    BY <1>4, WorkerTyped DEF hostVars, inventory, control
  <2> QED
    BY <1>1, <2>1, StopKept
<1> QED
  BY <1>2, <1>3, <1>4 DEF Aside

LEMMA LiveNextStop == LiveTypeOK /\ LiveStopInv /\ [LiveNext]_liveVars => LiveStopInv'
<1> SUFFICES ASSUME LiveTypeOK, LiveStopInv, [LiveNext]_liveVars
             PROVE  LiveStopInv'
  OBVIOUS
<1>0. Typing /\ OwnTyping
  BY LiveTypes
<1>1. CASE WorkSteps
  <2>1. CASE CreateSnapshot
    <3>1. /\ pc' \in {"deltas", "failing"} /\ UNCHANGED <<reg, power, final, job, merge, stop, landed, outside>>
      BY <1>0, <2>1, CreateFrame DEF WorkFrame, Goes
    <3>2. PurposeInv' /\ pc' \notin PastStop \cup Rebuilding
      BY <3>1, PlacesApart DEF PurposeInv, OnBase
    <3> QED
      BY <3>1, <3>2, StopKept
  <2>2. CASE Deltas
    <3>1. /\ pc \in Cutover /\ pc' \in {"failing"} \cup Cutover /\ UNCHANGED <<final, stop>>
      BY <1>0, <2>2, DeltasFrame DEF WorkFrame, DeltasGo, Goes, Cutover
    <3>2. PurposeInv'
      BY <3>1, PlacesApart DEF PurposeInv
    <3> QED
      BY <3>1, <3>2, StopPast DEF PastStop
  <2> QED
    BY <1>0, <1>1, <2>1, <2>2, ChecksStop, MergeStop, MergeCopyStop, RestoreStop, BeginStop DEF WorkSteps
<1>2. CASE VerifyDelta \/ RestoreFinish
  BY <1>0, <1>2, VerdictStop
<1>3. CASE JobSide \/ CloneSide \/ SwitchSide \/ Aside
  BY <1>0, <1>3, JobSideStop, CloneSideStop, SwitchSideStop, AsideStop
<1>4. CASE LiveDisturb \/ SnapshotSide
  <2>1. UNCHANGED <<stop, final, job, pc, merge>> /\ ~Undisturbed'
    BY <1>0, <1>4, DisturbFrame, SnapshotSideFrame DEF switchVars, control
  <2> QED
    BY <2>1 DEF LiveStopInv, PurposeInv
<1>5. CASE UNCHANGED liveVars
  <2>1. UNCHANGED <<stop, final, job, pc, merge, reg, power, landed, outside>>
    BY <1>5 DEF liveVars, vars, hostVars, inventory, switchVars, stepVars, liveOwn
  <2> QED
    BY <2>1 DEF LiveStopInv, PurposeInv, Undisturbed
<1> QED
  BY <1>1, <1>2, <1>3, <1>4, <1>5, LiveCases

(* An accepted stop leaves the source registered and running, for every    *)
(* set of faults, whatever the clone and the restore do: see               *)
(* StopKeepsRunning.                                                       *)
THEOREM StopLeavesRunning == LiveSpec => []StopKeepsRunning
<1>1. LiveStopInv => StopKeepsRunning
  BY DEF LiveStopInv, StopKeepsRunning
<1> QED
  BY <1>1, LiveTyped, LiveInitStop, LiveNextStop, PTL DEF LiveSpec

(***************************************************************************)
(* What a job that says "rolled_back" has seen: the registrations before   *)
(* the snapshot, the snapshot's merge, and then the lock's archive.        *)
(***************************************************************************)
Restoring ==
    \/ pc \in {"restore.tree", "restore.finish"}
    \/ pc \in MergeLabels /\ merge.for = "restore"

RestoredInv ==
    /\ merge.for = "restore" => merge.vm = "source"
    /\ undo = "done" => pc = "ended" /\ job.phase = "rolled_back" /\ ~job.canRollback
    /\ Undisturbed =>
         /\ Restoring \/ undo = "done" => Restored
         /\ pc = "restore.finish" \/ undo = "done" => tree["source"] = {}
         /\ undo = "done" => lock = "archived"

LEMMA LiveInitRestored == LiveInit => RestoredInv
  BY DEF LiveInit, RestoredInv, Restoring, MergeLabels

(* A step of the engine that leads to no place of a restore.               *)
LEMMA RestoredElsewhere ==
  ASSUME RestoredInv, pc # "ended", undo' \in {undo, "none", "due", "begun"},
         merge'.for = "restore" => merge'.vm = "source", ~Restoring'
  PROVE  RestoredInv'
  BY DEF RestoredInv, Restoring

LEMMA RestoredSame ==
  ASSUME RestoredInv, UNCHANGED <<pc, undo, merge, job>>,
         Undisturbed' => Undisturbed /\ UNCHANGED <<reg, lock, tree>>
  PROVE  RestoredInv'
  BY DEF RestoredInv, Restoring, Restored, Registered

(* Steps that leave the merge alone and get to no place of a restore.      *)
Unrelated == {"failing", "ended", "stopped", "restore.check"} \cup Before \cup OnBase \cup Cutover
             \cup CopyLabels \cup SwitchLabels

LEMMA UnrelatedPlace == pc' \in Unrelated => ~Restoring'
  BY DEF Unrelated, Restoring, MergeLabels, Before, OnBase, Watching, Cutover, CopyLabels, SwitchLabels,
         RollbackLabels

LEMMA MergeRestored ==
  ASSUME Typing, OwnTyping, LiveStopInv, RestoredInv, Merge
  PROVE  RestoredInv'
<1>1. /\ WorkFrame /\ UNCHANGED <<reg, job, undo, merge>> /\ pc \in MergeLabels
      /\ pc' \in {"finish", "failing", "merge.remove", "merge.check", "copy.unregister", "restore.finish"}
  BY MergeFrame DEF MergeGo, Goes, MergeLabels
<1>2. undo # "done"
  BY <1>1 DEF RestoredInv, MergeLabels
<1>3. Restoring' => Restoring
  BY <1>1, MergeEnds DEF Restoring, MergeLabels
<1>4. pc' = "restore.finish" => merge.for = "restore" /\ tree'["source"] = {}
  <2>1. ASSUME pc' = "restore.finish"
        PROVE  merge.for = "restore" /\ tree'[merge.vm] = {}
    <3>1. pc = "merge.check" /\ merge.for = "restore"
      BY <2>1, MergeFrame, MergeEnds DEF MergeGo, Goes
    <3>2. MergeCheck /\ ~MergeFails
      BY <2>1, <3>1 DEF Merge, MergeList, MergeRemove, MergeFails, Goto
    <3>3. tree[merge.vm] = {} /\ UNCHANGED tree
      BY <3>2 DEF MergeCheck, snapshots
    <3> QED
      BY <3>1, <3>3
  <2> QED
    BY <2>1 DEF RestoredInv
<1>5. Undisturbed' => Undisturbed
  BY <1>1 DEF WorkFrame, Undisturbed
<1>6. Restored' <=> Restored
  BY <1>1 DEF Restored, Registered
<1> QED
  BY <1>1, <1>2, <1>3, <1>4, <1>5, <1>6 DEF RestoredInv

LEMMA MergeCopyRestored ==
  ASSUME Typing, OwnTyping, LiveStopInv, RestoredInv, MergeCopy
  PROVE  RestoredInv'
<1> USE DEF CopyLabels, Goes
<1>1. /\ pc \in CopyLabels /\ pc' \in CopyLabels \cup {"failing", "merge.list"} /\ UNCHANGED undo
      /\ pc' = "merge.list" => pc # "copy.register"
  BY MergeCopyFrame DEF MergeCopyGo
<1>2. merge.for \in Purposes /\ merge \in [for : Purposes, vm : VMs, id : Nat]
  BY DEF OwnTyping
<1>3. merge'.for = "restore" => merge.for = "restore" /\ merge'.vm = merge.vm
  BY <1>2, MergeCopyFrame
<1>4. pc # "copy.register" => merge.for = "copy"
  BY <1>1 DEF LiveStopInv, PurposeInv
<1>5. ~Restoring'
  BY <1>1, <1>3, <1>4 DEF Restoring, MergeLabels
<1> QED
  BY <1>1, <1>3, <1>5, RestoredElsewhere DEF RestoredInv

LEMMA RestoreRestored ==
  ASSUME Typing, OwnTyping, LiveStopInv, RestoredInv, RestoreWork
  PROVE  RestoredInv'
<1> USE DEF Goto, Advance
<1>1. /\ WorkFrame /\ UNCHANGED <<tree, undo>> /\ pc # "ended"
      /\ UNCHANGED reg \/ pc \in {"restore.unregister", "restore.register"}
      /\ UNCHANGED merge \/ (merge'.for = "restore" /\ merge'.vm = "source")
  BY RestoreFrame DEF RestoreGo, Goes
<1>2. undo # "done" /\ pc' # "restore.finish"
  BY <1>1, RestoreFrame DEF RestoredInv, RestoreGo, Goes
<1>3. reg["source"] \in Nat /\ reg["target"] \in Nat /\ reg \in [VMs -> Nat]
  BY DEF Typing, HostTypeOK
<1>4. Undisturbed /\ Restoring' => Restored'
  <2> SUFFICES ASSUME Undisturbed, Restoring'
               PROVE  Restored'
    OBVIOUS
  <2>1. \/ pc = "restore.tree" \/ pc' = "restore.tree"
    BY RestoreFrame DEF RestoreGo, Goes, Restoring, MergeLabels
  <2>2. CASE pc = "restore.tree"
    BY <1>1, <2>2 DEF RestoredInv, Restoring, Restored, Registered
  <2>3. CASE pc # "restore.tree"
    <3>1. pc \in {"restore.check", "restore.unregistered", "restore.registered"} /\ UNCHANGED reg
      BY <1>1, <2>1, <2>3, RestoreFrame DEF RestoreGo, Goes
    <3>2. CASE pc = "restore.check"
      <4>1. ~Registered("target") /\ reg # Nobody
        BY <2>1, <2>3, <3>2 DEF RestoreWork, RestoreCheck, RestoreOff, RestoreUnregister,
           RestoreUnregistered, RestoreRegister, RestoreRegistered, RestoreTree
      <4>2. Registered("source")
        BY <1>3, <4>1 DEF Registered, Nobody
      <4> QED
        BY <3>1, <4>1, <4>2 DEF Restored, Registered
    <3>3. CASE pc \in {"restore.unregistered", "restore.registered"}
      <4>1. ~Registered("target") /\ Registered("source")
        BY <2>1, <2>3, <3>3 DEF RestoreWork, RestoreCheck, RestoreOff, RestoreUnregister,
           RestoreUnregistered, RestoreRegister, RestoreRegistered, RestoreTree, Restored
      <4> QED
        BY <3>1, <4>1 DEF Restored, Registered
    <3> QED
      BY <3>1, <3>2, <3>3
  <2> QED
    BY <2>2, <2>3
<1>5. Undisturbed' => Undisturbed
  BY <1>1 DEF WorkFrame, Undisturbed
<1> QED
  BY <1>1, <1>2, <1>4, <1>5 DEF RestoredInv

LEMMA RestoreFinishRestored ==
  ASSUME Typing, OwnTyping, RestoredInv, RestoreFinish
  PROVE  RestoredInv'
<1>1. /\ UNCHANGED <<reg, landed, outside, tree, merge>> /\ pc = "restore.finish"
      /\ \/ /\ pc' = "ended" /\ undo' = "done" /\ lock' = "archived" /\ job'.phase = "rolled_back"
            /\ ~job'.canRollback
         \/ pc' = "failing" /\ UNCHANGED undo
  BY RestoreFinishFrame DEF Goes, snapshots
<1>2. ~Restoring' /\ undo # "done" /\ Restoring
  BY <1>1 DEF Restoring, MergeLabels, RestoredInv
<1> QED
  BY <1>1, <1>2 DEF RestoredInv, Undisturbed, Restored, Registered

LEMMA WorkRestored ==
  ASSUME Typing, OwnTyping, LiveStopInv, RestoredInv, WorkSteps \/ VerifyDelta
  PROVE  RestoredInv'
<1> USE DEF Goes
<1>1. CASE Checks
  <2>1. /\ pc # "ended" /\ UNCHANGED <<undo, merge>>
        /\ pc' \in {"failing", "stopped"} \cup Before \cup OnBase \cup Cutover
    BY <1>1, ChecksFrame DEF ChecksGo, liveOwn, Before, OnBase, Cutover
  <2> QED
    BY <2>1, UnrelatedPlace, RestoredElsewhere DEF Unrelated, RestoredInv
<1>2. CASE CreateSnapshot
  <2>1. pc = "snapshot" /\ pc' \in {"failing"} \cup OnBase /\ undo' = "due" /\ UNCHANGED merge
    BY <1>2, CreateFrame DEF CreateSnapshot, OnBase
  <2> QED
    BY <2>1, UnrelatedPlace, RestoredElsewhere DEF Unrelated, RestoredInv
<1>3. CASE Deltas
  <2>1. pc # "ended" /\ pc' \in {"failing"} \cup Cutover /\ UNCHANGED <<undo, merge>>
    BY <1>3, DeltasFrame DEF DeltasGo, Cutover
  <2> QED
    BY <2>1, UnrelatedPlace, RestoredElsewhere DEF Unrelated, RestoredInv
<1>4. CASE MergeTarget \/ Undo
  <2>1. /\ pc # "ended" /\ undo' \in {undo, "begun"}
        /\ \/ merge'.for = "move" /\ pc' = "merge.list"
           \/ UNCHANGED merge /\ pc' \in {"failing", "restore.check"}
    BY <1>4, BeginFrame DEF Unfinished
  <2>2. ~Restoring'
    BY <2>1 DEF Restoring, MergeLabels
  <2> QED
    BY <2>1, <2>2, RestoredElsewhere DEF RestoredInv
<1>5. CASE VerifyDelta
  <2>1. pc # "ended" /\ pc' \in {"failing"} \cup Cutover \cup CopyLabels \cup SwitchLabels /\ UNCHANGED <<undo, merge>>
    BY <1>5, VerifyFrame DEF Cutover, CopyLabels, SwitchLabels, liveOwn
  <2> QED
    BY <2>1, UnrelatedPlace, RestoredElsewhere DEF Unrelated, RestoredInv
<1> QED
  BY <1>1, <1>2, <1>3, <1>4, <1>5, MergeRestored, MergeCopyRestored, RestoreRestored DEF WorkSteps

LEMMA JobSideUnrelated ==
  ASSUME Typing, JobSide
  PROVE  pc # "ended" /\ pc' \in Unrelated
<1> USE DEF Goto, Advance
<1>1. CASE SharedSteps
  BY <1>1 DEF SharedSteps, Run, Acquire, CreateTarget, CopyConfig, DiskVerify, NextDisk, Unrelated, Before,
              OnBase, Cutover
<1>2. CASE Shutdown \/ ShutdownDeadline
  BY <1>2 DEF Shutdown, ShutdownBegin, ShutdownRequest, ShutdownPoll, ShutdownReceive, ShutdownForce,
              ShutdownDeadline, Unrelated, Cutover
<1>3. CASE CloneStop \/ CloneGivesUp
  BY <1>3 DEF CloneStop, CloneGivesUp, Unrelated, OnBase, Watching
<1> QED
  BY <1>1, <1>2, <1>3 DEF JobSide

LEMMA LiveNextRestored ==
  LiveTypeOK /\ LiveStopInv /\ RestoredInv /\ [LiveNext]_liveVars => RestoredInv'
<1> SUFFICES ASSUME LiveTypeOK, LiveStopInv, RestoredInv, [LiveNext]_liveVars
             PROVE  RestoredInv'
  OBVIOUS
<1>0. Typing /\ OwnTyping
  BY LiveTypes
<1>1. CASE WorkSteps \/ VerifyDelta \/ RestoreFinish
  BY <1>0, <1>1, WorkRestored, RestoreFinishRestored
<1>2. CASE JobSide
  BY <1>0, <1>2, JobSideUnrelated, UnrelatedPlace, RestoredElsewhere DEF JobSide, liveOwn, RestoredInv
<1>3. CASE CloneSide
  <2>1. /\ pc # "ended" /\ pc' \in {"failing", "stopped"} \cup OnBase /\ UNCHANGED <<undo, merge>>
    BY <1>0, <1>3, CloneSideFrame
    DEF CloneStart, ClonePoll, CloneExits, CloneRuns, Watch, Goto, OnBase, Watching
  <2> QED
    BY <2>1, UnrelatedPlace, RestoredElsewhere DEF Unrelated, RestoredInv
<1>4. CASE SwitchSide
  <2>1. /\ SwitchShape /\ pc' \in SwitchLabels /\ UNCHANGED merge /\ undo' \in {undo, "none"}
    BY <1>0, <1>4, Shaped, SwitchStepTyped DEF Typing, SwitchSide, UndoAfter
  <2>2. undo # "done"
    BY <2>1 DEF SwitchShape, RestoredInv
  <2>3. ~Restoring'
    BY <2>1, UnrelatedPlace DEF Unrelated
  <2> QED
    BY <2>1, <2>2, <2>3 DEF RestoredInv, Restoring
<1>5. CASE Aside
  <2>1. UNCHANGED <<pc, undo, merge, job, reg, lock, tree, landed, outside>>
    BY <1>0, <1>5, OperatorTyped, GuestTyped, WorkerTyped DEF Aside, liveOwn, switchVars, hostVars, inventory
  <2> QED
    BY <2>1, RestoredSame DEF Undisturbed
<1>6. CASE LiveDisturb \/ SnapshotSide
  <2>1. UNCHANGED <<pc, undo, merge, job>> /\ ~Undisturbed'
    BY <1>0, <1>6, DisturbFrame, SnapshotSideFrame DEF switchVars
  <2> QED
    BY <2>1, RestoredSame
<1>7. CASE UNCHANGED liveVars
  BY <1>7, RestoredSame DEF liveVars, vars, hostVars, inventory, switchVars, liveOwn, Undisturbed
<1> QED
  BY <1>1, <1>2, <1>3, <1>4, <1>5, <1>6, <1>7, LiveCases

(* A job that says the source is registered as before, without the         *)
(* temporary snapshot, tells the truth: see RestoredIsRestored.            *)
THEOREM RestoreIsHonest == LiveSpec => []RestoredIsRestored
<1>1. LiveTypeOK /\ LiveCloneInv /\ RestoredInv => RestoredIsRestored
  <2> SUFFICES ASSUME LiveCloneInv, RestoredInv, undo = "done", Undisturbed
               PROVE  /\ Restored /\ tree["source"] = {} /\ lock = "archived" /\ NoneActive
    BY DEF RestoredIsRestored, Restored
  <2>1. NoneActive
    BY DEF LiveCloneInv, CloneInv, RestoredInv, NoneActive, Watching
  <2> QED
    BY <2>1 DEF RestoredInv
<1> QED
  BY <1>1, LiveTyped, LiveInitClones, LiveNextClones, LiveInitStop, LiveNextStop, LiveInitRestored,
     LiveNextRestored, PTL DEF LiveSpec

(***************************************************************************)
(* The target.  A clone that has ended holds the base as of the snapshot   *)
(* unless the base changed, and the cutover begins with every clone ended  *)
(* and an unchanged base.  A delta holds one session as long as no later   *)
(* one began since its descriptor was copied; verifyDelta finds every      *)
(* descriptor current when it looks, and none is copied while it does.     *)
(***************************************************************************)
Main == Before \cup OnBase \cup Cutover

Done(d) == worker[d] = "done"
BaseCopied == \A d \in Disks : Done(d) /\ copied[d] = "snapshot of the source"

(* Which disk the engine is at.                                            *)
DiskInv ==
    /\ pc \in OnBase \ {"deltas", "folder"} => \A d \in Disks : d < disk => Done(d)
    /\ pc = "all.guard" => \A d \in Disks : Done(d)
    /\ pc \in {"deltas", "folder", "metadata.copy", "config"} \cup Before => disk = 1

BaseInv ==
    /\ \A d \in Disks : Done(d) => copied[d] = "snapshot of the source" \/ changed
    /\ pc \in Cutover \/ job.verified => BaseCopied
    /\ pc \in Main => ~job.verified

Whole(d) == extent[d] = header[d] \/ header[d] < session
Latest(d) == extent[d] = header[d] /\ header[d] >= 1 /\ \A e \in Disks : header[e] <= header[d]

DeltaInv ==
    /\ session >= 1
    /\ pc \in Main => \A d \in Disks : Whole(d) \/ (pc = "delta.extent" /\ d = disk)
    /\ pc = "verify.all" => \A d \in Disks : d < disk => Latest(d)
    /\ job.verified => \E n \in 1..session : \A d \in Disks : extent[d] = n

LiveFaithInv == DiskInv /\ BaseInv /\ DeltaInv

LEMMA LiveInitFaith == LiveInit => LiveFaithInv
<1> SUFFICES ASSUME LiveInit
             PROVE  LiveFaithInv
  OBVIOUS
<1>1. ~job.verified /\ pc = "queued" /\ disk = 1 /\ session = 1
  BY DEF LiveInit, NewJob, StepsInit
<1>2. \A d \in Disks : ~Done(d) /\ extent[d] = header[d]
  BY DEF LiveInit, StepsInit, Done
<1>3. pc \notin OnBase /\ pc \notin Cutover
  BY <1>1 DEF OnBase, Watching, Cutover
<1>4. DiskInv /\ BaseInv
  BY <1>1, <1>2, <1>3 DEF DiskInv, BaseInv
<1>5. DeltaInv
  BY <1>1, <1>2 DEF DeltaInv, Whole
<1> QED
  BY <1>4, <1>5 DEF LiveFaithInv

(* A clone that has ended stays as it is, and one that ends is a copy      *)
(* unless the base changed.                                                *)
DonesKept ==
    /\ \A d \in Disks : Done(d) => worker'[d] = "done" /\ copied'[d] = copied[d]
    /\ \A d \in Disks : worker'[d] = "done" => Done(d) \/ copied'[d] = "snapshot of the source" \/ changed'
    /\ changed => changed'

LEMMA LiveDones ==
  ASSUME Typing, OwnTyping, LiveNext
  PROVE  DonesKept
<1>1. disk \in Disks /\ worker \in [Disks -> WorkerStates] /\ DOMAIN copied = Disks
  BY DEF Typing, StepsTypeOK
<1>2. UNCHANGED clones /\ (changed => changed') => DonesKept
  BY DEF DonesKept, Done, clones
<1>3. CASE WorkSteps
  <2>1. UNCHANGED clones
    BY <1>3, WorkTyped DEF WorkFrame, clones
  <2>2. changed => changed'
    BY <1>3, ChecksFrame, CreateFrame, DeltasFrame, MergeFrame, MergeCopyFrame, RestoreFrame, BeginFrame
    DEF WorkSteps
  <2> QED
    BY <1>2, <2>1, <2>2
<1>4. CASE VerifyDelta \/ RestoreFinish
  BY <1>2, <1>4, VerifyFrame, RestoreFinishFrame DEF stepVars, clones
<1>5. CASE JobSide
  <2>1. UNCHANGED <<changed, copied>>
    BY <1>5, JobSidePlaces
  <2>2. CASE SharedSteps \/ Shutdown \/ ShutdownDeadline \/ CloneGivesUp
    BY <1>2, <2>1, <2>2
    DEF SharedSteps, Run, Acquire, CreateTarget, CopyConfig, DiskVerify, Shutdown, ShutdownBegin,
        ShutdownRequest, ShutdownPoll, ShutdownReceive, ShutdownForce, ShutdownDeadline, CloneGivesUp,
        stepVars, clones
  <2>3. CASE CloneStop
    <3>1. UNCHANGED worker \/ (worker[disk] \in {"cloning", "killed"} /\ worker' = [worker EXCEPT ![disk] = "killed"])
      BY <2>3 DEF CloneStop, WorkerBecomes
    <3> QED
      BY <1>1, <2>1, <3>1 DEF DonesKept, Done
  <2> QED
    BY <1>5, <2>2, <2>3 DEF JobSide
<1>6. CASE CloneSide
  <2>1. CASE CloneStart
    BY <1>1, <2>1 DEF CloneStart, WorkerBecomes, DonesKept, Done
  <2>2. CASE ClonePoll
    BY <1>2, <2>2 DEF ClonePoll
  <2> QED
    BY <1>6, <2>1, <2>2, CloneSideFrame
<1>7. CASE SwitchSide
  BY <1>2, <1>7 DEF SwitchSide, stepVars, clones
<1>8. CASE Aside
  <2>1. CASE Worker
    <3>1. PICK d \in Disks : WorkerLaunches(d) \/ WorkerChecksPower(d) \/ WorkerEnds(d) \/ WorkerDies(d)
      BY <2>1 DEF Worker
    <3>2. Torn => changed
      BY LiveAssumption DEF Torn
    <3>3. UNCHANGED changed
      BY <2>1 DEF Worker
    <3> QED
      BY <1>1, <3>1, <3>2, <3>3
      DEF WorkerLaunches, WorkerChecksPower, WorkerEnds, WorkerDies, WorkerBecomes, DonesKept, Done
  <2>2. CASE Operator \/ GuestStops
    BY <1>2, <2>2, OperatorTyped, GuestTyped DEF stepVars, clones
  <2> QED
    BY <1>8, <2>1, <2>2 DEF Aside
<1>9. CASE LiveDisturb \/ SnapshotSide
  BY <1>2, <1>9, DisturbFrame, SnapshotSideFrame
<1> QED
  BY <1>3, <1>4, <1>5, <1>6, <1>7, <1>8, <1>9, LiveCases

LEMMA BaseKept ==
  ASSUME BaseInv, DonesKept, job'.verified => job.verified,
         pc' \in Main => pc \in Main, pc' \in Cutover => pc \in Cutover \/ BaseCopied
  PROVE  BaseInv'
<1>1. BaseCopied => BaseCopied'
  BY DEF DonesKept, BaseCopied, Done
<1>2. \A d \in Disks : worker'[d] = "done" => copied'[d] = "snapshot of the source" \/ changed'
  BY DEF BaseInv, DonesKept
<1> QED
  BY <1>1, <1>2 DEF BaseInv, Done

(* Steps away from the disks, and steps of others: somebody who starts the *)
(* source makes every delta old.                                           *)
LEMMA FaithAway ==
  ASSUME LiveFaithInv, DonesKept, job'.verified => job.verified, pc' \notin Main, UNCHANGED <<extent, session>>
  PROVE  LiveFaithInv'
<1>1. BaseInv'
  BY BaseKept DEF LiveFaithInv, Main
<1>2. DiskInv'
  BY DEF DiskInv, Main, Cutover, OnBase
<1>3. DeltaInv'
  <2>1. "verify.all" \in Main
    BY DEF Main, Cutover
  <2> QED
    BY <2>1 DEF LiveFaithInv, DeltaInv
<1> QED
  BY <1>1, <1>2, <1>3 DEF LiveFaithInv

LEMMA FaithSame ==
  ASSUME OwnTyping, LiveFaithInv, DonesKept, UNCHANGED <<pc, disk, header, extent>>,
         job'.verified = job.verified, session' \in Nat, session' >= session
  PROVE  LiveFaithInv'
<1>1. BaseInv'
  BY BaseKept DEF LiveFaithInv, BaseInv
<1>2. DiskInv'
  BY DEF LiveFaithInv, DiskInv, DonesKept, Done
<1>3. session \in Nat /\ \A d \in Disks : header[d] \in Nat /\ extent[d] \in Nat
  BY DEF OwnTyping
<1>4. \A d \in Disks : Whole(d) => Whole(d)'
  BY <1>3 DEF Whole
<1>5. \A n \in 1..session : n \in 1..session'
  BY <1>3
<1>6. \A d \in Disks : Latest(d) => Latest(d)'
  BY DEF Latest
<1>7. session' >= 1
  BY <1>3 DEF LiveFaithInv, DeltaInv
<1>8. DeltaInv'
  BY <1>4, <1>5, <1>6, <1>7 DEF LiveFaithInv, DeltaInv
<1> QED
  BY <1>1, <1>2, <1>8 DEF LiveFaithInv

(* A step between the disks that copies no delta.                          *)
LEMMA DeltaKept ==
  ASSUME DeltaInv, UNCHANGED <<header, extent, session>>, job'.verified => job.verified,
         pc' \in Main => pc \in Main, pc # "delta.extent", pc' # "delta.extent", pc' # "verify.all"
  PROVE  DeltaInv'
<1>1. \A d \in Disks : Whole(d) => Whole(d)'
  BY DEF Whole
<1> QED
  BY <1>1 DEF DeltaInv

LEMMA ChecksFaith ==
  ASSUME Typing, OwnTyping, LiveFaithInv, DonesKept, Checks
  PROVE  LiveFaithInv'
<1> USE DEF Goes
<1>1. /\ job'.verified = job.verified /\ UNCHANGED <<worker, header, extent, session>>
      /\ pc # "all.guard" => UNCHANGED disk
  BY ChecksFrame DEF JobKept, liveOwn
<1>2. /\ pc \in Main /\ pc # "delta.extent"
      /\ pc' \in {"failing", "stopped", "acquire", "snapshot", "folder", "clone.start", "disk.verify",
                  "shutdown.begin", "shutdown.force", "metadata", "delta.descriptor"}
  BY ChecksFrame DEF ChecksGo, Main, Before, OnBase, Cutover
<1>3. CASE pc' \in {"failing", "stopped"}
  <2>1. pc' \notin Main
    BY <1>3 DEF Main, Before, OnBase, Watching, Cutover
  <2> QED
    BY <1>1, <2>1, FaithAway
<1>4. CASE pc' \notin {"failing", "stopped"}
  <2>1. pc' \in Cutover => pc \in Cutover \/ BaseCopied
    <3>1. CASE pc' = "shutdown.begin"
      <4>1. pc = "all.guard" /\ AfterClones
        BY <3>1, ChecksFrame DEF ChecksGo, Checks, LivePreflight, LivePreflightOwn, LiveDeltas, LiveDiskGuard,
           LiveDiskCloned, LiveRevalidate, CutoverGuard, Metadata, Advance
      <4>2. ~changed
        BY <3>1, <4>1 DEF AfterClones, LiveGuardOk, DeltasOk, Goto
      <4> QED
        BY <4>1, <4>2 DEF LiveFaithInv, DiskInv, BaseInv, BaseCopied
    <3>2. CASE pc' # "shutdown.begin"
      BY <1>4, <3>2, ChecksFrame DEF ChecksGo, Cutover
    <3> QED
      BY <3>1, <3>2
  <2>2. BaseInv'
    BY <1>1, <1>2, <2>1, BaseKept DEF LiveFaithInv
  <2>3. DeltaInv'
    BY <1>1, <1>2, DeltaKept DEF LiveFaithInv
  <2>4. DiskInv'
    <3>1. CASE pc' \in {"acquire", "snapshot", "folder"}
      <4>1. pc \in {"preflight", "preflight.own", "deltas"}
        BY <3>1, ChecksFrame DEF ChecksGo
      <4> QED
        BY <1>1, <3>1, <4>1 DEF LiveFaithInv, DiskInv, Before, OnBase, Watching
    <3>2. CASE pc' \in {"clone.start", "disk.verify"}
      <4>1. pc \in {"disk.guard", "clone.done"}
        BY <3>2, ChecksFrame DEF ChecksGo
      <4> QED
        BY <1>1, <3>2, <4>1 DEF LiveFaithInv, DiskInv, Before, OnBase, Watching, Done
    <3>3. CASE pc' \in {"shutdown.begin", "shutdown.force", "metadata", "delta.descriptor"}
      BY <3>3 DEF DiskInv, Before, OnBase, Watching
    <3> QED
      BY <1>2, <1>4, <3>1, <3>2, <3>3
  <2> QED
    BY <2>2, <2>3, <2>4 DEF LiveFaithInv
<1> QED
  BY <1>3, <1>4

LEMMA CreateFaith ==
  ASSUME Typing, OwnTyping, LiveFaithInv, DonesKept, CreateSnapshot
  PROVE  LiveFaithInv'
<1>1. /\ job'.verified = job.verified /\ UNCHANGED <<disk, header, extent, session>>
      /\ pc = "snapshot" /\ pc' \in {"deltas", "failing"}
  BY CreateFrame DEF WorkFrame, JobKept, Goes, deltas
<1>2. CASE pc' = "failing"
  BY <1>1, <1>2, FaithAway DEF Main, Before, OnBase, Watching, Cutover
<1>3. CASE pc' = "deltas"
  <2>1. pc \in Before /\ pc \in Main /\ pc' \notin Cutover
    BY <1>1, <1>3 DEF Main, Before, Cutover
  <2>2. BaseInv' /\ DeltaInv'
    BY <1>1, <1>3, <2>1, BaseKept, DeltaKept DEF LiveFaithInv
  <2>3. DiskInv'
    BY <1>1, <1>3, <2>1 DEF LiveFaithInv, DiskInv
  <2> QED
    BY <2>2, <2>3 DEF LiveFaithInv
<1> QED
  BY <1>1, <1>2, <1>3

LEMMA DeltasFaith ==
  ASSUME Typing, OwnTyping, LiveFaithInv, DonesKept, Deltas
  PROVE  LiveFaithInv'
<1> USE DEF Goes, Goto
<1>1. /\ job'.verified = job.verified /\ UNCHANGED session
      /\ pc \in {"delta.descriptor", "delta.extent", "metadata.copy"}
      /\ pc' \in {"failing", "delta.descriptor", "delta.extent", "metadata.copy", "config"}
  BY DeltasFrame DEF WorkFrame, JobKept, DeltasGo
<1>2. /\ session \in Nat /\ session >= 1 /\ header \in [Disks -> 0..session] /\ extent \in [Disks -> 0..session]
      /\ disk \in Disks /\ pc \in Main /\ pc \in Cutover
  BY <1>1 DEF OwnTyping, LiveFaithInv, DeltaInv, Typing, StepsTypeOK, Main, Cutover
<1>3. BaseInv'
  BY <1>1, <1>2, BaseKept DEF LiveFaithInv
<1>4. CASE pc' = "failing"
  <2>1. UNCHANGED extent
    BY <1>4 DEF Deltas, CopyDescriptor, CopyExtent, NextDelta, CopyMetadata, deltas
  <2>2. pc' \notin Main
    BY <1>4 DEF Main, Before, OnBase, Watching, Cutover
  <2> QED
    BY <1>1, <2>1, <2>2, FaithAway
<1>5. CASE CopyDescriptor /\ pc' # "failing"
  <2>1. /\ pc = "delta.descriptor" /\ pc' = "delta.extent" /\ header' = [header EXCEPT ![disk] = session]
        /\ UNCHANGED <<disk, extent>>
    BY <1>5 DEF CopyDescriptor, CopyFails, stepVars
  <2>2. \A d \in Disks : Whole(d)' \/ d = disk'
    BY <1>1, <1>2, <2>1 DEF LiveFaithInv, DeltaInv, Whole
  <2>3. DeltaInv'
    BY <1>1, <1>2, <2>1, <2>2 DEF DeltaInv, LiveFaithInv, BaseInv
  <2>4. DiskInv'
    BY <2>1 DEF DiskInv, Before, OnBase, Watching
  <2> QED
    BY <1>3, <2>3, <2>4 DEF LiveFaithInv
<1>6. CASE CopyExtent /\ pc' # "failing"
  <2>1. /\ pc = "delta.extent" /\ pc' = NextDelta /\ UNCHANGED header
        /\ extent' = [extent EXCEPT ![disk] = IF session = header[disk] THEN session ELSE 0]
        /\ disk' = IF disk < NDisks THEN disk + 1 ELSE 1
    BY <1>6 DEF CopyExtent, CopyFails
  <2>2. header[disk] \in 0..session
    BY <1>2
  <2>3. session = header[disk] \/ header[disk] < session
    BY <1>2, <2>2
  <2>4. \A d \in Disks : Whole(d)'
    BY <1>1, <1>2, <2>1, <2>3 DEF LiveFaithInv, DeltaInv, Whole
  <2>5. pc' \in {"delta.descriptor", "metadata.copy"} /\ (pc' = "metadata.copy" => disk' = 1)
    BY <2>1 DEF NextDelta
  <2>6. DeltaInv'
    BY <1>1, <1>2, <2>4, <2>5 DEF DeltaInv, LiveFaithInv, BaseInv
  <2>7. DiskInv'
    BY <2>5 DEF DiskInv, Before, OnBase, Watching
  <2> QED
    BY <1>3, <2>6, <2>7 DEF LiveFaithInv
<1>7. CASE CopyMetadata /\ pc' # "failing"
  <2>1. pc = "metadata.copy" /\ pc' = "config" /\ UNCHANGED <<header, extent, disk>>
    BY <1>7 DEF CopyMetadata, CopyFails, deltas, stepVars
  <2>2. DeltaInv'
    BY <1>1, <1>2, <2>1, DeltaKept DEF LiveFaithInv
  <2>3. DiskInv'
    BY <2>1 DEF LiveFaithInv, DiskInv, Before, OnBase, Watching
  <2> QED
    BY <1>3, <2>2, <2>3 DEF LiveFaithInv
<1> QED
  BY <1>4, <1>5, <1>6, <1>7 DEF Deltas

LEMMA VerifyFaith ==
  ASSUME Typing, OwnTyping, LiveFaithInv, DonesKept, VerifyDelta
  PROVE  LiveFaithInv'
<1> USE DEF Goes
<1>1. /\ pc = "verify.all" /\ UNCHANGED <<header, extent, session, changed, worker, copied>>
      /\ pc' \in {"failing", "verify.all", "commit.check", "copy.register"}
      /\ pc' = "verify.all" => disk' = disk + 1
      /\ pc' \in {"commit.check", "copy.register"} => disk >= NDisks
      /\ pc' # "failing" => header[disk] = session
      /\ job'.verified => job.verified \/ pc' \in {"commit.check", "copy.register"}
  BY VerifyFrame DEF liveOwn, clones, DeltaIntact
<1>2. /\ session \in Nat /\ session >= 1 /\ header \in [Disks -> 0..session] /\ extent \in [Disks -> 0..session]
      /\ disk \in Disks /\ pc \in Main /\ pc \in Cutover /\ ~job.verified
  BY <1>1 DEF OwnTyping, LiveFaithInv, DeltaInv, BaseInv, Typing, StepsTypeOK, Main, Cutover
<1>3. CASE pc' = "failing"
  BY <1>1, <1>2, <1>3, FaithAway DEF Main, Before, OnBase, Watching, Cutover
<1>4. CASE pc' # "failing"
  <2>1. BaseCopied /\ BaseCopied'
    BY <1>1, <1>2 DEF LiveFaithInv, BaseInv, BaseCopied, Done
  <2>2. BaseInv'
    <3>1. pc' \in Main => ~job'.verified
      BY <1>1, <1>2, <1>4 DEF Main, Before, OnBase, Watching, Cutover
    <3> QED
      BY <2>1, <3>1 DEF BaseInv, BaseCopied, Done
  <2>3. DiskInv'
    BY <1>1, <1>4 DEF DiskInv, Before, OnBase, Watching
  <2>4. Latest(disk)
    <3>1. Whole(disk)
      BY <1>1, <1>2 DEF LiveFaithInv, DeltaInv
    <3>2. extent[disk] = header[disk] /\ header[disk] >= 1
      BY <1>1, <1>2, <1>4, <3>1 DEF Whole
    <3>3. \A e \in Disks : header[e] <= header[disk]
      BY <1>1, <1>2, <1>4
    <3> QED
      BY <3>2, <3>3 DEF Latest
  <2>5. \A d \in Disks : d < disk => Latest(d)
    BY <1>1 DEF LiveFaithInv, DeltaInv
  <2>6. DeltaInv'
    <3>1. CASE pc' = "verify.all"
      <4>1. \A d \in Disks : d < disk' => d < disk \/ d = disk
        BY <1>1, <1>2, <3>1 DEF Disks
      <4>2. \A d \in Disks : d < disk' => Latest(d)'
        BY <1>1, <2>4, <2>5, <4>1 DEF Latest
      <4>3. \A d \in Disks : Whole(d)'
        BY <1>1, <1>2 DEF LiveFaithInv, DeltaInv, Whole
      <4> QED
        BY <1>1, <1>2, <3>1, <4>2, <4>3 DEF DeltaInv
    <3>2. CASE pc' \in {"commit.check", "copy.register"}
      <4>1. \A d \in Disks : d < disk \/ d = disk
        BY <1>1, <1>2, <3>2, StepsAssumption DEF Disks
      <4>2. \A d \in Disks : Latest(d)
        BY <2>4, <2>5, <4>1
      <4>3. \A d \in Disks : extent[d] = session
        <5>1. SUFFICES ASSUME NEW d \in Disks
                       PROVE  extent[d] = session
          OBVIOUS
        <5>2. extent[d] = header[d] /\ header[disk] <= header[d] /\ header[d] \in 0..session
          BY <1>2, <4>2 DEF Latest
        <5> QED
          BY <1>1, <1>2, <1>4, <5>2
      <4>4. \E n \in 1..session' : \A d \in Disks : extent'[d] = n
        BY <1>1, <1>2, <4>3
      <4>5. pc' \notin Main /\ pc' # "verify.all"
        BY <3>2 DEF Main, Before, OnBase, Watching, Cutover
      <4> QED
        BY <1>1, <1>2, <4>4, <4>5 DEF DeltaInv
    <3> QED
      BY <1>1, <1>4, <3>1, <3>2
  <2> QED
    BY <2>2, <2>3, <2>6 DEF LiveFaithInv
<1> QED
  BY <1>3, <1>4

LEMMA JobSideFaith ==
  ASSUME Typing, OwnTyping, LiveFaithInv, DonesKept, JobSide
  PROVE  LiveFaithInv'
<1> USE DEF Goto, Advance
<1>1. /\ job'.verified = job.verified /\ UNCHANGED <<header, extent, session>>
      /\ disk \in Disks /\ worker \in [Disks -> WorkerStates]
  BY JobSidePlaces, SharedPhase DEF liveOwn, Typing, StepsTypeOK
<1>2. ASSUME pc \in Main, pc # "delta.extent", pc' \in Cutover => pc \in Cutover, pc' # "delta.extent",
             pc' = "verify.all" => disk' = 1, DiskInv'
      PROVE  LiveFaithInv'
  <2>1. BaseInv'
    BY <1>1, <1>2, BaseKept DEF LiveFaithInv
  <2>2. DeltaInv'
    <3>1. CASE pc' # "verify.all"
      BY <1>1, <1>2, <3>1, DeltaKept DEF LiveFaithInv
    <3>2. CASE pc' = "verify.all"
      <4>1. \A d \in Disks : ~(d < disk')
        BY <1>2, <3>2 DEF Disks
      <4>2. \A d \in Disks : Whole(d)'
        BY <1>1, <1>2 DEF LiveFaithInv, DeltaInv, Whole
      <4> QED
        BY <1>1, <1>2, <4>1, <4>2 DEF LiveFaithInv, DeltaInv
    <3> QED
      BY <3>1, <3>2
  <2> QED
    BY <1>2, <2>1, <2>2 DEF LiveFaithInv
<1>3. ASSUME pc' \in {"failing", "stopped"}
      PROVE  LiveFaithInv'
  <2>1. pc' \notin Main
    BY <1>3 DEF Main, Before, OnBase, Watching, Cutover
  <2> QED
    BY <1>1, <2>1, FaithAway
<1>4. CASE Run \/ Acquire
  <2>1. pc \in {"queued", "acquire"} /\ pc' \in {"preflight", "preflight.own", "failing"} /\ UNCHANGED disk
    BY <1>4 DEF Run, Acquire, stepVars
  <2>2. CASE pc' # "failing"
    <3>1. DiskInv'
      BY <2>1, <2>2 DEF LiveFaithInv, DiskInv, Before, OnBase, Watching
    <3> QED
      BY <1>2, <2>1, <2>2, <3>1 DEF Main, Before, Cutover
  <2> QED
    BY <1>3, <2>2
<1>5. CASE CreateTarget
  <2>1. pc = "folder" /\ pc' \in {"disk.guard", "failing"} /\ UNCHANGED disk /\ disk = 1
    BY <1>5 DEF CreateTarget, LiveFaithInv, DiskInv
  <2>2. CASE pc' # "failing"
    <3>1. DiskInv'
      BY <2>1, <2>2 DEF DiskInv, Before, Disks
    <3> QED
      BY <1>2, <2>1, <2>2, <3>1 DEF Main, OnBase, Cutover
  <2> QED
    BY <1>3, <2>2
<1>6. CASE CopyConfig
  <2>1. pc = "config" /\ pc' \in {"verify.all", "failing"} /\ UNCHANGED disk /\ disk = 1
    BY <1>6 DEF CopyConfig, stepVars, LiveFaithInv, DiskInv
  <2>2. CASE pc' # "failing"
    <3>1. DiskInv'
      BY <2>1, <2>2 DEF DiskInv, Before, OnBase, Watching
    <3> QED
      BY <1>2, <2>1, <2>2, <3>1 DEF Main, Cutover
  <2> QED
    BY <1>3, <2>2
<1>7. CASE DiskVerify
  <2>1. /\ pc = "disk.verify" /\ pc' \in {"failing", "disk.guard", "all.guard"} /\ UNCHANGED worker
        /\ pc' # "failing" => Done(disk) /\ pc' = NextDisk
        /\ disk' = IF pc' = "disk.guard" THEN disk + 1 ELSE disk
    BY <1>7 DEF DiskVerify, NextDisk, Done, clones
  <2>2. \A d \in Disks : d < disk => Done(d)
    BY <2>1 DEF LiveFaithInv, DiskInv, OnBase
  <2>3. CASE pc' = "disk.guard"
    <3>1. \A d \in Disks : d < disk' => d < disk \/ d = disk
      BY <1>1, <2>1, <2>3 DEF Disks
    <3>2. \A d \in Disks : d < disk' => Done(d)'
      BY <2>1, <2>2, <2>3, <3>1 DEF Done
    <3>3. DiskInv'
      BY <2>3, <3>2 DEF DiskInv, Before
    <3> QED
      BY <1>2, <2>1, <2>3, <3>3 DEF Main, OnBase, Cutover
  <2>4. CASE pc' = "all.guard"
    <3>1. ~(disk < NDisks)
      BY <2>1, <2>4 DEF NextDisk
    <3>2. \A d \in Disks : d < disk \/ d = disk
      BY <1>1, <3>1, StepsAssumption DEF Disks
    <3>3. \A d \in Disks : Done(d)'
      BY <2>1, <2>2, <2>4, <3>2 DEF Done
    <3>4. DiskInv'
      BY <2>4, <3>3 DEF DiskInv, Before
    <3> QED
      BY <1>2, <2>1, <2>4, <3>4 DEF Main, OnBase, Cutover
  <2> QED
    BY <1>3, <2>1, <2>3, <2>4
<1>8. CASE Shutdown \/ ShutdownDeadline
  <2>1. /\ pc \in {"shutdown.begin", "shutdown.request", "shutdown.poll", "shutdown.await", "shutdown.force"}
        /\ pc' \in {"shutdown.done", "shutdown.request", "failing", "shutdown.poll", "stopped",
                    "shutdown.revalidate", "shutdown.await"}
    BY <1>8 DEF Shutdown, ShutdownBegin, ShutdownRequest, ShutdownPoll, ShutdownReceive, ShutdownForce,
       ShutdownDeadline
  <2>2. CASE pc' \notin {"failing", "stopped"}
    <3>1. DiskInv'
      BY <2>1, <2>2 DEF DiskInv, Before, OnBase, Watching
    <3> QED
      BY <1>2, <2>1, <2>2, <3>1 DEF Main, Cutover
  <2> QED
    BY <1>3, <2>2
<1>9. CASE CloneStop
  <2>1. pc = "clone.stop" /\ pc' = "clone.poll" /\ UNCHANGED disk
    BY <1>9 DEF CloneStop
  <2>2. \A d \in Disks : d < disk => Done(d)
    BY <2>1 DEF LiveFaithInv, DiskInv, OnBase, Watching
  <2>3. DiskInv'
    BY <2>1, <2>2 DEF DiskInv, DonesKept, Done, Before
  <2> QED
    BY <1>2, <2>1, <2>3 DEF Main, OnBase, Watching, Cutover
<1>10. CASE CloneGivesUp
  BY <1>3, <1>10 DEF CloneGivesUp
<1> QED
  BY <1>4, <1>5, <1>6, <1>7, <1>8, <1>9, <1>10 DEF JobSide, SharedSteps

LEMMA CloneSideFaith ==
  ASSUME Typing, OwnTyping, LiveFaithInv, DonesKept, CloneSide
  PROVE  LiveFaithInv'
<1>1. /\ CloneStart \/ ClonePoll
      /\ UNCHANGED <<header, extent, session, disk>> /\ job'.verified = job.verified
  BY CloneSideFrame, SharedPhase DEF CloneStart, ClonePoll, snapshots, deltas
<1>2. /\ pc \in {"clone.start", "clone.poll"}
      /\ pc' \in {"failing", "stopped", "clone.poll", "clone.stop", "clone.done"}
  BY <1>1 DEF CloneStart, ClonePoll, CloneExits, CloneRuns, Watch, Goto
<1>3. CASE pc' \in {"failing", "stopped"}
  BY <1>1, <1>3, FaithAway DEF Main, Before, OnBase, Watching, Cutover
<1>4. CASE pc' \in {"clone.poll", "clone.stop", "clone.done"}
  <2>1. \A d \in Disks : d < disk => Done(d)
    BY <1>2 DEF LiveFaithInv, DiskInv, OnBase, Watching
  <2>2. DiskInv'
    BY <1>1, <1>4, <2>1 DEF DiskInv, DonesKept, Done, Before
  <2>3. BaseInv' /\ DeltaInv'
    <3>1. pc \in Main /\ pc' \notin Cutover /\ pc # "delta.extent" /\ pc' # "delta.extent" /\ pc' # "verify.all"
      BY <1>2, <1>4 DEF Main, OnBase, Watching, Cutover
    <3> QED
      BY <1>1, <3>1, BaseKept, DeltaKept DEF LiveFaithInv
  <2> QED
    BY <2>2, <2>3 DEF LiveFaithInv
<1> QED
  BY <1>2, <1>3, <1>4

LEMMA LiveNextFaith == LiveTypeOK /\ LiveFaithInv /\ [LiveNext]_liveVars => LiveFaithInv'
<1> SUFFICES ASSUME LiveTypeOK, LiveFaithInv, [LiveNext]_liveVars
             PROVE  LiveFaithInv'
  OBVIOUS
<1>0. Typing /\ OwnTyping /\ session \in Nat
  BY LiveTypes DEF OwnTyping
<1>1. CASE UNCHANGED liveVars
  <2>1. UNCHANGED <<pc, job, disk, worker, copied, changed, header, extent, session>>
    BY <1>1 DEF liveVars, vars, switchVars, stepVars, liveOwn
  <2>2. DonesKept
    BY <2>1 DEF DonesKept, Done
  <2> QED
    BY <1>0, <2>1, <2>2, FaithSame
<1>2. CASE LiveNext
  <2>0. DonesKept
    BY <1>0, <1>2, LiveDones
  <2>1. CASE Checks \/ CreateSnapshot \/ Deltas \/ VerifyDelta \/ JobSide \/ CloneSide
    BY <1>0, <2>0, <2>1, ChecksFaith, CreateFaith, DeltasFaith, VerifyFaith, JobSideFaith, CloneSideFaith
  <2>2. CASE Merge \/ MergeCopy \/ RestoreWork \/ MergeTarget \/ Undo
    <3>1. pc' \notin Main
      BY <1>0, <2>2, MergeFrame, MergeCopyFrame, RestoreFrame, BeginFrame
      DEF MergeGo, MergeCopyGo, RestoreGo, Goes, Main, Before, OnBase, Watching, Cutover
    <3>2. UNCHANGED <<extent, session>>
      BY <1>0, <2>2, MergeFrame, MergeCopyFrame, RestoreFrame, BeginFrame DEF deltas
    <3>3. job'.verified = job.verified
      BY <1>0, <2>2, WorkTyped DEF WorkSteps, WorkFrame, JobKept
    <3> QED
      BY <2>0, <3>1, <3>2, <3>3, FaithAway
  <2>3. CASE RestoreFinish
    <3>1. pc' \in {"ended", "failing"} /\ UNCHANGED <<extent, session>> /\ job'.verified = job.verified
      BY <1>0, <2>3, RestoreFinishFrame DEF Goes, snapshots, deltas
    <3> QED
      BY <2>0, <3>1, FaithAway DEF Main, Before, OnBase, Watching, Cutover
  <2>4. CASE SwitchSide
    <3>1. pc' \in SwitchLabels /\ UNCHANGED <<extent, session>> /\ job'.verified = job.verified
      BY <1>0, <2>4, Shaped, SwitchStepTyped DEF Typing, SwitchSide, SwitchShape, snapshots, deltas
    <3>2. pc' \notin Main
      BY <3>1 DEF SwitchLabels, RollbackLabels, Main, Before, OnBase, Watching, Cutover
    <3> QED
      BY <2>0, <3>1, <3>2, FaithAway
  <2>5. CASE Aside
    <3>1. UNCHANGED <<pc, job, disk, header, extent, session>>
      BY <1>0, <2>5, OperatorTyped, GuestTyped, WorkerTyped DEF Aside, liveOwn, switchVars, watch, stepVars
    <3> QED
      BY <1>0, <2>0, <3>1, FaithSame
  <2>6. CASE LiveDisturb \/ SnapshotSide
    <3>1. UNCHANGED <<pc, job, disk, header, extent>> /\ session' \in Nat /\ session' >= session
      BY <1>0, <2>6, DisturbFrame, SnapshotSideFrame DEF switchVars, watch, deltas
    <3> QED
      BY <1>0, <2>0, <3>1, FaithSame
  <2> QED
    BY <1>2, <2>1, <2>2, <2>3, <2>4, <2>5, <2>6, LiveCases DEF WorkSteps
<1> QED
  BY <1>1, <1>2

(* A live target called verified holds the base as of the snapshot and the *)
(* deltas of one session, for any number of disks and however often the    *)
(* source is started in between: see FaithfulLiveTarget.                   *)
THEOREM LiveTargetIsFaithful == LiveSpec => []FaithfulLiveTarget
<1>1. LiveFaithInv => FaithfulLiveTarget
  BY DEF LiveFaithInv, BaseInv, BaseCopied, DeltaInv, FaithfulLiveTarget
<1> QED
  BY <1>1, LiveTyped, LiveInitFaith, LiveNextFaith, PTL DEF LiveSpec

(***************************************************************************)
(* One registration of a MOVE.  Every command that registers a VM follows  *)
(* a reading that shows neither of them registered, also in restoreSource. *)
(***************************************************************************)
Registering == {"commit.register", "commit.restore", "rollback.register", "restore.register"}

ExclusiveInv ==
    Undisturbed /\ plan.mode = "move" =>
        /\ ~(Registered("source") /\ Registered("target"))
        /\ pc \in Registering => reg = Nobody
        /\ pc # "copy.register"

LEMMA LiveInitExclusive == LiveInit => ExclusiveInv
  BY DEF LiveInit, HostInit, OnlySource, Registered, ExclusiveInv, Registering

(* A step that registers nothing and leads to no registration.             *)
LEMMA ExclusiveStays ==
  ASSUME ExclusiveInv, UNCHANGED <<plan, reg>>, Undisturbed' => Undisturbed,
         pc' \notin Registering \cup {"copy.register"} \/ pc' = pc
  PROVE  ExclusiveInv'
  BY DEF ExclusiveInv, Registered

LEMMA ExclusiveUnregisters ==
  ASSUME HostTypeOK, ExclusiveInv, UNCHANGED plan, Undisturbed' => Undisturbed,
         NEW vm \in VMs, reg' = reg \/ reg' = [reg EXCEPT ![vm] = 0],
         pc' \notin Registering \cup {"copy.register"}
  PROVE  ExclusiveInv'
  BY DEF HostTypeOK, ExclusiveInv, Registered

LEMMA ExclusiveRegisters ==
  ASSUME HostTypeOK, ExclusiveInv, UNCHANGED plan, Undisturbed' => Undisturbed,
         NEW vm \in VMs, NEW id, reg' = reg \/ reg' = [reg EXCEPT ![vm] = id],
         pc \in Registering, pc' \notin Registering \cup {"copy.register"}
  PROVE  ExclusiveInv'
  BY DEF HostTypeOK, ExclusiveInv, Registered, Nobody

LEMMA SwitchExclusive ==
  ASSUME Typing, ExclusiveInv, SwitchStep
  PROVE  ExclusiveInv'
<1> USE DEF Registering, Local
<1>0. HostTypeOK /\ SwitchShape
  BY Shaped DEF Typing
<1>1. Undisturbed' => Undisturbed
  BY <1>0 DEF SwitchShape, Undisturbed
<1>2. CASE CommitUnregister
  BY <1>0, <1>1, <1>2, UnregisterCall, ExclusiveUnregisters DEF CommitUnregister
<1>3. CASE RollbackUnregister
  BY <1>0, <1>1, <1>3, UnregisterCall, ExclusiveUnregisters DEF RollbackUnregister
<1>4. CASE CommitRegister
  BY <1>0, <1>1, <1>4, RegisterCall, ExclusiveRegisters DEF CommitRegister
<1>5. CASE CommitRestore
  BY <1>0, <1>1, <1>5, RegisterCall, ExclusiveRegisters DEF CommitRestore
<1>6. CASE RollbackRegister
  BY <1>0, <1>1, <1>6, RegisterCall, ExclusiveRegisters DEF RollbackRegister
<1>7. CASE CommitUnregistered \/ CommitRegistered \/ RollbackUnregistered
  <2>1. /\ UNCHANGED <<plan, reg>> /\ pc' # "copy.register"
        /\ pc' \in Registering => reg = Nobody
    BY <1>7 DEF CommitUnregistered, CommitRegistered, RollbackUnregistered, NeitherRegistered, Query,
       hostVars, inventory
  <2> QED
    BY <1>1, <2>1 DEF ExclusiveInv, Registered
<1>8. CASE PowerOnCommand
  BY <1>0, <1>1, <1>8, PowerOnCall, ExclusiveStays DEF PowerOnCommand
<1>9. CASE \/ CommitCheck \/ CommitSourceOff \/ CommitRestored \/ CommitTargetOff \/ Committed
           \/ PowerOnCheck \/ PowerOnPoll \/ PowerOnMessage \/ PowerOnAnswer \/ PowerOnDeadline
  <2>1. UNCHANGED <<plan, reg>> /\ pc' \notin Registering \cup {"copy.register"}
    BY <1>9 DEF CommitCheck, CommitSourceOff, CommitRestored, CommitTargetOff, Committed, PowerOnCheck,
       PowerOnPoll, PowerOnMessage, PowerOnAnswer, PowerOnDeadline, Query, hostVars, inventory
  <2> QED
    BY <1>1, <2>1, ExclusiveStays
<1>10. CASE \/ Finish \/ MarkFailed \/ RollbackStart \/ BrowserCloses \/ OperatorPowersOff
            \/ RollbackCheck \/ RollbackPower \/ RollbackMessage \/ RollbackRegistered \/ RollbackFinish
  <2>1. UNCHANGED <<plan, reg>> /\ (pc' \notin Registering \cup {"copy.register"} \/ pc' = pc)
    BY <1>10 DEF Finish, MarkFailed, RollbackStart, BrowserCloses, OperatorPowersOff, RollbackCheck,
       RollbackPower, RollbackMessage, RollbackRegistered, RollbackFinish, Query, hostVars, inventory,
       switchVars
  <2> QED
    BY <1>1, <2>1, ExclusiveStays
<1> QED
  BY <1>2, <1>3, <1>4, <1>5, <1>6, <1>7, <1>8, <1>9, <1>10
  DEF SwitchStep, Engine, Commit, PowerOnLoop, Rollback

LEMMA MergeCopyExclusive ==
  ASSUME Typing, OwnTyping, ExclusiveInv, MergeCopy
  PROVE  ExclusiveInv'
<1> USE DEF Registering
<1>1. /\ UNCHANGED <<plan, landed, outside>> /\ pc' \notin Registering \cup {"copy.register"}
      /\ UNCHANGED reg \/ pc \in {"copy.register", "copy.unregister"}
  BY MergeCopyFrame DEF WorkFrame, MergeCopyGo, Goes
<1>2. HostTypeOK /\ (Undisturbed' => Undisturbed)
  BY <1>1 DEF Typing, Undisturbed
<1>3. CASE UNCHANGED reg
  BY <1>1, <1>2, <1>3, ExclusiveStays
<1>4. CASE pc = "copy.unregister"
  <2>1. Call("unregister", "target", merge.id)
    BY <1>4 DEF MergeCopy, CopyRegister, CopyRegistered, CopyOff, CopyUnregister, CopyUnregistered, Advance
  <2> QED
    BY <1>1, <1>2, <2>1, UnregisterCall, ExclusiveUnregisters
<1>5. CASE pc = "copy.register"
  BY <1>1, <1>2, <1>5 DEF ExclusiveInv
<1> QED
  BY <1>1, <1>3, <1>4, <1>5

LEMMA RestoreExclusive ==
  ASSUME Typing, OwnTyping, ExclusiveInv, RestoreWork
  PROVE  ExclusiveInv'
<1> USE DEF Registering, Goto, Advance
<1>1. /\ UNCHANGED <<plan, landed, outside>> /\ pc' # "copy.register"
      /\ UNCHANGED reg \/ pc \in {"restore.unregister", "restore.register"}
      /\ pc' \in Registering => pc \in {"restore.check", "restore.unregistered"} /\ pc' = "restore.register"
  BY RestoreFrame DEF WorkFrame, RestoreGo, Goes
<1>2. HostTypeOK /\ (Undisturbed' => Undisturbed)
  BY <1>1 DEF Typing, Undisturbed
<1>3. CASE pc' \in Registering
  <2>1. UNCHANGED reg /\ reg \in [VMs -> Nat]
    BY <1>1, <1>2, <1>3 DEF HostTypeOK
  <2>2. reg = Nobody
    <3>1. reg = Nobody \/ (~Registered("source") /\ ~Registered("target"))
      BY <1>1, <1>3 DEF RestoreWork, RestoreCheck, RestoreOff, RestoreUnregister, RestoreUnregistered,
         RestoreRegister, RestoreRegistered, RestoreTree
    <3> QED
      BY <2>1, <3>1 DEF Registered, Nobody
  <2> QED
    BY <1>1, <1>2, <2>1, <2>2 DEF ExclusiveInv, Registered
<1>4. CASE pc' \notin Registering /\ UNCHANGED reg
  BY <1>1, <1>2, <1>4, ExclusiveStays
<1>5. CASE pc' \notin Registering /\ pc = "restore.unregister"
  <2>1. Call("unregister", "target", job.targetId)
    BY <1>5 DEF RestoreWork, RestoreCheck, RestoreOff, RestoreUnregister, RestoreUnregistered,
       RestoreRegister, RestoreRegistered, RestoreTree
  <2> QED
    BY <1>1, <1>2, <1>5, <2>1, UnregisterCall, ExclusiveUnregisters
<1>6. CASE pc' \notin Registering /\ pc = "restore.register"
  <2>1. Call("register", "source", 0)
    BY <1>6 DEF RestoreWork, RestoreCheck, RestoreOff, RestoreUnregister, RestoreUnregistered,
       RestoreRegister, RestoreRegistered, RestoreTree
  <2> QED
    BY <1>1, <1>2, <1>6, <2>1, RegisterCall, ExclusiveRegisters
<1> QED
  BY <1>1, <1>3, <1>4, <1>5, <1>6

LEMMA WorkExclusive ==
  ASSUME Typing, OwnTyping, ExclusiveInv, WorkSteps
  PROVE  ExclusiveInv'
<1> USE DEF Registering, Goes
<1>1. UNCHANGED <<plan, landed, outside>> /\ (Undisturbed' => Undisturbed)
  BY WorkTyped DEF WorkFrame, Undisturbed
<1>2. CASE MergeCopy \/ RestoreWork
  BY <1>2, MergeCopyExclusive, RestoreExclusive
<1>3. CASE Checks
  <2>1. UNCHANGED reg /\ pc' \notin Registering \cup {"copy.register"}
    BY <1>3, ChecksFrame DEF ChecksGo, Query, hostVars, inventory
  <2> QED
    BY <1>1, <2>1, ExclusiveStays
<1>4. CASE CreateSnapshot \/ Deltas \/ Merge \/ MergeTarget \/ Undo
  <2>1. UNCHANGED reg /\ pc' \notin Registering \cup {"copy.register"}
    BY <1>4, CreateFrame, DeltasFrame, MergeFrame, BeginFrame DEF DeltasGo, MergeGo
  <2> QED
    BY <1>1, <2>1, ExclusiveStays
<1> QED
  BY <1>2, <1>3, <1>4 DEF WorkSteps

LEMMA VerdictExclusive ==
  ASSUME Typing, OwnTyping, ExclusiveInv, VerifyDelta \/ RestoreFinish
  PROVE  ExclusiveInv'
<1> USE DEF Registering, Goes
<1>1. CASE VerifyDelta
  <2>1. UNCHANGED <<plan, reg, landed, outside>> /\ pc = "verify.all"
        /\ pc' \in {"failing", "verify.all", "commit.check", "copy.register"}
    BY <1>1, VerifyFrame DEF Query, hostVars, inventory
  <2>2. pc' = "copy.register" => plan.mode # "move"
    BY <1>1, <2>1 DEF VerifyDelta, Advance, Goto, NextVerify
  <2> QED
    BY <2>1, <2>2 DEF ExclusiveInv, Undisturbed, Registered
<1>2. CASE RestoreFinish
  BY <1>2, RestoreFinishFrame, ExclusiveStays DEF Undisturbed
<1> QED
  BY <1>1, <1>2

LEMMA JobSidePlan == JobSide => UNCHANGED plan
  BY DEF JobSide, SharedSteps, Run, Acquire, CreateTarget, CopyConfig, DiskVerify, Shutdown, ShutdownBegin,
     ShutdownRequest, ShutdownPoll, ShutdownReceive, ShutdownForce, ShutdownDeadline, CloneStop,
     CloneGivesUp, Local

LEMMA CloneSideHost ==
  ASSUME Typing, OwnTyping, CloneSide
  PROVE  /\ UNCHANGED <<hostVars, plan>>
         /\ pc \in {"clone.start", "clone.poll"}
         /\ pc' \in {"failing", "stopped", "clone.poll", "clone.stop", "clone.done"}
<1>1. CloneStart \/ ClonePoll
  BY CloneSideFrame
<1> QED
  BY <1>1 DEF CloneStart, ClonePoll, CloneExits, CloneRuns, Watch, Goto, Query, Local

LEMMA LiveNextExclusive == LiveTypeOK /\ ExclusiveInv /\ [LiveNext]_liveVars => ExclusiveInv'
<1> SUFFICES ASSUME LiveTypeOK, ExclusiveInv, [LiveNext]_liveVars
             PROVE  ExclusiveInv'
  OBVIOUS
<1>0. Typing /\ OwnTyping
  BY LiveTypes
<1>1. CASE WorkSteps \/ VerifyDelta \/ RestoreFinish
  BY <1>0, <1>1, WorkExclusive, VerdictExclusive
<1>2. CASE JobSide
  <2>1. pc' \notin Registering \cup {"copy.register"}
    BY <1>0, <1>2, SharedTyped, ShutdownTyped, CloneTyped
    DEF JobSide, CloneSteps, StepLabels, Landings, Registering
  <2> QED
    BY <1>0, <1>2, <2>1, JobSidePlaces, JobSidePlan, ExclusiveStays DEF Undisturbed
<1>3. CASE CloneSide
  BY <1>0, <1>3, CloneSideHost, ExclusiveStays DEF hostVars, inventory, Registering, Undisturbed
<1>4. CASE SwitchSide
  BY <1>0, <1>4, SwitchExclusive DEF SwitchSide
<1>5. CASE Aside
  <2>1. UNCHANGED <<plan, reg, pc, landed, outside>>
    BY <1>0, <1>5, OperatorTyped, GuestTyped, WorkerTyped DEF Aside, hostVars, inventory, switchVars
  <2> QED
    BY <2>1, ExclusiveStays DEF Undisturbed
<1>6. CASE LiveDisturb \/ SnapshotSide
  BY <1>0, <1>6, DisturbFrame, SnapshotSideFrame DEF ExclusiveInv
<1>7. CASE UNCHANGED liveVars
  BY <1>7, ExclusiveStays DEF liveVars, vars, hostVars, inventory, switchVars, Undisturbed
<1> QED
  BY <1>1, <1>2, <1>3, <1>4, <1>5, <1>6, <1>7, LiveCases

(* A live MOVE never has the source and the target registered together,    *)
(* also while restoreSource undoes it and whatever replies are lost: see   *)
(* MoveIsExclusive.                                                        *)
THEOREM LiveMoveIsExclusive == LiveSpec => []MoveIsExclusive
<1>1. ExclusiveInv => MoveIsExclusive
  BY DEF ExclusiveInv, MoveIsExclusive, Exclusive
<1> QED
  BY <1>1, LiveTyped, LiveInitExclusive, LiveNextExclusive, PTL DEF LiveSpec

(* Each disk's worker behaves as DetachedClone says, whatever replies are  *)
(* lost and however late a launch takes effect: see ClonesAsPromised.      *)
THEOREM LiveImplementsClones == LiveSpec => ClonesAsPromised
<1>1. LiveInit => Clones!Init
  BY ShadowInit DEF LiveInit
<1>2. LiveTypeOK /\ [LiveNext]_liveVars => [Clones!Next]_Shadow
  <2> SUFFICES ASSUME Typing, OwnTyping, [LiveNext]_liveVars
               PROVE  [Clones!Next]_Shadow
    BY LiveTypes
  <2>1. CASE WorkSteps \/ VerifyDelta \/ RestoreFinish \/ SwitchSide \/ LiveDisturb \/ SnapshotSide
    <3>1. UNCHANGED worker
      BY <2>1, WorkTyped, VerifyFrame, RestoreFinishFrame, DisturbFrame, SnapshotSideFrame
      DEF WorkFrame, SwitchSide, stepVars, clones
    <3> QED
      BY <3>1, ShadowStays
  <2>2. CASE JobSide
    BY <2>2, SharedClones, ShadowStays, ClonesStep DEF JobSide, CloneSteps
  <2>3. CASE CloneSide
    BY <2>3, CloneSideFrame, ClonesStep DEF CloneSteps
  <2>4. CASE Aside
    BY <2>4, OperatorTyped, GuestTyped, ClonesStep, ShadowStays DEF Aside, stepVars, clones
  <2>5. CASE UNCHANGED liveVars
    BY <2>5, ShadowStays DEF liveVars, stepVars
  <2> QED
    BY <2>1, <2>2, <2>3, <2>4, <2>5, LiveCases
<1>3. LiveTypeOK /\ [LiveNext]_liveVars =>
          [Clones!Next]_([d \in Disks |-> IF worker[d] = "delayed" THEN "none" ELSE worker[d]])
  BY <1>2 DEF Shadow
<1> QED
  BY <1>1, <1>3, LiveTyped, PTL DEF LiveSpec, ClonesAsPromised, Clones!Spec

(***************************************************************************)
(* The result.  Only the straight way to the end matters: a restore never  *)
(* gets to "finish".  On it the source is at home until the verdict, a     *)
(* COPY keeps it there, and a MOVE is where SwitchProofs has it.           *)
(***************************************************************************)
AfterShutdown == {"shutdown.done", "metadata", "delta.descriptor", "delta.extent", "metadata.copy",
                  "config", "verify.all"}
Switching == SwitchLabels \ (RollbackLabels \cup {"failing", "ended", "finish"})
Finals == {"completed", "failed", "unknown", "stopped", "rolled_back"}
Merging(purpose) == pc \in MergeLabels /\ merge.for = purpose

Unmoved ==
    /\ reg = OnlySource /\ power["target"] = "off" /\ question = "none"
    /\ job.source = "registered" /\ job.target = "not registered" /\ ~job.canRollback
    /\ job.phase \notin Finals
    /\ merge.for = "none"

Copied == plan.mode = "copy" /\ reg["source"] = SourceId /\ \A vm \in VMs : power[vm] = "off"
Moved ==
    /\ plan.mode = "move" /\ OnlyTarget(job.targetId) /\ power["source"] = "off"
    /\ power["target"] = (IF plan.powerOn THEN "on" ELSE "off")

HomePart ==
    /\ pc \in Main => Unmoved
    /\ pc \in AfterShutdown => power["source"] = "off"
CopyPart ==
    /\ pc \in CopyLabels \/ Merging("copy") => Copied
    /\ pc \in CopyLabels \ {"copy.register"} \/ Merging("copy") => merge.vm = "target"
    /\ pc \in {"copy.unregister", "copy.unregistered"} => tree["target"] = {}
    /\ Merging("source") => Copied /\ reg = OnlySource /\ tree["target"] = {} /\ merge.vm = "source"
    /\ pc = "finish" /\ plan.mode = "copy" => Copied /\ reg = OnlySource /\ tree = [vm \in VMs |-> {}]
MovePart ==
    /\ pc \in Switching => Facts /\ merge.for = "none"
    /\ Merging("move") => Moved /\ merge.vm = "target"
    /\ pc = "finish" /\ plan.mode = "move" =>
           Moved /\ (merge.for = "none" \/ (merge.for = "move" /\ (~warned => tree["target"] = {})))
EndPart == job.phase = "completed" => pc = "ended" /\ ~job.canRollback /\ LiveResult

ResultInv == Undisturbed => HomePart /\ CopyPart /\ MovePart /\ EndPart

(* What the engine read before the snapshot: a running source.             *)
Seen == {"snapshot", "shutdown.begin"} \cup OnBase
SeenOn == pc \in Seen => polled = "on"

LEMMA LiveInitSeen == LiveInit => SeenOn
  BY DEF LiveInit, SeenOn, Seen, OnBase, Watching

(* Places about which the parts say nothing.                               *)
Nowhere == {"failing", "stopped", "ended", "restore.check", "restore.tree", "restore.finish"}
           \cup RollbackLabels \cup Rebuilding

LEMMA Apart ==
  /\ \A l \in Main : l \notin CopyLabels \cup MergeLabels \cup SwitchLabels
  /\ \A l \in CopyLabels : l \notin Main \cup MergeLabels \cup SwitchLabels
  /\ \A l \in MergeLabels : l \notin Main \cup CopyLabels \cup SwitchLabels
  /\ \A l \in SwitchLabels : l \notin Main \cup CopyLabels \cup MergeLabels
  /\ \A l \in Nowhere : l \notin Main \cup CopyLabels \cup MergeLabels \cup Switching \cup {"finish"}
  /\ AfterShutdown \subseteq Main /\ "finish" \notin Switching /\ "ended" \notin Main
  BY DEF Main, Before, OnBase, Watching, Cutover, CopyLabels, MergeLabels, SwitchLabels, RollbackLabels,
         Nowhere, Rebuilding, Switching, AfterShutdown

LEMMA ResultAway ==
  ASSUME pc' \in Nowhere \/ Merging("restore")', job'.phase # "completed"
  PROVE  ResultInv'
<1>1. CASE pc' \in Nowhere
  <2>1. pc' \notin Main /\ pc' \notin CopyLabels /\ pc' \notin MergeLabels /\ pc' \notin Switching
        /\ pc' # "finish" /\ pc' \notin AfterShutdown
    BY <1>1, Apart
  <2>2. pc' \notin {"copy.unregister", "copy.unregistered"}
    BY <2>1 DEF CopyLabels
  <2> QED
    BY <2>1, <2>2 DEF ResultInv, HomePart, CopyPart, MovePart, EndPart, Merging
<1>2. CASE Merging("restore")'
  <2>1. pc' \in MergeLabels /\ merge'.for = "restore"
    BY <1>2 DEF Merging
  <2>2. pc' \notin Main /\ pc' \notin CopyLabels /\ pc' \notin SwitchLabels
    BY <2>1, Apart
  <2>3. pc' \notin AfterShutdown /\ pc' \notin Switching /\ pc' # "finish"
        /\ pc' \notin {"copy.unregister", "copy.unregistered"}
    BY <2>2, Apart DEF Switching, CopyLabels, SwitchLabels
  <2> QED
    BY <2>1, <2>2, <2>3 DEF ResultInv, HomePart, CopyPart, MovePart, EndPart, Merging
<1> QED
  BY <1>1, <1>2

LEMMA ResultAtHome ==
  ASSUME pc' \in Main, Unmoved', pc' \in AfterShutdown => power'["source"] = "off"
  PROVE  ResultInv'
<1>1. pc' \notin CopyLabels /\ pc' \notin MergeLabels /\ pc' \notin SwitchLabels
  BY Apart
<1>2. pc' \notin Switching /\ pc' # "finish" /\ pc' \notin {"copy.unregister", "copy.unregistered"}
  BY <1>1 DEF Switching, CopyLabels, SwitchLabels
<1>3. job'.phase # "completed"
  BY DEF Unmoved, Finals
<1> QED
  BY <1>1, <1>2, <1>3 DEF ResultInv, HomePart, CopyPart, MovePart, EndPart, Merging

LEMMA ResultCopying ==
  ASSUME pc' \in CopyLabels, Copied', job'.phase # "completed",
         pc' # "copy.register" => merge'.vm = "target",
         pc' \in {"copy.unregister", "copy.unregistered"} => tree'["target"] = {}
  PROVE  ResultInv'
<1>1. pc' \notin Main /\ pc' \notin MergeLabels /\ pc' \notin SwitchLabels
  BY Apart
<1>2. pc' \notin Switching /\ pc' # "finish" /\ pc' \notin AfterShutdown
  BY <1>1, Apart DEF Switching, SwitchLabels
<1> QED
  BY <1>1, <1>2 DEF ResultInv, HomePart, CopyPart, MovePart, EndPart, Merging

LEMMA ResultMerging ==
  ASSUME pc' \in MergeLabels, job'.phase # "completed",
         merge'.for = "copy" => Copied' /\ merge'.vm = "target",
         merge'.for = "source" => Copied' /\ reg' = OnlySource /\ tree'["target"] = {} /\ merge'.vm = "source",
         merge'.for = "move" => Moved' /\ merge'.vm = "target"
  PROVE  ResultInv'
<1>1. pc' \notin Main /\ pc' \notin CopyLabels /\ pc' \notin SwitchLabels
  BY Apart
<1>2. pc' \notin Switching /\ pc' # "finish" /\ pc' \notin AfterShutdown
      /\ pc' \notin {"copy.unregister", "copy.unregistered"}
  BY <1>1, Apart DEF Switching, SwitchLabels, CopyLabels
<1> QED
  BY <1>1, <1>2 DEF ResultInv, HomePart, CopyPart, MovePart, EndPart, Merging

LEMMA ResultFinishing ==
  ASSUME pc' = "finish", job'.phase # "completed",
         plan'.mode = "copy" => Copied' /\ reg' = OnlySource /\ tree' = [vm \in VMs |-> {}],
         plan'.mode = "move" =>
             Moved' /\ (merge'.for = "none" \/ (merge'.for = "move" /\ (~warned' => tree'["target"] = {})))
  PROVE  ResultInv'
<1>1. pc' \notin Main /\ pc' \notin CopyLabels /\ pc' \notin MergeLabels
  BY Apart DEF SwitchLabels
<1>2. pc' \notin Switching /\ pc' \notin AfterShutdown /\ pc' \notin {"copy.unregister", "copy.unregistered"}
  BY <1>1, Apart DEF CopyLabels
<1> QED
  BY <1>1, <1>2 DEF ResultInv, HomePart, CopyPart, MovePart, EndPart, Merging

LEMMA ResultSwitching ==
  ASSUME pc' \in Switching, Facts', merge'.for = "none"
  PROVE  ResultInv'
<1>1. pc' \in SwitchLabels /\ pc' \notin RollbackLabels /\ pc' \notin {"failing", "ended", "finish"}
  BY DEF Switching
<1>2. pc' \notin Main /\ pc' \notin CopyLabels /\ pc' \notin MergeLabels
  BY <1>1, Apart
<1>3. pc' \notin AfterShutdown /\ pc' \notin {"copy.unregister", "copy.unregistered"}
  BY <1>2, Apart DEF CopyLabels
<1>4. job'.phase # "completed"
  BY <1>1 DEF Facts, OutcomeInv
<1> QED
  BY <1>1, <1>2, <1>3, <1>4 DEF ResultInv, HomePart, CopyPart, MovePart, EndPart, Merging

(* The steps on the way to the verdict.                                    *)
MainSteps == Checks \/ CreateSnapshot \/ Deltas \/ JobSide \/ CloneSide

(* The page they show: another phase at most.                              *)
LEMMA MainPage ==
  ASSUME Typing, MainSteps
  PROVE  \/ UNCHANGED job
         \/ \E p \in Phases \ (Finals \cup {"restoring"}) : Phase(p)
         \/ Phase("unknown") /\ pc' = "failing"
<1> USE DEF Phases, Finals, Goto
<1>1. CASE Checks
  <2>1. \/ UNCHANGED job
        \/ Phase("snapshot") \/ Phase("cloning") \/ Phase("verifying_disk") \/ Phase("cutover")
    BY <1>1 DEF Checks, LivePreflight, LivePreflightOwn, LiveDeltas, LiveDiskGuard, LiveDiskCloned,
       AfterClones, LiveRevalidate, CutoverGuard, Metadata, Proceed, Phase
  <2> QED
    BY <2>1
<1>2. CASE CreateSnapshot \/ Deltas
  BY <1>2 DEF CreateSnapshot, Deltas, CopyDescriptor, CopyExtent, CopyMetadata
<1>3. CASE JobSide
  <2>1. CASE SharedSteps
    BY <2>1 DEF SharedSteps, Run, Acquire, CreateTarget, CopyConfig, DiskVerify
  <2>2. CASE Shutdown \/ ShutdownDeadline
    BY <2>2 DEF Shutdown, ShutdownBegin, ShutdownRequest, ShutdownPoll, ShutdownReceive, ShutdownForce,
       ShutdownDeadline
  <2>3. CASE CloneStop \/ CloneGivesUp
    BY <2>3 DEF CloneStop, CloneGivesUp
  <2> QED
    BY <1>3, <2>1, <2>2, <2>3 DEF JobSide
<1>4. CASE CloneSide
  BY <1>4 DEF CloneSide, LiveCloneStart, LiveClonePoll, CloneStart, ClonePoll, CloneExits, CloneRuns
<1> QED
  BY <1>1, <1>2, <1>3, <1>4 DEF MainSteps

(* The host and the places.                                                *)
LEMMA MainHost ==
  ASSUME Typing, OwnTyping, MainSteps
  PROVE  /\ UNCHANGED <<plan, reg, question, landed, outside, merge>>
         /\ power'["target"] = power["target"] /\ (UNCHANGED power \/ pc = "shutdown.force")
         /\ pc \in Main /\ pc' \in Main \cup {"failing", "stopped"}
<1> USE DEF Main, Goes
<1>1. CASE Checks
  <2>1. ChecksGo /\ Query /\ UNCHANGED <<plan, merge>>
    BY <1>1, ChecksFrame DEF liveOwn
  <2>2. pc \in Main /\ pc' \in Main \cup {"failing", "stopped"}
    BY <2>1 DEF ChecksGo, Before, OnBase, Cutover
  <2> QED
    BY <2>1, <2>2 DEF Query, hostVars, inventory
<1>2. CASE CreateSnapshot \/ Deltas
  <2>1. UNCHANGED <<plan, reg, power, landed, outside, merge>>
    BY <1>2, CreateFrame, DeltasFrame DEF WorkFrame
  <2>2. pc \in Main /\ pc' \in Main \cup {"failing", "stopped"}
    BY <1>2, CreateFrame, DeltasFrame DEF DeltasGo, Before, OnBase, Cutover
  <2>3. UNCHANGED question
    BY <1>2 DEF CreateSnapshot, Deltas, CopyDescriptor, CopyExtent, CopyMetadata, Quiet, Query, hostVars, inventory
  <2> QED
    BY <2>1, <2>2, <2>3
<1>3. CASE JobSide
  <2>1. UNCHANGED <<plan, reg, landed, outside, merge>>
    BY <1>3, JobSidePlan, JobSidePlaces DEF liveOwn
  <2>2. CASE SharedSteps
    <3>1. UNCHANGED <<power, question>>
      BY <2>2 DEF SharedSteps, Run, Acquire, CreateTarget, CopyConfig, DiskVerify, Query, hostVars, inventory
    <3>2. pc \in Main /\ pc' \in Main \cup {"failing", "stopped"}
      BY <2>2 DEF SharedSteps, Run, Acquire, CreateTarget, CopyConfig, DiskVerify, Advance, Goto, NextDisk,
         Before, OnBase, Cutover
    <3> QED
      BY <2>1, <3>1, <3>2
  <2>3. CASE Shutdown \/ ShutdownDeadline
    <3>1. pc \in Main /\ pc' \in Main \cup {"failing", "stopped"}
      BY <2>3 DEF Shutdown, ShutdownBegin, ShutdownRequest, ShutdownPoll, ShutdownReceive, ShutdownForce,
         ShutdownDeadline, Goto, Cutover
    <3>2. CASE ShutdownForce
      <4>1. UNCHANGED inventory \/ (Obey(ForceOff) /\ power["source"] = "on")
        BY <3>2 DEF ShutdownForce, Ignore, Delay
      <4>2. power'["target"] = power["target"] /\ UNCHANGED question
        BY <4>1 DEF Obey, TakeEffect, ForceOff, PowerOff, inventory, Typing, HostTypeOK
      <4> QED
        BY <2>1, <3>1, <3>2, <4>2 DEF ShutdownForce
    <3>3. CASE ~ShutdownForce
      <4>1. UNCHANGED <<power, question>>
        BY <2>3, <3>3 DEF Shutdown, ShutdownBegin, ShutdownRequest, ShutdownPoll, ShutdownReceive,
           ShutdownDeadline, Query, hostVars, inventory
      <4> QED
        BY <2>1, <3>1, <4>1
    <3> QED
      BY <3>2, <3>3
  <2>4. CASE CloneStop \/ CloneGivesUp
    BY <2>1, <2>4 DEF CloneStop, CloneGivesUp, Goto, Query, hostVars, inventory, OnBase, Watching
  <2> QED
    BY <1>3, <2>2, <2>3, <2>4 DEF JobSide
<1>4. CASE CloneSide
  <2>1. UNCHANGED merge
    BY <1>4, CloneSideFrame
  <2> QED
    BY <1>4, <2>1, CloneSideHost DEF hostVars, inventory, OnBase, Watching
<1> QED
  BY <1>1, <1>2, <1>3, <1>4 DEF MainSteps

(* Only LivePreflightOwn reads the power the shutdown begins with.         *)
LEMMA MainSeen ==
  ASSUME Typing, OwnTyping, SeenOn, MainSteps
  PROVE  SeenOn'
<1> USE DEF Goes, Seen, OnBase, Watching
<1>1. CASE LivePreflightOwn
  BY <1>1 DEF LivePreflightOwn, Advance, Goto, CheckOk, SeenOn
<1>2. CASE Checks /\ ~LivePreflightOwn
  <2>1. UNCHANGED polled /\ pc # "preflight.own"
    BY <1>2 DEF Checks, LivePreflight, LiveDeltas, LiveDiskGuard, LiveDiskCloned, AfterClones, LiveRevalidate,
       CutoverGuard, Metadata, Advance, Quiet, Local
  <2>2. pc' \in Seen => pc \in Seen
    BY <1>2, <2>1, ChecksFrame DEF ChecksGo
  <2> QED
    BY <2>1, <2>2 DEF SeenOn
<1>3. CASE CreateSnapshot \/ Deltas
  <2>1. UNCHANGED polled /\ (pc' \in Seen => pc \in Seen)
    BY <1>3, CreateFrame, DeltasFrame DEF DeltasGo
  <2> QED
    BY <2>1 DEF SeenOn
<1>4. CASE JobSide
  <2>1. UNCHANGED polled
    BY <1>4 DEF JobSide, SharedSteps, Run, Acquire, CreateTarget, CopyConfig, DiskVerify, Shutdown,
       ShutdownBegin, ShutdownRequest, ShutdownPoll, ShutdownReceive, ShutdownForce, ShutdownDeadline,
       CloneStop, CloneGivesUp, Local
  <2>2. pc' # "snapshot" /\ pc' # "shutdown.begin"
    BY <1>4 DEF JobSide, SharedSteps, Run, Acquire, CreateTarget, CopyConfig, DiskVerify, Shutdown,
       ShutdownBegin, ShutdownRequest, ShutdownPoll, ShutdownReceive, ShutdownForce, ShutdownDeadline,
       CloneStop, CloneGivesUp, Advance, Goto, NextDisk
  <2>3. pc' \in OnBase => pc \in OnBase
    BY <1>4, JobSidePlaces
  <2> QED
    BY <2>1, <2>2, <2>3 DEF SeenOn
<1>5. CASE CloneSide
  <2>1. UNCHANGED polled /\ pc \in Seen
    BY <1>5, CloneSideHost, CloneSideFrame DEF CloneStart, ClonePoll, Local
  <2> QED
    BY <2>1 DEF SeenOn
<1> QED
  BY <1>1, <1>2, <1>3, <1>4, <1>5 DEF MainSteps

(* The shutdown ends with a source that is off, and nobody starts it.      *)
LEMMA MainOff ==
  ASSUME Typing, OwnTyping, SeenOn, MainSteps, pc \in AfterShutdown => power["source"] = "off",
         pc' \in AfterShutdown
  PROVE  power'["source"] = "off"
<1> USE DEF Goes, AfterShutdown
<1>1. CASE Checks
  BY <1>1, ChecksFrame DEF ChecksGo, Query, hostVars, inventory
<1>2. CASE CreateSnapshot \/ Deltas
  BY <1>2, CreateFrame, DeltasFrame DEF DeltasGo
<1>3. CASE SharedSteps
  BY <1>3 DEF SharedSteps, Run, Acquire, CreateTarget, CopyConfig, DiskVerify, Advance, Goto, NextDisk,
     Query, hostVars, inventory
<1>4. CASE Shutdown \/ ShutdownDeadline
  BY <1>4 DEF Shutdown, ShutdownBegin, ShutdownRequest, ShutdownPoll, ShutdownReceive, ShutdownForce,
     ShutdownDeadline, Goto, FoundOff, SeenOn, Seen, Query, hostVars, inventory
<1>5. CASE CloneStop \/ CloneGivesUp \/ CloneSide
  BY <1>5, CloneSideHost DEF CloneStop, CloneGivesUp, Goto
<1> QED
  BY <1>1, <1>2, <1>3, <1>4, <1>5 DEF MainSteps, JobSide

LEMMA MainResult ==
  ASSUME Typing, OwnTyping, SeenOn, ResultInv, MainSteps
  PROVE  ResultInv'
<1> SUFFICES ASSUME Undisturbed
             PROVE  ResultInv'
  BY MainHost DEF ResultInv, Undisturbed
<1>1. /\ UNCHANGED <<plan, reg, question, landed, outside, merge>> /\ power'["target"] = power["target"]
      /\ pc \in Main /\ pc' \in Main \cup {"failing", "stopped"}
  BY MainHost
<1>2. Unmoved /\ (pc \in AfterShutdown => power["source"] = "off")
  BY <1>1 DEF ResultInv, HomePart
<1>3. /\ job'.source = job.source /\ job'.target = job.target /\ job'.canRollback = job.canRollback
      /\ job'.phase # "completed" /\ (pc' # "failing" => job'.phase \notin Finals)
  <2>1. job \in Jobs /\ job.phase \notin Finals
    BY <1>2 DEF Typing, SwitchTypeOK, Unmoved
  <2> QED
    BY <2>1, MainPage DEF Phase, Jobs, Finals
<1>4. CASE pc' \in Main
  <2>1. pc' # "failing"
    BY <1>4 DEF Main, Before, OnBase, Watching, Cutover
  <2>2. Unmoved'
    BY <1>1, <1>2, <1>3, <2>1 DEF Unmoved
  <2> QED
    BY <1>2, <1>4, <2>2, MainOff, ResultAtHome
<1>5. CASE pc' \in {"failing", "stopped"}
  BY <1>3, <1>5, ResultAway DEF Nowhere
<1> QED
  BY <1>1, <1>4, <1>5

(* The verdict sends a COPY to mergeCopy and a MOVE to the switch.         *)
LEMMA VerdictResult ==
  ASSUME Typing, OwnTyping, ResultInv, VerifyDelta
  PROVE  ResultInv'
<1> USE DEF Goes
<1>1. /\ UNCHANGED <<plan, reg, power, question, landed, outside, merge>> /\ pc = "verify.all"
      /\ pc' \in {"failing", "verify.all", "commit.check", "copy.register"}
      /\ job'.canRollback = job.canRollback /\ job'.phase \in {job.phase, "consolidating"}
  BY VerifyFrame DEF Query, hostVars, inventory, liveOwn
<1>2. pc \in Main /\ pc \in AfterShutdown
  BY <1>1 DEF Main, Cutover, AfterShutdown
<1> SUFFICES ASSUME Undisturbed
             PROVE  ResultInv'
  BY <1>1 DEF ResultInv, Undisturbed
<1>3. Unmoved /\ power["source"] = "off"
  BY <1>2 DEF ResultInv, HomePart
<1>4. /\ job'.source = job.source /\ job'.target = job.target
      /\ pc' = "copy.register" => plan.mode # "move"
      /\ pc' = "commit.check" => plan.mode = "move"
  BY <1>1 DEF VerifyDelta, Advance, Goto, NextVerify, Typing, SwitchTypeOK, Jobs
<1>5. job'.phase \notin Finals
  BY <1>1, <1>3 DEF Unmoved, Finals
<1>6. Unmoved'
  BY <1>1, <1>3, <1>4, <1>5 DEF Unmoved
<1>7. CASE pc' = "failing"
  BY <1>5, <1>7, ResultAway DEF Nowhere, Finals
<1>8. CASE pc' = "verify.all"
  BY <1>1, <1>2, <1>3, <1>6, <1>8, ResultAtHome
<1>9. CASE pc' = "copy.register"
  <2>1. plan' \in Requests
    BY <1>1 DEF Typing, SwitchTypeOK
  <2>2. Copied'
    BY <1>1, <1>3, <1>4, <1>6, <1>9, <2>1 DEF Copied, Unmoved, OnlySource, Requests
  <2> QED
    BY <1>5, <1>9, <2>2, ResultCopying DEF CopyLabels, Finals
<1>10. CASE pc' = "commit.check"
  <2>1. /\ reg' = OnlySource /\ power'["source"] = "off" /\ power'["target"] = "off" /\ question' = "none"
        /\ plan'.mode = "move"
    BY <1>1, <1>3, <1>4, <1>6, <1>10 DEF Unmoved
  <2>2. RegistrationInv'
    BY <1>10, <2>1 DEF RegistrationInv, Registered, OnlySource, PowerOnLabels
  <2>3. ViewInv'
    <3>1. reg'["source"] = 1 /\ reg'["target"] = 0
      BY <2>1 DEF OnlySource
    <3> QED
      BY <1>6, <1>10, <3>1, ViewValues DEF ViewInv, ViewOf, Unmoved
  <2>4. OfferInv'
    BY <1>6, <1>10 DEF Unmoved, OfferInv, PowerOnLabels, RollbackLabels, RollbackCommits
  <2>5. PowerInv'
    BY <1>10, <2>1 DEF PowerInv, PowerOnLabels, RollbackCommits
  <2>6. OutcomeInv'
    BY <1>5, <1>6, <1>10 DEF Unmoved, OutcomeInv, RollbackLabels, Finals
  <2>7. pc' \in Switching /\ merge'.for = "none"
    BY <1>6, <1>10 DEF Unmoved, Switching, SwitchLabels, RollbackLabels
  <2> QED
    BY <2>2, <2>3, <2>4, <2>5, <2>6, <2>7, ResultSwitching DEF Facts
<1> QED
  BY <1>1, <1>7, <1>8, <1>9, <1>10

(* mergeCopy registers and unregisters nothing but the copy.               *)
LEMMA MergeCopyResult ==
  ASSUME Typing, OwnTyping, LiveStopInv, ResultInv, MergeCopy
  PROVE  ResultInv'
<1> USE DEF Goto, Advance, CopyLabels
<1>1. /\ UNCHANGED <<plan, power, tree, landed, outside>> /\ pc \in CopyLabels
      /\ job'.phase \in {job.phase, "consolidating"}
  BY MergeCopyFrame DEF WorkFrame, MergeCopyGo, Goes
<1> SUFFICES ASSUME Undisturbed
             PROVE  ResultInv'
  BY <1>1 DEF ResultInv, Undisturbed
<1>2. /\ Copied /\ (pc # "copy.register" => merge.vm = "target" /\ merge.for = "copy")
      /\ pc \in {"copy.unregister", "copy.unregistered"} => tree["target"] = {}
  BY <1>1 DEF ResultInv, CopyPart, LiveStopInv, PurposeInv
<1>3. job'.phase # "completed"
  <2>1. job.phase # "completed"
    BY <1>1 DEF ResultInv, EndPart
  <2> QED
    BY <1>1, <2>1
<1>4. reg \in [VMs -> Nat] /\ merge \in [for : Purposes, vm : VMs, id : Nat]
  BY DEF Typing, HostTypeOK, OwnTyping
<1>5. reg'["source"] = reg["source"]
  <2>1. CASE CopyRegister
    BY <1>4, <2>1, RegisterCall DEF CopyRegister
  <2>2. CASE CopyUnregister
    BY <1>4, <2>2, UnregisterCall DEF CopyUnregister
  <2>3. CASE CopyRegistered \/ CopyOff \/ CopyUnregistered
    BY <2>3 DEF CopyRegistered, CopyOff, CopyUnregistered, Quiet, Query, hostVars, inventory
  <2> QED
    BY <2>1, <2>2, <2>3 DEF MergeCopy
<1>6. Copied'
  BY <1>1, <1>2, <1>5 DEF Copied
<1>7. CASE pc' = "failing"
  BY <1>3, <1>7, ResultAway DEF Nowhere
<1>8. CASE CopyRegister
  <2>1. pc' = "copy.registered" /\ merge'.vm = "target"
    BY <1>8 DEF CopyRegister
  <2> QED
    BY <1>3, <1>6, <2>1, ResultCopying
<1>9. CASE CopyRegistered /\ pc' # "failing"
  <2>1. pc' = "copy.off" /\ merge'.vm = "target"
    BY <1>2, <1>4, <1>9 DEF CopyRegistered
  <2> QED
    BY <1>3, <1>6, <2>1, ResultCopying
<1>10. CASE CopyOff /\ pc' # "failing"
  <2>1. pc' = "merge.list" /\ merge'.vm = "target" /\ merge'.for = "copy"
    BY <1>2, <1>10 DEF CopyOff, Still, liveOwn
  <2> QED
    BY <1>3, <1>6, <2>1, ResultMerging DEF MergeLabels
<1>11. CASE CopyUnregister
  <2>1. pc' = "copy.unregistered" /\ merge'.vm = "target" /\ tree'["target"] = {}
    BY <1>1, <1>2, <1>11 DEF CopyUnregister, Still, liveOwn
  <2> QED
    BY <1>3, <1>6, <2>1, ResultCopying
<1>12. CASE CopyUnregistered /\ pc' # "failing"
  <2>1. /\ pc' = "merge.list" /\ ~Registered("target") /\ UNCHANGED reg
        /\ merge' = [for |-> "source", vm |-> "source", id |-> SourceId]
    BY <1>12 DEF CopyUnregistered, Begin, Quiet, Query, hostVars, inventory
  <2>2. reg' = OnlySource /\ tree'["target"] = {}
    BY <1>1, <1>2, <1>4, <1>12, <2>1 DEF Copied, Registered, OnlySource, CopyUnregistered
  <2> QED
    BY <1>3, <1>6, <2>1, <2>2, ResultMerging DEF MergeLabels
<1> QED
  BY <1>7, <1>8, <1>9, <1>10, <1>11, <1>12 DEF MergeCopy

(* What a merge does to the trees, and how it leaves the loop.             *)
LEMMA MergeDoes ==
  ASSUME OwnTyping, Merge
  PROVE  /\ tree' = tree \/ tree' = [tree EXCEPT ![merge.vm] = {}]
         /\ \/ pc' \in {"merge.remove", "merge.check"}
            \/ pc' = "finish" /\ merge.for = "move" /\ warned'
            \/ pc' = "failing" /\ merge.for # "move"
            \/ pc' = AfterMerge /\ tree[merge.vm] = {} /\ UNCHANGED tree
<1> USE DEF Goto, MergeFails, snapshots
<1>1. CASE MergeList
  BY <1>1 DEF MergeList
<1>2. CASE MergeRemove
  <2> DEFINE c == [op |-> "merge", vm |-> merge.vm, id |-> merge.id]
  <2>1. PICK done \in BOOLEAN :
           /\ IssueSnapshot(c, done)
           /\ IF done THEN pc' = "merge.check" /\ UNCHANGED warned ELSE MergeFails
    BY <1>2 DEF MergeRemove
  <2>2. c.op = "merge" /\ c.vm = merge.vm
    OBVIOUS
  <2> HIDE DEF c
  <2>3. tree' = tree \/ tree' = [tree EXCEPT ![merge.vm] = {}]
    BY <2>1, <2>2 DEF IssueSnapshot, SnapshotTakes
  <2> QED
    BY <2>1, <2>3
<1>3. CASE MergeCheck
  BY <1>3 DEF MergeCheck
<1> QED
  BY <1>1, <1>2, <1>3 DEF Merge

LEMMA MergeResult ==
  ASSUME Typing, OwnTyping, LiveStopInv, ResultInv, Merge
  PROVE  ResultInv'
<1>1. /\ UNCHANGED <<plan, reg, power, job, merge, landed, outside>> /\ pc \in MergeLabels
      /\ pc' \in {"finish", "failing", "merge.remove", "merge.check", "copy.unregister", "restore.finish"}
  BY MergeFrame DEF WorkFrame, MergeGo, Goes, MergeLabels
<1> SUFFICES ASSUME Undisturbed
             PROVE  ResultInv'
  BY <1>1 DEF ResultInv, Undisturbed
<1>2. job'.phase # "completed"
  <2>1. pc # "ended"
    BY <1>1 DEF MergeLabels
  <2> QED
    BY <1>1, <2>1 DEF ResultInv, EndPart
<1>3. /\ merge.for \in {"copy", "source", "move", "restore"} /\ merge.vm \in VMs /\ tree \in [VMs -> Trees]
      /\ tree' \in [VMs -> Trees]
  BY <1>1, MergeFrame DEF LiveStopInv, PurposeInv, OwnTyping, Purposes
<1>4. CASE pc' \in {"failing", "restore.finish"}
  BY <1>2, <1>4, ResultAway DEF Nowhere
<1>5. CASE merge.for = "restore" /\ pc' \notin {"failing", "restore.finish"}
  <2>1. pc' \in MergeLabels /\ merge'.for = "restore"
    BY <1>1, <1>5, MergeEnds DEF MergeLabels
  <2> QED
    BY <1>2, <2>1, ResultAway DEF Merging
<1>6. CASE merge.for = "copy" /\ pc' \notin {"failing", "restore.finish"}
  <2>1. Copied' /\ merge'.vm = "target" /\ merge'.for = "copy" /\ AfterMerge = "copy.unregister"
    BY <1>1, <1>6 DEF ResultInv, CopyPart, Merging, Copied, AfterMerge
  <2>2. CASE pc' \in MergeLabels
    BY <1>2, <2>1, <2>2, ResultMerging
  <2>3. CASE pc' \notin MergeLabels
    <3>1. pc' = "copy.unregister" /\ tree'["target"] = {}
      BY <1>1, <1>6, <2>1, <2>3, MergeDoes DEF MergeLabels
    <3> QED
      BY <1>2, <2>1, <3>1, ResultCopying DEF CopyLabels
  <2> QED
    BY <2>2, <2>3
<1>7. CASE merge.for = "source" /\ pc' \notin {"failing", "restore.finish"}
  <2>1. /\ Copied' /\ reg' = OnlySource /\ tree["target"] = {} /\ merge.vm = "source" /\ merge'.vm = "source"
        /\ merge'.for = "source" /\ AfterMerge = "finish"
    BY <1>1, <1>7 DEF ResultInv, CopyPart, Merging, Copied, AfterMerge
  <2>2. CASE pc' \in MergeLabels
    <3>1. tree'["target"] = {}
      BY <1>3, <2>1, MergeDoes
    <3> QED
      BY <1>2, <2>1, <2>2, <3>1, ResultMerging
  <2>3. CASE pc' \notin MergeLabels
    <3>1. pc' = "finish" /\ tree["source"] = {} /\ UNCHANGED tree
      BY <1>1, <1>7, <2>1, <2>3, MergeDoes DEF MergeLabels
    <3>2. tree' = [vm \in VMs |-> {}]
      BY <1>3, <2>1, <3>1
    <3>3. plan'.mode = "copy"
      BY <2>1 DEF Copied
    <3> QED
      BY <1>2, <2>1, <3>1, <3>2, <3>3, ResultFinishing
  <2> QED
    BY <2>2, <2>3
<1>8. CASE merge.for = "move" /\ pc' \notin {"failing", "restore.finish"}
  <2>1. /\ Moved' /\ merge.vm = "target" /\ merge'.vm = "target" /\ merge'.for = "move"
        /\ AfterMerge = "finish"
    BY <1>1, <1>8 DEF ResultInv, MovePart, Merging, Moved, OnlyTarget, Registered, Identified, AfterMerge
  <2>2. CASE pc' \in MergeLabels
    BY <1>2, <2>1, <2>2, ResultMerging
  <2>3. CASE pc' \notin MergeLabels
    <3>1. pc' = "finish" /\ (warned' \/ tree'["target"] = {})
      BY <1>1, <1>8, <2>1, <2>3, MergeDoes DEF MergeLabels
    <3>2. plan'.mode = "move"
      BY <2>1 DEF Moved
    <3> QED
      BY <1>2, <2>1, <3>1, <3>2, ResultFinishing
  <2> QED
    BY <2>2, <2>3
<1> QED
  BY <1>3, <1>4, <1>5, <1>6, <1>7, <1>8

LEMMA RestoreResult ==
  ASSUME Typing, OwnTyping, LiveStopInv, ResultInv, RestoreWork
  PROVE  ResultInv'
<1> USE DEF Goes
<1>1. /\ UNCHANGED <<landed, outside>> /\ RestoreGo /\ job'.phase = job.phase
      /\ UNCHANGED merge \/ (merge'.for = "restore" /\ merge'.vm = "source")
  BY RestoreFrame DEF WorkFrame
<1> SUFFICES ASSUME Undisturbed
             PROVE  ResultInv'
  BY <1>1 DEF ResultInv, Undisturbed
<1>2. job'.phase # "completed"
  <2>1. pc # "ended"
    BY <1>1 DEF RestoreGo
  <2> QED
    BY <1>1, <2>1 DEF ResultInv, EndPart
<1>3. CASE pc' \in Nowhere
  BY <1>2, <1>3, ResultAway
<1>4. CASE pc' \notin Nowhere
  <2>1. pc = "restore.tree" /\ pc' \in MergeLabels
    BY <1>1, <1>4 DEF RestoreGo, Nowhere, Rebuilding, MergeLabels
  <2>2. merge'.for = "restore"
    BY <1>1, <2>1 DEF LiveStopInv, PurposeInv
  <2> QED
    BY <1>2, <2>1, <2>2, ResultAway DEF Merging
<1> QED
  BY <1>3, <1>4

LEMMA BeginResult ==
  ASSUME Typing, OwnTyping, ResultInv, MergeTarget \/ Undo
  PROVE  ResultInv'
<1> USE DEF Goes
<1>1. /\ UNCHANGED <<plan, reg, power, landed, outside>> /\ (UNCHANGED job \/ job'.phase # "completed")
      /\ pc # "ended"
  BY BeginFrame DEF WorkFrame, Unfinished
<1> SUFFICES ASSUME Undisturbed
             PROVE  ResultInv'
  BY <1>1 DEF ResultInv, Undisturbed
<1>2. job'.phase # "completed"
  BY <1>1 DEF ResultInv, EndPart
<1>3. CASE Undo
  BY <1>2, <1>3, ResultAway, BeginFrame DEF Nowhere, Undo, UndoOrKeep, Goto
<1>4. CASE MergeTarget
  <2>1. /\ pc = "finish" /\ plan.mode = "move" /\ pc' = "merge.list"
        /\ merge' = [for |-> "move", vm |-> "target", id |-> job.targetId]
        /\ job' = [job EXCEPT !.phase = "consolidating"]
    BY <1>4 DEF MergeTarget, Begin, Goto, Phase
  <2>2. job'.targetId = job.targetId
    BY <2>1 DEF Typing, SwitchTypeOK, Jobs
  <2>3. Moved'
    BY <1>1, <2>1, <2>2 DEF ResultInv, MovePart, Moved, OnlyTarget, Registered, Identified
  <2> QED
    BY <1>2, <2>1, <2>3, ResultMerging DEF MergeLabels
<1> QED
  BY <1>3, <1>4

LEMMA WorkResult ==
  ASSUME Typing, OwnTyping, LiveStopInv, SeenOn, ResultInv, WorkSteps \/ VerifyDelta \/ RestoreFinish
  PROVE  ResultInv'
<1>1. CASE RestoreFinish
  <2>1. /\ UNCHANGED <<landed, outside>> /\ pc = "restore.finish" /\ pc' \in {"ended", "failing"}
        /\ job'.phase = "rolled_back" \/ UNCHANGED job
    BY <1>1, RestoreFinishFrame DEF Goes
  <2>2. Undisturbed => job'.phase # "completed"
    BY <2>1 DEF ResultInv, EndPart
  <2> QED
    BY <2>1, <2>2, ResultAway DEF ResultInv, Undisturbed, Nowhere
<1> QED
  BY <1>1, MainResult, VerdictResult, MergeCopyResult, MergeResult, RestoreResult, BeginResult
  DEF WorkSteps, MainSteps

LEMMA LiveInitResult == LiveInit => ResultInv
<1> SUFFICES ASSUME LiveInit
             PROVE  ResultInv
  OBVIOUS
<1>1. pc = "queued" /\ pc \in Main
  BY DEF LiveInit, Main, Before
<1>2. pc \notin CopyLabels /\ pc \notin MergeLabels /\ pc \notin Switching /\ pc # "finish"
      /\ pc \notin AfterShutdown /\ pc \notin {"copy.unregister", "copy.unregistered"}
  BY <1>1 DEF CopyLabels, MergeLabels, Switching, SwitchLabels, RollbackLabels, AfterShutdown
<1>3. Unmoved
  BY DEF LiveInit, HostInit, NewJob, Unmoved, Finals
<1>4. job.phase # "completed"
  BY <1>3 DEF Unmoved, Finals
<1> QED
  BY <1>1, <1>2, <1>3, <1>4 DEF ResultInv, HomePart, CopyPart, MovePart, EndPart, Merging

(* The switch and the start of the target, up to the last call: SwitchInv  *)
(* says where the MOVE is.                                                 *)
LEMMA SwitchingSteps ==
  ASSUME SwitchStep, pc \in Switching
  PROVE  /\ Commit \/ PowerOnLoop \/ PowerOnDeadline
         /\ pc' \in Switching \cup {"failing", "finish"}
<1> USE DEF Switching, SwitchLabels, RollbackLabels
<1>1. Commit \/ PowerOnLoop \/ PowerOnDeadline
  BY DEF SwitchStep, Engine, Finish, MarkFailed, Rollback, RollbackCheck, RollbackPower, RollbackMessage,
     RollbackUnregister, RollbackUnregistered, RollbackRegister, RollbackRegistered, RollbackFinish,
     RollbackStart, BrowserCloses, OperatorPowersOff
<1>2. pc' \in Switching \cup {"failing", "finish"}
  BY <1>1 DEF Commit, CommitCheck, CommitSourceOff, CommitUnregister, CommitUnregistered, CommitRegister,
     CommitRegistered, CommitRestore, CommitRestored, CommitTargetOff, Committed, PowerOnLoop,
     PowerOnCheck, PowerOnCommand, PowerOnPoll, PowerOnMessage, PowerOnAnswer, PowerOnDeadline
<1> QED
  BY <1>1, <1>2

LEMMA SwitchingResult ==
  ASSUME Typing, OwnTyping, ResultInv, SwitchSide, pc \in Switching
  PROVE  ResultInv'
<1>1. /\ SwitchStep /\ UNCHANGED merge /\ UNCHANGED <<landed, outside>>
      /\ Commit \/ PowerOnLoop \/ PowerOnDeadline
      /\ pc' \in Switching \cup {"failing", "finish"}
  BY Shaped, SwitchingSteps DEF Typing, SwitchSide, SwitchShape
<1> SUFFICES ASSUME Undisturbed
             PROVE  ResultInv'
  BY <1>1 DEF ResultInv, Undisturbed
<1>2. Facts /\ merge.for = "none" /\ TypeOK
  BY DEF ResultInv, MovePart, Typing, TypeOK, Switching
<1>3. Facts' /\ merge'.for = "none"
  BY <1>1, <1>2, CommitKeeps, PowerOnKeeps
<1>4. pc' \notin RollbackLabels \cup {"ended"} /\ job'.phase # "completed"
  <2>1. pc' \notin RollbackLabels \cup {"ended"}
    BY <1>1 DEF Switching, RollbackLabels
  <2> QED
    BY <1>3, <2>1 DEF Facts, OutcomeInv
<1>5. CASE pc' \in Switching
  BY <1>3, <1>5, ResultSwitching
<1>6. CASE pc' = "failing"
  BY <1>4, <1>6, ResultAway DEF Nowhere
<1>7. CASE pc' = "finish"
  <2>1. Moved'
    BY <1>3, <1>7 DEF Facts, RegistrationInv, PowerInv, Moved
  <2>2. plan'.mode # "copy"
    BY <2>1 DEF Moved
  <2> QED
    BY <1>3, <1>4, <1>7, <2>1, <2>2, ResultFinishing
<1> QED
  BY <1>1, <1>5, <1>6, <1>7

LEMMA ResultEnding ==
  ASSUME pc' = "ended", ~job'.canRollback, LiveResult'
  PROVE  ResultInv'
<1>1. pc' \in Nowhere
  BY DEF Nowhere
<1>2. pc' \notin Main /\ pc' \notin CopyLabels /\ pc' \notin MergeLabels /\ pc' \notin Switching
      /\ pc' # "finish" /\ pc' \notin AfterShutdown
  BY <1>1, Apart
<1>3. pc' \notin {"copy.unregister", "copy.unregistered"}
  BY <1>2 DEF CopyLabels
<1> QED
  BY <1>2, <1>3 DEF ResultInv, HomePart, CopyPart, MovePart, EndPart, Merging

(* The last call: what CopyPart and MovePart say at "finish" is LiveResult. *)
LEMMA FinishResult ==
  ASSUME Typing, OwnTyping, ResultInv, SwitchSide, pc = "finish"
  PROVE  ResultInv'
<1>1. Finish
  BY DEF SwitchSide, SwitchStep, Engine, Commit, CommitCheck, CommitSourceOff, CommitUnregister,
     CommitUnregistered, CommitRegister, CommitRegistered, CommitRestore, CommitRestored, CommitTargetOff,
     Committed, PowerOnLoop, PowerOnCheck, PowerOnCommand, PowerOnPoll, PowerOnMessage, PowerOnAnswer,
     PowerOnDeadline, MarkFailed, Rollback, RollbackCheck, RollbackPower, RollbackMessage,
     RollbackUnregister, RollbackUnregistered, RollbackRegister, RollbackRegistered, RollbackFinish,
     RollbackStart, BrowserCloses, OperatorPowersOff, RollbackLabels
<1>2. /\ UNCHANGED <<plan, reg, power, landed, outside, tree, warned, merge>>
      /\ plan.mode = "move" => merge.for = "move"
  BY <1>1 DEF Finish, Local, inventory, SwitchSide, snapshots
<1> SUFFICES ASSUME Undisturbed
             PROVE  ResultInv'
  BY <1>2 DEF ResultInv, Undisturbed
<1>3. /\ job.phase # "completed" /\ job \in Jobs /\ plan \in Requests
      /\ plan.mode = "copy" => Copied /\ reg = OnlySource /\ tree = [vm \in VMs |-> {}]
      /\ plan.mode = "move" => Moved /\ (~warned => tree["target"] = {})
  BY <1>2 DEF ResultInv, EndPart, CopyPart, MovePart, Typing, SwitchTypeOK
<1>4. CASE pc' = "failing"
  <2>1. job'.phase # "completed"
    BY <1>1, <1>3, <1>4 DEF Finish
  <2> QED
    BY <1>4, <2>1, ResultAway DEF Nowhere
<1>5. CASE pc' # "failing"
  <2>1. /\ lock' = "archived" /\ pc' = "ended"
        /\ job' = [job EXCEPT !.phase = "completed", !.complete = TRUE, !.canRollback = FALSE]
    BY <1>1, <1>5 DEF Finish, FinishOk, Archived
  <2>2. ~job'.canRollback /\ job'.targetId = job.targetId
    BY <1>3, <2>1 DEF Jobs
  <2>3. CASE plan.mode = "copy"
    <3>1. ~plan.powerOn
      BY <1>3, <2>3 DEF Requests
    <3>2. LiveResult'
      BY <1>2, <1>3, <2>1, <2>3, <3>1 DEF LiveResult, Copied
    <3> QED
      BY <2>1, <2>2, <3>2, ResultEnding
  <2>4. CASE plan.mode = "move"
    <3>1. LiveResult'
      BY <1>2, <1>3, <2>1, <2>2, <2>4 DEF LiveResult, Moved, OnlyTarget, Registered, Identified
    <3> QED
      BY <2>1, <2>2, <3>1, ResultEnding
  <2> QED
    BY <1>3, <2>3, <2>4 DEF Requests
<1> QED
  BY <1>4, <1>5

(* A rollback ends as failed or rolled back.                               *)
LEMMA RollbackPhase ==
  ASSUME SwitchTypeOK, SwitchStep, pc \in RollbackLabels
  PROVE  job'.phase \in {job.phase, "rolled_back"}
<1> USE DEF RollbackLabels
<1>1. job \in Jobs
  BY DEF SwitchTypeOK
<1>2. Rollback \/ BrowserCloses
  BY DEF SwitchStep, Engine, Commit, CommitCheck, CommitSourceOff, CommitUnregister,
     CommitUnregistered, CommitRegister, CommitRegistered, CommitRestore, CommitRestored, CommitTargetOff,
     Committed, PowerOnLoop, PowerOnCheck, PowerOnCommand, PowerOnPoll, PowerOnMessage, PowerOnAnswer,
     PowerOnDeadline, Finish, MarkFailed, RollbackStart, OperatorPowersOff
<1> QED
  BY <1>1, <1>2 DEF BrowserCloses, Rollback, RollbackCheck, RollbackPower, RollbackMessage,
     RollbackUnregister, RollbackUnregistered, RollbackRegister, RollbackRegistered, RollbackFinish,
     OfferWithdrawn, Published, Jobs

LEMMA SwitchResult ==
  ASSUME Typing, OwnTyping, ResultInv, SwitchSide
  PROVE  ResultInv'
<1>1. /\ SwitchShape /\ pc \in SwitchLabels /\ SwitchStep
  BY Shaped, SwitchStepTyped DEF Typing, SwitchSide
<1>2. UNCHANGED <<landed, outside>>
  BY <1>1 DEF SwitchShape
<1>3. CASE pc \in Switching
  BY <1>3, SwitchingResult
<1>4. CASE pc = "finish"
  BY <1>4, FinishResult
<1>5. CASE pc \notin Switching /\ pc # "finish"
  <2> SUFFICES ASSUME Undisturbed
               PROVE  ResultInv'
    BY <1>2 DEF ResultInv, Undisturbed
  <2>1. job.phase = "completed" => pc = "ended" /\ ~job.canRollback
    BY DEF ResultInv, EndPart
  <2>2. pc \in {"failing", "ended"} \cup RollbackLabels
    BY <1>1, <1>5 DEF Switching
  <2>3. pc' \in {"ended"} \cup RollbackLabels
    BY <1>1, <2>2 DEF SwitchShape, Closed
  <2>4. job'.phase # "completed"
    <3>1. CASE pc = "failing"
      BY <1>1, <3>1 DEF SwitchShape
    <3>2. CASE pc = "ended"
      BY <1>1, <2>1, <3>2 DEF SwitchShape
    <3>3. CASE pc \in RollbackLabels
      <4>1. job.phase # "completed"
        BY <2>1, <3>3 DEF RollbackLabels
      <4> QED
        BY <1>1, <3>3, <4>1, RollbackPhase DEF Typing
    <3> QED
      BY <2>2, <3>1, <3>2, <3>3
  <2> QED
    BY <2>3, <2>4, ResultAway DEF Nowhere
<1> QED
  BY <1>3, <1>4, <1>5

(***************************************************************************)
(* The steps beside the engine.                                            *)
(***************************************************************************)
LEMMA ResultSame ==
  ASSUME ResultInv, UNCHANGED <<hostVars, switchVars, merge, tree, warned>>
  PROVE  ResultInv'
<1> USE DEF hostVars, inventory, switchVars, Undisturbed
<1>1. UNCHANGED <<Unmoved, Copied, Moved, Facts, LiveResult>>
  <2>1. UNCHANGED <<Unmoved, Copied, Moved, LiveResult>>
    BY DEF Unmoved, Copied, Moved, LiveResult, OnlyTarget, Registered, Identified
  <2>2. UNCHANGED Facts
    BY DEF Facts, RegistrationInv, ViewInv, OfferInv, PowerInv, OutcomeInv, OnlyTarget, Registered,
       Identified, Restored
  <2> QED
    BY <2>1, <2>2
<1> QED
  BY <1>1 DEF ResultInv, HomePart, CopyPart, MovePart, EndPart, Merging

LEMMA AsideResult ==
  ASSUME Typing, OwnTyping, ResultInv, Aside
  PROVE  ResultInv'
<1>1. CASE Operator \/ Worker
  BY <1>1, OperatorTyped, WorkerTyped, ResultSame DEF Aside, liveOwn, snapshots
<1>2. CASE GuestStops
  <2>1. /\ power' = [power EXCEPT !["source"] = "off"] /\ UNCHANGED <<reg, question, landed, outside>>
        /\ UNCHANGED <<switchVars, merge>>
        /\ pc \in {"shutdown.poll", "shutdown.await", "shutdown.revalidate", "shutdown.force"}
    BY <1>2 DEF GuestStops, Aside, liveOwn
  <2>2. pc \in Main /\ pc' \in Main /\ pc' \notin AfterShutdown
    BY <2>1 DEF switchVars, Main, Cutover, AfterShutdown
  <2> SUFFICES ASSUME Undisturbed
               PROVE  ResultInv'
    BY <2>1 DEF ResultInv, Undisturbed
  <2>3. Unmoved'
    BY <2>1, <2>2 DEF ResultInv, HomePart, Unmoved, switchVars, Typing, HostTypeOK
  <2> QED
    BY <2>2, <2>3, ResultAtHome
<1> QED
  BY <1>1, <1>2 DEF Aside

LEMMA LiveNextSeen == LiveTypeOK /\ SeenOn /\ [LiveNext]_liveVars => SeenOn'
<1> SUFFICES ASSUME LiveTypeOK, SeenOn, [LiveNext]_liveVars
             PROVE  SeenOn'
  OBVIOUS
<1>0. Typing /\ OwnTyping
  BY LiveTypes
<1>1. CASE MainSteps
  BY <1>0, <1>1, MainSeen
<1>2. CASE Merge \/ MergeCopy \/ RestoreWork \/ MergeTarget \/ Undo \/ VerifyDelta \/ RestoreFinish
  <2>1. pc' \notin Seen
    <3> USE DEF Seen, OnBase, Watching, Goes
    <3>1. CASE Merge
      BY <1>0, <3>1, MergeFrame DEF MergeGo
    <3>2. CASE MergeCopy
      BY <1>0, <3>2, MergeCopyFrame DEF MergeCopyGo
    <3>3. CASE RestoreWork
      BY <1>0, <3>3, RestoreFrame DEF RestoreGo
    <3>4. CASE MergeTarget \/ Undo
      BY <3>4 DEF MergeTarget, Begin, Goto, Undo, UndoOrKeep
    <3>5. CASE VerifyDelta
      BY <1>0, <3>5, VerifyFrame
    <3>6. CASE RestoreFinish
      BY <1>0, <3>6, RestoreFinishFrame
    <3> QED
      BY <1>2, <3>1, <3>2, <3>3, <3>4, <3>5, <3>6
  <2> QED
    BY <2>1 DEF SeenOn
<1>3. CASE SwitchSide
  <2>1. pc' \in SwitchLabels
    BY <1>0, <1>3, SwitchStepTyped DEF Typing, SwitchSide
  <2> QED
    BY <2>1 DEF SeenOn, Seen, OnBase, Watching, SwitchLabels, RollbackLabels
<1>4. CASE Aside \/ LiveDisturb \/ SnapshotSide
  <2>1. UNCHANGED <<pc, polled>>
    BY <1>0, <1>4, OperatorTyped, GuestTyped, WorkerTyped, DisturbFrame, SnapshotSideFrame
    DEF Aside, switchVars
  <2> QED
    BY <2>1 DEF SeenOn
<1>5. CASE UNCHANGED liveVars
  BY <1>5 DEF SeenOn, liveVars, vars, switchVars
<1> QED
  BY <1>1, <1>2, <1>3, <1>4, <1>5, LiveCases DEF MainSteps, WorkSteps

LEMMA LiveNextResult ==
  LiveTypeOK /\ LiveStopInv /\ SeenOn /\ ResultInv /\ [LiveNext]_liveVars => ResultInv'
<1> SUFFICES ASSUME LiveTypeOK, LiveStopInv, SeenOn, ResultInv, [LiveNext]_liveVars
             PROVE  ResultInv'
  OBVIOUS
<1>0. Typing /\ OwnTyping
  BY LiveTypes
<1>1. CASE WorkSteps \/ VerifyDelta \/ RestoreFinish
  BY <1>0, <1>1, WorkResult
<1>2. CASE JobSide \/ CloneSide
  BY <1>0, <1>2, MainResult DEF MainSteps
<1>3. CASE SwitchSide
  BY <1>0, <1>3, SwitchResult
<1>4. CASE Aside
  BY <1>0, <1>4, AsideResult
<1>5. CASE LiveDisturb \/ SnapshotSide
  BY <1>0, <1>5, DisturbFrame, SnapshotSideFrame DEF ResultInv
<1>6. CASE UNCHANGED liveVars
  BY <1>6, ResultSame DEF liveVars, vars, liveOwn, snapshots
<1> QED
  BY <1>1, <1>2, <1>3, <1>4, <1>5, <1>6, LiveCases

(* A live job that says it completed ended as the README's table promises: *)
(* see LiveResult.                                                         *)
THEOREM LiveEndsAsPromised == LiveSpec => []LiveResult
<1>1. ResultInv => LiveResult
  BY DEF ResultInv, EndPart, LiveResult
<1> QED
  BY <1>1, LiveTyped, LiveInitStop, LiveNextStop, LiveInitSeen, LiveNextSeen, LiveInitResult, LiveNextResult,
     PTL DEF LiveSpec

(***************************************************************************)
(* A live migration implements LiveRelocation.  What is needed beside      *)
(* ResultInv: which places a reported result or undo belongs to, and that  *)
(* an undo is possible only as long as the target has not been started.    *)
(***************************************************************************)
RestoreAt ==
    \/ pc \in {"restore.check", "restore.tree", "restore.finish"} \cup Rebuilding
    \/ Merging("restore")
JobRuns == job.phase \notin Finals \cup {"restoring"}

PhasePart ==
    /\ job.phase \in Finals \ {"unknown"} => pc \in Closed
    /\ job.phase = "unknown" => pc \in {"failing", "ended"} /\ ~job.canRollback
    /\ job.phase = "restoring" => (pc = "failing" \/ RestoreAt) /\ undo = "begun"
    /\ RestoreAt => job.phase = "restoring"
    /\ pc = "ended" /\ job.canRollback => job.phase = "failed"

TargetPart ==
    /\ undo # "none" => power["target"] = "off"
    /\ pc \in PowerOnLabels => undo = "none"
    /\ pc = "restore.register" => reg = Nobody

ReportInv == Undisturbed => RollbackInv /\ PhasePart /\ TargetPart

LEMMA LiveInitReport == LiveInit => ReportInv
<1> SUFFICES ASSUME LiveInit
             PROVE  ReportInv
  OBVIOUS
<1>1. pc = "queued" /\ job.phase = "queued" /\ undo = "none"
  BY DEF LiveInit, NewJob
<1>2. ~RestoreAt
  BY <1>1 DEF RestoreAt, Merging, MergeLabels, Rebuilding
<1> QED
  BY <1>1, <1>2 DEF ReportInv, RollbackInv, PhasePart, TargetPart, Finals, RollbackLabels, PowerOnLabels

(* A running job keeps running, whatever the step is.                      *)
LEMMA ReportRunning ==
  ASSUME pc' \notin Closed, JobRuns', ~RestoreAt', TargetPart'
  PROVE  ReportInv'
<1>1. job'.phase \notin Finals /\ job'.phase # "restoring" /\ job'.phase # "unknown"
  BY DEF JobRuns, Finals
<1>2. pc' \notin RollbackLabels /\ pc' # "ended"
  BY DEF Closed
<1> QED
  BY <1>1, <1>2 DEF ReportInv, RollbackInv, PhasePart

(* Only a failed job, an ended one and an undo report anything else.       *)
LEMMA StillRunning ==
  ASSUME ReportInv, Undisturbed, pc \notin Closed \cup {"failing"}, ~RestoreAt
  PROVE  JobRuns
  BY DEF ReportInv, PhasePart, JobRuns, Finals, Closed

LEMMA TargetStays ==
  ASSUME TargetPart, power'["target"] = power["target"], undo' # "none" => undo # "none",
         pc' \notin PowerOnLabels, pc' = "restore.register" => reg' = Nobody
  PROVE  TargetPart'
  BY DEF TargetPart

LEMMA Elsewhere ==
  /\ \A l \in Main \cup CopyLabels \cup MergeLabels :
         l \notin Closed \cup PowerOnLabels \cup {"failing", "finish", "stopped", "restore.register"}
  /\ \A l \in Main \cup CopyLabels \cup SwitchLabels \cup {"stopped"} :
         l \notin MergeLabels \cup Rebuilding \cup {"restore.check", "restore.tree", "restore.finish"}
  /\ \A l \in Switching \cup {"finish"} : l \notin Closed \cup {"failing"}
  /\ "stopped" \notin Closed \cup PowerOnLabels /\ "failing" \notin Closed \cup PowerOnLabels
  /\ \A l \in {"restore.check", "restore.tree", "restore.finish"} \cup Rebuilding :
         l \notin Closed \cup PowerOnLabels \cup {"failing", "finish", "stopped"}
  BY DEF Main, Before, OnBase, Watching, Cutover, CopyLabels, MergeLabels, SwitchLabels, RollbackLabels,
         Rebuilding, Switching, Closed, PowerOnLabels

LEMMA NoRestore ==
  ASSUME pc' \in Main \cup CopyLabels \cup SwitchLabels \cup {"stopped"}
  PROVE  ~RestoreAt'
  BY Elsewhere DEF RestoreAt, Merging

(***************************************************************************)
(* What a step is in LiveRelocation, on an undisturbed host.               *)
(***************************************************************************)
LiveShown == UNCHANGED plan /\ (LivePromised!LivePromise \/ UNCHANGED LivePromised!relocationVars)

Committing == pc \in RollbackCommits

LEMMA LiveUnseen ==
  ASSUME UNCHANGED <<plan, reg, landed, outside>>, power'["target"] = power["target"],
         UNCHANGED LiveOutcome, job'.canRollback = job.canRollback, Committing <=> Committing'
  PROVE  LiveShown
<1>1. UNCHANGED Home
  BY HomeFrame
<1>2. UNCHANGED Undisturbed
  BY DEF Undisturbed
<1>3. /\ UNCHANGED (power["target"] = "on")
      /\ UNCHANGED (~Undisturbed)
      /\ UNCHANGED (pc \in RollbackCommits)
  BY <1>2 DEF Committing
<1> QED
  BY <1>1, <1>3 DEF LiveShown, LivePromised!relocationVars

LEMMA LiveRelocated ==
  ASSUME NEW from, NEW to, Home = from, Home' = to,
         power'["target"] = power["target"], UNCHANGED LiveOutcome, job'.canRollback = job.canRollback,
         Committing <=> Committing'
  PROVE  LivePromised!Moves(from, to)
<1>1. UNCHANGED (power["target"] = "on") /\ UNCHANGED (pc \in RollbackCommits)
  BY DEF Committing
<1> QED
  BY <1>1 DEF LivePromised!Moves

LEMMA RunsOn == JobRuns => LiveOutcome = "running"
  BY DEF JobRuns, LiveOutcome, Outcome, Finals

(* The switch, the start and the rollback are those of Relocation.         *)
LEMMA SwitchShown ==
  ASSUME Shown, job.phase # "restoring", job'.phase # "restoring"
  PROVE  LiveShown
<1>1. LiveOutcome = Outcome /\ LiveOutcome' = Outcome'
  BY DEF LiveOutcome
<1>2. CASE UNCHANGED Promised!relocationVars
  <2>1. UNCHANGED LivePromised!relocationVars
    BY <1>1, <1>2 DEF Promised!relocationVars, LivePromised!relocationVars
  <2> QED
    BY <2>1 DEF Shown, LiveShown
<1>3. CASE Promised!Promise
  <2>1. LivePromised!Promise
    BY <1>1, <1>3
    DEF Promised!Promise, Promised!LeaveSource, Promised!ReachTarget, Promised!ReturnAtOnce,
        Promised!LeaveTarget, Promised!ReturnLater, Promised!StartTarget, Promised!StopTarget,
        Promised!Offer, Promised!Withdraw, Promised!Complete, Promised!Stop, Promised!Fail,
        Promised!TakeBack, Promised!RollbackEnds, Promised!Moves,
        LivePromised!Promise, LivePromised!LeaveSource, LivePromised!ReachTarget, LivePromised!ReturnAtOnce,
        LivePromised!LeaveTarget, LivePromised!ReturnLater, LivePromised!StartTarget, LivePromised!StopTarget,
        LivePromised!Offer, LivePromised!Withdraw, LivePromised!Complete, LivePromised!Stop, LivePromised!Fail,
        LivePromised!TakeBack, LivePromised!RollbackEnds, LivePromised!Moves
  <2> QED
    BY <2>1 DEF Shown, LiveShown, LivePromised!LivePromise
<1> QED
  BY <1>2, <1>3 DEF Shown

(***************************************************************************)
(* ReportInv through the steps.                                            *)
(***************************************************************************)
(* A running job that goes on to a place of no consequence.                *)
LEMMA ReportOn ==
  ASSUME TargetPart, JobRuns', ~RestoreAt', pc' \notin Closed \cup PowerOnLabels \cup {"restore.register"},
         power'["target"] = power["target"], undo' # "none" => undo # "none"
  PROVE  ReportInv'
<1>1. TargetPart'
  BY TargetStays
<1> QED
  BY <1>1, ReportRunning

LEMMA MainReport ==
  ASSUME Typing, OwnTyping, ResultInv, ReportInv, MainSteps
  PROVE  ReportInv'
<1>1. /\ UNCHANGED <<reg, landed, outside, merge>> /\ power'["target"] = power["target"]
      /\ pc \in Main /\ pc' \in Main \cup {"failing", "stopped"}
  BY MainHost
<1> SUFFICES ASSUME Undisturbed
             PROVE  ReportInv'
  BY <1>1 DEF ReportInv, Undisturbed
<1>2. power["target"] = "off" /\ ~job.canRollback
  BY <1>1 DEF ResultInv, HomePart, Unmoved
<1>3. pc \notin Closed \cup {"failing"} /\ ~RestoreAt
  BY <1>1, Elsewhere DEF RestoreAt, Merging
<1>4. JobRuns
  BY <1>3, StillRunning
<1>5. pc' \notin Closed \cup PowerOnLabels \cup {"restore.register"} /\ ~RestoreAt'
  <2>1. "failing" \notin Closed \cup PowerOnLabels /\ "stopped" \notin Closed \cup PowerOnLabels
    BY Elsewhere
  <2>2. pc' \in Main \cup CopyLabels \cup SwitchLabels \cup {"stopped"}
    BY <1>1 DEF SwitchLabels
  <2> QED
    BY <1>1, <2>1, <2>2, Elsewhere, NoRestore
<1>6. TargetPart'
  BY <1>1, <1>2, <1>5 DEF TargetPart
<1>7. job \in Jobs
  BY DEF Typing, SwitchTypeOK
<1>8. CASE UNCHANGED job \/ \E p \in Phases \ (Finals \cup {"restoring"}) : Phase(p)
  <2>1. JobRuns'
    BY <1>4, <1>7, <1>8 DEF JobRuns, Phase, Jobs
  <2> QED
    BY <1>5, <1>6, <2>1, ReportRunning
<1>9. CASE Phase("unknown") /\ pc' = "failing"
  <2>1. job'.phase = "unknown" /\ ~job'.canRollback
    BY <1>2, <1>7, <1>9 DEF Phase, Jobs, Phases
  <2>2. pc' \notin Closed /\ pc' \notin RollbackLabels /\ pc' # "ended"
    BY <1>5 DEF Closed
  <2> QED
    BY <1>5, <1>6, <1>9, <2>1, <2>2 DEF ReportInv, RollbackInv, PhasePart
<1> QED
  BY <1>8, <1>9, MainPage

LEMMA VerdictReport ==
  ASSUME Typing, OwnTyping, ReportInv, VerifyDelta
  PROVE  ReportInv'
<1>1. /\ UNCHANGED <<power, landed, outside, undo, merge>> /\ pc = "verify.all"
      /\ pc' \in {"failing", "verify.all", "commit.check", "copy.register"}
      /\ job'.phase \in {job.phase, "consolidating"}
  BY VerifyFrame DEF Query, hostVars, inventory, liveOwn, Goes
<1> SUFFICES ASSUME Undisturbed
             PROVE  ReportInv'
  BY <1>1 DEF ReportInv, Undisturbed
<1>2. pc \in Main /\ pc' \in Main \cup CopyLabels \cup SwitchLabels
  BY <1>1 DEF Main, Cutover, CopyLabels, SwitchLabels
<1>3. JobRuns
  BY <1>2, Elsewhere, StillRunning DEF RestoreAt, Merging
<1>4. JobRuns'
  BY <1>1, <1>3 DEF JobRuns, Finals
<1>5. ~RestoreAt' /\ pc' \notin Closed \cup PowerOnLabels \cup {"restore.register"}
  BY <1>1, <1>2, NoRestore DEF Closed, RollbackLabels, PowerOnLabels
<1> QED
  BY <1>1, <1>4, <1>5, ReportOn DEF ReportInv

LEMMA MergeCopyReport ==
  ASSUME Typing, OwnTyping, LiveStopInv, ReportInv, MergeCopy
  PROVE  ReportInv'
<1> USE DEF CopyLabels, MergeLabels
<1>1. /\ UNCHANGED <<power, landed, outside, undo>> /\ pc \in CopyLabels
      /\ pc' \in CopyLabels \cup {"failing", "merge.list"}
      /\ job'.phase \in {job.phase, "consolidating"}
  BY MergeCopyFrame DEF WorkFrame, MergeCopyGo, Goes
<1> SUFFICES ASSUME Undisturbed
             PROVE  ReportInv'
  BY <1>1 DEF ReportInv, Undisturbed
<1>2. JobRuns
  BY <1>1, Elsewhere, StillRunning DEF RestoreAt, Merging
<1>3. JobRuns'
  BY <1>1, <1>2 DEF JobRuns, Finals
<1>4. ~RestoreAt'
  <2>1. CASE pc' = "merge.list"
    <3>1. CASE CopyOff
      BY <3>1 DEF CopyOff, Still, liveOwn, Advance, LiveStopInv, PurposeInv, RestoreAt, Merging, Goto, Rebuilding
    <3>2. CASE CopyUnregistered
      BY <2>1, <3>2 DEF CopyUnregistered, Begin, Goto, RestoreAt, Merging, Rebuilding
    <3>3. CASE CopyRegister \/ CopyRegistered \/ CopyUnregister
      BY <2>1, <3>3 DEF CopyRegister, CopyRegistered, CopyUnregister, Goto
    <3> QED
      BY <3>1, <3>2, <3>3 DEF MergeCopy
  <2>2. CASE pc' # "merge.list"
    BY <1>1, <2>2, NoRestore DEF SwitchLabels
  <2> QED
    BY <2>1, <2>2
<1>5. pc' \notin Closed \cup PowerOnLabels \cup {"restore.register"}
  BY <1>1, Elsewhere
<1> QED
  BY <1>1, <1>3, <1>4, <1>5, ReportOn DEF ReportInv

LEMMA MergeReport ==
  ASSUME Typing, OwnTyping, ReportInv, Merge
  PROVE  ReportInv'
<1> USE DEF MergeLabels
<1>1. /\ UNCHANGED <<reg, power, job, merge, undo, landed, outside>> /\ pc \in MergeLabels
      /\ pc' \in {"finish", "failing", "copy.unregister", "restore.finish"} \cup MergeLabels
  BY MergeFrame DEF WorkFrame, MergeGo, Goes
<1> SUFFICES ASSUME Undisturbed
             PROVE  ReportInv'
  BY <1>1 DEF ReportInv, Undisturbed
<1>2. pc \notin Closed \cup {"failing"} /\ pc' \notin Closed \cup PowerOnLabels \cup {"restore.register"}
      /\ pc' \notin RollbackLabels /\ pc' # "ended"
  <2>1. "finish" \notin Closed \cup PowerOnLabels
    BY DEF Closed, RollbackLabels, PowerOnLabels
  <2>2. "copy.unregister" \in CopyLabels
    BY DEF CopyLabels
  <2> QED
    BY <1>1, <2>1, <2>2, Elsewhere DEF Closed
<1>3. CASE merge.for = "restore"
  <2>1. RestoreAt /\ job.phase = "restoring" /\ undo = "begun"
    BY <1>1, <1>3 DEF RestoreAt, Merging, ReportInv, PhasePart
  <2>2. pc' = "failing" \/ RestoreAt'
    BY <1>1, <1>3, MergeEnds DEF RestoreAt, Merging
  <2>3. TargetPart'
    BY <1>1, <1>2, TargetStays DEF ReportInv
  <2> QED
    BY <1>1, <1>2, <2>1, <2>2, <2>3 DEF ReportInv, RollbackInv, PhasePart, Finals
<1>4. CASE merge.for # "restore"
  <2>1. ~RestoreAt
    BY <1>1, <1>4 DEF RestoreAt, Merging, Rebuilding
  <2>2. JobRuns'
    BY <1>1, <1>2, <2>1, StillRunning DEF JobRuns
  <2>3. ~RestoreAt'
    <3>1. pc' # "restore.finish"
      BY <1>4, MergeEnds
    <3> QED
      BY <1>1, <1>4, <3>1 DEF RestoreAt, Merging, Rebuilding
  <2> QED
    BY <1>1, <1>2, <2>2, <2>3, ReportOn DEF ReportInv
<1> QED
  BY <1>3, <1>4

LEMMA RestoreReport ==
  ASSUME Typing, OwnTyping, LiveStopInv, ReportInv, RestoreWork
  PROVE  ReportInv'
<1> USE DEF Rebuilding, MergeLabels
<1>1. /\ UNCHANGED <<power, undo, landed, outside>> /\ job'.phase = job.phase /\ RestoreGo
      /\ UNCHANGED merge \/ merge'.for = "restore"
  BY RestoreFrame DEF WorkFrame
<1> SUFFICES ASSUME Undisturbed
             PROVE  ReportInv'
  BY <1>1 DEF ReportInv, Undisturbed
<1>2. RestoreAt /\ job.phase = "restoring" /\ undo = "begun"
  BY <1>1 DEF RestoreGo, Goes, RestoreAt, ReportInv, PhasePart
<1>3. pc' = "failing" \/ RestoreAt'
  BY <1>1 DEF RestoreGo, Goes, RestoreAt, Merging, LiveStopInv, PurposeInv
<1>4. pc' \notin Closed \cup PowerOnLabels
  BY <1>1 DEF RestoreGo, Goes, Closed, RollbackLabels, PowerOnLabels
<1>5. pc' = "restore.register" => reg' = Nobody
  <2>1. reg \in [VMs -> Nat]
    BY DEF Typing, HostTypeOK
  <2>2. CASE RestoreCheck
    BY <2>2 DEF RestoreCheck, Goto, Quiet, Query, hostVars, inventory
  <2>3. CASE RestoreUnregistered
    BY <2>1, <2>3 DEF RestoreUnregistered, Goto, Quiet, Query, hostVars, inventory, Registered, Nobody
  <2>4. CASE RestoreOff \/ RestoreUnregister \/ RestoreRegister \/ RestoreRegistered \/ RestoreTree
    BY <2>4 DEF RestoreOff, RestoreUnregister, RestoreRegister, RestoreRegistered, RestoreTree, Advance, Goto
  <2> QED
    BY <2>2, <2>3, <2>4 DEF RestoreWork
<1>6. TargetPart'
  BY <1>1, <1>4, <1>5, TargetStays DEF ReportInv
<1> QED
  BY <1>1, <1>2, <1>3, <1>4, <1>6 DEF ReportInv, RollbackInv, PhasePart, Finals, Closed

LEMMA BeginReport ==
  ASSUME Typing, OwnTyping, KnownInv, ReportInv, MergeTarget \/ Undo
  PROVE  ReportInv'
<1> USE DEF Goto
<1>1. UNCHANGED <<reg, power, landed, outside>>
  BY BeginFrame DEF WorkFrame
<1> SUFFICES ASSUME Undisturbed
             PROVE  ReportInv'
  BY <1>1 DEF ReportInv, Undisturbed
<1>2. job \in Jobs
  BY DEF Typing, SwitchTypeOK
<1>3. CASE MergeTarget
  <2>1. pc = "finish" /\ pc' = "merge.list" /\ merge'.for = "move" /\ UNCHANGED undo /\ Phase("consolidating")
    BY <1>3 DEF MergeTarget, Begin, KeepSnapshots
  <2>2. JobRuns'
    BY <1>2, <2>1 DEF Phase, Jobs, JobRuns, Finals
  <2>3. ~RestoreAt' /\ pc' \notin Closed \cup PowerOnLabels \cup {"restore.register"}
    BY <2>1 DEF RestoreAt, Merging, Rebuilding, Closed, RollbackLabels, PowerOnLabels
  <2> QED
    BY <1>1, <2>1, <2>2, <2>3, ReportOn DEF ReportInv
<1>4. CASE Undo
  <2>1. pc \in {"failing", "stopped"} /\ undo = "due" /\ undo' = "begun"
    BY <1>4 DEF Undo, Unfinished
  <2>2. \/ unproven /\ pc' = "failing" /\ UNCHANGED job
        \/ pc' = "restore.check" /\ Phase("restoring")
    BY <1>4 DEF Undo, UndoOrKeep
  <2>3. TargetPart'
    BY <1>1, <2>1, <2>2 DEF ReportInv, TargetPart, PowerOnLabels
  <2>4. CASE unproven /\ pc' = "failing" /\ UNCHANGED job
    <3>1. job.phase = "unknown"
      BY <2>1, <2>4 DEF KnownInv, Watching
    <3> QED
      BY <2>3, <2>4, <3>1 DEF ReportInv, PhasePart, RollbackInv, RollbackLabels, RestoreAt, Merging, MergeLabels,
         Rebuilding
  <2>5. CASE pc' = "restore.check" /\ Phase("restoring")
    <3>1. job'.phase = "restoring"
      BY <1>2, <2>5 DEF Phase, Jobs
    <3> QED
      BY <2>1, <2>3, <2>5, <3>1 DEF ReportInv, PhasePart, RollbackInv, RollbackLabels, RestoreAt, Finals
  <2> QED
    BY <2>2, <2>4, <2>5
<1> QED
  BY <1>3, <1>4

LEMMA RestoreFinishReport ==
  ASSUME Typing, OwnTyping, ReportInv, RestoreFinish
  PROVE  ReportInv'
<1>1. /\ UNCHANGED <<reg, power, landed, outside>> /\ pc = "restore.finish"
      /\ \/ pc' = "ended" /\ undo' = "done" /\ job'.phase = "rolled_back" /\ ~job'.canRollback
         \/ pc' = "failing" /\ UNCHANGED <<job, undo>>
  BY RestoreFinishFrame DEF Goes
<1> SUFFICES ASSUME Undisturbed
             PROVE  ReportInv'
  BY <1>1 DEF ReportInv, Undisturbed
<1>2. job.phase = "restoring" /\ undo = "begun" /\ power["target"] = "off"
  BY <1>1 DEF ReportInv, PhasePart, TargetPart, RestoreAt
<1>3. TargetPart'
  BY <1>1, <1>2 DEF TargetPart, PowerOnLabels
<1>4. ~RestoreAt' /\ pc' \notin RollbackLabels
  BY <1>1 DEF RestoreAt, Merging, MergeLabels, Rebuilding, RollbackLabels
<1> QED
  BY <1>1, <1>2, <1>3, <1>4 DEF ReportInv, RollbackInv, PhasePart, Finals, Closed

(* The rollback's own view of its host stays true.                         *)
LEMMA RollbackReport ==
  ASSUME TypeOK, RollbackInv, Rollback
  PROVE  /\ RollbackInv' /\ pc \in RollbackLabels /\ pc' \in Closed /\ UNCHANGED power
         /\ job'.phase \in {"failed", "rolled_back"}
         /\ job'.canRollback => job'.phase = "failed"
<1> USE DEF RollbackInv, RollbackCommits, RollbackLabels, Closed
<1>1. job \in Jobs /\ reg \in [VMs -> Nat]
  BY DEF TypeOK, SwitchTypeOK, HostTypeOK
<1>2. CASE RollbackCheck \/ RollbackPower
  BY <1>2 DEF RollbackCheck, RollbackPower, FoundOff, OnlyTarget, Registered, Identified, Query, hostVars, inventory
<1>3. CASE RollbackMessage
  <2>1. UNCHANGED <<reg, power>> /\ OfferWithdrawn(job).canRollback = FALSE /\ OfferWithdrawn(job).phase = job.phase
    BY <1>1, <1>3 DEF RollbackMessage, Query, hostVars, inventory, OfferWithdrawn, Jobs
  <2> QED
    BY <1>3, <2>1 DEF RollbackMessage, OnlyTarget, Registered
<1>4. CASE RollbackUnregister
  BY <1>1, <1>4, UnregisterCall DEF RollbackUnregister, Registered
<1>5. CASE RollbackUnregistered
  <2>1. UNCHANGED <<reg, power>>
    BY <1>5 DEF RollbackUnregistered, Query, hostVars, inventory
  <2>2. job'.phase = job.phase /\ job'.canRollback = job.canRollback
    BY <1>5, PublishedView, PublishedThen DEF RollbackUnregistered
  <2> QED
    BY <1>5, <2>1, <2>2 DEF RollbackUnregistered, NeitherRegistered, Nobody
<1>6. CASE RollbackRegister
  BY <1>6, RegisterCall DEF RollbackRegister
<1>7. CASE RollbackRegistered
  <2>1. UNCHANGED <<reg, power>>
    BY <1>7 DEF RollbackRegistered, Query, hostVars, inventory
  <2>2. job'.phase = job.phase /\ job'.canRollback = job.canRollback
    BY <1>7, PublishedView, PublishedThen DEF RollbackRegistered
  <2> QED
    BY <1>7, <2>1, <2>2 DEF RollbackRegistered, Restored, Registered
<1>8. CASE RollbackFinish
  BY <1>1, <1>8 DEF RollbackFinish, inventory, Jobs
<1> QED
  BY <1>2, <1>3, <1>4, <1>5, <1>6, <1>7, <1>8 DEF Rollback

LEMMA CommitPower == Commit => UNCHANGED power
  BY RegisterCall, UnregisterCall
  DEF Commit, CommitCheck, CommitSourceOff, CommitUnregister, CommitUnregistered, CommitRegister,
      CommitRegistered, CommitRestore, CommitRestored, CommitTargetOff, Committed, Query, hostVars, inventory

LEMMA SwitchingReport ==
  ASSUME Typing, OwnTyping, ResultInv, ReportInv, SwitchSide, pc \in Switching, Undisturbed
  PROVE  ReportInv' /\ Facts /\ Facts' /\ TypeOK /\ TypeOK' /\ JobRuns /\ JobRuns'
         /\ (Commit \/ PowerOnLoop \/ PowerOnDeadline)
<1>1. /\ SwitchStep /\ SwitchShape /\ undo' = UndoAfter
      /\ Commit \/ PowerOnLoop \/ PowerOnDeadline
      /\ pc' \in Switching \cup {"failing", "finish"}
  BY Shaped, SwitchingSteps DEF Typing, SwitchSide
<1>2. Facts /\ TypeOK
  BY DEF ResultInv, MovePart, Typing, TypeOK, Switching
<1>3. Facts'
  BY <1>1, <1>2, CommitKeeps, PowerOnKeeps
<1>4. TypeOK'
  BY <1>1, SwitchStepTyped DEF Typing, TypeOK
<1>5. pc \notin Closed \cup {"failing"} /\ pc' \notin Closed /\ pc' \notin RollbackLabels
      /\ pc' \in SwitchLabels /\ pc \in SwitchLabels
  BY <1>1 DEF Switching, SwitchLabels, RollbackLabels, Closed
<1>6. JobRuns
  <2>1. ~RestoreAt
    BY <1>5, Elsewhere DEF RestoreAt, Merging
  <2> QED
    BY <1>5, <2>1, StillRunning
<1>7. JobRuns'
  <2>1. job'.phase \notin Finals
    BY <1>3, <1>5 DEF Facts, OutcomeInv, Finals, Closed
  <2>2. job'.phase # "restoring"
    BY <1>1, <1>5, <1>6 DEF SwitchShape, JobRuns, Closed
  <2> QED
    BY <2>1, <2>2 DEF JobRuns
<1>8. TargetPart'
  <2>1. pc' # "restore.register"
    BY <1>5 DEF SwitchLabels, RollbackLabels
  <2>2. CASE pc \in PowerOnLabels
    <3>1. undo' = "none"
      BY <1>1, <2>2 DEF UndoAfter, PowerOnLabels, ReportInv, TargetPart
    <3> QED
      BY <2>1, <3>1 DEF TargetPart
  <2>3. CASE pc \notin PowerOnLabels
    <3>1. Commit /\ UNCHANGED power
      BY <1>1, <2>3, CommitPower DEF PowerOnLabels, PowerOnLoop, PowerOnCheck, PowerOnCommand, PowerOnPoll,
         PowerOnMessage, PowerOnAnswer, PowerOnDeadline
    <3>2. pc' \in PowerOnLabels => pc = "committed"
      BY <3>1 DEF Commit, CommitCheck, CommitSourceOff, CommitUnregister, CommitUnregistered, CommitRegister,
         CommitRegistered, CommitRestore, CommitRestored, CommitTargetOff, Committed, PowerOnLabels
    <3> QED
      BY <1>1, <2>1, <3>1, <3>2 DEF UndoAfter, ReportInv, TargetPart
  <2> QED
    BY <2>2, <2>3
<1>9. ~RestoreAt'
  BY <1>5, NoRestore
<1> QED
  BY <1>1, <1>2, <1>3, <1>4, <1>5, <1>6, <1>7, <1>8, <1>9, ReportRunning

LEMMA FinishReport ==
  ASSUME Typing, OwnTyping, ReportInv, SwitchSide, Finish, Undisturbed
  PROVE  ReportInv'
<1> USE DEF RollbackLabels, Closed, PowerOnLabels
<1>1. /\ UNCHANGED <<reg, power, undo>> /\ pc = "finish"
      /\ \/ pc' = "failing" /\ UNCHANGED job
         \/ pc' = "ended" /\ job' = [job EXCEPT !.phase = "completed", !.complete = TRUE, !.canRollback = FALSE]
  BY DEF SwitchSide, UndoAfter, Finish, inventory
<1>2. job \in Jobs
  BY DEF Typing, SwitchTypeOK
<1>3. ~RestoreAt /\ ~RestoreAt'
  BY <1>1 DEF RestoreAt, Merging, MergeLabels, Rebuilding
<1>4. JobRuns
  BY <1>1, <1>3, StillRunning
<1>5. TargetPart'
  BY <1>1, TargetStays DEF ReportInv
<1>6. CASE pc' = "failing"
  BY <1>1, <1>3, <1>4, <1>5, <1>6, ReportRunning DEF JobRuns
<1>7. CASE pc' = "ended"
  BY <1>1, <1>2, <1>3, <1>5, <1>7 DEF ReportInv, RollbackInv, PhasePart, Jobs
<1> QED
  BY <1>1, <1>6, <1>7

LEMMA FailedReport ==
  ASSUME Typing, OwnTyping, ReportInv, SwitchSide, MarkFailed, Undisturbed
  PROVE  ReportInv'
<1> USE DEF RollbackLabels, Closed, PowerOnLabels
<1>1. /\ UNCHANGED <<reg, power, undo>> /\ pc = "failing" /\ pc' = "ended"
      /\ job' = [job EXCEPT !.phase = IF @ = "unknown" THEN @ ELSE "failed", !.complete = TRUE]
  BY DEF SwitchSide, UndoAfter, MarkFailed, Query, hostVars, inventory
<1>2. job'.phase = (IF job.phase = "unknown" THEN "unknown" ELSE "failed") /\ job'.canRollback = job.canRollback
  BY <1>1 DEF Typing, SwitchTypeOK, Jobs
<1>3. ~RestoreAt'
  BY <1>1 DEF RestoreAt, Merging, MergeLabels, Rebuilding
<1>4. TargetPart'
  BY <1>1, TargetStays DEF ReportInv
<1> QED
  BY <1>1, <1>2, <1>3, <1>4 DEF ReportInv, RollbackInv, PhasePart, Finals

LEMMA ClosedReport ==
  ASSUME Typing, OwnTyping, ReportInv, SwitchSide, pc \in Closed, Undisturbed
  PROVE  ReportInv'
<1> USE DEF Closed, RollbackLabels, PowerOnLabels
<1>1. SwitchStep /\ UNCHANGED undo /\ TypeOK
  BY DEF SwitchSide, UndoAfter, Typing, TypeOK, SwitchLabels
<1>2. Rollback \/ RollbackStart \/ BrowserCloses \/ OperatorPowersOff
  BY <1>1 DEF SwitchStep, Engine, Commit, CommitCheck, CommitSourceOff, CommitUnregister, CommitUnregistered,
     CommitRegister, CommitRegistered, CommitRestore, CommitRestored, CommitTargetOff, Committed, PowerOnLoop,
     PowerOnCheck, PowerOnCommand, PowerOnPoll, PowerOnMessage, PowerOnAnswer, PowerOnDeadline, Finish, MarkFailed
<1>3. pc' \in Closed
  BY <1>1, Shaped DEF Typing, SwitchShape
<1>4. ~RestoreAt /\ ~RestoreAt'
  BY <1>3 DEF RestoreAt, Merging, MergeLabels, Rebuilding
<1>5. CASE Rollback
  <2>1. /\ RollbackInv' /\ UNCHANGED power /\ job'.phase \in {"failed", "rolled_back"}
        /\ job'.canRollback => job'.phase = "failed"
    BY <1>1, <1>5, RollbackReport DEF ReportInv
  <2>2. TargetPart'
    BY <1>1, <1>3, <2>1, TargetStays DEF ReportInv
  <2> QED
    BY <1>3, <1>4, <2>1, <2>2 DEF ReportInv, PhasePart
<1>6. CASE RollbackStart
  <2>1. /\ UNCHANGED <<job, power>> /\ pc' = "rollback.check" /\ job.canRollback /\ job.phase = "failed"
    BY <1>6 DEF RollbackStart, Query, hostVars, inventory
  <2>2. TargetPart'
    BY <1>1, <1>3, <2>1, TargetStays DEF ReportInv
  <2> QED
    BY <1>3, <1>4, <2>1, <2>2 DEF ReportInv, PhasePart, RollbackInv, RollbackCommits
<1>7. CASE BrowserCloses
  <2>1. UNCHANGED <<job, pc, reg, power>> /\ pc \in RollbackLabels
    BY <1>7 DEF BrowserCloses, Query, hostVars, inventory
  <2>2. TargetPart'
    BY <1>1, <1>3, <2>1, TargetStays DEF ReportInv
  <2>3. RollbackInv'
    BY <2>1 DEF ReportInv, RollbackInv, OnlyTarget, Registered, Identified, Restored
  <2> QED
    BY <1>3, <1>4, <2>1, <2>2, <2>3 DEF ReportInv, PhasePart
<1>8. CASE OperatorPowersOff
  <2>1. UNCHANGED <<job, pc>> /\ pc = "ended" /\ power'["target"] = "off"
    BY <1>1, <1>8 DEF OperatorPowersOff, switchVars, TypeOK, HostTypeOK
  <2>2. TargetPart'
    BY <1>1, <1>3, <2>1 DEF TargetPart
  <2> QED
    BY <1>3, <1>4, <2>1, <2>2 DEF ReportInv, PhasePart, RollbackInv
<1> QED
  BY <1>2, <1>5, <1>6, <1>7, <1>8

LEMMA SwitchPlaces ==
  ASSUME Typing, SwitchSide
  PROVE  \/ pc \in Switching \/ Finish \/ MarkFailed \/ pc \in Closed
<1>1. pc \in SwitchLabels /\ SwitchStep
  BY SwitchStepTyped DEF Typing, SwitchSide
<1>2. pc = "finish" => Finish
  BY <1>1 DEF SwitchStep, Engine, Commit, CommitCheck, CommitSourceOff, CommitUnregister,
     CommitUnregistered, CommitRegister, CommitRegistered, CommitRestore, CommitRestored, CommitTargetOff,
     Committed, PowerOnLoop, PowerOnCheck, PowerOnCommand, PowerOnPoll, PowerOnMessage, PowerOnAnswer,
     PowerOnDeadline, MarkFailed, Rollback, RollbackCheck, RollbackPower, RollbackMessage,
     RollbackUnregister, RollbackUnregistered, RollbackRegister, RollbackRegistered, RollbackFinish,
     RollbackStart, BrowserCloses, OperatorPowersOff, RollbackLabels
<1>3. pc = "failing" => MarkFailed
  BY <1>1 DEF SwitchStep, Engine, Commit, CommitCheck, CommitSourceOff, CommitUnregister,
     CommitUnregistered, CommitRegister, CommitRegistered, CommitRestore, CommitRestored, CommitTargetOff,
     Committed, PowerOnLoop, PowerOnCheck, PowerOnCommand, PowerOnPoll, PowerOnMessage, PowerOnAnswer,
     PowerOnDeadline, Finish, Rollback, RollbackCheck, RollbackPower, RollbackMessage,
     RollbackUnregister, RollbackUnregistered, RollbackRegister, RollbackRegistered, RollbackFinish,
     RollbackStart, BrowserCloses, OperatorPowersOff, RollbackLabels
<1> QED
  BY <1>1, <1>2, <1>3 DEF Switching, Closed

LEMMA ReportSame ==
  ASSUME ReportInv, UNCHANGED <<switchVars, reg, landed, outside, undo, merge>>, power'["target"] = power["target"]
  PROVE  ReportInv'
<1> USE DEF switchVars
<1>1. UNCHANGED Undisturbed /\ UNCHANGED RestoreAt
  BY DEF Undisturbed, RestoreAt, Merging
<1>2. (RollbackInv => RollbackInv') /\ (TargetPart => TargetPart')
  BY DEF RollbackInv, TargetPart, OnlyTarget, Registered, Identified, Restored
<1> QED
  BY <1>1, <1>2 DEF ReportInv, PhasePart

LEMMA AsideFrame ==
  ASSUME Typing, OwnTyping, Aside
  PROVE  UNCHANGED <<switchVars, reg, landed, outside, undo, merge>> /\ power'["target"] = power["target"]
<1>1. CASE Operator \/ Worker
  BY <1>1, OperatorTyped, WorkerTyped DEF Aside, liveOwn, hostVars, inventory
<1>2. CASE GuestStops
  BY <1>2 DEF GuestStops, Aside, liveOwn, Typing, HostTypeOK
<1> QED
  BY <1>1, <1>2 DEF Aside

LEMMA LiveNextReport ==
  LiveTypeOK /\ LiveCloneInv /\ LiveStopInv /\ ResultInv /\ ReportInv /\ [LiveNext]_liveVars => ReportInv'
<1> SUFFICES ASSUME LiveTypeOK, LiveCloneInv, LiveStopInv, ResultInv, ReportInv, [LiveNext]_liveVars
             PROVE  ReportInv'
  OBVIOUS
<1>0. Typing /\ OwnTyping /\ KnownInv
  BY LiveTypes DEF LiveCloneInv
<1>1. CASE WorkSteps \/ VerifyDelta \/ RestoreFinish
  BY <1>0, <1>1, MainReport, VerdictReport, MergeCopyReport, MergeReport, RestoreReport, BeginReport,
     RestoreFinishReport DEF WorkSteps, MainSteps
<1>2. CASE JobSide \/ CloneSide
  BY <1>0, <1>2, MainReport DEF MainSteps
<1>3. CASE SwitchSide
  <2>1. UNCHANGED <<landed, outside>>
    BY <1>0, <1>3, Shaped DEF Typing, SwitchSide, SwitchShape
  <2> SUFFICES ASSUME Undisturbed
               PROVE  ReportInv'
    BY <2>1 DEF ReportInv, Undisturbed
  <2> QED
    BY <1>0, <1>3, SwitchPlaces, SwitchingReport, FinishReport, FailedReport, ClosedReport
<1>4. CASE Aside
  BY <1>0, <1>4, AsideFrame, ReportSame
<1>5. CASE LiveDisturb \/ SnapshotSide
  BY <1>0, <1>5, DisturbFrame, SnapshotSideFrame DEF ReportInv
<1>6. CASE UNCHANGED liveVars
  BY <1>6, ReportSame DEF liveVars, vars, hostVars, inventory, liveOwn
<1> QED
  BY <1>1, <1>2, <1>3, <1>4, <1>5, <1>6, LiveCases

(***************************************************************************)
(* What each step is in LiveRelocation.                                    *)
(***************************************************************************)
LEMMA Runs == (JobRuns => LiveOutcome = "running") /\ (JobRuns' => LiveOutcome' = "running")
  BY DEF JobRuns, LiveOutcome, Outcome, Finals

LEMMA NotReturning ==
  \A l \in Main \cup CopyLabels \cup MergeLabels \cup Switching \cup Rebuilding
           \cup {"failing", "stopped", "ended", "finish", "restore.check", "restore.tree", "restore.finish"} :
      l \notin RollbackCommits
  BY DEF Main, Before, OnBase, Watching, Cutover, CopyLabels, MergeLabels, Switching, SwitchLabels,
         RollbackLabels, Rebuilding, RollbackCommits

LEMMA HomeTogether ==
  (Home = {"source", "target"} <=> Registered("source") /\ Registered("target"))
  /\ (Home' = {"source", "target"} <=> Registered("source")' /\ Registered("target")')
  BY DEF Home, Registered

(* A running job that stays one, and leaves the host alone.                *)
LEMMA RunsUnseen ==
  ASSUME UNCHANGED <<plan, reg, landed, outside>>, power'["target"] = power["target"], JobRuns, JobRuns',
         job'.canRollback = job.canRollback, ~Committing, ~Committing'
  PROVE  LiveShown
  BY Runs, LiveUnseen

LEMMA MainShown ==
  ASSUME Typing, OwnTyping, ResultInv, ReportInv, MainSteps, Undisturbed
  PROVE  LiveShown
<1>1. /\ UNCHANGED <<plan, reg, landed, outside>> /\ power'["target"] = power["target"]
      /\ pc \in Main /\ pc' \in Main \cup {"failing", "stopped"}
  BY MainHost
<1>2. reg = OnlySource /\ ~job.canRollback
  BY <1>1 DEF ResultInv, HomePart, Unmoved
<1>3. JobRuns
  BY <1>1, Elsewhere, StillRunning DEF RestoreAt, Merging
<1>4. ~Committing /\ ~Committing'
  BY <1>1, NotReturning DEF Committing
<1>5. job \in Jobs
  BY DEF Typing, SwitchTypeOK
<1>6. CASE UNCHANGED job \/ \E p \in Phases \ (Finals \cup {"restoring"}) : Phase(p)
  <2>1. JobRuns' /\ job'.canRollback = job.canRollback
    BY <1>3, <1>5, <1>6 DEF JobRuns, Phase, Jobs
  <2> QED
    BY <1>1, <1>3, <1>4, <2>1, RunsUnseen
<1>7. CASE Phase("unknown") /\ pc' = "failing"
  <2>1. job'.phase = "unknown" /\ job'.canRollback = job.canRollback
    BY <1>5, <1>7 DEF Phase, Jobs, Phases
  <2>2. LiveOutcome = "running" /\ LiveOutcome' = "unknown"
    BY <1>3, <2>1, Runs DEF LiveOutcome, Outcome
  <2>3. Home = {"source"} /\ UNCHANGED Home
    BY <1>1, <1>2, HomeValues, HomeFrame DEF HomeIs, OnlySource, Registered
  <2>4. UNCHANGED (power["target"] = "on") /\ UNCHANGED (pc \in RollbackCommits)
    BY <1>1, <1>4 DEF Committing
  <2>5. LivePromised!Fail
    BY <2>1, <2>2, <2>3, <2>4 DEF LivePromised!Fail
  <2> QED
    BY <1>1, <2>5 DEF LiveShown, LivePromised!LivePromise, LivePromised!Promise
<1> QED
  BY <1>6, <1>7, MainPage

LEMMA VerdictShown ==
  ASSUME Typing, OwnTyping, ReportInv, VerifyDelta, Undisturbed
  PROVE  LiveShown
<1>1. /\ UNCHANGED <<plan, reg, power, landed, outside>> /\ pc = "verify.all"
      /\ pc' \in {"failing", "verify.all", "commit.check", "copy.register"}
      /\ job'.phase \in {job.phase, "consolidating"} /\ job'.canRollback = job.canRollback
  BY VerifyFrame DEF Query, hostVars, inventory, Goes
<1>2. JobRuns
  <2>1. pc \in Main
    BY <1>1 DEF Main, Cutover
  <2> QED
    BY <2>1, Elsewhere, StillRunning DEF RestoreAt, Merging
<1>3. JobRuns'
  BY <1>1, <1>2 DEF JobRuns, Finals
<1>4. ~Committing /\ ~Committing'
  BY <1>1 DEF Committing, RollbackCommits
<1> QED
  BY <1>1, <1>2, <1>3, <1>4, RunsUnseen

LEMMA MergeShown ==
  ASSUME Typing, OwnTyping, Merge, Undisturbed
  PROVE  LiveShown
<1>1. /\ UNCHANGED <<plan, reg, power, job, landed, outside>>
      /\ pc' \in {"finish", "failing", "copy.unregister", "restore.finish"} \cup MergeLabels /\ pc \in MergeLabels
  BY MergeFrame DEF WorkFrame, MergeGo, Goes, MergeLabels
<1>2. ~Committing /\ ~Committing'
  BY <1>1, NotReturning DEF Committing, CopyLabels
<1>3. UNCHANGED LiveOutcome
  BY <1>1 DEF LiveOutcome, Outcome
<1> QED
  BY <1>1, <1>2, <1>3, LiveUnseen

(* Only mergeCopy has both VMs registered.                                 *)
LEMMA MergeCopyShown ==
  ASSUME Typing, OwnTyping, ResultInv, ReportInv, MergeCopy, Undisturbed
  PROVE  LiveShown
<1>1. /\ UNCHANGED <<plan, power, landed, outside>> /\ job'.canRollback = job.canRollback
      /\ pc \in CopyLabels /\ pc' \in CopyLabels \cup {"failing", "merge.list"}
      /\ job'.phase \in {job.phase, "consolidating"}
      /\ UNCHANGED reg \/ pc \in {"copy.register", "copy.unregister"}
  BY MergeCopyFrame DEF WorkFrame, JobKept, MergeCopyGo, Goes, CopyLabels
<1>2. plan.mode = "copy" /\ Registered("source") /\ reg \in [VMs -> Nat] /\ lastId \in Nat
  BY <1>1 DEF ResultInv, CopyPart, Copied, Registered, Typing, HostTypeOK
<1>3. JobRuns
  BY <1>1, Elsewhere, StillRunning DEF RestoreAt, Merging
<1>4. JobRuns'
  BY <1>1, <1>3 DEF JobRuns, Finals
<1>5. LiveOutcome = "running" /\ LiveOutcome' = "running"
  BY <1>3, <1>4, Runs
<1>6. ~Committing /\ ~Committing'
  BY <1>1, NotReturning DEF Committing, MergeLabels
<1>7. CASE UNCHANGED reg
  BY <1>1, <1>3, <1>4, <1>6, <1>7, RunsUnseen
<1>8. CASE reg' # reg
  <2>1. CopyRegister \/ CopyUnregister
    BY <1>8 DEF MergeCopy, CopyRegistered, CopyOff, CopyUnregistered, Quiet, Query, hostVars, inventory
  <2>2. CASE CopyRegister
    <3>1. ~Registered("target") /\ reg' = [reg EXCEPT !["target"] = lastId + 1]
      BY <1>8, <2>2, RegisterCall DEF CopyRegister
    <3>2. Registered("source")' /\ Registered("target")'
      BY <1>2, <3>1 DEF Registered
    <3>3. Home = {"source"} /\ Home' = {"source", "target"}
      BY <1>2, <3>1, <3>2, HomeValues, HomeTogether DEF HomeIs
    <3>4. LivePromised!Moves({"source"}, {"source", "target"})
      BY <1>1, <1>5, <1>6, <3>3, LiveRelocated
    <3> QED
      BY <1>1, <1>2, <1>5, <3>4 DEF LiveShown, LivePromised!LivePromise, LivePromised!ShowCopy
  <2>3. CASE CopyUnregister
    <3>1. reg' = [reg EXCEPT !["target"] = 0]
      BY <1>8, <2>3, UnregisterCall DEF CopyUnregister
    <3>2. Registered("target") /\ Registered("source")' /\ ~Registered("target")'
      BY <1>2, <1>8, <3>1 DEF Registered
    <3>3. Home = {"source", "target"} /\ Home' = {"source"}
      BY <1>2, <3>2, HomeValues, HomeTogether DEF HomeIs
    <3>4. LivePromised!Moves({"source", "target"}, {"source"})
      BY <1>1, <1>5, <1>6, <3>3, LiveRelocated
    <3> QED
      BY <1>1, <1>2, <1>5, <3>4 DEF LiveShown, LivePromised!LivePromise, LivePromised!HideCopy
  <2> QED
    BY <2>1, <2>2, <2>3
<1> QED
  BY <1>7, <1>8

LEMMA BeginShown ==
  ASSUME Typing, OwnTyping, KnownInv, ReportInv, MergeTarget \/ Undo, Undisturbed
  PROVE  LiveShown
<1>1. UNCHANGED <<plan, reg, power, landed, outside>> /\ job'.canRollback = job.canRollback
  BY BeginFrame DEF WorkFrame, JobKept
<1>2. job \in Jobs
  BY DEF Typing, SwitchTypeOK
<1>3. CASE MergeTarget
  <2>1. pc = "finish" /\ pc' = "merge.list" /\ Phase("consolidating")
    BY <1>3 DEF MergeTarget, Begin, Goto
  <2>2. JobRuns
    <3>1. pc \notin Closed \cup {"failing"} /\ ~RestoreAt
      BY <2>1 DEF Closed, RollbackLabels, RestoreAt, Merging, MergeLabels, Rebuilding
    <3> QED
      BY <3>1, StillRunning
  <2>3. JobRuns'
    BY <1>2, <2>1 DEF Phase, Jobs, JobRuns, Finals
  <2>4. ~Committing /\ ~Committing'
    BY <2>1 DEF Committing, RollbackCommits
  <2> QED
    BY <1>1, <2>2, <2>3, <2>4, RunsUnseen
<1>4. CASE Undo
  <2>1. pc \in {"failing", "stopped"} /\ undo = "due"
    BY <1>4 DEF Undo, Unfinished
  <2>2. \/ unproven /\ pc' = "failing" /\ UNCHANGED job
        \/ ~unproven /\ pc' = "restore.check" /\ Phase("restoring")
    BY <1>4 DEF Undo, UndoOrKeep, Goto
  <2>3. ~Committing /\ ~Committing'
    BY <2>1, <2>2 DEF Committing, RollbackCommits
  <2>4. CASE UNCHANGED job
    <3>1. UNCHANGED LiveOutcome
      BY <2>4 DEF LiveOutcome, Outcome
    <3> QED
      BY <1>1, <2>3, <3>1, LiveUnseen
  <2>5. CASE ~unproven /\ Phase("restoring")
    <3>1. job.phase # "unknown" /\ job'.phase = "restoring"
      BY <1>2, <2>5 DEF KnownInv, Phase, Jobs, Phases
    <3>2. JobRuns
      BY <2>1, <3>1 DEF ReportInv, PhasePart, JobRuns, Closed, RollbackLabels
    <3>3. LiveOutcome = "running" /\ LiveOutcome' = "restoring"
      BY <3>1, <3>2, Runs DEF LiveOutcome
    <3>4. power["target"] # "on"
      BY <2>1 DEF ReportInv, TargetPart
    <3>5. UNCHANGED Home /\ UNCHANGED (power["target"] = "on") /\ UNCHANGED (pc \in RollbackCommits)
      BY <1>1, <2>3, HomeFrame DEF Committing
    <3>6. LivePromised!UndoBegins
      BY <1>1, <3>3, <3>4, <3>5 DEF LivePromised!UndoBegins
    <3> QED
      BY <1>1, <3>6 DEF LiveShown, LivePromised!LivePromise
  <2> QED
    BY <2>2, <2>4, <2>5
<1> QED
  BY <1>3, <1>4

LEMMA RestoreShown ==
  ASSUME Typing, OwnTyping, ReportInv, RestoreWork, Undisturbed
  PROVE  LiveShown
<1>1. /\ UNCHANGED <<plan, power, landed, outside>> /\ job'.canRollback = job.canRollback
      /\ job'.phase = job.phase /\ RestoreGo
      /\ UNCHANGED reg \/ pc \in {"restore.unregister", "restore.register"}
  BY RestoreFrame DEF WorkFrame, JobKept
<1>2. job.phase = "restoring" /\ power["target"] # "on"
  <2>1. RestoreAt
    BY <1>1 DEF RestoreGo, Goes, RestoreAt, Rebuilding
  <2> QED
    BY <2>1 DEF ReportInv, PhasePart, TargetPart
<1>3. LiveOutcome = "restoring" /\ LiveOutcome' = "restoring"
  BY <1>1, <1>2 DEF LiveOutcome
<1>4. ~Committing /\ ~Committing'
  BY <1>1 DEF RestoreGo, Goes, Committing, RollbackCommits
<1>5. reg \in [VMs -> Nat] /\ lastId \in Nat
  BY DEF Typing, HostTypeOK
<1>6. CASE UNCHANGED reg
  BY <1>1, <1>3, <1>4, <1>6, LiveUnseen
<1>7. CASE reg' # reg
  <2>1. RestoreUnregister \/ RestoreRegister
    BY <1>7 DEF RestoreWork, RestoreCheck, RestoreOff, RestoreUnregistered, RestoreRegistered, RestoreTree,
       Quiet, Query, hostVars, inventory
  <2>2. CASE RestoreUnregister
    <3>1. reg' = [reg EXCEPT !["target"] = 0]
      BY <1>7, <2>2, UnregisterCall DEF RestoreUnregister
    <3>2. "target" \in Home /\ Home' = Home \ {"target"}
      BY <1>5, <1>7, <3>1 DEF Home, Registered
    <3>3. UNCHANGED (power["target"] = "on") /\ UNCHANGED (pc \in RollbackCommits)
      BY <1>1, <1>4 DEF Committing
    <3>4. LivePromised!UndoLeavesTarget
      BY <1>1, <1>2, <1>3, <3>2, <3>3 DEF LivePromised!UndoLeavesTarget
    <3> QED
      BY <1>1, <3>4 DEF LiveShown, LivePromised!LivePromise
  <2>3. CASE RestoreRegister
    <3>1. reg = Nobody /\ reg' = [reg EXCEPT !["source"] = lastId + 1]
      BY <1>7, <2>3, RegisterCall DEF RestoreRegister, ReportInv, TargetPart
    <3>2. Registered("source")' /\ ~Registered("target")'
      BY <1>5, <3>1 DEF Registered, Nobody
    <3>3. Home = {} /\ Home' = {"source"}
      BY <3>1, <3>2, HomeValues DEF HomeIs, Nobody, Registered
    <3>4. LivePromised!Moves({}, {"source"})
      BY <1>1, <1>3, <1>4, <3>3, LiveRelocated
    <3> QED
      BY <1>1, <1>3, <3>4 DEF LiveShown, LivePromised!LivePromise, LivePromised!UndoReturns
  <2> QED
    BY <2>1, <2>2, <2>3
<1> QED
  BY <1>6, <1>7

LEMMA RestoreFinishShown ==
  ASSUME Typing, OwnTyping, RestoredInv, ReportInv, RestoreFinish, Undisturbed
  PROVE  LiveShown
<1>1. /\ UNCHANGED <<plan, reg, power, landed, outside>> /\ pc = "restore.finish" /\ pc' \in {"ended", "failing"}
      /\ \/ job'.phase = "rolled_back" /\ ~job'.canRollback /\ job' \in Jobs
         \/ UNCHANGED job
  BY RestoreFinishFrame DEF Goes, Typing, SwitchTypeOK
<1>2. job.phase = "restoring" /\ Restored
  BY <1>1 DEF ReportInv, PhasePart, RestoreAt, RestoredInv, Restoring
<1>3. ~Committing /\ ~Committing'
  BY <1>1 DEF Committing, RollbackCommits
<1>4. CASE UNCHANGED job
  <2>1. UNCHANGED LiveOutcome
    BY <1>4 DEF LiveOutcome, Outcome
  <2> QED
    BY <1>1, <1>3, <1>4, <2>1, LiveUnseen
<1>5. CASE job'.phase = "rolled_back" /\ ~job'.canRollback /\ job' \in Jobs
  <2>1. LiveOutcome = "restoring" /\ LiveOutcome' = "rolled_back" /\ job'.canRollback = FALSE
    BY <1>2, <1>5 DEF LiveOutcome, Outcome, Jobs
  <2>2. Home = {"source"} /\ UNCHANGED Home
    BY <1>1, <1>2, HomeValues, HomeFrame DEF HomeIs, Restored
  <2>3. UNCHANGED (power["target"] = "on") /\ UNCHANGED (pc \in RollbackCommits)
    BY <1>1, <1>3 DEF Committing
  <2>4. LivePromised!UndoEnds
    BY <2>1, <2>2, <2>3 DEF LivePromised!UndoEnds
  <2> QED
    BY <1>1, <2>4 DEF LiveShown, LivePromised!LivePromise
<1> QED
  BY <1>1, <1>4, <1>5

LEMMA SwitchingShown ==
  ASSUME Typing, OwnTyping, ResultInv, ReportInv, SwitchSide, pc \in Switching, Undisturbed
  PROVE  LiveShown
<1>1. Facts /\ Facts' /\ TypeOK /\ TypeOK' /\ JobRuns /\ JobRuns' /\ (Commit \/ PowerOnLoop \/ PowerOnDeadline)
  BY SwitchingReport
<1>2. Shown
  BY <1>1, CommitShown, PowerOnShown
<1> QED
  BY <1>1, <1>2, SwitchShown DEF JobRuns

LEMMA FinishShown ==
  ASSUME Typing, OwnTyping, ResultInv, ReportInv, Finish, Undisturbed
  PROVE  LiveShown
<1>1. /\ UNCHANGED <<plan, reg, power, landed, outside>> /\ pc = "finish" /\ pc' \in {"failing", "ended"}
      /\ \/ UNCHANGED job
         \/ job' = [job EXCEPT !.phase = "completed", !.complete = TRUE, !.canRollback = FALSE]
  BY DEF Finish, Local, inventory
<1>2. job \in Jobs /\ plan \in Requests
  BY DEF Typing, SwitchTypeOK
<1>3. JobRuns
  <2>1. pc \notin Closed \cup {"failing"} /\ ~RestoreAt
    BY <1>1 DEF Closed, RollbackLabels, RestoreAt, Merging, MergeLabels, Rebuilding
  <2> QED
    BY <2>1, StillRunning
<1>4. ~Committing /\ ~Committing'
  BY <1>1 DEF Committing, RollbackCommits
<1>5. CASE UNCHANGED job
  BY <1>1, <1>3, <1>4, <1>5, RunsUnseen DEF JobRuns
<1>6. CASE job' = [job EXCEPT !.phase = "completed", !.complete = TRUE, !.canRollback = FALSE]
  <2>1. job'.phase = "completed" /\ job'.canRollback = FALSE
    BY <1>2, <1>6 DEF Jobs
  <2>2. LiveOutcome = "running" /\ LiveOutcome' = "completed"
    BY <1>3, <2>1, Runs DEF LiveOutcome, Outcome
  <2>3. /\ plan.mode = "copy" => Copied /\ reg = OnlySource
        /\ plan.mode = "move" => Moved
    BY <1>1 DEF ResultInv, CopyPart, MovePart
  <2>4. Home = (IF plan.mode = "move" THEN {"target"} ELSE {"source"})
    <3>1. plan.mode = "move" => Home = {"target"}
      BY <2>3, HomeValues DEF HomeIs, Moved, OnlyTarget, Identified, Registered
    <3>2. plan.mode = "copy" => Home = {"source"}
      BY <2>3, HomeValues DEF HomeIs, OnlySource, Registered
    <3> QED
      BY <1>2, <3>1, <3>2 DEF Requests
  <2>5. (power["target"] = "on") = plan.powerOn
    BY <1>2, <2>3 DEF Requests, Copied, Moved
  <2>6. UNCHANGED Home /\ UNCHANGED (power["target"] = "on") /\ UNCHANGED (pc \in RollbackCommits)
    BY <1>1, <1>4, HomeFrame DEF Committing
  <2>7. LivePromised!Complete
    BY <2>1, <2>2, <2>4, <2>5, <2>6 DEF LivePromised!Complete
  <2> QED
    BY <1>1, <2>7 DEF LiveShown, LivePromised!LivePromise, LivePromised!Promise
<1> QED
  BY <1>1, <1>5, <1>6

LEMMA FailedShown ==
  ASSUME Typing, OwnTyping, ReportInv, MarkFailed, Undisturbed
  PROVE  LiveShown
<1>1. /\ UNCHANGED <<plan, reg, power, landed, outside>> /\ pc = "failing" /\ pc' = "ended"
      /\ job' = [job EXCEPT !.phase = IF @ = "unknown" THEN @ ELSE "failed", !.complete = TRUE]
  BY DEF MarkFailed, Local, Query, hostVars, inventory
<1>2. job'.phase = (IF job.phase = "unknown" THEN "unknown" ELSE "failed") /\ job'.canRollback = job.canRollback
  BY <1>1 DEF Typing, SwitchTypeOK, Jobs
<1>3. ~Committing /\ ~Committing'
  BY <1>1 DEF Committing, RollbackCommits
<1>4. job.phase \notin Finals \ {"unknown"}
  BY <1>1 DEF ReportInv, PhasePart, Closed, RollbackLabels
<1>5. UNCHANGED Home /\ UNCHANGED (power["target"] = "on") /\ UNCHANGED (pc \in RollbackCommits)
  BY <1>1, <1>3, HomeFrame DEF Committing
<1>6. CASE job.phase = "unknown"
  <2>1. UNCHANGED LiveOutcome
    BY <1>2, <1>6 DEF LiveOutcome, Outcome
  <2> QED
    BY <1>1, <1>2, <1>3, <2>1, LiveUnseen
<1>7. CASE job.phase = "restoring"
  <2>1. LiveOutcome = "restoring" /\ LiveOutcome' = "failed"
    BY <1>2, <1>7 DEF LiveOutcome, Outcome
  <2>2. LivePromised!UndoEnds
    BY <1>2, <1>5, <2>1 DEF LivePromised!UndoEnds
  <2> QED
    BY <1>1, <2>2 DEF LiveShown, LivePromised!LivePromise
<1>8. CASE job.phase \notin {"unknown", "restoring"}
  <2>1. LiveOutcome = "running" /\ LiveOutcome' = "failed"
    BY <1>2, <1>4, <1>8, Runs DEF JobRuns, LiveOutcome, Outcome
  <2>2. LivePromised!Fail
    BY <1>2, <1>5, <2>1 DEF LivePromised!Fail
  <2> QED
    BY <1>1, <2>2 DEF LiveShown, LivePromised!LivePromise, LivePromised!Promise
<1> QED
  BY <1>6, <1>7, <1>8

LEMMA ClosedShown ==
  ASSUME Typing, OwnTyping, ReportInv, SwitchSide, pc \in Closed, Undisturbed
  PROVE  LiveShown
<1>1. SwitchStep /\ TypeOK
  BY DEF SwitchSide, Typing, TypeOK, Closed, SwitchLabels
<1>2. Rollback \/ RollbackStart \/ BrowserCloses \/ OperatorPowersOff
  BY <1>1 DEF Closed, RollbackLabels, SwitchStep, Engine, Commit, CommitCheck, CommitSourceOff, CommitUnregister,
     CommitUnregistered, CommitRegister, CommitRegistered, CommitRestore, CommitRestored, CommitTargetOff,
     Committed, PowerOnLoop, PowerOnCheck, PowerOnCommand, PowerOnPoll, PowerOnMessage, PowerOnAnswer,
     PowerOnDeadline, Finish, MarkFailed
<1>3. job.phase # "restoring"
  <2>1. pc # "failing" /\ ~RestoreAt
    BY DEF Closed, RollbackLabels, RestoreAt, Merging, MergeLabels, Rebuilding
  <2> QED
    BY <2>1 DEF ReportInv, PhasePart
<1>4. CASE Rollback
  <2>1. job'.phase # "restoring" /\ Shown
    BY <1>1, <1>4, RollbackReport, RollbackShown DEF ReportInv
  <2> QED
    BY <1>3, <2>1, SwitchShown
<1>5. CASE RollbackStart \/ BrowserCloses \/ OperatorPowersOff
  <2>1. UNCHANGED job
    BY <1>5 DEF RollbackStart, BrowserCloses, OperatorPowersOff, switchVars
  <2>2. Shown
    BY <1>1, <1>5, OperatorShown DEF ReportInv, PhasePart
  <2> QED
    BY <1>3, <2>1, <2>2, SwitchShown
<1> QED
  BY <1>2, <1>4, <1>5

LEMMA AsideShown ==
  ASSUME Typing, OwnTyping, Aside
  PROVE  LiveShown
<1>1. UNCHANGED <<plan, job, pc, reg, landed, outside>> /\ power'["target"] = power["target"]
  BY AsideFrame DEF switchVars
<1>2. UNCHANGED LiveOutcome /\ (Committing <=> Committing')
  BY <1>1 DEF LiveOutcome, Outcome, Committing
<1> QED
  BY <1>1, <1>2, LiveUnseen

LEMMA LiveStepShown ==
  ASSUME Typing, OwnTyping, LiveCloneInv, RestoredInv, ResultInv, ReportInv, LiveNext, Undisturbed, Undisturbed'
  PROVE  LiveShown
<1>1. CASE WorkSteps \/ VerifyDelta \/ RestoreFinish
  BY <1>1, MainShown, VerdictShown, MergeCopyShown, MergeShown, RestoreShown, BeginShown, RestoreFinishShown
  DEF WorkSteps, MainSteps, LiveCloneInv
<1>2. CASE JobSide \/ CloneSide
  BY <1>2, MainShown DEF MainSteps
<1>3. CASE SwitchSide
  BY <1>3, SwitchPlaces, SwitchingShown, FinishShown, FailedShown, ClosedShown
<1>4. CASE Aside
  BY <1>4, AsideShown
<1>5. CASE LiveDisturb \/ SnapshotSide
  BY <1>5, DisturbFrame, SnapshotSideFrame
<1> QED
  BY <1>1, <1>2, <1>3, <1>4, <1>5, LiveCases

(* The request is never changed, and nothing undoes a disturbance.         *)
LEMMA LiveFrame ==
  ASSUME Typing, OwnTyping, LiveNext
  PROVE  UNCHANGED plan /\ (Undisturbed' => Undisturbed)
<1>1. CASE WorkSteps
  BY <1>1, WorkTyped DEF WorkFrame, Undisturbed
<1>2. CASE VerifyDelta \/ RestoreFinish
  BY <1>2, VerifyFrame, RestoreFinishFrame DEF Query, hostVars, Undisturbed
<1>3. CASE JobSide \/ CloneSide
  BY <1>3, MainHost DEF MainSteps, Undisturbed
<1>4. CASE SwitchSide
  <2>1. UNCHANGED <<landed, outside>>
    BY <1>4, Shaped DEF Typing, SwitchSide, SwitchShape
  <2>2. UNCHANGED plan
    BY <1>4 DEF SwitchSide, SwitchStep, Engine, Commit, PowerOnLoop, PowerOnDeadline, Rollback, Finish, MarkFailed,
       RollbackStart, BrowserCloses, OperatorPowersOff, Local, switchVars,
       CommitCheck, CommitSourceOff, CommitUnregister, CommitUnregistered, CommitRegister,
       CommitRegistered, CommitRestore, CommitRestored, CommitTargetOff, Committed,
       PowerOnCheck, PowerOnCommand, PowerOnPoll, PowerOnMessage, PowerOnAnswer,
       RollbackCheck, RollbackPower, RollbackMessage, RollbackUnregister, RollbackUnregistered,
       RollbackRegister, RollbackRegistered, RollbackFinish
  <2> QED
    BY <2>1, <2>2 DEF Undisturbed
<1>5. CASE Aside
  BY <1>5, AsideFrame DEF switchVars, Undisturbed
<1>6. CASE LiveDisturb \/ SnapshotSide
  BY <1>6, DisturbFrame, SnapshotSideFrame DEF switchVars
<1> QED
  BY <1>1, <1>2, <1>3, <1>4, <1>5, <1>6, LiveCases

LEMMA LiveStepImplements ==
  LiveTypeOK /\ LiveCloneInv /\ RestoredInv /\ ResultInv /\ ReportInv /\ [LiveNext]_liveVars
      => [LivePromised!LiveRelocationNext]_LivePromised!relocationVars
<1> SUFFICES ASSUME LiveTypeOK, LiveCloneInv, RestoredInv, ResultInv, ReportInv, [LiveNext]_liveVars
             PROVE  [LivePromised!LiveRelocationNext]_LivePromised!relocationVars
  OBVIOUS
<1>0. Typing /\ OwnTyping
  BY LiveTypes
<1>1. CASE UNCHANGED liveVars
  <2>1. UNCHANGED <<plan, job, pc, reg, power, landed, outside>>
    BY <1>1 DEF liveVars, vars, hostVars, inventory, switchVars
  <2>2. UNCHANGED <<LiveOutcome, Home, Undisturbed>> /\ UNCHANGED (pc \in RollbackCommits)
        /\ UNCHANGED (power["target"] = "on")
    BY <2>1, HomeFrame DEF LiveOutcome, Outcome, Undisturbed
  <2> QED
    BY <2>1, <2>2 DEF LivePromised!relocationVars
<1>2. CASE LiveNext /\ ~Undisturbed'
  BY <1>0, <1>2, LiveFrame DEF LivePromised!LiveRelocationNext
<1>3. CASE LiveNext /\ Undisturbed'
  <2>1. UNCHANGED plan /\ Undisturbed
    BY <1>0, <1>3, LiveFrame
  <2>2. LivePromised!LivePromise \/ UNCHANGED LivePromised!relocationVars
    BY <1>0, <1>3, <2>1, LiveStepShown DEF LiveShown
  <2> QED
    BY <1>3, <2>1, <2>2 DEF LivePromised!LiveRelocationNext
<1> QED
  BY <1>1, <1>2, <1>3

(* Whatever a live job does to the registrations, its undo included, is a  *)
(* step that LiveRelocation allows: see LiveRelocates.                     *)
THEOREM LiveImplements == LiveSpec => LiveRelocates
<1>1. LiveInit => LivePromised!RelocationInit
  <2> SUFFICES ASSUME LiveInit
               PROVE  LivePromised!RelocationInit
    OBVIOUS
  <2>1. Home = {"source"}
    BY DEF LiveInit, HostInit, OnlySource, Home, Registered
  <2>2. job.phase = "queued" /\ job.canRollback = FALSE
    BY DEF LiveInit, NewJob
  <2>3. LiveOutcome = "running"
    BY <2>2 DEF LiveOutcome, Outcome
  <2> QED
    BY <2>1, <2>2, <2>3 DEF LiveInit, HostInit, Undisturbed, RollbackCommits, LivePromised!RelocationInit
<1> QED
  BY <1>1, LiveTyped, LiveInitClones, LiveNextClones, LiveInitStop, LiveNextStop, LiveInitRestored, LiveNextRestored,
     LiveInitSeen, LiveNextSeen, LiveInitResult, LiveNextResult, LiveInitReport, LiveNextReport, LiveStepImplements,
     PTL DEF LiveSpec, LiveRelocates, LivePromised!LiveRelocationSpec
=============================================================================

---------------------------- MODULE LiveMigration ----------------------------
(***************************************************************************)
(* Engine.runLive and Engine.live (live.go): the base disks are cloned     *)
(* behind a snapshot of the job's own while the VM runs; then the VM is    *)
(* shut down and only its deltas are copied.  A failure before the switch  *)
(* is undone by restoreSource, and a COPY ends with mergeCopy.  The        *)
(* snapshot operations are those of esxi/snapshot.go.                      *)
(***************************************************************************)
EXTENDS JobSteps

ASSUME LiveAssumption == Live = TRUE

(* A VM's snapshot tree: the job's own snapshot, and those of anybody else.*)
Trees == SUBSET {"own", "foreign"}
SnapshotCommands == [op : {"create", "merge"}, vm : VMs, id : Nat]

(* What a merge is for: the copy and then the source of a COPY, the target *)
(* of a MOVE, or the source that restoreSource puts back.                  *)
Purposes == {"none", "copy", "source", "move", "restore"}

LiveLabels == {"snapshot", "deltas", "cutover.guard", "metadata", "delta.descriptor", "delta.extent",
               "metadata.copy", "delta.verify", "copy.register", "copy.registered", "copy.off",
               "copy.unregister", "copy.unregistered", "merge.list", "merge.remove", "merge.check",
               "restore.check", "restore.off", "restore.unregister", "restore.unregistered",
               "restore.register", "restore.registered", "restore.tree", "restore.finish"}

VARIABLES
    tree,     \* VM -> its snapshot tree, kept in its folder
    pending,  \* snapshot commands that may still take effect
    session,  \* how often the source was started; a running guest writes to its deltas
    header,   \* disk -> the session its copied delta descriptor is of, 0 for none
    extent,   \* disk -> the session its copied delta holds, 0 for none or a mixture
    undo,     \* the deferred restore: due after the snapshot and until the switch
    unproven, \* clonePending: a clone was launched and its exit was not observed
    merge,    \* the merge under way: what for, and of which registration
    warned    \* the target's snapshot could not be merged

liveOwn == <<tree, pending, session, header, extent, undo, unproven, merge, warned>>
liveVars == <<vars, stepVars, liveOwn>>
snapshots == <<tree, pending, session>>
deltas == <<header, extent>>

LiveTypeOK ==
    /\ HostTypeOK /\ SwitchTypeOK /\ StepsTypeOK
    /\ pc \in SwitchLabels \cup StepLabels \cup LiveLabels
    /\ tree \in [VMs -> Trees] /\ pending \subseteq SnapshotCommands /\ session \in Nat
    /\ header \in [Disks -> 0..session] /\ extent \in [Disks -> 0..session]
    /\ undo \in {"none", "due", "begun", "done"} /\ unproven \in BOOLEAN /\ warned \in BOOLEAN
    /\ merge \in [for : Purposes, vm : VMs, id : Nat]

LiveInit ==
    /\ HostInit /\ StepsInit
    /\ power = [vm \in VMs |-> IF vm = "source" THEN "on" ELSE "off"]
    /\ lock \in {"free", "foreign"}
    /\ plan \in Requests
    /\ job = [NewJob EXCEPT !.phase = "queued", !.verified = FALSE]
    /\ pc = "queued"
    /\ polled = "off" /\ answered = FALSE /\ online = TRUE
    /\ tree = [vm \in VMs |-> {}] /\ pending = {} /\ session = 1
    /\ header = [d \in Disks |-> 0] /\ extent = header
    /\ undo = "none" /\ unproven = FALSE /\ warned = FALSE
    /\ merge = [for |-> "none", vm |-> "source", id |-> 0]

(***************************************************************************)
(* Snapshots on the host.  Merging rewrites the base disks.                *)
(***************************************************************************)
SnapshotTakes(c) ==
    \/ /\ c.op = "create"
       /\ tree' = IF Identified(c.vm, c.id) THEN [tree EXCEPT ![c.vm] = @ \cup {"own"}] ELSE tree
       /\ UNCHANGED changed
    \/ /\ c.op = "merge"
       /\ tree' = IF Identified(c.vm, c.id) THEN [tree EXCEPT ![c.vm] = {}] ELSE tree
       /\ changed' = (changed \/ tree'["source"] # tree["source"])

(* An engine that goes on only after a good reply: done is TRUE when it    *)
(* got one.                                                                *)
IssueSnapshot(c, done) ==
    \/ done /\ Identified(c.vm, c.id) /\ SnapshotTakes(c) /\ UNCHANGED pending
    \/ ~done /\ "lost" \in Faults /\ SnapshotTakes(c) /\ UNCHANGED pending
    \/ /\ ~done
       /\ Faults \cap {"refused", "lost"} # {} \/ ~Identified(c.vm, c.id)
       /\ UNCHANGED <<tree, pending, changed>>
    \/ ~done /\ "late" \in Faults /\ pending' = pending \cup {c} /\ UNCHANGED <<tree, changed>>

LandSnapshot(c) ==
    /\ pending' = pending \ {c}
    /\ landed' = TRUE
    /\ SnapshotTakes(c)
    /\ UNCHANGED <<inventory, lock, flying, outside, switchVars, control, watch, clones, session,
                   deltas, undo, unproven, merge, warned>>

(* Somebody takes a snapshot of a VM in Host Client, or deletes all.       *)
OutsideSnapshot(vm) ==
    /\ outside < MaxOutside /\ Registered(vm)
    /\ outside' = outside + 1
    /\ \E t \in {tree[vm] \cup {"foreign"}, {}} :
           /\ t # tree[vm]
           /\ tree' = [tree EXCEPT ![vm] = t]
           /\ changed' = (changed \/ (vm = "source" /\ t = {}))
    /\ UNCHANGED <<inventory, lock, flying, landed, switchVars, control, watch, clones, pending,
                   session, deltas, undo, unproven, merge, warned>>

(* A VM that is started begins a session: its guest writes to its deltas,  *)
(* and to its base disks when it runs on no snapshot.                      *)
LiveDisturb ==
    /\ Environment
    /\ LET starts == power["source"] # "on" /\ power'["source"] = "on"
       IN /\ session' = IF starts THEN session + 1 ELSE session
          /\ changed' = (changed \/ (starts /\ tree["source"] = {}))
    /\ UNCHANGED <<switchVars, control, watch, clones, tree, pending, deltas, undo, unproven,
                   merge, warned>>

(***************************************************************************)
(* Until the snapshot exists.                                              *)
(***************************************************************************)
Quiet == Query /\ Local
Still == UNCHANGED <<stepVars, liveOwn>>

CheckOk(ownLock) == InspectOk(ownLock, FALSE) /\ power["source"] = "on" /\ tree["source"] = {}

LivePreflight ==
    /\ Advance("preflight", CheckOk(FALSE), "acquire")
    /\ Quiet /\ Still /\ UNCHANGED job

LivePreflightOwn ==
    /\ Advance("preflight.own", CheckOk(TRUE), "snapshot")
    /\ job' = IF pc' = "snapshot" THEN [job EXCEPT !.phase = "snapshot"] ELSE job
    /\ polled' = power["source"]
    /\ Query /\ Still /\ UNCHANGED <<plan, answered, online>>

(* From here the snapshot may exist, even when the reply was lost.         *)
CreateSnapshot ==
    /\ pc = "snapshot"
    /\ \E done \in BOOLEAN :
           /\ IssueSnapshot([op |-> "create", vm |-> "source", id |-> SourceId], done)
           /\ Goto(IF done THEN "deltas" ELSE "failing")
    /\ undo' = "due"
    /\ Quiet /\ UNCHANGED <<job, control, watch, clones, session, deltas, unproven, merge, warned>>

(* liveDeltas: the VM runs on the job's snapshot, and on nothing else, and *)
(* every delta names the base disk that was analysed, by its CID.          *)
OwnSnapshotOnly == tree["source"] = {"own"}
DeltasOk == OwnSnapshotOnly /\ ~changed

LiveDeltas ==
    /\ Advance("deltas", DeltasOk, "folder")
    /\ Quiet /\ Still /\ UNCHANGED job

(***************************************************************************)
(* The base disks.  The free space that liveGuard reads is an input: any   *)
(* reading may be too low.                                                 *)
(***************************************************************************)
LiveGuardOk == reg = OnlySource /\ DeltasOk

LiveDiskGuard ==
    /\ pc = "disk.guard"
    /\ \/ stop /\ Goto("stopped") /\ UNCHANGED job
       \/ ~stop /\ Goto("failing") /\ UNCHANGED job
       \/ ~stop /\ LiveGuardOk /\ Phase("cloning") /\ Goto("clone.start")
    /\ Quiet /\ Still

LiveCloneStart == CloneStart /\ unproven' = TRUE /\ UNCHANGED <<snapshots, deltas, undo, merge, warned>>

ExitForgotten == unproven' = FALSE
ExitObserved == unproven' = (pc' \in {"clone.poll", "clone.stop"})
LiveClonePoll == ClonePoll /\ ExitObserved /\ UNCHANGED <<snapshots, deltas, undo, merge, warned>>

LiveDiskCloned ==
    /\ pc = "clone.done"
    /\ Phase("verifying_disk") /\ Goto("disk.verify")
    /\ Quiet /\ Still

(***************************************************************************)
(* The cutover.                                                            *)
(***************************************************************************)
AfterClones ==
    /\ pc = "all.guard"
    /\ \/ Goto("failing") /\ UNCHANGED <<job, control>>
       \/ LiveGuardOk /\ Proceed("cutover", "shutdown.begin")
    /\ disk' = IF pc' = "shutdown.begin" THEN 1 ELSE disk
    /\ Quiet /\ UNCHANGED <<folder, stopping, cause, clones, changed, liveOwn>>

LiveRevalidate ==
    /\ pc = "shutdown.revalidate"
    /\ Goto("failing") \/ (LiveGuardOk /\ Goto("shutdown.force"))
    /\ Quiet /\ Still /\ UNCHANGED job

CutoverGuard ==
    /\ pc = "shutdown.done"
    /\ Goto("failing") \/ (LiveGuardOk /\ Goto("metadata"))
    /\ Quiet /\ Still /\ UNCHANGED job

Metadata ==
    /\ Advance("metadata", OwnSnapshotOnly, "delta.descriptor")
    /\ job' = IF pc' = "failing" THEN job ELSE [job EXCEPT !.phase = "cutover"]
    /\ Quiet /\ Still

CopyFails == Faults \cap {"refused", "lost"} # {} /\ Goto("failing")

CopyDescriptor ==
    /\ pc = "delta.descriptor"
    /\ \/ CopyFails /\ UNCHANGED header
       \/ header' = [header EXCEPT ![disk] = session] /\ Goto("delta.extent")
    /\ Quiet /\ UNCHANGED <<job, stepVars, snapshots, extent, undo, unproven, merge, warned>>

(* ESXi locks the extent a running VM writes to.  An extent copied after   *)
(* another session began may hold a part of each.                          *)
NextDelta == IF disk < NDisks THEN "delta.descriptor" ELSE "metadata.copy"

CopyExtent ==
    /\ pc = "delta.extent"
    /\ \/ (CopyFails \/ (power["source"] = "on" /\ Goto("failing"))) /\ UNCHANGED <<extent, disk>>
       \/ /\ power["source"] # "on"
          /\ extent' = [extent EXCEPT ![disk] = IF session = header[disk] THEN session ELSE 0]
          /\ disk' = IF disk < NDisks THEN disk + 1 ELSE 1
          /\ Goto(NextDelta)
    /\ Quiet
    /\ UNCHANGED <<job, control, folder, stopping, cause, clones, changed, snapshots, header, undo,
                   unproven, merge, warned>>

(* The VMSN and the VMSD: a target that is registered has the snapshot.    *)
CopyMetadata ==
    /\ pc = "metadata.copy"
    /\ \/ CopyFails /\ UNCHANGED <<tree, job>>
       \/ /\ tree' = [tree EXCEPT !["target"] = {"own"}]
          /\ Phase("verifying_config") /\ Goto("config")
    /\ Quiet /\ UNCHANGED <<stepVars, pending, session, deltas, undo, unproven, merge, warned>>

(* verifyDelta compares the copied descriptor, with its CID, to the        *)
(* source's as it is now; after the last disk, verifyCopies.               *)
DeltaUnread(d) == header[d] # 0
DeltaIntact(d) == header[d] = session

NextVerify == IF disk < NDisks THEN "verify.all" ELSE IF plan.mode = "move" THEN "commit.check" ELSE "copy.register"

VerifyDelta ==
    /\ Advance("verify.all", worker[disk] = "done" /\ DeltaIntact(disk), NextVerify)
    /\ disk' = IF pc' = "verify.all" THEN disk + 1 ELSE disk
    /\ job' = CASE pc' = "commit.check" -> [job EXCEPT !.verified = TRUE]
                [] pc' = "copy.register" -> [job EXCEPT !.verified = TRUE, !.phase = "consolidating"]
                [] OTHER -> job
    /\ Quiet /\ UNCHANGED <<control, folder, stopping, cause, clones, changed, liveOwn>>

(***************************************************************************)
(* ConsolidateOwnSnapshot, which lists the snapshots and then removes all  *)
(* of them, and merged, which checks the outcome.  A target that cannot be *)
(* merged after the switch is only warned about.                           *)
(***************************************************************************)
Begin(purpose, vm, id) == merge' = [for |-> purpose, vm |-> vm, id |-> id] /\ Goto("merge.list")

MergeGivenUp ==
    IF merge.for = "move" THEN UNCHANGED warned /\ Goto("finish") ELSE UNCHANGED warned /\ Goto("failing")
MergeFails ==
    IF merge.for = "move" THEN warned' = TRUE /\ Goto("finish") ELSE UNCHANGED warned /\ Goto("failing")

MergeList ==
    /\ pc = "merge.list"
    /\ \/ (Fails \/ ~Identified(merge.vm, merge.id) \/ tree[merge.vm] # {"own"}) /\ MergeFails
       \/ /\ Identified(merge.vm, merge.id) /\ tree[merge.vm] = {"own"}
          /\ Goto("merge.remove") /\ UNCHANGED warned
    /\ Quiet /\ UNCHANGED <<job, stepVars, snapshots, deltas, undo, unproven, merge>>

MergeRemove ==
    /\ pc = "merge.remove"
    /\ \E done \in BOOLEAN :
           /\ IssueSnapshot([op |-> "merge", vm |-> merge.vm, id |-> merge.id], done)
           /\ IF done THEN Goto("merge.check") /\ UNCHANGED warned ELSE MergeFails
    /\ Quiet /\ UNCHANGED <<job, control, watch, clones, session, deltas, undo, unproven, merge>>

AfterMerge ==
    CASE merge.for = "copy" -> "copy.unregister"
      [] merge.for = "restore" -> "restore.finish"
      [] OTHER -> "finish"

MergeCheck ==
    /\ pc = "merge.check"
    /\ \/ (Fails \/ ~Identified(merge.vm, merge.id) \/ tree[merge.vm] # {}) /\ MergeFails
       \/ /\ Identified(merge.vm, merge.id) /\ tree[merge.vm] = {}
          /\ Goto(AfterMerge) /\ UNCHANGED warned
    /\ Quiet /\ UNCHANGED <<job, stepVars, snapshots, deltas, undo, unproven, merge>>

Merge == MergeList \/ MergeRemove \/ MergeCheck

(***************************************************************************)
(* mergeCopy: the copy is registered only to merge its snapshot.           *)
(***************************************************************************)
KeepSnapshots == UNCHANGED <<stepVars, snapshots, deltas, undo, unproven, warned>>

CopyRegister ==
    /\ pc = "copy.register"
    /\ Call("register", "target", 0)
    /\ \E id \in {0, reg'["target"]} :
           /\ id = 0 => reg' = reg \/ "lost" \in Faults
           /\ id # 0 => reg' # reg
           /\ merge' = [for |-> "copy", vm |-> "target", id |-> id]
    /\ Goto("copy.registered")
    /\ Local /\ KeepSnapshots /\ UNCHANGED job

CopyRegistered ==
    /\ pc = "copy.registered"
    /\ LET ok == /\ Registered("target") /\ Identified("source", SourceId)
                 /\ merge.id \in {0, reg["target"]}
       IN \/ (Fails \/ ~ok) /\ Goto("failing") /\ UNCHANGED merge
          \/ ok /\ merge' = [merge EXCEPT !.id = reg["target"]] /\ Goto("copy.off")
    /\ Quiet /\ KeepSnapshots /\ UNCHANGED job

CopyOff ==
    /\ Advance("copy.off", FoundOff("target", merge.id), "merge.list")
    /\ Quiet /\ Still /\ UNCHANGED job

CopyUnregister ==
    /\ pc = "copy.unregister"
    /\ Call("unregister", "target", merge.id)
    /\ Goto("copy.unregistered")
    /\ Local /\ Still /\ UNCHANGED job

CopyUnregistered ==
    /\ pc = "copy.unregistered"
    /\ \/ (Fails \/ Registered("target")) /\ Goto("failing") /\ UNCHANGED <<job, merge>>
       \/ ~Registered("target") /\ Phase("consolidating") /\ Begin("source", "source", SourceId)
    /\ Quiet /\ KeepSnapshots

MergeCopy == CopyRegister \/ CopyRegistered \/ CopyOff \/ CopyUnregister \/ CopyUnregistered

(***************************************************************************)
(* The deferred undo, and restoreSource.                                   *)
(***************************************************************************)
UndoAlways == Phase("restoring") /\ Goto("restore.check")
UndoOrKeep ==
    IF unproven THEN Goto("failing") /\ UNCHANGED job
    ELSE Phase("restoring") /\ Goto("restore.check")

FailuresOnly == {"failing"}
Unfinished == {"failing", "stopped"}

Undo ==
    /\ pc \in Unfinished /\ undo = "due"
    /\ undo' = "begun"
    /\ UndoOrKeep
    /\ Quiet /\ UNCHANGED <<stepVars, snapshots, deltas, unproven, merge, warned>>

(* registrations, which is published, and whose source is what restore     *)
(* goes on with.                                                           *)
Found == job' = Published(job) /\ merge' = [for |-> "restore", vm |-> "source", id |-> reg["source"]]

RestoreCheck ==
    /\ pc = "restore.check"
    /\ \/ Fails /\ Goto("failing") /\ UNCHANGED <<job, merge>>
       \/ /\ Found
          /\ Goto(CASE Registered("target") -> "restore.off"
                    [] reg = Nobody -> "restore.register"
                    [] OTHER -> "restore.tree")
    /\ Quiet /\ KeepSnapshots

RestoreOff ==
    /\ Advance("restore.off", FoundOff("target", job.targetId), "restore.unregister")
    /\ Quiet /\ Still /\ UNCHANGED job

RestoreUnregister ==
    /\ pc = "restore.unregister"
    /\ Call("unregister", "target", job.targetId)
    /\ Goto("restore.unregistered")
    /\ Local /\ Still /\ UNCHANGED job

RestoreUnregistered ==
    /\ pc = "restore.unregistered"
    /\ \/ (Fails \/ Registered("target")) /\ Goto("failing") /\ UNCHANGED <<job, merge>>
       \/ /\ ~Registered("target") /\ Found
          /\ Goto(IF Registered("source") THEN "restore.tree" ELSE "restore.register")
    /\ Quiet /\ KeepSnapshots

RestoreRegister ==
    /\ pc = "restore.register"
    /\ Call("register", "source", 0)
    /\ Goto("restore.registered")
    /\ Local /\ Still /\ UNCHANGED job

RestoreRegistered ==
    /\ pc = "restore.registered"
    /\ \/ (Fails \/ ~Restored) /\ Goto("failing") /\ UNCHANGED <<job, merge>>
       \/ Restored /\ Found /\ Goto("restore.tree")
    /\ Quiet /\ KeepSnapshots

OnlyOwnLeft == tree["source"] = {"own"}

RestoreTree ==
    /\ pc = "restore.tree"
    /\ LET found == Identified("source", merge.id)
       IN \/ (Fails \/ ~found \/ ~(tree["source"] = {} \/ OnlyOwnLeft)) /\ Goto("failing")
          \/ found /\ tree["source"] = {} /\ Goto("merge.check")
          \/ found /\ OnlyOwnLeft /\ Goto("merge.list")
    /\ Quiet /\ Still /\ UNCHANGED job

RestoreFinish ==
    /\ pc = "restore.finish"
    /\ \/ /\ FinishOk
          /\ job' = [job EXCEPT !.phase = "rolled_back", !.complete = TRUE, !.canRollback = FALSE]
          /\ undo' = "done" /\ Goto("ended")
       \/ FinishError /\ Goto("failing") /\ UNCHANGED <<job, undo>>
    /\ Local /\ UNCHANGED <<stepVars, snapshots, deltas, unproven, merge, warned>>
    /\ UNCHANGED <<inventory, flying, landed, outside>>

Restore ==
    \/ Undo \/ RestoreCheck \/ RestoreOff \/ RestoreUnregister \/ RestoreUnregistered
    \/ RestoreRegister \/ RestoreRegistered \/ RestoreTree \/ RestoreFinish

(***************************************************************************)
(* The switch of a MOVE, after which nothing is undone, and the end: the   *)
(* target of a MOVE is merged before the lock is archived.                 *)
(***************************************************************************)
UndoKept == undo
UndoAfter == IF pc = "committed" THEN "none" ELSE undo

LiveSwitch ==
    /\ Commit \/ PowerOnLoop \/ Rollback
    /\ undo' = UndoAfter
    /\ UNCHANGED <<stepVars, snapshots, deltas, unproven, merge, warned>>

MergeTarget ==
    /\ pc = "finish" /\ plan.mode = "move" /\ merge.for = "none"
    /\ Phase("consolidating") /\ Begin("move", "target", job.targetId)
    /\ Quiet /\ KeepSnapshots

LiveFinish == (plan.mode = "move" => merge.for = "move") /\ Finish /\ Still

LiveFailed == undo # "due" /\ MarkFailed /\ Still

(***************************************************************************)
(* The specification.                                                      *)
(***************************************************************************)
LiveSteps ==
    \/ LivePreflight \/ LivePreflightOwn \/ CreateSnapshot \/ LiveDeltas \/ LiveDiskGuard
    \/ LiveCloneStart \/ LiveClonePoll \/ LiveDiskCloned \/ AfterClones \/ LiveRevalidate
    \/ CutoverGuard \/ Metadata \/ CopyDescriptor \/ CopyExtent \/ CopyMetadata \/ VerifyDelta
    \/ Merge \/ MergeCopy \/ Restore \/ LiveSwitch \/ MergeTarget \/ LiveFinish \/ LiveFailed

LiveEngine == LiveSteps \/ ((SharedSteps \/ Shutdown \/ CloneStop) /\ UNCHANGED liveOwn)

LiveDeadlines ==
    \/ (ShutdownDeadline \/ CloneGivesUp) /\ UNCHANGED liveOwn
    \/ PowerOnDeadline /\ Still

LiveNext ==
    \/ LiveEngine
    \/ LiveDeadlines
    \/ (Operator \/ GuestStops \/ Worker) /\ UNCHANGED liveOwn
    \/ (RollbackStart \/ BrowserCloses \/ OperatorPowersOff) /\ Still
    \/ LiveDisturb
    \/ \E vm \in VMs : OutsideSnapshot(vm)
    \/ \E c \in pending : LandSnapshot(c)

LiveSpec ==
    /\ LiveInit /\ [][LiveNext]_liveVars
    /\ WF_liveVars(LiveEngine)
    /\ SF_liveVars(CloneGivesUp /\ UNCHANGED liveOwn)
    /\ SF_liveVars(PowerOnDeadline /\ Still)

(***************************************************************************)
(* Properties.                                                             *)
(***************************************************************************)
\* While a clone may still read the source's base disks, or may still be
\* launched, the tool leaves its snapshot in place, also after the job (live.go:
\* "An unknown clone outcome keeps the snapshot and operation lock").
BaseStaysFrozen == outside = 0 /\ ~NoneActive => "own" \in tree["source"]

\* A live target called verified holds, on every disk, the base as of the
\* snapshot and the delta of one and the same session, even if somebody starts
\* the source again while its deltas are copied.
FaithfulLiveTarget ==
    job.verified =>
        /\ \A d \in Disks : copied[d] = "snapshot of the source"
        /\ \E n \in 1..session : \A d \in Disks : extent[d] = n

\* An accepted stop leaves the source running and registered: "the source simply
\* keeps running" (README), whatever the clone, the snapshot and the restore do.
StopKeepsRunning == stop /\ Undisturbed => power["source"] = "on" /\ reg = OnlySource

\* A job that says "The source is registered as before, without the temporary
\* snapshot" (runLive) tells the truth, and no clone is left.
RestoredIsRestored ==
    undo = "done" /\ Undisturbed =>
        /\ Registered("source") /\ ~Registered("target") /\ tree["source"] = {}
        /\ lock = "archived" /\ NoneActive

\* Also through restoreSource a MOVE never has both VMs registered; a COPY has,
\* while mergeCopy merges its snapshot.
MoveIsExclusive == plan.mode = "move" => Exclusive

\* A completed live job ends like a cold one: the README's table, with every
\* snapshot merged unless the page warns about the target's.
LiveResult ==
    job.phase = "completed" /\ Undisturbed =>
        /\ IF plan.mode = "copy" THEN reg = OnlySource ELSE OnlyTarget(job.targetId)
        /\ power["source"] = "off"
        /\ power["target"] = (IF plan.powerOn THEN "on" ELSE "off")
        /\ plan.mode = "copy" => tree = [vm \in VMs |-> {}]
        /\ ~warned => tree["target"] = {}
        /\ lock = "archived"

\* A stop accepted while the snapshot may exist ends with the source restored,
\* or with a clone nobody could account for, where every call is answered.
StopRestores == (stop /\ undo = "due") ~> (job.phase \in {"rolled_back", "unknown"})

\* The page's title of a live job that was rolled back is "Source restored"
\* (app.js), and a restored source runs without the job's snapshot.
RolledBackIsMerged == job.phase = "rolled_back" => "own" \notin tree["source"]

(***************************************************************************)
(* A live migration implements LiveRelocation; its undo is an outcome the  *)
(* page reports, "restoring", until it has ended.                          *)
(***************************************************************************)
LiveOutcome == IF job.phase = "restoring" THEN "restoring" ELSE Outcome

LivePromised == INSTANCE LiveRelocation WITH
    asked <- plan,
    home <- Home,
    started <- power["target"] = "on",
    outcome <- LiveOutcome,
    reversible <- job.canRollback,
    returning <- pc \in RollbackCommits,
    disturbed <- ~Undisturbed

\* Whatever a live job does to the registrations, its undo included, is a step
\* that LiveRelocation allows: the VM is between homes for one command only, a
\* target that ran is never taken away by the undo, and a result is reported
\* only where it is true.
LiveRelocates == LivePromised!LiveRelocationSpec
=============================================================================

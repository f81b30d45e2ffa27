------------------------------ MODULE JobSteps ------------------------------
(***************************************************************************)
(* The steps a cold and a live migration share: the operator's controls    *)
(* (Job.Control, Job.requestStop and Job.proceed of state.go), the lock    *)
(* and the target folder, the graceful or forced shutdown                  *)
(* (Engine.shutdown), and the detached clone of one disk                   *)
(* (Engine.waitClone with the worker of detached.go).                      *)
(***************************************************************************)
EXTENDS Switch

CONSTANTS
    NDisks,   \* how many disks the VM has
    Live      \* Request.Live: the VM keeps running while its base disks are cloned

ASSUME StepsAssumption == NDisks \in Nat \ {0} /\ Live \in BOOLEAN

Disks == 1..NDisks
Actions == {"wait", "manual", "force"}

StepLabels == {"queued", "preflight", "acquire", "preflight.own", "folder", "config",
               "shutdown.begin", "shutdown.request", "shutdown.poll", "shutdown.await",
               "shutdown.revalidate", "shutdown.force", "shutdown.done", "clone.start",
               "clone.poll", "clone.stop", "clone.done", "disk.guard", "disk.verify", "all.guard", "verify.all", "stopped"}

WorkerStates == {"none", "delayed", "launched", "cloning", "killed", "done", "failed", "dead"}

VARIABLES
    stop,      \* Job.stop: a stop was accepted
    final,     \* Job.final: a stop is no longer accepted
    channel,   \* Job.actions, of capacity one; "none" when empty
    inbox,     \* an action that passed Control's phase check, not yet sent
    disk,      \* the disk the engine is at
    folder,    \* the job created the target folder
    stopping,  \* waitClone: StopClone succeeded
    cause,     \* waitClone: the source datastore runs short of space (live only)
    worker,    \* disk -> its detached worker on ESXi
    copied,    \* disk -> what its finished clone holds
    changed    \* the source's base disks were written to since Analyze or the snapshot

stepVars == <<stop, final, channel, inbox, disk, folder, stopping, cause, worker, copied, changed>>
watch == <<disk, folder, stopping, cause>>
control == <<stop, final, channel, inbox>>
clones == <<worker, copied>>

StepsTypeOK ==
    /\ stop \in BOOLEAN /\ final \in BOOLEAN
    /\ channel \in Actions \cup {"stop", "none"}
    /\ inbox \in Actions \cup {"none"}
    /\ disk \in Disks
    /\ folder \in BOOLEAN /\ stopping \in BOOLEAN /\ cause \in BOOLEAN
    /\ worker \in [Disks -> WorkerStates]
    /\ copied \in [Disks -> {"nothing", "snapshot of the source", "torn"}]
    /\ changed \in BOOLEAN

StepsInit ==
    /\ stop = FALSE /\ final = FALSE /\ channel = "none" /\ inbox = "none"
    /\ disk = 1 /\ folder = FALSE /\ stopping = FALSE /\ cause = FALSE
    /\ worker = [d \in Disks |-> "none"]
    /\ copied = [d \in Disks |-> "nothing"]
    /\ changed = FALSE

Goto(label) == pc' = label
Phase(p) == job' = [job EXCEPT !.phase = p]

(***************************************************************************)
(* What the operator can do.  A stop is one critical section of the job's  *)
(* mutex; the other actions are checked in one and sent after it.          *)
(***************************************************************************)
Stoppable == job.phase \in {"queued", "preflight", "shutdown", "awaiting_shutdown", "cloning",
                            "reconnecting", "verifying_disk"}

StopAccepted == ~job.complete /\ ~final /\ Stoppable

RequestStopSilent ==
    /\ StopAccepted
    /\ stop' = TRUE
    /\ UNCHANGED <<hostVars, switchVars, final, channel, inbox, watch, clones, changed>>
RequestStop ==
    /\ StopAccepted
    /\ stop' = TRUE
    /\ channel' = IF channel = "none" THEN "stop" ELSE channel
    /\ UNCHANGED <<hostVars, switchVars, final, inbox, watch, clones, changed>>

ControlChecks(a) ==
    /\ inbox = "none" /\ job.phase = "awaiting_shutdown"
    /\ inbox' = a
    /\ UNCHANGED <<hostVars, switchVars, stop, final, channel, watch, clones, changed>>

(* A full channel turns the action down.                                   *)
ControlSends ==
    /\ inbox # "none"
    /\ channel' = IF channel = "none" THEN inbox ELSE channel
    /\ inbox' = "none"
    /\ UNCHANGED <<hostVars, switchVars, stop, final, watch, clones, changed>>

Operator == RequestStop \/ ControlSends \/ \E a \in Actions : ControlChecks(a)

(* Job.proceed: a stop accepted before it wins, later ones are refused.    *)
ProceedAnyway(p, label) ==
    /\ final' = TRUE /\ Phase(p) /\ Goto(label)
    /\ UNCHANGED <<stop, channel, inbox>>
Proceed(p, label) ==
    /\ IF stop
       THEN UNCHANGED <<final, job>> /\ Goto("stopped")
       ELSE final' = TRUE /\ Phase(p) /\ Goto(label)
    /\ UNCHANGED <<stop, channel, inbox>>

(***************************************************************************)
(* Before the source is touched, and the target's folder and files.        *)
(***************************************************************************)
Run ==
    /\ pc = "queued"
    /\ Phase("preflight") /\ Goto("preflight")
    /\ Query /\ Local /\ UNCHANGED stepVars

(* Analyzer.inspect with matchPlan, as far as it can change during a job:  *)
(* the registration, the disks' CIDs (in the fingerprint), the power, the  *)
(* lock unless it is known to be the job's own, and the target folder      *)
(* unless the job created it.                                              *)
InspectOk(ownLock, created) ==
    /\ Identified("source", SourceId)
    /\ ~changed
    /\ power["source"] # "suspended"
    /\ ownLock \/ lock = "free"
    /\ created \/ ~folder

(* A check that lets the job go on, or ends it.                            *)
Advance(from, ok, to) ==
    /\ pc = from
    /\ \/ (Fails \/ ~ok) /\ Goto("failing")
       \/ ok /\ Goto(to)

(* Client.Acquire creates the lock's directory with mkdir, so it fails if  *)
(* anybody holds the lock; a lost reply leaves a lock nobody works under.  *)
Acquire ==
    /\ pc = "acquire"
    /\ \/ lock = "free" /\ lock' = "held" /\ Goto("preflight.own")
       \/ lock = "free" /\ lock' = "held" /\ "lost" \in Faults /\ Goto("failing")
       \/ (lock # "free" \/ Faults \cap {"refused", "lost"} # {}) /\ UNCHANGED lock /\ Goto("failing")
    /\ Local /\ UNCHANGED <<inventory, flying, landed, outside, job, stepVars>>

(* A mkdir whose reply is lost ends the job and leaves an empty folder.    *)
CreateTarget ==
    /\ pc = "folder"
    /\ \/ folder' = TRUE /\ Goto("disk.guard")
       \/ "lost" \in Faults /\ folder' = TRUE /\ Goto("failing")
       \/ Faults \cap {"refused", "lost"} # {} /\ UNCHANGED folder /\ Goto("failing")
    /\ Query /\ Local /\ UNCHANGED <<job, control, disk, stopping, cause, clones, changed>>

CopyConfig ==
    /\ pc = "config"
    /\ Goto("verify.all") \/ (Faults \cap {"refused", "lost"} # {} /\ Goto("failing"))
    /\ Query /\ Local /\ UNCHANGED <<job, stepVars>>

NextDiskPast == IF disk <= NDisks THEN "disk.guard" ELSE "all.guard"
NextDisk == IF disk < NDisks THEN "disk.guard" ELSE "all.guard"

(* verifyDisk, and for a live migration sameCID, of a finished clone.      *)
DiskVerify ==
    /\ Advance("disk.verify", worker[disk] = "done", NextDisk)
    /\ disk' = IF pc' = "disk.guard" THEN disk + 1 ELSE disk
    /\ Query /\ Local /\ UNCHANGED <<job, control, folder, stopping, cause, clones, changed>>

SharedSteps == Run \/ Acquire \/ CreateTarget \/ CopyConfig \/ DiskVerify

(***************************************************************************)
(* Engine.shutdown.  polled is the power its caller's inspection read.     *)
(***************************************************************************)
ShutdownBegin ==
    /\ pc = "shutdown.begin"
    /\ \/ polled = "off" /\ Goto("shutdown.done") /\ UNCHANGED job
       \/ polled = "on" /\ Phase("shutdown") /\ Goto("shutdown.request")
       \/ polled = "suspended" /\ Goto("failing") /\ UNCHANGED job
    /\ Query /\ Local /\ UNCHANGED stepVars

(* The guest, once asked, stops by itself or never (GuestStops).  A failed *)
(* request only moves the deadline, which ShutdownDeadline leaves open.    *)
ShutdownRequest ==
    /\ pc = "shutdown.request"
    /\ Goto("shutdown.poll")
    /\ Query /\ Local /\ UNCHANGED <<job, stepVars>>

ShutdownPoll ==
    /\ pc = "shutdown.poll"
    /\ \/ stop /\ Goto("stopped")
       \/ ~stop /\ (Fails \/ ~Identified("source", SourceId) \/ power["source"] = "suspended")
          /\ Goto("failing")
       \/ ~stop /\ FoundOff("source", SourceId) /\ Goto("shutdown.done")
       \/ ~stop /\ Identified("source", SourceId) /\ power["source"] = "on" /\ UNCHANGED pc
    /\ Query /\ Local /\ UNCHANGED <<job, stepVars>>

ShutdownDeadline ==
    /\ pc = "shutdown.poll" /\ ~stop
    /\ Identified("source", SourceId) /\ power["source"] = "on"
    /\ Phase("awaiting_shutdown") /\ Goto("shutdown.await")
    /\ Query /\ Local /\ UNCHANGED stepVars

ShutdownReceive ==
    /\ pc = "shutdown.await" /\ channel # "none"
    /\ channel' = "none"
    /\ CASE channel = "stop" -> Goto("stopped") /\ UNCHANGED job
         [] channel = "force" -> Goto("shutdown.revalidate") /\ UNCHANGED job
         [] OTHER -> Phase("shutdown") /\ Goto("shutdown.poll")
    /\ Query /\ Local /\ UNCHANGED <<stop, final, inbox, watch, clones, changed>>

(* Host.ForceOff is an error for a VM that is already off, and an error    *)
(* ends the job, whether or not the VM went off.                           *)
ForceOff == [op |-> "powerOff", vm |-> "source", id |-> SourceId]

ShutdownForce ==
    /\ pc = "shutdown.force"
    /\ \/ /\ Identified("source", SourceId) /\ power["source"] = "on" /\ Obey(ForceOff)
          /\ \/ Phase("shutdown") /\ Goto("shutdown.poll")
             \/ "lost" \in Faults /\ Goto("failing") /\ UNCHANGED job
       \/ /\ \/ Faults \cap {"refused", "lost"} # {} \/ ~Identified("source", SourceId)
             \/ power["source"] # "on"
          /\ Ignore /\ Goto("failing") /\ UNCHANGED job
       \/ Delay(ForceOff) /\ Goto("failing") /\ UNCHANGED job
    /\ Local /\ UNCHANGED <<lock, landed, outside, stepVars>>

Shutdown ==
    \/ ShutdownBegin \/ ShutdownRequest \/ ShutdownPoll \/ ShutdownReceive \/ ShutdownForce

(* The guest ends on request, or because somebody shuts it down inside it. *)
GuestStops ==
    /\ pc \in {"shutdown.poll", "shutdown.await", "shutdown.revalidate", "shutdown.force"}
    /\ power["source"] = "on"
    /\ power' = [power EXCEPT !["source"] = "off"]
    /\ UNCHANGED <<reg, lastId, question, lock, flying, landed, outside, switchVars, stepVars>>

(***************************************************************************)
(* The detached worker of StartClone, which outlives the SSH session: it   *)
(* checks the source's power itself, clones, and publishes its exit code.  *)
(* A dead worker leaves a pid, which another process may take over, and no *)
(* exit marker, and possibly a vmkfstools that still writes.  CloneWorker  *)
(* has its scripts.                                                        *)
(***************************************************************************)
Active(d) == worker[d] \in {"delayed", "launched", "cloning", "killed", "dead"}
NoneActive == \A d \in Disks : ~Active(d)

WorkerBecomes(d, state) == worker' = [worker EXCEPT ![d] = state]

WorkerLaunches(d) == worker[d] = "delayed" /\ WorkerBecomes(d, "launched") /\ UNCHANGED copied

WorkerChecksPower(d) ==
    /\ worker[d] = "launched"
    /\ WorkerBecomes(d, IF Live \/ FoundOff("source", SourceId) THEN "cloning" ELSE "failed")
    /\ UNCHANGED copied

(* A clone read while the source's disks changed is no copy of any state;  *)
(* behind a snapshot a running VM does not write to its base disks.        *)
Torn == changed \/ (~Live /\ power["source"] = "on")

WorkerEndsUnsignalled(d) ==
    /\ worker[d] \in {"cloning", "killed"} /\ WorkerBecomes(d, "done")
    /\ copied' = [copied EXCEPT ![d] = IF Torn THEN "torn" ELSE "snapshot of the source"]
WorkerEnds(d) ==
    /\ worker[d] \in {"cloning", "killed"}
    /\ \/ /\ worker[d] = "cloning" /\ WorkerBecomes(d, "done")
          /\ copied' = [copied EXCEPT ![d] = IF Torn THEN "torn" ELSE "snapshot of the source"]
       \/ /\ worker[d] = "killed" \/ "refused" \in Faults \/ Torn
          /\ WorkerBecomes(d, "failed") /\ UNCHANGED copied

WorkerDies(d) ==
    /\ "lost" \in Faults /\ worker[d] \in {"launched", "cloning", "killed"}
    /\ WorkerBecomes(d, "dead") /\ UNCHANGED copied

Worker ==
    /\ \E d \in Disks : WorkerLaunches(d) \/ WorkerChecksPower(d) \/ WorkerEnds(d) \/ WorkerDies(d)
    /\ UNCHANGED <<hostVars, switchVars, control, watch, changed>>

(***************************************************************************)
(* Engine.waitClone: poll CloneStatus; pass a stop on to the worker; give  *)
(* up when a deadline passes.  Only an exit marker proves that the clone   *)
(* has ended: everything else leaves the job "unknown".                    *)
(***************************************************************************)
ExitSeen == worker[disk] \in {"done", "failed"}
StatusFails == Fails \/ worker[disk] = "dead"

CloneStart ==
    /\ pc = "clone.start" /\ worker[disk] = "none"
    /\ stopping' = FALSE /\ cause' = FALSE
    /\ \/ WorkerBecomes(disk, "launched") /\ UNCHANGED job
       \/ "lost" \in Faults /\ WorkerBecomes(disk, "launched") /\ Phase("reconnecting")
       \/ "late" \in Faults /\ WorkerBecomes(disk, "delayed") /\ Phase("reconnecting")
       \/ Faults \cap {"refused", "lost"} # {} /\ UNCHANGED worker /\ Phase("reconnecting")
    /\ Goto("clone.poll")
    /\ Query /\ Local /\ UNCHANGED <<control, disk, folder, copied, changed>>

Watch(ending) == IF ending /\ ~stopping THEN "clone.stop" ELSE "clone.poll"

CloneExits ==
    /\ Phase("cloning")
    /\ Goto(CASE cause -> "failing"
              [] ~cause /\ stop -> "stopped"
              [] OTHER -> IF worker[disk] = "done" THEN "clone.done" ELSE "failing")
    /\ UNCHANGED cause

(* The free space is an input: any reading of it may be too low.           *)
CloneRuns ==
    /\ Phase("cloning")
    /\ cause' \in {cause} \cup IF Live /\ ~stop THEN {TRUE} ELSE {}
    /\ Goto(Watch(stop \/ cause'))

ClonePoll ==
    /\ pc = "clone.poll"
    /\ \/ StatusFails /\ Phase("reconnecting") /\ Goto(Watch(stop \/ cause)) /\ UNCHANGED cause
       \/ ExitSeen /\ CloneExits
       \/ ~ExitSeen /\ CloneRuns
    /\ Query /\ Local /\ UNCHANGED <<control, disk, folder, stopping, clones, changed>>

(* StopClone finds no pid to signal before the worker cloned, and perhaps  *)
(* nobody to signal between the clone's end and its exit marker.           *)
CloneStop ==
    /\ pc = "clone.stop"
    /\ \/ ExitSeen /\ stopping' = TRUE /\ UNCHANGED worker
       \/ /\ worker[disk] \in {"cloning", "killed", "dead"}
          /\ (worker[disk] # "dead" /\ WorkerBecomes(disk, "killed")) \/ UNCHANGED worker
          /\ stopping' \in {TRUE} \cup (IF "lost" \in Faults THEN {FALSE} ELSE {})
       \/ /\ Faults # {} \/ (~ExitSeen /\ worker[disk] \notin {"cloning", "killed"})
          /\ UNCHANGED <<worker, stopping>>
    /\ Goto("clone.poll")
    /\ Query /\ Local /\ UNCHANGED <<job, control, disk, folder, cause, copied, changed>>

CloneGivenUp ==
    /\ pc = "clone.poll"
    /\ Goto("failing")
    /\ Query /\ Local /\ UNCHANGED <<job, stepVars>>
CloneGivesUp ==
    /\ pc = "clone.poll"
    /\ Phase("unknown") /\ Goto("failing")
    /\ Query /\ Local /\ UNCHANGED stepVars

CloneSteps == CloneStart \/ ClonePoll \/ CloneStop

(* Engine.stopped: the lock goes, the source stays as it is.               *)
Stopped ==
    /\ pc = "stopped"
    /\ FinishOk \/ FinishError
    /\ job' = [job EXCEPT !.phase = "stopped", !.complete = TRUE]
    /\ Goto("ended")
    /\ Local /\ UNCHANGED <<inventory, flying, landed, outside, stepVars>>

(* Whoever starts the source makes the guest write to its disks, and the   *)
(* first write of a session changes the CID in their descriptors.          *)
Disturb ==
    /\ Environment
    /\ changed' = (changed \/ (power["source"] # "on" /\ power'["source"] = "on"))
    /\ UNCHANGED <<switchVars, control, watch, clones>>

(***************************************************************************)
(* What both migrations promise.                                           *)
(***************************************************************************)
\* Each disk's worker behaves as DetachedClone says, which is what CloneWorker
\* shows of its scripts: no step of a job launches a clone twice, revives one
\* or takes a signalled one for a copy.
Clones == INSTANCE DetachedClone WITH
            worker <- [d \in Disks |-> IF worker[d] = "delayed" THEN "none" ELSE worker[d]]
ClonesAsPromised == Clones!Spec

\* A job that ended, other than as "unknown", left no clone that runs or may
\* still be launched, or whose worker died without a word, and the lock is
\* archived only after every clone's end (waitClone: "A timeout or lost
\* connection does not prove exit").
ClonesAccounted ==
    (job.complete /\ job.phase # "unknown") \/ lock = "archived" => NoneActive

\* An accepted stop ends the job, also while an operator's answer, the guest or
\* a lost clone is awaited; and a job past the point of no return ends, with or
\* without a stop: the deadline bounds the power-on loop, also when replies are
\* lost and the target asks one question after another.
JobEnds == (stop \/ final) ~> job.complete
=============================================================================

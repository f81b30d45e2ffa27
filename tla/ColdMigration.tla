---------------------------- MODULE ColdMigration ----------------------------
(***************************************************************************)
(* Engine.run (engine.go): a cold migration from its last preflight to the *)
(* archived lock.  The source is shut down, each disk is cloned by a       *)
(* detached worker, and only a verified target is switched to.             *)
(***************************************************************************)
EXTENDS JobSteps

ASSUME ColdAssumption == Live = FALSE

coldVars == <<vars, stepVars>>

ColdLabels == {"disk.off", "last.guard"}

ColdTypeOK ==
    /\ HostTypeOK /\ SwitchTypeOK /\ StepsTypeOK
    /\ pc \in SwitchLabels \cup StepLabels \cup ColdLabels

ColdInit ==
    /\ HostInit /\ StepsInit
    /\ power \in [VMs -> {"off", "on"}] /\ power["target"] = "off"
    /\ lock \in {"free", "foreign"}
    /\ plan \in Requests
    /\ job = [NewJob EXCEPT !.phase = "queued", !.verified = FALSE]
    /\ pc = "queued"
    /\ polled = "off" /\ answered = FALSE /\ online = TRUE

(* Engine.guard also insists on a source that is off.                      *)
PowerOnlyGuard(created) == power["source"] = "off" /\ Identified("source", SourceId)
GuardOk(created) == InspectOk(TRUE, created) /\ power["source"] = "off"

Preflight ==
    /\ Advance("preflight", InspectOk(FALSE, FALSE), "acquire")
    /\ Query /\ Local /\ UNCHANGED <<job, stepVars>>

PreflightOwn ==
    /\ Advance("preflight.own", InspectOk(TRUE, FALSE), "shutdown.begin")
    /\ polled' = power["source"]
    /\ Query /\ UNCHANGED <<plan, answered, online, job, stepVars>>

ShutdownRevalidate ==
    /\ Advance("shutdown.revalidate", InspectOk(TRUE, FALSE), "shutdown.force")
    /\ Query /\ Local /\ UNCHANGED <<job, stepVars>>

GuardAfterShutdown ==
    /\ Advance("shutdown.done", GuardOk(FALSE), "folder")
    /\ Query /\ Local /\ UNCHANGED <<job, stepVars>>

(***************************************************************************)
(* The loop over the disks.                                                *)
(***************************************************************************)
DiskGuard ==
    /\ pc = "disk.guard"
    /\ \/ stop /\ Goto("stopped") /\ UNCHANGED job
       \/ ~stop /\ (Fails \/ ~GuardOk(TRUE)) /\ Goto("failing") /\ UNCHANGED job
       \/ ~stop /\ GuardOk(TRUE) /\ Phase("cloning") /\ Goto("disk.off")
    /\ Query /\ Local /\ UNCHANGED stepVars

DiskOff ==
    /\ Advance("disk.off", FoundOff("source", SourceId), "clone.start")
    /\ Query /\ Local /\ UNCHANGED <<job, stepVars>>

DiskCloned ==
    /\ Advance("clone.done", FoundOff("source", SourceId), "disk.verify")
    /\ job' = IF pc' = "disk.verify" THEN [job EXCEPT !.phase = "verifying_disk"] ELSE job
    /\ Query /\ Local /\ UNCHANGED stepVars

(* The last point where a stop is honoured.                                *)
AllGuard ==
    /\ pc = "all.guard"
    /\ \/ (Fails \/ ~GuardOk(TRUE)) /\ Goto("failing") /\ UNCHANGED <<job, control>>
       \/ GuardOk(TRUE) /\ Proceed("verifying_config", "config")
    /\ Query /\ Local /\ UNCHANGED <<watch, clones, changed>>

VerifyAll ==
    /\ Advance("verify.all", \A d \in Disks : worker[d] = "done", "last.guard")
    /\ Query /\ Local /\ UNCHANGED <<job, stepVars>>

LastGuard ==
    /\ Advance("last.guard", GuardOk(TRUE), IF plan.mode = "move" THEN "commit.check" ELSE "finish")
    /\ job' = IF pc' = "failing" THEN job ELSE [job EXCEPT !.verified = TRUE]
    /\ Query /\ Local /\ UNCHANGED stepVars

(***************************************************************************)
(* The specification.  The engine keeps running and every deadline passes  *)
(* in the end; the worker, the guest, the operator and everybody else may  *)
(* stop for good.                                                          *)
(***************************************************************************)
ColdSteps ==
    \/ Preflight \/ PreflightOwn \/ ShutdownRevalidate \/ GuardAfterShutdown
    \/ DiskGuard \/ DiskOff \/ DiskCloned \/ AllGuard \/ VerifyAll \/ LastGuard

ColdEngine ==
    \/ SharedSteps \/ ColdSteps \/ Shutdown \/ CloneSteps \/ Stopped
    \/ Engine /\ UNCHANGED stepVars

Deadlines == ShutdownDeadline \/ CloneGivesUp \/ (PowerOnDeadline /\ UNCHANGED stepVars)

ColdNext ==
    \/ ColdEngine
    \/ Deadlines
    \/ Operator \/ GuestStops \/ Worker \/ Disturb
    \/ (RollbackStart \/ BrowserCloses \/ OperatorPowersOff) /\ UNCHANGED stepVars

ColdSpec ==
    /\ ColdInit /\ [][ColdNext]_coldVars
    /\ WF_coldVars(ColdEngine)
    /\ SF_coldVars(CloneGivesUp)
    /\ SF_coldVars(PowerOnDeadline /\ UNCHANGED stepVars)

(***************************************************************************)
(* Properties.                                                             *)
(***************************************************************************)
\* A target called verified holds, on every disk, one and the same state of
\* the source, even if somebody starts the source between two checks (the
\* fingerprint that guard compares holds each descriptor's CID).
FaithfulTarget == job.verified => \A d \in Disks : copied[d] = "snapshot of the source"

\* Once a stop is accepted nothing is registered, unregistered or verified:
\* "an accepted stop is never silently ignored" (proceed).
StopRegistersNothing == stop /\ Undisturbed => reg = OnlySource /\ ~job.verified

\* A completed job is the README's table of results, for a COPY and a MOVE.
ColdResult ==
    job.phase = "completed" /\ Undisturbed =>
        /\ IF plan.mode = "copy" THEN reg = OnlySource ELSE OnlyTarget(job.targetId)
        /\ power["source"] = "off"
        /\ power["target"] = (IF plan.powerOn THEN "on" ELSE "off")
        /\ lock = "archived"

\* "Stop at any time before the point of no return" (README): a job that
\* accepted a stop does not cut the VM's power any more.
StopSparesThePower == [][stop => ~ShutdownForce]_coldVars
=============================================================================

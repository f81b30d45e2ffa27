----------------------------- MODULE CloneWorker -----------------------------
(***************************************************************************)
(* The scripts of detached.go around one disk's clone, each a process of   *)
(* the ESXi shell: the worker that StartClone leaves behind, vmkfstools,   *)
(* CloneStatus and StopClone.  They share the files disk-N.pid, .clonepid  *)
(* and .exit.  A redirection creates its file before it is written.        *)
(***************************************************************************)
CONSTANT MayFail   \* /tmp may be full, and a worker may be killed

ASSUME WorkerAssumption == MayFail \in BOOLEAN

VARIABLES
    at,         \* the worker's next statement
    clone,      \* the vmkfstools process: "none", "runs", "complete" or "failed"
    signalled,  \* it was signalled while it ran
    rc,         \* the worker's rc: "0" or "not 0"
    pid,        \* disk-N.pid: "absent", "empty" or "written"
    clonepid,   \* disk-N.clonepid: likewise
    marker,     \* disk-N.exit: "absent" or the rc in it
    poll,       \* CloneStatus: its next test
    told,       \* what the last CloneStatus that was answered said
    stopAt,     \* StopClone: its next test
    wanted,     \* the engine wants the clone stopped
    stopping,   \* waitClone: a StopClone succeeded
    trouble     \* a write failed or the worker was killed

workerVars == <<at, clone, signalled, rc, pid, clonepid, marker, trouble>>
pollVars == <<poll, told>>
stopVars == <<stopAt, wanted, stopping>>
vars == <<workerVars, pollVars, stopVars>>

Init ==
    /\ at = "none" /\ clone = "none" /\ signalled = FALSE /\ rc = "not 0"
    /\ pid = "absent" /\ clonepid = "absent" /\ marker = "absent"
    /\ poll = "idle" /\ told = "nothing"
    /\ stopAt = "idle" /\ wanted = FALSE /\ stopping = FALSE /\ trouble = FALSE

(***************************************************************************)
(* The worker.  The .started directory keeps a second one from starting.   *)
(***************************************************************************)
Launch ==
    /\ at = "none" /\ at' = "pid.create"
    /\ UNCHANGED <<clone, signalled, rc, pid, clonepid, marker, trouble, pollVars, stopVars>>

(* A statement of the form printf > file, of two steps.  One that fails    *)
(* leaves the file empty, and the script goes on.                          *)
Creates(file, from, to) ==
    /\ at = from /\ at' = to
    /\ file' = "empty" /\ UNCHANGED trouble
Writes(file, from, to) ==
    /\ at = from /\ at' = to
    /\ \/ file' = "written" /\ UNCHANGED trouble
       \/ MayFail /\ UNCHANGED file /\ trouble' = TRUE

WritePid ==
    /\ \/ Creates(pid, "pid.create", "pid.write")
       \/ Writes(pid, "pid.write", "check")
    /\ UNCHANGED <<clone, signalled, rc, clonepid, marker, pollVars, stopVars>>

(* Only "Powered off" lets the clone start, else rc is vim-cmd's, or 92; a *)
(* live migration's worker does not ask.                                   *)
CheckPower ==
    /\ at = "check" /\ at' \in {"fork", "tmp"}
    /\ UNCHANGED <<clone, signalled, rc, pid, clonepid, marker, trouble, pollVars, stopVars>>

Fork ==
    /\ at = "fork" /\ at' = "clonepid.create"
    /\ clone' = "runs"
    /\ UNCHANGED <<signalled, rc, pid, clonepid, marker, trouble, pollVars, stopVars>>

WriteClonePid ==
    /\ \/ Creates(clonepid, "clonepid.create", "clonepid.write")
       \/ Writes(clonepid, "clonepid.write", "wait")
    /\ UNCHANGED <<clone, signalled, rc, pid, marker, pollVars, stopVars>>

CloneEnds ==
    /\ clone = "runs" /\ clone' \in {"complete", "failed"}
    /\ UNCHANGED <<at, signalled, rc, pid, clonepid, marker, trouble, pollVars, stopVars>>

WaitForAny ==
    /\ at = "wait" /\ at' = "tmp"
    /\ rc' = IF clone = "complete" THEN "0" ELSE "not 0"
    /\ UNCHANGED <<clone, signalled, pid, clonepid, marker, trouble, pollVars, stopVars>>
WaitForgetsStatus ==
    /\ at = "wait" /\ at' = "tmp" /\ clone # "runs"
    /\ rc' = "0"
    /\ UNCHANGED <<clone, signalled, pid, clonepid, marker, trouble, pollVars, stopVars>>
Wait ==
    /\ at = "wait" /\ at' = "tmp" /\ clone # "runs"
    /\ rc' = IF clone = "complete" THEN "0" ELSE "not 0"
    /\ UNCHANGED <<clone, signalled, pid, clonepid, marker, trouble, pollVars, stopVars>>

(* disk-N.exit.tmp is written first and then renamed, so nobody reads a    *)
(* marker that is half written.                                            *)
WriteExit ==
    /\ at = "tmp"
    /\ \/ at' = "mv" /\ UNCHANGED trouble
       \/ MayFail /\ at' = "gone" /\ trouble' = TRUE
    /\ UNCHANGED <<clone, signalled, rc, pid, clonepid, marker, pollVars, stopVars>>

Publish ==
    /\ at = "mv" /\ at' = "gone"
    /\ \/ marker' = rc /\ UNCHANGED trouble
       \/ MayFail /\ UNCHANGED marker /\ trouble' = TRUE
    /\ UNCHANGED <<clone, signalled, rc, pid, clonepid, pollVars, stopVars>>

Worker == WritePid \/ CheckPower \/ Fork \/ WriteClonePid \/ Wait \/ WriteExit \/ Publish

(* A killed worker leaves vmkfstools behind.                               *)
Die ==
    /\ MayFail /\ at \notin {"none", "gone"}
    /\ at' = "gone" /\ trouble' = TRUE
    /\ UNCHANGED <<clone, signalled, rc, pid, clonepid, marker, pollVars, stopVars>>

(***************************************************************************)
(* CloneStatus: the marker, else the worker's pid, else it is starting.    *)
(***************************************************************************)
Says(answer) == told' = answer /\ poll' = "idle" /\ UNCHANGED <<workerVars, stopVars>>
Asks(test) == poll' = test /\ UNCHANGED <<told, workerVars, stopVars>>

PollBegins == poll = "idle" /\ told \notin {"done", "failed"} /\ Asks("exit")

PollExit ==
    /\ poll = "exit"
    /\ CASE marker = "absent" -> Asks("pid")
         [] marker = "0" -> Says("done")
         [] OTHER -> Says("failed")

PollPid ==
    /\ poll = "pid"
    /\ CASE pid = "absent" -> Says("alive")
         [] pid = "empty" -> Says("unknown")
         [] OTHER -> Asks("kill")

(* A process that has taken over a dead worker's pid looks like it.        *)
PollAlive ==
    /\ poll = "kill"
    /\ \E answer \in IF at = "gone" THEN {"unknown", "alive"} ELSE {"alive"} : Says(answer)

Poll == PollBegins \/ PollExit \/ PollPid \/ PollAlive

(***************************************************************************)
(* StopClone, which waitClone repeats until one succeeds.                  *)
(***************************************************************************)
StopWanted ==
    /\ ~wanted /\ wanted' = TRUE
    /\ UNCHANGED <<workerVars, pollVars, stopAt, stopping>>

StopBegins ==
    /\ wanted /\ ~stopping /\ stopAt = "idle" /\ stopAt' = "exit"
    /\ UNCHANGED <<workerVars, pollVars, wanted, stopping>>

StopReturns(ok) == stopAt' = "idle" /\ stopping' = ok

StopExit ==
    /\ stopAt = "exit"
    /\ IF marker = "absent" THEN stopAt' = "cat" /\ UNCHANGED stopping ELSE StopReturns(TRUE)
    /\ UNCHANGED <<workerVars, pollVars, wanted>>

StopCatUnchecked ==
    /\ stopAt = "cat"
    /\ IF clonepid = "written" THEN stopAt' = "kill" /\ UNCHANGED stopping ELSE StopReturns(TRUE)
    /\ UNCHANGED <<workerVars, pollVars, wanted>>
StopCat ==
    /\ stopAt = "cat"
    /\ IF clonepid = "written" THEN stopAt' = "kill" /\ UNCHANGED stopping ELSE StopReturns(FALSE)
    /\ UNCHANGED <<workerVars, pollVars, wanted>>

(* The clone may have ended since: nobody is signalled, or a stranger that *)
(* has taken over its pid.                                                 *)
StopKill ==
    /\ stopAt = "kill"
    /\ IF clone = "runs"
       THEN clone' = "failed" /\ signalled' = TRUE /\ StopReturns(TRUE)
       ELSE UNCHANGED <<clone, signalled>> /\ \E ok \in BOOLEAN : StopReturns(ok)
    /\ UNCHANGED <<at, rc, pid, clonepid, marker, trouble, pollVars, wanted>>

Stop == StopBegins \/ StopExit \/ StopCat \/ StopKill

Next == Launch \/ Worker \/ CloneEnds \/ Die \/ Poll \/ StopWanted \/ Stop

(* The ESXi shell runs its processes, and waitClone polls and repeats a    *)
(* stop.  Nothing is assumed of vmkfstools: a clone may hang.              *)
Spec == Init /\ [][Next]_vars /\ WF_vars(Worker) /\ WF_vars(Poll) /\ WF_vars(Stop)

(***************************************************************************)
(* Properties.                                                             *)
(***************************************************************************)
\* The scripts keep what JobSteps assumes of a clone, whichever of them races
\* with the others: its end is published once, by the worker, and is not a
\* success when the clone was signalled.
Ended == marker # "absent"
WorkerState ==
    CASE marker = "0" -> "done"
      [] marker = "not 0" -> "failed"
      [] at = "none" -> "none"
      [] at = "gone" /\ ~Ended -> "dead"
      [] at \notin {"none", "gone"} /\ ~Ended /\ clone = "none" -> "launched"
      [] OTHER -> IF signalled THEN "killed" ELSE "cloning"
Promised == INSTANCE DetachedClone WITH Disks <- {"N"}, worker <- [d \in {"N"} |-> WorkerState]
Implements == Promised!Spec

\* engine.go: "A successful kill request does not prove exit."  An answer that
\* the clone has ended is a proof: no vmkfstools writes to the target any more,
\* or ever will, and a success means a complete copy.
ExitProven ==
    /\ told \in {"done", "failed"} => clone # "runs" /\ at = "gone"
    /\ told = "done" => clone = "complete"

\* A stop that the engine wants is reported as the clone's end, also when it
\* arrives before the clone's pid is recorded, unless ESXi's /tmp is full or the
\* worker was killed: "The worker then publishes the exit code".
StopIsReported ==
    (wanted /\ at # "none") ~> (told \in {"done", "failed"} \/ trouble)
=============================================================================

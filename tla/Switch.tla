------------------------------- MODULE Switch -------------------------------
(***************************************************************************)
(* The registration switch of a MOVE: Engine.commit, Engine.powerOn, the   *)
(* end of Engine.run, and Engine.Rollback, which the operator may ask for  *)
(* after a failure (engine.go).  Each action is one call to the host with  *)
(* the local code up to the next call, so that anything may happen on the  *)
(* host between two of them.                                               *)
(***************************************************************************)
EXTENDS Host

CONSTANT BrowserMayClose   \* may the page be closed while a rollback runs?

ASSUME SwitchAssumption == BrowserMayClose \in BOOLEAN

SourceId == 1   \* r.VM.ID, the source's registration that was analysed

(* validateRequest: only a MOVE may start the target.                      *)
Requests == {r \in [mode : {"copy", "move"}, powerOn : BOOLEAN] : r.mode = "copy" => ~r.powerOn}

Views == {"registered", "not registered", "unknown"}
Phases == {"queued", "preflight", "shutdown", "awaiting_shutdown", "cloning", "reconnecting",
           "verifying_disk", "verifying_config", "commit", "power_on", "completed", "failed",
           "unknown", "rolled_back", "snapshot", "cutover", "consolidating", "restoring", "stopped"}

RollbackLabels == {"rollback.check", "rollback.power", "rollback.message", "rollback.unregister",
                   "rollback.unregistered", "rollback.register", "rollback.registered",
                   "rollback.finish"}
SwitchLabels == {"commit.check", "commit.sourceOff", "commit.unregister", "commit.unregistered",
                 "commit.register", "commit.registered", "commit.restore", "commit.restored",
                 "commit.targetOff", "committed", "powerOn.check", "powerOn.command", "powerOn.poll",
                 "powerOn.message", "powerOn.answer", "finish", "failing", "ended"}
                \cup RollbackLabels

VARIABLES
    plan,      \* the request this job carries out
    job,       \* State: what the page shows of the job
    pc,        \* the next call of the engine, or of the rollback handler
    polled,    \* powerOn: the power state the last poll returned
    answered,  \* powerOn: the moved question was answered
    online     \* the browser still waits for the rollback's answer

switchVars == <<plan, job, pc, polled, answered, online>>
vars == <<hostVars, switchVars>>

Jobs == [phase : Phases, complete : BOOLEAN, verified : BOOLEAN, canRollback : BOOLEAN,
         source : Views, target : Views, targetId : Nat,
         targetPower : PowerStates \cup {"unknown", "not running"}]

SwitchTypeOK ==
    /\ plan \in Requests
    /\ job \in Jobs
    /\ polled \in PowerStates
    /\ answered \in BOOLEAN
    /\ online \in BOOLEAN

TypeOK == HostTypeOK /\ SwitchTypeOK /\ pc \in SwitchLabels

(* The engine is about to commit a verified target of an off source.       *)
NewJob == [phase |-> "verifying_config", complete |-> FALSE, verified |-> TRUE,
           canRollback |-> FALSE, source |-> "registered", target |-> "not registered",
           targetId |-> 0, targetPower |-> "not running"]

OnlySource == [vm \in VMs |-> IF vm = "source" THEN SourceId ELSE 0]
Nobody == [vm \in VMs |-> 0]

HostInit ==
    /\ reg = OnlySource
    /\ lastId = SourceId
    /\ question = "none"
    /\ flying = {}
    /\ landed = FALSE
    /\ outside = 0

Init ==
    /\ HostInit
    /\ power = [vm \in VMs |-> "off"]
    /\ lock = "held"
    /\ plan \in {r \in Requests : r.mode = "move"}
    /\ job = NewJob
    /\ pc = "commit.check"
    /\ polled = "off"
    /\ answered = FALSE
    /\ online = TRUE

(***************************************************************************)
(* publishRegistrations: the page shows what the inventory just said.      *)
(***************************************************************************)
ViewOfUnset(id) == IF id > 0 THEN "registered" ELSE ""
ViewOf(id) == IF id > 0 THEN "registered" ELSE "not registered"

Published(j) ==
    [j EXCEPT !.source = ViewOf(reg["source"]),
              !.target = ViewOf(reg["target"]),
              !.targetId = IF reg["target"] > 0 THEN reg["target"] ELSE @]

(* The context of Engine.Run never ends; a rollback has that of its HTTP   *)
(* request, which ends when the browser goes away.                         *)
Sent == pc \in RollbackLabels => online

Call(op, vm, id) == Issue([op |-> op, vm |-> vm, id |-> id], Sent) /\ UNCHANGED <<lock, landed, outside>>

Query == UNCHANGED hostVars
Fails == QueryFails(Sent)

Local == UNCHANGED <<plan, polled, answered, online>>

(* What the inventory must show before a step; TargetAbsent, RestoredBlind *)
(* and RunningByState are mutants.                                         *)
TargetAbsent == ~Registered("target")
NeitherRegistered == reg = Nobody
OnlyTarget(id) == ~Registered("source") /\ Identified("target", id)
RestoredBlind == TRUE
Restored == Registered("source") /\ ~Registered("target")

(* requireOff: the VM is there under this id, and it is off.               *)
FoundOff(vm, id) == Identified(vm, id) /\ power[vm] = "off"

(***************************************************************************)
(* Engine.commit                                                           *)
(***************************************************************************)
CommitCheck ==
    /\ pc = "commit.check"
    /\ \/ (Fails \/ ~job.verified \/ reg # OnlySource) /\ pc' = "failing"
       \/ job.verified /\ reg = OnlySource /\ pc' = "commit.sourceOff"
    /\ Query /\ Local /\ UNCHANGED job

CommitSourceOff ==
    /\ pc = "commit.sourceOff"
    /\ \/ (Fails \/ ~FoundOff("source", SourceId)) /\ pc' = "failing" /\ UNCHANGED job
       \/ /\ FoundOff("source", SourceId)
          /\ job' = [job EXCEPT !.phase = "commit", !.source = "unknown"]
          /\ pc' = "commit.unregister"
    /\ Query /\ Local

CommitUnregister ==
    /\ pc = "commit.unregister"
    /\ Call("unregister", "source", SourceId)
    /\ pc' = "commit.unregistered"
    /\ Local /\ UNCHANGED job

CommitUnregistered ==
    /\ pc = "commit.unregistered"
    /\ \/ Fails /\ pc' = "failing" /\ UNCHANGED job
       \/ /\ job' = Published(job)
          /\ pc' = IF NeitherRegistered THEN "commit.register" ELSE "failing"
    /\ Query /\ Local

CommitRegisterSilent ==
    /\ pc = "commit.register"
    /\ Call("register", "target", 0)
    /\ pc' = "commit.registered"
    /\ Local /\ UNCHANGED job

CommitRegister ==
    /\ pc = "commit.register"
    /\ Call("register", "target", 0)
    /\ job' = [job EXCEPT !.target = "unknown"]
    /\ pc' = "commit.registered"
    /\ Local

(* A target that did not appear is given up, and the source is registered  *)
(* again; a target that did makes the move reversible by Rollback.         *)
CommitRegistered ==
    /\ pc = "commit.registered"
    /\ \/ Fails /\ pc' = "failing" /\ UNCHANGED job
       \/ Registered("source") /\ job' = Published(job) /\ pc' = "failing"
       \/ /\ NeitherRegistered
          /\ job' = [Published(job) EXCEPT !.source = "unknown"]
          /\ pc' = "commit.restore"
       \/ /\ ~Registered("source") /\ Registered("target")
          /\ job' = [Published(job) EXCEPT !.targetPower = "unknown", !.canRollback = TRUE]
          /\ pc' = "commit.targetOff"
    /\ Query /\ Local

CommitRestore ==
    /\ pc = "commit.restore"
    /\ Call("register", "source", 0)
    /\ pc' = "commit.restored"
    /\ Local /\ UNCHANGED job

CommitRestored ==
    /\ pc = "commit.restored"
    /\ \/ Fails /\ UNCHANGED job
       \/ job' = Published(job)
    /\ pc' = "failing"
    /\ Query /\ Local

CommitTargetOff ==
    /\ pc = "commit.targetOff"
    /\ \/ (Fails \/ ~Identified("target", job.targetId)) /\ pc' = "failing" /\ UNCHANGED job
       \/ /\ Identified("target", job.targetId)
          /\ job' = [job EXCEPT !.targetPower = power["target"]]
          /\ pc' = IF power["target"] = "off" THEN "committed" ELSE "failing"
    /\ Query /\ Local

Committed ==
    /\ pc = "committed"
    /\ pc' = IF plan.powerOn THEN "powerOn.check" ELSE "finish"
    /\ Query /\ Local /\ UNCHANGED job

Commit ==
    \/ CommitCheck \/ CommitSourceOff \/ CommitUnregister \/ CommitUnregistered \/ CommitRegister
    \/ CommitRegistered \/ CommitRestore \/ CommitRestored \/ CommitTargetOff \/ Committed

(***************************************************************************)
(* Engine.powerOn: the command itself is bounded by ten seconds and its    *)
(* reply is ignored; the loop watches the power state and the question     *)
(* until the deadline.                                                     *)
(***************************************************************************)
(* A VM blocked on a question already reports Powered on, so an open       *)
(* question outranks the power state read before it.                       *)
RunningByState == polled = "on"
Running == polled = "on" /\ question = "none"

PowerOnCheck ==
    /\ pc = "powerOn.check"
    /\ \/ (Fails \/ ~OnlyTarget(job.targetId)) /\ pc' = "failing" /\ UNCHANGED job
       \/ /\ OnlyTarget(job.targetId)
          /\ job' = [job EXCEPT !.phase = "power_on"]
          /\ pc' = "powerOn.command"
    /\ Query /\ Local

PowerOnCommand ==
    /\ pc = "powerOn.command"
    /\ Call("powerOn", "target", job.targetId)
    /\ answered' = FALSE
    /\ pc' = "powerOn.poll"
    /\ UNCHANGED <<plan, job, polled, online>>

PowerOnPoll ==
    /\ pc = "powerOn.poll"
    /\ \/ (Fails \/ ~Identified("target", job.targetId))
          /\ pc' = "failing" /\ UNCHANGED <<job, polled>>
       \/ /\ Identified("target", job.targetId)
          /\ polled' = power["target"]
          /\ job' = [job EXCEPT !.targetPower = power["target"]]
          /\ pc' = "powerOn.message"
    /\ Query /\ UNCHANGED <<plan, answered, online>>

PowerOnMessage ==
    /\ pc = "powerOn.message"
    /\ \/ /\ \/ Fails \/ ~Identified("target", job.targetId) \/ question = "other"
             \/ question = "moved" /\ answered
          /\ pc' = "failing" /\ UNCHANGED job
       \/ /\ Identified("target", job.targetId) /\ Running
          /\ job' = [job EXCEPT !.canRollback = FALSE]
          /\ pc' = "finish"
       \/ /\ Identified("target", job.targetId) /\ question = "none" /\ ~Running
          /\ pc' = "powerOn.poll" /\ UNCHANGED job
       \/ /\ Identified("target", job.targetId) /\ question = "moved" /\ ~answered
          /\ pc' = "powerOn.answer" /\ UNCHANGED job
    /\ Query /\ Local

(* Host.Answer: one question may follow another; an error ends the loop,   *)
(* whether or not the answer arrived.                                      *)
PowerOnAnswer ==
    /\ pc = "powerOn.answer"
    /\ \/ /\ question' = question
          /\ Faults \cap {"refused", "lost"} # {} \/ ~Identified("target", job.targetId)
          /\ pc' = "failing" /\ UNCHANGED answered
       \/ /\ Identified("target", job.targetId)
          /\ question' \in IF question = "none" THEN {"none"} ELSE Questions
          /\ \/ answered' = TRUE /\ pc' = "powerOn.poll"
             \/ "lost" \in Faults /\ UNCHANGED answered /\ pc' = "failing"
    /\ UNCHANGED <<reg, lastId, power, lock, flying, landed, outside, plan, job, polled, online>>

PowerOnDeadline ==
    /\ pc = "powerOn.poll"
    /\ pc' = "failing"
    /\ Query /\ Local /\ UNCHANGED job

(***************************************************************************)
(* Host.Finish reads job.meta and archives the lock by a rename; an error  *)
(* may hide that the rename took place.                                    *)
(***************************************************************************)
Archived == IF lock = "held" THEN "archived" ELSE lock

FinishOk == lock = "held" /\ Sent /\ lock' = Archived
FinishError ==
    \/ UNCHANGED lock /\ (lock # "held" \/ Fails \/ "refused" \in Faults)
    \/ lock' = Archived /\ Sent /\ "lost" \in Faults

FinishUnchecked ==
    /\ pc = "finish"
    /\ FinishOk \/ FinishError
    /\ job' = [job EXCEPT !.phase = "completed", !.complete = TRUE, !.canRollback = FALSE]
    /\ pc' = "ended"
    /\ Local /\ UNCHANGED <<inventory, flying, landed, outside>>
Finish ==
    /\ pc = "finish"
    /\ \/ /\ FinishOk
          /\ job' = [job EXCEPT !.phase = "completed", !.complete = TRUE, !.canRollback = FALSE]
          /\ pc' = "ended"
       \/ FinishError /\ pc' = "failing" /\ UNCHANGED job
    /\ Local /\ UNCHANGED <<inventory, flying, landed, outside>>

MarkFailed ==
    /\ pc = "failing"
    /\ job' = [job EXCEPT !.phase = IF @ = "unknown" THEN @ ELSE "failed", !.complete = TRUE]
    /\ pc' = "ended"
    /\ Query /\ Local

(***************************************************************************)
(* Engine.Rollback, in the HTTP handler: Server.begin lets it in only when *)
(* no engine runs.  An error returns to the page and changes nothing more. *)
(***************************************************************************)
RollbackStart ==
    /\ pc = "ended"
    /\ job.complete /\ job.canRollback /\ job.phase = "failed"
    /\ online' = TRUE
    /\ pc' = "rollback.check"
    /\ Query /\ UNCHANGED <<plan, job, polled, answered>>

BrowserCloses ==
    /\ BrowserMayClose
    /\ pc \in RollbackLabels /\ online
    /\ online' = FALSE
    /\ Query /\ UNCHANGED <<plan, job, pc, polled, answered>>

(* Rollback refuses a target that is not off, so the operator powers it    *)
(* off in Host Client first.                                               *)
OperatorPowersOff ==
    /\ pc = "ended" /\ job.canRollback /\ power["target"] # "off"
    /\ power' = [power EXCEPT !["target"] = "off"]
    /\ question' = "none"
    /\ UNCHANGED <<reg, lastId, lock, flying, landed, outside, switchVars>>

RollbackCheck ==
    /\ pc = "rollback.check"
    /\ \/ (Fails \/ ~OnlyTarget(job.targetId)) /\ pc' = "ended"
       \/ Sent /\ OnlyTarget(job.targetId) /\ pc' = "rollback.power"
    /\ Query /\ Local /\ UNCHANGED job

RollbackPower ==
    /\ pc = "rollback.power"
    /\ \/ (Fails \/ ~FoundOff("target", job.targetId)) /\ pc' = "ended"
       \/ Sent /\ FoundOff("target", job.targetId) /\ pc' = "rollback.message"
    /\ Query /\ Local /\ UNCHANGED job

(* From here the offer to roll back is gone, whatever happens.             *)
OfferKept(j) == [j EXCEPT !.target = "unknown"]
OfferWithdrawn(j) == [j EXCEPT !.target = "unknown", !.canRollback = FALSE]

RollbackMessage ==
    /\ pc = "rollback.message"
    /\ \/ /\ \/ Fails \/ ~Identified("target", job.targetId) \/ question # "none"
          /\ pc' = "ended" /\ UNCHANGED job
       \/ /\ Sent /\ Identified("target", job.targetId) /\ question = "none"
          /\ job' = OfferWithdrawn(job)
          /\ pc' = "rollback.unregister"
    /\ Query /\ Local

RollbackUnregister ==
    /\ pc = "rollback.unregister"
    /\ Call("unregister", "target", job.targetId)
    /\ pc' = "rollback.unregistered"
    /\ Local /\ UNCHANGED job

RollbackUnregistered ==
    /\ pc = "rollback.unregistered"
    /\ \/ Fails /\ pc' = "ended" /\ UNCHANGED job
       \/ Sent /\ ~NeitherRegistered /\ job' = Published(job) /\ pc' = "ended"
       \/ /\ Sent /\ NeitherRegistered
          /\ job' = [Published(job) EXCEPT !.source = "unknown"]
          /\ pc' = "rollback.register"
    /\ Query /\ Local

RollbackRegister ==
    /\ pc = "rollback.register"
    /\ Call("register", "source", 0)
    /\ pc' = "rollback.registered"
    /\ Local /\ UNCHANGED job

RollbackRegistered ==
    /\ pc = "rollback.registered"
    /\ \/ Fails /\ pc' = "ended" /\ UNCHANGED job
       \/ Sent /\ ~Restored /\ job' = Published(job) /\ pc' = "ended"
       \/ /\ Sent /\ Restored
          /\ job' = [Published(job) EXCEPT !.targetPower = "off"]
          /\ pc' = "rollback.finish"
    /\ Query /\ Local

RollbackFinish ==
    /\ pc = "rollback.finish"
    /\ \/ FinishOk /\ job' = [job EXCEPT !.phase = "rolled_back"]
       \/ FinishError /\ UNCHANGED job
    /\ pc' = "ended"
    /\ Local /\ UNCHANGED <<inventory, flying, landed, outside>>

Rollback ==
    \/ RollbackCheck \/ RollbackPower \/ RollbackMessage \/ RollbackUnregister
    \/ RollbackUnregistered \/ RollbackRegister \/ RollbackRegistered \/ RollbackFinish

(***************************************************************************)
(* The specification.  The engine's goroutine and the handler keep         *)
(* running, and a deadline that the loop keeps meeting passes in the end.  *)
(* Nothing forces the operator, the browser or anybody else.               *)
(***************************************************************************)
PowerOnLoop ==
    \/ PowerOnCheck \/ PowerOnCommand \/ PowerOnPoll \/ PowerOnMessage \/ PowerOnAnswer

Engine == Commit \/ PowerOnLoop \/ Finish \/ MarkFailed \/ Rollback

Environment == Outside \/ \E c \in flying : Land(c)

Next ==
    \/ Engine
    \/ PowerOnDeadline
    \/ RollbackStart
    \/ BrowserCloses
    \/ OperatorPowersOff
    \/ Environment /\ UNCHANGED switchVars

Spec == Init /\ [][Next]_vars /\ WF_vars(Engine) /\ SF_vars(PowerOnDeadline)

(***************************************************************************)
(* Properties.  All of them hold whatever calls fail and whatever replies  *)
(* are lost; those that relate the page or the end of a job to the host    *)
(* say so for an Undisturbed host.                                         *)
(***************************************************************************)
\* Source and target are never registered at the same time, although the
\* engine learns the outcome of no command from its reply (registrations).
Exclusive == Undisturbed => ~(Registered("source") /\ Registered("target"))

\* Whenever no engine and no handler is at work, what the page says about a
\* registration is true or is "unknown" (publishRegistrations and the
\* "unknown" that commit and Rollback write around their commands).
HonestView ==
    pc = "ended" /\ Undisturbed =>
        /\ job.source \in {ViewOf(reg["source"]), "unknown"}
        /\ job.target \in {ViewOf(reg["target"]), "unknown"}
        /\ job.target = "registered" => job.targetId = reg["target"]

\* A completed MOVE is the README's table: the source is not registered, the
\* target is, it runs without an open question when the start was asked for,
\* and the lock is archived.
CompletedIsSwitched ==
    job.phase = "completed" /\ Undisturbed =>
        /\ OnlyTarget(job.targetId)
        /\ power["target"] = (IF plan.powerOn THEN "on" ELSE "off")
        /\ plan.powerOn => question = "none"
        /\ lock = "archived"

\* A rollback reported as done left the source registered, the target not,
\* both off and the lock archived.
RolledBackIsRestored ==
    job.phase = "rolled_back" /\ Undisturbed =>
        /\ Registered("source") /\ ~Registered("target")
        /\ \A vm \in VMs : power[vm] = "off"
        /\ lock = "archived"

\* The page offers a rollback only while the inventory is the one Rollback
\* insists on: the target under the id the job knows, and no source.
RollbackOffered == pc = "ended" /\ job.canRollback /\ Undisturbed => OnlyTarget(job.targetId)

\* The README: "Closing the browser stops nothing."  Where the host obeys every
\* call, a failed or rolled-back job leaves the VM registered as the source or
\* as the target.
NeverAbandoned == pc = "ended" => reg # Nobody

(***************************************************************************)
(* The inductive invariant behind those properties: what the engine's last *)
(* reading of the inventory still tells it at each of its calls.  A lost   *)
(* reply widens it to "one of two inventories" until the next reading.     *)
(***************************************************************************)
BeforeTarget == {"commit.check", "commit.sourceOff", "commit.unregister", "commit.unregistered",
                 "commit.register", "commit.registered", "commit.restore", "commit.restored"}
PowerOnLabels == {"powerOn.check", "powerOn.command", "powerOn.poll", "powerOn.message", "powerOn.answer"}
RollbackCommits == {"rollback.unregister", "rollback.unregistered", "rollback.register",
                    "rollback.registered", "rollback.finish"}

RegistrationInv ==
    /\ plan.mode = "move"
    /\ ~(Registered("source") /\ Registered("target"))
    /\ pc \in {"commit.check", "commit.sourceOff", "commit.unregister"} => reg = OnlySource
    /\ pc \in {"commit.unregistered", "commit.restored", "rollback.registered"} => ~Registered("target")
    /\ pc \in {"commit.registered", "rollback.unregister", "rollback.unregistered"} => ~Registered("source")
    /\ pc \in {"commit.register", "commit.restore", "rollback.register"} => reg = Nobody
    /\ pc \in {"commit.targetOff", "committed", "finish"} \cup PowerOnLabels => OnlyTarget(job.targetId)
    /\ pc = "rollback.finish" => Restored

ViewInv ==
    /\ job.source \in {ViewOf(reg["source"]), "unknown"}
    /\ job.target \in {ViewOf(reg["target"]), "unknown"}
    /\ job.target = "registered" => job.targetId = reg["target"]
    /\ pc \in {"commit.unregister", "commit.restore", "rollback.register"} => job.source = "unknown"
    /\ pc = "rollback.unregister" => job.target = "unknown"

OfferInv ==
    /\ job.canRollback => OnlyTarget(job.targetId)
    /\ pc \in BeforeTarget \cup RollbackCommits => ~job.canRollback
    /\ pc \in {"commit.targetOff", "committed"} \cup PowerOnLabels \cup (RollbackLabels \ RollbackCommits)
           => job.canRollback

PowerInv ==
    /\ power["source"] = "off"
    /\ pc \in BeforeTarget \cup {"commit.targetOff", "committed", "powerOn.check", "powerOn.command"} =>
           power["target"] = "off" /\ question = "none"
    /\ pc = "powerOn.message" => polled = power["target"]
    /\ pc \in PowerOnLabels => plan.powerOn
    /\ pc = "finish" => /\ power["target"] = (IF plan.powerOn THEN "on" ELSE "off")
                       /\ question = "none"
    /\ pc \in RollbackCommits \cup {"rollback.message"} => power["target"] = "off"

OutcomeInv ==
    /\ pc \notin RollbackLabels \cup {"ended"} =>
           job.phase \notin {"completed", "failed", "unknown", "stopped", "rolled_back"}
    /\ pc \in RollbackLabels \/ (pc = "ended" /\ job.canRollback) => job.phase = "failed"
    /\ job.phase \in {"completed", "rolled_back"} => /\ pc = "ended" /\ ~job.canRollback
                                                    /\ lock = "archived"
    /\ job.phase = "completed" => /\ OnlyTarget(job.targetId)
                                  /\ power["target"] = (IF plan.powerOn THEN "on" ELSE "off")
                                  /\ question = "none"
    /\ job.phase = "rolled_back" => Restored /\ power["target"] = "off"

\* At each call of the engine and of the rollback handler, on a host nobody else
\* touches: which of the two VMs may be registered, what the page says of them,
\* and what the target's power is.  Every property above follows from it.
SwitchInv == Undisturbed => RegistrationInv /\ ViewInv /\ OfferInv /\ PowerInv /\ OutcomeInv

(***************************************************************************)
(* The switch is the part of Relocation that moves the registration.       *)
(***************************************************************************)
Home == {vm \in VMs : Registered(vm)}
Outcome == IF job.phase \in {"completed", "failed", "unknown", "stopped", "rolled_back"}
           THEN job.phase ELSE "running"

Promised == INSTANCE Relocation WITH
    asked <- plan,
    home <- Home,
    started <- power["target"] = "on",
    outcome <- Outcome,
    reversible <- job.canRollback,
    returning <- pc \in RollbackCommits,
    disturbed <- ~Undisturbed

\* Every step of the engine, of the rollback handler and of the host is one that
\* Relocation allows, or changes nothing that Relocation shows.
Relocates == Promised!RelocationSpec
=============================================================================

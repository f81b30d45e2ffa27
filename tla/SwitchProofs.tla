---------------------------- MODULE SwitchProofs ----------------------------
(***************************************************************************)
(* Proofs about Switch, for every set of faults and every number of        *)
(* outside changes.                                                        *)
(***************************************************************************)
EXTENDS Switch, TLAPS

USE DEF VMs, SourceId

LEMMA ConstantsOK == Faults \subseteq FaultKinds /\ MaxOutside \in Nat /\ BrowserMayClose \in BOOLEAN
  BY HostAssumption, SwitchAssumption

(***************************************************************************)
(* Type correctness.  The host's part is a lemma of its own, so that each  *)
(* action of the engine only shows what it does to the job.                *)
(***************************************************************************)
LEMMA EffectTyped ==
  ASSUME HostTypeOK, NEW c \in Commands, TakeEffect(c)
  PROVE  /\ reg' \in [VMs -> Nat]
         /\ lastId' \in Nat
         /\ power' \in [VMs -> PowerStates]
         /\ question' \in Questions
  BY DEF HostTypeOK, Commands, TakeEffect, Register, Unregister, PowerOn, PowerOff,
         Registered, Identified, PowerStates, Questions

LEMMA CallTyped ==
  ASSUME HostTypeOK, NEW op \in {"register", "unregister", "powerOn", "powerOff"},
         NEW vm \in VMs, NEW id \in Nat, Call(op, vm, id)
  PROVE  HostTypeOK'
<1> DEFINE c == [op |-> op, vm |-> vm, id |-> id]
<1>1. c \in Commands
  BY DEF Commands
<1>2. UNCHANGED <<lock, landed, outside>>
  BY DEF Call
<1>3. CASE Obey(c)
  BY <1>1, <1>2, <1>3, EffectTyped DEF Obey, HostTypeOK
<1>4. CASE Ignore
  BY <1>2, <1>4 DEF Ignore, HostTypeOK, inventory
<1>5. CASE Delay(c)
  BY <1>1, <1>2, <1>5 DEF Delay, HostTypeOK, inventory
<1> QED
  BY <1>3, <1>4, <1>5 DEF Call, Issue

LEMMA QueryTyped ==
  ASSUME HostTypeOK, Query
  PROVE  HostTypeOK'
  BY DEF HostTypeOK, Query, hostVars, inventory

LEMMA EnvironmentTyped ==
  ASSUME HostTypeOK, Environment
  PROVE  HostTypeOK'
<1>1. ASSUME NEW c \in flying, Land(c)
      PROVE  HostTypeOK'
  <2>1. c \in Commands
    BY DEF HostTypeOK
  <2> QED
    BY <1>1, <2>1, EffectTyped DEF Land, HostTypeOK
<1>2. ASSUME Outside
      PROVE  HostTypeOK'
  <2>1. /\ reg' \in [VMs -> Nat] /\ lastId' \in Nat
        /\ power' \in [VMs -> PowerStates] /\ question' \in Questions
    BY <1>2 DEF HostTypeOK, Outside, OutsidePower, OutsideAnswer, Register, Unregister, Registered,
           Identified, PowerStates, Questions, inventory
  <2>2. lock' \in LockStates
    BY <1>2 DEF HostTypeOK, Outside, LockStates
  <2> QED
    BY <1>2, <2>1, <2>2 DEF HostTypeOK, Outside
<1> QED
  BY <1>1, <1>2 DEF Environment

LEMMA PublishedTyped ==
  ASSUME HostTypeOK, NEW j \in Jobs
  PROVE  Published(j) \in Jobs
  BY DEF HostTypeOK, Published, Jobs, ViewOf, Views

LEMMA InitTyped == Init => TypeOK
<1> SUFFICES ASSUME Init
             PROVE  TypeOK
  OBVIOUS
<1>1. HostTypeOK
  BY DEF Init, HostInit, HostTypeOK, OnlySource, PowerStates, Questions, LockStates
<1>2. NewJob \in Jobs
  BY DEF NewJob, Jobs, Phases, Views
<1>3. plan \in Requests
  BY DEF Init
<1> QED
  BY <1>1, <1>2, <1>3 DEF Init, TypeOK, SwitchTypeOK, PowerStates, SwitchLabels

LEMMA CommitTyped ==
  ASSUME TypeOK, Commit
  PROVE  TypeOK'
<1> USE DEF TypeOK
<1>j. Published(job) \in Jobs
  BY PublishedTyped DEF SwitchTypeOK
<1> USE DEF SwitchTypeOK, SwitchLabels
<1>1. CASE CommitCheck
  BY <1>1, QueryTyped DEF CommitCheck, Local
<1>2. CASE CommitSourceOff
  BY <1>2, QueryTyped DEF CommitSourceOff, Local, Jobs, Phases, Views
<1>3. CASE CommitUnregister
  BY <1>3, CallTyped DEF CommitUnregister, Local
<1>4. CASE CommitUnregistered
  BY <1>j, <1>4, QueryTyped DEF CommitUnregistered, Local
<1>5. CASE CommitRegister
  BY <1>5, CallTyped DEF CommitRegister, Local, Jobs, Views
<1>6. CASE CommitRegistered
  BY <1>j, <1>6, QueryTyped DEF CommitRegistered, Local, Jobs, Views
<1>7. CASE CommitRestore
  BY <1>7, CallTyped DEF CommitRestore, Local
<1>8. CASE CommitRestored
  BY <1>j, <1>8, QueryTyped DEF CommitRestored, Local
<1>9. CASE CommitTargetOff
  BY <1>9, QueryTyped DEF CommitTargetOff, Local, HostTypeOK, Jobs
<1>10. CASE Committed
  BY <1>10, QueryTyped DEF Committed, Local
<1> QED
  BY <1>1, <1>2, <1>3, <1>4, <1>5, <1>6, <1>7, <1>8, <1>9, <1>10 DEF Commit

LEMMA PowerOnTyped ==
  ASSUME TypeOK, PowerOnLoop \/ PowerOnDeadline
  PROVE  TypeOK'
<1> USE DEF TypeOK, SwitchTypeOK, SwitchLabels
<1>1. CASE PowerOnCheck
  BY <1>1, QueryTyped DEF PowerOnCheck, Local, Jobs, Phases
<1>2. CASE PowerOnCommand
  BY <1>2, CallTyped DEF PowerOnCommand, Jobs
<1>3. CASE PowerOnPoll
  BY <1>3, QueryTyped DEF PowerOnPoll, HostTypeOK, Jobs
<1>4. CASE PowerOnMessage
  BY <1>4, QueryTyped DEF PowerOnMessage, Local, Jobs
<1>5. CASE PowerOnAnswer
  BY <1>5 DEF PowerOnAnswer, HostTypeOK, Questions
<1>6. CASE PowerOnDeadline
  BY <1>6, QueryTyped DEF PowerOnDeadline, Local
<1> QED
  BY <1>1, <1>2, <1>3, <1>4, <1>5, <1>6 DEF PowerOnLoop

LEMMA RollbackTyped ==
  ASSUME TypeOK, Rollback \/ RollbackStart \/ BrowserCloses \/ OperatorPowersOff
  PROVE  TypeOK'
<1> USE DEF TypeOK
<1>j. Published(job) \in Jobs
  BY PublishedTyped DEF SwitchTypeOK
<1>f. ASSUME FinishOk \/ FinishError, UNCHANGED <<inventory, flying, landed, outside>>
      PROVE  HostTypeOK'
  BY <1>f DEF FinishOk, FinishError, Archived, HostTypeOK, LockStates, inventory
<1> USE DEF SwitchTypeOK, SwitchLabels, RollbackLabels
<1>1. CASE RollbackStart
  BY <1>1, QueryTyped DEF RollbackStart
<1>2. CASE BrowserCloses
  BY <1>2, QueryTyped DEF BrowserCloses
<1>3. CASE OperatorPowersOff
  BY <1>3 DEF OperatorPowersOff, switchVars, HostTypeOK, PowerStates, Questions
<1>4. CASE RollbackCheck
  BY <1>4, QueryTyped DEF RollbackCheck, Local
<1>5. CASE RollbackPower
  BY <1>5, QueryTyped DEF RollbackPower, Local
<1>6. CASE RollbackMessage
  BY <1>6, QueryTyped DEF RollbackMessage, Local, OfferWithdrawn, Jobs, Views
<1>7. CASE RollbackUnregister
  BY <1>7, CallTyped DEF RollbackUnregister, Local, Jobs
<1>8. CASE RollbackUnregistered
  BY <1>j, <1>8, QueryTyped DEF RollbackUnregistered, Local, Jobs, Views
<1>9. CASE RollbackRegister
  BY <1>9, CallTyped DEF RollbackRegister, Local
<1>10. CASE RollbackRegistered
  BY <1>j, <1>10, QueryTyped DEF RollbackRegistered, Local, Jobs, PowerStates
<1>11. CASE RollbackFinish
  BY <1>f, <1>11 DEF RollbackFinish, Local, Jobs, Phases
<1> QED
  BY <1>1, <1>2, <1>3, <1>4, <1>5, <1>6, <1>7, <1>8, <1>9, <1>10, <1>11 DEF Rollback

LEMMA EndTyped ==
  ASSUME TypeOK, Finish \/ MarkFailed
  PROVE  TypeOK'
<1> USE DEF TypeOK
<1>1. CASE Finish
  <2>1. HostTypeOK'
    BY <1>1 DEF Finish, FinishOk, FinishError, Archived, HostTypeOK, LockStates, inventory
  <2> QED
    BY <1>1, <2>1 DEF Finish, SwitchTypeOK, SwitchLabels, Local, Jobs, Phases
<1>2. CASE MarkFailed
  <2>1. job \in Jobs /\ job'.phase \in Phases
    BY <1>2 DEF MarkFailed, SwitchTypeOK, Jobs, Phases
  <2>2. job' = [job EXCEPT !.phase = job'.phase, !.complete = TRUE]
    BY <1>2, <2>1 DEF MarkFailed, Jobs
  <2>3. job' \in Jobs
    BY <2>1, <2>2 DEF Jobs
  <2> QED
    BY <1>2, <2>3, QueryTyped DEF MarkFailed, SwitchTypeOK, SwitchLabels, Local
<1> QED
  BY <1>1, <1>2

LEMMA NextTyped == TypeOK /\ [Next]_vars => TypeOK'
<1> SUFFICES ASSUME TypeOK, [Next]_vars
             PROVE  TypeOK'
  OBVIOUS
<1>1. CASE Engine
  BY <1>1, CommitTyped, PowerOnTyped, EndTyped, RollbackTyped DEF Engine
<1>2. CASE PowerOnDeadline
  BY <1>2, PowerOnTyped
<1>3. CASE RollbackStart \/ BrowserCloses \/ OperatorPowersOff
  BY <1>3, RollbackTyped
<1>4. CASE Environment /\ UNCHANGED switchVars
  BY <1>4, EnvironmentTyped DEF TypeOK, SwitchTypeOK, switchVars
<1>5. CASE UNCHANGED vars
  BY <1>5 DEF vars, hostVars, inventory, switchVars, TypeOK, HostTypeOK, SwitchTypeOK
<1> QED
  BY <1>1, <1>2, <1>3, <1>4, <1>5 DEF Next

(* Every reachable state of the switch has the types of State and of the   *)
(* host interface, however many faults and outside changes there are.      *)
THEOREM TypeCorrect == Spec => []TypeOK
  BY InitTyped, NextTyped, PTL DEF Spec

(***************************************************************************)
(* What a call can do to the inventory, whatever becomes of its reply.     *)
(***************************************************************************)
CallFrame == UNCHANGED <<lock, landed, outside>>

LEMMA UnregisterCall ==
  ASSUME NEW vm \in VMs, NEW id, Call("unregister", vm, id)
  PROVE  /\ reg' = reg \/ reg' = [reg EXCEPT ![vm] = 0]
         /\ UNCHANGED <<power, question>> /\ CallFrame
  BY DEF Call, Issue, Obey, Ignore, Delay, TakeEffect, Unregister, CallFrame, inventory

LEMMA RegisterCall ==
  ASSUME NEW vm \in VMs, Call("register", vm, 0)
  PROVE  /\ reg' = reg \/ (~Registered(vm) /\ reg' = [reg EXCEPT ![vm] = lastId + 1])
         /\ UNCHANGED <<power, question>> /\ CallFrame
  BY DEF Call, Issue, Obey, Ignore, Delay, TakeEffect, Register, CallFrame, inventory

LEMMA PowerOnCall ==
  ASSUME NEW id, Call("powerOn", "target", id)
  PROVE  /\ power' = power \/ power' = [power EXCEPT !["target"] = "on"]
         /\ UNCHANGED reg /\ CallFrame
  BY DEF Call, Issue, Obey, Ignore, Delay, TakeEffect, PowerOn, CallFrame, inventory

LEMMA PublishedView ==
  ASSUME TypeOK
  PROVE  /\ Published(job) \in Jobs
         /\ Published(job).source = ViewOf(reg["source"])
         /\ Published(job).target = ViewOf(reg["target"])
         /\ Published(job).canRollback = job.canRollback
         /\ Published(job).phase = job.phase
         /\ reg["target"] # 0 => Published(job).targetId = reg["target"]
         /\ reg["target"] = 0 => Published(job).targetId = job.targetId
<1>1. job \in Jobs /\ reg["target"] \in Nat
  BY DEF TypeOK, HostTypeOK, SwitchTypeOK
<1>2. Published(job) \in Jobs
  BY <1>1, PublishedTyped DEF TypeOK
<1> DEFINE id == IF reg["target"] > 0 THEN reg["target"] ELSE job.targetId
           s == ViewOf(reg["source"])
           t == ViewOf(reg["target"])
<1>3. Published(job) = [job EXCEPT !.source = s, !.target = t, !.targetId = id]
  BY DEF Published
<1>4. /\ reg["target"] # 0 => id = reg["target"]
      /\ reg["target"] = 0 => id = job.targetId
  BY <1>1
<1> HIDE DEF id, s, t
<1>5. /\ Published(job).source = s /\ Published(job).target = t /\ Published(job).targetId = id
      /\ Published(job).canRollback = job.canRollback /\ Published(job).phase = job.phase
  BY <1>1, <1>3 DEF Jobs
<1> QED
  BY <1>2, <1>4, <1>5 DEF s, t

(***************************************************************************)
(* The inductive invariant.                                                *)
(***************************************************************************)
(* The same of the three pages the engine derives from a reading: the      *)
(* source is about to be registered, the target is there, or it is gone.   *)
LEMMA PublishedThen ==
  ASSUME TypeOK
  PROVE  /\ LET j == [Published(job) EXCEPT !.source = "unknown"]
            IN  /\ j.source = "unknown" /\ j.target = Published(job).target
                /\ j.canRollback = job.canRollback /\ j.phase = job.phase
                /\ j.targetId = Published(job).targetId
         /\ LET j == [Published(job) EXCEPT !.targetPower = "unknown", !.canRollback = TRUE]
            IN  /\ j.source = Published(job).source /\ j.target = Published(job).target
                /\ j.canRollback = TRUE /\ j.phase = job.phase
                /\ j.targetId = Published(job).targetId
         /\ LET j == [Published(job) EXCEPT !.targetPower = "off"]
            IN  /\ j.source = Published(job).source /\ j.target = Published(job).target
                /\ j.canRollback = job.canRollback /\ j.phase = job.phase
                /\ j.targetId = Published(job).targetId
  BY PublishedView DEF Jobs

LEMMA ViewValues == ViewOf(1) = "registered" /\ ViewOf(0) = "not registered"
  BY DEF ViewOf

Facts == RegistrationInv /\ ViewInv /\ OfferInv /\ PowerInv /\ OutcomeInv

LEMMA InitInv == Init => Facts
<1> SUFFICES ASSUME Init
             PROVE  Facts
  OBVIOUS
<1> USE DEF Init, HostInit, NewJob, OnlySource
<1>1. RegistrationInv
  BY DEF RegistrationInv, Registered, PowerOnLabels
<1>2. ViewInv
  <2>1. reg["source"] = 1 /\ reg["target"] = 0
    OBVIOUS
  <2> QED
    BY <2>1, ViewValues DEF ViewInv
<1>3. OfferInv
  BY DEF OfferInv, PowerOnLabels, RollbackLabels, RollbackCommits
<1>4. PowerInv
  BY DEF PowerInv, PowerOnLabels, RollbackCommits
<1>5. OutcomeInv
  BY DEF OutcomeInv, RollbackLabels
<1> QED
  BY <1>1, <1>2, <1>3, <1>4, <1>5 DEF Facts

(***************************************************************************)
(* One lemma per phase, one step per action.  A query changes nothing on   *)
(* the host and a call is known through its lemma above; what is left is   *)
(* what the action does to pc and to the page.                             *)
(***************************************************************************)
LEMMA CommitKeeps ==
  ASSUME TypeOK, Facts, Commit
  PROVE  Facts'
<1> USE DEF Facts, RegistrationInv, ViewInv, OfferInv, PowerInv, OutcomeInv,
            BeforeTarget, PowerOnLabels, RollbackCommits, RollbackLabels,
            Registered, Identified, OnlyTarget, Restored, Local
<1>t. job \in Jobs /\ reg \in [VMs -> Nat] /\ lastId \in Nat
  BY DEF TypeOK, HostTypeOK, SwitchTypeOK
<1>0. ViewOf(0) = "not registered"
  BY ViewValues
<1>1. CASE CommitCheck
  BY <1>1 DEF CommitCheck, Query, hostVars, inventory
<1>2. CASE CommitSourceOff
  BY <1>2, <1>t DEF CommitSourceOff, Query, hostVars, inventory, Jobs
<1>3. CASE CommitUnregister
  BY <1>3, <1>t, UnregisterCall DEF CommitUnregister, CallFrame, OnlySource
<1>4. CASE CommitUnregistered
  BY <1>4, <1>0, <1>t, PublishedView DEF CommitUnregistered, Query, hostVars, inventory, NeitherRegistered
<1>5. CASE CommitRegister
  BY <1>5, <1>t, RegisterCall DEF CommitRegister, CallFrame, Nobody, Jobs
<1>6. CASE CommitRegistered
  <2> USE <1>0, <1>t, PublishedView DEF Query, hostVars, inventory
  <2>1. CASE pc' = "failing"
    BY <1>6, <2>1 DEF CommitRegistered
  <2>2. CASE pc' = "commit.restore"
    <3>1. reg = Nobody /\ job' = [Published(job) EXCEPT !.source = "unknown"]
      BY <1>6, <2>2 DEF CommitRegistered, NeitherRegistered
    <3>2. /\ job'.source = "unknown" /\ job'.target = ViewOf(reg["target"])
          /\ job'.canRollback = job.canRollback /\ job'.phase = job.phase
      BY <3>1, PublishedThen
    <3> QED
      BY <1>6, <2>2, <3>1, <3>2 DEF CommitRegistered, Nobody
  <2>3. CASE pc' = "commit.targetOff"
    <3>1. /\ reg["source"] = 0 /\ reg["target"] # 0
          /\ job' = [Published(job) EXCEPT !.targetPower = "unknown", !.canRollback = TRUE]
      BY <1>6, <2>3 DEF CommitRegistered
    <3>2. /\ job'.source = ViewOf(reg["source"]) /\ job'.target = ViewOf(reg["target"])
          /\ job'.targetId = reg["target"] /\ job'.phase = job.phase /\ job'.canRollback
      BY <3>1, PublishedThen
    <3> QED
      BY <1>6, <2>3, <3>1, <3>2 DEF CommitRegistered
  <2> QED
    BY <1>6, <2>1, <2>2, <2>3 DEF CommitRegistered
<1>7. CASE CommitRestore
  BY <1>7, <1>t, RegisterCall DEF CommitRestore, CallFrame, Nobody
<1>8. CASE CommitRestored
  BY <1>8, <1>0, <1>t, PublishedView DEF CommitRestored, Query, hostVars, inventory
<1>9. CASE CommitTargetOff
  BY <1>9, <1>t DEF CommitTargetOff, Query, hostVars, inventory, Jobs
<1>10. CASE Committed
  BY <1>10 DEF Committed, Query, hostVars, inventory
<1> QED
  BY <1>1, <1>2, <1>3, <1>4, <1>5, <1>6, <1>7, <1>8, <1>9, <1>10 DEF Commit

LEMMA PowerOnKeeps ==
  ASSUME TypeOK, Facts, PowerOnLoop \/ PowerOnDeadline
  PROVE  Facts'
<1> USE DEF Facts, RegistrationInv, ViewInv, OfferInv, PowerInv, OutcomeInv,
            BeforeTarget, PowerOnLabels, RollbackCommits, RollbackLabels,
            Registered, Identified, OnlyTarget, Restored, Local
<1>t. job \in Jobs /\ reg \in [VMs -> Nat] /\ power \in [VMs -> PowerStates]
  BY DEF TypeOK, HostTypeOK, SwitchTypeOK
<1>1. CASE PowerOnCheck
  BY <1>1, <1>t DEF PowerOnCheck, Query, hostVars, inventory, Jobs
<1>2. CASE PowerOnCommand
  BY <1>2, <1>t, PowerOnCall DEF PowerOnCommand, CallFrame
<1>3. CASE PowerOnPoll
  BY <1>3, <1>t DEF PowerOnPoll, Query, hostVars, inventory, Jobs
<1>4. CASE PowerOnMessage
  BY <1>4, <1>t DEF PowerOnMessage, Running, Query, hostVars, inventory, Jobs
<1>5. CASE PowerOnAnswer
  BY <1>5 DEF PowerOnAnswer
<1>6. CASE PowerOnDeadline
  BY <1>6 DEF PowerOnDeadline, Query, hostVars, inventory
<1> QED
  BY <1>1, <1>2, <1>3, <1>4, <1>5, <1>6 DEF PowerOnLoop

LEMMA EndKeeps ==
  ASSUME TypeOK, Facts, Finish \/ MarkFailed
  PROVE  Facts'
<1> USE DEF Facts, RegistrationInv, ViewInv, OfferInv, PowerInv, OutcomeInv,
            BeforeTarget, PowerOnLabels, RollbackCommits, RollbackLabels,
            Registered, Identified, OnlyTarget, Restored, Local
<1>t. job \in Jobs
  BY DEF TypeOK, SwitchTypeOK
<1>1. CASE Finish
  BY <1>1, <1>t DEF Finish, FinishOk, FinishError, Archived, inventory, Jobs
<1>2. CASE MarkFailed
  <2>1. job'.phase \notin {"completed", "rolled_back"}
    BY <1>2, <1>t DEF MarkFailed, Jobs
  <2> QED
    BY <1>2, <2>1, <1>t DEF MarkFailed, Query, hostVars, inventory, Jobs
<1> QED
  BY <1>1, <1>2

LEMMA RollbackKeeps ==
  ASSUME TypeOK, Facts, Rollback \/ RollbackStart \/ BrowserCloses \/ OperatorPowersOff
  PROVE  Facts'
<1> USE DEF Facts, RegistrationInv, ViewInv, OfferInv, PowerInv, OutcomeInv,
            BeforeTarget, PowerOnLabels, RollbackCommits, RollbackLabels,
            Registered, Identified, OnlyTarget, Restored, Local
<1>t. job \in Jobs /\ reg \in [VMs -> Nat] /\ lastId \in Nat /\ power \in [VMs -> PowerStates]
  BY DEF TypeOK, HostTypeOK, SwitchTypeOK
<1>0. ViewOf(0) = "not registered"
  BY ViewValues
<1>1. CASE RollbackStart
  BY <1>1 DEF RollbackStart, Query, hostVars, inventory
<1>2. CASE BrowserCloses
  BY <1>2 DEF BrowserCloses, Query, hostVars, inventory
<1>3. CASE OperatorPowersOff
  BY <1>3, <1>t DEF OperatorPowersOff, switchVars
<1>4. CASE RollbackCheck
  BY <1>4 DEF RollbackCheck, Query, hostVars, inventory
<1>5. CASE RollbackPower
  BY <1>5 DEF RollbackPower, FoundOff, Query, hostVars, inventory
<1>6. CASE RollbackMessage
  BY <1>6, <1>t DEF RollbackMessage, OfferWithdrawn, Query, hostVars, inventory, Jobs
<1>7. CASE RollbackUnregister
  BY <1>7, <1>t, UnregisterCall DEF RollbackUnregister, CallFrame
<1>8. CASE RollbackUnregistered
  <2> USE <1>0, <1>t, PublishedView DEF Query, hostVars, inventory
  <2>1. CASE pc' = "rollback.register"
    BY <1>8, <2>1, PublishedThen DEF RollbackUnregistered, NeitherRegistered, Nobody
  <2>2. CASE pc' = "ended"
    BY <1>8, <2>2 DEF RollbackUnregistered
  <2> QED
    BY <1>8, <2>1, <2>2 DEF RollbackUnregistered
<1>9. CASE RollbackRegister
  BY <1>9, <1>t, RegisterCall DEF RollbackRegister, CallFrame, Nobody
<1>10. CASE RollbackRegistered
  <2> USE <1>0, <1>t, PublishedView DEF Query, hostVars, inventory
  <2>1. CASE pc' = "rollback.finish"
    <3>1. Restored /\ job' = [Published(job) EXCEPT !.targetPower = "off"]
      BY <1>10, <2>1 DEF RollbackRegistered
    <3>2. /\ job'.source = ViewOf(reg["source"]) /\ job'.target = ViewOf(reg["target"])
          /\ job'.canRollback = job.canRollback /\ job'.phase = job.phase
      BY <3>1, PublishedThen
    <3> QED
      BY <1>10, <2>1, <3>1, <3>2 DEF RollbackRegistered
  <2>2. CASE pc' = "ended"
    BY <1>10, <2>2 DEF RollbackRegistered
  <2> QED
    BY <1>10, <2>1, <2>2 DEF RollbackRegistered
<1>11. CASE RollbackFinish
  BY <1>11, <1>t DEF RollbackFinish, FinishOk, FinishError, Archived, inventory, Jobs
<1> QED
  BY <1>1, <1>2, <1>3, <1>4, <1>5, <1>6, <1>7, <1>8, <1>9, <1>10, <1>11 DEF Rollback

(* Only the environment's steps disturb the host, and a disturbed host     *)
(* stays disturbed.                                                        *)
LEMMA EngineDisturbsNothing == Engine => UNCHANGED <<landed, outside>>
  BY DEF Engine, Commit, PowerOnLoop, Finish, MarkFailed, Rollback, Query, hostVars, Call,
         CommitCheck, CommitSourceOff, CommitUnregister, CommitUnregistered, CommitRegister,
         CommitRegistered, CommitRestore, CommitRestored, CommitTargetOff, Committed,
         PowerOnCheck, PowerOnCommand, PowerOnPoll, PowerOnMessage, PowerOnAnswer,
         RollbackCheck, RollbackPower, RollbackMessage, RollbackUnregister, RollbackUnregistered,
         RollbackRegister, RollbackRegistered, RollbackFinish

LEMMA EnvironmentDisturbs ==
  ASSUME TypeOK, Environment
  PROVE  ~Undisturbed'
  BY DEF TypeOK, HostTypeOK, Environment, Land, Outside, Undisturbed

LEMMA NextInv == TypeOK /\ SwitchInv /\ [Next]_vars => SwitchInv'
<1> SUFFICES ASSUME TypeOK, SwitchInv, [Next]_vars, Undisturbed'
             PROVE  Facts'
  BY DEF SwitchInv, Facts
<1>1. CASE Engine
  <2>1. Facts
    BY <1>1, EngineDisturbsNothing DEF SwitchInv, Facts, Undisturbed
  <2> QED
    BY <1>1, <2>1, CommitKeeps, PowerOnKeeps, EndKeeps, RollbackKeeps DEF Engine
<1>2. CASE PowerOnDeadline
  <2>1. Facts
    BY <1>2 DEF PowerOnDeadline, Query, hostVars, SwitchInv, Facts, Undisturbed
  <2> QED
    BY <1>2, <2>1, PowerOnKeeps
<1>3. CASE RollbackStart \/ BrowserCloses \/ OperatorPowersOff
  <2>1. Facts
    BY <1>3 DEF RollbackStart, BrowserCloses, OperatorPowersOff, Query, hostVars,
           SwitchInv, Facts, Undisturbed
  <2> QED
    BY <1>3, <2>1, RollbackKeeps
<1>4. CASE Environment /\ UNCHANGED switchVars
  BY <1>4, EnvironmentDisturbs
<1>5. CASE UNCHANGED vars
  BY <1>5 DEF vars, hostVars, inventory, switchVars, SwitchInv, Facts, Undisturbed, RegistrationInv,
         ViewInv, OfferInv, PowerInv, OutcomeInv, Registered, Identified, OnlyTarget, Restored
<1> QED
  BY <1>1, <1>2, <1>3, <1>4, <1>5 DEF Next

(* At every call of the engine and of the rollback handler the inventory   *)
(* and the page are as SwitchInv says, on a host nobody else touches.      *)
THEOREM SwitchInvariant == Spec => []SwitchInv
<1>1. Init => SwitchInv
  BY InitInv DEF SwitchInv, Facts
<1> QED
  BY <1>1, NextInv, TypeCorrect, PTL DEF Spec

(* No run of the switch, with any refused call or lost reply, leaves source *)
(* and target registered together.                                         *)
THEOREM NeverTwice == Spec => []Exclusive
<1>1. SwitchInv => Exclusive
  BY DEF SwitchInv, RegistrationInv, Exclusive
<1> QED
  BY <1>1, SwitchInvariant, PTL

(* What the page says of a registration after a job is true, or "unknown". *)
THEOREM ViewsAreHonest == Spec => []HonestView
<1>1. SwitchInv => HonestView
  BY DEF SwitchInv, ViewInv, HonestView
<1> QED
  BY <1>1, SwitchInvariant, PTL

(* A rollback is offered only from the inventory it insists on.            *)
THEOREM OfferIsSound == Spec => []RollbackOffered
<1>1. SwitchInv => RollbackOffered
  BY DEF SwitchInv, OfferInv, RollbackOffered
<1> QED
  BY <1>1, SwitchInvariant, PTL

(* A MOVE called completed is one: see CompletedIsSwitched.                *)
THEOREM CompletedMeansSwitched == Spec => []CompletedIsSwitched
<1>1. SwitchInv => CompletedIsSwitched
  BY DEF SwitchInv, OutcomeInv, CompletedIsSwitched
<1> QED
  BY <1>1, SwitchInvariant, PTL

(* A rollback called done is one: see RolledBackIsRestored.                *)
THEOREM RolledBackMeansRestored == Spec => []RolledBackIsRestored
<1>1. SwitchInv => RolledBackIsRestored
  BY DEF SwitchInv, OutcomeInv, PowerInv, Restored, RolledBackIsRestored
<1> QED
  BY <1>1, SwitchInvariant, PTL

(***************************************************************************)
(* The switch implements Relocation.  Home is a set comprehension, so its  *)
(* four values are stated once and Home stays folded.                      *)
(***************************************************************************)
HomeIs ==
    /\ Home = {} <=> ~Registered("source") /\ ~Registered("target")
    /\ Home = {"source"} <=> Registered("source") /\ ~Registered("target")
    /\ Home = {"target"} <=> ~Registered("source") /\ Registered("target")

LEMMA HomeValues == HomeIs /\ HomeIs'
  BY DEF HomeIs, Home, Registered

LEMMA HomeFrame == UNCHANGED reg => UNCHANGED Home
  BY DEF Home, Registered

LEMMA InitImplements == Init => Promised!RelocationInit
<1> SUFFICES ASSUME Init
             PROVE  Promised!RelocationInit
  OBVIOUS
<1>1. Home = {"source"}
  BY DEF Init, HostInit, OnlySource, Home, Registered
<1>2. Outcome = "running"
  BY DEF Init, NewJob, Outcome
<1> QED
  BY <1>1, <1>2 DEF Init, HostInit, NewJob, Undisturbed, RollbackCommits, Promised!RelocationInit

(* A step that leaves the inventory, the outcome, the offer and the side of *)
(* the rollback's point of no return alone is one Relocation does not see.  *)
LEMMA Unseen ==
  ASSUME UNCHANGED <<plan, reg, landed, outside>>,
         UNCHANGED power["target"], UNCHANGED Outcome, UNCHANGED job.canRollback,
         pc \in RollbackCommits <=> pc' \in RollbackCommits
  PROVE  UNCHANGED Promised!relocationVars
<1>1. UNCHANGED Home
  BY HomeFrame
<1>2. UNCHANGED Undisturbed
  BY DEF Undisturbed
<1>3. /\ UNCHANGED (power["target"] = "on")
      /\ UNCHANGED (~Undisturbed)
      /\ UNCHANGED (pc \in RollbackCommits)
  BY <1>2 DEF RollbackCommits
<1> QED
  BY <1>1, <1>3 DEF Promised!relocationVars

(***************************************************************************)
(* What each action is in Relocation, on an undisturbed host.              *)
(***************************************************************************)
Shown == UNCHANGED plan /\ (Promised!Promise \/ UNCHANGED Promised!relocationVars)

(* A step of the inventory that leaves the page's outcome and offer alone. *)
LEMMA Relocated ==
  ASSUME NEW from, NEW to, Home = from, Home' = to,
         UNCHANGED power["target"], UNCHANGED Outcome, UNCHANGED job.canRollback,
         pc \in RollbackCommits <=> pc' \in RollbackCommits
  PROVE  Promised!Moves(from, to)
<1>1. UNCHANGED (power["target"] = "on") /\ UNCHANGED (pc \in RollbackCommits)
  OBVIOUS
<1> QED
  BY <1>1 DEF Promised!Moves

LEMMA CommitShown ==
  ASSUME TypeOK, TypeOK', Facts, Facts', Commit
  PROVE  Shown
<1> USE DEF Local
<1>1. UNCHANGED <<plan, landed, outside, power>>
  BY RegisterCall, UnregisterCall
  DEF Commit, CommitCheck, CommitSourceOff, CommitUnregister, CommitUnregistered, CommitRegister,
      CommitRegistered, CommitRestore, CommitRestored, CommitTargetOff, Committed, Query, hostVars,
      inventory, CallFrame
<1>2. pc \notin RollbackCommits /\ pc' \notin RollbackCommits
  BY DEF Commit, CommitCheck, CommitSourceOff, CommitUnregister, CommitUnregistered, CommitRegister,
      CommitRegistered, CommitRestore, CommitRestored, CommitTargetOff, Committed, RollbackCommits
<1>3. Outcome = "running" /\ Outcome' = "running"
  BY DEF Commit, CommitCheck, CommitSourceOff, CommitUnregister, CommitUnregistered, CommitRegister,
      CommitRegistered, CommitRestore, CommitRestored, CommitTargetOff, Committed, RollbackLabels,
      Facts, OutcomeInv, Outcome
<1>s. CASE UNCHANGED <<reg, job.canRollback>>
  BY <1>1, <1>2, <1>3, <1>s, Unseen DEF Shown
<1>4. CASE CommitUnregister
  <2>1. reg = OnlySource /\ UNCHANGED job /\ plan.mode = "move"
    BY <1>4 DEF CommitUnregister, Facts, RegistrationInv
  <2>2. reg' = reg \/ (reg'["source"] = 0 /\ reg'["target"] = 0)
    BY <1>4, <2>1, UnregisterCall DEF CommitUnregister, OnlySource
  <2>3. CASE reg' # reg
    <3>1. Home = {"source"} /\ Home' = {}
      BY <2>1, <2>2, <2>3, HomeValues DEF HomeIs, OnlySource, Registered
    <3> QED
      BY <1>1, <1>2, <1>3, <2>1, <3>1, Relocated DEF Shown, Promised!Promise, Promised!LeaveSource
  <2> QED
    BY <1>s, <2>1, <2>3
<1>5. CASE CommitRegister
  <2>1. reg = Nobody /\ job'.canRollback = job.canRollback
    BY <1>5 DEF CommitRegister, Facts, RegistrationInv, TypeOK, SwitchTypeOK, Jobs
  <2>2. reg' = reg \/ (reg'["source"] = 0 /\ reg'["target"] # 0)
    BY <1>5, <2>1, RegisterCall DEF CommitRegister, Nobody, TypeOK, HostTypeOK
  <2>3. CASE reg' # reg
    <3>1. Home = {} /\ Home' = {"target"}
      BY <2>1, <2>2, <2>3, HomeValues DEF HomeIs, Nobody, Registered
    <3> QED
      BY <1>1, <1>2, <1>3, <2>1, <3>1, Relocated DEF Shown, Promised!Promise, Promised!ReachTarget
  <2> QED
    BY <1>s, <2>1, <2>3
<1>6. CASE CommitRestore
  <2>1. reg = Nobody /\ UNCHANGED job
    BY <1>6 DEF CommitRestore, Facts, RegistrationInv
  <2>2. reg' = reg \/ (reg'["source"] # 0 /\ reg'["target"] = 0)
    BY <1>6, <2>1, RegisterCall DEF CommitRestore, Nobody, TypeOK, HostTypeOK
  <2>3. CASE reg' # reg
    <3>1. Home = {} /\ Home' = {"source"}
      BY <2>1, <2>2, <2>3, HomeValues DEF HomeIs, Nobody, Registered
    <3> QED
      BY <1>1, <1>2, <1>3, <2>1, <3>1, Relocated DEF Shown, Promised!Promise, Promised!ReturnAtOnce
  <2> QED
    BY <1>s, <2>1, <2>3
<1>7. CASE CommitRegistered
  <2>1. UNCHANGED <<reg, power>>
    BY <1>7 DEF CommitRegistered, Query, hostVars, inventory
  <2>2. CASE job'.canRollback # job.canRollback
    <3>1. /\ ~Registered("source") /\ Registered("target")
          /\ job' = [Published(job) EXCEPT !.targetPower = "unknown", !.canRollback = TRUE]
      BY <1>7, <2>2, PublishedView, PublishedThen DEF CommitRegistered
    <3>2. Home = {"target"} /\ UNCHANGED Home /\ job'.canRollback = TRUE
      BY <2>1, <3>1, HomeValues, HomeFrame, PublishedThen DEF HomeIs
    <3>3. UNCHANGED (power["target"] = "on") /\ UNCHANGED (pc \in RollbackCommits)
      BY <1>2, <2>1
    <3> QED
      BY <1>1, <1>3, <3>2, <3>3 DEF Shown, Promised!Promise, Promised!Offer
  <2> QED
    BY <1>s, <2>1, <2>2
<1>8. CASE CommitCheck \/ CommitSourceOff \/ CommitUnregistered \/ CommitRestored \/ CommitTargetOff
           \/ Committed
  <2>1. UNCHANGED reg
    BY <1>8 DEF CommitCheck, CommitSourceOff, CommitUnregistered, CommitRestored, CommitTargetOff,
           Committed, Query, hostVars, inventory
  <2>2. UNCHANGED job.canRollback
    BY <1>8, PublishedView DEF CommitCheck, CommitSourceOff, CommitUnregistered, CommitRestored,
           CommitTargetOff, Committed, TypeOK, SwitchTypeOK, Jobs
  <2> QED
    BY <1>s, <2>1, <2>2
<1> QED
  BY <1>4, <1>5, <1>6, <1>7, <1>8 DEF Commit

LEMMA PowerOnShown ==
  ASSUME TypeOK, TypeOK', Facts, Facts', PowerOnLoop \/ PowerOnDeadline
  PROVE  Shown
<1> USE DEF Local
<1>1. UNCHANGED <<plan, landed, outside, reg>>
  BY PowerOnCall
  DEF PowerOnLoop, PowerOnDeadline, PowerOnCheck, PowerOnCommand, PowerOnPoll, PowerOnMessage,
      PowerOnAnswer, Query, hostVars, inventory, CallFrame
<1>2. pc \notin RollbackCommits /\ pc' \notin RollbackCommits
  BY DEF PowerOnLoop, PowerOnDeadline, PowerOnCheck, PowerOnCommand, PowerOnPoll, PowerOnMessage,
      PowerOnAnswer, RollbackCommits
<1>3. Outcome = "running" /\ Outcome' = "running"
  BY DEF PowerOnLoop, PowerOnDeadline, PowerOnCheck, PowerOnCommand, PowerOnPoll, PowerOnMessage,
      PowerOnAnswer, RollbackLabels, Facts, OutcomeInv, Outcome
<1>s. CASE UNCHANGED <<power["target"], job.canRollback>>
  BY <1>1, <1>2, <1>3, <1>s, Unseen DEF Shown
<1>h. UNCHANGED Home /\ UNCHANGED Undisturbed /\ UNCHANGED (pc \in RollbackCommits)
  BY <1>1, <1>2, HomeFrame DEF Undisturbed
<1>4. CASE PowerOnCommand
  <2>1. /\ UNCHANGED job /\ plan.powerOn /\ job.canRollback /\ OnlyTarget(job.targetId)
        /\ power["target"] = "off"
    BY <1>4 DEF PowerOnCommand, Facts, RegistrationInv, OfferInv, PowerInv, PowerOnLabels
  <2>2. power' = power \/ power'["target"] = "on"
    BY <1>4, PowerOnCall DEF PowerOnCommand, TypeOK, HostTypeOK
  <2>3. CASE power' # power
    <3>1. Home = {"target"}
      BY <2>1, HomeValues DEF HomeIs, OnlyTarget, Identified, Registered
    <3> QED
      BY <1>1, <1>3, <1>h, <2>1, <2>2, <2>3, <3>1 DEF Shown, Promised!Promise, Promised!StartTarget
  <2> QED
    BY <1>s, <2>1, <2>3
<1>5. CASE PowerOnMessage
  <2>1. UNCHANGED power
    BY <1>5 DEF PowerOnMessage, Query, hostVars, inventory
  <2>2. CASE job'.canRollback # job.canRollback
    <3>1. power["target"] = "on" /\ job.canRollback /\ job'.canRollback = FALSE
      BY <1>5, <2>2 DEF PowerOnMessage, Running, Facts, PowerInv, OfferInv, PowerOnLabels,
             TypeOK, SwitchTypeOK, Jobs
    <3> QED
      BY <1>1, <1>3, <1>h, <2>1, <3>1 DEF Shown, Promised!Promise, Promised!Withdraw
  <2> QED
    BY <1>s, <2>1, <2>2
<1>6. CASE PowerOnCheck \/ PowerOnPoll \/ PowerOnAnswer \/ PowerOnDeadline
  BY <1>6, <1>s DEF PowerOnCheck, PowerOnPoll, PowerOnAnswer, PowerOnDeadline, Query, hostVars,
         inventory, TypeOK, SwitchTypeOK, Jobs
<1> QED
  BY <1>4, <1>5, <1>6 DEF PowerOnLoop

LEMMA EndShown ==
  ASSUME TypeOK, TypeOK', Facts, Facts', Finish \/ MarkFailed
  PROVE  Shown
<1> USE DEF Local
<1>1. UNCHANGED <<plan, landed, outside, reg, power>>
  BY DEF Finish, FinishOk, FinishError, MarkFailed, Query, hostVars, inventory
<1>2. pc \notin RollbackCommits /\ pc' \notin RollbackCommits
  BY DEF Finish, MarkFailed, RollbackCommits
<1>3. Outcome = "running"
  BY DEF Finish, MarkFailed, RollbackLabels, Facts, OutcomeInv, Outcome
<1>4. UNCHANGED Home /\ UNCHANGED Undisturbed /\ UNCHANGED (pc \in RollbackCommits)
      /\ UNCHANGED (power["target"] = "on")
  BY <1>1, <1>2, HomeFrame DEF Undisturbed
<1>5. job \in Jobs
  BY DEF TypeOK, SwitchTypeOK
<1>6. CASE Finish /\ pc' = "failing"
  <2>1. UNCHANGED job
    BY <1>6 DEF Finish
  <2> QED
    BY <1>1, <1>2, <2>1, Unseen DEF Shown, Outcome
<1>7. CASE Finish /\ pc' = "ended"
  <2>1. job'.phase = "completed" /\ job'.canRollback = FALSE
    BY <1>5, <1>7 DEF Finish, Jobs
  <2>2. Outcome' = "completed"
    BY <2>1 DEF Outcome
  <2>3. Home = {"target"} /\ plan.mode = "move" /\ ((power["target"] = "on") <=> plan.powerOn)
    BY <1>7, HomeValues DEF HomeIs, Finish, Facts, RegistrationInv, PowerInv, OnlyTarget, Identified,
           Registered
  <2>4. plan.powerOn \in BOOLEAN
    BY DEF TypeOK, SwitchTypeOK, Requests
  <2> QED
    BY <1>1, <1>3, <1>4, <2>1, <2>2, <2>3, <2>4 DEF Shown, Promised!Promise, Promised!Complete
<1>8. CASE MarkFailed
  <2>1. job.phase # "unknown"
    BY <1>8 DEF MarkFailed, Facts, OutcomeInv, RollbackLabels
  <2>2. job'.phase = "failed" /\ job'.canRollback = job.canRollback
    BY <1>5, <1>8, <2>1 DEF MarkFailed, Jobs
  <2>3. Outcome' = "failed"
    BY <2>2 DEF Outcome
  <2> QED
    BY <1>1, <1>3, <1>4, <2>2, <2>3 DEF Shown, Promised!Promise, Promised!Fail
<1> QED
  BY <1>6, <1>7, <1>8 DEF Finish

(* All that the rollback needs of its host; a live job has no more.        *)
RollbackInv ==
    pc \in RollbackLabels =>
        /\ job.phase = "failed" /\ (pc \in RollbackCommits <=> ~job.canRollback)
        /\ pc \in {"rollback.power", "rollback.message"} => OnlyTarget(job.targetId)
        /\ pc \in {"rollback.message"} \cup RollbackCommits => power["target"] = "off"
        /\ pc \in {"rollback.unregister", "rollback.unregistered"} => ~Registered("source")
        /\ pc = "rollback.register" => reg = Nobody
        /\ pc = "rollback.finish" => Restored

LEMMA FactsRollback == Facts => RollbackInv
  BY DEF Facts, RegistrationInv, OfferInv, PowerInv, OutcomeInv, RollbackInv, RollbackLabels, RollbackCommits

LEMMA RollbackShown ==
  ASSUME TypeOK, RollbackInv, Rollback
  PROVE  Shown
<1> USE DEF Local
<1>1. UNCHANGED <<plan, landed, outside, power>>
  BY RegisterCall, UnregisterCall
  DEF Rollback, RollbackCheck, RollbackPower, RollbackMessage, RollbackUnregister,
      RollbackUnregistered, RollbackRegister, RollbackRegistered, RollbackFinish, FinishOk, FinishError,
      Query, hostVars, inventory, CallFrame
<1>2. Outcome = "failed"
  BY DEF Rollback, RollbackCheck, RollbackPower, RollbackMessage, RollbackUnregister,
      RollbackUnregistered, RollbackRegister, RollbackRegistered, RollbackFinish,
      RollbackLabels, RollbackInv, Outcome
<1>3. job \in Jobs
  BY DEF TypeOK, SwitchTypeOK
<1>4. UNCHANGED Undisturbed /\ UNCHANGED (power["target"] = "on")
  BY <1>1 DEF Undisturbed
<1>5. CASE RollbackCheck \/ RollbackPower
  BY <1>5, <1>1, Unseen DEF RollbackCheck, RollbackPower, Query, hostVars, inventory, Shown, Outcome,
         RollbackCommits
<1>6. CASE RollbackMessage
  <2>1. UNCHANGED reg
    BY <1>6 DEF RollbackMessage, Query, hostVars, inventory
  <2>2. CASE pc' = "ended"
    BY <1>1, <1>6, <2>1, <2>2, Unseen DEF RollbackMessage, Shown, Outcome, RollbackCommits
  <2>3. CASE pc' = "rollback.unregister"
    <3>1. /\ job.canRollback /\ OnlyTarget(job.targetId) /\ power["target"] = "off"
          /\ pc \notin RollbackCommits /\ pc' \in RollbackCommits
      BY <1>6, <2>3 DEF RollbackMessage, RollbackInv, RollbackLabels, RollbackCommits
    <3>2. Home = {"target"} /\ UNCHANGED Home
      BY <2>1, <3>1, HomeValues, HomeFrame DEF HomeIs, OnlyTarget, Identified, Registered
    <3>3. job'.canRollback = FALSE /\ job'.phase = job.phase
      BY <1>3, <1>6, <2>3 DEF RollbackMessage, OfferWithdrawn, Jobs
    <3>4. UNCHANGED Outcome
      BY <3>3 DEF Outcome
    <3> QED
      BY <1>1, <1>2, <1>4, <3>1, <3>2, <3>3, <3>4 DEF Shown, Promised!Promise, Promised!TakeBack
  <2> QED
    BY <1>6, <2>2, <2>3 DEF RollbackMessage
<1>7. CASE RollbackUnregister
  <2>1. /\ UNCHANGED job /\ reg["source"] = 0 /\ power["target"] = "off"
        /\ pc \in RollbackCommits /\ pc' \in RollbackCommits
    BY <1>7 DEF RollbackUnregister, RollbackInv, RollbackLabels, RollbackCommits, Registered
  <2>2. reg' = reg \/ (reg'["source"] = 0 /\ reg'["target"] = 0)
    BY <1>7, <2>1, UnregisterCall DEF RollbackUnregister, TypeOK, HostTypeOK
  <2>3. UNCHANGED Outcome
    BY <2>1 DEF Outcome
  <2>4. CASE Home = {"target"} /\ Home' = {}
    BY <1>1, <2>1, <2>3, <2>4, Relocated DEF Shown, Promised!Promise, Promised!LeaveTarget
  <2>5. CASE UNCHANGED Home
    <3>1. UNCHANGED (pc \in RollbackCommits)
      BY <2>1
    <3> QED
      BY <1>1, <1>4, <2>1, <2>3, <2>5, <3>1 DEF Shown, Promised!relocationVars
  <2> QED
    BY <2>1, <2>2, <2>4, <2>5, HomeValues, HomeFrame DEF HomeIs, Registered
<1>8. CASE RollbackRegister
  <2>1. /\ UNCHANGED job /\ reg = Nobody
        /\ pc \in RollbackCommits /\ pc' \in RollbackCommits
    BY <1>8 DEF RollbackRegister, RollbackInv, RollbackLabels, RollbackCommits
  <2>2. reg' = reg \/ (reg'["source"] # 0 /\ reg'["target"] = 0)
    BY <1>8, <2>1, RegisterCall DEF RollbackRegister, Nobody, TypeOK, HostTypeOK
  <2>3. UNCHANGED Outcome
    BY <2>1 DEF Outcome
  <2>4. CASE UNCHANGED reg
    BY <1>1, <2>1, <2>3, <2>4, Unseen DEF Shown
  <2>5. CASE reg' # reg
    <3>1. Home = {} /\ Home' = {"source"}
      BY <2>1, <2>2, <2>5, HomeValues DEF HomeIs, Nobody, Registered
    <3> QED
      BY <1>1, <2>1, <2>3, <3>1, Relocated DEF Shown, Promised!Promise, Promised!ReturnLater
  <2> QED
    BY <2>4, <2>5
<1>9. CASE RollbackUnregistered \/ RollbackRegistered
  <2>1. UNCHANGED reg /\ pc \in RollbackCommits
    BY <1>9 DEF RollbackUnregistered, RollbackRegistered, Query, hostVars, inventory, RollbackCommits
  <2>2. job'.canRollback = job.canRollback /\ job'.phase = job.phase
    BY <1>9, PublishedView, PublishedThen DEF RollbackUnregistered, RollbackRegistered
  <2>3. UNCHANGED Outcome
    BY <2>2 DEF Outcome
  <2>4. CASE pc' = "ended"
    <3>1. pc' \notin RollbackCommits /\ UNCHANGED Home
      BY <2>1, <2>4, HomeFrame DEF RollbackCommits
    <3> QED
      BY <1>1, <1>4, <2>1, <2>2, <2>3, <3>1 DEF Shown, Promised!Promise, Promised!RollbackEnds
  <2>5. CASE pc' \in RollbackCommits
    BY <1>1, <2>1, <2>2, <2>3, <2>5, Unseen DEF Shown
  <2> QED
    BY <1>9, <2>4, <2>5 DEF RollbackUnregistered, RollbackRegistered, RollbackCommits
<1>10. CASE RollbackFinish
  <2>1. /\ UNCHANGED reg /\ pc \in RollbackCommits /\ pc' \notin RollbackCommits
    BY <1>10 DEF RollbackFinish, FinishOk, FinishError, inventory, RollbackCommits
  <2>2. Home = {"source"} /\ UNCHANGED Home
    BY <1>10, <2>1, HomeValues, HomeFrame DEF RollbackFinish, RollbackInv, RollbackLabels, Restored, HomeIs
  <2>3. job'.canRollback = job.canRollback /\ (job'.phase = job.phase \/ job'.phase = "rolled_back")
    BY <1>3, <1>10 DEF RollbackFinish, Jobs
  <2>4. UNCHANGED Outcome \/ Outcome' = "rolled_back"
    BY <2>3 DEF Outcome
  <2> QED
    BY <1>1, <1>4, <2>1, <2>2, <2>3, <2>4 DEF Shown, Promised!Promise, Promised!RollbackEnds
<1> QED
  BY <1>5, <1>6, <1>7, <1>8, <1>9, <1>10 DEF Rollback

LEMMA OperatorShown ==
  ASSUME TypeOK, pc = "ended" /\ job.canRollback => job.phase = "failed",
         RollbackStart \/ BrowserCloses \/ OperatorPowersOff
  PROVE  Shown
<1>1. CASE RollbackStart \/ BrowserCloses
  BY <1>1, Unseen DEF RollbackStart, BrowserCloses, Query, hostVars, inventory, Shown, Outcome,
         RollbackCommits
<1>2. CASE OperatorPowersOff
  <2>1. /\ UNCHANGED <<plan, job, pc, reg, landed, outside>>
        /\ pc \notin RollbackCommits /\ pc' \notin RollbackCommits
        /\ job.canRollback /\ job.phase = "failed" /\ power'["target"] # "on"
    BY <1>2 DEF OperatorPowersOff, switchVars, RollbackCommits, TypeOK, HostTypeOK
  <2>2. Outcome = "failed" /\ UNCHANGED Outcome /\ UNCHANGED Home
    BY <2>1, HomeFrame DEF Outcome
  <2>3. CASE power["target"] = "on"
    BY <2>1, <2>2, <2>3 DEF Shown, Promised!Promise, Promised!StopTarget
  <2>4. CASE power["target"] # "on"
    BY <2>1, <2>2, <2>4 DEF Shown, Promised!relocationVars, Undisturbed
  <2> QED
    BY <2>3, <2>4
<1> QED
  BY <1>1, <1>2

(***************************************************************************)
(* The theorem.                                                            *)
(***************************************************************************)
LEMMA NextImplements ==
  ASSUME TypeOK, TypeOK', SwitchInv, SwitchInv', [Next]_vars
  PROVE  [Promised!RelocationNext]_Promised!relocationVars
<1>1. UNCHANGED plan
  BY DEF Next, Engine, Commit, PowerOnLoop, PowerOnDeadline, Rollback, Finish, MarkFailed, RollbackStart,
         BrowserCloses, OperatorPowersOff, Local, switchVars, vars,
         CommitCheck, CommitSourceOff, CommitUnregister, CommitUnregistered, CommitRegister,
         CommitRegistered, CommitRestore, CommitRestored, CommitTargetOff, Committed,
         PowerOnCheck, PowerOnCommand, PowerOnPoll, PowerOnMessage, PowerOnAnswer,
         RollbackCheck, RollbackPower, RollbackMessage, RollbackUnregister, RollbackUnregistered,
         RollbackRegister, RollbackRegistered, RollbackFinish
<1>2. CASE ~Undisturbed'
  BY <1>1, <1>2 DEF Promised!RelocationNext
<1>3. CASE Undisturbed'
  <2>1. CASE UNCHANGED vars
    <3>1. UNCHANGED <<plan, reg, power, job, pc, landed, outside>>
      BY <2>1 DEF vars, hostVars, inventory, switchVars
    <3> QED
      BY <3>1, Unseen DEF Outcome
  <2>2. CASE Next
    <3>1. Undisturbed /\ ~Environment
      BY <1>3, <2>2, EngineDisturbsNothing, EnvironmentDisturbs
      DEF Next, PowerOnDeadline, RollbackStart, BrowserCloses, OperatorPowersOff, Query, hostVars,
          Undisturbed
    <3>2. Facts /\ Facts'
      BY <1>3, <3>1 DEF SwitchInv, Facts
    <3>3. Shown
      BY <2>2, <3>1, <3>2, FactsRollback, CommitShown, PowerOnShown, EndShown, RollbackShown, OperatorShown
      DEF Next, Engine, Facts, OutcomeInv
    <3> QED
      BY <1>1, <1>3, <3>1, <3>3 DEF Shown, Promised!RelocationNext
  <2> QED
    BY <2>1, <2>2
<1> QED
  BY <1>2, <1>3

(* The switch does only what Relocation allows: it moves the registration   *)
(* one VM at a time, reports what is the case, and offers to go back only   *)
(* from the target, once.                                                   *)
THEOREM SwitchImplements == Spec => Relocates
  BY InitImplements, NextImplements, TypeCorrect, SwitchInvariant, PTL
  DEF Spec, Relocates, Promised!RelocationSpec
=============================================================================

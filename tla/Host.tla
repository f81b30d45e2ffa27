-------------------------------- MODULE Host --------------------------------
(***************************************************************************)
(* The ESXi host as the engine meets it through migration.Host (types.go)  *)
(* and esxi.Client: an inventory of two VMX paths, their power, the one    *)
(* question a starting VM may ask, and the operation lock.  Everybody who  *)
(* changes it is an action: the tool's commands (Issue, whose reply may be *)
(* lost), a command that takes effect after its reply was given up (Land), *)
(* and people using Host Client at the same time (Outside).                *)
(***************************************************************************)
EXTENDS Naturals

CONSTANTS
    Faults,      \* the ways a call may go wrong, a subset of FaultKinds
    MaxOutside   \* bound: how often somebody else changes the host

(* "refused": the host reports an error and does nothing.                  *)
(* "lost":    the SSH connection breaks; a query returns nothing, and a    *)
(*            command may or may not have taken effect.                    *)
(* "late":    the reply is given up, and the command takes effect later.   *)
FaultKinds == {"refused", "lost", "late"}

ASSUME HostAssumption ==
    /\ Faults \subseteq FaultKinds
    /\ MaxOutside \in Nat

VMs == {"source", "target"}
PowerStates == {"off", "on", "suspended"}
Questions == {"none", "moved", "other"}
LockStates == {"free", "held", "archived", "foreign"}

(* The tool identifies a VM by the id of one registration; 0 is "not       *)
(* registered" and an id is never given out twice.                         *)
Commands == [op : {"register", "unregister", "powerOn", "powerOff"}, vm : VMs, id : Nat]

VARIABLES
    reg,        \* VM -> id of its registration, 0 when it has none
    lastId,     \* the highest id the host has given out
    power,      \* VM -> power state; an unregistered VM is off
    question,   \* the question the target is blocked on
    lock,       \* /tmp/esxi-mover/active: this job's ("held") or another's
    flying,     \* commands that may still take effect
    landed,     \* history: some command took effect late
    outside     \* history: how often somebody else changed the host

inventory == <<reg, lastId, power, question>>
hostVars == <<inventory, lock, flying, landed, outside>>

(* Nobody but the tool touched these VMs, and none of its own commands     *)
(* outlived its reply: the exclusive maintenance access that start asks    *)
(* the operator to confirm.                                                *)
Undisturbed == outside = 0 /\ ~landed

HostTypeOK ==
    /\ reg \in [VMs -> Nat]
    /\ lastId \in Nat
    /\ power \in [VMs -> PowerStates]
    /\ question \in Questions
    /\ lock \in LockStates
    /\ flying \subseteq Commands
    /\ landed \in BOOLEAN
    /\ outside \in Nat

Registered(vm) == reg[vm] # 0
Identified(vm, id) == id # 0 /\ reg[vm] = id

(***************************************************************************)
(* What a command does to the inventory.  ESXi refuses to register a VMX   *)
(* twice and to unregister a VM that is not off, and a command for an id   *)
(* that is gone changes nothing.  A VM that starts may ask a question,     *)
(* and then reports Powered on although its guest has not started.         *)
(***************************************************************************)
Register(vm) ==
    /\ IF Registered(vm)
       THEN UNCHANGED <<reg, lastId>>
       ELSE /\ lastId' = lastId + 1
            /\ reg' = [reg EXCEPT ![vm] = lastId + 1]
    /\ UNCHANGED <<power, question>>

Unregister(vm, id) ==
    /\ reg' = IF Identified(vm, id) /\ power[vm] = "off"
              THEN [reg EXCEPT ![vm] = 0] ELSE reg
    /\ UNCHANGED <<lastId, power, question>>

PowerOn(vm, id) ==
    /\ IF Identified(vm, id) /\ power[vm] # "on"
       THEN /\ power' = [power EXCEPT ![vm] = "on"]
            /\ IF vm = "target" THEN question' \in Questions ELSE UNCHANGED question
       ELSE UNCHANGED <<power, question>>
    /\ UNCHANGED <<reg, lastId>>

PowerOff(vm, id) ==
    /\ IF Identified(vm, id) /\ power[vm] = "on"
       THEN /\ power' = [power EXCEPT ![vm] = "off"]
            /\ question' = IF vm = "target" THEN "none" ELSE question
       ELSE UNCHANGED <<power, question>>
    /\ UNCHANGED <<reg, lastId>>

TakeEffect(c) ==
    \/ c.op = "register" /\ Register(c.vm)
    \/ c.op = "unregister" /\ Unregister(c.vm, c.id)
    \/ c.op = "powerOn" /\ PowerOn(c.vm, c.id)
    \/ c.op = "powerOff" /\ PowerOff(c.vm, c.id)

(***************************************************************************)
(* One command of the tool, whatever becomes of it: the host obeys, does   *)
(* nothing, or obeys after the reply was given up.  sent is FALSE when the *)
(* caller's context has ended, and then SSHExecutor.Run sends nothing.     *)
(***************************************************************************)
Obey(c) == TakeEffect(c) /\ UNCHANGED flying
Ignore == UNCHANGED <<inventory, flying>>
Delay(c) == "late" \in Faults /\ flying' = flying \cup {c} /\ UNCHANGED inventory

(* An engine that reads the inventory next does not look at the reply.     *)
Issue(c, sent) ==
    \/ sent /\ Obey(c)
    \/ (~sent \/ Faults \cap {"refused", "lost"} # {}) /\ Ignore
    \/ sent /\ Delay(c)

(* A query fails when the connection breaks or the context has ended.      *)
QueryFails(sent) == ~sent \/ "lost" \in Faults

Land(c) ==
    /\ c \in flying
    /\ flying' = flying \ {c}
    /\ landed' = TRUE
    /\ TakeEffect(c)
    /\ UNCHANGED <<lock, outside>>

(***************************************************************************)
(* Somebody in Host Client or at the ESXi shell: registers or unregisters  *)
(* one of the two VMs, changes its power, answers the target's question,   *)
(* releases the lock as the README describes, or runs another appliance    *)
(* that takes it.                                                          *)
(***************************************************************************)
OutsidePower(vm) ==
    /\ Registered(vm)
    /\ \E p \in IF power[vm] = "off" THEN {"on"} ELSE PowerStates \ {power[vm]} :
           power' = [power EXCEPT ![vm] = p]
    /\ question' = IF vm = "target" THEN "none" ELSE question
    /\ UNCHANGED <<reg, lastId>>

OutsideAnswer ==
    /\ question # "none"
    /\ question' = "none"
    /\ UNCHANGED <<reg, lastId, power>>

Outside ==
    /\ outside < MaxOutside
    /\ outside' = outside + 1
    /\ \/ /\ \/ \E vm \in VMs : \/ ~Registered(vm) /\ Register(vm)
                                \/ Registered(vm) /\ Unregister(vm, reg[vm])
                                \/ OutsidePower(vm)
             \/ OutsideAnswer
          /\ UNCHANGED lock
       \/ /\ \/ lock = "held" /\ lock' = "free"
             \/ lock = "free" /\ lock' = "foreign"
          /\ UNCHANGED inventory
    /\ UNCHANGED <<flying, landed>>
=============================================================================

------------------------------- MODULE Delivery -------------------------------
(***************************************************************************)
(* What SSHExecutor.Run promises of each command, and what Host assumes of *)
(* it: the host carries it out at most once, perhaps after the caller gave *)
(* up; "ok" means it was carried out, "not sent" that it never will be.    *)
(***************************************************************************)
CONSTANT Runs   \* the calls of Run, one command each

VARIABLES
    effect,   \* run -> how far its command came on the host
    answer    \* run -> what Run returned

Effects == {"none", "sent", "done"}
Answers == {"none", "ok", "not sent", "unknown"}

Init ==
    /\ effect = [r \in Runs |-> "none"]
    /\ answer = [r \in Runs |-> "none"]

Send(r) ==
    /\ effect[r] = "none" /\ answer[r] = "none"
    /\ effect' = [effect EXCEPT ![r] = "sent"]
    /\ UNCHANGED answer

Execute(r) ==
    /\ effect[r] = "sent"
    /\ effect' = [effect EXCEPT ![r] = "done"]
    /\ UNCHANGED answer

Return(r, a) ==
    /\ answer[r] = "none"
    /\ a = "ok" => effect[r] = "done"
    /\ a = "not sent" => effect[r] = "none"
    /\ answer' = [answer EXCEPT ![r] = a]
    /\ UNCHANGED effect

Next == \E r \in Runs : Send(r) \/ Execute(r) \/ \E a \in Answers \ {"none"} : Return(r, a)

Spec == Init /\ [][Next]_<<effect, answer>>
=============================================================================

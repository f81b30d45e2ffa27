-------------------------------- MODULE SshPool --------------------------------
(***************************************************************************)
(* SSHExecutor (ssh.go): one pooled connection that every command shares.  *)
(* Run opens a session on it, tries once more on a fresh connection when   *)
(* no session can be opened, and then sends its command.  A watcher closes *)
(* the connection when the context ends, and a session that expires closes *)
(* it from outside (Close).                                                *)
(***************************************************************************)
EXTENDS Integers

CONSTANTS
    Runs,      \* the calls of Run, one command each; they may overlap
    MaxDials   \* bound: connections that can be established

ASSUME PoolAssumption == MaxDials \in Nat

Conns == 1..MaxDials
None == 0

RunLabels == {"attempt", "connection", "dial", "session", "drop", "check", "send", "reply",
              "lost", "returned"}

VARIABLES
    pool,      \* s.client
    dials,     \* how many connections were established
    open,      \* the connections that are not closed
    peer,      \* connection -> what the other end does with it
    at,        \* run -> its next step
    attempt,   \* run -> the loop variable
    conn,      \* run -> its connection, c
    ended,     \* run -> its context has ended
    watcher,   \* run -> the AfterFunc on conn
    effect,    \* run -> how far its command came on the host
    answer     \* run -> what it returned

poolVars == <<pool, dials, open>>
runVars == <<at, attempt, conn, ended, watcher>>
outcome == <<effect, answer>>
vars == <<poolVars, peer, runVars, outcome>>

Promised == INSTANCE Delivery

TypeOK ==
    /\ pool \in Conns \cup {None} /\ dials \in 0..MaxDials /\ open \subseteq Conns
    /\ peer \in [Conns -> {"up", "hung", "dead"}]
    /\ at \in [Runs -> RunLabels] /\ attempt \in [Runs -> 0..1]
    /\ conn \in [Runs -> Conns \cup {None}] /\ ended \in [Runs -> BOOLEAN]
    /\ watcher \in [Runs -> {"off", "armed", "fired"}]
    /\ effect \in [Runs -> Promised!Effects] /\ answer \in [Runs -> Promised!Answers]

Init ==
    /\ pool = None /\ dials = 0 /\ open = {}
    /\ peer = [c \in Conns |-> "up"]
    /\ at = [r \in Runs |-> "attempt"] /\ attempt = [r \in Runs |-> 0]
    /\ conn = [r \in Runs |-> None] /\ ended = [r \in Runs |-> FALSE]
    /\ watcher = [r \in Runs |-> "off"]
    /\ effect = [r \in Runs |-> "none"] /\ answer = [r \in Runs |-> "none"]

Goto(r, label) == at' = [at EXCEPT ![r] = label]

(* The mutex is held across a dial, of up to 20 seconds; every other use   *)
(* of it is one step here.                                                 *)
Unlocked == \A r \in Runs : at[r] # "dial"

(* discard, which leaves a newer connection of the pool alone.  It closes  *)
(* after it unlocked; nothing a run does between the two depends on it.    *)
DiscardAny(c) == pool' = None /\ open' = open \ {c} /\ UNCHANGED dials
Discard(c) ==
    /\ pool' = IF pool = c THEN None ELSE pool
    /\ open' = open \ {c}
    /\ UNCHANGED dials

(* Returning stops the watcher, unless it already fired.                   *)
Unwatch(r) == watcher' = [watcher EXCEPT ![r] = IF @ = "armed" THEN "off" ELSE @]

Returns(r, a) ==
    /\ answer' = [answer EXCEPT ![r] = a]
    /\ Goto(r, "returned") /\ Unwatch(r)
    /\ UNCHANGED <<attempt, conn, ended, effect>>

(***************************************************************************)
(* Run, until a session is open.                                           *)
(***************************************************************************)
Attempt(r) ==
    /\ at[r] = "attempt"
    /\ \/ ended[r] /\ Returns(r, "not sent")
       \/ ~ended[r] /\ Goto(r, "connection") /\ UNCHANGED <<attempt, conn, ended, watcher, outcome>>
    /\ UNCHANGED <<poolVars, peer>>

(* Channel opening can hang too, so the watcher is there before NewSession.*)
UseUnwatched(r, c) ==
    /\ conn' = [conn EXCEPT ![r] = c]
    /\ UNCHANGED watcher
    /\ Goto(r, "session")
Use(r, c) ==
    /\ conn' = [conn EXCEPT ![r] = c]
    /\ watcher' = [watcher EXCEPT ![r] = IF ended[r] THEN "fired" ELSE "armed"]
    /\ Goto(r, "session")

Connection(r) ==
    /\ at[r] = "connection" /\ Unlocked
    /\ \/ pool # None /\ Use(r, pool)
       \/ pool = None /\ Goto(r, "dial") /\ UNCHANGED <<conn, watcher>>
    /\ UNCHANGED <<poolVars, peer, attempt, ended, outcome>>

Dial(r) ==
    /\ at[r] = "dial"
    /\ \/ /\ dials < MaxDials
          /\ dials' = dials + 1 /\ pool' = dials + 1 /\ open' = open \cup {dials + 1}
          /\ Use(r, dials + 1)
          /\ UNCHANGED <<attempt, ended, outcome>>
       \/ Returns(r, "not sent") /\ UNCHANGED poolVars
    /\ UNCHANGED peer

NewSession(r) ==
    /\ at[r] = "session"
    /\ \/ /\ conn[r] \in open /\ peer[conn[r]] = "up"
          /\ Goto(r, "check") /\ UNCHANGED watcher
       \/ /\ conn[r] \notin open \/ peer[conn[r]] # "hung"
          /\ Goto(r, "drop") /\ Unwatch(r)
    /\ UNCHANGED <<poolVars, peer, attempt, conn, ended, outcome>>

(* No command was sent, so one retry on a fresh connection is safe.        *)
DropRetried(r) ==
    /\ at[r] = "drop" /\ Unlocked
    /\ Discard(conn[r])
    /\ attempt' = [attempt EXCEPT ![r] = @ + 1] /\ Goto(r, "attempt")
    /\ UNCHANGED <<conn, ended, watcher, outcome, peer>>
Drop(r) ==
    /\ at[r] = "drop" /\ Unlocked
    /\ Discard(conn[r])
    /\ \/ attempt[r] = 1 /\ Returns(r, "not sent")
       \/ /\ attempt[r] = 0
          /\ attempt' = [attempt EXCEPT ![r] = 1] /\ Goto(r, "attempt")
          /\ UNCHANGED <<conn, ended, watcher, outcome>>
    /\ UNCHANGED peer

(***************************************************************************)
(* Run, with a session: session.Run sends the command and waits for its    *)
(* exit status.  Any other end of it, or too much output, is an error.     *)
(***************************************************************************)
Check(r) ==
    /\ at[r] = "check"
    /\ \/ ended[r] /\ Returns(r, "not sent")
       \/ ~ended[r] /\ Goto(r, "send") /\ UNCHANGED <<attempt, conn, ended, watcher, outcome>>
    /\ UNCHANGED <<poolVars, peer>>

Send(r) ==
    /\ at[r] = "send"
    /\ IF conn[r] \in open
       THEN effect' = [effect EXCEPT ![r] = "sent"] /\ Goto(r, "reply")
       ELSE Goto(r, "lost") /\ UNCHANGED effect
    /\ UNCHANGED <<poolVars, peer, attempt, conn, ended, watcher, answer>>

Reply(r) ==
    /\ at[r] = "reply"
    /\ \/ /\ effect[r] = "done" /\ conn[r] \in open /\ peer[conn[r]] = "up"
          /\ \E a \in {"ok", "unknown"} : Returns(r, a)
       \/ /\ conn[r] \notin open \/ peer[conn[r]] # "hung"
          /\ Goto(r, "lost") /\ UNCHANGED <<attempt, conn, ended, watcher, outcome>>
    /\ UNCHANGED <<poolVars, peer>>

(* The command may have run, so it is reported as unknown.                 *)
LostRetried(r) ==
    /\ at[r] = "lost" /\ Unlocked
    /\ Discard(conn[r])
    /\ Goto(r, "attempt")
    /\ UNCHANGED <<peer, attempt, conn, ended, watcher, outcome>>
Lost(r) ==
    /\ at[r] = "lost" /\ Unlocked
    /\ Discard(conn[r])
    /\ Returns(r, "unknown")
    /\ UNCHANGED peer

(***************************************************************************)
(* What happens around it: the context ends, by its deadline or because    *)
(* the browser left; the watcher fires, perhaps after its run returned;    *)
(* the session is closed; the network stalls for good or breaks (a shorter *)
(* stall is a delay of the next step); the host obeys.                     *)
(***************************************************************************)
ContextEnds(r) ==
    /\ at[r] # "returned" /\ ~ended[r]
    /\ ended' = [ended EXCEPT ![r] = TRUE]
    /\ watcher' = [watcher EXCEPT ![r] = IF @ = "armed" THEN "fired" ELSE @]
    /\ UNCHANGED <<poolVars, peer, at, attempt, conn, outcome>>

Fire(r) ==
    /\ watcher[r] = "fired" /\ Unlocked
    /\ Discard(conn[r])
    /\ watcher' = [watcher EXCEPT ![r] = "off"]
    /\ UNCHANGED <<peer, at, attempt, conn, ended, outcome>>

Close ==
    /\ pool # None /\ Unlocked
    /\ Discard(pool)
    /\ UNCHANGED <<peer, runVars, outcome>>

Network(c) ==
    /\ c \in open \/ \E r \in Runs : conn[r] = c /\ effect[r] = "sent"
    /\ \/ peer[c] = "up" /\ peer' = [peer EXCEPT ![c] = "hung"]
       \/ peer[c] # "dead" /\ peer' = [peer EXCEPT ![c] = "dead"]
    /\ UNCHANGED <<poolVars, runVars, outcome>>

(* A command that is under way arrives unless its connection broke.        *)
Execute(r) ==
    /\ effect[r] = "sent" /\ peer[conn[r]] # "dead"
    /\ effect' = [effect EXCEPT ![r] = "done"]
    /\ UNCHANGED <<poolVars, peer, runVars, answer>>

Step(r) ==
    \/ Attempt(r) \/ Connection(r) \/ Dial(r) \/ NewSession(r) \/ Drop(r) \/ Check(r) \/ Send(r)
    \/ Reply(r) \/ Lost(r)

Next ==
    \/ \E r \in Runs : Step(r) \/ ContextEnds(r) \/ Fire(r) \/ Execute(r)
    \/ Close
    \/ \E c \in Conns : Network(c)

(* Every context has a deadline (Client.runFor), and goroutines run.       *)
Spec ==
    /\ Init /\ [][Next]_vars
    /\ \A r \in Runs : WF_vars(Step(r)) /\ WF_vars(ContextEnds(r)) /\ WF_vars(Fire(r))

(***************************************************************************)
(* Properties.                                                             *)
(***************************************************************************)
\* ssh.go: a command that may have run "is reported as unknown rather than
\* retried": whatever breaks and whoever closes the connection, each command is
\* carried out at most once and its answer says no more than is true.
AtMostOnce == Promised!Spec

\* The pool holds the one connection that is open and never a closed one,
\* although watchers of commands that returned and Close discard connections
\* while others use or replace them.
OnePooled == open = (IF pool = None THEN {} ELSE {pool})

\* Every Run returns, also when the peer stops answering while a session is
\* opened or a command runs.
Answered == \A r \in Runs : <>(at[r] = "returned")
=============================================================================

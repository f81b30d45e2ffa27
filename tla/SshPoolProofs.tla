----------------------------- MODULE SshPoolProofs -----------------------------
(***************************************************************************)
(* SshPool for any number of runs and connections: every value has its     *)
(* type, the pool holds the one open connection, and each command is       *)
(* delivered as Delivery promises.                                         *)
(***************************************************************************)
EXTENDS SshPool, TLAPS

USE DEF Conns, None, RunLabels, Promised!Effects, Promised!Answers

(***************************************************************************)
(* Types.                                                                  *)
(***************************************************************************)
LEMMA TypedInit == Init => TypeOK
  BY PoolAssumption DEF PoolAssumption, Init, TypeOK

(* A new connection has the next number.                                   *)
LEMMA NextConnection ==
    ASSUME dials \in 0..MaxDials, dials < MaxDials
    PROVE  dials + 1 \in 1..MaxDials /\ dials + 1 # 0 /\ dials + 1 \in 0..MaxDials
  BY PoolAssumption DEF PoolAssumption

LEMMA SecondAttempt ==
    ASSUME NEW r \in Runs, attempt \in [Runs -> 0..1], attempt' = [attempt EXCEPT ![r] = 1]
    PROVE  attempt' \in [Runs -> 0..1]
  OBVIOUS

(* How a run returns keeps the types of what it changes.                   *)
LEMMA ReturnsTyped ==
    ASSUME TypeOK, NEW r \in Runs, NEW a \in Promised!Answers, Returns(r, a)
    PROVE  /\ at' \in [Runs -> RunLabels] /\ attempt' \in [Runs -> 0..1]
           /\ conn' \in [Runs -> Conns \cup {None}] /\ ended' \in [Runs -> BOOLEAN]
           /\ watcher' \in [Runs -> {"off", "armed", "fired"}]
           /\ effect' \in [Runs -> Promised!Effects] /\ answer' \in [Runs -> Promised!Answers]
  BY DEF TypeOK, Returns, Goto, Unwatch

LEMMA TypedStep == TypeOK /\ [Next]_vars => TypeOK'
  <1> SUFFICES ASSUME TypeOK, [Next]_vars PROVE TypeOK'
    OBVIOUS
  <1> USE PoolAssumption DEF TypeOK, PoolAssumption
  <1>1. ASSUME NEW r \in Runs, Attempt(r) PROVE TypeOK'
    BY <1>1 DEF Attempt, Returns, Goto, Unwatch, poolVars, outcome
  <1>2. ASSUME NEW r \in Runs, Connection(r) PROVE TypeOK'
    BY <1>2 DEF Connection, Use, Goto, poolVars, outcome
  <1>3. ASSUME NEW r \in Runs, Dial(r) PROVE TypeOK'
    <2>1. ASSUME dials < MaxDials, dials' = dials + 1, pool' = dials + 1,
                 open' = open \cup {dials + 1}, Use(r, dials + 1),
                 UNCHANGED <<attempt, ended, outcome, peer>>
          PROVE  TypeOK'
      <3>1. dials + 1 \in Conns
        BY <2>1, NextConnection
      <3>2. conn' \in [Runs -> Conns \cup {None}]
        BY <2>1, <3>1 DEF Use
      <3>3. /\ at' \in [Runs -> RunLabels]
            /\ watcher' \in [Runs -> {"off", "armed", "fired"}]
        BY <2>1 DEF Use, Goto
      <3>4. dials' \in 0..MaxDials
        BY <2>1, NextConnection
      <3>5. pool' \in Conns \cup {None} /\ open' \subseteq Conns
        BY <2>1, <3>1
      <3> QED
        BY <2>1, <3>2, <3>3, <3>4, <3>5 DEF outcome
    <2>2. CASE Returns(r, "not sent") /\ UNCHANGED <<poolVars, peer>>
      BY <2>2, ReturnsTyped DEF poolVars
    <2> QED
      BY <1>3, <2>1, <2>2 DEF Dial
  <1>4. ASSUME NEW r \in Runs, NewSession(r) PROVE TypeOK'
    BY <1>4 DEF NewSession, Goto, Unwatch, poolVars, outcome
  <1>5. ASSUME NEW r \in Runs, Drop(r) PROVE TypeOK'
    <2>1. /\ pool' \in Conns \cup {None} /\ dials' \in 0..MaxDials /\ open' \subseteq Conns
          /\ UNCHANGED peer
      BY <1>5 DEF Drop, Discard
    <2>2. CASE Returns(r, "not sent")
      BY <2>1, <2>2, ReturnsTyped
    <2>3. CASE attempt' = [attempt EXCEPT ![r] = 1] /\ Goto(r, "attempt")
               /\ UNCHANGED <<conn, ended, watcher, outcome>>
      <3>1. attempt' \in [Runs -> 0..1]
        BY <2>3, SecondAttempt
      <3>2. at' \in [Runs -> RunLabels]
        BY <2>3 DEF Goto
      <3> QED
        BY <2>1, <2>3, <3>1, <3>2 DEF outcome
    <2> QED
      BY <1>5, <2>2, <2>3 DEF Drop
  <1>6. ASSUME NEW r \in Runs, Check(r) PROVE TypeOK'
    BY <1>6 DEF Check, Returns, Goto, Unwatch, poolVars, outcome
  <1>7. ASSUME NEW r \in Runs, Send(r) PROVE TypeOK'
    BY <1>7 DEF Send, Goto, poolVars
  <1>8. ASSUME NEW r \in Runs, Reply(r) PROVE TypeOK'
    <2>1. UNCHANGED <<poolVars, peer>>
      BY <1>8 DEF Reply
    <2>2. ASSUME NEW a \in {"ok", "unknown"}, Returns(r, a) PROVE TypeOK'
      BY <2>1, <2>2, ReturnsTyped DEF poolVars
    <2>3. CASE Goto(r, "lost") /\ UNCHANGED <<attempt, conn, ended, watcher, outcome>>
      BY <2>1, <2>3 DEF Goto, poolVars, outcome
    <2> QED
      BY <1>8, <2>2, <2>3 DEF Reply
  <1>9. ASSUME NEW r \in Runs, Lost(r) PROVE TypeOK'
    BY <1>9 DEF Lost, Discard, Returns, Goto, Unwatch
  <1>10. ASSUME NEW r \in Runs, ContextEnds(r) PROVE TypeOK'
    BY <1>10 DEF ContextEnds, poolVars, outcome
  <1>11. ASSUME NEW r \in Runs, Fire(r) PROVE TypeOK'
    BY <1>11 DEF Fire, Discard, outcome
  <1>12. ASSUME NEW r \in Runs, Execute(r) PROVE TypeOK'
    BY <1>12 DEF Execute, poolVars, runVars
  <1>13. CASE Close
    BY <1>13 DEF Close, Discard, runVars, outcome
  <1>14. ASSUME NEW c \in Conns, Network(c) PROVE TypeOK'
    BY <1>14 DEF Network, poolVars, runVars, outcome
  <1>15. CASE UNCHANGED vars
    BY <1>15 DEF vars, poolVars, runVars, outcome
  <1> QED
    BY <1>1, <1>2, <1>3, <1>4, <1>5, <1>6, <1>7, <1>8, <1>9, <1>10, <1>11, <1>12, <1>13, <1>14,
       <1>15 DEF Next, Step

\* SSHExecutor: the variables hold what the comments at them say; in particular
\* a run tries a second connection at most.
THEOREM Typed == Spec => []TypeOK
  BY TypedInit, TypedStep, PTL DEF Spec

(***************************************************************************)
(* One pooled connection.  Whoever dials holds the mutex and found the     *)
(* pool empty.                                                             *)
(***************************************************************************)
PoolInv ==
    /\ OnePooled
    /\ \A r \in Runs : at[r] = "dial" => pool = None
    /\ \A r, q \in Runs : at[r] = "dial" /\ at[q] = "dial" => r = q

(* Steps that leave the pool alone, and send nobody to dial.               *)
LEMMA PoolIdle ==
    ASSUME TypeOK, PoolInv, UNCHANGED poolVars,
           \A r \in Runs : at'[r] = "dial" => at[r] = "dial"
    PROVE  PoolInv'
  BY DEF PoolInv, OnePooled, poolVars

(* discard, by anybody, while nobody dials.                                *)
LEMMA PoolDiscards ==
    ASSUME TypeOK, PoolInv, NEW c \in Conns \cup {None}, Discard(c), Unlocked,
           \A r \in Runs : at'[r] # "dial"
    PROVE  PoolInv'
  BY DEF TypeOK, PoolInv, OnePooled, Discard, Unlocked

LEMMA PoolStep == TypeOK /\ PoolInv /\ [Next]_vars => PoolInv'
  <1> SUFFICES ASSUME TypeOK, PoolInv, [Next]_vars PROVE PoolInv'
    OBVIOUS
  <1> USE PoolAssumption DEF TypeOK, PoolAssumption
  <1>1. ASSUME NEW r \in Runs,
               Attempt(r) \/ NewSession(r) \/ Check(r) \/ Send(r) \/ Reply(r)
        PROVE  PoolInv'
    <2>1. UNCHANGED poolVars /\ \A q \in Runs : at'[q] = "dial" => at[q] = "dial"
      BY <1>1 DEF Attempt, NewSession, Check, Send, Reply, Returns, Goto
    <2> QED
      BY <2>1, PoolIdle
  <1>2. ASSUME NEW r \in Runs, Connection(r) PROVE PoolInv'
    <2>1. CASE pool # None
      <3>1. UNCHANGED poolVars /\ \A q \in Runs : at'[q] = "dial" => at[q] = "dial"
        BY <1>2, <2>1 DEF Connection, Use, Goto
      <3> QED
        BY <3>1, PoolIdle
    <2>2. CASE pool = None
      <3>1. UNCHANGED poolVars /\ Unlocked /\ at' = [at EXCEPT ![r] = "dial"]
        BY <1>2, <2>2 DEF Connection, Goto
      <3> QED
        BY <2>2, <3>1 DEF PoolInv, OnePooled, Unlocked, poolVars
    <2> QED
      BY <2>1, <2>2
  <1>3. ASSUME NEW r \in Runs, Dial(r) PROVE PoolInv'
    <2>1. pool = None /\ open = {} /\ at[r] = "dial" /\ \A q \in Runs : at[q] = "dial" => q = r
      BY <1>3 DEF Dial, PoolInv, OnePooled
    <2>2. ASSUME dials < MaxDials, Use(r, dials + 1), pool' = dials + 1,
                 open' = open \cup {dials + 1}
          PROVE  PoolInv'
      <3>1. \A q \in Runs : at'[q] # "dial"
        BY <2>1, <2>2 DEF Use, Goto
      <3>2. dials + 1 # None
        BY <2>2, NextConnection
      <3>3. OnePooled'
        BY <2>1, <2>2, <3>2 DEF OnePooled
      <3> QED
        BY <3>1, <3>3 DEF PoolInv
    <2>3. CASE Returns(r, "not sent") /\ UNCHANGED poolVars
      <3>1. \A q \in Runs : at'[q] = "dial" => at[q] = "dial"
        BY <2>3 DEF Returns, Goto
      <3> QED
        BY <2>3, <3>1, PoolIdle
    <2> QED
      BY <1>3, <2>2, <2>3 DEF Dial
  <1>4. ASSUME NEW r \in Runs, Drop(r) \/ Lost(r) \/ Fire(r) PROVE PoolInv'
    <2>1. Unlocked /\ Discard(conn[r]) /\ conn[r] \in Conns \cup {None}
      BY <1>4 DEF Drop, Lost, Fire
    <2>2. \A q \in Runs : at'[q] # "dial"
      BY <1>4, <2>1 DEF Drop, Lost, Fire, Returns, Goto, Unlocked
    <2> QED
      BY <2>1, <2>2, PoolDiscards
  <1>5. CASE Close
    <2>1. Unlocked /\ Discard(pool) /\ UNCHANGED at
      BY <1>5 DEF Close, runVars
    <2> QED
      BY <2>1, PoolDiscards DEF Unlocked
  <1>6. CASE (\E r \in Runs : ContextEnds(r) \/ Execute(r)) \/ (\E c \in Conns : Network(c))
             \/ UNCHANGED vars
    <2>1. UNCHANGED <<poolVars, at>>
      BY <1>6 DEF ContextEnds, Execute, Network, vars, runVars
    <2> QED
      BY <2>1, PoolIdle
  <1> QED
    BY <1>1, <1>2, <1>3, <1>4, <1>5, <1>6 DEF Next, Step

\* connection and discard: however many runs share the executor, and whoever
\* closes it, at most one connection is open and the pool holds it.
THEOREM PoolIsOne == Spec => []OnePooled
  <1>1. Init => PoolInv
    BY DEF Init, PoolInv, OnePooled
  <1>2. PoolInv => OnePooled
    BY DEF PoolInv
  <1> QED
    BY <1>1, <1>2, TypedInit, TypedStep, PoolStep, PTL DEF Spec

(***************************************************************************)
(* Delivery.  Nothing is sent before a session is open, and a run returns  *)
(* once.                                                                   *)
(***************************************************************************)
Unsent == {"attempt", "connection", "dial", "session", "drop", "check", "send"}

DeliveryInv ==
    \A r \in Runs :
        /\ at[r] \in Unsent => effect[r] = "none"
        /\ at[r] # "returned" => answer[r] = "none"

Delivers == [Promised!Next]_<<effect, answer>>

(* Steps of a run before its command is sent, or that send nothing.        *)
LEMMA DeliveryIdle ==
    ASSUME TypeOK, DeliveryInv, UNCHANGED outcome,
           \A r \in Runs : /\ at'[r] \in Unsent => at[r] \in Unsent
                           /\ at[r] = "returned" => at'[r] = "returned"
    PROVE  DeliveryInv' /\ Delivers
  <1>1. effect' = effect /\ answer' = answer
    BY DEF outcome
  <1>2. DeliveryInv'
    BY <1>1 DEF DeliveryInv, Unsent
  <1>3. Delivers
    BY <1>1 DEF Delivers
  <1> QED
    BY <1>2, <1>3

(* A run returns once, with what is true of its command.                   *)
LEMMA DeliveryReturns ==
    ASSUME TypeOK, DeliveryInv, NEW r \in Runs, NEW a \in {"ok", "not sent", "unknown"},
           at[r] # "returned", Returns(r, a),
           a = "ok" => effect[r] = "done", a = "not sent" => effect[r] = "none"
    PROVE  DeliveryInv' /\ Delivers
  <1>1. Promised!Return(r, a) /\ a \in Promised!Answers \ {"none"}
    BY DEF DeliveryInv, Returns, Promised!Return
  <1>2. DeliveryInv'
    BY DEF TypeOK, DeliveryInv, Returns, Goto, Unsent
  <1> QED
    BY <1>1, <1>2 DEF Delivers, Promised!Next

LEMMA DeliveryStep == TypeOK /\ DeliveryInv /\ [Next]_vars => DeliveryInv' /\ Delivers
  <1> SUFFICES ASSUME TypeOK, DeliveryInv, [Next]_vars PROVE DeliveryInv' /\ Delivers
    OBVIOUS
  <1>1. ASSUME NEW r \in Runs, Attempt(r) \/ Check(r) PROVE DeliveryInv' /\ Delivers
    <2>1. at[r] \in Unsent /\ effect[r] = "none"
      BY <1>1 DEF Attempt, Check, Unsent, DeliveryInv
    <2>2. CASE Returns(r, "not sent")
      BY <2>1, <2>2, DeliveryReturns DEF Unsent
    <2>3. CASE UNCHANGED outcome /\ (Goto(r, "connection") \/ Goto(r, "send"))
      BY <2>1, <2>3, DeliveryIdle DEF TypeOK, Goto, Unsent
    <2> QED
      BY <1>1, <2>2, <2>3 DEF Attempt, Check
  <1>2. ASSUME NEW r \in Runs, Connection(r) PROVE DeliveryInv' /\ Delivers
    <2>1. UNCHANGED outcome /\ (Goto(r, "dial") \/ Goto(r, "session")) /\ at[r] = "connection"
      BY <1>2 DEF Connection, Use
    <2> QED
      BY <2>1, DeliveryIdle DEF TypeOK, Goto, Unsent
  <1>3. ASSUME NEW r \in Runs, Dial(r) PROVE DeliveryInv' /\ Delivers
    <2>1. at[r] = "dial" /\ effect[r] = "none"
      BY <1>3 DEF Dial, Unsent, DeliveryInv
    <2>2. CASE Returns(r, "not sent")
      BY <2>1, <2>2, DeliveryReturns
    <2>3. CASE UNCHANGED outcome /\ Goto(r, "session")
      BY <2>1, <2>3, DeliveryIdle DEF TypeOK, Goto, Unsent
    <2> QED
      BY <1>3, <2>2, <2>3 DEF Dial, Use
  <1>4. ASSUME NEW r \in Runs, NewSession(r) PROVE DeliveryInv' /\ Delivers
    <2>1. UNCHANGED outcome /\ (Goto(r, "check") \/ Goto(r, "drop")) /\ at[r] = "session"
      BY <1>4 DEF NewSession
    <2> QED
      BY <2>1, DeliveryIdle DEF TypeOK, Goto, Unsent
  <1>5. ASSUME NEW r \in Runs, Drop(r) PROVE DeliveryInv' /\ Delivers
    <2>1. at[r] = "drop" /\ effect[r] = "none"
      BY <1>5 DEF Drop, Unsent, DeliveryInv
    <2>2. CASE Returns(r, "not sent")
      BY <2>1, <2>2, DeliveryReturns
    <2>3. CASE UNCHANGED outcome /\ Goto(r, "attempt")
      BY <2>1, <2>3, DeliveryIdle DEF TypeOK, Goto, Unsent
    <2> QED
      BY <1>5, <2>2, <2>3 DEF Drop
  <1>6. ASSUME NEW r \in Runs, Send(r) PROVE DeliveryInv' /\ Delivers
    <2>1. at[r] = "send" /\ effect[r] = "none" /\ answer[r] = "none"
      BY <1>6 DEF Send, Unsent, DeliveryInv
    <2>2. CASE effect' = [effect EXCEPT ![r] = "sent"] /\ Goto(r, "reply") /\ UNCHANGED answer
      <3>1. Promised!Send(r)
        BY <2>1, <2>2 DEF Promised!Send
      <3>2. DeliveryInv'
        BY <2>1, <2>2 DEF TypeOK, DeliveryInv, Goto, Unsent
      <3> QED
        BY <3>1, <3>2 DEF Delivers, Promised!Next
    <2>3. CASE UNCHANGED outcome /\ Goto(r, "lost")
      BY <2>1, <2>3, DeliveryIdle DEF TypeOK, Goto, Unsent
    <2> QED
      BY <1>6, <2>2, <2>3 DEF Send, outcome
  <1>7. ASSUME NEW r \in Runs, Reply(r) PROVE DeliveryInv' /\ Delivers
    <2>1. at[r] = "reply"
      BY <1>7 DEF Reply
    <2>2. ASSUME NEW a \in {"ok", "unknown"}, effect[r] = "done", Returns(r, a)
          PROVE  DeliveryInv' /\ Delivers
      BY <2>1, <2>2, DeliveryReturns
    <2>3. CASE UNCHANGED outcome /\ Goto(r, "lost")
      BY <2>1, <2>3, DeliveryIdle DEF TypeOK, Goto, Unsent
    <2> QED
      BY <1>7, <2>2, <2>3 DEF Reply
  <1>8. ASSUME NEW r \in Runs, Lost(r) PROVE DeliveryInv' /\ Delivers
    <2>1. at[r] = "lost" /\ Returns(r, "unknown")
      BY <1>8 DEF Lost
    <2> QED
      BY <2>1, DeliveryReturns
  <1>9. ASSUME NEW r \in Runs, Execute(r) PROVE DeliveryInv' /\ Delivers
    <2>1. effect[r] = "sent" /\ effect' = [effect EXCEPT ![r] = "done"] /\ UNCHANGED <<at, answer>>
      BY <1>9 DEF Execute, runVars
    <2>2. Promised!Execute(r)
      BY <2>1 DEF Promised!Execute
    <2>3. DeliveryInv'
      BY <2>1 DEF TypeOK, DeliveryInv
    <2> QED
      BY <2>2, <2>3 DEF Delivers, Promised!Next
  <1>10. CASE (\E r \in Runs : ContextEnds(r) \/ Fire(r)) \/ Close \/ (\E c \in Conns : Network(c))
              \/ UNCHANGED vars
    <2>1. UNCHANGED outcome /\ UNCHANGED at
      BY <1>10 DEF ContextEnds, Fire, Close, Network, vars, runVars
    <2> QED
      BY <2>1, DeliveryIdle
  <1> QED
    BY <1>1, <1>2, <1>3, <1>4, <1>5, <1>6, <1>7, <1>8, <1>9, <1>10 DEF Next, Step

\* Run implements what Delivery promises and Host assumes: whatever breaks and
\* whoever closes the connection, each command is carried out at most once and
\* its answer says no more than is true.
THEOREM RunDelivers == Spec => AtMostOnce
  <1>1. Init => DeliveryInv /\ Promised!Init
    BY DEF Init, DeliveryInv, Unsent, Promised!Init
  <1> QED
    BY <1>1, TypedInit, TypedStep, DeliveryStep, PTL
    DEF Spec, AtMostOnce, Promised!Spec, Delivers
=============================================================================

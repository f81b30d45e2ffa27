---------------------------- MODULE WebServerProofs ----------------------------
(***************************************************************************)
(* WebServer for any number of sessions and requests: every value has its  *)
(* type, whatever changes a host is alone, and a job that was started is   *)
(* the one its browser reviewed and stays reachable.                       *)
(***************************************************************************)
EXTENDS WebServer, FiniteSetTheorems, TLAPS

(***************************************************************************)
(* What a step does to the handlers.                                       *)
(***************************************************************************)
Handlers ==
    [at : Labels, kind : Kinds, cookie : Cookies \cup {NoOne},
     id : Analyses \cup {None}, host : Hosts \cup {None}]

(* A read never gets as far as begin, a start that found its report knows  *)
(* the job and the client, and every handler a session.                    *)
Starting == {"start.running", "start.go"}

RequestOK ==
    /\ request \in [Requests -> Handlers]
    /\ \A r \in Requests :
         /\ request[r].at = "begin" => request[r].kind # "read"
         /\ request[r].at \in Starting => request[r].id # None /\ request[r].host # None
         /\ request[r].at # "free" => request[r].cookie \in issued

(* Handler r goes to label, and no other moves.                            *)
Went(r, label) ==
    \A q \in Requests : request'[q].at = IF q = r THEN label ELSE request[q].at

LEMMA MovesWent ==
    ASSUME RequestOK, UNCHANGED issued,
           NEW r \in Requests, NEW label \in Labels, Moves(r, label), request[r].at # "free",
           label = "begin" => request[r].kind # "read",
           label \in Starting => request[r].id # None /\ request[r].host # None
    PROVE  RequestOK' /\ Went(r, label)
  <1>1. request' \in [Requests -> Handlers]
    BY DEF RequestOK, Moves, Handlers
  <1>2. \A q \in Requests : /\ request'[q].at = IF q = r THEN label ELSE request[q].at
                            /\ request'[q].kind = request[q].kind
                            /\ request'[q].id = request[q].id
                            /\ request'[q].cookie = request[q].cookie
                            /\ request'[q].host = request[q].host
    BY DEF RequestOK, Moves, Handlers
  <1> QED
    BY <1>1, <1>2 DEF RequestOK, Went, Starting, None

(* A handler that takes hold of a client, and perhaps of a job.            *)
LEMMA TakesWent ==
    ASSUME RequestOK, UNCHANGED issued,
           NEW r \in Requests, NEW label \in Labels \ {"begin"}, request[r].at # "free",
           NEW h \in Hosts, NEW a \in Analyses \cup {None},
           \/ request' = [request EXCEPT ![r].at = label, ![r].host = h, ![r].id = a]
           \/ request' = [request EXCEPT ![r].at = label, ![r].host = h] /\ a = request[r].id,
           label \in Starting => a # None
    PROVE  RequestOK' /\ Went(r, label)
  <1>1. request' \in [Requests -> Handlers]
    BY DEF RequestOK, Handlers
  <1>2. \A q \in Requests : /\ request'[q].at = IF q = r THEN label ELSE request[q].at
                            /\ request'[q].kind = request[q].kind
                            /\ request'[q].cookie = request[q].cookie
                            /\ request'[q].id = IF q = r THEN a ELSE request[q].id
                            /\ request'[q].host = IF q = r THEN h ELSE request[q].host
    BY DEF RequestOK, Handlers
  <1>3. h # None
    BY DEF Hosts, None
  <1> QED
    BY <1>1, <1>2, <1>3 DEF RequestOK, Went, Starting, None

LEMMA EndsWent ==
    ASSUME RequestOK, UNCHANGED issued, NEW r \in Requests, Ends(r)
    PROVE  RequestOK' /\ Went(r, "free")
  <1>1. Idle \in Handlers /\ Idle.at = "free"
    BY DEF Idle, Handlers, Labels, Kinds
  <1>2. request' \in [Requests -> Handlers]
    BY <1>1 DEF RequestOK, Ends
  <1>3. \A q \in Requests : request'[q] = IF q = r THEN Idle ELSE request[q]
    BY DEF RequestOK, Ends
  <1> QED
    BY <1>1, <1>2, <1>3 DEF RequestOK, Went, Starting

(***************************************************************************)
(* Types.                                                                  *)
(***************************************************************************)
Types ==
    /\ sessions \subseteq issued /\ issued \subseteq Cookies
    /\ expired \subseteq issued /\ probed \subseteq issued
    /\ host \in [Cookies -> 0..hosts]
    /\ report \in [Cookies -> Analyses \cup {None}]
    /\ job \in [Cookies -> Analyses \cup {None}]
    /\ hosts \in 0..MaxHosts /\ closed \subseteq 1..hosts
    /\ analysed \in [Analyses -> Hosts \cup {None}]
    /\ shown \in [Analyses -> Cookies \cup {NoOne}]
    /\ complete \subseteq Analyses
    /\ op \in Requests \cup {NoOne} /\ running \in BOOLEAN
    /\ engines \subseteq [job : Analyses, host : Hosts]
    /\ RequestOK

Limited == IsFiniteSet(sessions) /\ Cardinality(sessions) <= SessionLimit

LEMMA TypesInit == Init => Types /\ Limited
  <1> SUFFICES ASSUME Init PROVE Types /\ Limited
    OBVIOUS
  <1> USE WebAssumption DEF WebAssumption, None, Init
  <1>0. Idle \in Handlers /\ Idle.at = "free"
    BY DEF Idle, Handlers, Labels, Kinds
  <1>1. RequestOK
    BY <1>0 DEF RequestOK, Starting
  <1>2. Limited
    BY FS_EmptySet DEF Limited
  <1>3. hosts \in 0..MaxHosts /\ host \in [Cookies -> 0..hosts] /\ closed \subseteq 1..hosts
    OBVIOUS
  <1>4. op \in Requests \cup {NoOne} /\ running \in BOOLEAN
    OBVIOUS
  <1> QED
    BY <1>1, <1>2, <1>3, <1>4 DEF Types

LEMMA ClosesTyped ==
    ASSUME Types, NEW cs \in SUBSET Cookies, CloseHosts(cs)
    PROVE  /\ closed' \subseteq 1..hosts /\ host' \in [Cookies -> 0..hosts]
           /\ report' \in [Cookies -> Analyses \cup {None}]
  <1> USE DEF None
  <1>1. hosts \in Nat
    BY DEF Types
  <1>2. \A c \in Cookies : host[c] \in 0..hosts
    BY DEF Types
  <1>3. \A c \in Cookies : host[c] # 0 => host[c] \in 1..hosts
    BY <1>1, <1>2
  <1>4. closed' \subseteq 1..hosts
    BY <1>3 DEF Types, CloseHosts
  <1>5. host' \in [Cookies -> 0..hosts]
    BY <1>1, <1>2 DEF CloseHosts
  <1> QED
    BY <1>4, <1>5 DEF Types, CloseHosts

LEMMA TypesStep == Types /\ [Next]_vars => Types'
  <1> SUFFICES ASSUME Types, [Next]_vars PROVE Types'
    OBVIOUS
  <1>0. RequestOK
    BY DEF Types
  <1>1. ASSUME NEW c \in Cookies, Login(c) PROVE Types'
    <2>1. Purgeable \in SUBSET Cookies
      BY DEF Purgeable, Types
    <2>2. /\ closed' \subseteq 1..hosts /\ host' \in [Cookies -> 0..hosts]
          /\ report' \in [Cookies -> Analyses \cup {None}]
      BY <1>1, <2>1, ClosesTyped DEF Login
    <2>3. RequestOK'
      BY <1>0, <1>1 DEF Login, RequestOK
    <2>4. /\ sessions' \subseteq issued' /\ issued' \subseteq Cookies
          /\ expired' \subseteq issued' /\ probed' \subseteq issued'
      BY <1>1 DEF Login, Types
    <2> QED
      BY <1>1, <2>2, <2>3, <2>4 DEF Login, Types, analyses, work
  <1>2. ASSUME NEW c \in Cookies, Expire(c) PROVE Types'
    <2>1. RequestOK'
      BY <1>0, <1>2 DEF Expire, RequestOK
    <2> QED
      BY <1>2, <2>1 DEF Expire, Types, analyses, work
  <1>3. ASSUME NEW r \in Requests, NEW c \in Cookies, NEW k \in Kinds,
               NEW id \in Analyses \cup {None}, Arrive(r, c, k, id)
        PROVE  Types'
    <2> DEFINE h == [at |-> "auth", kind |-> k, cookie |-> c, id |-> id, host |-> None]
    <2>1. h \in Handlers /\ h.at = "auth" /\ h.cookie \in issued
      BY <1>3 DEF Arrive, Types, Handlers, Labels
    <2>2. \A q \in Requests : request'[q] = IF q = r THEN h ELSE request[q]
      BY <1>0, <1>3 DEF Arrive, RequestOK
    <2>3. request' \in [Requests -> Handlers] /\ UNCHANGED issued
      BY <1>0, <1>3, <2>1 DEF Arrive, RequestOK, seVars
    <2>4. RequestOK'
      BY <1>0, <2>1, <2>2, <2>3 DEF RequestOK, Starting
    <2> QED
      BY <1>3, <2>4 DEF Arrive, Types, seVars, analyses, work
  <1>4. ASSUME NEW r \in Requests, Auth(r) PROVE Types'
    <2> DEFINE c == request[r].cookie
    <2>0. UNCHANGED issued /\ request[r].at # "free"
      BY <1>4 DEF Auth
    <2>1. RequestOK'
      <3>1. CASE Ends(r)
        BY <1>0, <2>0, <3>1, EndsWent
      <3>2. CASE request[r].kind # "read" /\ Moves(r, "begin")
        BY <1>0, <2>0, <3>2, MovesWent DEF Labels, Starting
      <3> QED
        BY <1>4, <3>1, <3>2 DEF Auth
    <2>2. expired' \subseteq issued
      BY <1>4 DEF Auth, Types
    <2>3. /\ closed' \subseteq 1..hosts /\ host' \in [Cookies -> 0..hosts]
          /\ report' \in [Cookies -> Analyses \cup {None}]
      <3>1. CASE c \in expired'
        <4>1. {c} \in SUBSET Cookies
          BY <2>2, <3>1 DEF Types
        <4> QED
          BY <1>4, <3>1, <4>1, ClosesTyped DEF Auth
      <3>2. CASE c \notin expired'
        BY <1>4, <3>2 DEF Auth, Types
      <3> QED
        BY <3>1, <3>2
    <2> QED
      BY <1>4, <2>1, <2>2, <2>3 DEF Auth, Types, analyses, work
  <1>5. ASSUME NEW r \in Requests, Begin(r) PROVE Types'
    <2>0. UNCHANGED issued /\ request[r].at # "free"
      BY <1>5 DEF Begin, seVars
    <2>1. RequestOK'
      <3>1. CASE Ends(r)
        BY <1>0, <2>0, <3>1, EndsWent
      <3>2. CASE Moves(r, request[r].kind)
        <4>1. request[r].kind \in Labels \ ({"begin"} \cup Starting)
          BY <1>0, <1>5 DEF Begin, RequestOK, Handlers, Kinds, Labels, Starting
        <4> QED
          BY <1>0, <2>0, <3>2, <4>1, MovesWent
      <3> QED
        BY <1>5, <3>1, <3>2 DEF Begin
    <2>2. op' \in Requests \cup {NoOne}
      BY <1>5 DEF Begin, Types
    <2> QED
      BY <1>5, <2>1, <2>2 DEF Begin, Types, seVars, analyses, work
  <1>6. ASSUME NEW r \in Requests, Probe(r) PROVE Types'
    <2>1. RequestOK'
      BY <1>0, <1>6, EndsWent DEF Probe, Answers
    <2>2. probed' \subseteq issued
      BY <1>0, <1>6 DEF Probe, RequestOK, Types
    <2> QED
      BY <1>6, <2>1, <2>2 DEF Probe, Answers, Types, analyses, work
  <1>7. ASSUME NEW r \in Requests, Connect(r) PROVE Types'
    <2>0. UNCHANGED issued /\ request[r].at # "free"
      BY <1>7 DEF Connect, seVars
    <2>1. RequestOK'
      BY <1>0, <1>7, <2>0, EndsWent, MovesWent DEF Connect, Answers, Labels, Mutating, Starting
    <2> QED
      BY <1>7, <2>1 DEF Connect, Answers, Types, seVars, analyses, work
  <1>8. ASSUME NEW r \in Requests, ConnectDone(r) PROVE Types'
    <2> DEFINE c == request[r].cookie
    <2>0. UNCHANGED issued /\ request[r].at # "free"
      BY <1>8 DEF ConnectDone
    <2>1. RequestOK' /\ c \in Cookies
      BY <1>0, <1>8, <2>0, EndsWent DEF ConnectDone, Answers, RequestOK, Types
    <2>2. hosts \in Nat /\ host[c] \in 0..hosts /\ MaxHosts \in Nat
      BY <2>1, WebAssumption DEF Types, WebAssumption
    <2>3. CASE hosts < MaxHosts /\ hosts' = hosts + 1
      <3>1. hosts' \in 0..MaxHosts /\ hosts' \in 0..hosts'
        BY <2>2, <2>3
      <3>2. host' \in [Cookies -> 0..hosts']
        BY <1>8, <2>2, <2>3, <3>1 DEF ConnectDone, Types
      <3>3. closed' \subseteq 1..hosts'
        <4>1. closed' = closed \cup ({host[c]} \ {0})
          BY <1>8, <2>2, <2>3 DEF ConnectDone, None
        <4>2. closed \subseteq 1..(hosts + 1) /\ {host[c]} \ {0} \subseteq 1..(hosts + 1)
          BY <2>2 DEF Types
        <4> QED
          BY <2>3, <4>1, <4>2
      <3>4. report' \in [Cookies -> Analyses \cup {None}] /\ job' \in [Cookies -> Analyses \cup {None}]
        BY <1>8, <2>1 DEF ConnectDone, Types
      <3> QED
        BY <1>8, <2>1, <3>1, <3>2, <3>3, <3>4 DEF ConnectDone, Answers, Types, analyses, work
    <2>4. CASE UNCHANGED <<hosts, closed, host, report, job>>
      BY <1>8, <2>1, <2>4 DEF ConnectDone, Answers, Types, analyses, work
    <2> QED
      BY <1>8, <2>3, <2>4 DEF ConnectDone
  <1>9. ASSUME NEW r \in Requests, Analyze(r) PROVE Types'
    <2> DEFINE c == request[r].cookie
    <2>0. UNCHANGED issued /\ request[r].at # "free" /\ c \in Cookies
      BY <1>0, <1>9 DEF Analyze, RequestOK, Types
    <2>1. RequestOK'
      <3>1. CASE Ends(r)
        BY <1>0, <2>0, <3>1, EndsWent
      <3>2. CASE host[c] # None /\ request' = [request EXCEPT ![r].at = "analyze.done", ![r].host = host[c]]
        <4>1. host[c] \in Hosts
          BY <2>0, <3>2, WebAssumption DEF Types, Hosts, None, WebAssumption
        <4>2. request[r].id \in Analyses \cup {None}
          BY <1>0 DEF RequestOK, Handlers
        <4>3. "analyze.done" \in Labels \ {"begin"} /\ "analyze.done" \notin Starting
          BY DEF Labels, Mutating, Starting
        <4> QED
          BY <1>0, <2>0, <3>2, <4>1, <4>2, <4>3, TakesWent
      <3> QED
        BY <1>9, <3>1, <3>2 DEF Analyze, Answers
    <2>2. op' \in Requests \cup {NoOne} /\ report' \in [Cookies -> Analyses \cup {None}]
      BY <1>9 DEF Analyze, Answers, Types
    <2> QED
      BY <1>9, <2>1, <2>2 DEF Analyze, Types, analyses, work
  <1>10. ASSUME NEW r \in Requests, AnalyzeDone(r) PROVE Types'
    <2> DEFINE c == request[r].cookie
    <2>0. UNCHANGED issued /\ request[r].at # "free" /\ c \in Cookies
      BY <1>0, <1>10 DEF AnalyzeDone, RequestOK, Types
    <2>1. RequestOK' /\ op' = NoOne
      BY <1>0, <1>10, <2>0, EndsWent DEF AnalyzeDone, Answers
    <2>2. request[r].host \in Hosts \cup {None}
      BY <1>0 DEF RequestOK, Handlers
    <2>3. /\ report' \in [Cookies -> Analyses \cup {None}]
          /\ analysed' \in [Analyses -> Hosts \cup {None}]
          /\ shown' \in [Analyses -> Cookies \cup {NoOne}]
      BY <1>10, <2>0, <2>2 DEF AnalyzeDone, Types, analyses
    <2> QED
      BY <1>10, <2>1, <2>3 DEF AnalyzeDone, Types, work
  <1>11. ASSUME NEW r \in Requests, Start(r) PROVE Types'
    <2> DEFINE c == request[r].cookie
    <2>0. UNCHANGED issued /\ request[r].at # "free" /\ c \in Cookies
      BY <1>0, <1>11 DEF Start, RequestOK, Types
    <2>1. CASE /\ host[c] # None /\ report[c] # None /\ report[c] = request[r].id
               /\ job' = [job EXCEPT ![c] = report[c]]
               /\ report' = [report EXCEPT ![c] = None]
               /\ request' = [request EXCEPT ![r].at = "start.running", ![r].host = host[c]]
               /\ UNCHANGED op
      <3>1. host[c] \in Hosts
        BY <2>0, <2>1, WebAssumption DEF Types, Hosts, None, WebAssumption
      <3>2. request[r].id \in Analyses \cup {None} /\ request[r].id # None
        BY <1>0, <2>1 DEF RequestOK, Handlers
      <3>3. "start.running" \in Labels \ {"begin"}
        BY DEF Labels, Mutating
      <3>4. RequestOK'
        BY <1>0, <2>0, <2>1, <3>1, <3>2, <3>3, TakesWent
      <3>5. report' \in [Cookies -> Analyses \cup {None}] /\ job' \in [Cookies -> Analyses \cup {None}]
        BY <2>0, <2>1, <3>2 DEF Types
      <3> QED
        BY <1>11, <2>1, <3>4, <3>5 DEF Start, Types, analyses, work
    <2>2. CASE Answers(r) /\ UNCHANGED <<job, report>>
      <3>1. RequestOK' /\ op' = NoOne
        BY <1>0, <2>0, <2>2, EndsWent DEF Answers
      <3> QED
        BY <1>11, <2>2, <3>1 DEF Start, Types, analyses, work
    <2> QED
      BY <1>11, <2>1, <2>2 DEF Start
  <1>12. ASSUME NEW r \in Requests, StartRunning(r) PROVE Types'
    <2>1. request[r].at = "start.running" /\ UNCHANGED issued
      BY <1>12 DEF StartRunning, seVars
    <2>2. request[r].id # None /\ request[r].host # None
      BY <1>0, <2>1 DEF RequestOK, Starting
    <2>3. RequestOK'
      BY <1>0, <1>12, <2>1, <2>2, MovesWent DEF StartRunning, Labels, Mutating
    <2> QED
      BY <1>12, <2>3 DEF StartRunning, Types, seVars, analyses
  <1>13. ASSUME NEW r \in Requests, StartGo(r) PROVE Types'
    <2>1. request[r].at = "start.go" /\ UNCHANGED issued
      BY <1>13 DEF StartGo, seVars
    <2>2. request[r].id \in Analyses /\ request[r].host \in Hosts
      BY <1>0, <2>1 DEF RequestOK, Handlers, Starting
    <2>3. RequestOK'
      BY <1>0, <1>13, <2>1, MovesWent DEF StartGo, Labels, Starting
    <2>4. engines' \subseteq [job : Analyses, host : Hosts]
      BY <1>13, <2>2 DEF StartGo, Types
    <2> QED
      BY <1>13, <2>3, <2>4 DEF StartGo, Types, seVars, analyses
  <1>14. ASSUME NEW r \in Requests, Unlock(r) \/ RollbackDone(r) PROVE Types'
    <2>1. RequestOK' /\ op' = NoOne
      BY <1>0, <1>14, EndsWent DEF Unlock, RollbackDone, Answers, seVars
    <2> QED
      BY <1>14, <2>1 DEF Unlock, RollbackDone, Types, seVars, analyses, work
  <1>15. ASSUME NEW r \in Requests, Rollback(r) PROVE Types'
    <2> DEFINE c == request[r].cookie
    <2>0. UNCHANGED issued /\ request[r].at # "free" /\ c \in Cookies
      BY <1>0, <1>15 DEF Rollback, RequestOK, Types, seVars
    <2>1. CASE /\ job[c] # None /\ host[c] # None /\ UNCHANGED op
               /\ request' = [request EXCEPT ![r].at = "rollback.done", ![r].host = host[c],
                                             ![r].id = job[c]]
      <3>1. host[c] \in Hosts /\ job[c] \in Analyses \cup {None}
        BY <2>0, <2>1, WebAssumption DEF Types, Hosts, None, WebAssumption
      <3>2. "rollback.done" \in Labels \ {"begin"} /\ "rollback.done" \notin Starting
        BY DEF Labels, Mutating, Starting
      <3>3. RequestOK'
        BY <1>0, <2>0, <2>1, <3>1, <3>2, TakesWent
      <3> QED
        BY <1>15, <2>1, <3>3 DEF Rollback, Types, seVars, analyses, work
    <2>2. CASE Answers(r)
      <3>1. RequestOK' /\ op' = NoOne
        BY <1>0, <2>0, <2>2, EndsWent DEF Answers
      <3> QED
        BY <1>15, <3>1 DEF Rollback, Types, seVars, analyses, work
    <2> QED
      BY <1>15, <2>1, <2>2 DEF Rollback
  <1>16. ASSUME NEW e \in [job : Analyses, host : Hosts], EngineCompletes(e) \/ EngineReturns(e)
         PROVE  Types'
    <2>1. RequestOK'
      BY <1>0, <1>16 DEF EngineCompletes, EngineReturns, RequestOK, seVars
    <2> QED
      BY <1>16, <2>1 DEF EngineCompletes, EngineReturns, Types, seVars, analyses
  <1>17. CASE UNCHANGED vars
    <2>1. RequestOK'
      BY <1>0, <1>17 DEF RequestOK, vars, seVars
    <2> QED
      BY <1>17, <2>1 DEF Types, vars, seVars, analyses, work
  <1> QED
    BY <1>1, <1>2, <1>3, <1>4, <1>5, <1>6, <1>7, <1>8, <1>9, <1>10, <1>11, <1>12, <1>13, <1>14,
       <1>15, <1>16, <1>17 DEF Next, Handle

(* The number of sessions: a login adds one only where there is room.      *)
LEMMA LimitedStep == Types /\ Limited /\ [Next]_vars => Limited'
  <1> SUFFICES ASSUME Types, Limited, [Next]_vars PROVE Limited'
    OBVIOUS
  <1>1. ASSUME NEW c \in Cookies, Login(c) PROVE Limited'
    <2> DEFINE kept == sessions \ Purgeable
    <2>1. IsFiniteSet(kept) /\ Cardinality(kept) <= Cardinality(sessions)
      BY FS_Subset DEF Limited
    <2>2. Cardinality(kept) \in Nat /\ SessionLimit \in Nat /\ Cardinality(sessions) \in Nat
      BY <2>1, FS_CardinalityType, WebAssumption DEF WebAssumption, Limited
    <2>3. CASE Room /\ sessions' = kept \cup {c}
      <3>1. IsFiniteSet(kept \cup {c}) /\ Cardinality(kept \cup {c}) <= Cardinality(kept) + 1
        BY <2>1, <2>2, FS_AddElement
      <3>2. Cardinality(kept \cup {c}) \in Nat
        BY <3>1, FS_CardinalityType
      <3> QED
        BY <2>2, <2>3, <3>1, <3>2 DEF Room, Limited
    <2>4. CASE sessions' = kept
      BY <2>1, <2>2, <2>4 DEF Limited
    <2> QED
      BY <1>1, <2>3, <2>4 DEF Login
  <1>2. CASE UNCHANGED sessions
    BY <1>2 DEF Limited
  <1>3. \/ \E c \in Cookies : Login(c)
        \/ UNCHANGED sessions
    BY DEF Next, Expire, Handle, Auth, Begin, Probe, Connect, ConnectDone, Analyze, AnalyzeDone,
           Start, StartRunning, StartGo, Unlock, Rollback, RollbackDone, Arrive, EngineCompletes,
           EngineReturns, vars, seVars
  <1> QED
    BY <1>1, <1>2, <1>3

\* New, login and the handlers: every field holds what its comment says, only
\* known clients are closed, and never more sessions than the limit are kept,
\* however many logins and expiries there are.
THEOREM Typed == Spec => []TypeOK
  <1>1. Types /\ Limited => TypeOK
    <2> SUFFICES ASSUME Types, Limited PROVE TypeOK
      OBVIOUS
    <2>1. host \in [Cookies -> Hosts \cup {None}]
      BY WebAssumption DEF Types, Hosts, None, WebAssumption
    <2> QED
      BY <2>1 DEF Types, Limited, TypeOK, RequestOK, Handlers
  <1> QED
    BY <1>1, TypesInit, TypesStep, LimitedStep, PTL DEF Spec

(***************************************************************************)
(* One mutator.  A handler past begin holds the lock; until its engine     *)
(* runs there is none; and the flag is up from start.go on, until the      *)
(* engine's goroutine ends.                                                *)
(***************************************************************************)
Early == {"probe", "connect", "analyze", "start", "rollback", "connect.done", "analyze.done",
          "start.running", "rollback.done"}
Locked == Early \cup {"start.go", "unlock"}

OpInv ==
    /\ \A r \in Requests : request[r].at \in Locked => op = r
    /\ \A r \in Requests : request[r].at \in Early => ~running
    /\ \A r \in Requests : request[r].at \in Early \cup {"start.go"} => engines = {}
    /\ \A r \in Requests : request[r].at = "start.go" => running
    /\ engines # {} => running
    /\ \A e, f \in engines : e = f

(* A handler that goes on, before its engine.                              *)
LEMMA OpAdvances ==
    ASSUME OpInv, NEW r \in Requests, NEW label \in Early, Went(r, label),
           request[r].at \in Early, UNCHANGED <<op, running, engines>>
    PROVE  OpInv'
  BY DEF OpInv, Went, Early, Locked

(* A handler that has not begun, or was turned away.                       *)
LEMMA OpOutside ==
    ASSUME OpInv, NEW r \in Requests, NEW label \in {"free", "auth", "begin"}, Went(r, label),
           UNCHANGED <<op, running, engines>>
    PROVE  OpInv'
  BY DEF OpInv, Went, Early, Locked

(* A handler that answers.                                                 *)
LEMMA OpAnswers ==
    ASSUME OpInv, NEW r \in Requests, Went(r, "free"), request[r].at \in Locked, op' = NoOne,
           UNCHANGED <<running, engines>>
    PROVE  OpInv'
  BY WebAssumption DEF OpInv, Went, Early, Locked, WebAssumption

LEMMA OpStep == Types /\ OpInv /\ [Next]_vars => OpInv'
  <1> SUFFICES ASSUME Types, OpInv, [Next]_vars PROVE OpInv'
    OBVIOUS
  <1>0. RequestOK
    BY DEF Types
  <1>1. ASSUME NEW r \in Requests, Auth(r) PROVE OpInv'
    <2>1. UNCHANGED <<issued, op, running, engines>> /\ request[r].at # "free"
      BY <1>1 DEF Auth, work
    <2>2. CASE Ends(r)
      BY <1>0, <2>1, <2>2, EndsWent, OpOutside
    <2>3. CASE request[r].kind # "read" /\ Moves(r, "begin")
      BY <1>0, <2>1, <2>3, MovesWent, OpOutside DEF Labels, Starting
    <2> QED
      BY <1>1, <2>2, <2>3 DEF Auth
  <1>2. ASSUME NEW r \in Requests, Begin(r) PROVE OpInv'
    <2>1. UNCHANGED <<issued, running, engines>> /\ request[r].at = "begin"
      BY <1>2 DEF Begin, seVars, work
    <2>2. CASE UNCHANGED op /\ Ends(r)
      BY <1>0, <2>1, <2>2, EndsWent, OpOutside
    <2>3. CASE op = NoOne /\ ~running /\ op' = r /\ Moves(r, request[r].kind)
      <3>1. request[r].kind \in Early \ Starting /\ request[r].kind \in Labels \ {"begin"}
        BY <1>0, <2>1 DEF RequestOK, Handlers, Kinds, Early, Labels, Starting
      <3>2. Went(r, request[r].kind)
        BY <1>0, <2>1, <2>3, <3>1, MovesWent
      <3>3. \A q \in Requests : request[q].at \notin Locked
        BY <2>3, WebAssumption DEF OpInv, WebAssumption
      <3>4. engines = {}
        BY <2>3 DEF OpInv
      <3>5. \A q \in Requests : q # r => request'[q].at \notin Locked
        BY <3>2, <3>3 DEF Went
      <3>6. request'[r].at \in Early
        BY <3>1, <3>2 DEF Went
      <3> QED
        BY <2>1, <2>3, <3>4, <3>5, <3>6 DEF OpInv, Early, Locked
    <2> QED
      BY <1>2, <2>2, <2>3 DEF Begin
  <1>3. ASSUME NEW r \in Requests,
               Probe(r) \/ ConnectDone(r) \/ AnalyzeDone(r) \/ Unlock(r) \/ RollbackDone(r)
        PROVE  OpInv'
    <2>1. request[r].at \in Locked /\ Answers(r) /\ UNCHANGED <<issued, running, engines>>
      BY <1>3 DEF Probe, ConnectDone, AnalyzeDone, Unlock, RollbackDone, Early, Locked, seVars, work
    <2> QED
      BY <1>0, <2>1, EndsWent, OpAnswers DEF Answers
  <1>4. ASSUME NEW r \in Requests, Connect(r) \/ Analyze(r) \/ Start(r) \/ Rollback(r) PROVE OpInv'
    <2>1. request[r].at \in Early /\ UNCHANGED <<issued, running, engines>>
      BY <1>4 DEF Connect, Analyze, Start, Rollback, Early, seVars, work
    <2>2. CASE Answers(r)
      BY <1>0, <2>1, <2>2, EndsWent, OpAnswers DEF Answers, Locked
    <2>3. ASSUME UNCHANGED op, NEW label \in Early, Went(r, label) PROVE OpInv'
      BY <2>1, <2>3, OpAdvances
    <2>4. Connect(r) => Answers(r) \/ (UNCHANGED op /\ Went(r, "connect.done"))
      BY <1>0 DEF Connect, Moves, Went, RequestOK, Handlers
    <2>5. Analyze(r) => Answers(r) \/ (UNCHANGED op /\ Went(r, "analyze.done"))
      BY <1>0 DEF Analyze, Went, RequestOK, Handlers
    <2>6. Start(r) => Answers(r) \/ (UNCHANGED op /\ Went(r, "start.running"))
      BY <1>0 DEF Start, Went, RequestOK, Handlers
    <2>7. Rollback(r) => Answers(r) \/ (UNCHANGED op /\ Went(r, "rollback.done"))
      BY <1>0 DEF Rollback, Went, RequestOK, Handlers
    <2> QED
      BY <1>4, <2>2, <2>3, <2>4, <2>5, <2>6, <2>7 DEF Early
  <1>5. ASSUME NEW r \in Requests, StartRunning(r) PROVE OpInv'
    <2>1. /\ request[r].at = "start.running" /\ running' = TRUE /\ UNCHANGED <<op, engines>>
          /\ Went(r, "start.go")
      BY <1>0, <1>5 DEF StartRunning, Moves, Went, RequestOK, Handlers
    <2>2. \A q \in Requests : q # r => request[q].at \notin Locked
      BY <2>1 DEF OpInv, Early, Locked
    <2> QED
      BY <2>1, <2>2 DEF OpInv, Went, Early, Locked
  <1>6. ASSUME NEW r \in Requests, StartGo(r) PROVE OpInv'
    <2>1. /\ request[r].at = "start.go" /\ UNCHANGED <<op, running>> /\ Went(r, "unlock")
          /\ engines' = engines \cup {[job |-> request[r].id, host |-> request[r].host]}
      BY <1>0, <1>6 DEF StartGo, Moves, Went, RequestOK, Handlers
    <2>2. running /\ engines = {} /\ \A q \in Requests : q # r => request[q].at \notin Locked
      BY <2>1 DEF OpInv, Early, Locked
    <2>3. engines' = {[job |-> request[r].id, host |-> request[r].host]}
      BY <2>1, <2>2
    <2> QED
      BY <2>1, <2>2, <2>3 DEF OpInv, Went, Early, Locked
  <1>7. ASSUME NEW e \in [job : Analyses, host : Hosts], EngineReturns(e) PROVE OpInv'
    <2>1. e \in engines /\ engines' = engines \ {e} /\ running' = FALSE /\ UNCHANGED <<op, request>>
      BY <1>7 DEF EngineReturns
    <2>2. engines' = {}
      BY <2>1 DEF OpInv
    <2>3. \A r \in Requests : request[r].at # "start.go"
      BY <2>1 DEF OpInv
    <2> QED
      BY <2>1, <2>2, <2>3 DEF OpInv
  <1>8. ASSUME NEW r \in Requests, NEW c \in Cookies, NEW k \in Kinds,
               NEW id \in Analyses \cup {None}, Arrive(r, c, k, id)
        PROVE  OpInv'
    <2>1. UNCHANGED <<op, running, engines>> /\ Went(r, "auth")
      BY <1>0, <1>8 DEF Arrive, Went, RequestOK, Handlers, work
    <2> QED
      BY <2>1, OpOutside
  <1>9. CASE UNCHANGED <<op, running, engines, request>>
    BY <1>9 DEF OpInv
  <1>10. \/ \E r \in Requests : Handle(r)
         \/ \E r \in Requests, c \in Cookies, k \in Kinds, id \in Analyses \cup {None} :
              Arrive(r, c, k, id)
         \/ \E e \in [job : Analyses, host : Hosts] : EngineReturns(e)
         \/ UNCHANGED <<op, running, engines, request>>
    BY DEF Next, Login, Expire, EngineCompletes, vars, work
  <1> QED
    BY <1>1, <1>2, <1>3, <1>4, <1>5, <1>6, <1>7, <1>8, <1>9, <1>10 DEF Handle

\* begin, start and its goroutine: however requests, expiry and the engine's end
\* interleave, whatever changes a host is alone.
THEOREM MutatorIsAlone == Spec => []OneMutator
  <1>1. Init => OpInv
    BY DEF Init, OpInv, Idle, Early, Locked
  <1>2. OpInv => OneMutator
    <2> SUFFICES ASSUME OpInv PROVE OneMutator
      OBVIOUS
    <2>1. Mutating \subseteq Locked /\ Mutating \subseteq Early \cup {"start.go"}
      BY DEF Mutating, Early, Locked
    <2>2. \A r, q \in Requests : {request[r].at, request[q].at} \subseteq Mutating => r = q
      BY <2>1 DEF OpInv
    <2>3. engines # {} => running /\ \A r \in Requests : request[r].at \notin Mutating
      BY <2>1 DEF OpInv
    <2> QED
      BY <2>2, <2>3 DEF OneMutator, OpInv
  <1> QED
    BY <1>1, <1>2, TypesInit, TypesStep, OpStep, PTL DEF Spec

(***************************************************************************)
(* What was reviewed and what is kept.  A session's client is open and its *)
(* own, its report and its job are those its browser saw.                  *)
(***************************************************************************)
SessionInv ==
    /\ \A c \in Cookies : host[c] # None => host[c] \notin closed
    /\ \A c, d \in Cookies : host[c] = host[d] /\ host[c] # None => c = d
    /\ \A c \in Cookies : report[c] # None =>
         shown[report[c]] = c /\ (host[c] # None => analysed[report[c]] = host[c])
    /\ \A c \in Cookies : job[c] # None => shown[job[c]] = c

LEMMA SessionsIdle ==
    ASSUME SessionInv, UNCHANGED <<host, report, job, closed, analysed, shown>>
    PROVE  SessionInv'
  BY DEF SessionInv

LEMMA SessionsClose ==
    ASSUME Types, SessionInv, NEW cs \in SUBSET Cookies, CloseHosts(cs),
           UNCHANGED <<job, analysed, shown>>
    PROVE  SessionInv'
  <1>1. \A c \in Cookies : /\ host'[c] = IF c \in cs THEN None ELSE host[c]
                           /\ report'[c] = IF c \in cs THEN None ELSE report[c]
    BY DEF CloseHosts
  <1>2. \A c \in Cookies : host'[c] # None => host'[c] \notin closed'
    BY <1>1 DEF CloseHosts, SessionInv
  <1> QED
    BY <1>1, <1>2 DEF SessionInv

(* A handler that analyses holds the session's client, unless that was     *)
(* closed; a start names an analysis its browser saw, which a session that *)
(* was purged meanwhile no longer has.                                     *)
Asking(q) == (q.at \in {"auth", "begin"} /\ q.kind = "start") \/ q.at = "start"

AskOK(r) ==
    /\ request[r].at = "analyze.done" => host[request[r].cookie] \in {None, request[r].host}
    /\ Asking(request[r]) =>
         /\ request[r].id \in Analyses /\ shown[request[r].id] = request[r].cookie
         /\ request[r].cookie \notin sessions => report[request[r].cookie] # request[r].id

AskInv == \A r \in Requests : AskOK(r)

(* The session of a handler.                                               *)
LEMMA HasSession ==
    ASSUME Types, NEW r \in Requests, request[r].at # "free"
    PROVE  request[r].cookie \in Cookies /\ request[r].cookie \in issued
  BY DEF Types, RequestOK

LEMMA SessionStep == Types /\ SessionInv /\ AskInv /\ [Next]_vars => SessionInv'
  <1> SUFFICES ASSUME Types, SessionInv, AskInv, [Next]_vars PROVE SessionInv'
    OBVIOUS
  <1>1. ASSUME NEW c \in Cookies, Login(c) PROVE SessionInv'
    <2>1. Purgeable \in SUBSET Cookies
      BY DEF Purgeable, Types
    <2> QED
      BY <1>1, <2>1, SessionsClose DEF Login, analyses
  <1>2. ASSUME NEW r \in Requests, Auth(r) PROVE SessionInv'
    <2> DEFINE c == request[r].cookie
    <2>1. {c} \in SUBSET Cookies
      BY <1>2, HasSession DEF Auth
    <2>2. CASE CloseHosts({c})
      BY <1>2, <2>1, <2>2, SessionsClose DEF Auth, analyses
    <2>3. CASE UNCHANGED <<host, report, closed>>
      BY <1>2, <2>3, SessionsIdle DEF Auth, analyses
    <2> QED
      BY <1>2, <2>2, <2>3 DEF Auth
  <1>3. ASSUME NEW r \in Requests, ConnectDone(r) PROVE SessionInv'
    <2> DEFINE c == request[r].cookie
    <2>1. c \in Cookies
      BY <1>3, HasSession DEF ConnectDone
    <2>2. CASE /\ hosts < MaxHosts
               /\ closed' = closed \cup ({host[c]} \ {None})
               /\ host' = [host EXCEPT ![c] = hosts + 1]
               /\ report' = [report EXCEPT ![c] = None]
               /\ job' = [job EXCEPT ![c] = None]
      <3>1. hosts \in Nat /\ closed \subseteq 1..hosts /\ \A d \in Cookies : host[d] \in 0..hosts
        BY DEF Types
      <3>2. hosts + 1 \notin closed /\ \A d \in Cookies : host[d] # hosts + 1
        BY <3>1
      <3>3. \A d \in Cookies : host'[d] = IF d = c THEN hosts + 1 ELSE host[d]
        BY <2>2 DEF Types
      <3>4. \A d \in Cookies : host'[d] # None => host'[d] \notin closed'
        BY <2>1, <2>2, <3>2, <3>3 DEF SessionInv
      <3>5. \A d, f \in Cookies : host'[d] = host'[f] /\ host'[d] # None => d = f
        BY <3>2, <3>3 DEF SessionInv
      <3>6. \A d \in Cookies : /\ report'[d] # None => d # c /\ report'[d] = report[d]
                               /\ job'[d] # None => job'[d] = job[d]
        BY <2>2 DEF Types
      <3>7. UNCHANGED <<analysed, shown>>
        BY <1>3 DEF ConnectDone, analyses
      <3> QED
        BY <3>3, <3>4, <3>5, <3>6, <3>7 DEF SessionInv
    <2>3. CASE UNCHANGED <<hosts, closed, host, report, job>>
      BY <1>3, <2>3, SessionsIdle DEF ConnectDone, analyses
    <2> QED
      BY <1>3, <2>2, <2>3 DEF ConnectDone
  <1>4. ASSUME NEW r \in Requests, Analyze(r) PROVE SessionInv'
    <2>1. \A d \in Cookies : report'[d] # None => report'[d] = report[d]
      BY <1>4 DEF Analyze, Types
    <2>2. UNCHANGED <<host, job, closed, analysed, shown>>
      BY <1>4 DEF Analyze, analyses
    <2> QED
      BY <2>1, <2>2 DEF SessionInv
  <1>5. ASSUME NEW r \in Requests, AnalyzeDone(r) PROVE SessionInv'
    <2> DEFINE c == request[r].cookie
    <2>1. c \in Cookies /\ host[c] \in {None, request[r].host} /\ UNCHANGED <<host, job, closed>>
      BY <1>5, HasSession DEF AnalyzeDone, AskInv, AskOK
    <2>2. ASSUME NEW a \in Analyses, shown[a] = NoOne,
                 report' = [report EXCEPT ![c] = a],
                 analysed' = [analysed EXCEPT ![a] = request[r].host],
                 shown' = [shown EXCEPT ![a] = c]
          PROVE  SessionInv'
      <3>1. \A b \in Analyses : /\ shown'[b] = IF b = a THEN c ELSE shown[b]
                                /\ analysed'[b] = IF b = a THEN request[r].host ELSE analysed[b]
        BY <2>2 DEF Types
      <3>2. \A d \in Cookies : report'[d] = IF d = c THEN a ELSE report[d]
        BY <2>2 DEF Types
      <3>3. \A d \in Cookies : /\ report[d] # None => report[d] \in Analyses /\ report[d] # a
                               /\ job[d] # None => job[d] \in Analyses /\ job[d] # a
        BY <2>2, WebAssumption DEF Types, SessionInv, WebAssumption
      <3> QED
        BY <2>1, <3>1, <3>2, <3>3 DEF SessionInv
    <2>3. CASE UNCHANGED <<report, analyses>>
      BY <2>1, <2>3, SessionsIdle DEF analyses
    <2> QED
      BY <1>5, <2>2, <2>3 DEF AnalyzeDone
  <1>6. ASSUME NEW r \in Requests, Start(r) PROVE SessionInv'
    <2> DEFINE c == request[r].cookie
    <2>1. c \in Cookies /\ UNCHANGED <<host, closed, analysed, shown>>
      BY <1>6, HasSession DEF Start, analyses
    <2>2. CASE /\ report[c] # None
               /\ job' = [job EXCEPT ![c] = report[c]]
               /\ report' = [report EXCEPT ![c] = None]
      <3>1. \A d \in Cookies : job'[d] = IF d = c THEN report[c] ELSE job[d]
        BY <2>2 DEF Types
      <3>2. \A d \in Cookies : report'[d] # None => report'[d] = report[d]
        BY <2>2 DEF Types
      <3> QED
        BY <2>1, <2>2, <3>1, <3>2 DEF SessionInv
    <2>3. CASE UNCHANGED <<job, report>>
      BY <2>1, <2>3, SessionsIdle
    <2> QED
      BY <1>6, <2>2, <2>3 DEF Start
  <1>7. CASE UNCHANGED <<host, report, job, closed, analysed, shown>>
    BY <1>7, SessionsIdle
  <1>8. ASSUME NEW r \in Requests, Handle(r)
        PROVE  \/ Auth(r) \/ ConnectDone(r) \/ Analyze(r) \/ AnalyzeDone(r) \/ Start(r)
               \/ UNCHANGED <<host, report, job, closed, analysed, shown>>
    <2>1. Begin(r) \/ Probe(r) \/ Connect(r) => UNCHANGED <<host, report, job, closed, analysed, shown>>
      BY DEF Begin, Probe, Connect, seVars, analyses
    <2>2. StartRunning(r) \/ StartGo(r) \/ Unlock(r)
            => UNCHANGED <<host, report, job, closed, analysed, shown>>
      BY DEF StartRunning, StartGo, Unlock, seVars, analyses
    <2>3. Rollback(r) \/ RollbackDone(r) => UNCHANGED <<host, report, job, closed, analysed, shown>>
      BY DEF Rollback, RollbackDone, seVars, analyses
    <2> QED
      BY <1>8, <2>1, <2>2, <2>3 DEF Handle
  <1>9. \/ \E c \in Cookies : Login(c)
        \/ \E r \in Requests : Handle(r)
        \/ UNCHANGED <<host, report, job, closed, analysed, shown>>
    BY DEF Next, Expire, Arrive, EngineCompletes, EngineReturns, vars, seVars, analyses
  <1> QED
    BY <1>1, <1>2, <1>3, <1>4, <1>5, <1>6, <1>7, <1>8, <1>9

(* The other handlers do not notice a step that only closes clients and    *)
(* takes reports back.                                                     *)
LEMMA AskHolds ==
    ASSUME Types, AskInv, NEW r \in Requests, AskOK(r)',
           \A q \in Requests : q # r => request'[q] = request[q],
           \A c \in Cookies : /\ host'[c] \in {None, host[c]} /\ report'[c] \in {None, report[c]}
                              /\ c \in sessions /\ c \notin sessions' => report'[c] = None,
           UNCHANGED shown
    PROVE  AskInv'
  <1> SUFFICES ASSUME NEW q \in Requests, q # r PROVE AskOK(q)'
    BY DEF AskInv
  <1>1. request'[q] = request[q] /\ AskOK(q) /\ None \notin Analyses
    BY DEF AskInv, Analyses, None
  <1>2. request[q].at # "free" => request[q].cookie \in Cookies
    BY HasSession
  <1> QED
    BY <1>1, <1>2 DEF AskOK, Asking

(* A handler that neither asks nor analyses.                               *)
LEMMA AskNothing ==
    ASSUME NEW r \in Requests,
           request'[r].at \notin {"auth", "begin", "start", "analyze.done"}
    PROVE  AskOK(r)'
  BY DEF AskOK, Asking

LEMMA AskIdle ==
    ASSUME Types, AskInv, NEW r \in Requests, UNCHANGED <<host, report, sessions, shown>>,
           \/ /\ request'[r].at \notin {"auth", "begin", "start", "analyze.done"}
              /\ \A q \in Requests : q # r => request'[q] = request[q]
           \/ UNCHANGED request
    PROVE  AskInv'
  BY AskNothing, AskHolds DEF AskInv, AskOK, Asking

LEMMA AskStep == Types /\ OpInv /\ AskInv /\ [Next]_vars => AskInv'
  <1> SUFFICES ASSUME Types, OpInv, AskInv, [Next]_vars PROVE AskInv'
    OBVIOUS
  <1>0. RequestOK /\ Idle.at = "free"
    BY DEF Types, Idle
  <1>1. ASSUME NEW c \in Cookies, Login(c) PROVE AskInv'
    <2>1. \A d \in Cookies : /\ host'[d] \in {None, host[d]} /\ report'[d] \in {None, report[d]}
                             /\ d \in sessions /\ d \notin sessions' => report'[d] = None
      BY <1>1 DEF Login, CloseHosts, Purgeable
    <2>2. UNCHANGED <<shown, request>>
      BY <1>1 DEF Login, analyses
    <2> SUFFICES ASSUME NEW q \in Requests PROVE AskOK(q)'
      BY DEF AskInv
    <2>3. AskOK(q) /\ None \notin Analyses
      BY DEF AskInv, Analyses, None
    <2>4. request[q].at # "free" => request[q].cookie \in Cookies
      BY HasSession
    <2> QED
      BY <2>1, <2>2, <2>3, <2>4 DEF AskOK, Asking
  <1>2. ASSUME NEW r \in Requests, Auth(r) PROVE AskInv'
    <2> DEFINE c == request[r].cookie
    <2>1. /\ request[r].at = "auth" /\ c \in Cookies /\ UNCHANGED <<sessions, shown>>
          /\ \A d \in Cookies : host'[d] \in {None, host[d]} /\ report'[d] \in {None, report[d]}
      BY <1>2, HasSession DEF Auth, CloseHosts, analyses
    <2>2. CASE Ends(r)
      <3>1. \A q \in Requests : request'[q] = IF q = r THEN Idle ELSE request[q]
        BY <1>0, <2>2 DEF RequestOK, Ends
      <3> QED
        BY <1>0, <2>1, <3>1, AskNothing, AskHolds
    <2>3. CASE Moves(r, "begin")
      <3>1. /\ \A q \in Requests : q # r => request'[q] = request[q]
            /\ request'[r].at = "begin" /\ request'[r].kind = request[r].kind
            /\ request'[r].id = request[r].id /\ request'[r].cookie = c
        BY <1>0, <2>3 DEF RequestOK, Moves, Handlers
      <3>2. AskOK(r) /\ None \notin Analyses
        BY DEF AskInv, Analyses, None
      <3>3. AskOK(r)'
        BY <2>1, <3>1, <3>2 DEF AskOK, Asking
      <3> QED
        BY <2>1, <3>1, <3>3, AskHolds
    <2> QED
      BY <1>2, <2>2, <2>3 DEF Auth
  <1>3. ASSUME NEW r \in Requests, Begin(r) PROVE AskInv'
    <2>1. request[r].at = "begin" /\ UNCHANGED <<host, report, sessions, shown>>
      BY <1>3 DEF Begin, seVars, analyses
    <2>2. CASE Ends(r)
      <3>1. \A q \in Requests : request'[q] = IF q = r THEN Idle ELSE request[q]
        BY <1>0, <2>2 DEF RequestOK, Ends
      <3> QED
        BY <1>0, <2>1, <3>1, AskIdle
    <2>3. CASE Moves(r, request[r].kind)
      <3>1. /\ \A q \in Requests : q # r => request'[q] = request[q]
            /\ request'[r].at = request[r].kind
            /\ request'[r].id = request[r].id /\ request'[r].cookie = request[r].cookie
        BY <1>0, <2>3 DEF RequestOK, Moves, Handlers
      <3>2. AskOK(r) /\ request[r].kind \in Kinds
        BY <1>0 DEF AskInv, RequestOK, Handlers
      <3>3. AskOK(r)'
        BY <2>1, <3>1, <3>2 DEF AskOK, Asking, Kinds
      <3> QED
        BY <2>1, <3>1, <3>3, AskHolds
    <2> QED
      BY <1>3, <2>2, <2>3 DEF Begin
  <1>4. ASSUME NEW r \in Requests, NEW c \in Cookies, NEW k \in Kinds,
               NEW id \in Analyses \cup {None}, Arrive(r, c, k, id)
        PROVE  AskInv'
    <2>1. UNCHANGED <<host, report, sessions, shown>> /\ c \in sessions
      BY <1>4 DEF Arrive, seVars, analyses
    <2>2. \A q \in Requests :
            request'[q] = IF q = r THEN [at |-> "auth", kind |-> k, cookie |-> c, id |-> id,
                                         host |-> None]
                          ELSE request[q]
      BY <1>0, <1>4 DEF Arrive, RequestOK
    <2>3. AskOK(r)'
      BY <1>4, <2>1, <2>2 DEF Arrive, AskOK, Asking
    <2> QED
      BY <2>1, <2>2, <2>3, AskHolds
  <1>5. ASSUME NEW r \in Requests, ConnectDone(r) PROVE AskInv'
    <2> DEFINE c == request[r].cookie
    <2>1. /\ request[r].at = "connect.done" /\ UNCHANGED <<sessions, shown>>
          /\ \A d \in Cookies : /\ d # c => host'[d] = host[d] /\ report'[d] = report[d]
                                /\ report'[d] \in {None, report[d]}
      BY <1>5 DEF ConnectDone, Types, analyses
    <2>2. \A q \in Requests : request'[q] = IF q = r THEN Idle ELSE request[q]
      BY <1>0, <1>5 DEF ConnectDone, Answers, RequestOK, Ends
    <2>3. \A q \in Requests : request[q].at = "analyze.done" => q = r
      BY <2>1 DEF OpInv, Early, Locked
    <2> SUFFICES ASSUME NEW q \in Requests, q # r PROVE AskOK(q)'
      BY <1>0, <2>2, AskNothing DEF AskInv
    <2>4. AskOK(q) /\ request'[q] = request[q] /\ request[q].at # "analyze.done" /\ None \notin Analyses
      BY <2>2, <2>3 DEF AskInv, Analyses, None
    <2>5. request[q].at # "free" => request[q].cookie \in Cookies
      BY HasSession
    <2> QED
      BY <2>1, <2>4, <2>5 DEF AskOK, Asking
  <1>6. ASSUME NEW r \in Requests, Analyze(r) PROVE AskInv'
    <2> DEFINE c == request[r].cookie
    <2>1. /\ UNCHANGED <<host, sessions, shown>>
          /\ \A d \in Cookies : report'[d] \in {None, report[d]}
      BY <1>6 DEF Analyze, Types, analyses
    <2>2. CASE Answers(r)
      <3>1. \A q \in Requests : request'[q] = IF q = r THEN Idle ELSE request[q]
        BY <1>0, <2>2 DEF RequestOK, Answers, Ends
      <3> QED
        BY <1>0, <2>1, <3>1, AskNothing, AskHolds
    <2>3. CASE request' = [request EXCEPT ![r].at = "analyze.done", ![r].host = host[c]]
      <3>1. /\ \A q \in Requests : q # r => request'[q] = request[q]
            /\ request'[r].at = "analyze.done" /\ request'[r].host = host[c]
            /\ request'[r].cookie = c
        BY <1>0, <2>3 DEF RequestOK, Handlers
      <3>2. AskOK(r)'
        BY <2>1, <3>1 DEF AskOK, Asking
      <3> QED
        BY <2>1, <3>1, <3>2, AskHolds
    <2> QED
      BY <1>6, <2>2, <2>3 DEF Analyze
  <1>7. ASSUME NEW r \in Requests, AnalyzeDone(r) PROVE AskInv'
    <2> DEFINE c == request[r].cookie
    <2>1. c \in Cookies /\ UNCHANGED <<host, sessions>>
      BY <1>7, HasSession DEF AnalyzeDone
    <2>2. \A q \in Requests : request'[q] = IF q = r THEN Idle ELSE request[q]
      BY <1>0, <1>7 DEF AnalyzeDone, Answers, RequestOK, Ends
    <2> SUFFICES ASSUME NEW q \in Requests, q # r PROVE AskOK(q)'
      BY <1>0, <2>2, AskNothing DEF AskInv
    <2>3. AskOK(q) /\ request'[q] = request[q]
      BY <2>2 DEF AskInv
    <2>4. request[q].at # "free" => request[q].cookie \in Cookies
      BY HasSession
    <2>5. CASE UNCHANGED <<report, analyses>>
      BY <2>1, <2>3, <2>5 DEF AskOK, analyses
    <2>6. ASSUME NEW a \in Analyses, shown[a] = NoOne,
                 report' = [report EXCEPT ![c] = a], shown' = [shown EXCEPT ![a] = c]
          PROVE  AskOK(q)'
      <3>1. \A b \in Analyses : b # a => shown'[b] = shown[b]
        BY <2>6 DEF Types
      <3>2. \A d \in Cookies : report'[d] \in {a, report[d]}
        BY <2>6 DEF Types
      <3>3. Asking(request[q]) => request[q].id # a
        BY <2>3, <2>4, <2>6, WebAssumption DEF AskOK, Asking, WebAssumption
      <3> QED
        BY <2>1, <2>3, <2>4, <3>1, <3>2, <3>3 DEF AskOK, Asking
    <2> QED
      BY <1>7, <2>5, <2>6 DEF AnalyzeDone
  <1>8. ASSUME NEW r \in Requests, Start(r) PROVE AskInv'
    <2> DEFINE c == request[r].cookie
    <2>1. /\ UNCHANGED <<host, sessions, shown>>
          /\ \A d \in Cookies : report'[d] \in {None, report[d]}
      BY <1>8 DEF Start, Types, analyses
    <2>2. /\ request'[r].at \in {"free", "start.running"}
          /\ \A q \in Requests : q # r => request'[q] = request[q]
      BY <1>0, <1>8 DEF Start, Answers, Ends, RequestOK, Handlers
    <2> QED
      BY <2>1, <2>2, AskNothing, AskHolds
  <1>9. ASSUME NEW r \in Requests,
               \/ Probe(r) \/ Connect(r) \/ StartRunning(r) \/ StartGo(r) \/ Unlock(r)
               \/ Rollback(r) \/ RollbackDone(r)
        PROVE  AskInv'
    <2>1. CASE Answers(r)
      <3>1. \A q \in Requests : request'[q] = IF q = r THEN Idle ELSE request[q]
        BY <1>0, <2>1 DEF RequestOK, Answers, Ends
      <3>2. UNCHANGED <<host, report, sessions, shown>>
        BY <1>9 DEF Probe, Connect, StartRunning, StartGo, Unlock, Rollback, RollbackDone, seVars,
                    analyses
      <3> QED
        BY <1>0, <3>1, <3>2, AskIdle
    <2>2. CASE Connect(r) /\ Moves(r, "connect.done")
      <3>1. /\ request'[r].at = "connect.done" /\ UNCHANGED <<host, report, sessions, shown>>
            /\ \A q \in Requests : q # r => request'[q] = request[q]
        BY <1>0, <2>2 DEF Connect, Moves, RequestOK, Handlers, seVars, analyses
      <3> QED
        BY <3>1, AskIdle
    <2>3. CASE StartRunning(r) \/ StartGo(r)
      <3>1. /\ request'[r].at \in {"start.go", "unlock"} /\ UNCHANGED <<host, report, sessions, shown>>
            /\ \A q \in Requests : q # r => request'[q] = request[q]
        BY <1>0, <2>3 DEF StartRunning, StartGo, Moves, RequestOK, Handlers, seVars, analyses
      <3> QED
        BY <3>1, AskIdle
    <2>4. CASE Rollback(r) /\ ~Answers(r)
      <3>1. /\ request'[r].at = "rollback.done" /\ UNCHANGED <<host, report, sessions, shown>>
            /\ \A q \in Requests : q # r => request'[q] = request[q]
        BY <1>0, <2>4 DEF Rollback, RequestOK, Handlers, seVars, analyses
      <3> QED
        BY <3>1, AskIdle
    <2> QED
      BY <1>9, <2>1, <2>2, <2>3, <2>4 DEF Probe, Connect, Unlock, RollbackDone
  <1>10. CASE UNCHANGED <<host, report, sessions, shown, request>>
    BY <1>10 DEF AskInv, AskOK
  <1>11. \/ \E c \in Cookies : Login(c)
         \/ \E r \in Requests : Handle(r)
         \/ \E r \in Requests, c \in Cookies, k \in Kinds, id \in Analyses \cup {None} :
              Arrive(r, c, k, id)
         \/ UNCHANGED <<host, report, sessions, shown, request>>
    BY DEF Next, Expire, EngineCompletes, EngineReturns, vars, seVars, analyses
  <1> QED
    BY <1>1, <1>2, <1>3, <1>4, <1>5, <1>6, <1>7, <1>8, <1>9, <1>10, <1>11 DEF Handle

(***************************************************************************)
(* A started job: its analysis, its browser's session and its client.      *)
(***************************************************************************)
KeptInv ==
    \A e \in Started :
        /\ e.job \in Analyses /\ shown[e.job] \in Cookies
        /\ job[shown[e.job]] = e.job /\ e.host = analysed[e.job]
        /\ e.job \notin complete =>
             shown[e.job] \in sessions /\ e.host # None /\ host[shown[e.job]] = e.host

(* A handler that is before its start holds the lock, so no job is started.*)
LEMMA NoneStarted ==
    ASSUME OpInv, NEW r \in Requests, request[r].at \in Early \ Starting
    PROVE  Started = {}
  <1>1. engines = {} /\ \A q \in Requests : request[q].at \notin Starting
    BY DEF OpInv, Early, Locked, Starting
  <1> QED
    BY <1>1 DEF Started, Starting

(* Only the step that leaves start.running, start.go and the engines       *)
(* matters to what is started.                                             *)
LEMMA NoneNew ==
    ASSUME NEW r \in Requests, request'[r].at \notin Starting,
           \A q \in Requests : q # r => request'[q] = request[q], engines' \subseteq engines
    PROVE  Started' \subseteq Started
  <1>1. \A q \in Requests : request'[q].at \in Starting => request'[q] = request[q]
    OBVIOUS
  <1> QED
    BY <1>1 DEF Started, Starting

(* What keeps active sessions keeps started jobs.                          *)
LEMMA KeptHolds ==
    ASSUME KeptInv, Started' \subseteq Started, complete \subseteq complete',
           UNCHANGED <<job, shown, analysed>>,
           \A c \in sessions \cap Cookies : Active(c) => c \in sessions' /\ host'[c] = host[c]
    PROVE  KeptInv'
  <1> SUFFICES ASSUME NEW e \in Started'
               PROVE  /\ e.job \in Analyses /\ shown'[e.job] \in Cookies
                      /\ job'[shown'[e.job]] = e.job /\ e.host = analysed'[e.job]
                      /\ e.job \notin complete' => /\ shown'[e.job] \in sessions' /\ e.host # None
                                                   /\ host'[shown'[e.job]] = e.host
    BY DEF KeptInv
  <1>1. /\ e.job \in Analyses /\ shown[e.job] \in Cookies
        /\ job[shown[e.job]] = e.job /\ e.host = analysed[e.job]
        /\ e.job \notin complete =>
             shown[e.job] \in sessions /\ e.host # None /\ host[shown[e.job]] = e.host
    BY DEF KeptInv
  <1>2. e.job \notin complete => Active(shown[e.job])
    BY <1>1 DEF Active, Analyses, None
  <1> QED
    BY <1>1, <1>2

LEMMA KeptStep == Types /\ OpInv /\ SessionInv /\ AskInv /\ KeptInv /\ [Next]_vars => KeptInv'
  <1> SUFFICES ASSUME Types, OpInv, SessionInv, AskInv, KeptInv, [Next]_vars PROVE KeptInv'
    OBVIOUS
  <1>0. RequestOK /\ Idle.at = "free" /\ "free" \notin Starting
    BY DEF Types, Idle, Starting
  <1>1. ASSUME NEW c \in Cookies, Login(c) PROVE KeptInv'
    <2>1. Started' = Started /\ UNCHANGED <<complete, job, shown, analysed>>
      BY <1>1 DEF Login, Started, work, analyses
    <2>2. \A d \in sessions \cap Cookies : Active(d) => d \in sessions' /\ host'[d] = host[d]
      BY <1>1 DEF Login, CloseHosts, Purgeable
    <2> QED
      BY <2>1, <2>2, KeptHolds
  <1>2. ASSUME NEW r \in Requests, Auth(r) PROVE KeptInv'
    <2>1. /\ \A q \in Requests : q # r => request'[q] = request[q]
          /\ request'[r].at \in {"free", "begin"}
      BY <1>0, <1>2 DEF Auth, Ends, Moves, RequestOK, Handlers
    <2>2. Started' \subseteq Started
      BY <1>2, <2>1, NoneNew DEF Auth, work, Starting
    <2>3. \A d \in sessions \cap Cookies : Active(d) => d \in sessions' /\ host'[d] = host[d]
      BY <1>2 DEF Auth, CloseHosts
    <2> QED
      BY <1>2, <2>2, <2>3, KeptHolds DEF Auth, work, analyses
  <1>3. ASSUME NEW r \in Requests, Begin(r) \/ Unlock(r) PROVE KeptInv'
    <2>1. /\ \A q \in Requests : q # r => request'[q] = request[q]
          /\ request'[r].at \notin Starting
      BY <1>0, <1>3 DEF Begin, Unlock, Answers, Ends, Moves, RequestOK, Handlers, Kinds, Starting
    <2>2. UNCHANGED <<sessions, host, job, analyses, work>>
      BY <1>3 DEF Begin, Unlock, seVars
    <2> QED
      BY <2>1, <2>2, NoneNew, KeptHolds DEF work, analyses
  <1>4. ASSUME NEW r \in Requests, NEW c \in Cookies, NEW k \in Kinds,
               NEW id \in Analyses \cup {None}, Arrive(r, c, k, id)
        PROVE  KeptInv'
    <2>1. \A q \in Requests :
            request'[q] = IF q = r THEN [at |-> "auth", kind |-> k, cookie |-> c, id |-> id,
                                         host |-> None]
                          ELSE request[q]
      BY <1>0, <1>4 DEF Arrive, RequestOK
    <2>2. UNCHANGED <<sessions, host, job, analyses, work>>
      BY <1>4 DEF Arrive, seVars
    <2> QED
      BY <2>1, <2>2, NoneNew, KeptHolds DEF work, analyses, Starting
  <1>5. ASSUME NEW r \in Requests,
               \/ Probe(r) \/ Connect(r) \/ ConnectDone(r) \/ Analyze(r) \/ AnalyzeDone(r)
               \/ Rollback(r) \/ RollbackDone(r) \/ (Start(r) /\ Answers(r))
        PROVE  KeptInv'
    <2>1. request[r].at \in Early \ Starting /\ UNCHANGED work
      BY <1>5 DEF Probe, Connect, ConnectDone, Analyze, AnalyzeDone, Rollback, RollbackDone, Start,
                  Early, Starting
    <2>2. Started = {}
      BY <2>1, NoneStarted
    <2>3. /\ \A q \in Requests : q # r => request'[q] = request[q]
          /\ request'[r].at \in {"free", "connect.done", "analyze.done", "rollback.done"}
      <3>1. CASE Answers(r)
        BY <1>0, <3>1 DEF Answers, Ends, RequestOK
      <3>2. CASE ~Answers(r)
        BY <1>0, <1>5, <3>2 DEF Probe, Connect, ConnectDone, Analyze, AnalyzeDone, Rollback,
                                RollbackDone, Moves, RequestOK, Handlers
      <3> QED
        BY <3>1, <3>2
    <2>4. Started' \subseteq Started
      BY <2>1, <2>3, NoneNew DEF work, Starting
    <2> QED
      BY <2>2, <2>4 DEF KeptInv
  <1>6. ASSUME NEW r \in Requests, Start(r), ~Answers(r) PROVE KeptInv'
    <2> DEFINE c == request[r].cookie
    <2> DEFINE e == [job |-> report[c], host |-> host[c]]
    <2>1. /\ request[r].at = "start" /\ host[c] # None /\ report[c] # None /\ report[c] = request[r].id
          /\ job' = [job EXCEPT ![c] = report[c]]
          /\ request' = [request EXCEPT ![r].at = "start.running", ![r].host = host[c]]
          /\ UNCHANGED <<sessions, host, analyses, work>>
      BY <1>6 DEF Start
    <2>2. c \in Cookies /\ AskOK(r)
      BY <2>1, HasSession DEF AskInv
    <2>3. /\ report[c] \in Analyses /\ shown[report[c]] = c /\ c \in sessions
          /\ analysed[report[c]] = host[c]
      BY <2>1, <2>2 DEF AskOK, Asking, SessionInv
    <2>4. \A f \in Started' : f = e
      <3>1. engines' = {} /\ \A q \in Requests : q # r => request[q].at \notin Starting
        BY <2>1 DEF OpInv, Early, Locked, Starting, work
      <3>2. \A q \in Requests : q # r => request'[q] = request[q]
        BY <1>0, <2>1 DEF RequestOK
      <3>3. request'[r].id = report[c] /\ request'[r].host = host[c]
        BY <1>0, <2>1 DEF RequestOK, Handlers
      <3> QED
        BY <3>1, <3>2, <3>3 DEF Started, Starting
    <2>5. job'[c] = report[c]
      BY <2>1, <2>2 DEF Types
    <2>6. e.job = report[c] /\ e.host = host[c]
      OBVIOUS
    <2>7. UNCHANGED <<sessions, host, shown, analysed>>
      BY <2>1 DEF analyses
    <2> HIDE DEF e
    <2> QED
      BY <2>1, <2>2, <2>3, <2>4, <2>5, <2>6, <2>7 DEF KeptInv
  <1>7. ASSUME NEW r \in Requests, StartRunning(r) PROVE KeptInv'
    <2>1. /\ request[r].at = "start.running" /\ request'[r].at = "start.go"
          /\ request'[r].id = request[r].id /\ request'[r].host = request[r].host
          /\ \A q \in Requests : q # r => request'[q] = request[q]
          /\ UNCHANGED <<sessions, host, job, analyses, complete, engines>>
      BY <1>0, <1>7 DEF StartRunning, Moves, RequestOK, Handlers, seVars
    <2>2. Started' \subseteq Started
      BY <2>1 DEF Started
    <2> QED
      BY <2>1, <2>2, KeptHolds DEF analyses
  <1>8. ASSUME NEW r \in Requests, StartGo(r) PROVE KeptInv'
    <2>1. /\ request[r].at = "start.go" /\ request'[r].at = "unlock"
          /\ \A q \in Requests : q # r => request'[q] = request[q]
          /\ engines' = engines \cup {[job |-> request[r].id, host |-> request[r].host]}
          /\ UNCHANGED <<sessions, host, job, analyses, complete>>
      BY <1>0, <1>8 DEF StartGo, Moves, RequestOK, Handlers, seVars
    <2>2. Started' \subseteq Started
      BY <2>1 DEF Started
    <2> QED
      BY <2>1, <2>2, KeptHolds DEF analyses
  <1>9. ASSUME NEW e \in [job : Analyses, host : Hosts], EngineCompletes(e) \/ EngineReturns(e)
        PROVE  KeptInv'
    <2>1. /\ UNCHANGED <<sessions, host, job, analyses, request>>
          /\ complete \subseteq complete' /\ engines' \subseteq engines
      BY <1>9 DEF EngineCompletes, EngineReturns, seVars
    <2>2. Started' \subseteq Started
      BY <2>1 DEF Started
    <2> QED
      BY <2>1, <2>2, KeptHolds DEF analyses
  <1>10. CASE UNCHANGED <<sessions, host, job, analyses, work, request>>
    BY <1>10, KeptHolds DEF Started, analyses, work
  <1>11. \/ \E c \in Cookies : Login(c)
         \/ \E r \in Requests : Handle(r)
         \/ \E r \in Requests, c \in Cookies, k \in Kinds, id \in Analyses \cup {None} :
              Arrive(r, c, k, id)
         \/ \E e \in [job : Analyses, host : Hosts] : EngineCompletes(e) \/ EngineReturns(e)
         \/ UNCHANGED <<sessions, host, job, analyses, work, request>>
    BY DEF Next, Expire, vars, seVars
  <1> QED
    BY <1>1, <1>2, <1>3, <1>4, <1>5, <1>6, <1>7, <1>8, <1>9, <1>10, <1>11 DEF Handle

(* The whole argument, for the theorems below.                             *)
WebInv == Types /\ OpInv /\ SessionInv /\ AskInv /\ KeptInv

LEMMA WebInvHolds == Spec => []WebInv
  <1>1. Init => OpInv
    BY DEF Init, OpInv, Idle, Early, Locked
  <1>2. Init => SessionInv /\ AskInv /\ KeptInv
    BY DEF Init, SessionInv, AskInv, AskOK, Asking, KeptInv, Started, Idle
  <1> QED
    BY <1>1, <1>2, TypesInit, TypesStep, OpStep, SessionStep, AskStep, KeptStep, PTL DEF Spec, WebInv

\* server.go: "Active jobs are never expired or replaced."  Whatever logins,
\* expiries and requests of other sessions come between, a job that an engine
\* was started for stays reachable, on an open connection, until it is complete.
THEOREM ActiveIsKept == Spec => []ActiveKept
  <1>1. WebInv => ActiveKept
    <2> SUFFICES ASSUME WebInv, NEW e \in Started, e.job \notin complete
                 PROVE  /\ e.host \notin closed
                        /\ \E c \in sessions : job[c] = e.job /\ host[c] = e.host
      BY DEF ActiveKept
    <2>1. /\ shown[e.job] \in sessions /\ shown[e.job] \in Cookies /\ e.host # None
          /\ job[shown[e.job]] = e.job /\ host[shown[e.job]] = e.host
      BY DEF WebInv, KeptInv
    <2> QED
      BY <2>1 DEF WebInv, SessionInv
  <1> QED
    BY <1>1, WebInvHolds, PTL

\* start: an engine runs on the connection its analysis examined, for the
\* browser the analysis was shown to, and no analysis is started twice.
THEOREM StartsAsReviewed == Spec => []StartedAsReviewed
  <1>1. WebInv => StartedAsReviewed
    BY DEF WebInv, KeptInv, SessionInv, StartedAsReviewed
  <1> QED
    BY <1>1, WebInvHolds, PTL
=============================================================================

------------------------------- MODULE WebServer -------------------------------
(***************************************************************************)
(* The web server (server.go): sessions that expire, the operation lock    *)
(* that every management request tries to take, the flag of a running      *)
(* engine, and the handlers between their critical sections.  What an      *)
(* engine and a rollback do on the host is ColdMigration, LiveMigration    *)
(* and Switch; what a control does to its job is JobSteps.                 *)
(***************************************************************************)
EXTENDS Integers, FiniteSets

CONSTANTS
    Cookies,        \* session ids; each is issued at most once
    Requests,       \* requests that may be in progress at the same time
    NoOne,          \* neither a session nor a request
    SessionLimit,   \* 16 in the code
    MaxHosts,       \* bound: connections that can be established
    MaxAnalyses     \* bound: ready reports

ASSUME WebAssumption ==
    /\ NoOne \notin Cookies \cup Requests
    /\ SessionLimit \in Nat \ {0} /\ MaxHosts \in Nat /\ MaxAnalyses \in Nat

None == 0
Hosts == 1..MaxHosts
Analyses == 1..MaxAnalyses

Kinds == {"read", "probe", "connect", "analyze", "start", "rollback"}

(* Where a handler is between two critical sections.                       *)
Mutating == {"connect.done", "analyze.done", "start.running", "start.go", "rollback.done"}
Labels == {"free", "auth", "begin", "probe", "connect", "analyze", "start", "rollback", "unlock"}
          \cup Mutating

VARIABLES
    sessions,   \* s.sessions: the cookies in the map
    issued,     \* the cookies ever handed out
    expired,    \* sessions whose expiry has passed
    probed,     \* sessions with a probed host key
    host,       \* session -> its connected client
    report,     \* session -> its ready analysis
    job,        \* session -> its job, named by the analysis it was made from
    hosts,      \* how many clients were created
    closed,     \* the clients that were closed
    analysed,   \* ready analysis -> the client it examined
    shown,      \* ready analysis -> the session whose browser got it
    complete,   \* the jobs that are complete
    op,         \* the request that holds s.op
    running,    \* s.running
    engines,    \* the engines' goroutines: which job on which client
    request     \* request -> its handler's state

seVars == <<sessions, issued, expired, probed, host, report, job, hosts, closed>>
analyses == <<analysed, shown>>
work == <<complete, running, engines>>
vars == <<seVars, analyses, work, op, request>>

Idle == [at |-> "free", kind |-> "read", cookie |-> NoOne, id |-> None, host |-> None]

TypeOK ==
    /\ sessions \subseteq issued /\ issued \subseteq Cookies
    /\ expired \subseteq issued /\ probed \subseteq issued
    /\ host \in [Cookies -> Hosts \cup {None}]
    /\ report \in [Cookies -> Analyses \cup {None}]
    /\ job \in [Cookies -> Analyses \cup {None}]
    /\ hosts \in 0..MaxHosts /\ closed \subseteq 1..hosts
    /\ analysed \in [Analyses -> Hosts \cup {None}]
    /\ shown \in [Analyses -> Cookies \cup {NoOne}]
    /\ complete \subseteq Analyses
    /\ op \in Requests \cup {NoOne} /\ running \in BOOLEAN
    /\ engines \subseteq [job : Analyses, host : Hosts]
    /\ request \in [Requests -> [at : Labels, kind : Kinds, cookie : Cookies \cup {NoOne},
                                 id : Analyses \cup {None}, host : Hosts \cup {None}]]
    /\ Cardinality(sessions) <= SessionLimit

Init ==
    /\ sessions = {} /\ issued = {} /\ expired = {} /\ probed = {}
    /\ host = [c \in Cookies |-> None] /\ report = [c \in Cookies |-> None]
    /\ job = [c \in Cookies |-> None] /\ hosts = 0 /\ closed = {}
    /\ analysed = [a \in Analyses |-> None] /\ shown = [a \in Analyses |-> NoOne]
    /\ complete = {} /\ op = NoOne /\ running = FALSE /\ engines = {}
    /\ request = [r \in Requests |-> Idle]

Active(c) == job[c] # None /\ job[c] \notin complete

(* closeHost, of every session in cs.                                      *)
CloseHosts(cs) ==
    /\ closed' = closed \cup {host[c] : c \in {d \in cs : host[d] # None}}
    /\ host' = [c \in Cookies |-> IF c \in cs THEN None ELSE host[c]]
    /\ report' = [c \in Cookies |-> IF c \in cs THEN None ELSE report[c]]

(***************************************************************************)
(* Signing in.  Expired sessions without an active job make room.  The     *)
(* token and the limit on failed logins are left out.                      *)
(***************************************************************************)
PurgeableByAge == {c \in sessions : c \in expired}
Purgeable == {c \in sessions : c \in expired /\ ~Active(c)}

RoomForOneMore == Cardinality(sessions \ Purgeable) <= SessionLimit
Room == Cardinality(sessions \ Purgeable) < SessionLimit

Login(c) ==
    /\ c \in Cookies \ issued
    /\ CloseHosts(Purgeable)
    /\ IF Room
       THEN sessions' = (sessions \ Purgeable) \cup {c} /\ issued' = issued \cup {c}
       ELSE sessions' = sessions \ Purgeable /\ UNCHANGED issued
    /\ UNCHANGED <<expired, probed, job, hosts, analyses, work, op, request>>

(***************************************************************************)
(* A request: auth looks the session up, then refreshes an active job's    *)
(* session or closes an expired one; begin takes the operation lock.  A    *)
(* start names an analysis that its browser has been shown.                *)
(***************************************************************************)
Moves(r, label) == request' = [request EXCEPT ![r].at = label]
Ends(r) == request' = [request EXCEPT ![r] = Idle]

Arrive(r, c, k, id) ==
    /\ request[r].at = "free" /\ c \in sessions
    /\ (k = "start" => id # None /\ shown[id] = c) /\ (k # "start" => id = None)
    /\ request' = [request EXCEPT ![r] = [at |-> "auth", kind |-> k, cookie |-> c,
                                          id |-> id, host |-> None]]
    /\ UNCHANGED <<seVars, analyses, work, op>>

Auth(r) ==
    LET c == request[r].cookie IN
    /\ request[r].at = "auth"
    /\ expired' = IF Active(c) THEN expired \ {c} ELSE expired
    /\ IF c \in expired'
       THEN CloseHosts({c}) /\ Ends(r)
       ELSE /\ UNCHANGED <<host, report, closed>>
            /\ IF request[r].kind = "read" THEN Ends(r) ELSE Moves(r, "begin")
    /\ UNCHANGED <<sessions, issued, probed, job, hosts, analyses, work, op>>

BeginAnyway(r) ==
    /\ request[r].at = "begin"
    /\ IF op = NoOne
       THEN op' = r /\ Moves(r, request[r].kind)
       ELSE UNCHANGED op /\ Ends(r)
    /\ UNCHANGED <<seVars, analyses, work>>
BeginKeepsLock(r) ==
    /\ request[r].at = "begin"
    /\ IF op = NoOne
       THEN op' = r /\ (IF running THEN Ends(r) ELSE Moves(r, request[r].kind))
       ELSE UNCHANGED op /\ Ends(r)
    /\ UNCHANGED <<seVars, analyses, work>>
Begin(r) ==
    /\ request[r].at = "begin"
    /\ IF op = NoOne /\ ~running
       THEN op' = r /\ Moves(r, request[r].kind)
       ELSE UNCHANGED op /\ Ends(r)
    /\ UNCHANGED <<seVars, analyses, work>>

(* A handler that holds the lock answers and lets it go.                   *)
Answers(r) == op' = NoOne /\ Ends(r)

(***************************************************************************)
(* The management requests, between their critical sections of se.mu.      *)
(***************************************************************************)
Probe(r) ==
    /\ request[r].at = "probe"
    /\ probed' \in {probed, probed \cup {request[r].cookie}}
    /\ Answers(r)
    /\ UNCHANGED <<sessions, issued, expired, host, report, job, hosts, closed, analyses, work>>

(* The key may not be confirmed, or have been probed over 10 minutes ago.  *)
Connect(r) ==
    /\ request[r].at = "connect"
    /\ \/ request[r].cookie \in probed /\ Moves(r, "connect.done") /\ UNCHANGED op
       \/ Answers(r)
    /\ UNCHANGED <<seVars, analyses, work>>

ConnectDone(r) ==
    LET c == request[r].cookie IN
    /\ request[r].at = "connect.done"
    /\ \/ /\ hosts < MaxHosts /\ hosts' = hosts + 1
          /\ closed' = closed \cup ({host[c]} \ {None})
          /\ host' = [host EXCEPT ![c] = hosts + 1]
          /\ report' = [report EXCEPT ![c] = None]
          /\ job' = [job EXCEPT ![c] = None]
       \/ UNCHANGED <<hosts, closed, host, report, job>>
    /\ Answers(r)
    /\ UNCHANGED <<sessions, issued, expired, probed, analyses, work>>

Analyze(r) ==
    LET c == request[r].cookie IN
    /\ request[r].at = "analyze"
    /\ report' = [report EXCEPT ![c] = None]
    /\ IF host[c] = None
       THEN Answers(r)
       ELSE /\ request' = [request EXCEPT ![r].at = "analyze.done", ![r].host = host[c]]
            /\ UNCHANGED op
    /\ UNCHANGED <<sessions, issued, expired, probed, host, job, hosts, closed, analyses, work>>

(* An analysis that fails, or is not ready, offers nothing to start.       *)
AnalyzeDone(r) ==
    LET c == request[r].cookie IN
    /\ request[r].at = "analyze.done"
    /\ \/ \E a \in Analyses :
            /\ shown[a] = NoOne /\ \A b \in Analyses : b < a => shown[b] # NoOne
            /\ report' = [report EXCEPT ![c] = a]
            /\ analysed' = [analysed EXCEPT ![a] = request[r].host]
            /\ shown' = [shown EXCEPT ![a] = c]
       \/ UNCHANGED <<report, analyses>>
    /\ Answers(r)
    /\ UNCHANGED <<sessions, issued, expired, probed, host, job, hosts, closed, work>>

StartAnyReport(r) ==
    LET c == request[r].cookie IN
    /\ request[r].at = "start"
    /\ IF host[c] # None /\ request[r].id # None
       THEN /\ job' = [job EXCEPT ![c] = request[r].id]
            /\ report' = [report EXCEPT ![c] = None]
            /\ request' = [request EXCEPT ![r].at = "start.running", ![r].host = host[c]]
            /\ UNCHANGED op
       ELSE Answers(r) /\ UNCHANGED <<job, report>>
    /\ UNCHANGED <<sessions, issued, expired, probed, host, hosts, closed, analyses, work>>
Start(r) ==
    LET c == request[r].cookie IN
    /\ request[r].at = "start"
    /\ IF host[c] # None /\ report[c] # None /\ report[c] = request[r].id
       THEN /\ job' = [job EXCEPT ![c] = report[c]]
            /\ report' = [report EXCEPT ![c] = None]
            /\ request' = [request EXCEPT ![r].at = "start.running", ![r].host = host[c]]
            /\ UNCHANGED op
       ELSE Answers(r) /\ UNCHANGED <<job, report>>
    /\ UNCHANGED <<sessions, issued, expired, probed, host, hosts, closed, analyses, work>>

StartRunning(r) ==
    /\ request[r].at = "start.running"
    /\ running' = TRUE
    /\ Moves(r, "start.go")
    /\ UNCHANGED <<seVars, analyses, complete, engines, op>>

StartGo(r) ==
    /\ request[r].at = "start.go"
    /\ engines' = engines \cup {[job |-> request[r].id, host |-> request[r].host]}
    /\ Moves(r, "unlock")
    /\ UNCHANGED <<seVars, analyses, complete, running, op>>

Unlock(r) ==
    /\ request[r].at = "unlock"
    /\ Answers(r)
    /\ UNCHANGED <<seVars, analyses, work>>

Rollback(r) ==
    LET c == request[r].cookie IN
    /\ request[r].at = "rollback"
    /\ IF job[c] # None /\ host[c] # None
       THEN /\ request' = [request EXCEPT ![r].at = "rollback.done", ![r].host = host[c],
                                          ![r].id = job[c]]
            /\ UNCHANGED op
       ELSE Answers(r)
    /\ UNCHANGED <<seVars, analyses, work>>

RollbackDone(r) ==
    /\ request[r].at = "rollback.done"
    /\ Answers(r)
    /\ UNCHANGED <<seVars, analyses, work>>

Handle(r) ==
    \/ Auth(r) \/ Begin(r) \/ Probe(r) \/ Connect(r) \/ ConnectDone(r) \/ Analyze(r)
    \/ AnalyzeDone(r) \/ Start(r) \/ StartRunning(r) \/ StartGo(r) \/ Unlock(r)
    \/ Rollback(r) \/ RollbackDone(r)

(***************************************************************************)
(* The engine's goroutine: its job completes, then it clears the flag.     *)
(***************************************************************************)
EngineCompletes(e) ==
    /\ e \in engines /\ e.job \notin complete
    /\ complete' = complete \cup {e.job}
    /\ UNCHANGED <<seVars, analyses, running, engines, op, request>>

EngineReturns(e) ==
    /\ e \in engines /\ e.job \in complete
    /\ engines' = engines \ {e} /\ running' = FALSE
    /\ UNCHANGED <<seVars, analyses, complete, op, request>>

(***************************************************************************)
(* Time passes: 12 hours since the login, or since an active job's request.*)
(***************************************************************************)
Expire(c) ==
    /\ c \in issued \ expired
    /\ expired' = expired \cup {c}
    /\ UNCHANGED <<sessions, issued, probed, host, report, job, hosts, closed, analyses, work,
                   op, request>>

Next ==
    \/ \E c \in Cookies : Login(c) \/ Expire(c)
    \/ \E r \in Requests :
         Handle(r) \/ \E c \in Cookies, k \in Kinds, id \in Analyses \cup {None} : Arrive(r, c, k, id)
    \/ \E a \in Analyses, h \in Hosts :
         LET e == [job |-> a, host |-> h] IN EngineCompletes(e) \/ EngineReturns(e)

(* Handlers run; every host operation is bounded by its timeout, and a job *)
(* that is complete lets its engine return.                                *)
Spec ==
    /\ Init /\ [][Next]_vars
    /\ \A r \in Requests : WF_vars(Handle(r))
    /\ \A a \in Analyses, h \in Hosts : WF_vars(EngineReturns([job |-> a, host |-> h]))

(***************************************************************************)
(* Properties.                                                             *)
(***************************************************************************)
\* Whatever changes a host, an engine or a handler that connects, analyses or
\* rolls back, is alone, also while a start sets the flag before its goroutine
\* runs, and an engine clears it while other requests arrive.
OneMutator ==
    /\ \A r, q \in Requests : {request[r].at, request[q].at} \subseteq Mutating => r = q
    /\ \A e, f \in engines : e = f
    /\ engines # {} => running /\ \A r \in Requests : request[r].at \notin Mutating

\* server.go: "Active jobs are never expired or replaced."  The session of a
\* job that an engine has been started for stays in the map, with that job and
\* an open connection, so the operator can still stop the job.
Started ==
    engines \cup {[job |-> request[r].id, host |-> request[r].host] :
                    r \in {q \in Requests : request[q].at \in {"start.running", "start.go"}}}
ActiveKept ==
    \A e \in Started : e.job \notin complete =>
        /\ e.host \notin closed
        /\ \E c \in sessions : job[c] = e.job /\ host[c] = e.host

\* An engine runs on the connection its analysis examined, for the browser the
\* analysis was shown to, and no analysis is started twice.
StartedAsReviewed ==
    /\ \A e \in Started : e.host = analysed[e.job] /\ job[shown[e.job]] = e.job
    /\ \A c, d \in Cookies : job[c] # None /\ job[c] = job[d] => c = d

\* The operation lock comes free again, and a complete job's engine lets the
\* next management request in.
ComesFree ==
    /\ (op # NoOne) ~> (op = NoOne)
    /\ (\E e \in engines : e.job \in complete) ~> ~running
=============================================================================

----------------------------- MODULE AppServer -----------------------------
(***************************************************************************)
(* The app server of pkg/app/app.go: one goroutine on the `app` tomb owns  *)
(* the `services` map and serves requests arriving on unbuffered channels. *)
(* Clients call RegisterService, UnregisterService and the queries        *)
(* (RegisteredServiceIds, GetService, LogLevel, SetLogLevel,               *)
(* SetServiceLogLevel); registerService                                    *)
(* starts a watcher goroutine on each registered service's tomb, which     *)
(* asks the server to unregister the service's id once the service is      *)
(* dying.  When the app is dying the server runs shutdown: it kills every  *)
(* service in the map and waits for each one to be dead.                   *)
(*                                                                         *)
(* A service is a tomb.Tomb whose tracked goroutines are its own main      *)
(* goroutine and the watchers; it is dead once all of them have returned,  *)
(* and Go on a dead tomb panics.                                           *)
(***************************************************************************)
EXTENDS Naturals, FiniteSets

CONSTANTS
    Clients,    \* goroutines calling the app API
    Svcs,       \* service objects
    IdOf,       \* IdOf[s]: the ServiceID of service s
    MaxOps,     \* bound on the calls each client makes
    None, NoSvc

Ids == {IdOf[s] : s \in Svcs}

ASSUME IdOf \in [Svcs -> Ids] /\ MaxOps \in Nat /\ NoSvc \notin Svcs
ASSUME None \notin Clients

VARIABLES
    appDying,   \* app.Dying() is closed
    srv,        \* the server goroutine: "loop", "dupReply", "wait", "done", "crashed"
    sreq,       \* the client whose request the server is answering
    services,   \* the services map
    svc,        \* svc[s]: the tomb of service s
    mainUp,     \* mainUp[s]: the service's own goroutine has not returned
    wW,         \* wW[s]: watchers of s in their first select
    wU,         \* wU[s]: watchers of s offering the id on unregisterServiceChan
    cpc, carg,  \* client position and argument (a service or an id)
    ckind,      \* the query a client is making
    resp,       \* resp[c]: the server's answer to a register request ("nil"),
                \* or the service getService answers a GetService with
    ops,        \* ops[c]: calls client c has made (bounded by MaxOps)
    regd        \* history: services whose registration succeeded and that were
                \* not unregistered since, by UnregisterService or, once they
                \* are no longer alive, by their own watcher

vars == <<appDying, srv, sreq, services, svc, mainUp, wW, wU, cpc, carg, ckind, resp, ops, regd>>
svcVars == <<svc, mainUp, wW, wU>>

Init ==
    /\ appDying = FALSE
    /\ srv = "loop" /\ sreq = None
    /\ services = [i \in Ids |-> NoSvc]
    /\ svc = [s \in Svcs |-> "alive"]
    /\ mainUp = [s \in Svcs |-> TRUE]
    /\ wW = [s \in Svcs |-> 0] /\ wU = [s \in Svcs |-> 0]
    /\ cpc = [c \in Clients |-> "idle"] /\ carg = [c \in Clients |-> NoSvc]
    /\ ckind = [c \in Clients |-> "ask"]
    /\ resp = [c \in Clients |-> "none"]
    /\ ops = [c \in Clients |-> 0]
    /\ regd = {}

\* The tomb state after one of its goroutines returned: dead once none is left.
Settle(s, m, w, u) ==
    /\ mainUp' = [mainUp EXCEPT ![s] = m]
    /\ wW' = [wW EXCEPT ![s] = w]
    /\ wU' = [wU EXCEPT ![s] = u]
    /\ svc' = [svc EXCEPT ![s] = IF ~m /\ w = 0 /\ u = 0 THEN "dead" ELSE @]

\* req.Service.Go(watcher) at the end of registerService; tomb.Go panics
\* on a dead tomb, which crashes the server goroutine.
GoWatcher(s) ==
    IF svc[s] = "dead"
    THEN srv' = "crashed" /\ UNCHANGED <<wW, sreq>>
    ELSE srv' = "loop" /\ sreq' = None /\ wW' = [wW EXCEPT ![s] = @ + 1]

-----------------------------------------------------------------------------
(* Clients *)

\* RegisterService: the nil and Alive checks, then the send to the server.
RegisterService(c, s) ==
    /\ cpc[c] = "idle" /\ ops[c] < MaxOps
    /\ ops' = [ops EXCEPT ![c] = @ + 1]
    /\ IF svc[s] = "alive"
       THEN cpc' = [cpc EXCEPT ![c] = "reg"] /\ carg' = [carg EXCEPT ![c] = s]
       ELSE UNCHANGED <<cpc, carg>>     \* ErrServiceNotAlive
    /\ UNCHANGED <<appDying, srv, sreq, services, svcVars, ckind, resp, regd>>

\* UnregisterService(id)
UnregisterService(c, i) ==
    /\ cpc[c] = "idle" /\ ops[c] < MaxOps
    /\ ops' = [ops EXCEPT ![c] = @ + 1]
    /\ cpc' = [cpc EXCEPT ![c] = "unreg"] /\ carg' = [carg EXCEPT ![c] = i]
    /\ UNCHANGED <<appDying, srv, sreq, services, svcVars, ckind, resp, regd>>

\* The queries, up to their send to the server.  Their answers (ids, log
\* levels) are not modelled, so RegisteredServiceIds, LogLevel and
\* SetServiceLogLevel(id, level), which all wait for an answer, are one
\* kind, "ask"; SetLogLevel(level) is "set".
Queries == {"ask", "set"}

Query(c, k) ==
    /\ cpc[c] = "idle" /\ ops[c] < MaxOps
    /\ ops' = [ops EXCEPT ![c] = @ + 1]
    /\ cpc' = [cpc EXCEPT ![c] = "q"]
    /\ ckind' = [ckind EXCEPT ![c] = k]
    /\ UNCHANGED <<appDying, srv, sreq, services, svcVars, carg, resp, regd>>

\* GetService(id): the request is sent on getServiceChan and the answer,
\* services[id], received in a second select; a nil answer is returned as
\* ErrServiceNotRegistered.
GetService(c, i) ==
    /\ cpc[c] = "idle" /\ ops[c] < MaxOps
    /\ ops' = [ops EXCEPT ![c] = @ + 1]
    /\ cpc' = [cpc EXCEPT ![c] = "q"] /\ carg' = [carg EXCEPT ![c] = i]
    /\ ckind' = [ckind EXCEPT ![c] = "get"]
    /\ UNCHANGED <<appDying, srv, sreq, services, svcVars, resp, regd>>

\* Either select of a call takes the app.Dying() case (ErrAppNotAlive, or
\* LogLevel's unsynchronised read of appLogLevel).  Register/Unregister:
\* the app.Dying() case and returns ErrAppNotAlive.  A server blocked on
\* sending this request's answer then waits on a channel nobody reads.
ClientDying(c) ==
    /\ cpc[c] \in {"reg", "regWait", "unreg", "q", "qWait"} /\ appDying
    /\ cpc' = [cpc EXCEPT ![c] = "idle"]
    /\ resp' = [resp EXCEPT ![c] = "none"]
    /\ sreq' = IF sreq = c THEN None ELSE sreq
    /\ UNCHANGED <<appDying, srv, services, svcVars, carg, ckind, ops, regd>>

\* RegisterService receives from the closed response channel: nil.
RegisterDone(c) ==
    /\ cpc[c] = "regWait" /\ resp[c] = "nil"
    /\ cpc' = [cpc EXCEPT ![c] = "idle"]
    /\ resp' = [resp EXCEPT ![c] = "none"]
    /\ UNCHANGED <<appDying, srv, sreq, services, svcVars, carg, ckind, ops, regd>>

-----------------------------------------------------------------------------
(* The server goroutine (runAppServer); each select case is an action. *)

SrvRegisterNoClose(c) ==
    LET s == carg[c] IN
    /\ srv = "loop" /\ cpc[c] = "reg"
    /\ cpc' = [cpc EXCEPT ![c] = "regWait"]
    /\ IF services[IdOf[s]] # NoSvc
       THEN srv' = "dupReply" /\ sreq' = c /\ UNCHANGED <<services, wW, regd>>
       ELSE /\ services' = [services EXCEPT ![IdOf[s]] = s]
            /\ regd' = regd \cup {s}
            /\ GoWatcher(s)
    /\ UNCHANGED <<appDying, svc, mainUp, wU, carg, ckind, resp, ops>>

\* case req := <-registerServiceChan: registerService(req).  A registered
\* id blocks the server on the send of ErrServiceAlreadyRegistered;
\* otherwise the service is stored, the response closed and the watcher
\* started.
SrvRegister(c) ==
    LET s == carg[c] IN
    /\ srv = "loop" /\ cpc[c] = "reg"
    /\ cpc' = [cpc EXCEPT ![c] = "regWait"]
    /\ IF services[IdOf[s]] # NoSvc
       THEN srv' = "dupReply" /\ sreq' = c /\ UNCHANGED <<services, wW, regd, resp>>
       ELSE /\ services' = [services EXCEPT ![IdOf[s]] = s]
            /\ resp' = [resp EXCEPT ![c] = "nil"]
            /\ regd' = regd \cup {s}
            /\ GoWatcher(s)
    /\ UNCHANGED <<appDying, svc, mainUp, wU, carg, ckind, ops>>

\* The client receives ErrServiceAlreadyRegistered; registerService does
\* not return, so it goes on to overwrite the entry, close the response
\* and start a second watcher.
SrvDuplicate ==
    LET c == sreq
        s == carg[sreq] IN
    /\ srv = "dupReply" /\ sreq # None /\ cpc[c] = "regWait"
    /\ cpc' = [cpc EXCEPT ![c] = "idle"]
    /\ services' = [services EXCEPT ![IdOf[s]] = s]
    /\ GoWatcher(s)
    /\ UNCHANGED <<appDying, svc, mainUp, wU, carg, ckind, resp, ops, regd>>

\* case id := <-unregisterServiceChan from UnregisterService.
SrvUnregister(c) ==
    LET i == carg[c] IN
    /\ srv = "loop" /\ cpc[c] = "unreg"
    /\ cpc' = [cpc EXCEPT ![c] = "idle"]
    /\ services' = [services EXCEPT ![i] = NoSvc]
    /\ regd' = {s \in regd : IdOf[s] # i}
    /\ UNCHANGED <<appDying, srv, sreq, svcVars, carg, ckind, resp, ops>>

\* The query cases.  setLogLevelChan: the level is stored, SetLogLevel has
\* returned.  The others look the registry up (getService: services[id];
\* setServiceLogLevel: sets the service's level if the id is registered,
\* else answers ErrServiceNotRegistered) and then answer on the request's
\* unbuffered channel in a select with app.Dying().
SrvQuery(c) ==
    /\ srv = "loop" /\ cpc[c] = "q"
    /\ IF ckind[c] = "set"
       THEN cpc' = [cpc EXCEPT ![c] = "idle"] /\ UNCHANGED <<srv, sreq>>
       ELSE cpc' = [cpc EXCEPT ![c] = "qWait"] /\ srv' = "reply" /\ sreq' = c
    /\ resp' = IF ckind[c] = "get" THEN [resp EXCEPT ![c] = services[carg[c]]]
                                   ELSE resp
    /\ UNCHANGED <<appDying, services, svcVars, carg, ckind, ops, regd>>

\* case req.response <- ...: the client receives the answer and returns.
SrvReply ==
    /\ srv = "reply" /\ sreq # None /\ cpc[sreq] = "qWait"
    /\ cpc' = [cpc EXCEPT ![sreq] = "idle"]
    /\ resp' = [resp EXCEPT ![sreq] = "none"]
    /\ srv' = "loop" /\ sreq' = None
    /\ UNCHANGED <<appDying, services, svcVars, carg, ckind, ops, regd>>

\* case <-app.Dying(): the answer is dropped and the loop goes on.
SrvReplyDying ==
    /\ srv = "reply" /\ appDying
    /\ srv' = "loop" /\ sreq' = None
    /\ UNCHANGED <<appDying, services, svcVars, cpc, carg, ckind, resp, ops, regd>>

\* case <-app.Dying(): shutdown kills every service in the map ...
SrvShutdown ==
    /\ srv = "loop" /\ appDying
    /\ svc' = [s \in Svcs |->
                 IF svc[s] = "alive" /\ \E i \in Ids : services[i] = s
                 THEN "dying" ELSE svc[s]]
    /\ srv' = "wait"
    /\ UNCHANGED <<appDying, sreq, services, mainUp, wW, wU, cpc, carg, ckind, resp, ops, regd>>

\* ... waits for each of them to be dead, and empties the map.
SrvShutdownDone ==
    /\ srv = "wait"
    /\ \A i \in Ids : services[i] # NoSvc => svc[services[i]] = "dead"
    /\ srv' = "done"
    /\ services' = [i \in Ids |-> NoSvc]
    /\ regd' = {}
    /\ UNCHANGED <<appDying, sreq, svcVars, cpc, carg, ckind, resp, ops>>

-----------------------------------------------------------------------------
(* The watcher goroutine of registerService, one per registration. *)

\* select case <-app.Dying(): return
WatchAppDying(s) ==
    /\ wW[s] > 0 /\ appDying
    /\ Settle(s, mainUp[s], wW[s] - 1, wU[s])
    /\ UNCHANGED <<appDying, srv, sreq, services, cpc, carg, ckind, resp, ops, regd>>

\* Mutant: the watcher returns on Dying without unregistering the id.
WatchSvcDyingReturns(s) ==
    /\ wW[s] > 0 /\ svc[s] # "alive"
    /\ Settle(s, mainUp[s], wW[s] - 1, wU[s])
    /\ UNCHANGED <<appDying, srv, sreq, services, cpc, carg, ckind, resp, ops, regd>>

\* select case <-req.Service.Dying(): offer the id to the server.
WatchSvcDying(s) ==
    /\ wW[s] > 0 /\ svc[s] # "alive"
    /\ wW' = [wW EXCEPT ![s] = @ - 1] /\ wU' = [wU EXCEPT ![s] = @ + 1]
    /\ UNCHANGED <<appDying, srv, sreq, services, svc, mainUp, cpc, carg, ckind, resp, ops, regd>>

WatchUnregisterNoGuard(s) ==
    /\ srv = "loop"
    /\ services' = [services EXCEPT ![IdOf[s]] = NoSvc]
    /\ regd' = IF svc[s] # "alive" THEN regd \ {s} ELSE regd
    /\ Settle(s, mainUp[s], wW[s], wU[s] - 1)
    /\ UNCHANGED <<appDying, srv, sreq, cpc, carg, ckind, resp, ops>>

\* unregisterServiceChan <- id meets the server, which deletes the id's
\* entry, whichever service it holds; the watcher then returns.
WatchUnregister(s) ==
    /\ wU[s] > 0 /\ srv = "loop"
    /\ services' = [services EXCEPT ![IdOf[s]] = NoSvc]
    /\ regd' = IF svc[s] # "alive" THEN regd \ {s} ELSE regd
    /\ Settle(s, mainUp[s], wW[s], wU[s] - 1)
    /\ UNCHANGED <<appDying, srv, sreq, cpc, carg, ckind, resp, ops>>

\* The inner select's app.Dying() case.
WatchUnregAppDying(s) ==
    /\ wU[s] > 0 /\ appDying
    /\ Settle(s, mainUp[s], wW[s], wU[s] - 1)
    /\ UNCHANGED <<appDying, srv, sreq, services, cpc, carg, ckind, resp, ops, regd>>

-----------------------------------------------------------------------------
(* Environment: services are killed and return; the app is killed. *)

KillService(s) ==
    /\ svc[s] = "alive"
    /\ svc' = [svc EXCEPT ![s] = "dying"]
    /\ UNCHANGED <<appDying, srv, sreq, services, mainUp, wW, wU, cpc, carg, ckind, resp, ops, regd>>

MainExit(s) ==
    /\ mainUp[s] /\ svc[s] = "dying"
    /\ Settle(s, FALSE, wW[s], wU[s])
    /\ UNCHANGED <<appDying, srv, sreq, services, cpc, carg, ckind, resp, ops, regd>>

\* Kill(), or SIGTERM received by the server.
KillApp ==
    /\ ~appDying
    /\ appDying' = TRUE
    /\ UNCHANGED <<srv, sreq, services, svcVars, cpc, carg, ckind, resp, ops, regd>>

\* runAppServer: one goroutine on the app tomb loops over a select of
\* app.Dying() (shutdown), the request channels (registerService,
\* unregister, the queries) and SIGTERM, whose case is app.Kill(nil): the
\* KillApp step.
ServerStep ==
    \/ \E c \in Clients : SrvRegister(c) \/ SrvUnregister(c) \/ SrvQuery(c)
    \/ SrvReply \/ SrvReplyDying
    \/ SrvDuplicate \/ SrvShutdown \/ SrvShutdownDone

WatcherStep(s) ==
    WatchAppDying(s) \/ WatchSvcDying(s) \/ WatchUnregister(s) \/ WatchUnregAppDying(s)

\* A panic in the server goroutine ends the process: nothing runs after it.
Next ==
    /\ srv # "crashed"
    /\ \/ \E c \in Clients :
            \/ \E s \in Svcs : RegisterService(c, s)
            \/ \E i \in Ids : UnregisterService(c, i)
            \/ \E k \in Queries : Query(c, k)
            \/ \E i \in Ids : GetService(c, i)
            \/ ClientDying(c) \/ RegisterDone(c)
       \/ ServerStep
       \/ \E s \in Svcs : WatcherStep(s) \/ KillService(s) \/ MainExit(s)
       \/ KillApp

(***************************************************************************)
(* Goroutines are scheduled fairly, and Go's select eventually takes each  *)
(* case that stays ready, so every server case is strongly fair.  A killed *)
(* service's goroutine returns.  Calls, kills and KillApp are not forced.  *)
(***************************************************************************)
Fairness ==
    /\ \A c \in Clients : SF_vars(SrvRegister(c)) /\ SF_vars(SrvUnregister(c))
                          /\ SF_vars(SrvQuery(c))
                          /\ WF_vars(RegisterDone(c)) /\ WF_vars(ClientDying(c))
    /\ WF_vars(SrvReply \/ SrvReplyDying)
    /\ SF_vars(SrvDuplicate) /\ SF_vars(SrvShutdown) /\ WF_vars(SrvShutdownDone)
    /\ \A s \in Svcs : WF_vars(WatcherStep(s)) /\ WF_vars(MainExit(s))

Spec == Init /\ [][Next]_vars /\ Fairness

-----------------------------------------------------------------------------
TypeOK ==
    /\ appDying \in BOOLEAN
    /\ srv \in {"loop", "dupReply", "reply", "wait", "done", "crashed"}
    /\ sreq \in Clients \cup {None}
    /\ services \in [Ids -> Svcs \cup {NoSvc}]
    /\ svc \in [Svcs -> {"alive", "dying", "dead"}] /\ mainUp \in [Svcs -> BOOLEAN]
    /\ wW \in [Svcs -> Nat] /\ wU \in [Svcs -> Nat]
    /\ cpc \in [Clients -> {"idle", "reg", "regWait", "unreg", "q", "qWait"}]
    /\ ckind \in [Clients -> Queries \cup {"get"}]
    /\ carg \in [Clients -> Svcs \cup Ids \cup {NoSvc}]
    /\ resp \in [Clients -> {"none", "nil"} \cup Svcs \cup {NoSvc}]
    /\ ops \in [Clients -> 0..MaxOps] /\ regd \subseteq Svcs

\* A service whose registration succeeded is what the map holds for its id
\* until UnregisterService for that id is served or its own watcher
\* unregisters it: a later registration answered
\* ErrServiceAlreadyRegistered, or the watcher of another service with the
\* same id, must not replace or remove it (spec section 6: lookup returns
\* the registered service until it is unregistered).
RegisteredStays == \A s \in regd : services[IdOf[s]] = s

\* While the app is alive, GetService never hands a client a dead service:
\* registerService starts the watcher with req.Service.Go, so the service's
\* tomb is not dead before the watcher has had the server delete its id.
GetServiceNeverAnswersDead ==
    (srv = "reply" /\ sreq # None /\ resp[sreq] \in Svcs /\ ~appDying)
        => svc[resp[sreq]] # "dead"

\* Every RegisterService and UnregisterService call returns, unless the
\* process has crashed.
ClientCallsReturn ==
    \A c \in Clients : cpc[c] # "idle" ~> (cpc[c] = "idle" \/ srv = "crashed")

\* The server never stays blocked answering a query: the answer is taken by
\* the client, or dropped once the app is dying (the client may have
\* returned ErrAppNotAlive and will never read it).
RepliesNeverStrand == srv = "reply" ~> srv # "reply"

\* Once the app is dying, the server runs shutdown to completion (unless
\* it crashed): it is never left blocked on a request.
ShutdownCompletes == appDying ~> srv \in {"done", "crashed"}

\* The server goroutine never panics: registerService never calls Go on
\* the tomb of a service that is already dead.
NoServerPanic == srv # "crashed"
=============================================================================

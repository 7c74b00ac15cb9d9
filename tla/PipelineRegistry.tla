-------------------------- MODULE PipelineRegistry --------------------------
(***************************************************************************)
(* Construction and registration of a pipeline (pipeline.go).  Callers run *)
(* StartPipeline, serialised by startPipelineMutex, for a service that may *)
(* die, and later be replaced by a new incarnation with the same           *)
(* ServiceID, at any time.  The registry is keyed by PipelineID, which is  *)
(* the ServiceID, so all incarnations share one registry slot.             *)
(*                                                                         *)
(* The service is an app.Service, a tomb.Tomb: Alive() is false once it   *)
(* is dying, Go panics once every tracked goroutine has returned, and the  *)
(* tomb is dead when the last tracked goroutine returns.  Its main         *)
(* goroutine and the pipeline workers are the tracked goroutines; each     *)
(* pipeline starts NWorkers of them.  The goroutine that unregisters the   *)
(* pipeline is a plain goroutine.                                          *)
(***************************************************************************)
EXTENDS Naturals, FiniteSets

CONSTANTS
    Callers,    \* goroutines calling StartPipeline / StartPipelineFromConfig
    MaxInc,     \* number of service incarnations sharing the ServiceID
    NWorkers,   \* worker goroutines a pipeline starts with service.Go
    AppCanDie,  \* whether the app tomb may be killed in this model
    MaxCalls,   \* bound on the calls each caller makes
    None

ASSUME MaxInc \in Nat \ {0} /\ NWorkers \in Nat \ {0} /\ None \notin Callers
ASSUME AppCanDie \in BOOLEAN /\ MaxCalls \in Nat \ {0}

Incs == 1..MaxInc

VARIABLES
    svc,        \* svc[k]: state of incarnation k's tomb
    live,       \* live[k]: goroutines tracked by incarnation k's tomb
    cur,        \* the newest incarnation
    appDying,   \* app.Dying() is closed
    mutex,      \* holder of startPipelineMutex
    registry,   \* incarnation whose pipeline is in `pipelines`, 0 if none
    nBuilt,     \* nBuilt[k]: pipelines whose workers run on incarnation k
    watch,      \* incarnations whose unregister goroutine is still waiting
    pc, tgt, res,
    calls       \* calls[c]: calls caller c has started (bounded by MaxCalls)

vars == <<svc, live, cur, appDying, mutex, registry, nBuilt, watch, pc, tgt, res, calls>>

Init ==
    /\ svc = [k \in Incs |-> IF k = 1 THEN "alive" ELSE "none"]
    /\ live = [k \in Incs |-> IF k = 1 THEN 1 ELSE 0]
    /\ cur = 1
    /\ appDying = FALSE
    /\ mutex = None
    /\ registry = 0
    /\ nBuilt = [k \in Incs |-> 0]
    /\ watch = {}
    /\ pc = [c \in Callers |-> "idle"]
    /\ tgt = [c \in Callers |-> 0]
    /\ res = [c \in Callers |-> 0]
    /\ calls = [c \in Callers |-> 0]

Alive(k) == svc[k] = "alive"

\* GetPipeline: the registered pipeline, or nil (0).
GetPipeline == registry

\* registerPipeline / unregisterPipeline: a write of the pipelines map under
\* pipelineMutex, keyed by the PipelineID, which every incarnation of the
\* service shares; the delete removes whichever pipeline the id maps to.
registerPipeline(p) == registry' = p

unregisterPipeline == registry' = 0

\* A call returns `p` from StartPipeline's early return.
Return(c, p) == pc' = [pc EXCEPT ![c] = "done"] /\ res' = [res EXCEPT ![c] = p]

PanicKeepsLock(c) ==
    /\ pc' = [pc EXCEPT ![c] = "panicked"]
    /\ UNCHANGED <<mutex, res>>

\* A panic; the deferred Unlock releases startPipelineMutex if held.
Panic(c) ==
    /\ pc' = [pc EXCEPT ![c] = "panicked"]
    /\ mutex' = IF mutex = c THEN None ELSE mutex
    /\ UNCHANGED res

(***************************************************************************)
(* StartPipelineFromConfig: an unlocked lookup, the Alive check, then      *)
(* StartPipeline.  The caller holds any incarnation created so far.        *)
(***************************************************************************)
FromConfig(c) ==
    /\ pc[c] = "idle"
    /\ calls[c] < MaxCalls /\ calls' = [calls EXCEPT ![c] = @ + 1]
    /\ \E k \in 1..cur :
         /\ tgt' = [tgt EXCEPT ![c] = k]
         /\ \/ GetPipeline # 0 /\ Return(c, GetPipeline) /\ UNCHANGED mutex
            \/ GetPipeline = 0 /\ ~Alive(k) /\ Panic(c)
            \/ GetPipeline = 0 /\ Alive(k) /\ pc' = [pc EXCEPT ![c] = "lock"]
                 /\ UNCHANGED <<mutex, res>>
    /\ UNCHANGED <<svc, live, cur, appDying, registry, nBuilt, watch>>

\* StartPipeline called directly.
Call(c) ==
    /\ pc[c] = "idle"
    /\ calls[c] < MaxCalls /\ calls' = [calls EXCEPT ![c] = @ + 1]
    /\ \E k \in 1..cur : tgt' = [tgt EXCEPT ![c] = k]
    /\ pc' = [pc EXCEPT ![c] = "lock"]
    /\ UNCHANGED <<svc, live, cur, appDying, mutex, registry, nBuilt, watch, res>>

LockNoExclusion(c) ==
    /\ pc[c] = "lock"
    /\ mutex' = c
    /\ pc' = [pc EXCEPT ![c] = "lookup"]
    /\ UNCHANGED <<svc, live, cur, appDying, registry, nBuilt, watch, tgt, res, calls>>

\* startPipelineMutex.Lock()
Lock(c) ==
    /\ pc[c] = "lock"
    /\ mutex = None
    /\ mutex' = c
    /\ pc' = [pc EXCEPT ![c] = "lookup"]
    /\ UNCHANGED <<svc, live, cur, appDying, registry, nBuilt, watch, tgt, res, calls>>

\* The lookup under the lock; the early return runs the deferred Unlock.
Lookup(c) ==
    /\ pc[c] = "lookup"
    /\ \/ GetPipeline # 0 /\ Return(c, GetPipeline) /\ mutex' = None
       \/ GetPipeline = 0 /\ pc' = [pc EXCEPT ![c] = "check"]
            /\ UNCHANGED <<mutex, res>>
    /\ UNCHANGED <<svc, live, cur, appDying, registry, nBuilt, watch, tgt, calls>>

\* checkArgs: panics unless service.Alive().
Check(c) ==
    /\ pc[c] = "check"
    /\ \/ ~Alive(tgt[c]) /\ Panic(c)
       \/ Alive(tgt[c]) /\ pc' = [pc EXCEPT ![c] = "spawn"]
            /\ UNCHANGED <<mutex, res>>
    /\ UNCHANGED <<svc, live, cur, appDying, registry, nBuilt, watch, tgt, calls>>

(***************************************************************************)
(* build: one service.Go per worker, as one step.  A Go on a dead tomb     *)
(* panics.  Between two Go calls the tomb may be killed and the workers    *)
(* already started may return, so a later Go can also panic.  That is the *)
(* same panic, with startPipelineMutex held, as a failing first Go.        *)
(***************************************************************************)
Spawn(c) ==
    LET k == tgt[c] IN
    /\ pc[c] = "spawn"
    /\ \/ svc[k] = "dead" /\ Panic(c)
            /\ UNCHANGED <<live, nBuilt>>
       \/ svc[k] # "dead"
            /\ live' = [live EXCEPT ![k] = @ + NWorkers]
            /\ nBuilt' = [nBuilt EXCEPT ![k] = @ + 1]
            /\ pc' = [pc EXCEPT ![c] = "watch"]
            /\ UNCHANGED <<mutex, res>>
    /\ UNCHANGED <<svc, cur, appDying, registry, watch, tgt, calls>>

\* go func() { defer unregisterPipeline(id); select Dying ... }()
StartWatcher(c) ==
    /\ pc[c] = "watch"
    /\ watch' = watch \cup {tgt[c]}
    /\ pc' = [pc EXCEPT ![c] = "register"]
    /\ UNCHANGED <<svc, live, cur, appDying, mutex, registry, nBuilt, tgt, res, calls>>

RegisterKeepsLock(c) ==
    /\ pc[c] = "register"
    /\ registerPipeline(tgt[c])
    /\ Return(c, tgt[c])
    /\ UNCHANGED <<svc, live, cur, appDying, mutex, nBuilt, watch, tgt, calls>>

\* registerPipeline, then the deferred Unlock.
Register(c) ==
    /\ pc[c] = "register"
    /\ registerPipeline(tgt[c])
    /\ mutex' = None
    /\ Return(c, tgt[c])
    /\ UNCHANGED <<svc, live, cur, appDying, nBuilt, watch, tgt, calls>>

\* The caller goes on to make another call.
Again(c) ==
    /\ pc[c] \in {"done", "panicked"}
    /\ pc' = [pc EXCEPT ![c] = "idle"]
    /\ UNCHANGED <<svc, live, cur, appDying, mutex, registry, nBuilt, watch, tgt, res, calls>>

\* The unregister goroutine wakes on service.Dying() or app.Dying() and
\* deletes the registry entry by id, whichever incarnation it holds.
Unregister(k) ==
    /\ k \in watch
    /\ svc[k] \in {"dying", "dead"} \/ appDying
    /\ unregisterPipeline
    /\ watch' = watch \ {k}
    /\ UNCHANGED <<svc, live, cur, appDying, mutex, nBuilt, pc, tgt, res, calls>>

(***************************************************************************)
(* Environment: the tomb of each incarnation and the app tomb.             *)
(***************************************************************************)
Kill(k) ==
    /\ svc[k] = "alive"
    /\ svc' = [svc EXCEPT ![k] = "dying"]
    /\ UNCHANGED <<live, cur, appDying, mutex, registry, nBuilt, watch, pc, tgt, res, calls>>

\* A tracked goroutine returns (workers return on Dying); the last one
\* to return kills the tomb and closes Dead.
GoroutineExit(k) ==
    /\ svc[k] = "dying" /\ live[k] > 0
    /\ live' = [live EXCEPT ![k] = @ - 1]
    /\ svc' = [svc EXCEPT ![k] = IF live[k] = 1 THEN "dead" ELSE @]
    /\ UNCHANGED <<cur, appDying, mutex, registry, nBuilt, watch, pc, tgt, res, calls>>

\* A new service with the same ServiceID after the old one died.
Restart ==
    /\ cur < MaxInc /\ svc[cur] = "dead"
    /\ cur' = cur + 1
    /\ svc' = [svc EXCEPT ![cur + 1] = "alive"]
    /\ live' = [live EXCEPT ![cur + 1] = 1]
    /\ UNCHANGED <<appDying, mutex, registry, nBuilt, watch, pc, tgt, res, calls>>

AppKill ==
    /\ AppCanDie /\ ~appDying
    /\ appDying' = TRUE
    /\ UNCHANGED <<svc, live, cur, mutex, registry, nBuilt, watch, pc, tgt, res, calls>>

CallerStep(c) ==
    Lock(c) \/ Lookup(c) \/ Check(c) \/ Spawn(c) \/ StartWatcher(c) \/ Register(c)

Next ==
    \/ \E c \in Callers : FromConfig(c) \/ Call(c) \/ CallerStep(c) \/ Again(c)
    \/ \E k \in Incs : Unregister(k) \/ Kill(k) \/ GoroutineExit(k)
    \/ Restart \/ AppKill

\* Goroutines are scheduled fairly; sync.Mutex has a starvation mode, so
\* a caller that keeps trying gets the lock.  Callers need not call, and
\* services and the app need not die.
Fairness ==
    /\ \A c \in Callers : SF_vars(Lock(c)) /\ WF_vars(CallerStep(c))
    /\ \A k \in Incs : WF_vars(Unregister(k))

Spec == Init /\ [][Next]_vars /\ Fairness

-----------------------------------------------------------------------------
\* Goroutine positions between startPipelineMutex.Lock() and its deferred
\* Unlock.
Locked == {"lookup", "check", "spawn", "watch", "register"}

\* startPipelineMutex is held exactly while its holder is between Lock and
\* the deferred Unlock: no two StartPipeline calls are inside at once, and
\* no return or panic path leaves the mutex held.
LockDiscipline == \A c \in Callers : pc[c] \in Locked <=> mutex = c

\* StartPipeline's contract: a service gets at most one pipeline; a second
\* call returns the registered one instead of starting more workers.
OnePipelinePerService == \A k \in Incs : nBuilt[k] <= 1

\* registerPipeline never replaces a registered pipeline: the entry only
\* goes from empty to a pipeline and back, so no pipeline is orphaned
\* with its workers still running on a live service.
NoOverwrite == [][registry # 0 => registry' \in {registry, 0}]_registry

\* Every StartPipeline call returns or panics; a panic inside the locked
\* region must not leave startPipelineMutex held.
CallsComplete ==
    \A c \in Callers : (pc[c] \in {"lock"} \cup Locked)
                          ~> (pc[c] \in {"done", "panicked"})

\* Once the registered pipeline's service is dying (or the app is), the
\* unregister goroutine removes it, so later StartPipeline calls for the
\* service build a new one instead of returning a dead pipeline.
StaleEntryRemoved ==
    \A k \in Incs : (registry = k /\ (~Alive(k) \/ appDying)) ~> (registry # k)
=============================================================================

------------------------ MODULE ApplicationLifecycle ------------------------
(***************************************************************************)
(* The registry lock and the lifecycle of src/pkg/service/application.go: *)
(* the sync.RWMutex a.mutex over a.services, the calls that take it        *)
(* (MustRegisterService, UnRegisterService, the read-locked queries,       *)
(* ServiceKeys, StopAllServices, StopServiceByType/ByKey and the           *)
(* dependency checks), and the application's run/destroy, which stops the  *)
(* registered services when the application stops.                        *)
(*                                                                         *)
(* a.mutex is modelled explicitly with Go's writer preference: Lock first  *)
(* takes the internal writer mutex ("lockW"), then announces itself        *)
(* ("lockR"); from then on RLock blocks until the writer has run, and the  *)
(* writer waits for the readers already inside.  A write-locked body never *)
(* blocks, so acquire, body and Unlock are one step.                       *)
(*                                                                         *)
(* Each registered service runs its own lifecycle (Starting, Running,      *)
(* Stopping, Terminated, Failed); the Service type is not part of this     *)
(* repository, so its transitions are the environment, taken from the      *)
(* spec's lifecycle.  inst[i] counts the services created under interface  *)
(* i; st[i] is the state of the latest one.  A caller holding an older     *)
(* client acts on a service the model no longer tracks.                    *)
(*                                                                         *)
(* Tickets (serviceTicketsMutex) are ServiceContainer's; destroy's         *)
(* closeAllServiceTickets is left to that module.                          *)
(***************************************************************************)
EXTENDS Naturals, FiniteSets

CONSTANTS
    Callers,    \* goroutines calling the application
    Ifaces,     \* ServiceInterface values
    Deps,       \* Deps[i]: the interfaces service i declares as dependencies
    Accepts,    \* <<i, d>>: i's version constraint on d (or none) accepts d's version
    Ops,        \* Ops[c]: the calls caller c makes, a subset of OpNames
    MaxCalls    \* bound on the calls made, over all callers

OpNames == {"register", "unregister", "read", "keys", "stopAll", "stopByType", "check"}

States == {"Starting", "Running", "Stopping", "Terminated", "Failed"}

\* State().Stopped()
Stopped == {"Terminated", "Failed"}

\* The argument of a call: an interface, or "all" for CheckAllServiceDependencies.
Args == Ifaces \cup {"all"}

VARIABLES
    services,   \* services[i]: a.services holds an entry under i
    inst,       \* services created under i so far
    st,         \* st[i]: state of the latest service created under i
    pc,         \* caller's position: idle, lockW, lockR, keys1, stopAll, stopWait,
                \*   stopAsync, check2
    op,         \* the call a caller is making
    arg,        \* its argument
    rl,         \* read locks of a.mutex a caller holds
    todo,       \* StopAllServices: services still to stop
    cur,        \* StopAllServices: the service whose Stop() it is in
    held,       \* StopServiceByType: instance number of the client it looked up
    rep1,       \* check: <<i, d>> reported missing by the registered phase
    nCalls,     \* calls made so far
    dpc,        \* the application: run, stopLoop, awaitStart, await, done
    await       \* destroy's second loop: services still to await

vars == <<services, inst, st, pc, op, arg, rl, todo, cur, held, rep1,
          nCalls, dpc, await>>

callVars == <<op, arg, todo, cur, held, rep1, nCalls>>

-----------------------------------------------------------------------------
(* a.mutex                                                                 *)

\* RLock proceeds unless a writer has announced itself.
CanRLock == \A c \in Callers : pc[c] # "lockR"

\* The announced writer runs once no reader holds the lock.
NoReaders == \A c \in Callers : rl[c] = 0

\* Service.StopAsyc(): a starting or running service begins to stop.
StopAsyc(s) == IF s \in {"Starting", "Running"} THEN "Stopping" ELSE s

-----------------------------------------------------------------------------
(* checkServiceDependenciesRegistered: a dependency is missing when no     *)
(* service is registered under it, or its version fails the constraint.    *)
DepsMissing(i) == {d \in Deps[i] : ~services[d] \/ <<i, d>> \notin Accepts}

(* checkServiceDependenciesRunning: also when it is not Running.           *)
DepsNotRunning(i) ==
    {d \in Deps[i] : ~services[d] \/ <<i, d>> \notin Accepts \/ st[d] # "Running"}

\* The services a check looks at: every registered one, or the client's own.
Targets(a) == IF a = "all" THEN {i \in Ifaces : services[i]} ELSE {a}

Registered == {i \in Ifaces : services[i]}

-----------------------------------------------------------------------------
Init ==
    \* NewApplication: an empty map; st is unused while inst[i] = 0
    /\ services = [i \in Ifaces |-> FALSE]
    /\ inst = [i \in Ifaces |-> 0]
    /\ st = [i \in Ifaces |-> "Terminated"]
    /\ pc = [c \in Callers |-> "idle"]
    /\ op = [c \in Callers |-> "read"]
    /\ arg = [c \in Callers |-> "all"]
    /\ rl = [c \in Callers |-> 0]
    /\ todo = [c \in Callers |-> {}]
    /\ cur = [c \in Callers |-> "all"]
    /\ held = [c \in Callers |-> 0]
    /\ rep1 = [c \in Callers |-> {}]
    /\ nCalls = 0
    /\ dpc = "run"
    /\ await = {}

-----------------------------------------------------------------------------
(* A caller starts a call: the registry writers go to Lock, the others to  *)
(* their first RLock.                                                      *)
Call(c, o, a) ==
    /\ pc[c] = "idle"
    /\ nCalls < MaxCalls
    /\ pc' = [pc EXCEPT ![c] = IF o \in {"register", "unregister"} THEN "lockW" ELSE "rlock"]
    /\ op' = [op EXCEPT ![c] = o]
    /\ arg' = [arg EXCEPT ![c] = a]
    /\ nCalls' = nCalls + 1
    /\ UNCHANGED <<services, inst, st, rl, todo, cur, held, rep1, dpc, await>>

\* The call returns; its locals are gone.
Return(c) ==
    /\ pc' = [pc EXCEPT ![c] = "idle"]
    /\ op' = [op EXCEPT ![c] = "read"]
    /\ arg' = [arg EXCEPT ![c] = "all"]

(* Lock, having taken the writer mutex, announces the writer.              *)
Announce(c) ==
    /\ pc[c] = "lockW"
    /\ CanRLock
    /\ pc' = [pc EXCEPT ![c] = "lockR"]
    /\ UNCHANGED <<services, inst, st, rl, callVars, dpc, await>>

(* MustRegisterService, with the lock held: create the service; an entry   *)
(* already under its interface panics (RegisterService returns the error)  *)
(* and leaves the map alone; otherwise store it and StartAsync.  A range   *)
(* in destroy's second loop may or may not meet the new entry.             *)
MustRegisterService(c) ==
    LET i == arg[c] IN
    /\ pc[c] = "lockR" /\ op[c] = "register"
    /\ NoReaders
    /\ Return(c)
    /\ IF services[i]
         THEN UNCHANGED <<services, inst, st, await>>
         ELSE /\ services' = [services EXCEPT ![i] = TRUE]
              /\ inst' = [inst EXCEPT ![i] = @ + 1]
              /\ st' = [st EXCEPT ![i] = "Starting"]
              /\ await' \in IF dpc = "await" THEN {await, await \cup {i}} ELSE {await}
    /\ UNCHANGED <<rl, todo, cur, held, rep1, nCalls, dpc>>

(* UnRegisterService, with the lock held: delete the entry, if any; the    *)
(* service is not stopped.  destroy's await range skips the entry if it   *)
(* has not reached it yet, and goes on polling it if it already has.      *)
UnRegisterService(c) ==
    LET i == arg[c] IN
    /\ pc[c] = "lockR" /\ op[c] = "unregister"
    /\ NoReaders
    /\ Return(c)
    /\ services' = [services EXCEPT ![i] = FALSE]
    /\ await' \in {await, await \ {i}}
    /\ UNCHANGED <<inst, st, rl, todo, cur, held, rep1, nCalls, dpc>>

(* ServiceByType, ServiceByKey, Services, ServiceInterfaces, ServiceStates: *)
(* RLock, read the map, RUnlock.                                          *)
ReadRegistry(c) ==
    /\ pc[c] = "rlock" /\ op[c] = "read"
    /\ CanRLock
    /\ Return(c)
    /\ UNCHANGED <<services, inst, st, rl, todo, cur, held, rep1, nCalls, dpc, await>>

(* ServiceKeys: RLock ...                                                  *)
ServiceKeys(c) ==
    /\ pc[c] = "rlock" /\ op[c] = "keys"
    /\ CanRLock
    /\ pc' = [pc EXCEPT ![c] = "keys1"]
    /\ rl' = [rl EXCEPT ![c] = 1]
    /\ UNCHANGED <<services, inst, st, callVars, dpc, await>>

(* ... then, still holding it, ServiceInterfaces takes RLock again; both   *)
(* are released on return.                                                 *)
ServiceInterfaces(c) ==
    /\ pc[c] = "keys1"
    /\ CanRLock
    /\ Return(c)
    /\ rl' = [rl EXCEPT ![c] = 0]
    /\ UNCHANGED <<services, inst, st, todo, cur, held, rep1, nCalls, dpc, await>>

(* A variant that snapshots the map under RLock and stops the services    *)
(* after releasing it.                                                     *)
StopAllServicesUnlocked(c) ==
    /\ pc[c] = "rlock" /\ op[c] = "stopAll"
    /\ CanRLock
    /\ pc' = [pc EXCEPT ![c] = "stopAll"]
    /\ todo' = [todo EXCEPT ![c] = Registered]
    /\ UNCHANGED <<services, inst, st, rl, op, arg, cur, held, rep1, nCalls, dpc, await>>

(* StopAllServices: RLock, then Stop() each registered service in turn     *)
(* with the read lock held.                                                *)
StopAllServices(c) ==
    /\ pc[c] = "rlock" /\ op[c] = "stopAll"
    /\ CanRLock
    /\ pc' = [pc EXCEPT ![c] = "stopAll"]
    /\ rl' = [rl EXCEPT ![c] = 1]
    /\ todo' = [todo EXCEPT ![c] = Registered]
    /\ UNCHANGED <<services, inst, st, op, arg, cur, held, rep1, nCalls, dpc, await>>

(* A variant that only waits (AwaitStopped) without asking to stop.        *)
StopServiceAwaitOnly(c, i) ==
    /\ pc[c] = "stopAll"
    /\ i \in todo[c]
    /\ cur' = [cur EXCEPT ![c] = i]
    /\ pc' = [pc EXCEPT ![c] = "stopWait"]
    /\ UNCHANGED <<services, inst, st, rl, op, arg, todo, held, rep1, nCalls, dpc, await>>

(* Stop(): StopAsyc, then wait for the service to be stopped.             *)
StopService(c, i) ==
    /\ pc[c] = "stopAll"
    /\ i \in todo[c]
    /\ st' = [st EXCEPT ![i] = StopAsyc(@)]
    /\ cur' = [cur EXCEPT ![c] = i]
    /\ pc' = [pc EXCEPT ![c] = "stopWait"]
    /\ UNCHANGED <<services, inst, rl, op, arg, todo, held, rep1, nCalls, dpc, await>>

AwaitStopped(c) ==
    /\ pc[c] = "stopWait"
    /\ st[cur[c]] \in Stopped
    /\ todo' = [todo EXCEPT ![c] = @ \ {cur[c]}]
    /\ cur' = [cur EXCEPT ![c] = "all"]
    /\ pc' = [pc EXCEPT ![c] = "stopAll"]
    /\ UNCHANGED <<services, inst, st, rl, op, arg, held, rep1, nCalls, dpc, await>>

(* A variant without the deferred RUnlock.                                 *)
StopAllDoneNoUnlock(c) ==
    /\ pc[c] = "stopAll"
    /\ todo[c] = {}
    /\ Return(c)
    /\ UNCHANGED <<services, inst, st, rl, todo, cur, held, rep1, nCalls, dpc, await>>

(* The loop is over: the deferred RUnlock.                                 *)
StopAllDone(c) ==
    /\ pc[c] = "stopAll"
    /\ todo[c] = {}
    /\ Return(c)
    /\ rl' = [rl EXCEPT ![c] = 0]
    /\ UNCHANGED <<services, inst, st, todo, cur, held, rep1, nCalls, dpc, await>>

(* StopServiceByType / StopServiceByKey: look the client up under RLock;   *)
(* none is a ServiceNotFoundError ...                                      *)
LookupToStop(c) ==
    /\ pc[c] = "rlock" /\ op[c] = "stopByType"
    /\ IF services[arg[c]]
         THEN /\ pc' = [pc EXCEPT ![c] = "stopAsync"]
              /\ held' = [held EXCEPT ![c] = inst[arg[c]]]
              /\ UNCHANGED <<op, arg>>
         ELSE Return(c) /\ UNCHANGED held
    /\ CanRLock
    /\ UNCHANGED <<services, inst, st, rl, todo, cur, rep1, nCalls, dpc, await>>

(* ... then, with no lock, StopAsyc on that client: a service created since *)
(* under the same interface is not the one stopped.                        *)
StopServiceByType(c) ==
    /\ pc[c] = "stopAsync"
    /\ Return(c)
    /\ held' = [held EXCEPT ![c] = 0]
    /\ st' = IF held[c] = inst[arg[c]] THEN [st EXCEPT ![arg[c]] = StopAsyc(@)] ELSE st
    /\ UNCHANGED <<services, inst, rl, todo, cur, rep1, nCalls, dpc, await>>

(* CheckAllServiceDependencies / CheckServiceDependencies: first           *)
(* CheckAll...Registered under one RLock ...                               *)
CheckRegistered(c) ==
    /\ pc[c] = "rlock" /\ op[c] = "check"
    /\ CanRLock
    /\ pc' = [pc EXCEPT ![c] = "check2"]
    /\ rep1' = [rep1 EXCEPT ![c] = {<<i, d>> \in Ifaces \X Ifaces :
                                      i \in Targets(arg[c]) /\ d \in DepsMissing(i)}]
    /\ UNCHANGED <<services, inst, st, rl, op, arg, todo, cur, held, nCalls, dpc, await>>

(* ... then CheckAll...Running under another; the two reports are         *)
(* returned together.                                                      *)
CheckRunning(c) ==
    /\ pc[c] = "check2"
    /\ CanRLock
    /\ Return(c)
    /\ rep1' = [rep1 EXCEPT ![c] = {}]
    /\ UNCHANGED <<services, inst, st, rl, todo, cur, held, nCalls, dpc, await>>

\* The not-running report CheckRunning(c) returns: the state it reads.
RunningReport(c) ==
    {<<i, d>> \in Ifaces \X Ifaces : i \in Targets(arg[c]) /\ d \in DepsNotRunning(i)}

-----------------------------------------------------------------------------
(* The application's run returns on a signal or its stop trigger (Stop()),  *)
(* and destroy begins.                                                     *)
StopTrigger ==
    /\ dpc = "run"
    /\ dpc' = "stopLoop"
    /\ UNCHANGED <<services, inst, st, pc, rl, callVars, await>>

(* destroy's first loop: StopAsyc on every registered service.  The ranges *)
(* over a.services take no lock; each is taken to see the map at one      *)
(* instant.                                                                *)
StopAllAsync ==
    /\ dpc = "stopLoop"
    /\ dpc' = "awaitStart"
    /\ st' = [i \in Ifaces |-> IF services[i] THEN StopAsyc(st[i]) ELSE st[i]]
    /\ UNCHANGED <<services, inst, pc, rl, callVars, await>>

(* The second loop starts over the map as it is now ...                    *)
AwaitStart ==
    /\ dpc = "awaitStart"
    /\ dpc' = "await"
    /\ await' = Registered
    /\ UNCHANGED <<services, inst, st, pc, rl, callVars>>

(* ... and polls AwaitStopped(5s) on each until it is stopped ...          *)
AwaitService(i) ==
    /\ dpc = "await"
    /\ i \in await
    /\ st[i] \in Stopped
    /\ await' = await \ {i}
    /\ UNCHANGED <<services, inst, st, pc, rl, callVars, dpc>>

(* ... and destroy returns: the application is stopped.                    *)
DestroyDone ==
    /\ dpc = "await"
    /\ await = {}
    /\ dpc' = "done"
    /\ UNCHANGED <<services, inst, st, pc, rl, callVars, await>>

-----------------------------------------------------------------------------
(* The latest service under i, on its own: it finishes starting, finishes   *)
(* stopping, or fails.                                                     *)
Started(i) ==
    /\ inst[i] > 0 /\ st[i] = "Starting"
    /\ st' = [st EXCEPT ![i] = "Running"]
    /\ UNCHANGED <<services, inst, pc, rl, callVars, dpc, await>>

Terminated(i) ==
    /\ inst[i] > 0 /\ st[i] = "Stopping"
    /\ st' = [st EXCEPT ![i] = "Terminated"]
    /\ UNCHANGED <<services, inst, pc, rl, callVars, dpc, await>>

Fail(i) ==
    /\ inst[i] > 0 /\ st[i] \in {"Starting", "Running", "Stopping"}
    /\ st' = [st EXCEPT ![i] = "Failed"]
    /\ UNCHANGED <<services, inst, pc, rl, callVars, dpc, await>>

-----------------------------------------------------------------------------
CallArgs(o) == IF o = "check" THEN Args ELSE Ifaces

CallerStep(c) ==
    \/ Announce(c) \/ MustRegisterService(c) \/ UnRegisterService(c)
    \/ ReadRegistry(c) \/ ServiceKeys(c) \/ ServiceInterfaces(c)
    \/ StopAllServices(c) \/ \E i \in Ifaces : StopService(c, i)
    \/ AwaitStopped(c) \/ StopAllDone(c)
    \/ LookupToStop(c) \/ StopServiceByType(c)
    \/ CheckRegistered(c) \/ CheckRunning(c)

Destroy == StopAllAsync \/ AwaitStart \/ DestroyDone \/ \E i \in Ifaces : AwaitService(i)

Next ==
    \/ \E c \in Callers : \E o \in Ops[c] : \E a \in CallArgs(o) : Call(c, o, a)
    \/ \E c \in Callers : CallerStep(c)
    \/ StopTrigger
    \/ Destroy
    \/ \E i \in Ifaces : Started(i) \/ Terminated(i) \/ Fail(i)

(* Every goroutine that can run is scheduled: the callers, destroy, and a  *)
(* stopping service, which terminates.  Making calls, stopping the         *)
(* application, a service finishing its start or failing are not owed.    *)
Fairness ==
    /\ \A c \in Callers : WF_vars(CallerStep(c))
    /\ WF_vars(Destroy)
    /\ \A i \in Ifaces : WF_vars(Terminated(i))

Spec == Init /\ [][Next]_vars /\ Fairness

-----------------------------------------------------------------------------
TypeOK ==
    /\ services \in [Ifaces -> BOOLEAN]
    /\ st \in [Ifaces -> States]
    /\ rl \in [Callers -> 0..1]
    /\ op \in [Callers -> OpNames]
    /\ \A c \in Callers : todo[c] \subseteq Ifaces /\ rep1[c] \subseteq Ifaces \X Ifaces
    /\ await \subseteq Ifaces
    /\ nCalls \in 0..MaxCalls
    \* a caller holds a read lock exactly while inside ServiceKeys or StopAllServices
    /\ \A c \in Callers : rl[c] = 1 <=> pc[c] \in {"keys1", "stopAll", "stopWait"}

(* Every call into the application returns: an interleaving of one       *)
(* registry writer with read-locked calls and StopAllServices (which holds *)
(* RLock while it waits for each service to stop) never leaves a caller    *)
(* blocked on a.mutex for good.  With two writers it can (ServiceKeys).    *)
CallsReturn == \A c \in Callers : pc[c] # "idle" ~> pc[c] = "idle"

(* When StopAllServices finishes its loop, no registered service is left   *)
(* starting or running: the read lock held across the loop keeps a        *)
(* registration from slipping in behind it.                                *)
StopAllLeavesNoneRunning ==
    \A c \in Callers :
        (pc[c] = "stopAll" /\ todo[c] = {}) => \A i \in Registered : st[i] \in Stopped

(* Once the application has been told to stop, destroy returns: "shutdown  *)
(* of the container stops all registered services, each with a bounded     *)
(* wait".                                                                  *)
ShutdownCompletes == dpc # "run" ~> dpc = "done"

(* A dependency check is "a pure function of the current container        *)
(* snapshot": in any one snapshot a dependency that is missing is also not *)
(* running, so a completed check never reports a service's dependency     *)
(* missing without also reporting it not running.                          *)
DependencyReportIsSnapshot ==
    [][\A c \in Callers :
         (pc[c] = "check2" /\ pc'[c] = "idle") => rep1[c] \subseteq RunningReport(c)]_vars

====

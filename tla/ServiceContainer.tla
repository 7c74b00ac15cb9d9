-------------------------- MODULE ServiceContainer --------------------------
(***************************************************************************)
(* The service container of src/pkg/service/application.go: the registry  *)
(* of services keyed by ServiceInterface, and the service tickets that     *)
(* ServiceByTypeAsync hands out to goroutines waiting for a service.       *)
(*                                                                         *)
(* a.mutex guards the registry map; every use of it is a short critical    *)
(* section, so each is one atomic step.  serviceTicketsMutex is a          *)
(* sync.RWMutex held by a sweep (checkServiceTickets) for its whole loop,  *)
(* so it is modelled explicitly: a sweep is "active" while it holds the    *)
(* read lock, and a writer that has called Lock blocks new readers, as Go's *)
(* RWMutex does.  Each waiter makes one ServiceByTypeAsync call and reads  *)
(* its ticket's channel once; the ticket is named after its waiter.        *)
(*                                                                         *)
(* `impl` selects the container: "pkg" (src/pkg/service) or "legacy"       *)
(* (src/oysterpack/service, ApplicationContext).  Their ticket code --     *)
(* ServiceByTypeAsync, checkServiceTickets, deleteServiceTicket, and the   *)
(* registry calls -- is the same; only destroy differs.                    *)
(***************************************************************************)
EXTENDS Naturals, FiniteSets

CONSTANTS
    Waiters,    \* goroutines calling ServiceByTypeAsync
    Ifaces,     \* ServiceInterface values
    MaxReg,     \* bound on MustRegisterService / UnRegisterService calls
    MaxSweeps,  \* bound on checkServiceTickets goroutines ever started
    Impls       \* the containers checked: subset of {"pkg", "legacy"}

VARIABLES
    impl,       \* which container
    services,   \* services[i]: a service is registered under interface i
    nReg,       \* registry calls made so far (bounded by MaxReg)
    wpc,        \* waiter: idle, miss, append (blocked in Lock), wait, got, gotNil
    want,       \* the interface a waiter asked for
    tickets,    \* waiters whose ticket is in a.serviceTickets
    buf,        \* values in the ticket channel's buffer (capacity 1)
    closed,     \* the ticket channel is closed
    sent,       \* values ever sent on the ticket channel
    sweep,      \* sweep goroutine g: none, pending, active, done
    todo,       \* tickets an active sweep has still to look at
    dSend,      \* delivery goroutines of a ticket about to send
    dClose,     \* delivery goroutines of a ticket about to close
    delP,       \* deleteServiceTicket goroutines not yet in Lock
    delW,       \* deleteServiceTicket goroutines blocked in Lock
    stopping    \* destroy has begun (closeAllServiceTickets pending or done)

vars == <<impl, services, nReg, wpc, want, tickets, buf, closed, sent, sweep, todo,
          dSend, dClose, delP, delW, stopping>>

Sweeps == 1..MaxSweeps

-----------------------------------------------------------------------------
(* Lock state of serviceTicketsMutex.                                       *)

Readers == {g \in Sweeps : sweep[g] = "active"}

WriterWaiting ==
    \/ \E w \in Waiters : wpc[w] = "append"
    \/ \E w \in Waiters : delW[w] > 0

\* RLock: no writer holds the lock or is queued for it.  Go lets readers
\* that arrive between two queued writers in; the runs have one waiter, so
\* at most one writer queues at a time and the two agree.
CanRLock == ~WriterWaiting

\* Lock: no reader holds the lock (writers hold it for one atomic step).
CanLock == Readers = {}

\* `go a.checkServiceTickets()`: a new sweep goroutine, if the bound allows.
SpawnSweep ==
    LET free == {g \in Sweeps : sweep[g] = "none"}
    IN  IF free = {} THEN sweep
        ELSE LET g == CHOOSE x \in free : \A y \in free : x <= y
             IN  [sweep EXCEPT ![g] = "pending"]

-----------------------------------------------------------------------------
Init ==
    /\ impl \in Impls
    \* a service may already be registered (e.g. by a package init function)
    /\ services \in [Ifaces -> BOOLEAN]
    /\ nReg = 0
    /\ wpc = [w \in Waiters |-> "idle"]
    /\ want \in [Waiters -> Ifaces]
    /\ tickets = {}
    /\ buf = [w \in Waiters |-> 0]
    /\ closed = [w \in Waiters |-> FALSE]
    /\ sent = [w \in Waiters |-> 0]
    /\ sweep = [g \in Sweeps |-> "none"]
    /\ todo = [g \in Sweeps |-> {}]
    /\ dSend = [w \in Waiters |-> 0]
    /\ dClose = [w \in Waiters |-> 0]
    /\ delP = [w \in Waiters |-> 0]
    /\ delW = [w \in Waiters |-> 0]
    /\ stopping = FALSE

-----------------------------------------------------------------------------
(* ServiceByTypeAsync, first half: ServiceByType under a.mutex.RLock.  A   *)
(* hit fills the fresh buffered channel and closes it; a miss goes on to   *)
(* append the ticket.                                                       *)
Lookup(w) ==
    /\ wpc[w] = "idle"
    /\ IF services[want[w]]
         THEN /\ wpc' = [wpc EXCEPT ![w] = "wait"]
              /\ buf' = [buf EXCEPT ![w] = 1]
              /\ sent' = [sent EXCEPT ![w] = 1]
              /\ closed' = [closed EXCEPT ![w] = TRUE]
         ELSE /\ wpc' = [wpc EXCEPT ![w] = "miss"]
              /\ UNCHANGED <<buf, sent, closed>>
    /\ UNCHANGED <<impl, services, nReg, want, tickets, sweep, todo, dSend, dClose,
                   delP, delW, stopping>>

(* After a miss, the call to serviceTicketsMutex.Lock: from here on the     *)
(* waiter blocks new readers.                                               *)
CallLock(w) ==
    /\ wpc[w] = "miss"
    /\ wpc' = [wpc EXCEPT ![w] = "append"]
    /\ UNCHANGED <<impl, services, nReg, want, tickets, buf, closed, sent, sweep,
                   todo, dSend, dClose, delP, delW, stopping>>

(* A variant that drops the trailing `go a.checkServiceTickets()`.          *)
AppendNoSweep(w) ==
    /\ wpc[w] = "append"
    /\ CanLock
    /\ tickets' = tickets \cup {w}
    /\ wpc' = [wpc EXCEPT ![w] = "wait"]
    /\ UNCHANGED <<impl, services, nReg, want, buf, closed, sent, sweep, todo,
                   dSend, dClose, delP, delW, stopping>>

(* ServiceByTypeAsync, second half: append under the write lock, then start *)
(* a sweep.                                                                 *)
Append(w) ==
    /\ wpc[w] = "append"
    /\ CanLock
    /\ tickets' = tickets \cup {w}
    /\ wpc' = [wpc EXCEPT ![w] = "wait"]
    /\ sweep' = SpawnSweep
    /\ UNCHANGED <<impl, services, nReg, want, buf, closed, sent, todo,
                   dSend, dClose, delP, delW, stopping>>

(* The waiter's single receive on Channel(): a buffered value first, nil    *)
(* once the channel is closed and drained.                                  *)
Receive(w) ==
    /\ wpc[w] = "wait"
    /\ \/ /\ buf[w] > 0
          /\ buf' = [buf EXCEPT ![w] = 0]
          /\ wpc' = [wpc EXCEPT ![w] = "got"]
       \/ /\ buf[w] = 0 /\ closed[w]
          /\ wpc' = [wpc EXCEPT ![w] = "gotNil"]
          /\ UNCHANGED buf
    /\ UNCHANGED <<impl, services, nReg, want, tickets, closed, sent, sweep, todo,
                   dSend, dClose, delP, delW, stopping>>

-----------------------------------------------------------------------------
(* checkServiceTickets: RLock, then range over the slice as it was.         *)
SweepStart(g) ==
    /\ sweep[g] = "pending"
    /\ CanRLock
    /\ sweep' = [sweep EXCEPT ![g] = "active"]
    /\ todo' = [todo EXCEPT ![g] = tickets]
    /\ UNCHANGED <<impl, services, nReg, wpc, want, tickets, buf, closed, sent,
                   dSend, dClose, delP, delW, stopping>>

(* One loop iteration: ServiceByType on the ticket's interface; on a hit,   *)
(* start a delivery goroutine and a deleteServiceTicket goroutine.          *)
SweepStep(g, w) ==
    /\ sweep[g] = "active"
    /\ w \in todo[g]
    /\ todo' = [todo EXCEPT ![g] = @ \ {w}]
    /\ IF services[want[w]]
         THEN /\ dSend' = [dSend EXCEPT ![w] = @ + 1]
              /\ delP' = [delP EXCEPT ![w] = @ + 1]
         ELSE UNCHANGED <<dSend, delP>>
    /\ UNCHANGED <<impl, services, nReg, wpc, want, tickets, buf, closed, sent,
                   sweep, dClose, delW, stopping>>

(* The deferred RUnlock at the end of the loop.                            *)
SweepEnd(g) ==
    /\ sweep[g] = "active"
    /\ todo[g] = {}
    /\ sweep' = [sweep EXCEPT ![g] = "done"]
    /\ UNCHANGED <<impl, services, nReg, wpc, want, tickets, buf, closed, sent,
                   todo, dSend, dClose, delP, delW, stopping>>

-----------------------------------------------------------------------------
(* Delivery goroutine, with `defer commons.IgnorePanic()`.  A send on a     *)
(* closed channel panics and the goroutine ends; a send on a full buffer    *)
(* blocks until the waiter receives.                                        *)

(* A variant that closes the channel before sending to it.                 *)
DeliverCloseFirst(w) ==
    /\ dSend[w] > 0
    /\ dSend' = [dSend EXCEPT ![w] = @ - 1]
    /\ closed' = [closed EXCEPT ![w] = TRUE]
    /\ UNCHANGED <<impl, services, nReg, wpc, want, tickets, buf, sent, sweep, todo,
                   dClose, delP, delW, stopping>>

DeliverSend(w) ==
    /\ dSend[w] > 0
    /\ closed[w] \/ buf[w] < 1
    /\ dSend' = [dSend EXCEPT ![w] = @ - 1]
    /\ IF closed[w]
         THEN UNCHANGED <<buf, sent, dClose>>
         ELSE /\ buf' = [buf EXCEPT ![w] = 1]
              /\ sent' = [sent EXCEPT ![w] = @ + 1]
              /\ dClose' = [dClose EXCEPT ![w] = @ + 1]
    /\ UNCHANGED <<impl, services, nReg, wpc, want, tickets, closed, sweep, todo,
                   delP, delW, stopping>>

(* close(ticket.channel); closing a closed channel panics, which is         *)
(* ignored, so either way the channel ends closed.                          *)
DeliverClose(w) ==
    /\ dClose[w] > 0
    /\ dClose' = [dClose EXCEPT ![w] = @ - 1]
    /\ closed' = [closed EXCEPT ![w] = TRUE]
    /\ UNCHANGED <<impl, services, nReg, wpc, want, tickets, buf, sent, sweep, todo,
                   dSend, delP, delW, stopping>>

(* deleteServiceTicket: call Lock (and from then on block new readers) ...  *)
DeleteCallLock(w) ==
    /\ delP[w] > 0
    /\ delP' = [delP EXCEPT ![w] = @ - 1]
    /\ delW' = [delW EXCEPT ![w] = @ + 1]
    /\ UNCHANGED <<impl, services, nReg, wpc, want, tickets, buf, closed, sent,
                   sweep, todo, dSend, dClose, stopping>>

(* ... then, holding it, swap-remove the ticket if it is still there.      *)
Delete(w) ==
    /\ delW[w] > 0
    /\ CanLock
    /\ delW' = [delW EXCEPT ![w] = @ - 1]
    /\ tickets' = tickets \ {w}
    /\ UNCHANGED <<impl, services, nReg, wpc, want, buf, closed, sent, sweep, todo,
                   dSend, dClose, delP, stopping>>

-----------------------------------------------------------------------------
(* MustRegisterService under a.mutex.Lock: an interface already present    *)
(* panics (RegisterService turns it into an error) and changes nothing;    *)
(* otherwise store the service and start a sweep.                           *)
MustRegisterService(i) ==
    /\ nReg < MaxReg
    /\ nReg' = nReg + 1
    /\ IF services[i]
         THEN UNCHANGED <<impl, services, sweep>>
         ELSE /\ services' = [services EXCEPT ![i] = TRUE]
              /\ sweep' = SpawnSweep
    /\ UNCHANGED <<impl, wpc, want, tickets, buf, closed, sent, todo, dSend, dClose,
                   delP, delW, stopping>>

(* UnRegisterService: delete the entry; the service is not stopped.        *)
UnRegisterService(i) ==
    /\ nReg < MaxReg
    /\ services[i]
    /\ nReg' = nReg + 1
    /\ services' = [services EXCEPT ![i] = FALSE]
    /\ UNCHANGED <<impl, wpc, want, tickets, buf, closed, sent, sweep, todo, dSend,
                   dClose, delP, delW, stopping>>

(* destroy, first call: closeAllServiceTickets closes every listed ticket  *)
(* under the read lock (a closed one panics, ignored) and removes none.    *)
Destroy ==
    /\ impl = "pkg"
    /\ ~stopping
    /\ CanRLock
    /\ stopping' = TRUE
    /\ closed' = [w \in Waiters |-> closed[w] \/ w \in tickets]
    /\ UNCHANGED <<impl, services, nReg, wpc, want, tickets, buf, sent, sweep, todo,
                   dSend, dClose, delP, delW>>

(* The legacy destroy only stops the services: the tickets are left open.  *)
LegacyDestroy ==
    /\ impl = "legacy"
    /\ ~stopping
    /\ stopping' = TRUE
    /\ UNCHANGED <<impl, services, nReg, wpc, want, tickets, buf, closed, sent, sweep,
                   todo, dSend, dClose, delP, delW>>

-----------------------------------------------------------------------------
WaiterStep(w) == Lookup(w) \/ CallLock(w) \/ Append(w) \/ Receive(w)

GoroutineStep(w) ==
    DeliverSend(w) \/ DeliverClose(w) \/ DeleteCallLock(w) \/ Delete(w)

SweepStepAny(g) == SweepStart(g) \/ SweepEnd(g) \/ \E w \in Waiters : SweepStep(g, w)

Next ==
    \/ \E w \in Waiters : WaiterStep(w) \/ GoroutineStep(w)
    \/ \E g \in Sweeps : SweepStepAny(g)
    \/ \E i \in Ifaces : MustRegisterService(i) \/ UnRegisterService(i)
    \/ Destroy
    \/ LegacyDestroy

(* Every goroutine is scheduled eventually; the environment (registering,  *)
(* unregistering, stopping the application) is not obliged to act.        *)
Fairness ==
    /\ \A w \in Waiters : WF_vars(WaiterStep(w)) /\ WF_vars(DeliverSend(w))
                          /\ WF_vars(DeliverClose(w)) /\ WF_vars(DeleteCallLock(w))
                          /\ WF_vars(Delete(w))
    /\ \A g \in Sweeps : WF_vars(SweepStepAny(g))

Spec == Init /\ [][Next]_vars /\ Fairness

-----------------------------------------------------------------------------
(* A waiter receives nil from its ticket (the channel closed with nothing  *)
(* in it) only after destroy has begun: a delivery goroutine always fills  *)
(* the buffer before it closes the channel.                                 *)
NilOnlyOnShutdown == \A w \in Waiters : wpc[w] = "gotNil" => stopping

(* A waiter whose ticket is outstanding while its interface is registered  *)
(* gets an answer, unless the service is unregistered again: the lookup/    *)
(* append gap in ServiceByTypeAsync never strands a ticket.                 *)
TicketResolves ==
    \A w \in Waiters :
        (wpc[w] \in {"miss", "append", "wait"} /\ services[want[w]])
            ~> (wpc[w] \in {"got", "gotNil"} \/ ~services[want[w]])

(* A ticket asked for before the container shuts down is answered once it  *)
(* has: "closes on container shutdown" -- the waiter receives a client or  *)
(* nil, whether or not the service is ever registered.                    *)
ShutdownAnswersTickets ==
    \A w \in Waiters :
        []((wpc[w] \in {"miss", "append", "wait"} /\ ~stopping)
              => [](stopping => <>(wpc[w] \in {"got", "gotNil"})))

(* A ticket channel carries at most one Client: "yields the registered     *)
(* handle, then closes".                                                    *)
AtMostOneDelivery == \A w \in Waiters : sent[w] <= 1

=============================================================================

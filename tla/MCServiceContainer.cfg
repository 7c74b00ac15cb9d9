CONSTANTS
    w1 = w1
    i1 = i1
    Waiters <- MCWaiters
    Ifaces <- MCIfaces
    MaxReg = 2
    MaxSweeps <- MCMaxSweeps
    Impls = {"pkg", "legacy"}
SPECIFICATION Spec
INVARIANT NilOnlyOnShutdown
PROPERTY TicketResolves
CHECK_DEADLOCK FALSE

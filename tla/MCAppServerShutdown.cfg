CONSTANTS
    c1 = c1
    c2 = c2
    s1 = s1
    s2 = s2
    id1 = id1
    id2 = id2
    None = None
    NoSvc = NoSvc
    Clients <- MCClients
    Svcs <- MCSvcs
    IdOf <- MCDistinctIds
    MaxOps = 1

SPECIFICATION Spec


PROPERTY ShutdownCompletes

CHECK_DEADLOCK FALSE

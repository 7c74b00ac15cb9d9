\* Bounded calls: the system stops once they are made.
CONSTANTS
    c1 = c1
    c2 = c2
    i1 = i1
    i2 = i2
    Callers <- MCCallers
    Ifaces <- MCIfaces
    Deps <- MCDeps
    Accepts <- MCAccepts
    Ops <- OneWriter
    MaxCalls = 4
SPECIFICATION Spec
CHECK_DEADLOCK FALSE
PROPERTY ShutdownCompletes

CONSTANTS
    i1 = i1
    i2 = i2
    i3 = i3
    c1 = c1
    c2 = c2
    None = None
    N = 2
    Items <- MCItems
    Pings <- MCPings
    Overrides <- MCOverrides
    PoolSizes <- MCPoolSizes
    CmdIds <- MCReusedCmdIds
SPECIFICATION Spec
INVARIANT RunCountedOnce

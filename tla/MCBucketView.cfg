CONSTANTS
    Root = "db"
    Order <- MCOrder
    Buckets <- MCBuckets
    Leaves <- MCLeaves
    Clients = {c1}
    NavArgs <- MCNavArgs
    Seeks <- MCSeeks
    NoSeek = ""
    Empty = ""
    Abandon = FALSE
    MaxViews = 3
    DbNames <- MCDbNames
    File = "f"
    MaxOpens = 1
    MaxOps = 4
SPECIFICATION StoreSpec
INVARIANT AtMostOneAfterCancel
PROPERTY IterationsAreStreams
CHECK_DEADLOCK FALSE

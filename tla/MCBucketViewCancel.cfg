CONSTANTS
    Root = "db"
    Order <- MCOrder
    Buckets <- MCBuckets
    Leaves <- MCLeaves
    Clients = {c1}
    NavArgs <- MCNavArgs
    Seeks <- MCSeeks
    NoSeek = ""
    Empty = ""
    Abandon = TRUE
    MaxViews = 3
    DbNames <- MCDbNames
    File = "f"
    MaxOpens = 1
    MaxOps = 4
SPECIFICATION StoreSpec
PROPERTY CancelReleasesTx
CHECK_DEADLOCK FALSE

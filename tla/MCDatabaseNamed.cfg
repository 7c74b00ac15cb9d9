\* Calls on one file, from every initial file; bounded opens, so the
\* client stops.
CONSTANTS
    DbNames <- MCDbNames
    Empty = ""
    File = "f"
    MaxOpens = 2
SPECIFICATION Spec
INVARIANT DatabaseIsNamed
CHECK_DEADLOCK FALSE

CONSTANTS
    MaxXid = 2
    MaxPages = 2
    PageCap = 1
    MaxLog = 8
    MaxCrashes = 1
SPECIFICATION Spec
INVARIANT UncommittedInsertsUndone

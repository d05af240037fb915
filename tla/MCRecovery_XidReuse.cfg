CONSTANTS
    MaxXid = 2
    MaxPages = 2
    PageCap = 1
    MaxLog = 4
    MaxCrashes = 1
SPECIFICATION Spec
INVARIANT XidsUnique

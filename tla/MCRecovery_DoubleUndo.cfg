CONSTANTS
    MaxXid = 3
    MaxPages = 2
    PageCap = 1
    MaxLog = 8
    MaxCrashes = 2
SPECIFICATION Spec
INVARIANT CommittedDeletesStay

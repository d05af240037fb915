CONSTANTS
    MaxXid = 2
    MaxPages = 2
    PageCap = 1
    MaxLog = 7
    MaxCrashes = 2
SPECIFICATION Spec
INVARIANT TypeOK
INVARIANT CommittedInsertsDurable

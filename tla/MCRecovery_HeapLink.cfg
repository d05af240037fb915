\* The new-page insert, a write-back of page 0 and a crash.
CONSTANTS
    MaxXid = 2
    MaxPages = 2
    PageCap = 1
    MaxLog = 5
    MaxCrashes = 1
SPECIFICATION Spec
INVARIANT HeapLinked

\* Two sessions that append concurrently; one page and one frame suffice.
CONSTANTS
    Threads = {t1, t2}
    Pages = {p1}
    Frames = {1}
    MaxWrites = 1
    NoPage = NoPage
    NoThread = NoThread
SPECIFICATION Spec
INVARIANT RollbackFindsRecordsAtRest

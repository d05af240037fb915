\* Two sessions, one page, one frame, one delete each: two Flushes of
\* AppendCommitLog run lines 272-280 at the same time.
CONSTANTS
    Threads = {t1, t2}
    Pages = {p1}
    Frames = {1}
    MaxWrites = 1
    NoPage = NoPage
    NoThread = NoThread
SPECIFICATION Spec
INVARIANT NextLsnFileCoversLog

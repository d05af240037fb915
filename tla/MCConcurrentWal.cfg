\* Two sessions, three pages in a pool of two frames (so GetPage hits,
\* fills a free frame and evicts, clean and dirty victims), two deletes per
\* transaction.
CONSTANTS
    Threads = {t1, t2}
    Pages = {p1, p2, p3}
    Frames = {1, 2}
    MaxWrites = 2
    NoPage = NoPage
    NoThread = NoThread
SPECIFICATION Spec
SYMMETRY PageSymmetry
INVARIANT TypeOK
INVARIANT WalBeforeEviction
INVARIANT CommitDurable
PROPERTY LRUImplemented

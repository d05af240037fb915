CONSTANTS
    k1 = k1
    k2 = k2
    tbl = tbl
    MaxXid = 3
    MaxPages = 2
    PageCap = 1
    MaxStmts = 2
    Keys = {k1}
    IsoLevels = {"RC", "RR"}
    TableOid = tbl
SPECIFICATION Spec
INVARIANT CommittedDeletesStay

CONSTANTS
    t1 = t1
    t2 = t2
    o1 = o1
    r1 = r1
    r2 = r2
    rTable = rTable
    Xids <- MCXids
    Oids = {o1}
    Rids <- MCRids
    TableRid = rTable
SYMMETRY MCSymmetry
SPECIFICATION Spec
INVARIANT TypeOK
INVARIANT LocksCompatible
INVARIANT LockResultCorrect
PROPERTY HeldNeverWeakens

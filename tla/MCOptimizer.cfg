\* FROM lists of up to three of four tables with WHERE clauses of up to two
\* comparisons (join predicates, filters on the same or on different
\* tables), and GREEDY on the four-table joins it handles.
CONSTANTS
    Tabs = {a, b, c, d}
    Vals = {0, 1}
    Null = Null
    NoTable = NoTable
    MaxTables = 3
    MaxConj = 2
    JoinOrders = {"NONE", "GREEDY"}
SPECIFICATION Spec
INVARIANT TypeOK
INVARIANT ResultPreserved

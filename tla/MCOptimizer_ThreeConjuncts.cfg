\* Two tables and WHERE clauses of three comparisons, so that two filters
\* can name the same table while a third names the other.
CONSTANTS
    Tabs = {a, b}
    Vals = {0, 1}
    Null = Null
    NoTable = NoTable
    MaxTables = 2
    MaxConj = 3
    JoinOrders = {"NONE"}
SPECIFICATION Spec
INVARIANT ResultPreserved

\* RIGHT JOIN with both children non-empty: the arities are known and the
\* tail loop runs, so only the padded record's values can be wrong.
CONSTANTS
    Keys = {1, 2}
    MaxRows = 2
    MinRows = 1
    JoinTypes = {"RIGHT"}
    Null = Null
SPECIFICATION Spec
INVARIANT JoinResultCorrect

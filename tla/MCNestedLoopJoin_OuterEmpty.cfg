\* LEFT JOIN alone, so that the only way to miss a row is the empty right child.
CONSTANTS
    Keys = {1, 2}
    MaxRows = 2
    MinRows = 0
    JoinTypes = {"LEFT"}
    Null = Null
SPECIFICATION Spec
INVARIANT JoinResultCorrect

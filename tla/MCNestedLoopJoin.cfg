\* Every join type; each child has up to three rows over two keys, so a row
\* can match none, one or two rows of the other side, and a child may be empty.
CONSTANTS
    Keys = {1, 2}
    MaxRows = 3
    MinRows = 0
    JoinTypes = {"INNER", "LEFT", "RIGHT", "FULL"}
    Null = Null
SPECIFICATION Spec
INVARIANT TypeOK
INVARIANT MatchedRowsExact
INVARIANT PaddedRowsUnmatched

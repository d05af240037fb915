\* Up to three records of two columns over {0, 1}, one or two ORDER BY clauses
\* in every direction.
CONSTANTS
    Values = {0, 1}
    NumCols = 2
    MaxRecords = 3
    MaxKeys = 2
    Directions = {"ASC", "DESC", "DEFAULT"}
SPECIFICATION Spec
INVARIANT TypeOK
INVARIANT OutputIsSortedInput

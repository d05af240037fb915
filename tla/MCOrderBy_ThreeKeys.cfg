\* Two records of three columns over {0, 1}, up to three ascending clauses.
CONSTANTS
    Values = {0, 1}
    NumCols = 3
    MaxRecords = 2
    MaxKeys = 3
    Directions = {"ASC"}
SPECIFICATION Spec
INVARIANT OutputIsSortedInput

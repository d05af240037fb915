\* Sorted children of up to four rows over three keys (runs of equal keys
\* on both sides, keys on one side only, empty children), under offsets and
\* counts below, within and beyond the join's size, and both absent.
CONSTANTS
    Keys = {1, 2, 3}
    MaxRows = 4
    Offsets = {NoValue, 0, 1, 3, 5}
    Counts = {NoValue, 0, 1, 2, 5}
    NoValue = NoValue
    CountBits = 4
SPECIFICATION Spec
INVARIANT TypeOK
INVARIANT MergeJoinResult
INVARIANT PlanResult

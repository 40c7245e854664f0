\* query() and result() where a 2xx reply may lack the data array.
SPECIFICATION Spec
CONSTANTS
    Surfaces = {"query"}
    MaxParts = 2
    MaxLen = 2
    BatchSize = 1
    Malformed = {"query"}
INVARIANTS
    NothingTruncated
CHECK_DEADLOCK FALSE

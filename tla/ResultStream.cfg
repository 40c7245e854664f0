\* All surfaces on up to three partitions of up to three rows, lists of two rows.
\* Replies may lack the data array, except those to query() and result().
SPECIFICATION Spec
CONSTANTS
    Surfaces = {"query", "stream", "batches", "export"}
    MaxParts = 3
    MaxLen = 3
    BatchSize = 2
    Malformed = {"stream", "batches", "export"}
INVARIANTS
    Inv
    RowsConserved
    NothingTruncated
    PartitionReleased
    BatchesFull
CHECK_DEADLOCK FALSE

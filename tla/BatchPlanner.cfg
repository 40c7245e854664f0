\* Up to eight records in batches of up to six; the keys of the fifth reach 10, a
\* record of 200 bytes never fits, and 118 bytes hold six of the shortest records and
\* not one byte more.
SPECIFICATION PlannerSpec
CONSTANTS
    MaxInput = 8
    MaxRows = 6
    MaxBytes = 118
    Width = 2
    SingleOverhead = 10
    RowLens = {1, 4, 200}
INVARIANTS
    RecordsAccounted
    MeasuredBudget
    BatchesGreedy
    EndsComplete
CHECK_DEADLOCK FALSE

SPECIFICATION FairSpec
CONSTANTS
    b1 = b1
    b2 = b2
    r1 = r1
    r2 = r2
    Batches = {b1, b2}
    Rows = {r1, r2}
    MaxActiveBatches = 1
    RowConcurrency = 1
    MaxAttempts = 2
    MaxFaults = 1
    MaxLives = 2
    RowsOf <- MCRowsOf
INVARIANT ResultsMatch
 
INVARIANT SlotsKept
PROPERTY EndsOnce
PROPERTY EveryBatchEnds

SPECIFICATION FairSpec
CONSTANTS
    MaxEvents = 4
    Sampled = {1, 2, 4}
    RingSize = 2
    SegRecs = 2
    SpoolMax = 2
    SpoolBatch = 1
    MaxLives = 2
    MaxFaults = 1
    TornCommit = FALSE
 
PROPERTY DurableCounters
 
PROPERTY CatchesUp

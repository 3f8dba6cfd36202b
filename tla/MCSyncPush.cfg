SPECIFICATION FairSpec
CONSTANTS
    N = 2
    Captures <- MCCaptures
    MaxBatch = 2
    Workers = {w1, w2}
INVARIANT NoSilentLoss
PROPERTIES ImplementsOfflineQueue Drained

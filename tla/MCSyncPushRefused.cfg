SPECIFICATION Spec
CONSTANTS
    N = 2
    Captures <- MCCapturesOther
    MaxBatch = 1
    Workers = {w1, w2}
INVARIANT RefusedNeverAcknowledged

SPECIFICATION FairSpec
CONSTANTS
    Callers = {sync, screen}
    Sync = sync
    Restorer = restorer
    MaxSignIns = 2
INVARIANTS NoSelfLockout TokenIsTheSessions
PROPERTIES RequestsEnd  FinishedMeansFinished

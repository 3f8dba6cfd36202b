SPECIFICATION Spec
SYMMETRY Interchangeable
CONSTANTS
    Workers = {w1, w2}
    Keys = {k1}
    NoKey = NoKey
    LastDay = 2
    DocAmounts = {3}
    PayAmounts = {2}
    MaxEntries = 4
INVARIANTS StatementsReconcile WalkAgreesWithLedger OldestDebtFirst ReversalRestores RecordedOnce SupplierAnswersHold

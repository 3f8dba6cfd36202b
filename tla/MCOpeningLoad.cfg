SPECIFICATION FairLoadSpec
CONSTANTS
    c1 = c1
    c2 = c2
    s1 = s1
    Customers = {c1, c2}
    Suppliers = {s1}
    Stranger = Stranger
    Runs = {r1, r2}
    Files <- MCFiles
    MaxCrashes = 2
INVARIANTS OneOpeningEach SignedIsLoaded
PROPERTY RerunsReconcile

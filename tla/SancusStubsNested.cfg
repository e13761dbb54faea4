SPECIFICATION FairSpec
CONSTANTS
    A = A
    B = B
    SM = {A, B}
    Unprotected = U
    Nobody = Nobody
    NEntries = 1
    RetWords <- OneEntry
    StackWords = 48
    MaxDepth = 4
    ResavesSp = TRUE
    CallsBack = TRUE
INVARIANT TypeOK
INVARIANT CallerStateRestored
INVARIANT SavedSpExact
INVARIANT StackUse
PROPERTY StubsShorten
PROPERTY StubsTerminate
PROPERTY ImplementsCalls

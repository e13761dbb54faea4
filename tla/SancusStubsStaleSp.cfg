SPECIFICATION Spec
CONSTANTS
    A = A
    B = B
    SM = {A, B}
    Unprotected = U
    Nobody = Nobody
    NEntries = 1
    RetWords <- OneEntry
    StackWords = 48
    MaxDepth = 4
    ResavesSp = FALSE
    CallsBack = TRUE
INVARIANT CallerStateRestored

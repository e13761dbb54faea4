SPECIFICATION Spec
CONSTANTS
    A = A
    B = B
    SM = {A, B}
    Unprotected = U
    Nobody = Nobody
    NEntries = 4
    RetWords <- FourEntries
    StackWords = 40
    MaxDepth = 3
    ResavesSp = FALSE
    CallsBack = FALSE
INVARIANT CallerStateRestored
PROPERTY NoResidue

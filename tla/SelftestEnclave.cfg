SPECIFICATION Spec
\* a TCS whose control is lost stays lost
CHECK_DEADLOCK FALSE
CONSTANTS
    tcs1 = tcs1
    tcs2 = tcs2
    Tcs <- MCTcs
    Builds <- MCBuilds
    M = 22
    Base <- MCBase
    End = 16
    Frame <- MCFrame
    Pointers <- MCPointers
    Addresses <- MCAddresses
CONSTRAINT Followed
INVARIANTS
    TypeOK
    PrivateIntact
    NoSecretOut
    ControlKept

SPECIFICATION FairSpec
CONSTANTS
    E1 = E1
    E2 = E2
    PvE = PvE
    Other = Other
    K1 = K1
    Measurement = {E1, E2}
    Signer = {PvE, Other}
    Whitelist = {PvE}
    ReqFlags <- SomeFlags
    ReservedMask <- Reserved
    ReqXfrm <- OneXfrm
    Random = {K1}
    KeyWords = 2
    Tries = 3
    EgetkeyFails = TRUE
    MaxWrites = 1
INVARIANT TypeOK
INVARIANT SignedAllowed
PROPERTY RefusalClears
PROPERTY SuccessVerifies
PROPERTY CallsBounded
PROPERTY CallsReturn

SPECIFICATION Spec
CONSTANTS
    E1 = E1
    E2 = E2
    PvE = PvE
    Other = Other
    K1 = K1
    Measurement = {E1, E2}
    Signer = {PvE, Other}
    Whitelist = {PvE}
    ReqFlags <- SomeFlags
    ReservedMask <- Reserved
    ReqXfrm <- OneXfrm
    Random = {K1}
    KeyWords = 2
    Tries = 2
    EgetkeyFails = TRUE
    MaxWrites = 0
PROPERTY SuccessHasMac

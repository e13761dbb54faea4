SPECIFICATION Spec
\* the call returns
CHECK_DEADLOCK FALSE
CONSTANTS
    B = 3
    W = 2
    R = {0, 1}
    Lengths <- MCLengths
    ZeroBlocks <- MCZeroBlocks
INVARIANT
    TransientsWiped

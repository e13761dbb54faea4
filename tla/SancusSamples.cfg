SPECIFICATION FairSpec
\* main ends with the simulation
CHECK_DEADLOCK FALSE
CONSTANTS
    WordSize = 4096
    PublicStart = 2764
    PublicEnd = 3598
    SecretStart = 512
    SecretEnd = 812
    Samples <- MCSamples
    Pointers <- MCPointers
    Numbers <- MCNumbers
    Lengths <- MCLengths
    FibNumbers <- MCFibNumbers
INVARIANTS
    TypeOK
    ReadsOutside
    Results
    DepthBounded
    Sums
PROPERTIES
    RefusesOnlyInside
    CallsEnd

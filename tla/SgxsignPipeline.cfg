SPECIFICATION Spec
CONSTANTS
    a = a
    b = b
    Zero = Zero
    NoFile = NoFile
    Linked = Linked
    k1 = k1
    k2 = k2
    d1 = d1
    d2 = d2
    Page = 2
    Images <- Contents
    Dates = {d1, d2}
    Keys = {k1, k2}
    IOErrors = TRUE
    MaxChanges = 1
    MaxJobs = 2
INVARIANT TypeOK
PROPERTY SuccessMeansLoadable
CHECK_DEADLOCK FALSE

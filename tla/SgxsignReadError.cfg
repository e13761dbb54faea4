SPECIFICATION Spec
CONSTANTS
    a = a
    b = b
    Zero = Zero
    NoFile = NoFile
    Linked = Linked
    k1 = k1
    k2 = k2
    d1 = d1
    d2 = d2
    Page = 2
    Images <- OneImage
    Dates = {d1, d2}
    Keys = {k1}
    IOErrors = TRUE
    MaxChanges = 1
    MaxJobs = 1
INVARIANT EveryPageMeasured
CHECK_DEADLOCK FALSE

SPECIFICATION Spec
\* every program ends: control leaves the module
CHECK_DEADLOCK FALSE
CONSTANTS
    Programs <- MCPrograms
    Words <- MCWords
INVARIANTS
    TypeOK
    NorClean
    ReturnsOnCallersStack
    RepFlagged

\* The system stops when the shell and its children have ended.
CHECK_DEADLOCK FALSE
SPECIFICATION Spec
CONSTANTS
    Lines <- MCLines
    Programs <- MCPrograms
    HOME <- MCHome
    PipeCapacity = 1
    MaxLines = 2
PROPERTY
    CdReturns

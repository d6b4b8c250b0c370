SPECIFICATION Spec
CONSTANTS
    N = 4
    MaxTime = 3
INVARIANTS FlagsAreTrue BasesAreBest
CHECK_DEADLOCK FALSE

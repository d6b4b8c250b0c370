SPECIFICATION Spec
CONSTANTS
    N = 4
    MaxTime = 3
    MaxRoots = 2
    MaxExclude = 1
INVARIANTS TypeOK EachOnce NothingMissed ChildrenFirst
PROPERTY ImplementsListing
CHECK_DEADLOCK FALSE

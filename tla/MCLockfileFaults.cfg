\* Two processes on one file, every mode, every fault.
SPECIFICATION Spec
CONSTANTS
    Proc = {p1, p2}
    Path <- OnePath
    Inode = {1, 2, 3, 4}
    Mode = {"mut", "readonly", "filelock"}
    Fault = {"crash", "open", "rename", "perm", "flush"}
    None = None
SYMMETRY Symmetry
INVARIANTS DropNeverPanics TargetStable
PROPERTIES OnlyCommitReplaces TornOnlyInFlight NoStaleLock

SPECIFICATION Spec
CONSTANTS
    Proc = {p1, p2}
    Path <- OnePath
    Inode = {1, 2, 3, 4, 5}
    Mode = {"filelock"}
    Fault = {}
    None = None
INVARIANT CommittedToDisk

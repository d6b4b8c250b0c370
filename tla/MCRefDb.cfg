\* Two processes at once, either of which may be killed, or one after the other.
SPECIFICATION Spec
CONSTANTS
    None = None
    p1 = p1
    p2 = p2
    Proc = {p1, p2}
    master = master
    topic = topic
    Branch = {master, topic}
    Master = master
    Suffixes <- MCSuffixes
    Bound <- MCBound
    Fault = {"kill", "signature"}
SYMMETRY Symmetry
INVARIANTS RefsResolve LogIsCurrent
PROPERTIES DoneIsLogged CommitExtends
CHECK_DEADLOCK FALSE

CONSTANTS
    d1 = d1
    d2 = d2
    d3 = d3
    p1 = p1
    p2 = p2
    FileOrder <- MCFileOrder
    Data = {d1, d2, d3}
    Size <- MCSize
    Ignorable = {"g"}
    None = None
    Proc = {p1, p2}
    Command = {"status", "add", "add_all"}
    MaxTime = 2
    MaxEdits = 1
    MaxCommands = 3
SPECIFICATION Spec
CHECK_DEADLOCK FALSE
SYMMETRY Symmetry
INVARIANTS StatusIsRight AddMatches

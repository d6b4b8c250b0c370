CONSTANTS
    k1 = k1
    k2 = k2
    k3 = k3
    p1 = p1
    p2 = p2
    Oid <- MCOid
    LastByte = 2
    Width = 3
    Pack = {k1, k2, k3}
    Entry <- MCEntry
    Written <- MCWritten
    Proc = {p1, p2}
    Reader = {p1}
    Writer = {p1, p2}
    Fetcher = {p2}
    Fault = {"kill"}
    None = None
    Bad = Bad
    Ambiguous = Ambiguous
SPECIFICATION Spec
INVARIANTS ReadIsRight MissOnlyAfterGap ExpandIsRight
PROPERTIES StoredIsVisible 

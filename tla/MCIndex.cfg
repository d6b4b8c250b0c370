\* Every operation but read_tree, on paths that collide.
SPECIFICATION Spec
CONSTANTS
    o1 = o1
    o2 = o2
    None = None
    PathOrder <- NestedPaths
    Oid = {o1, o2}
    ConflictStage = {"OURS"}
SYMMETRY Symmetry
INVARIANTS TreeIsIndex CacheCoherent CacheAsIfFresh MergedOrConflicted

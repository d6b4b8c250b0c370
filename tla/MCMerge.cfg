CONSTANTS
    v1 = v1
    v2 = v2
    v3 = v3
    ByteOrder <- MCByteOrder
    Family <- MCFamily
    Case <- MCCase
    Aside <- MCAside
    Directory = Directory
    None = None
    Ignored <- MCIgnored
    Committed = {v1, v2}
    Mine = mine
    Merged = merged
    Marked = marked
    Mixed = mixed
    Blob = {v1, v2, v3, mine, merged, marked, mixed}
    Fault = {"crash", "edit"}
SYMMETRY Symmetry
SPECIFICATION MergeSpec
INVARIANTS
    SafeKeepsWork
    ForcedIsExact
    EditSurvives
    SafeIsThreeWay
    DiffsAreRight
    MergedIsThreeWay
    CleanNeverFails
    
    WorkKept

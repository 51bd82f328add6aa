\* Three documents on pages of one, a crawl that stops after two, two
\* changes, a fault and three runs.
SPECIFICATION Spec
CONSTANTS
    Docs = {d1, d2, d3}
    Texts = {t1, t2}
    Models = {m1, m2}
    None = None
    PageSize = 1
    MaxItems = 2
    MaxEdits = 2
    MaxFaults = 1
    MaxRuns = 3
SYMMETRY Symmetry
CHECK_DEADLOCK FALSE
INVARIANTS
    TypeOK
    RowsMatchChunks
PROPERTIES
    MetaKeepsModel
    RebuildIsExact
    UpdateCatchesUp
    QuietPruneIsSound

\* One call that fails during a crawl.
SPECIFICATION Spec
CONSTANTS
    Docs = {d1, d2}
    Texts = {t1, t2}
    Models = {m1, m2}
    None = None
    PageSize = 1
    MaxItems = 3
    MaxEdits = 0
    MaxFaults = 1
    MaxRuns = 2
SYMMETRY Symmetry
CHECK_DEADLOCK FALSE
PROPERTIES
    PrunesOnlyGone

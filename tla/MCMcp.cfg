\* Two requests for two instances, three sessions of which two may live.
SPECIFICATION Spec
CONSTANTS
    Requests = {r1, r2}
    Instances = {i1, i2}
    SessionIds = {s1, s2, s3}
    Batches <- SmallBatches
    Nothing = Nothing
    TTL = 1
    MaxSessions = 2
    MaxTime = 2
SYMMETRY Symmetric
INVARIANTS
    EveryQuestionAnswered
    NoOrphans
PROPERTIES
    ActiveSessionsSurvive

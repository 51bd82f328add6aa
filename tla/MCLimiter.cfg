\* One bucket more than the map is allowed, so that the sweep runs; a minute
\* of three ticks and a cutoff just past it.
SPECIFICATION Spec
CONSTANTS
    k1 = k1
    k2 = k2
    Keys = {k1, k2}
    Rates <- ChangingRates
    Minute = 3
    MaxKeys = 1
    IdleCutoff = 4
INVARIANTS
    WindowBound
PROPERTIES
    ImplementsTokenBucket

\* Three keys in a map that is allowed two, so that the sweep runs; two calls,
\* so that a failure or a success arrives while the other call probes.
SPECIFICATION FairSpec
CONSTANTS
    FailureThreshold = 2
    OpenDuration = 2
    HalfOpenSuccesses = 2
    IdleCutoff = 1
    MaxKeys = 2
    Keys = {k1, k2, k3}
    Calls = {c1, c2}
INVARIANTS
    TripsOnThreshold
    ProbesAfterCooldown
PROPERTIES
    OpensOnlyOnStreak
    SweepKeepsOutages
    NeverShedsForever

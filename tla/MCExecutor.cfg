\* Two calls of one instance whose limit and budget change once.  The map can
\* hold a channel of the old limit while the other call is on one of the new,
\* and be asked for the new limit again: that takes a third.
SPECIFICATION FairSpec
CONSTANTS
    Keys = {k1}
    Calls = {c1, c2}
    Chans = {n1, n2, n3}
    NoChan = NoChan
    Settings <- SmallSettings
    Minute = 1
    FailureThreshold = 2
    OpenDuration = 1
    HalfOpenSuccesses = 1
    Timeout = 1
    MaxChanges = 1
INVARIANTS
    NothingHeldAfterReturn
PROPERTIES
    OnlyFailedRequestsTrip
    EveryCallReturns

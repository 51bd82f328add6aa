\* One key and three calls over every kind of limit.  When one call asks, the
\* other two and the map refer to three channels at most, so that with four a
\* replacement never waits for one.
SPECIFICATION FairSpec
CONSTANTS
    Keys = {k1}
    Calls = {c1, c2, c3}
    Limits = {0, 1, 2}
    Chans = {n1, n2, n3, n4}
    NoChan = NoChan
INVARIANTS
    TypeOK
    SlotsAccounted
    BoundedInFlight
PROPERTIES
    WaiterServed

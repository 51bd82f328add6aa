\* Two instances that take one slug after the other, one client request.
SPECIFICATION FairSpec
CONSTANTS
    Ids = {i1, i2}
    Slugs = {s1}
    Bases = {b1}
    Secrets = {x1}
    Versions = {v1, v2}
    First = v1
    Tokens = {t1}
    All = All
    Admins = {a1, a2}
    Requests = {r1}
    Nothing = Nothing
    CacheTTL = 0
    MaxWrites = 4
INVARIANTS
    RunsWhatWasAuthorised
    CacheFollowsWrites
    RegistryFollowsTable
PROPERTIES
    CacheConverges

\* Every kind of template in every slot of a tool, alone and beside others;
\* documents of up to three characters on pages of one to three; texts of up
\* to twelve characters in chunks of four and six, and five lines of headings;
\* libraries of up to five items on pages of two, which all limits can cut;
\* three chunks of which a ranking keeps two; three calls of two sizes, a cap
\* lowered and raised.
SPECIFICATION FairSpec
CONSTANTS
    Manifests <- SmallManifests
    Values <- SmallValues
    Credentials <- SmallCredentials
    Arguments <- SmallArguments
    Tools <- SmallTools
    Upstreams <- SmallUpstreams
    Offsets <- SmallOffsets
    PageLimits <- SmallLimits
    None = None
    Invalid = Invalid
    DefaultPage = 2
    MaxPage = 3
    PlainTexts <- SmallTexts
    Sizes = {0, 6}
    Overlaps <- SmallOverlaps
    DefaultSize = 4
    Documents <- SmallDocuments
    Fence = Fence
    Prose = Prose
    Bookmarks <- SmallBookmarks
    Repositories <- SmallRepositories
    Nameless = Nameless
    Other = Other
    PageLength = 2
    MaxBookmarks = 3
    MaxRepos = 3
    MaxFiles = 4
    Contents <- SmallContents
    MaxId = 3
    MinRelevance = 1
    Pool = 2
    Limits = {0, 1, 4}
    DefaultLimit = 2
    MaxLimit = 3
    RrfK = 60
    ToolCalls = {c1, c2, c3}
    EntrySizes = {2}
    Caps = {3, 4}
    Base = 1
    PruneBatch = 3
    MaxTime = 2
    MaxOperations = 2
CHECK_DEADLOCK FALSE
INVARIANTS
    NothingLeftOut
    WholeOrAbsent
    PagesCover
    ChunksCover
    SectionsExact
    UntruncatedSawAll
    HitsAreTheBest
PROPERTIES
    KeepsWhatFits
    CapEnforced

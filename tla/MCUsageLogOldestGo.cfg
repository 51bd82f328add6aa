\* Two entries half a second apart suffice, the older one logged on the full
\* second; and a file above its cap.
SPECIFICATION LogSpec
CONSTANTS
    ToolCalls = {c1, c2, c3}
    EntrySizes = {2}
    Caps = {3, 4}
    Base = 1
    PruneBatch = 3
    MaxTime = 2
    MaxOperations = 2
PROPERTIES
    OldestGo

CONSTANTS
    Files = {f, g, h}
    Ignored = {h}
    Bare = {2}
    MaxEdits = 3
    MaxFailures = 1
SPECIFICATION WatchSpec
INVARIANTS
    WatchSound
PROPERTIES
    KeepsUp
\* Nobody has to edit anything.
CHECK_DEADLOCK FALSE

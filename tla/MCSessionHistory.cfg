\* Three requests, one compaction, undisturbed rewinds, cancels, a close, a crash.
SPECIFICATION Spec
CONSTANTS
    main = main
    other = other
    Threads = {main, other}
    Main = main
    Other = other
    Requests = {1, 2, 3}
    Rewinds = "undisturbed"
    MaxCompacts = 1
    Shrinking = TRUE
    Restored = 1
    AutoCompact = FALSE
    Cancels = TRUE
    Resumes = FALSE
    Forks = FALSE
    MaxCloses = 1
    MaxCrashes = 1
INVARIANTS
    TypeOK
    MemoryMatchesStore
    NothingRestoredTwice
    SnapshotIsCurrent
PROPERTIES
    ConfirmedIsKept
CHECK_DEADLOCK FALSE

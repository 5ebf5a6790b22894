\* Two requests and everything else that may disturb them.
SPECIFICATION Spec
CONSTANTS
    main = main
    other = other
    Threads = {main, other}
    Main = main
    Other = other
    Requests = {1, 2}
    Rewinds = "any"
    MaxCompacts = 0
    Shrinking = FALSE
    Restored = 0
    AutoCompact = TRUE
    Cancels = FALSE
    Resumes = TRUE
    Forks = TRUE
    MaxCloses = 1
    MaxCrashes = 0
INVARIANT
    OneAtATime
PROPERTY
    EveryRequestEnds
CHECK_DEADLOCK FALSE

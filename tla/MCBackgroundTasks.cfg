\* Two tasks and everything that may disturb them.
SPECIFICATION Spec
CONSTANTS
    a = a
    b = b
    Tasks = {a, b}
    MaxConcurrent = 2
    MaxTexts = 2
    Submits = "any"
    Stops = TRUE
    Outcomes = {"fail", "interrupt"}
    Hooks = TRUE
    Overtaking = TRUE
    Endings = {"done"}
SYMMETRY Symmetry
INVARIANTS
    TypeOK
    DeliveredOnce
    StoppedIsSilent
CHECK_DEADLOCK FALSE

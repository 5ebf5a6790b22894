\* A cancel while the hooks of a launch run.
SPECIFICATION Spec
CONSTANTS
    a = a
    b = b
    Tasks = {a, b}
    MaxConcurrent = 2
    MaxTexts = 1
    Submits = "settled"
    Stops = FALSE
    Outcomes = {"interrupt"}
    Hooks = TRUE
    Overtaking = FALSE
    Endings = {"done"}
INVARIANT
    NoGhosts
CHECK_DEADLOCK FALSE

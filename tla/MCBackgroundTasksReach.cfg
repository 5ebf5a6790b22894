\* Two tasks left to themselves.
SPECIFICATION Spec
CONSTANTS
    a = a
    b = b
    Tasks = {a, b}
    MaxConcurrent = 2
    MaxTexts = 1
    Submits = "settled"
    Stops = FALSE
    Outcomes = {"fail"}
    Hooks = FALSE
    Overtaking = FALSE
    Endings = {"done", "timeout"}
PROPERTIES
    EverySlotIsFreed
    ResultsReachModel
CHECK_DEADLOCK FALSE

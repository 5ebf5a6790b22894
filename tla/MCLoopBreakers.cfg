SPECIFICATION Spec
CONSTANTS
    Tools = {read, grep, fetch}
    Inputs = {x}
    Kinds = {"schema", "execution"}
    FailureThreshold = 2
    ActionThreshold = 2
    SchemaThreshold = 2
    AggregateThreshold = 3
    WindowSize = 4
    MaxBatch = 2
    MaxResults = 5
INVARIANTS TypeOK HintsMatchHistory BreakersTrip
CHECK_DEADLOCK FALSE

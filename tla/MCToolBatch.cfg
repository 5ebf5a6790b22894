SPECIFICATION Spec
CONSTANTS
    N = 3
    M = 2
INVARIANTS
    TypeOK
    ToolUseClosed
    DisplayClosed
    RunsOnlyApproved
    EffectsAreRecorded
    InterruptionReported
PROPERTIES
    CancelEndsBatch
    ImplementsAtomicBatch

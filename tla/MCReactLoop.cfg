\* Three iterations, two additions, a background notice, repeated thoughts and
\* both compactions at any later iteration.
SPECIFICATION Spec
CONSTANTS
    MaxSteps = 3
    Items = 2
    MaxNotices = 1
    FullCompaction = TRUE
    MicroCompaction = TRUE
    Thoughts = {a}
    a = a
    StuckWindow = 2
    StuckThreshold = 2
INVARIANTS
    TypeOK
    ReceiptsTruthful
    ReadInOrder
    ClientFaithful
PROPERTY
    Terminates
CHECK_DEADLOCK FALSE

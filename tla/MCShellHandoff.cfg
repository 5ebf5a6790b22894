\* Two commands of which the client keeps one when they have ended.
SPECIFICATION Spec
CONSTANTS
    a = a
    b = b
    Commands = {a, b}
    MaxSlots = 1
    NoCommand = NoCommand
INVARIANTS
    TypeOK
    ToldOnce
    KilledByOwner
    NoLostWakeUp
PROPERTY
    EveryEndIsTold
CHECK_DEADLOCK FALSE

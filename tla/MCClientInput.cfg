\* Two texts of the user and a notice, one interruption.
SPECIFICATION Spec
CONSTANTS
    a = a
    b = b
    n = n
    Texts = {a, b}
    Notices = {n}
    Nothing = Nothing
    MaxInterrupts = 1
INVARIANTS
    TypeOK
    OneCopy
    NothingStranded
PROPERTY
    EverySendingSettles
CHECK_DEADLOCK FALSE

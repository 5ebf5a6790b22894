\* Three calls in one batch or in several, a written file, one restart allowed.
SPECIFICATION Spec
CONSTANTS
    a = a
    b = b
    c = c
    Calls = {a, b, c}
    Files = {"f"}
    Nobody = Nobody
    MaxRestarts = 1
    MaxSpawns = 4
SYMMETRY CallSymmetry
INVARIANTS
    TypeOK
    NoSilentWait
    OneServer
CHECK_DEADLOCK FALSE

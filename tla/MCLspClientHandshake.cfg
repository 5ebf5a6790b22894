\* Two calls of one batch, and a server that is not up.
SPECIFICATION Spec
CONSTANTS
    a = a
    b = b
    c = c
    Calls = {a, b}
    Files = {"f"}
    Nobody = Nobody
    MaxRestarts = 1
    MaxSpawns = 4
INVARIANT
    HandshakeFirst
CHECK_DEADLOCK FALSE

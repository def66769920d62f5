SPECIFICATION Spec
CONSTANTS
    Conns = {c1, c2}
    Ids = {p}
    NoId = NoId
    Faults = {"overlap"}
    MaxSends = 0
INVARIANT OneSession
\* All clients may be gone, and then nothing is left to do.
CHECK_DEADLOCK FALSE

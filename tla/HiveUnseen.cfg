SPECIFICATION Spec
CONSTANTS
    Conns = {c1, c2}
    Ids = {p, q}
    NoId = NoId
    Faults = {}
    MaxSends = 2
INVARIANT ReadMeansSeen
\* All clients may be gone, and then nothing is left to do.
CHECK_DEADLOCK FALSE

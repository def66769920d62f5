SPECIFICATION Spec
CONSTANTS
    Conns = {c1, c2}
    Ids = {p, q}
    NoId = NoId
    Faults = {"overlap", "crash", "fileError", "typo"}
    MaxSends = 1
SYMMETRY ConnSymmetry
INVARIANTS Inv OwnMailOnly OnlineEntryServed
\* All clients may be gone, and then nothing is left to do.
CHECK_DEADLOCK FALSE

SPECIFICATION FairSpec
CONSTANTS
    Threads = {t1, t2, t3}
    Draws <- SomeDraws
    MaxUploads = 1
INVARIANTS TypeOK Accounted WithinBuffer
PROPERTIES QueueMoves
\* Every client may have finished its uploads.
CHECK_DEADLOCK FALSE

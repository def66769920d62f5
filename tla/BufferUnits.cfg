SPECIFICATION Spec
CONSTANTS
    Threads = {t1}
    Draws = {30000}
    MaxUploads = 1
INVARIANT ChunkInKilobytes
\* Every client may have finished its uploads.
CHECK_DEADLOCK FALSE

SPECIFICATION Spec
CONSTANTS
    FileSize = 3
    Chunk = 2
    MaxUploads = 1
    FaultSets = {{}}
INVARIANT CompletedMeansStored
\* A session may end, and a client may stop typing.
CHECK_DEADLOCK FALSE

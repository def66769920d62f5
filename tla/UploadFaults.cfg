SPECIFICATION FairSpec
CONSTANTS
    FileSize = 5
    Chunk = 2
    MaxUploads = 3
    FaultSets = {{}, {"slow", "crash", "inject", "missing", "typo"}, {"slow", "crash", "disk", "huge"}}
INVARIANTS StreamInv AcceptedIntact NoPartialFile ShareWhileReceiving ThrownOutForAReason
PROPERTIES ServerSettles ClientSettles UploadSucceeds
\* A session may end, and a client may stop typing.
CHECK_DEADLOCK FALSE

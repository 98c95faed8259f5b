SPECIFICATION Spec
CONSTANTS
    Hashes = {1}
    Reasons <- MCReasons
    NoReason = ""
    MaxActiveDownloads = 1
    BTNoUpload = FALSE
    Failures = {"metainfo"}
    MaxRevision = 2
    MaxStale = 0
    Completions <- Incomplete
    ReaderKinds = {}
    Issued = {"resume"}
    Sources = {"file"}
    Legacy = {"Queued"}
INVARIANT DurableBlocksGovernGate

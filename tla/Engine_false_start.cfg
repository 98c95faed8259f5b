SPECIFICATION Spec
CONSTANTS
    Hashes = {1}
    Reasons <- MCReasons
    NoReason = ""
    MaxActiveDownloads = 1
    BTNoUpload = FALSE
    Failures = {}
    MaxRevision = 2
    MaxStale = 0
    Completions <- Incomplete
    ReaderKinds = {}
    Issued = {"resume", "pause"}
    Sources = {"file"}
    Legacy = {"Queued"}
INVARIANT StartedIsHonest

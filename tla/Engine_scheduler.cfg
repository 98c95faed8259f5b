SPECIFICATION Spec
CONSTANTS
    Hashes = {1, 2}
    Reasons <- MCReasons
    NoReason = ""
    MaxActiveDownloads = 1
    BTNoUpload = FALSE
    Failures = {"disk"}
    MaxRevision = 2
    MaxStale = 0
    Completions <- Incomplete
    ReaderKinds = {}
    Issued = {}
    Sources = {"file"}
    Legacy = {"Queued"}
INVARIANT SlotsBounded
 

SPECIFICATION Spec
CONSTANTS
    Hashes = {1}
    Reasons <- MCReasons
    NoReason = ""
    MaxActiveDownloads = 1
    BTNoUpload = FALSE
    Failures = {"disk", "database"}
    MaxRevision = 2
    MaxStale = 0
    Completions <- Incomplete
    ReaderKinds = {}
    Issued = {"add"}
    Sources = {"file"}
    Legacy = {"none"}
INVARIANT LatchGovernsGate

SPECIFICATION Spec
CONSTANTS
    Hashes = {1}
    Reasons <- MCReasons
    NoReason = ""
    MaxActiveDownloads = 1
    BTNoUpload = FALSE
    Failures = {"verify", "disk", "crash"}
    MaxRevision = 2
    MaxStale = 0
    Completions <- Incomplete
    ReaderKinds = {}
    Issued = {"resume", "recheck", "read"}
    Sources = {"file"}
    Legacy = {"Paused", "DiskFull", "Error"}
INVARIANT TypeOK
INVARIANT OpenGateAuthorised
INVARIANT UploadAwaitsVerification

SPECIFICATION Spec
CONSTANTS
    Hashes = {1}
    Reasons <- MCReasons
    NoReason = ""
    MaxActiveDownloads = 1
    BTNoUpload = FALSE
    Failures = {"database", "verify", "tasks"}
    MaxRevision = 2
    MaxStale = 0
    Completions <- Incomplete
    ReaderKinds = {}
    Issued = {"resume", "pause", "recheck"}
    Sources = {"file"}
    Legacy = {"Queued"}
INVARIANT VerifierIsDurable
INVARIANT OpenGateAuthorised
PROPERTY VerificationKeyOwned

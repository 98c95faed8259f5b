SPECIFICATION Spec
CONSTANTS
    Hashes = {1}
    Reasons <- MCReasons
    NoReason = ""
    MaxActiveDownloads = 1
    BTNoUpload = FALSE
    Failures = {"disk", "write", "database"}
    MaxRevision = 2
    MaxStale = 0
    Completions <- Incomplete
    ReaderKinds = {}
    Issued = {"resume", "pause"}
    Sources = {"file"}
    Legacy = {"DiskFull", "Queued"}
INVARIANT GatesFollowPolicy
INVARIANT PersistedLatchIsReal
INVARIANT LatchGovernsGate
PROPERTY DiskRecoveryIsDurable

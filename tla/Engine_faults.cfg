SPECIFICATION Spec
CONSTANTS
    Hashes = {1}
    Reasons <- MCReasons
    NoReason = ""
    MaxActiveDownloads = 1
    BTNoUpload = FALSE
    Failures = {"metainfo", "selection", "missing", "merge"}
    MaxRevision = 2
    MaxStale = 0
    Completions <- Incomplete
    ReaderKinds = {"stream"}
    Issued = {"resume", "priority", "metadata", "sync"}
    Sources = {"file"}
    Legacy = {"MissingFiles"}
INVARIANT AcknowledgedIsApplied

SPECIFICATION Spec
CONSTANTS
    Hashes = {1}
    Reasons <- MCReasons
    NoReason = ""
    MaxActiveDownloads = 1
    BTNoUpload = FALSE
    Failures = {"database", "shutdown", "crash"}
    MaxRevision = 2
    MaxStale = 1
    Completions <- Incomplete
    ReaderKinds = {}
    Issued = {"add", "delete"}
    Sources = {"magnet"}
    Legacy = {"none"}
PROPERTY DetachedWorkIsInert
 

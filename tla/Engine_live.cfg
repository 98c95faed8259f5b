SPECIFICATION FairSpec
CONSTANTS
    Hashes = {1}
    Reasons <- MCReasons
    NoReason = ""
    MaxActiveDownloads = 1
    BTNoUpload = FALSE
    Failures = {"verify", "shutdown"}
    MaxRevision = 2
    MaxStale = 0
    Completions <- Incomplete
    ReaderKinds = {}
    Issued = {"read", "pause"}
    Sources = {"file"}
    Legacy = {"Queued"}
CHECK_DEADLOCK FALSE
 
PROPERTY FreeSlotIsGranted
PROPERTY ChecksEnd

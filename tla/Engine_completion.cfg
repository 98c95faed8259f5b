SPECIFICATION Spec
CONSTANTS
    Hashes = {1}
    Reasons <- MCReasons
    NoReason = ""
    MaxActiveDownloads = 1
    BTNoUpload = FALSE
    Failures = {"disk"}
    MaxRevision = 2
    MaxStale = 0
    Completions <- MCCompletions
    ReaderKinds = {"stream", "preload"}
    Issued = {}
    Sources = {"file"}
    Legacy = {"Queued"}
PROPERTY LostSlotClosesGate

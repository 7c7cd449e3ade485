SPECIFICATION MCSpec
CONSTANTS
    MaxFiles = 2
    MaxDepth = 3
    PathSpace <- MCPaths
    MaxInodes = 6
    MaxLen = 2
    MaxStreams = 3
    JsonCap = 1
    DisableDownload = FALSE
    DisableUpload = FALSE
    Printing = TRUE
    MaxCalls = 3
    Creates <- MCCreates
    Renames <- MCRenames
    Patterns <- MCPatterns
    OwnerPaths <- MCOwnerPaths
    UploadNames <- MCUploadNames
    Contents = {1, 2}
    OwnerContents = {3}
    PipeCap = 1
    MaxWrites = 3
    MaxJobs = 2
CHECK_DEADLOCK FALSE
INVARIANTS HandlesSound DownloadKept PrintExact
PROPERTIES JobReturns

\* A file, a directory or an upload, then the root of the same server.
CONSTANTS
    Jobs <- ThenRoot
    Replies <- Polite
    Layouts <- Lines
    Chunks = 1
    MaxPrompts = 1
    Env = {"timeout", "merge", "cut", "noDial", "kill", "close", "streamError", "noServer"}
SPECIFICATION FairSpec
INVARIANTS
    InStep
    LoadedIsWhole
    AsksForUrl
\* The application has no more requests.
CHECK_DEADLOCK FALSE
PROPERTIES
    TransfersEnd

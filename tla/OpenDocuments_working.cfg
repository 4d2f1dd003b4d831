\* A form tool and a page tool at work on the documents of two sessions, and the results they
\* produce; beside it one window that is closed, killed and started, with two files and a link
\* that moves between them.
CONSTANTS
    MaxWorkspaces = 2
    MaxDocuments = 2
    Sources <- OneSource
    Outputs <- OneOutput
    Tools = {"rotate", "protect"}
    FormTools = {"protect"}
    LauncherFiles <- LaunchWithA
    Dropped <- OneAtATime
    NoPath = NoPath
    Windows = {w}
    PdfFiles = {a, b}
    Link = link
    MaxStored = 2
    MaxUnsaved = 2
SPECIFICATION DocumentsSpec
INVARIANTS NothingStoredWithoutConsent
PROPERTIES ShownAndKept RestoredAsClosed

\* A runner of jobs or of queries, started twice; three jobs with every conduct of
\* their worker; jobs of every operation as pages may ask for them.
SPECIFICATION JobsSpec
CONSTANTS
    MaxStarts = 2
    Kinds = {"job", "query"}
    Works <- WorkerWorks
    RequestSize = 3
    Capacity = 2
    MaxOutput = 4
    MaxMarks = 2
    Requests <- SampleRequests
    RealDir <- SampleDirs
    Links <- SampleLinks
    Files <- SampleFiles
    Odd <- SampleOdd
    Length <- SampleLengths
    MaxItems = 3
    MaxPage = 3
    MaxAreas = 2
    MaxOcrPages = 2
    MaxInputs = 3
    MaxOutputs = 2
    MaxMessage = 9
INVARIANTS
    WorkerGoneFirst
    AcceptedCancelNeverSucceeds
    OnlyTheAnnouncedFiles
    JobsAreUnderstood
PROPERTIES
    DeliveredIsTrue
    EveryJobEnds
CHECK_DEADLOCK FALSE

\* One query of a runner, whose private directory may fail to be made or removed; the pipes
\* and the messages do not run.
SPECIFICATION JobsSpec
CONSTANTS
    MaxStarts = 1
    Kinds = {"query"}
    Works <- WorkerWorks
    RequestSize = 3
    Capacity = 2
    MaxOutput = 4
    MaxMarks = 2
    Requests <- SampleRequests
    RealDir <- SampleDirs
    Links <- SampleLinks
    Files <- SampleFiles
    Odd <- SampleOdd
    Length <- SampleLengths
    MaxItems = 3
    MaxPage = 3
    MaxAreas = 2
    MaxOcrPages = 2
    MaxInputs = 3
    MaxOutputs = 2
    MaxMessage = 9
PROPERTIES
    EveryQueryEnds
CHECK_DEADLOCK FALSE

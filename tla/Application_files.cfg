\* A split into three files, others may take and free the planned names, and remove or
\* replace what was published; page operations on three small documents with layers; whole
\* documents transformed, with all that may go wrong in the building of a copy;
\* three workers that draw, with room for two; a corpus of eight files; the inspection of small files
\* of every kind under small limits.
\* And one window: automatic and manual checks, offers on top of each other; launches with up to
\* three files; four requests to the broker.
SPECIFICATION ApplicationSpec
CONSTANTS
  N = 3
  WalkBudget = 18
  EntryBudget = 28
  Pixels = 3
  Points = 2
  Margin = 1
  MaxPixels = 14
  MaxTotal = 20
  MaxScanned = 2
  MaxVersion = 2
  Drawers = {d1, d2, d3}
  MaxActive = 2
  NoDrawer = NoDrawer
  MaxSmokes = 1
  Nothing = Nothing
  CopyJobs <- SampleTasks
  PageDocs <- SampleDocs
  PageJobs <- SampleOperations
  MaxInputs = 4
  NoResult = NoResult
  Launches <- SomeLaunches
  Profiles <- SomeProfiles
  Listings <- SomeListings
  Installed = 2
  MaxRequests = 4
  NoPage = NoPage
INVARIANTS
  FailureLeavesNoneOrAll
  PagesAreTrue
  CopiesAreTrue
  BudgetOrNothing
  VerdictIsDeserved
  SaysWhatIsThere
  SourceCheckedOncePerConsent
  StartsOnce
  AnswersAreTrue
PROPERTIES
  ForeignUntouched
  KeepsPromise
  PublicationEnds
  ManualIsAnswered
CHECK_DEADLOCK FALSE

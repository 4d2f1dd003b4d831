\* One of the tool pages at work with two files, or a plan on a source of one page or two.
SPECIFICATION DocumentToolsSpec
CONSTANTS
  a = a
  b = b
  UserFiles = {a, b}
  FileVersions <- TwoOfA
  LockedVersions <- FirstOfA
  SignedVersions <- FirstOfBoth
  NoUserFile = NoUserFile
  NewFile = NewFile
  MaxEdits = 3
  MaxPreloaded = 2
  Models = {m, n}
  ShareVersions = 2
  MaxLanguages = 1
  ShownPages = {1, 2}
  Saved = {a}
  FullTurn = 2
  Operations = {"split", "extract", "remove"}
  PageCounts = {1, 2}
  Texts <- SomeTexts
  MaxGroups = 3
  MaxListed = 2
  MaxFile = 1
  Paths = {}
  NoPath = NoPath
  MaxVersion = 1
  Rewritable = {}
  Protected = {}
  Kinds = {"plan"}
  Capacity = 1
INVARIANTS
  ReplacementIsSafe
  ListIsTheUsers DoneAsShown BelongsToTheDocument InsertionFits
  PlansAreCarriedOut ResultIsOfTheSettings
CHECK_DEADLOCK FALSE

\* Two signed documents and a tool that asks for the choice of an unsigned copy; the bounds of
\* the other parts are those of DocumentTools_pages.cfg.
CONSTANTS
  a = a
  b = b
  UserFiles = {a, b}
  FileVersions <- TwoOfA
  LockedVersions <- FirstOfA
  SignedVersions <- FirstOfBoth
  NoUserFile = NoUserFile
  NewFile = NewFile
  MaxEdits = 3
  MaxPreloaded = 2
  Models = {m, n}
  ShareVersions = 2
  MaxLanguages = 1
  ShownPages = {1, 2}
  Saved = {a}
  FullTurn = 2
SPECIFICATION ChoiceSpec
INVARIANTS UnsignedCopyWasAskedFor
CHECK_DEADLOCK FALSE

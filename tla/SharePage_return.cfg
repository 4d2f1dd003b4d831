\* Two documents and the page of Check before sharing.
CONSTANTS
  Paths = {a, b}
  Copy = Copy
  NoPath = NoPath
  MaxVersion = 2
SPECIFICATION Spec
PROPERTIES ReturnStartsInspection
CHECK_DEADLOCK FALSE

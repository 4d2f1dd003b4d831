\* Two files opened, closed and opened again while two workers are busy; and the other
\* parts of the reader, as MCViewer gives them.
SPECIFICATION ReaderSpec
CONSTANTS
    a = a
    b = b
    Docs = {a, b}
    NoDoc = none
    Slots = 2
    MaxPending = 1
    MaxSerial = 4
    Words = {"invoice", "total", ""}
    NoWords = ""
    Blank = {""}
    MaxSearches = 3
    Texts <- TwoTexts
    MaxLayouts = 1
    MaxRequests = 3
    MaxOpenings = 2
INVARIANTS OnlyThePresentDocumentIsShown SearchIsOfTheField ReaderTellsWhatItShows
PROPERTIES CopiedIsSelected OpeningEnds
CHECK_DEADLOCK FALSE

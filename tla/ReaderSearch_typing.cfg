\* One word, typed while a document is being loaded.
SPECIFICATION Spec
CONSTANTS
    Words = {word}
    Blank = {NoWords}
    NoWords = NoWords
    MaxOpenings = 2
    MaxSearches = 2
INVARIANTS
    OpenSearchFollows
CHECK_DEADLOCK FALSE

SPECIFICATION FairSpec
CONSTANTS
    Ids = {r1, r2}
    Isolates = {i1, i2}
    None = None
    MaxVersion = 2
    WaitForIsolates = TRUE
INVARIANTS StoredStaysOpenable RunOpensWhatItFound CachesAreWellFormed
PROPERTIES RequestsAreAnswered StoredIsPublished

SPECIFICATION Spec
CONSTANTS
    Ids = {r1}
    Isolates = {i1}
    None = None
    MaxVersion = 2
    WaitForIsolates = FALSE
INVARIANTS StoredStaysOpenable

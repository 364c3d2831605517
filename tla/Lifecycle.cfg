SPECIFICATION Spec
CONSTANTS
    Ids = {i1, i2}
    Frames = {f1, f2}
    Callers = {c1, c2}
    None = None
    MaxFaults = 2
SYMMETRY Symmetry
INVARIANTS CopiesAreFaithful AcceptedIsHeld AckedIsSettled IInv
PROPERTIES UnknownIsTruthful ImplementsReportStatus

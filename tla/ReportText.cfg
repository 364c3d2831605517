SPECIFICATION Spec
CONSTANTS
    Reports <- MCReports
    TableHeads <- MCTableHeads
    RawHead = 3
    MaxIssueBodyRunes = 36
    Footer = 2
    MaxName = 2
    Marker = 2
CHECK_DEADLOCK FALSE
INVARIANTS NothingClosesTheFence TailSurvives ShapesAreMasked ScrubTwiceIsOnce 

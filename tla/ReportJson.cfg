SPECIFICATION Spec
CONSTANTS
    Reports <- MCJsonReports
    TableHeads <- MCTableHeads
    RawHead = 3
    MaxIssueBodyRunes = 36
    Footer = 2
    MaxName = 2
    Marker = 2
CHECK_DEADLOCK FALSE
INVARIANT WorksTheSameOnJson

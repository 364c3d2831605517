SPECIFICATION Spec
CONSTANTS
    Years <- MCYears
    MaxDelay = 3
CHECK_DEADLOCK FALSE
INVARIANTS GateReadsTheWall OneRunAFriday

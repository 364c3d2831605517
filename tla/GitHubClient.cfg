SPECIFICATION Spec
CONSTANTS
    Labels = 1
    Issues = 1
    MaxAttempts = 3
    MinSpacing = 2
    BaseBackoff = 2
    CapBackoff = 3
    SecondaryMin = 6
    Second = 2
    Delays = {0, 5}
    Resets <- MCResets
    MaxLag = 1
    None = None
CHECK_DEADLOCK FALSE
INVARIANTS GivesUpOnlyWhenSpent
PROPERTIES Spaced RetriesHonourAnswer CancelIsPrompt ImplementsIssueCall

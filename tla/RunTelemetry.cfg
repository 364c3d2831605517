SPECIFICATION FairTelSpec
CONSTANTS
    Ids = {1, 2}
    Frames = {good, bad}
    Callers = {cron, admin}
    Cron = cron
    None = None
    MaxFaults = 1
    Caps <- MCCaps
    Unopenable = {bad}
INVARIANTS TelTypeOK PublishedHasIssue CleanRunPublishedAll DuplicatesNeedFaults TraceIsWhole TraceIsTrue FailuresAlert
PROPERTIES PulledStaysOut BacklogDrains

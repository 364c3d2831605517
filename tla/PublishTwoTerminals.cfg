SPECIFICATION JobSpec
CONSTANTS
    Ids = {1}
    Frames = {good}
    Callers = {cron, admin}
    Cron = cron
    None = None
    MaxFaults = 0
    Caps = {0}
    Unopenable = {}
INVARIANTS OneTerminalStatus

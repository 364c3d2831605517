SPECIFICATION FairJobSpec
CONSTANTS
    Ids = {1, 2}
    Frames = {good, bad}
    Callers = {cron, admin}
    Cron = cron
    None = None
    MaxFaults = 0
    Caps = {1}
    Unopenable = {bad}
PROPERTIES OpenableDrains

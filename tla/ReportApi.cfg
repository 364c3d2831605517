SPECIFICATION FairApiSpec
CONSTANTS
    Ids = {i1}
    Frames = {f1}
    Callers = {h1, h2, cron}
    Handlers = {h1, h2}
    Endpoint = TRUE
    None = None
    MaxFaults = 1
INVARIANTS ApiTypeOK AnswersHold FailsClosed SpansTellTheTruth
PROPERTIES EveryRequestIsAnswered RemovalConverges

CONSTANTS
    o1 = o1
    o2 = o2
    w1 = w1
    w2 = w2
    Topics <- MCTopics
    NoTopic = NoTopic
    Backlog <- MCBacklog
    Orders = {o1, o2}
    NoOrder = NoOrder
    Products = {"milk"}
    Workers = {w1, w2}
    MaxAttempts = 2
    HourLength = 2
    MaxCopies = 2
    MaxReplays = 1
    MaxFaults = 3
SPECIFICATION FairSpec
INVARIANTS
    AnalyticsTypeOK
    ForgottenOnlyByFailedPoll
    FiguresTrue
PROPERTIES
    SummaryConverges
CHECK_DEADLOCK FALSE

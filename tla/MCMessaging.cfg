CONSTANTS
    r1 = r1
    r2 = r2
    m1 = m1
    m2 = m2
    e1 = e1
    e2 = e2
    Events = {e1, e2}
    Supported = {e1, e2}
    Poison = {e1}
    Relays = {r1, r2}
    Members <- MCMembers
    NoMember = NoMember
    BatchSize = 2
    MaxAttempts = 2
    ReplayLimit = 1
    MaxReplays = 1
    MaxFaults = 1
SPECIFICATION TurnsFairSpec
INVARIANTS
    TypeOK
    LostOnlyByFailedPoll
    SkippedOnlyByFailedPoll
    InOrderUnlessOverlapped
PROPERTIES
    ImplementsPromise
    EventsSettle
CHECK_DEADLOCK FALSE

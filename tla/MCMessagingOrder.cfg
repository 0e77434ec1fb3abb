CONSTANTS
    r1 = r1
    r2 = r2
    m1 = m1
    m2 = m2
    e1 = e1
    e2 = e2
    Events = {e1, e2}
    Supported = {e1, e2}
    Poison = {}
    Relays = {r1, r2}
    Members <- MCMembers
    NoMember = NoMember
    BatchSize = 2
    MaxAttempts = 3
    ReplayLimit = 1
    MaxReplays = 0
    MaxFaults = 0
SPECIFICATION TurnsSpec
INVARIANTS
    EffectsInOrder
CHECK_DEADLOCK FALSE

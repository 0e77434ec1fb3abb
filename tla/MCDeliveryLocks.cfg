CONSTANTS
    c1 = c1
    c2 = c2
    o1 = o1
    o2 = o2
    p1 = p1
    p2 = p2
    Couriers <- MCCouriers
    Orders <- MCOrders
    Processes <- MCProcesses
    NoCourier = NoCourier
    NoDelivery = NoDelivery
    AssemblingUntil = 0
    DeliveringUntil = 1
    DelayStep = 1
    MaxDelay = 1
    MaxAge = 1
    MaxReports = 2
    MaxDelays = 1
    MaxInputs = 2
SPECIFICATION LocksSpec
SYMMETRY Symm
INVARIANTS
    LocksTypeOK
    DeadlocksKnown
    CourierExclusive
    CourierStatusTruthful
    AnnouncedOnce
PROPERTIES
    HandlersAtomic
    FinishedStaysFinished
CHECK_DEADLOCK FALSE

CONSTANTS
    c1 = c1
    c2 = c2
    o1 = o1
    o2 = o2
    Couriers <- MCCouriers
    Orders <- MCOrders
    NoCourier = NoCourier
    NoDelivery = NoDelivery
    AssemblingUntil = 1
    DeliveringUntil = 2
    DelayStep = 1
    MaxDelay = 1
    MaxAge = 2
    MaxReports = 2
    MaxDelays = 1
SPECIFICATION Spec
INVARIANTS
    CancelledOrderHasNoCourier
CHECK_DEADLOCK FALSE

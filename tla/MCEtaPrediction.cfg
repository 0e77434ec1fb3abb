CONSTANTS
    Couriers = {c1}
    Workers <- MCWorkers
    w1 = w1
    w2 = w2
    Orders = {o1}
    NoCourier = NoCourier
    NoDelivery = NoDelivery
    AssemblingUntil = 1
    DeliveringUntil = 2
    DelayStep = 1
    MaxDelay = 1
    MaxAge = 2
    MaxReports = 3
    MaxDelays = 1
SPECIFICATION EtaSpec
SYMMETRY Symm
INVARIANTS
    EtaTypeOK
    OnePerWorkerLeftOpen
PROPERTIES
    EvaluatedForGood
CHECK_DEADLOCK FALSE

CONSTANTS
    c1 = c1
    o1 = o1
    Couriers <- MCCouriers
    Orders <- MCOrders
    NoCourier = NoCourier
    AssemblingUntil = 1
    DeliveringUntil = 3
    DelayStep = 1
    MaxDelay = 1
    MaxAge = 4
    MaxLag = 2
    MaxLost = 2
    MaxFailures = 2
    MaxReplays = 1
SPECIFICATION FairSpec
INVARIANTS
    TypeOK
    AgreeWhenSettled
    RefusedOnlyAfterFailure
    StrandedOnlyByLoss
PROPERTIES
    DeliveriesEndOrStrand
    CreatedOrdersSettle
    OrdersLearnTheEnd
CHECK_DEADLOCK FALSE

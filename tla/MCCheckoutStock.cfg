CONSTANTS
    h1 = h1
    h2 = h2
    k1 = k1
    k2 = k2
    a1 = a1
    a2 = a2
    o1 = o1
    o2 = o2
    Handlers <- MCHandlers
    Keys = {k1, k2}
    Attempts <- MCAttempts
    OrderIds <- MCOrderIds
    Products <- OneProduct
    ActiveProducts <- OneProduct
    InitialStock <- OneProductStock
    Baskets <- OneProductBaskets
    Requests <- MCRequests
    KnownUsers <- MCKnownUsers
    MaxCartVersion = 2
    MaxRequests = 2
    NoHandler = NoHandler
    NoKey = NoKey
    NoRequest = NoRequest
    NoAttempt = NoAttempt
    NoOrder = NoOrder
SPECIFICATION Spec
INVARIANTS
    LiveOrderHoldsStock
CHECK_DEADLOCK FALSE

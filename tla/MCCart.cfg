CONSTANTS
    s1 = s1
    s2 = s2
    Products <- MCProducts
    Quantities = {1}
    Sessions <- MCSessions
    NoCart = NoCart
    MaxVersion = 3
SPECIFICATION FairSpec
INVARIANTS
    TypeOK
    ItemsNoOlderThanVersion
PROPERTIES
    CacheConverges

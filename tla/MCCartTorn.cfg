CONSTANTS
    s1 = s1
    s2 = s2
    Products <- MCProducts
    Quantities = {1}
    Sessions <- MCSessions
    NoCart = NoCart
    MaxVersion = 2
SPECIFICATION Spec
INVARIANTS
    AnswersAreVersions

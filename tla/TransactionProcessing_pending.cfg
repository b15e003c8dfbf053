SPECIFICATION Spec
CONSTANTS
    Request = {r1}
    Tx = {t1}
    Number <- MCPositive
    Missing = Missing
    Invalid = Invalid
    DefaultLimit = 2
    MaxNeeded = 3
    MaxOther = 0
PROPERTIES
    GivenUpIsPending

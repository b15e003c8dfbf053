SPECIFICATION Spec
CONSTANTS
    Request = {r1, r2}
    Tx = {t1, t2}
    Number <- MCNumber
    Missing = Missing
    Invalid = Invalid
    DefaultLimit = 2
    MaxNeeded = 3
    MaxOther = 1
INVARIANTS
    TypeOK
    AtMostOneWasted
    GivenUpIsSlow
PROPERTIES
    RequestsAnswered
    ServiceKept

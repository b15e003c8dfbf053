SPECIFICATION Spec
CONSTANTS
    Request = {r1, r2}
    Number <- MCNumber
    Missing = Missing
    Invalid = Invalid
    Modulus = 8
    InitialEpoch = 1
    MaxOther = 1
INVARIANTS
    TypeOK
    EpochReached
    AtMostOneLateForce
    ExactWhenAlone
PROPERTIES
    RequestsAnswered
    ServiceKept

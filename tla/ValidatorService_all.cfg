SPECIFICATION Spec
CONSTANTS
    Request = {r1, r2}
    Key = {"k1", "k2"}
    Malformed = {"bad"}
    Batch <- MCBatch
    Number <- MCNumber
    Shard = {0, 1}
    NoPort = "off"
    Interface <- MCInterface
    MaxHeight = 2
INVARIANTS
    TypeOK
    AnswersAreTrue
    FreshAfterTwoRefreshes
PROPERTIES
    ResetReachesClients

SPECIFICATION Spec
CONSTANTS
    File <- MCFile
    DefaultFile = "default"
    DefaultNamed = {"default", "likeDefault"}
    Argument <- MCArgument
    Option = {"a", "b"}
    Value = {0, 1, 2, 9}
    Refused = {9}
    Own <- MCOwn
    Content <- MCContent
    Unreadable = Unreadable
    Number <- MCNumber
    Modulus = 8
    Shard = {0, 1}
    Port = {20, 21, 22}
    NodePort <- MCNodePort
    FileObserver <- MCFileObserver
    FilePort = {30}
    Wallet = {"w1", "w2"}
    FolderKey = {"k1", "k2", "k3"}
    OldPem <- MCOldPem
INVARIANTS
    TypeOK
    LastFileWins
    NoOverrideLost
    ValidatorsAsAsked
    ProxyServesThisChain
    PemHasWallets

SPECIFICATION Spec
CONSTANTS
    p1 = p1
    p2 = p2
    v1 = v1
    v2 = v2
    Process = {p1}
    File = {f1, f2}
    Version <- TwoVersions
    Head = Head
    Partial = Partial
    None = None
    Unseen = {}
    MaxRuns = 1
INVARIANTS
    ReadyHasAllConfigs

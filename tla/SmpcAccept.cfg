\* One validator and a request of each kind.
SPECIFICATION FairSpec
CONSTANTS
    g = g
    b = b
    x = x
    Validators = {v1}
    Keys = {g, b, x}
    Kind <- MCKind
    Threshold = 1
    OverTime = 0
    AcceptOverTime = 0
    NoKey = NoKey
    None = None
INVARIANTS SignedWasSeen
PROPERTIES GoodIsAdmitted KeepsBeating

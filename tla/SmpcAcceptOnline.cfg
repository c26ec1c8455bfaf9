\* Two validators, one request.
SPECIFICATION Spec
CONSTANTS
    g = g
    b = b
    x = x
    Validators = {v1, v2}
    Keys = {g, b}
    Kind <- MCKindTwo
    Threshold = 2
    OverTime = 1
    AcceptOverTime = 1
    NoKey = NoKey
    None = None
PROPERTIES AllOnline

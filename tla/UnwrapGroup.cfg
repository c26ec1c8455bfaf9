\* Two validators that both have to agree; one of them deals with the order.
SPECIFICATION GroupSpec
CONSTANTS
    a = a
    b = b
    a1 = a1
    b1 = b1
    Validators = {a, b}
    Threads = {a1}
    Proc <- OneOfTwo
    Orders = {o1}
    Keys = {k1}
    NoOrder = NoOrder
    NoKey = NoKey
    Threshold = 2
    OverTime = 0
    AcceptOverTime = 0
    None = None
INVARIANTS PaidWasSeen
PROPERTIES  ImplementsAccept

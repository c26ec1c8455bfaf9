\* Two validators, three goroutines, two orders, three sign requests.
SPECIFICATION Spec
CONSTANTS
    a = a
    b = b
    a1 = a1
    a2 = a2
    b1 = b1
    Validators = {a, b}
    Threads = {a1, a2, b1}
    Proc <- TwoProcs
    Orders = {o1, o2}
    Keys = {k1, k2, k3}
    NoOrder = NoOrder
    NoKey = NoKey
SYMMETRY Symmetry
INVARIANTS TypeOK PaidAtMostOnce PaidIsOnRecord OneWorker RequestLeavesTrace
PROPERTIES SureError ImplementsOnce

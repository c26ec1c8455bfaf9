\* One validator, one goroutine, two payments in its recheck queue.
SPECIFICATION FairSpec
CONSTANTS
    a = a
    b = b
    a1 = a1
    a2 = a2
    b1 = b1
    Validators = {a}
    Threads = {a1}
    Proc <- OneProc
    Orders = {o1, o2}
    Keys = {k1, k2}
    NoOrder = NoOrder
    NoKey = NoKey
PROPERTIES DecidedLeavesQueue 

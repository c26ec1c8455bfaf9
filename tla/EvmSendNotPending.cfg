\* One listener and one order.
\* With no order left and an empty queue the process rests.
CHECK_DEADLOCK FALSE
SPECIFICATION Spec
CONSTANTS
    Listeners = {l1}
    Recorders = {}
    Orders = {o1}
    PendingTime = 2
    MaxNonce = 1
    MaxPrice = 1
    MaxForgets = 0
    NoOrder = NoOrder
    NoTx = NoTx
INVARIANTS NotPendingEver

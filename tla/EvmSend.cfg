\* One order that the listener and the failure record goroutine deal with again
\* and again, across one expiry or restart; two nonces, and two price levels to
\* speed up through.
SPECIFICATION FairSpec
CONSTANTS
    Listeners = {l1}
    Recorders = {r1}
    Orders = {o1}
    PendingTime = 1
    MaxNonce = 2
    MaxPrice = 1
    MaxForgets = 1
    NoOrder = NoOrder
    NoTx = NoTx
INVARIANTS TypeOK ExaminedIsHead VotesBounded
PROPERTIES LeavesForAReason QueueDrains

\* Three outputs with the token, three with coins only, pages of two and a limit of
\* two: the limit is reached on a first page, and further pages follow.
\* A built payment is the end.
CHECK_DEADLOCK FALSE
SPECIFICATION FairSpec
CONSTANTS
    Wallet <- MCWallet
    PageSize = 2
    MaxInput = 2
    Amounts = {1, 4, 7}
    RentTo = 2
    RentSelf = 1
    RentLeft = 1
INVARIANTS TypeOK InputsDistinct Balanced Covered OverrunOnePerPage
PROPERTIES BuildEnds

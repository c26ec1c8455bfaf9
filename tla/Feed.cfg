\* A channel of one message and six events, one at least of every kind.
SPECIFICATION FairSpec
CONSTANTS
    EventKind <- MCEvents
    Cap = 1
    MalformedType = 1
INVARIANTS TypeOK InOrder NothingAbandoned 
PROPERTIES ListensAgain PushedIsDealt

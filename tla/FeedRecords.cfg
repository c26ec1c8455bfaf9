\* The failure records: an unbuffered channel, and type 0 for bad data.
SPECIFICATION Spec
CONSTANTS
    EventKind <- MCRecords
    Cap = 0
    MalformedType = 0
INVARIANTS ReconnectIsNeeded

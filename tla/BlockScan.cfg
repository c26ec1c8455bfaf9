\* Six blocks, queries cut at two: ranges of one, two and three blocks occur.
SPECIFICATION FairSpec
CONSTANTS
    MaxHeight = 5
    ScanMaxHeight = 2
INVARIANTS TypeOK SentExactlyOnce
PROPERTIES InChainOrder EveryBlockSent

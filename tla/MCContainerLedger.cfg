CONSTANTS
    c1 = c1
    c2 = c2
    Cid <- MCCid
    Time <- MCTime
    Never = Never
    MaxFaults = 2
    MaxRestarts = 1
SPECIFICATION FairSpec
INVARIANTS
    TypeOK
PROPERTIES
    RemovalIsFinal
    UpsertIsWhole
    TotalIsCurrent
    IsAtomicLedger
    GoneIsRecorded

CONSTANTS
    Container <- MCContainer
    NumModules = 2
    MaxSignals = 2
    DockerErrors = TRUE
SPECIFICATION FairSpec
INVARIANTS
    TypeOK
    AtMostOneLate
    OrderlyStopLeavesOne
    AtMostOneUnloaded
    SuccessMeansReloaded
PROPERTIES
    SignalEndsDaemon
    GeneratorEndsWithDaemon
CHECK_DEADLOCK FALSE

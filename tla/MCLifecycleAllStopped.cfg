CONSTANTS
    Container <- MCContainer
    NumModules = 1
    MaxSignals = 1
    DockerErrors = FALSE
SPECIFICATION FairSpec
PROPERTIES
    AllStopped
CHECK_DEADLOCK FALSE

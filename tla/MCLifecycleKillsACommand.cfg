CONSTANTS
    Container <- MCContainer
    NumModules = 1
    MaxSignals = 1
    DockerErrors = FALSE
SPECIFICATION Spec
INVARIANTS
    KillsACommand
CHECK_DEADLOCK FALSE

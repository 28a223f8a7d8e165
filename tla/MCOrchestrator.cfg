CONSTANTS
    HighCPU <- MCHighCPU
    HighRAM <- MCHighRAM
    Low <- MCLow
    desiredHighContainers = 1
    desiredLowContainers = 1
    MaxFaults = 1
    MaxIndex = 2
    DockerErrors = TRUE
SPECIFICATION OrchSpec
INVARIANTS
    OrchTypeOK
    KindBounded
    ConflictIsWithSurvivor

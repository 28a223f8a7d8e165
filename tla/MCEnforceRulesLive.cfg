CONSTANTS
    HighCPU <- MCHighCPU
    HighRAM <- MCFewHighRAM
    Low <- MCLow
    desiredHighContainers <- MCDesiredHigh
    desiredLowContainers <- MCDesiredLow
    MaxFaults = 1
SPECIFICATION FairSpec
PROPERTIES
    QuotaReached

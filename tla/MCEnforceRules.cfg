CONSTANTS
    HighCPU <- MCHighCPU
    HighRAM <- MCHighRAM
    Low <- MCLow
    desiredHighContainers <- MCDesiredHigh
    desiredLowContainers <- MCDesiredLow
    MaxFaults = 1
SPECIFICATION Spec
INVARIANTS
    TypeOK
    QuotaKept
    HeirsRemain
    ListingSuffices
PROPERTIES
    ControlsHigh
    ControlsLow

CONSTANTS
    daemon = daemon
    other = other
    Reader <- MCReader
    Torn = Torn
    Word <- MCWord
    MaxTicks = 3
    MaxFaults = 0
    MaxRetries = 0
SPECIFICATION Spec
INVARIANTS
    IsPercentage

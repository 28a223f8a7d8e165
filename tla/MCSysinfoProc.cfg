CONSTANTS
    daemon = daemon
    other = other
    Reader <- MCReader
    Torn = Torn
    Word <- MCWord
    MaxTicks = 3
    MaxFaults = 1
    MaxRetries = 1
SPECIFICATION Spec
SYMMETRY Symmetry
INVARIANTS
    TypeOK
    AloneIsExact
    NoTickEscapes

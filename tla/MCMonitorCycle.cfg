CONSTANTS
    p1 = p1
    p2 = p2
    client = client
    worker = worker
    Pid <- MCPid
    Program <- MCProgram
    Docker <- MCDocker
    Stress <- MCStress
    None = None
    NumCPUs = 2
    Second = 1000
    HZ = 100
    MaxTime = 3
    MaxChanges = 2
    MaxMishaps = 1
SPECIFICATION Spec
ACTION_CONSTRAINT MachineBeforeTurn
SYMMETRY Symmetry
INVARIANTS
    TypeOK
    ProcShareIsOfInterval
    BusyProcHasShare
    ProcShareIsOfOneCPU
    ContShareIsOfInterval
    ContShareIsPercentage

CONSTANTS
    p1 = p1
    p2 = p2
    client = client
    worker = worker
    Pid <- MCPid
    Program <- MCProgram
    Docker <- MCDocker
    Stress <- MCStress
    None = None
    NumCPUs = 2
    Second = 1000000000
    HZ = 100
    MaxTime = 1
    MaxChanges = 0
    MaxMishaps = 0
SPECIFICATION Spec
INVARIANTS
    ProcShareIsPercentage

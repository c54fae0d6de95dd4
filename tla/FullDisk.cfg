SPECIFICATION Spec
CONSTANTS
    loop = loop
    timer = timer
    service = service
    Procs <- SameJob
    LockFiles = {"run"}
    Series = {"mysql_full_"}
    Data = {d1}
    None = None
    Torn = Torn
    Config <- MCConfig
    MaxTime = 1
    MaxRun = 1
    MaxFaults = 0
    ShortWrites = TRUE
PROPERTY ReturnsSealed

SPECIFICATION Spec
CONSTANTS
    loop = loop
    timer = timer
    service = service
    Procs <- TwoJobs
    LockFiles = {"run", "tmp"}
    Series = {"mysql_full_", "service_"}
    Data = {d1}
    None = None
    Torn = Torn
    Config <- MCConfig
    MaxTime = 2
    MaxRun = 1
    MaxFaults = 0
    ShortWrites = FALSE
PROPERTIES ReturnsSealed ExpireOnlyOld

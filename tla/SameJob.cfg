SPECIFICATION Spec
CONSTANTS
    loop = loop
    timer = timer
    service = service
    Procs <- SameJob
    LockFiles = {"run"}
    Series = {"mysql_full_"}
    Data = {d1, d2}
    None = None
    Torn = Torn
    Config <- MCConfig
    MaxTime = 2
    MaxRun = 1
    MaxFaults = 2
    ShortWrites = FALSE
INVARIANTS TypeOK OneRunPerLock PublishedWhole OrphansOnlyFromCut MismatchOnlyUnsealed
PROPERTIES RunEnds ImplementsStore

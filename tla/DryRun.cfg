SPECIFICATION RestoreSpec
CONSTANTS
    loop = loop
    Procs = {loop}
    LockFiles = {"run"}
    Series = {"files_"}
    Data = {d1}
    None = None
    Torn = Torn
    Config <- MCConfig
    MaxTime = 1
    MaxRun = 0
    MaxFaults = 0
    ShortWrites = FALSE
    Readers = {reader}
    Sources = {"sqlite", "server"}
    Checked = TRUE
    Structured = TRUE
    Rotten = Rotten
    Foreign = Foreign
PROPERTY DryRunInert

SPECIFICATION RestoreSpec
CONSTANTS
    loop = loop
    Procs = {loop}
    LockFiles = {"run"}
    Series = {"files_"}
    Data = {d1, d2}
    None = None
    Torn = Torn
    Config <- MCConfig
    MaxTime = 2
    MaxRun = 0
    MaxFaults = 0
    ShortWrites = FALSE
    Readers = {reader}
    Sources = {"files", "service"}
    Checked = TRUE
    Structured = TRUE
    Rotten = Rotten
    Foreign = Foreign
PROPERTIES AlarmFounded DamageFound RefusesDamaged Confirmed DryRunInert

SPECIFICATION Spec
CONSTANTS
    fired = fired
    gui = gui
    Clients = {fired, gui}
    Removers = {fired}
    Provisions = {gui}
    Data = {d1}
    None = None
    Torn = Torn
    Pipefail = TRUE
    Silences = TRUE
    Hangs = TRUE
    MaxTime = 1
    MaxFaults = 2
INVARIANTS TypeOK Delivered LeftMeant
PROPERTIES RemovedDelivered RunEnds
CHECK_DEADLOCK FALSE

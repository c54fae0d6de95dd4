SPECIFICATION Spec
CONSTANTS
    fired = fired
    gui = gui
    Clients = {fired, gui}
    Removers = {fired, gui}
    Provisions = {gui}
    Data = {d1}
    None = None
    Torn = Torn
    Pipefail = FALSE
    Silences = FALSE
    Hangs = FALSE
    MaxTime = 1
    MaxFaults = 2
INVARIANT Delivered

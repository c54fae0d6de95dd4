SPECIFICATION Spec
CONSTANTS
    gui = gui
    fired = fired
    Admin = gui
    Runs = {fired}
    None = None
    Blank = Blank
    UserCron = TRUE
    MaxCrashes = 1
INVARIANTS TypeOK InStep StoppedStays

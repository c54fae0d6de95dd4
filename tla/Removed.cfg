SPECIFICATION Spec
CONSTANTS
    gui = gui
    fired = fired
    Admin = gui
    Runs = {fired}
    None = None
    Blank = Blank
    UserCron = FALSE
    MaxCrashes = 0
INVARIANT RemovedStaysRemoved

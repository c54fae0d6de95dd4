SPECIFICATION Spec
CONSTANTS
    here = here
    there = there
    mysql = mysql
    postgresql = postgresql
    Servers = {here, there}
    Engines = {mysql, postgresql}
    None = None
    MaxAsked = 5
INVARIANTS TypeOK BusyCounts CacheOfTarget AlarmMeant SettledDatabases
PROPERTY BusyEnds
CHECK_DEADLOCK FALSE

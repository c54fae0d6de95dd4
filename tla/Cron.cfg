SPECIFICATION Spec
CONSTANTS
    Exprs <- MCExprs
    Onces <- MCOnces
    Starts <- MCStarts
    Sixty = 2
    Horizon = 24
    Clock <- MCClock
    Ranges <- MCRanges
    Week = 3
    Never = Never
    RowLimit = 5
INVARIANTS TypeOK NextIsFirst LaunchdAsShown SystemdAsShown CrontabAsShown
CHECK_DEADLOCK FALSE

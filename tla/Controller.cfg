SPECIFICATION Spec
CONSTANTS
    Slots = {s1, s2}
    Size = 2
    Capacity = 1
    None = None
    Asked <- MCAsked
    Plans <- MCPlans
INVARIANTS TypeOK CancelMeant ExitTrue OneWriter
PROPERTIES PlanKept BusyEnds ChildrenEnd

CONSTANTS
    a = a  b = b  r1 = r1  r2 = r2
    Volunteer = {a, b}
    Shift = {1, 2}
    Lead <- OneLead
    Training = {2}
    Roster <- TwoOnOne
    Coordinators = Coordinators
    Run = {r1, r2}
    MaxChanges = 1
    MaxFaults = 1
INVARIANTS NudgedOnce MarkedSettled
PROPERTIES PendingOnly EveryShiftWrappedUp
SPECIFICATION FairSpec

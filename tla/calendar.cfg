SPECIFICATION CalFairSpec
CONSTANTS
    v1 = v1  v2 = v2  s1 = s1  r1 = r1  r2 = r2
    Volunteer = {v1}
    Shift = {s1}
    DateOf <- Days
    Known = {}
    OpenSun = 0
    Req = {r1, r2}
    Nobody = Nobody
    MaxRequests = 4
    MaxFaults = 1
    MaxCopies = 5
    MaxBackfills = 1
INVARIANT CalendarAgrees
PROPERTY CalendarSettles

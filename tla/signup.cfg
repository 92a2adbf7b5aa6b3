CONSTANTS
    a = a  b = b  s1 = s1  s2 = s2  r1 = r1  r2 = r2
    Nobody = Nobody
    Volunteer = {a, b}
    Shift = {s1, s2}
    DateOf <- TwoDays
    Known = {2, 3, 4}
    OpenSun = 4
    Req = {r1, r2}
    MaxRequests = 4
    MaxFaults = 1
SYMMETRY Symmetric
INVARIANTS NoticesAgree ArrivalInTime AutoDateGrounded
PROPERTY NeverPostponed
SPECIFICATION Spec

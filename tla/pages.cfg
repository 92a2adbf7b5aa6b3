SPECIFICATION Spec
CONSTANTS
    a = a  b = b  t1 = t1  t2 = t2  t3 = t3  s1 = s1  s2 = s2  s3 = s3  class = class  off = off
    Mine = Mine  NoData = NoData
    Browser = {t1, t2, t3}
    Volunteer = {a, b}
    UserOf <- Users
    Sessions <- Days
    Shift = {s1, s2, s3, class, off}
    Future = {s1, s3, class}
    Canceled = {off}
    Training <- Before
    Clash <- Pair
    Slots = 1
    FirstOn <- First
    MaxOps = 2
    MaxFaults = 1
INVARIANTS SettledPagesAgree SlotsKept NoDoubleBooking
CHECK_DEADLOCK FALSE

SPECIFICATION Spec
CONSTANTS
    w1 = w1
    w2 = w2
    c1 = c1
    c2 = c2
    c3 = c3
    a1 = a1
    a2 = a2
    Worker <- TwoWorkers
    Call <- TwoCalls
    Rcpt <- OneAddress
    To <- ToOne
    Direct = {c2}
    MaxRows = 2
    Backoff <- ShortBackoff
    Minute = 1
    Day = 2
    RatePerMinute = 2
    RatePerDay = 3
    MaxFaults = 0
    MaxCrashes = 1
    MaxOutages = 1
    MaxUnheard = 1
SYMMETRY WorkerSymmetry
INVARIANTS
    ClaimExclusive
PROPERTIES
    DeliversMail
    RequeueDelay

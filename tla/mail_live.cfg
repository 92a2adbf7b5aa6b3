SPECIFICATION FairSpec
CONSTANTS
    w1 = w1
    w2 = w2
    c1 = c1
    c2 = c2
    c3 = c3
    a1 = a1
    a2 = a2
    Worker <- OneWorker
    Call <- TwoCalls
    Rcpt <- OneAddress
    To <- ToOne
    Direct = {c2}
    MaxRows = 2
    Backoff <- ShortBackoff
    Minute = 1
    Day = 2
    RatePerMinute = 1
    RatePerDay = 1
    MaxFaults = 1
    MaxCrashes = 0
    MaxOutages = 1
    MaxUnheard = 1
INVARIANTS
    AtMostOnce
    RateRespected
PROPERTIES
    SettledIsFinal
    EveryMailTried
    DeliversEveryMail

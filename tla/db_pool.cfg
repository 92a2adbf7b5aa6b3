SPECIFICATION FairSpec
CONSTANTS
    s1 = s1   p1 = p1  p2 = p2  c1 = c1  c2 = c2
    None = None
    Client = {s1}
    Ping = {p1, p2}
    Conn = {c1, c2}
    MaxBreaks = 2
    MaxOutages = 1
    MaxSlow = 1
INVARIANTS OnePlace OneDeathUnnoticed
PROPERTIES OneDrainHeals EveryStatementEnds PoolHeals

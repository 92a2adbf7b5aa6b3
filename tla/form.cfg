SPECIFICATION Spec
CONSTANTS
    A = A  B = B  p = p  q = q  r1 = r1  r2 = r2
    NoRow = NoRow  NoType = NoType
    Type = {A, B}
    Slot = {1, 2}
    Position = {p, q}
    TimeId = {1, 2, 3, 4, 5, 6}
    PosId = {1, 2, 3, 4, 5, 6, 7, 8, 9, 10}
    FirstTime <- OneTime
    FirstPos <- OneRow
    Req = {r1, r2}
    MaxForms = 2
    MaxEdits = 2
    MaxFaults = 1
    MaxSignUps = 1
SYMMETRY Forms
INVARIANT NobodyLeftBehind
PROPERTIES SavedAsSent KeptRowsStay
CHECK_DEADLOCK FALSE

SPECIFICATION FairSpec
CONSTANTS
    a = a  b = b  m = m  t1 = t1  t2 = t2  t3 = t3  r1 = r1  r2 = r2
    Nobody = Nobody  NoReq = NoReq
    Person = {a, b}
    Mail = {}
    Account <- NoMail
    Req = {r1, r2}
    Ticket = {t1, t2}
    TicketDate <- TwoDates
    MaxPass = 2
    AutoDay <- AutoDays
    Ops = {"upload", "assign", "unassign", "issue"}
INVARIANTS OneActivePass AssignedUnseen
PROPERTIES NeverEmptyHanded KeepsLedger EveryHandlerAnswers

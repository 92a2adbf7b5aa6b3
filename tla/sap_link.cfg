CONSTANTS
    a = a  b = b  m = m  t1 = t1  t2 = t2  t3 = t3  r1 = r1  r2 = r2
    Nobody = Nobody  NoReq = NoReq
    Person = {a}
    Mail = {m}
    Account <- ToA
    Req = {r1, r2}
    Ticket = {t1, t2}
    TicketDate <- TwoDates
    MaxPass = 2
    AutoDay <- AutoA
    Applicant <- Rate
    WorkDays <- Work
    DateLists <- Calendars
    EventDate <- Placed
    Former <- LastYear
    Ops = {"upload", "assign", "auto", "unassign", "email", "issue", "link", "self"}
SYMMETRY Handlers
INVARIANTS OwnedOnce PagesAgree
PROPERTIES IssuedForGood
SPECIFICATION Spec

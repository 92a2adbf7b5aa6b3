SPECIFICATION Spec
CONSTANTS
    p = p  q = q  e1 = e1  e2 = e2  f = f  r1 = r1  r2 = r2
    NoRow = NoRow  NoOne = NoOne  Admin = Admin  SuperAdmin = SuperAdmin
    Person = {p, q}
    Mail = {e1, e2, f}
    MailOwner <- Owners
    Id = {1, 2, 3, 4, 5}
    FirstAccount <- Accounts
    FirstRole <- Supers
    History <- Before
    Roster <- Listed
    Role = {Admin, SuperAdmin}
    Req = {r1, r2}
    MaxOps = 3
    MaxEdits = 1
    MaxFaults = 1
INVARIANTS OneAccount LastSuperAdmin
PROPERTY StaysOnAccount
SYMMETRY Handlers
CHECK_DEADLOCK FALSE

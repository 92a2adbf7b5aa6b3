------------------------------- MODULE Access -------------------------------
(***************************************************************************)
(* Who a volunteer is and what she may do: the sign-in with Okta that      *)
(* finds her account or creates one (auth/okta/callback), and the roles    *)
(* that admins and the roster grant and take away (roles/[roleId]/         *)
(* volunteers).  Requests run statement by statement; statements may fail. *)
(*                                                                         *)
(* Left out: names, passcodes and the Burner Profile, which decide         *)
(* nothing, the exchange with Okta before the first statement, and the     *)
(* off-book passes of the sign-in (SapPool).                               *)
(***************************************************************************)
EXTENDS Integers, FiniteSets

CONSTANTS
    Person,      \* okta_id
    Mail,        \* addresses
    MailOwner,   \* whose an address is
    Id,          \* shiftboard_id: numbers from 1
    FirstAccount,\* accounts at the beginning: id -> okta, mail
    FirstRole,   \* roles held at the beginning: <<id, role>>
    History,     \* sb_pinfo: mail, id, since, and whether it is current
    Roster,      \* op_role_grant_roster: <<mail, role>>
    Role,        \* role_id
    Admin, SuperAdmin,
    Req,         \* requests served at the same time
    NoRow, NoOne,\* no account has that id; an account nobody is linked to
    MaxOps,      \* bound: requests of a behaviour
    MaxEdits,    \* bound: accounts created or edited, addresses changed
    MaxFaults    \* bound: statements that fail

ASSUME AccessAssumption ==
    /\ Id \subseteq Nat \ {0}
    /\ MailOwner \in [Mail -> Person]
    /\ DOMAIN FirstAccount \subseteq Id
    /\ FirstRole \subseteq (DOMAIN FirstAccount) \X Role
    /\ Roster \subseteq Mail \X Role
    /\ {Admin, SuperAdmin} \subseteq Role /\ Admin # SuperAdmin
    /\ NoOne \notin Person /\ IsFiniteSet(Id)
    /\ NoRow \notin [okta : Person \cup {NoOne}, mail : Mail]
    /\ MaxOps \in Nat /\ MaxEdits \in Nat /\ MaxFaults \in Nat

Account == [okta : Person \cup {NoOne}, mail : Mail]

(* What is there at the beginning keeps the unique key on okta_id, and     *)
(* accounts and sb_pinfo agree on whose an id is.  There is a super admin. *)
ASSUME TablesAssumption ==
    /\ FirstAccount \in [DOMAIN FirstAccount -> Account]
    /\ \A i, j \in DOMAIN FirstAccount :
          FirstAccount[i].okta \in Person =>
              /\ MailOwner[FirstAccount[i].mail] = FirstAccount[i].okta
              /\ FirstAccount[j].okta = FirstAccount[i].okta => i = j
    /\ \A h \in History :
          /\ h.mail \in Mail /\ h.id \in Id
          /\ h.id \in DOMAIN FirstAccount =>
                MailOwner[FirstAccount[h.id].mail] = MailOwner[h.mail]
          /\ \A g \in History : g.id = h.id => MailOwner[g.mail] = MailOwner[h.mail]
    /\ \E i \in Id : <<i, SuperAdmin>> \in FirstRole

VARIABLES
    account,    \* op_volunteers
    role,       \* op_volunteer_roles: no row, held, removed
    address,    \* the address Okta has for a person
    \* each request: where it is, the person or the account that acts, the
    \* address Okta sent, the account found or meant, the role it is about,
    \* and whether another one of the same kind or a fault got in its way
    req,
    ops, edits, faults,   \* counted for the bounds
    \* history: the account a person's sign-ins led to; the accounts they
    \* created; two removals of super admins were under way together; people
    \* mixed up by an edit or by the id of a new account
    home, created, raced, mixed

tables  == <<account, role, address>>
counts  == <<ops, edits, faults>>
history == <<home, created, raced, mixed>>
vars    == <<tables, req, counts, history>>

SignPc == {"byOkta", "sync", "byMail", "linkMail", "history", "canonical",
           "linkHistory", "insertHistory", "create", "roster", "session"}
RolePc == {"mayGrant", "look", "renew", "grant", "mayRemove", "count", "remove"}
Pc     == {"idle"} \cup SignPc \cup RolePc

Idle == [pc |-> "idle", actor |-> NoOne, email |-> NoOne, found |-> 0,
         about |-> SuperAdmin, disturbed |-> FALSE]

-----------------------------------------------------------------------------
Init ==
    /\ account = [i \in Id |-> IF i \in DOMAIN FirstAccount THEN FirstAccount[i]
                                                            ELSE NoRow]
    /\ role = [i \in Id |-> [x \in Role |->
                 IF <<i, x>> \in FirstRole THEN "held" ELSE "none"]]
    /\ address \in {f \in [Person -> Mail] : \A p \in Person : MailOwner[f[p]] = p}
    /\ req = [r \in Req |-> Idle]
    /\ ops = 0 /\ edits = 0 /\ faults = 0
    /\ home = [p \in Person |-> 0] /\ created = [p \in Person |-> {}]
    /\ raced = FALSE /\ mixed = {}

Exists(i)   == account[i] # NoRow
Linked(p)   == {i \in Id : Exists(i) /\ account[i].okta = p}
Named(m)    == {i \in Id : Exists(i) /\ account[i].mail = m}
Holders(x)  == {i \in Id : role[i][x] = "held"}

Owner(i)    == MailOwner[account[i].mail]

(* People whose account comes to have an address or an id that is person   *)
(* p's, and p: nothing in the code keeps them apart, if they are not p.    *)
Mixing(S, p) == IF S \subseteq {p} THEN {} ELSE S \cup {p}

(* Whom sb_pinfo has under an id.                                          *)
Known(i) == {MailOwner[h.mail] : h \in {g \in History : g.id = i}}

(* The unique key on okta_id refuses it.                                   *)
Refused(i, p) == Linked(p) \ {i} # {}

(* A request that is answered keeps nothing.                               *)
Goto(r, label, i) ==
    req' = [req EXCEPT ![r] = IF label = "idle" THEN Idle
                              ELSE [@ EXCEPT !.pc = label, !.found = i]]
Go(r, label) == Goto(r, label, req[r].found)
At(r, label) == req[r].pc = label

-----------------------------------------------------------------------------
(* Signing in.                                                             *)

SignIn(r, p) ==
    /\ At(r, "idle") /\ ops < MaxOps /\ ops' = ops + 1
    /\ LET others == {q \in Req \ {r} : req[q].actor = p}
       IN  req' = [q \in Req |->
                     IF q = r
                     THEN [Idle EXCEPT !.pc = "byOkta", !.actor = p,
                                       !.email = address[p],
                                       !.disturbed = others # {}]
                     ELSE [req[q] EXCEPT !.disturbed = @ \/ q \in others]]
    /\ UNCHANGED <<tables, edits, faults, history>>

ByOkta(r) ==
    /\ At(r, "byOkta")
    /\ \/ \E i \in Linked(req[r].actor) : Goto(r, "sync", i)
       \/ Linked(req[r].actor) = {} /\ Go(r, "byMail")
    /\ UNCHANGED <<tables, counts, history>>

Sync(r) ==
    /\ At(r, "sync") /\ Go(r, "roster")
    /\ account' = [account EXCEPT ![req[r].found].mail = req[r].email]
    /\ UNCHANGED <<role, address, counts, history>>

(* Two accounts may have the same address; either may come first.          *)
ByMail(r) ==
    /\ At(r, "byMail")
    /\ \/ \E i \in Named(req[r].email) : Goto(r, "linkMail", i)
       \/ Named(req[r].email) = {} /\ Go(r, "history")
    /\ UNCHANGED <<tables, counts, history>>

LinkMail(r) ==
    /\ At(r, "linkMail")
    /\ IF Refused(req[r].found, req[r].actor)
       THEN Go(r, "idle") /\ UNCHANGED account
       ELSE /\ Go(r, "roster")
            /\ account' = [account EXCEPT ![req[r].found].okta = req[r].actor]
    /\ UNCHANGED <<role, address, counts, history>>

(* The current entry of the address, or else its latest one.               *)
Canonical(m) ==
    {h.id : h \in {g \in History : g.mail = m /\
        \A f \in {e \in History : e.mail = m} :
            \/ g.current /\ ~ f.current
            \/ g.current = f.current /\ g.since >= f.since}}

LookInHistory(r) ==
    /\ At(r, "history")
    /\ \/ \E i \in Canonical(req[r].email) : Goto(r, "canonical", i)
       \/ Canonical(req[r].email) = {} /\ Go(r, "create")
    /\ UNCHANGED <<tables, counts, history>>

LookForCanonical(r) ==
    /\ At(r, "canonical")
    /\ Go(r, IF Exists(req[r].found) THEN "linkHistory" ELSE "insertHistory")
    /\ UNCHANGED <<tables, counts, history>>

(* A refused UPDATE is caught, and the account found all the same.         *)
LinkHistory(r) ==
    /\ At(r, "linkHistory") /\ Go(r, "roster")
    /\ account' = IF Refused(req[r].found, req[r].actor) THEN account
                  ELSE [account EXCEPT ![req[r].found] =
                          [okta |-> req[r].actor, mail |-> req[r].email]]
    /\ UNCHANGED <<role, address, counts, history>>

(* Mutant: the account is linked by the next sign-in.                      *)
InsertUnlinked(r, i) ==
    /\ account' = [account EXCEPT ![i] = [okta |-> NoOne, mail |-> req[r].email]]
    /\ created' = [created EXCEPT ![req[r].actor] = @ \cup {i}]
    /\ mixed' = mixed \cup Mixing(Known(i), req[r].actor)
    /\ Goto(r, "roster", i)

Insert(r, i) ==
    /\ account' = [account EXCEPT ![i] = [okta |-> req[r].actor, mail |-> req[r].email]]
    /\ created' = [created EXCEPT ![req[r].actor] = @ \cup {i}]
    /\ mixed' = mixed \cup Mixing(Known(i), req[r].actor)
    /\ Goto(r, "roster", i)

(* An INSERT that is refused leaves no account found.                      *)
InsertHistory(r) ==
    /\ At(r, "insertHistory")
    /\ IF Exists(req[r].found) \/ Refused(req[r].found, req[r].actor)
       THEN Goto(r, "create", 0) /\ UNCHANGED <<account, created, mixed>>
       ELSE Insert(r, req[r].found)
    /\ UNCHANGED <<role, address, counts, home, raced>>

(* generateId, if it draws one that no account has (else the INSERT fails).*)
(* It does not look into sb_pinfo.                                         *)
Free == {i \in Id : ~ Exists(i)}

Create(r) ==
    /\ At(r, "create")
    /\ IF Linked(req[r].actor) # {}
       THEN Go(r, "idle") /\ UNCHANGED <<account, created, mixed>>
       ELSE \E i \in Free : Insert(r, i)
    /\ UNCHANGED <<role, address, counts, home, raced>>

(* What the roster lists for the address, removed by an admin or not.      *)
GrantRoster(r) ==
    /\ At(r, "roster") /\ Go(r, "session")
    /\ role' = [role EXCEPT ![req[r].found] = [x \in Role |->
                  IF <<req[r].email, x>> \in Roster THEN "held" ELSE @[x]]]
    /\ UNCHANGED <<account, address, counts, history>>

Session(r) ==
    /\ At(r, "session") /\ Go(r, "idle")
    /\ home' = IF req[r].disturbed THEN home
               ELSE [home EXCEPT ![req[r].actor] = req[r].found]
    /\ UNCHANGED <<tables, counts, created, raced, mixed>>

(* A statement fails, or the id drawn is in use.  Within the look-up in    *)
(* sb_pinfo and the roster it is caught, and the sign-in goes on with what *)
(* it has found.                                                           *)
Fault(r) ==
    /\ ~ At(r, "idle") /\ faults < MaxFaults /\ faults' = faults + 1
    /\ LET goesOn == CASE req[r].pc \in {"history", "canonical", "insertHistory"}
                                                   -> <<"create", 0>>
                       [] At(r, "linkHistory") -> <<"roster", req[r].found>>
                       [] At(r, "roster")      -> <<"session", req[r].found>>
                       [] OTHER                -> <<"idle", 0>>
       IN  req' = [req EXCEPT ![r] =
                     IF goesOn[1] = "idle" THEN Idle
                     ELSE [@ EXCEPT !.pc = goesOn[1], !.found = goesOn[2],
                                    !.disturbed = TRUE]]
    /\ UNCHANGED <<tables, ops, edits, history>>

-----------------------------------------------------------------------------
(* Roles.                                                                  *)

Entitled(i, x) == role[i][SuperAdmin] = "held"
                      \/ (x # SuperAdmin /\ role[i][Admin] = "held")

Ask(r, by, i, x, label) ==
    /\ At(r, "idle") /\ ops < MaxOps /\ ops' = ops + 1
    /\ Exists(by) /\ Exists(i)
    /\ req' = [req EXCEPT ![r] = [Idle EXCEPT !.pc = label, !.actor = by,
                                              !.found = i, !.about = x]]
    /\ UNCHANGED <<tables, edits, faults, history>>

Request(r) == \E by, i \in Id, x \in Role, label \in {"mayGrant", "mayRemove"} :
                  Ask(r, by, i, x, label)

MayGrant(r) ==
    /\ At(r, "mayGrant")
    /\ Go(r, IF Entitled(req[r].actor, req[r].about) THEN "look" ELSE "idle")
    /\ UNCHANGED <<tables, counts, history>>

Row(r) == role[req[r].found][req[r].about]

Give(r) == role' = [role EXCEPT ![req[r].found][req[r].about] = "held"]

Look(r) ==
    /\ At(r, "look") /\ Go(r, IF Row(r) = "none" THEN "grant" ELSE "renew")
    /\ UNCHANGED <<tables, counts, history>>

Renew(r) ==
    /\ At(r, "renew") /\ Go(r, "idle") /\ Give(r)
    /\ UNCHANGED <<account, address, counts, history>>

(* Another request has inserted the row meanwhile: the INSERT is refused.  *)
Grant(r) ==
    /\ At(r, "grant") /\ Go(r, "idle")
    /\ IF Row(r) = "none" THEN Give(r) ELSE UNCHANGED role
    /\ UNCHANGED <<account, address, counts, history>>

(* Nobody removes herself from the super admins.                           *)
MayRemove(r) ==
    /\ At(r, "mayRemove")
    /\ LET super == req[r].about = SuperAdmin
       IN  Go(r, IF \/ ~ Entitled(req[r].actor, req[r].about)
                    \/ super /\ req[r].found = req[r].actor
                 THEN "idle"
                 ELSE IF super THEN "count" ELSE "remove")
    /\ UNCHANGED <<tables, counts, history>>

(* Mutant: the rows of those removed earlier count as well.                *)
CountRows(r) ==
    /\ At(r, "count")
    /\ Go(r, IF Cardinality({i \in Id : role[i][SuperAdmin] # "none"}) <= 1
             THEN "idle" ELSE "remove")
    /\ UNCHANGED <<tables, counts, history>>

Count(r) ==
    /\ At(r, "count")
    /\ Go(r, IF Cardinality(Holders(SuperAdmin)) <= 1 THEN "idle" ELSE "remove")
    /\ UNCHANGED <<tables, counts, history>>

Remove(r) ==
    /\ At(r, "remove") /\ Go(r, "idle")
    /\ role' = IF Row(r) = "none" THEN role
               ELSE [role EXCEPT ![req[r].found][req[r].about] = "removed"]
    /\ raced' = (raced \/ \E q \in Req \ {r} :
                     /\ At(q, "remove") /\ req[q].about = SuperAdmin
                     /\ req[r].about = SuperAdmin)
    /\ UNCHANGED <<account, address, counts, home, created, mixed>>

-----------------------------------------------------------------------------
(* Between the requests: an account is created without Okta or edited, and *)
(* a person changes her address in Okta.                                   *)

Edit == /\ edits < MaxEdits /\ edits' = edits + 1
        /\ UNCHANGED <<role, req, ops, faults, home, created, raced>>

CreateAccount(m) == \E i \in Free :
    /\ Edit
    /\ account' = [account EXCEPT ![i] = [okta |-> NoOne, mail |-> m]]
    /\ mixed' = mixed \cup Mixing(Known(i), MailOwner[m])
    /\ UNCHANGED address

(* Whoever edits an account may write any address, another person's too.   *)
Edited(i, m) ==
    /\ Exists(i) /\ m # account[i].mail
    /\ mixed' = mixed \cup Mixing({Owner(i)}, MailOwner[m])

(* Mutant: the whole row is written anew.                                  *)
EditUnlinks(i, m) ==
    /\ Edited(i, m) /\ Edit
    /\ account' = [account EXCEPT ![i] = [okta |-> NoOne, mail |-> m]]
    /\ UNCHANGED address

EditAccount(i, m) ==
    /\ Edited(i, m) /\ Edit
    /\ account' = [account EXCEPT ![i].mail = m]
    /\ UNCHANGED address

ChangeAddress(p, m) ==
    /\ m # address[p] /\ MailOwner[m] = p /\ Edit
    /\ address' = [address EXCEPT ![p] = m]
    /\ UNCHANGED <<account, mixed>>

-----------------------------------------------------------------------------
Next ==
    \/ \E r \in Req :
          \/ \E p \in Person : SignIn(r, p)
          \/ ByOkta(r) \/ Sync(r) \/ ByMail(r) \/ LinkMail(r)
          \/ LookInHistory(r) \/ LookForCanonical(r) \/ LinkHistory(r)
          \/ InsertHistory(r) \/ Create(r) \/ GrantRoster(r) \/ Session(r)
          \/ Request(r) \/ MayGrant(r) \/ Look(r) \/ Renew(r) \/ Grant(r)
          \/ MayRemove(r) \/ Count(r) \/ Remove(r) \/ Fault(r)
    \/ \E m \in Mail : \/ CreateAccount(m)
                       \/ \E i \in Id : EditAccount(i, m)
                       \/ \E p \in Person : ChangeAddress(p, m)

Spec == Init /\ [][Next]_vars

-----------------------------------------------------------------------------
(* A sign-in has a person and an address.  Where it acts on an account,    *)
(* there is one, and where it looks for one of sb_pinfo, an id.            *)
RequestOK(r) ==
    /\ req[r].pc \in SignPc => req[r].actor \in Person /\ req[r].email \in Mail
    /\ req[r].pc \in {"sync", "linkMail", "linkHistory", "roster", "session"}
           => req[r].found # 0 /\ Exists(req[r].found)
    /\ req[r].pc \in {"canonical", "insertHistory"} => req[r].found # 0

TypeOK ==
    /\ account \in [Id -> Account \cup {NoRow}]
    /\ role \in [Id -> [Role -> {"none", "held", "removed"}]]
    /\ address \in [Person -> Mail]
    /\ req \in [Req -> [pc : Pc, actor : Person \cup Id \cup {NoOne},
                        email : Mail \cup {NoOne}, found : Id \cup {0},
                        about : Role, disturbed : BOOLEAN]]
    /\ ops \in 0 .. MaxOps /\ edits \in 0 .. MaxEdits /\ faults \in 0 .. MaxFaults
    /\ home \in [Person -> Id \cup {0}] /\ created \in [Person -> SUBSET Id]
    /\ raced \in BOOLEAN /\ mixed \subseteq Person
    /\ \A r \in Req : RequestOK(r)

(* One account at most is linked to a person, and none goes on with an     *)
(* account that is not there.  However the sign-ins of a person overlap,   *)
(* fail and are repeated, and whatever is edited between them, they create *)
(* one account at most, unless an edit gave an account of hers another     *)
(* person's address or one of another person hers, or a new account got    *)
(* an id under which sb_pinfo has somebody else.                           *)
OneAccount ==
    /\ TypeOK
    /\ \A p \in Person : Cardinality(Linked(p)) <= 1
    /\ \A p \in Person \ mixed : Cardinality(created[p]) <= 1

(* A person who signs in finds herself on an account that is linked to     *)
(* her, and ever after on the same one, whatever her address has become    *)
(* and whatever happens to other people's accounts, unless two of her      *)
(* sign-ins were under way together, a statement failed, or she has been   *)
(* mixed up with somebody as above.                                        *)
StaysOnAccount ==
    [][\A r \in Req :
           (At(r, "session") /\ ~ req[r].disturbed /\ req'[r] # req[r]
                /\ req'[r].pc = "idle" /\ req[r].actor \notin mixed)
               => /\ account[req[r].found].okta = req[r].actor
                  /\ home[req[r].actor] \in {0, req[r].found}]_vars

(* There is always a super admin, unless two requests that remove one have *)
(* both counted before either removed.                                     *)
LastSuperAdmin == raced \/ Holders(SuperAdmin) # {}
=============================================================================

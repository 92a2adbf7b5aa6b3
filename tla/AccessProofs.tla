---------------------------- MODULE AccessProofs ----------------------------
(***************************************************************************)
(* Theorems about Access, for any people, addresses, accounts, histories   *)
(* and rosters, any number of requests, edits and failing statements.      *)
(***************************************************************************)
EXTENDS Access, FiniteSetTheorems, TLAPS

-----------------------------------------------------------------------------
(* The steps, by what they write.                                          *)

Request_ == [pc : Pc, actor : Person \cup Id \cup {NoOne},
             email : Mail \cup {NoOne}, found : Id \cup {0},
             about : Role, disturbed : BOOLEAN]

LookUp(r) == ByOkta(r) \/ ByMail(r) \/ LookInHistory(r) \/ LookForCanonical(r)
Write(r)  == Sync(r) \/ LinkMail(r) \/ LinkHistory(r) \/ InsertHistory(r) \/ Create(r)
Open(r)   == GrantRoster(r) \/ Session(r)
RoleStep(r) == MayGrant(r) \/ Look(r) \/ Renew(r) \/ Grant(r) \/ MayRemove(r)
                   \/ Count(r) \/ Remove(r)
Between == \E m \in Mail : \/ CreateAccount(m)
                           \/ \E i \in Id : EditAccount(i, m)
                           \/ \E p \in Person : ChangeAddress(p, m)

LEMMA Steps ==
    ASSUME Next
    PROVE  \/ \E r \in Req : \/ \E p \in Person : SignIn(r, p)
                             \/ LookUp(r) \/ Write(r) \/ Open(r)
                             \/ Request(r) \/ RoleStep(r) \/ Fault(r)
           \/ Between
BY DEF Next, LookUp, Write, Open, RoleStep, Between

-----------------------------------------------------------------------------
(* Type correctness.                                                       *)

(* Whoever is mixed up by an edit or by the id of an account is somebody.  *)
LEMMA MixingType ==
    /\ \A i \in Id : Known(i) \subseteq Person
    /\ \A S \in SUBSET Person : \A p \in Person : Mixing(S, p) \subseteq Person
<1>1. \A h \in History : MailOwner[h.mail] \in Person
  BY AccessAssumption, TablesAssumption
<1> QED BY <1>1 DEF Known, Mixing

LEMMA GotoType ==
    ASSUME TypeOK, NEW r \in Req, NEW l \in Pc, NEW i \in Id \cup {0}, Goto(r, l, i)
    PROVE  req' \in [Req -> Request_]
<1>1. Idle \in Request_
  BY AccessAssumption DEF Idle, Request_, Pc, SignPc, RolePc
<1>2. [req[r] EXCEPT !.pc = l, !.found = i] \in Request_
  BY DEF TypeOK, Request_
<1> QED BY <1>1, <1>2 DEF Goto, TypeOK, Request_

(* What Goto leaves of the requests.                                       *)
LEMMA GotoFields ==
    ASSUME TypeOK, NEW r \in Req, NEW l, NEW i, Goto(r, l, i)
    PROVE  /\ \A q \in Req \ {r} : req'[q] = req[q]
           /\ l = "idle" => req'[r] = Idle
           /\ l # "idle" => /\ req'[r].pc = l /\ req'[r].found = i
                            /\ req'[r].actor = req[r].actor
                            /\ req'[r].email = req[r].email
                            /\ req'[r].about = req[r].about
                            /\ req'[r].disturbed = req[r].disturbed
BY DEF Goto, TypeOK

LEMMA InitTypeOK == Init => TypeOK
<1> SUFFICES ASSUME Init PROVE TypeOK
  OBVIOUS
<1>1. account \in [Id -> Account \cup {NoRow}]
  <2>1. \A i \in DOMAIN FirstAccount : FirstAccount[i] \in Account
    BY TablesAssumption
  <2> QED BY <2>1 DEF Init
<1>2. Idle \in Request_ /\ Idle.pc = "idle"
  BY AccessAssumption DEF Idle, Request_, Pc, SignPc, RolePc
<1>3. req \in [Req -> Request_] /\ \A r \in Req : req[r].pc = "idle"
  BY <1>2 DEF Init
<1>5. role \in [Id -> [Role -> {"none", "held", "removed"}]]
  BY DEF Init
<1>6. address \in [Person -> Mail]
  BY DEF Init
<1>4. ops \in 0 .. MaxOps /\ edits \in 0 .. MaxEdits /\ faults \in 0 .. MaxFaults
  <2>1. MaxOps \in Nat /\ MaxEdits \in Nat /\ MaxFaults \in Nat
    BY AccessAssumption
  <2>2. ops = 0 /\ edits = 0 /\ faults = 0
    BY DEF Init
  <2> QED BY <2>1, <2>2
<1>7. /\ home \in [Person -> Id \cup {0}] /\ created \in [Person -> SUBSET Id]
      /\ raced \in BOOLEAN /\ mixed \subseteq Person
  BY DEF Init
<1>8. \A r \in Req : RequestOK(r)
  BY <1>3 DEF RequestOK, SignPc
<1> QED BY <1>1, <1>3, <1>4, <1>5, <1>6, <1>7, <1>8 DEF TypeOK, Request_

(* No account is ever deleted.                                             *)
Remain == \A i \in Id : Exists(i) => Exists(i)'

LEMMA NoRowNew ==
    ASSUME NEW o \in Person \cup {NoOne}, NEW m \in Mail
    PROVE  [okta |-> o, mail |-> m] \in Account /\ [okta |-> o, mail |-> m] # NoRow
BY AccessAssumption DEF Account

LEMMA AccountExcept ==
    ASSUME TypeOK, NEW i \in Id, NEW a \in Account, a # NoRow,
           account' = [account EXCEPT ![i] = a]
    PROVE  account' \in [Id -> Account \cup {NoRow}] /\ Remain /\ Exists(i)'
BY DEF TypeOK, Remain, Exists

(* A request that goes on with an account it had before, or that is there. *)
LEMMA FoundAgain ==
    ASSUME TypeOK, Remain, NEW r \in Req,
           \A q \in Req \ {r} : /\ req'[q].pc = req[q].pc
                              /\ req'[q].actor = req[q].actor
                              /\ req'[q].email = req[q].email
                              /\ req'[q].found = req[q].found,
           req' \in [Req -> Request_], RequestOK(r)'
    PROVE  \A q \in Req : RequestOK(q)'
<1>1. ASSUME NEW q \in Req \ {r} PROVE RequestOK(q)'
  <2>1. RequestOK(q) /\ req[q].found \in Id \cup {0}
    BY DEF TypeOK
  <2> QED BY <2>1 DEF Remain, Exists, RequestOK
<1> QED BY <1>1

(* A sign-in that goes on, and a request about a role.                     *)
LEMMA SignGoesOn ==
    ASSUME TypeOK, NEW r \in Req, req[r].pc \in SignPc, NEW l \in {"idle"} \cup SignPc,
           NEW i \in Id \cup {0}, Goto(r, l, i),
           l \in {"sync", "linkMail", "linkHistory", "roster", "session"}
               => i \in Id /\ account'[i] # NoRow,
           l \in {"canonical", "insertHistory"} => i # 0
    PROVE  req' \in [Req -> Request_] /\ RequestOK(r)'
<1>1. req' \in [Req -> Request_]
  BY GotoType DEF Pc
<1>2. CASE l = "idle"
  <2>1. req'[r].pc = "idle"
    BY <1>2, GotoFields DEF Idle
  <2> QED BY <1>1, <2>1 DEF RequestOK, SignPc
<1>3. CASE l # "idle"
  <2>1. /\ req'[r].pc = l /\ req'[r].found = i
        /\ req'[r].actor = req[r].actor /\ req'[r].email = req[r].email
    BY <1>3, GotoFields
  <2>2. req[r].actor \in Person /\ req[r].email \in Mail
    BY DEF TypeOK, RequestOK
  <2>3. 0 \notin Id
    BY AccessAssumption
  <2> QED BY <1>1, <2>1, <2>2, <2>3 DEF RequestOK, Exists
<1> QED BY <1>2, <1>3

LEMMA RoleGoesOn ==
    ASSUME TypeOK, NEW r \in Req, NEW l \in {"idle"} \cup RolePc,
           Goto(r, l, req[r].found)
    PROVE  req' \in [Req -> Request_] /\ RequestOK(r)'
<1>1. req[r].found \in Id \cup {0}
  BY DEF TypeOK
<1>2. req' \in [Req -> Request_]
  BY <1>1, GotoType DEF Pc
<1>3. req'[r].pc = l
  BY GotoFields DEF Idle
<1> QED BY <1>2, <1>3 DEF RequestOK, SignPc, RolePc

LEMMA TypeAgain ==
    ASSUME TypeOK,
           account' \in [Id -> Account \cup {NoRow}],
           role' \in [Id -> [Role -> {"none", "held", "removed"}]],
           address' \in [Person -> Mail],
           req' \in [Req -> Request_], \A q \in Req : RequestOK(q)',
           ops' \in 0 .. MaxOps, edits' \in 0 .. MaxEdits, faults' \in 0 .. MaxFaults,
           home' \in [Person -> Id \cup {0}], created' \in [Person -> SUBSET Id],
           raced' \in BOOLEAN, mixed' \subseteq Person
    PROVE  TypeOK'
BY DEF TypeOK, RequestOK, Request_

LEMMA LookUpType ==
    ASSUME TypeOK, NEW r \in Req, LookUp(r)
    PROVE  TypeOK'
<1>0. UNCHANGED <<tables, counts, history>> /\ Remain
  BY DEF LookUp, ByOkta, ByMail, LookInHistory, LookForCanonical, Remain, tables, Exists
<1>1. req[r].pc \in SignPc /\ account' = account
  BY <1>0 DEF LookUp, ByOkta, ByMail, LookInHistory, LookForCanonical, At, SignPc, tables
<1>2. req[r].found \in Id \cup {0} /\ 0 \notin Id
  BY AccessAssumption DEF TypeOK
<1>3. PICK l \in {"idle"} \cup SignPc, i \in Id \cup {0} :
        /\ Goto(r, l, i)
        /\ l \in {"sync", "linkMail", "linkHistory", "roster", "session"}
              => i \in Id /\ account[i] # NoRow
        /\ l \in {"canonical", "insertHistory"} => i # 0
  <2>1. CASE ByOkta(r)
    BY <1>2, <2>1 DEF ByOkta, Go, Linked, Exists, SignPc
  <2>2. CASE ByMail(r)
    BY <1>2, <2>2 DEF ByMail, Go, Named, Exists, SignPc
  <2>3. CASE LookInHistory(r)
    <3>1. Canonical(req[r].email) \subseteq Id
      BY TablesAssumption DEF Canonical
    <3> QED BY <1>2, <2>3, <3>1 DEF LookInHistory, Go, SignPc
  <2>4. CASE LookForCanonical(r)
    <3>1. req[r].found \in Id /\ req[r].found # 0
      BY <1>2, <2>4 DEF LookForCanonical, At, TypeOK, RequestOK
    <3>2. CASE Exists(req[r].found)
      <4>1. Goto(r, "linkHistory", req[r].found)
        BY <2>4, <3>2 DEF LookForCanonical, Go
      <4> QED BY <3>1, <3>2, <4>1 DEF SignPc, Exists
    <3>3. CASE ~ Exists(req[r].found)
      <4>1. Goto(r, "insertHistory", req[r].found)
        BY <2>4, <3>3 DEF LookForCanonical, Go
      <4> QED BY <3>1, <4>1 DEF SignPc
    <3> QED BY <3>2, <3>3
  <2> QED BY <2>1, <2>2, <2>3, <2>4 DEF LookUp
<1>4. req' \in [Req -> Request_] /\ RequestOK(r)'
  BY <1>1, <1>3, SignGoesOn
<1>5. \A q \in Req : RequestOK(q)'
  BY <1>0, <1>3, <1>4, GotoFields, FoundAgain
<1> QED BY <1>0, <1>4, <1>5, TypeAgain DEF tables, counts, history, TypeOK

(* An account written anew.                                                *)
LEMMA WriteType ==
    ASSUME TypeOK, NEW r \in Req, Write(r)
    PROVE  TypeOK' /\ Remain
<1>0. UNCHANGED <<role, address, counts, home, raced>>
  BY DEF Write, Sync, LinkMail, LinkHistory, InsertHistory, Create, history
<1>1. /\ req[r].pc \in SignPc /\ req[r].actor \in Person /\ req[r].email \in Mail
      /\ req[r].found \in Id \cup {0} /\ 0 \notin Id
  BY AccessAssumption
     DEF Write, Sync, LinkMail, LinkHistory, InsertHistory, Create, At, TypeOK,
         RequestOK, SignPc
<1>2. PICK l \in {"idle", "roster", "create"}, i \in Id \cup {0}, a \in Account :
        /\ Goto(r, l, i)
        /\ a # NoRow
        /\ account' = account \/ (i \in Id /\ account' = [account EXCEPT ![i] = a])
        /\ l = "roster" => i \in Id /\ account'[i] # NoRow
        /\ created' \in [Person -> SUBSET Id] /\ mixed' \subseteq Person
  <2>1. [okta |-> req[r].actor, mail |-> req[r].email] \in Account \ {NoRow}
    BY <1>1, NoRowNew
  <2>2. CASE Sync(r) \/ LinkMail(r) \/ LinkHistory(r)
    <3>1. /\ req[r].found \in Id /\ account[req[r].found] # NoRow
          /\ account[req[r].found] \in Account
      BY <1>1, <2>2 DEF Sync, LinkMail, LinkHistory, At, TypeOK, RequestOK, Exists
    <3>2. /\ [account[req[r].found] EXCEPT !.mail = req[r].email] \in Account \ {NoRow}
          /\ [account[req[r].found] EXCEPT !.okta = req[r].actor] \in Account \ {NoRow}
      BY <1>1, <3>1, AccessAssumption DEF Account
    <3>3. created' = created /\ mixed' = mixed
      BY <2>2 DEF Sync, LinkMail, LinkHistory, history
    <3>4. CASE Sync(r)
      <4>1. /\ Goto(r, "roster", req[r].found)
            /\ account' = [account EXCEPT ![req[r].found] =
                               [account[req[r].found] EXCEPT !.mail = req[r].email]]
        BY <3>4 DEF Sync, Go
      <4> QED BY <3>1, <3>2, <3>3, <4>1 DEF TypeOK
    <3>5. CASE LinkMail(r)
      <4>1. CASE Refused(req[r].found, req[r].actor)
        BY <3>1, <3>3, <3>5, <4>1, <2>1 DEF LinkMail, Go, TypeOK
      <4>2. CASE ~ Refused(req[r].found, req[r].actor)
        <5>1. /\ Goto(r, "roster", req[r].found)
              /\ account' = [account EXCEPT ![req[r].found] =
                                 [account[req[r].found] EXCEPT !.okta = req[r].actor]]
          BY <3>5, <4>2 DEF LinkMail, Go
        <5> QED BY <3>1, <3>2, <3>3, <5>1 DEF TypeOK
      <4> QED BY <4>1, <4>2
    <3>6. CASE LinkHistory(r)
      <4>1. Goto(r, "roster", req[r].found)
        BY <3>6 DEF LinkHistory, Go
      <4>2. \/ account' = account
            \/ account' = [account EXCEPT ![req[r].found] =
                             [okta |-> req[r].actor, mail |-> req[r].email]]
        BY <3>6 DEF LinkHistory
      <4> QED BY <2>1, <3>1, <3>3, <4>1, <4>2 DEF TypeOK
    <3> QED BY <2>2, <3>4, <3>5, <3>6
  <2>3. ASSUME NEW i \in Id, Insert(r, i)
        PROVE  /\ Goto(r, "roster", i)
               /\ account' = [account EXCEPT ![i] =
                                [okta |-> req[r].actor, mail |-> req[r].email]]
               /\ account'[i] # NoRow
               /\ created' \in [Person -> SUBSET Id] /\ mixed' \subseteq Person
    BY <1>1, <2>1, <2>3, MixingType DEF Insert, TypeOK
  <2>4. CASE InsertHistory(r)
    <3>1. req[r].found \in Id
      BY <1>1, <2>4 DEF InsertHistory, At, TypeOK, RequestOK
    <3>2. CASE Exists(req[r].found) \/ Refused(req[r].found, req[r].actor)
      BY <2>1, <2>4, <3>2 DEF InsertHistory, TypeOK
    <3>3. CASE ~ (Exists(req[r].found) \/ Refused(req[r].found, req[r].actor))
      <4>1. Insert(r, req[r].found)
        BY <2>4, <3>3 DEF InsertHistory
      <4> QED BY <2>1, <2>3, <3>1, <4>1
    <3> QED BY <3>2, <3>3
  <2>5. CASE Create(r)
    <3>1. CASE Linked(req[r].actor) # {}
      BY <1>1, <2>1, <2>5, <3>1 DEF Create, Go, TypeOK
    <3>2. CASE Linked(req[r].actor) = {}
      <4>1. PICK i \in Id : Insert(r, i)
        BY <2>5, <3>2 DEF Create, Free
      <4> QED BY <2>1, <2>3, <4>1
    <3> QED BY <3>1, <3>2
  <2> QED BY <2>2, <2>4, <2>5 DEF Write
<1>3. account' \in [Id -> Account \cup {NoRow}] /\ Remain
  BY <1>2, AccountExcept DEF TypeOK, Remain, Exists
<1>4. req' \in [Req -> Request_] /\ RequestOK(r)'
  BY <1>1, <1>2, SignGoesOn DEF SignPc
<1>5. \A q \in Req : RequestOK(q)'
  BY <1>2, <1>3, <1>4, GotoFields, FoundAgain
<1> QED BY <1>0, <1>2, <1>3, <1>4, <1>5, TypeAgain DEF counts, TypeOK

LEMMA OpenType ==
    ASSUME TypeOK, NEW r \in Req, Open(r)
    PROVE  TypeOK' /\ UNCHANGED account
<1>0. UNCHANGED <<account, address, counts, created, raced, mixed>>
  BY DEF Open, GrantRoster, Session, history, tables
<1>1. /\ req[r].found \in Id /\ account[req[r].found] # NoRow /\ 0 \notin Id
      /\ req[r].pc \in SignPc
  BY AccessAssumption DEF Open, GrantRoster, Session, At, TypeOK, RequestOK, SignPc, Exists
<1>2. Remain
  BY <1>0 DEF Remain, Exists
<1>3. PICK l \in {"session", "idle"} : Goto(r, l, req[r].found)
  BY DEF Open, GrantRoster, Session, Go
<1>4. req' \in [Req -> Request_] /\ RequestOK(r)'
  BY <1>0, <1>1, <1>3, SignGoesOn DEF SignPc
<1>6. \A q \in Req : RequestOK(q)'
  BY <1>2, <1>3, <1>4, GotoFields, FoundAgain
<1>7. role' \in [Id -> [Role -> {"none", "held", "removed"}]]
  <2>1. CASE GrantRoster(r)
    <3>1. PICK f \in [Role -> {"none", "held", "removed"}] :
            role' = [role EXCEPT ![req[r].found] = f]
      <4>1. role[req[r].found] \in [Role -> {"none", "held", "removed"}]
        BY <1>1 DEF TypeOK
      <4>2. [x \in Role |-> IF <<req[r].email, x>> \in Roster THEN "held"
                ELSE role[req[r].found][x]] \in [Role -> {"none", "held", "removed"}]
        BY <4>1
      <4> QED BY <2>1, <4>2 DEF GrantRoster
    <3> QED BY <1>1, <3>1 DEF TypeOK
  <2>2. CASE Session(r)
    BY <2>2 DEF Session, tables, TypeOK
  <2> QED BY <2>1, <2>2 DEF Open
<1>8. home' \in [Person -> Id \cup {0}]
  BY <1>1 DEF Open, GrantRoster, Session, history, TypeOK
<1> QED BY <1>0, <1>4, <1>6, <1>7, <1>8, TypeAgain DEF counts, TypeOK

LEMMA RoleStepType ==
    ASSUME TypeOK, NEW r \in Req, RoleStep(r)
    PROVE  TypeOK' /\ UNCHANGED account
<1>0. UNCHANGED <<account, address, counts, home, created, mixed>> /\ Remain
  BY DEF RoleStep, MayGrant, Look, Renew, Grant, MayRemove, Count, Remove, tables,
         history, Remain, Exists
<1>1. PICK l \in {"idle", "look", "grant", "renew", "count", "remove"} :
        Goto(r, l, req[r].found)
  BY DEF RoleStep, MayGrant, Look, Renew, Grant, MayRemove, Count, Remove, Go
<1>2. req' \in [Req -> Request_] /\ RequestOK(r)'
  BY <1>1, RoleGoesOn DEF RolePc
<1>3. \A q \in Req : RequestOK(q)'
  BY <1>0, <1>1, <1>2, GotoFields, FoundAgain
<1>4. role' \in [Id -> [Role -> {"none", "held", "removed"}]]
  <2>1. \E x \in {"held", "removed"} :
          role' \in {role, [role EXCEPT ![req[r].found][req[r].about] = x]}
    BY DEF RoleStep, MayGrant, Look, Renew, Grant, MayRemove, Count, Remove, tables, Give
  <2>2. role \in [Id -> [Role -> {"none", "held", "removed"}]]
    BY DEF TypeOK
  <2> QED BY <2>1, <2>2
<1>5. raced' \in BOOLEAN
  BY DEF RoleStep, MayGrant, Look, Renew, Grant, MayRemove, Count, Remove, history, TypeOK
<1> QED BY <1>0, <1>2, <1>3, <1>4, <1>5, TypeAgain DEF counts, TypeOK

LEMMA FaultType ==
    ASSUME TypeOK, NEW r \in Req, Fault(r)
    PROVE  TypeOK' /\ UNCHANGED tables
<1>0. UNCHANGED <<tables, ops, edits, history>> /\ Remain
  BY DEF Fault, tables, Remain, Exists
<1>1. PICK l \in {"idle", "create", "roster", "session"}, i \in Id \cup {0} :
        /\ l = "idle" => req' = [req EXCEPT ![r] = Idle]
        /\ l # "idle" => /\ req[r].pc \in SignPc
                         /\ req' = [req EXCEPT ![r] = [@ EXCEPT !.pc = l, !.found = i,
                                                                 !.disturbed = TRUE]]
        /\ l \in {"roster", "session"} => i = req[r].found /\ i # 0 /\ Exists(i)
  <2>1. CASE req[r].pc \in {"history", "canonical", "insertHistory"}
    <3>1. req' = [req EXCEPT ![r] = [@ EXCEPT !.pc = "create", !.found = 0,
                                              !.disturbed = TRUE]]
      BY <2>1 DEF Fault, At
    <3> QED BY <2>1, <3>1 DEF SignPc
  <2>2. CASE At(r, "linkHistory")
    <3>1. req[r].found # 0 /\ Exists(req[r].found) /\ req[r].found \in Id \cup {0}
      BY <2>2 DEF At, TypeOK, RequestOK
    <3> QED BY <2>2, <3>1 DEF Fault, SignPc, At
  <2>3. CASE At(r, "roster")
    <3>1. req[r].found # 0 /\ Exists(req[r].found) /\ req[r].found \in Id \cup {0}
      BY <2>3 DEF At, TypeOK, RequestOK
    <3> QED BY <2>3, <3>1 DEF Fault, SignPc, At
  <2>4. CASE req[r].pc \notin {"history", "canonical", "insertHistory", "linkHistory",
                              "roster"}
    BY <2>4 DEF Fault, At
  <2> QED BY <2>1, <2>2, <2>3, <2>4 DEF At
<1>2. req' \in [Req -> Request_] /\ RequestOK(r)'
  <2>1. CASE l = "idle"
    <3>1. Idle \in Request_ /\ Idle.pc = "idle"
      BY AccessAssumption DEF Idle, Request_, Pc
    <3>2. req' \in [Req -> Request_] /\ req'[r].pc = "idle"
      BY <1>1, <2>1, <3>1 DEF TypeOK, Request_
    <3> QED BY <3>2 DEF RequestOK, SignPc
  <2>2. CASE l # "idle"
    <3>1. /\ req'[r] = [req[r] EXCEPT !.pc = l, !.found = i, !.disturbed = TRUE]
          /\ req[r] \in Request_ /\ l \in Pc
      BY <1>1, <2>2 DEF TypeOK, Request_, Pc, SignPc
    <3>2. req'[r] \in Request_
      BY <3>1 DEF Request_
    <3>3. req' \in [Req -> Request_]
      <4>1. req \in [Req -> Request_]
        BY DEF TypeOK, Request_
      <4>2. req' = [req EXCEPT ![r] = req'[r]]
        BY <1>1, <2>2, <4>1
      <4> QED BY <3>2, <4>1, <4>2
    <3>4. /\ req'[r].pc = l /\ req'[r].found = i
          /\ req'[r].actor = req[r].actor /\ req'[r].email = req[r].email
      BY <3>1 DEF Request_
    <3>5. req[r].actor \in Person /\ req[r].email \in Mail
      BY <1>1, <2>2 DEF TypeOK, RequestOK
    <3> QED BY <1>0, <1>1, <2>2, <3>3, <3>4, <3>5 DEF RequestOK, Exists, tables
  <2> QED BY <2>1, <2>2
<1>3. \A q \in Req : RequestOK(q)'
  <2>1. \A q \in Req \ {r} : req'[q] = req[q]
    BY <1>1 DEF TypeOK
  <2> QED BY <1>0, <1>2, <2>1, FoundAgain
<1>4. faults' \in 0 .. MaxFaults
  BY AccessAssumption DEF Fault, TypeOK
<1> QED BY <1>0, <1>2, <1>3, <1>4, TypeAgain DEF tables, history, TypeOK

LEMMA SignInType ==
    ASSUME TypeOK, NEW r \in Req, NEW p \in Person, SignIn(r, p)
    PROVE  TypeOK' /\ UNCHANGED tables
<1>0. UNCHANGED <<tables, edits, faults, history>> /\ Remain
  BY DEF SignIn, tables, Remain, Exists
<1>1. address[p] \in Mail
  BY DEF TypeOK
<1>2. PICK b \in BOOLEAN, d \in [Req -> BOOLEAN] :
        req' = [q \in Req |->
                  IF q = r THEN [Idle EXCEPT !.pc = "byOkta", !.actor = p,
                                             !.email = address[p], !.disturbed = b]
                  ELSE [req[q] EXCEPT !.disturbed = d[q]]]
  <2> DEFINE others == {q \in Req \ {r} : req[q].actor = p}
             D == [q \in Req |-> req[q].disturbed \/ q \in others]
  <2>1. D \in [Req -> BOOLEAN]
    BY DEF TypeOK
  <2>2. \A q \in Req : [req[q] EXCEPT !.disturbed = @ \/ q \in others]
                          = [req[q] EXCEPT !.disturbed = D[q]]
    BY DEF TypeOK
  <2>3. req' = [q \in Req |->
                  IF q = r THEN [Idle EXCEPT !.pc = "byOkta", !.actor = p,
                                    !.email = address[p], !.disturbed = others # {}]
                  ELSE [req[q] EXCEPT !.disturbed = @ \/ q \in others]]
    BY DEF SignIn
  <2> QED BY <2>1, <2>2, <2>3, Zenon
<1> DEFINE new == [Idle EXCEPT !.pc = "byOkta", !.actor = p, !.email = address[p],
                               !.disturbed = b]
<1>3. new \in [pc : {"byOkta"}, actor : {p}, email : {address[p]}, found : {0},
              about : {SuperAdmin}, disturbed : {b}]
  BY DEF Idle
<1> HIDE DEF new
<1>4. req' \in [Req -> Request_]
  <2>1. \A q \in Req : [req[q] EXCEPT !.disturbed = d[q]] \in Request_
    BY DEF TypeOK, Request_
  <2>2. new \in Request_
    BY <1>1, <1>3, AccessAssumption DEF Request_, Pc, SignPc
  <2>3. req' = [q \in Req |-> IF q = r THEN new ELSE [req[q] EXCEPT !.disturbed = d[q]]]
    BY <1>2 DEF new
  <2> QED BY <2>1, <2>2, <2>3
<1>5. /\ req'[r].pc = "byOkta" /\ req'[r].actor = p /\ req'[r].email = address[p]
      /\ \A q \in Req \ {r} : /\ req'[q].pc = req[q].pc
                              /\ req'[q].actor = req[q].actor
                              /\ req'[q].email = req[q].email
                              /\ req'[q].found = req[q].found
  <2>1. req' = [q \in Req |-> IF q = r THEN new ELSE [req[q] EXCEPT !.disturbed = d[q]]]
    BY <1>2 DEF new
  <2>2. new.pc = "byOkta" /\ new.actor = p /\ new.email = address[p]
    BY <1>3
  <2> QED BY <2>1, <2>2 DEF TypeOK
<1>6. RequestOK(r)'
  BY <1>1, <1>5 DEF RequestOK
<1>7. \A q \in Req : RequestOK(q)'
  BY <1>0, <1>4, <1>5, <1>6, FoundAgain
<1>8. ops' \in 0 .. MaxOps
  <2>1. ops < MaxOps /\ ops' = ops + 1 /\ ops \in 0 .. MaxOps /\ MaxOps \in Nat
    BY AccessAssumption DEF SignIn, TypeOK
  <2> QED BY <2>1
<1> QED BY <1>0, <1>4, <1>7, <1>8, TypeAgain DEF tables, history, TypeOK

LEMMA RequestType ==
    ASSUME TypeOK, NEW r \in Req, Request(r)
    PROVE  TypeOK' /\ UNCHANGED tables
<1>1. PICK by \in Id, i \in Id, x \in Role, label \in {"mayGrant", "mayRemove"} :
        Ask(r, by, i, x, label)
  BY DEF Request
<1>2. UNCHANGED <<tables, edits, faults, history>> /\ Remain
  BY <1>1 DEF Ask, tables, Remain, Exists
<1> DEFINE new == [Idle EXCEPT !.pc = label, !.actor = by, !.found = i, !.about = x]
<1>3. new \in [pc : {label}, actor : {by}, email : {NoOne}, found : {i}, about : {x},
              disturbed : {FALSE}]
  BY DEF Idle
<1>4. req' = [req EXCEPT ![r] = new]
  BY <1>1 DEF Ask
<1> HIDE DEF new
<1>9. new \in Request_ /\ new.pc = label
  BY <1>3 DEF Request_, Pc, RolePc
<1>5. /\ req' \in [Req -> Request_] /\ req'[r].pc = label
      /\ \A q \in Req \ {r} : req'[q] = req[q]
  BY <1>4, <1>9 DEF TypeOK, Request_
<1>6. RequestOK(r)'
  BY <1>5 DEF RequestOK, SignPc
<1>7. \A q \in Req : RequestOK(q)'
  BY <1>2, <1>5, <1>6, FoundAgain
<1>8. ops' \in 0 .. MaxOps
  BY <1>1, AccessAssumption DEF Ask, TypeOK
<1> QED BY <1>2, <1>5, <1>7, <1>8, TypeAgain DEF tables, history, TypeOK

LEMMA BetweenType ==
    ASSUME TypeOK, Between
    PROVE  TypeOK' /\ Remain
<1>1. UNCHANGED <<role, req, ops, faults, home, created, raced>> /\ edits' \in 0 .. MaxEdits
  BY AccessAssumption
     DEF Between, CreateAccount, EditAccount, ChangeAddress, Edit, TypeOK
<1>2. account' \in [Id -> Account \cup {NoRow}] /\ Remain
  <2>1. CASE \E m \in Mail : CreateAccount(m)
    <3>1. PICK m \in Mail, i \in Id :
             account' = [account EXCEPT ![i] = [okta |-> NoOne, mail |-> m]]
      BY <2>1 DEF CreateAccount, Free
    <3> QED BY <3>1, NoRowNew, AccountExcept
  <2>2. CASE \E m \in Mail, i \in Id : EditAccount(i, m)
    <3>1. PICK m \in Mail, i \in Id : EditAccount(i, m)
      BY <2>2
    <3>2. account[i] \in Account
      BY <3>1 DEF EditAccount, Edited, Exists, TypeOK
    <3>3. [account[i] EXCEPT !.mail = m] \in Account \ {NoRow}
      BY <3>2, AccessAssumption DEF Account
    <3>4. account' = [account EXCEPT ![i] = [account[i] EXCEPT !.mail = m]]
      BY <3>1 DEF EditAccount
    <3> QED BY <3>3, <3>4, AccountExcept
  <2>3. CASE \E m \in Mail, p \in Person : ChangeAddress(p, m)
    BY <2>3 DEF ChangeAddress, TypeOK, Remain, Exists
  <2> QED BY <2>1, <2>2, <2>3 DEF Between
<1>3. address' \in [Person -> Mail]
  BY DEF Between, CreateAccount, EditAccount, ChangeAddress, TypeOK
<1>4. req' \in [Req -> Request_]
  BY <1>1 DEF TypeOK, Request_
<1>5. \A q \in Req : RequestOK(q)'
  BY <1>1, <1>2 DEF RequestOK, Remain, Exists, TypeOK
<1>6. mixed' \subseteq Person
  <2>1. \A m \in Mail : MailOwner[m] \in Person
    BY AccessAssumption
  <2>2. CASE \E m \in Mail : CreateAccount(m)
    BY <2>1, <2>2, MixingType DEF CreateAccount, Free, TypeOK
  <2>3. CASE \E m \in Mail, i \in Id : EditAccount(i, m)
    <3>1. PICK m \in Mail, i \in Id : EditAccount(i, m)
      BY <2>3
    <3>2. {Owner(i)} \subseteq Person
      BY <2>1, <3>1 DEF EditAccount, Edited, Exists, Owner, TypeOK, Account
    <3> QED BY <2>1, <3>1, <3>2, MixingType DEF EditAccount, Edited, TypeOK
  <2>4. CASE \E m \in Mail, p \in Person : ChangeAddress(p, m)
    BY <2>4 DEF ChangeAddress, TypeOK
  <2> QED BY <2>2, <2>3, <2>4 DEF Between
<1> QED BY <1>1, <1>2, <1>3, <1>4, <1>5, <1>6, TypeAgain DEF TypeOK

LEMMA NextTypeOK == TypeOK /\ [Next]_vars => TypeOK'
<1> SUFFICES ASSUME TypeOK, [Next]_vars PROVE TypeOK'
  OBVIOUS
<1>1. CASE Next
  BY <1>1, Steps, LookUpType, WriteType, OpenType, RoleStepType, FaultType, SignInType,
     RequestType, BetweenType
<1>2. CASE UNCHANGED vars
  BY <1>2 DEF vars, tables, counts, history, TypeOK, RequestOK, Exists
<1> QED BY <1>1, <1>2

(* Every variable keeps its type; a sign-in that acts on an account has    *)
(* one that is there, whatever the other requests do meanwhile.            *)
THEOREM TypeCorrect == Spec => []TypeOK
BY InitTypeOK, NextTypeOK, PTL DEF Spec

-----------------------------------------------------------------------------
(* One account: whose an account is changes only among people mixed up.    *)

(* The same person, or two that may be taken for one another.              *)
Alike(S, p, q) == p = q \/ {p, q} \subseteq S

(* Nobody is linked to two accounts.  Whom an account is linked to owns    *)
(* its address, or is mixed up with the owner; the history agrees.         *)
AccountsOK ==
    /\ \A i, j \in Id : Exists(i) /\ Exists(j) /\ account[i].okta \in Person
                          /\ account[j].okta = account[i].okta => i = j
    /\ \A i \in Id : Exists(i) /\ account[i].okta \in Person =>
          Alike(mixed, Owner(i), account[i].okta)
    /\ \A h \in History : Exists(h.id) => Alike(mixed, Owner(h.id), MailOwner[h.mail])

(* What a sign-in knows.                                                   *)
SignOK(r) ==
    /\ req[r].pc \in SignPc => MailOwner[req[r].email] = req[r].actor
    /\ req[r].pc = "sync" => Alike(mixed, account[req[r].found].okta, req[r].actor)
    /\ req[r].pc = "linkMail" => Alike(mixed, Owner(req[r].found), req[r].actor)
    /\ req[r].pc \in {"canonical", "linkHistory", "insertHistory"} =>
          \E h \in History : h.id = req[r].found /\ h.mail = req[r].email

CreatedOK == \A p \in Person \ mixed : \A i \in created[p] :
                Exists(i) /\ account[i].okta = p

OwnInv ==
    /\ TypeOK /\ AccountsOK /\ CreatedOK
    /\ \A p \in Person : MailOwner[address[p]] = p
    /\ \A r \in Req : SignOK(r)

(* An account stays; its owner and its link stay, but for people mixed up. *)
Grows ==
    /\ mixed \subseteq mixed'
    /\ \A i \in Id : Exists(i) =>
         /\ account'[i] # NoRow
         /\ Alike(mixed', MailOwner[account'[i].mail], Owner(i))
         /\ account[i].okta \in Person => Alike(mixed', account'[i].okta, account[i].okta)

LEMMA Change ==
    ASSUME TypeOK, AccountsOK, NEW i \in Id, NEW a \in Account,
           account' = [account EXCEPT ![i] = a], mixed \subseteq mixed',
           Exists(i) => /\ Alike(mixed', MailOwner[a.mail], Owner(i))
                        /\ account[i].okta \in Person =>
                               Alike(mixed', a.okta, account[i].okta),
           a.okta \in Person => /\ Alike(mixed', MailOwner[a.mail], a.okta)
                                /\ Linked(a.okta) \subseteq {i},
           ~ Exists(i) => \A h \in History : h.id = i =>
                             Alike(mixed', MailOwner[a.mail], MailOwner[h.mail])
    PROVE  AccountsOK' /\ Grows
<1>1. /\ account'[i] = a /\ a # NoRow
      /\ \A j \in Id \ {i} : account'[j] = account[j]
  BY AccessAssumption DEF TypeOK, Account
<1>2. Grows
  <2>1. \A j \in Id \ {i} : Exists(j) =>
          /\ account'[j] # NoRow
          /\ MailOwner[account'[j].mail] = Owner(j)
          /\ account'[j].okta = account[j].okta
    BY <1>1 DEF Exists, Owner
  <2> QED BY <1>1, <2>1 DEF Grows, Alike
<1>3. \A h \in History : h.id \in Id
  BY TablesAssumption
<1>4. ASSUME NEW j \in Id, NEW k \in Id, Exists(j)', Exists(k)',
             account'[j].okta \in Person, account'[k].okta = account'[j].okta
      PROVE  j = k
  <2>1. \A l \in Id \ {i} : Exists(l)' /\ account'[l].okta = a.okta => l \in Linked(a.okta)
    BY <1>1 DEF Linked, Exists
  <2>2. CASE j # i /\ k # i
    BY <1>1, <1>4, <2>2 DEF AccountsOK, Exists
  <2> QED BY <1>1, <1>4, <2>1, <2>2
<1>5. ASSUME NEW j \in Id, Exists(j)', account'[j].okta \in Person
      PROVE  Alike(mixed', MailOwner[account'[j].mail], account'[j].okta)
  BY <1>1, <1>5 DEF AccountsOK, Exists, Owner, Alike
<1>6. ASSUME NEW h \in History, Exists(h.id)'
      PROVE  Alike(mixed', MailOwner[account'[h.id].mail], MailOwner[h.mail])
  <2>1. CASE h.id # i \/ Exists(i)
    <3>1. Alike(mixed, Owner(h.id), MailOwner[h.mail])
      BY <1>1, <1>3, <1>6, <2>1 DEF AccountsOK, Exists
    <3>2. Alike(mixed', MailOwner[account'[h.id].mail], Owner(h.id))
      BY <1>1, <1>3, <2>1 DEF Owner, Alike
    <3> QED BY <3>1, <3>2 DEF Alike
  <2>2. CASE h.id = i /\ ~ Exists(i)
    BY <1>1, <2>2
  <2> QED BY <2>1, <2>2
<1> QED BY <1>2, <1>4, <1>5, <1>6 DEF AccountsOK, Exists, Owner

LEMMA Quiet ==
    ASSUME AccountsOK, UNCHANGED <<account, mixed>>
    PROVE  AccountsOK' /\ Grows
<1>1. AccountsOK'
  BY DEF AccountsOK, Exists, Owner
<1>2. Grows
  BY DEF Grows, Exists, Owner, Alike
<1> QED BY <1>1, <1>2

(* Nobody is mixed up with another, or both are among the people mixed up. *)
LEMMA Mixed ==
    ASSUME NEW S, NEW p, mixed' = mixed \cup Mixing(S, p)
    PROVE  mixed \subseteq mixed' /\ \A q \in S : Alike(mixed', p, q)
BY DEF Mixing, Alike

LEMMA KnownAlike ==
    ASSUME NEW i, NEW p, mixed' = mixed \cup Mixing(Known(i), p)
    PROVE  /\ mixed \subseteq mixed'
           /\ \A h \in History : h.id = i => Alike(mixed', p, MailOwner[h.mail])
<1>1. \A h \in History : h.id = i => MailOwner[h.mail] \in Known(i)
  BY DEF Known
<1> QED BY <1>1, Mixed

LEMMA WriteAccounts ==
    ASSUME OwnInv, NEW r \in Req, Write(r)
    PROVE  AccountsOK' /\ Grows
<1> DEFINE i == req[r].found
           p == req[r].actor
           m == req[r].email
<1>1. /\ p \in Person /\ m \in Mail /\ MailOwner[m] = p /\ p # NoOne
      /\ TypeOK /\ AccountsOK
  BY AccessAssumption
     DEF Write, Sync, LinkMail, LinkHistory, InsertHistory, Create, At, OwnInv, TypeOK,
         RequestOK, SignOK, SignPc
<1>2. [okta |-> p, mail |-> m] \in Account
  BY <1>1 DEF Account
<1>3. \A j \in Id : Exists(j) => account[j] \in Account
  BY <1>1 DEF TypeOK, Exists
<1>4. CASE Sync(r)
  <2>1. /\ i \in Id /\ Exists(i) /\ Alike(mixed, account[i].okta, p)
        /\ account' = [account EXCEPT ![i] = [account[i] EXCEPT !.mail = m]]
        /\ mixed' = mixed
    BY <1>4 DEF Sync, At, OwnInv, TypeOK, RequestOK, SignOK, history
  <2> DEFINE a == [account[i] EXCEPT !.mail = m]
  <2>2. a \in Account /\ a.okta = account[i].okta /\ a.mail = m
    BY <1>1, <1>3, <2>1 DEF Account
  <2>3. account[i].okta \in Person
    BY <1>1, <2>1 DEF Alike, TypeOK
  <2>4. Alike(mixed, Owner(i), account[i].okta) /\ Linked(a.okta) \subseteq {i}
    BY <1>1, <2>1, <2>2, <2>3 DEF AccountsOK, Linked
  <2>5. account' = [account EXCEPT ![i] = a]
    BY <2>1
  <2>6. Alike(mixed', MailOwner[m], Owner(i))
    BY <1>1, <2>1, <2>4 DEF Alike
  <2>7. Alike(mixed', MailOwner[m], a.okta) /\ Alike(mixed', a.okta, account[i].okta)
    BY <1>1, <2>1, <2>2 DEF Alike
  <2> HIDE DEF a
  <2> QED BY <1>1, <2>1, <2>2, <2>4, <2>5, <2>6, <2>7, Change
<1>5. CASE LinkMail(r)
  <2>1. /\ i \in Id /\ Exists(i) /\ Alike(mixed, Owner(i), p) /\ mixed' = mixed
    BY <1>5 DEF LinkMail, At, OwnInv, TypeOK, RequestOK, SignOK, history
  <2>2. CASE Refused(i, p)
    BY <1>1, <1>5, <2>1, <2>2, Quiet DEF LinkMail
  <2>3. CASE ~ Refused(i, p)
    <3> DEFINE a == [account[i] EXCEPT !.okta = p]
    <3>1. a \in Account /\ a.okta = p /\ a.mail = account[i].mail
      BY <1>1, <1>3, <2>1 DEF Account
    <3>2. /\ Linked(p) \subseteq {i}
          /\ account[i].okta \in Person => Alike(mixed, p, account[i].okta)
      BY <1>1, <2>1, <2>3 DEF AccountsOK, Refused, Alike
    <3>3. /\ account' = [account EXCEPT ![i] = a]
          /\ Alike(mixed', MailOwner[a.mail], Owner(i))
          /\ Alike(mixed', MailOwner[a.mail], p)
      BY <1>5, <2>1, <2>3, <3>1 DEF LinkMail, Owner, Alike
    <3> HIDE DEF a
    <3> QED BY <1>1, <2>1, <3>1, <3>2, <3>3, Change
  <2> QED BY <2>2, <2>3
<1>6. CASE LinkHistory(r)
  <2>1. i \in Id /\ Exists(i) /\ mixed' = mixed
    BY <1>6 DEF LinkHistory, At, OwnInv, TypeOK, RequestOK, history
  <2>2. Alike(mixed, Owner(i), p)
    BY <1>1, <1>6, <2>1 DEF LinkHistory, At, OwnInv, AccountsOK, SignOK
  <2>3. CASE Refused(i, p)
    BY <1>1, <1>6, <2>1, <2>3, Quiet DEF LinkHistory
  <2>4. CASE ~ Refused(i, p)
    <3>1. /\ Linked(p) \subseteq {i}
          /\ account[i].okta \in Person => Alike(mixed', p, account[i].okta)
      BY <1>1, <2>1, <2>2, <2>4 DEF AccountsOK, Refused, Alike
    <3>2. account' = [account EXCEPT ![i] = [okta |-> p, mail |-> m]]
      BY <1>6, <2>4 DEF LinkHistory
    <3>3. Alike(mixed', MailOwner[m], Owner(i)) /\ Alike(mixed', MailOwner[m], p)
      BY <1>1, <2>1, <2>2 DEF Alike
    <3> QED BY <1>1, <1>2, <2>1, <3>1, <3>2, <3>3, Change
  <2> QED BY <2>3, <2>4
<1>7. ASSUME NEW j \in Id, Insert(r, j), ~ Exists(j), Linked(p) \subseteq {j}
      PROVE  AccountsOK' /\ Grows
  <2>1. /\ account' = [account EXCEPT ![j] = [okta |-> p, mail |-> m]]
        /\ mixed' = mixed \cup Mixing(Known(j), p)
    BY <1>7 DEF Insert
  <2>2. /\ mixed \subseteq mixed'
        /\ \A h \in History : h.id = j => Alike(mixed', MailOwner[m], MailOwner[h.mail])
    BY <1>1, <2>1, KnownAlike
  <2>3. Alike(mixed', MailOwner[m], p)
    BY <1>1 DEF Alike
  <2> QED BY <1>1, <1>2, <1>7, <2>1, <2>2, <2>3, Change
<1>8. CASE InsertHistory(r)
  <2>1. CASE Exists(i) \/ Refused(i, p)
    BY <1>1, <1>8, <2>1, Quiet DEF InsertHistory
  <2>2. CASE ~ Exists(i) /\ ~ Refused(i, p)
    <3>1. i \in Id /\ Insert(r, i)
      BY <1>8, <2>2 DEF InsertHistory, At, OwnInv, TypeOK, RequestOK
    <3>2. Linked(p) \subseteq {i}
      BY <2>2 DEF Refused
    <3> QED BY <1>7, <2>2, <3>1, <3>2
  <2> QED BY <2>1, <2>2
<1>9. CASE Create(r)
  <2>1. CASE Linked(p) # {}
    BY <1>1, <1>9, <2>1, Quiet DEF Create
  <2>2. CASE Linked(p) = {}
    <3>1. PICK j \in Id : Insert(r, j) /\ ~ Exists(j)
      BY <1>9, <2>2 DEF Create, Free
    <3> QED BY <1>7, <2>2, <3>1
  <2> QED BY <2>1, <2>2
<1> QED BY <1>4, <1>5, <1>6, <1>8, <1>9 DEF Write

LEMMA BetweenAccounts ==
    ASSUME TypeOK, AccountsOK, Between
    PROVE  AccountsOK' /\ Grows
<1>1. \A j \in Id : Exists(j) => account[j] \in Account
  BY DEF TypeOK, Exists
<1>2. CASE \E m \in Mail : CreateAccount(m)
  <2>1. PICK m \in Mail : CreateAccount(m)
    BY <1>2
  <2> DEFINE a == [okta |-> NoOne, mail |-> m]
  <2>2. a \in Account /\ a.okta = NoOne /\ a.mail = m /\ NoOne \notin Person
    BY AccessAssumption DEF Account
  <2>3. PICK i \in Id : /\ ~ Exists(i)
                        /\ account' = [account EXCEPT ![i] = a]
                        /\ mixed' = mixed \cup Mixing(Known(i), MailOwner[m])
    BY <2>1 DEF CreateAccount, Free
  <2>4. /\ mixed \subseteq mixed'
        /\ \A h \in History : h.id = i => Alike(mixed', MailOwner[m], MailOwner[h.mail])
    BY <2>3, KnownAlike
  <2> HIDE DEF a
  <2> QED BY <2>2, <2>3, <2>4, Change
<1>3. CASE \E m \in Mail, i \in Id : EditAccount(i, m)
  <2>1. PICK m \in Mail, i \in Id : EditAccount(i, m)
    BY <1>3
  <2> DEFINE a == [account[i] EXCEPT !.mail = m]
  <2>2. Exists(i) /\ mixed' = mixed \cup Mixing({Owner(i)}, MailOwner[m])
    BY <2>1 DEF EditAccount, Edited
  <2>3. a \in Account /\ a.okta = account[i].okta /\ a.mail = m
    BY <1>1, <2>2 DEF Account
  <2>4. account' = [account EXCEPT ![i] = a]
    BY <2>1 DEF EditAccount
  <2>5. mixed \subseteq mixed' /\ Alike(mixed', MailOwner[m], Owner(i))
    BY <2>2, Mixed
  <2>6. a.okta \in Person => Linked(a.okta) \subseteq {i}
    BY <2>2, <2>3 DEF AccountsOK, Linked
  <2>7. a.okta \in Person => Alike(mixed', MailOwner[m], a.okta)
    BY <2>2, <2>3, <2>5 DEF AccountsOK, Alike
  <2>8. Alike(mixed', a.okta, account[i].okta)
    BY <2>3 DEF Alike
  <2> HIDE DEF a
  <2> QED BY <2>2, <2>3, <2>4, <2>5, <2>6, <2>7, <2>8, Change
<1>4. CASE \E m \in Mail, p \in Person : ChangeAddress(p, m)
  BY <1>4, Quiet DEF ChangeAddress
<1> QED BY <1>2, <1>3, <1>4 DEF Between

LEMMA SignAgain ==
    ASSUME TypeOK, Grows, NEW q \in Req, SignOK(q),
           req'[q].pc = req[q].pc, req'[q].actor = req[q].actor,
           req'[q].email = req[q].email, req'[q].found = req[q].found
    PROVE  SignOK(q)'
<1>1. /\ req[q].pc \in SignPc => req[q].actor \in Person
      /\ req[q].pc \in {"sync", "linkMail"} => req[q].found \in Id /\ Exists(req[q].found)
      /\ mixed \subseteq Person
  BY DEF TypeOK, RequestOK
<1>2. req[q].pc = "sync" => Alike(mixed', account'[req[q].found].okta, req[q].actor)
  BY <1>1 DEF SignOK, SignPc, Grows, Alike
<1>3. req[q].pc = "linkMail" =>
          Alike(mixed', MailOwner[account'[req[q].found].mail], req[q].actor)
  BY <1>1 DEF SignOK, SignPc, Grows, Alike, Owner
<1> QED BY <1>1, <1>2, <1>3 DEF SignOK, SignPc, Owner

(* A step of r, its requests aside.                                        *)
LEMMA OthersSign ==
    ASSUME TypeOK, Grows, NEW r \in Req, NEW l, NEW i, Goto(r, l, i),
           \A q \in Req : SignOK(q), SignOK(r)'
    PROVE  \A q \in Req : SignOK(q)'
BY GotoFields, SignAgain

LEMMA CreatedAgain ==
    ASSUME TypeOK, Grows, CreatedOK, UNCHANGED created
    PROVE  CreatedOK'
<1> SUFFICES ASSUME NEW p \in Person \ mixed', NEW i \in created'[p]
             PROVE  account'[i] # NoRow /\ account'[i].okta = p
  BY DEF CreatedOK, Exists
<1>1. i \in Id /\ Exists(i) /\ account[i].okta = p
  BY DEF TypeOK, CreatedOK, Grows
<1> QED BY <1>1 DEF Grows, Alike

LEMMA InitOwn == Init => OwnInv
<1> SUFFICES ASSUME Init PROVE OwnInv
  OBVIOUS
<1>1. TypeOK
  BY InitTypeOK
<1>2. AccountsOK
  <2>1. \A i \in Id : Exists(i) <=> i \in DOMAIN FirstAccount
    BY AccessAssumption, TablesAssumption DEF Init, Exists, Account
  <2>2. \A i \in DOMAIN FirstAccount : account[i] = FirstAccount[i]
    BY AccessAssumption DEF Init
  <2> QED BY <2>1, <2>2, TablesAssumption DEF AccountsOK, Owner, Alike
<1>3. CreatedOK
  BY DEF Init, CreatedOK
<1>4. \A p \in Person : MailOwner[address[p]] = p
  BY DEF Init
<1>5. \A r \in Req : SignOK(r)
  BY DEF Init, Idle, SignOK, SignPc
<1> QED BY <1>1, <1>2, <1>3, <1>4, <1>5 DEF OwnInv

LEMMA LookUpOwn ==
    ASSUME OwnInv, NEW r \in Req, LookUp(r)
    PROVE  OwnInv'
<1>1. TypeOK /\ TypeOK' /\ UNCHANGED <<account, address, created, mixed>>
  BY LookUpType DEF OwnInv, LookUp, ByOkta, ByMail, LookInHistory, LookForCanonical,
     tables, history
<1>2. AccountsOK' /\ Grows
  BY <1>1, Quiet DEF OwnInv
<1>3. /\ MailOwner[req[r].email] = req[r].actor
  BY DEF OwnInv, SignOK, SignPc, LookUp, ByOkta, ByMail, LookInHistory, LookForCanonical, At
<1>4. PICK l, i :
        /\ l \in SignPc
        /\ Goto(r, l, i)
        /\ l = "sync" => account[i].okta = req[r].actor
        /\ l = "linkMail" => Owner(i) = req[r].actor
        /\ l \in {"canonical", "linkHistory", "insertHistory"} =>
              \E h \in History : h.id = i /\ h.mail = req[r].email
  <2>1. CASE ByOkta(r)
    BY <2>1 DEF ByOkta, Go, Linked, SignPc
  <2>2. CASE ByMail(r)
    BY <1>3, <2>2 DEF ByMail, Go, Named, Owner, SignPc
  <2>3. CASE LookInHistory(r)
    BY <2>3 DEF LookInHistory, Go, Canonical, SignPc
  <2>4. CASE LookForCanonical(r)
    <3>1. \E h \in History : h.id = req[r].found /\ h.mail = req[r].email
      BY <2>4 DEF LookForCanonical, At, OwnInv, SignOK
    <3>2. \/ Goto(r, "linkHistory", req[r].found)
          \/ Goto(r, "insertHistory", req[r].found)
      BY <2>4 DEF LookForCanonical, Go
    <3> QED BY <3>1, <3>2 DEF SignPc
  <2> QED BY <2>1, <2>2, <2>3, <2>4 DEF LookUp
<1>5. SignOK(r)'
  <2>1. /\ req'[r].pc = l /\ req'[r].found = i
        /\ req'[r].actor = req[r].actor /\ req'[r].email = req[r].email
    BY <1>1, <1>4, GotoFields DEF SignPc
  <2> QED BY <1>1, <1>3, <1>4, <2>1 DEF SignOK, Owner, Alike
<1>6. \A q \in Req : SignOK(q)'
  BY <1>1, <1>2, <1>4, <1>5, OthersSign DEF OwnInv
<1>7. CreatedOK'
  BY <1>1, <1>2, CreatedAgain DEF OwnInv
<1> QED BY <1>1, <1>2, <1>6, <1>7 DEF OwnInv

(* A step after which a sign-in knows no more than its address.            *)
LEMMA PlainSign ==
    ASSUME TypeOK, NEW r \in Req, NEW l, NEW i, Goto(r, l, i), SignOK(r),
           req[r].pc \in SignPc \/ l \notin SignPc,
           l \notin {"sync", "linkMail", "canonical", "linkHistory", "insertHistory"}
    PROVE  SignOK(r)'
<1>1. CASE l = "idle"
  <2>1. req'[r].pc = "idle"
    BY <1>1, GotoFields DEF Idle
  <2> QED BY <2>1 DEF SignOK, SignPc
<1>2. CASE l # "idle"
  <2>1. /\ req'[r].pc = l
        /\ req'[r].actor = req[r].actor /\ req'[r].email = req[r].email
    BY <1>2, GotoFields
  <2> QED BY <2>1 DEF SignOK
<1> QED BY <1>1, <1>2

LEMMA WriteOwn ==
    ASSUME OwnInv, NEW r \in Req, Write(r)
    PROVE  OwnInv' /\ Grows
<1>1. TypeOK /\ TypeOK' /\ UNCHANGED address
  BY WriteType DEF OwnInv, Write, Sync, LinkMail, LinkHistory, InsertHistory, Create
<1>2. AccountsOK' /\ Grows
  BY WriteAccounts
<1>3. PICK l, i : l \in {"idle", "roster", "create"} /\ Goto(r, l, i)
  BY DEF Write, Sync, LinkMail, LinkHistory, InsertHistory, Create, Insert, Go
<1>4. req[r].pc \in SignPc
  BY DEF Write, Sync, LinkMail, LinkHistory, InsertHistory, Create, At, SignPc
<1>5. SignOK(r)'
  BY <1>1, <1>3, <1>4, PlainSign DEF OwnInv
<1>6. \A q \in Req : SignOK(q)'
  BY <1>1, <1>2, <1>3, <1>5, OthersSign DEF OwnInv
<1>7. CreatedOK'
  <2>1. CASE UNCHANGED created
    BY <1>1, <1>2, <2>1, CreatedAgain DEF OwnInv
  <2>2. CASE \E j \in Id : Insert(r, j)
    <3>1. PICK j \in Id : Insert(r, j)
      BY <2>2
    <3>2. account'[j] = [okta |-> req[r].actor, mail |-> req[r].email]
      BY <1>1, <3>1 DEF Insert, TypeOK
    <3>3. account'[j].okta = req[r].actor /\ account'[j] # NoRow
      <4>1. req[r].actor \in Person /\ req[r].email \in Mail
        BY <1>1, <1>4 DEF TypeOK, RequestOK
      <4> QED BY <3>2, <4>1, NoRowNew
    <3>4. ASSUME NEW p \in Person \ mixed', NEW k \in created'[p]
          PROVE  account'[k] # NoRow /\ account'[k].okta = p
      <4>1. k \in created[p] \/ (p = req[r].actor /\ k = j)
        BY <1>1, <3>1 DEF Insert, TypeOK
      <4>2. CASE k \in created[p]
        <5>1. k \in Id /\ Exists(k) /\ account[k].okta = p
          BY <1>1, <1>2, <4>2 DEF OwnInv, CreatedOK, TypeOK, Grows
        <5> QED BY <1>2, <5>1 DEF Grows, Alike
      <4> QED BY <3>3, <4>1, <4>2
    <3> QED BY <3>4 DEF CreatedOK, Exists
  <2>4. At(r, "insertHistory") => req[r].found \in Id
    BY <1>1 DEF At, TypeOK, RequestOK
  <2>5. UNCHANGED created \/ \E j \in Id : Insert(r, j)
    BY <2>4
       DEF Write, Sync, LinkMail, LinkHistory, InsertHistory, Create, Free, history
  <2> QED BY <2>1, <2>2, <2>5
<1> QED BY <1>1, <1>2, <1>6, <1>7 DEF OwnInv

LEMMA QuietOwn ==
    ASSUME OwnInv, NEW r \in Req, Open(r) \/ RoleStep(r)
    PROVE  OwnInv'
<1>1. TypeOK /\ TypeOK' /\ UNCHANGED <<account, address, created, mixed>>
  BY OpenType, RoleStepType
     DEF OwnInv, Open, RoleStep, GrantRoster, Session, MayGrant, Look, Renew, Grant,
         MayRemove, Count, Remove, tables, history
<1>2. AccountsOK' /\ Grows
  BY <1>1, Quiet DEF OwnInv
<1>3. PICK l : Goto(r, l, req[r].found) /\ l \in {"session", "idle", "look", "grant",
                                         "renew", "count", "remove"}
               /\ (l = "session" => req[r].pc \in SignPc)
  BY DEF Open, RoleStep, GrantRoster, Session, MayGrant, Look, Renew, Grant, MayRemove,
         Count, Remove, Go, At, SignPc
<1>4. SignOK(r)'
  BY <1>1, <1>3, PlainSign DEF OwnInv, SignPc
<1>5. \A q \in Req : SignOK(q)'
  BY <1>1, <1>2, <1>3, <1>4, OthersSign DEF OwnInv
<1>6. CreatedOK'
  BY <1>1, <1>2, CreatedAgain DEF OwnInv
<1> QED BY <1>1, <1>2, <1>5, <1>6 DEF OwnInv

(* What the remaining steps do to the requests.                            *)
LEMMA SignInFields ==
    ASSUME TypeOK, NEW r \in Req, NEW p \in Person, SignIn(r, p)
    PROVE  /\ req'[r].pc = "byOkta" /\ req'[r].actor = p /\ req'[r].email = address[p]
           /\ ~ req'[r].disturbed => \A q \in Req \ {r} : req[q].actor # p
           /\ \A q \in Req \ {r} :
                 /\ req'[q].pc = req[q].pc /\ req'[q].actor = req[q].actor
                 /\ req'[q].email = req[q].email /\ req'[q].found = req[q].found
                 /\ req'[q].about = req[q].about
                 /\ req'[q].disturbed = (req[q].disturbed \/ req[q].actor = p)
<1> DEFINE others == {q \in Req \ {r} : req[q].actor = p}
           new == [Idle EXCEPT !.pc = "byOkta", !.actor = p, !.email = address[p],
                               !.disturbed = others # {}]
<1>1. req' = [q \in Req |-> IF q = r THEN new
                            ELSE [req[q] EXCEPT !.disturbed = @ \/ q \in others]]
  BY DEF SignIn
<1>2. new \in [pc : {"byOkta"}, actor : {p}, email : {address[p]}, found : {0},
              about : {SuperAdmin}, disturbed : {others # {}}]
  BY DEF Idle
<1> HIDE DEF new
<1>3. /\ req'[r].pc = "byOkta" /\ req'[r].actor = p /\ req'[r].email = address[p]
      /\ req'[r].disturbed = (others # {})
  BY <1>1, <1>2
<1>4. ASSUME NEW q \in Req \ {r}
      PROVE  /\ req'[q].pc = req[q].pc /\ req'[q].actor = req[q].actor
             /\ req'[q].email = req[q].email /\ req'[q].found = req[q].found
             /\ req'[q].about = req[q].about
             /\ req'[q].disturbed = (req[q].disturbed \/ req[q].actor = p)
  BY <1>1 DEF TypeOK
<1> QED BY <1>3, <1>4

LEMMA RequestFields ==
    ASSUME TypeOK, NEW r \in Req, Request(r)
    PROVE  /\ req'[r].pc \in {"mayGrant", "mayRemove"} /\ req'[r].found \in Id
           /\ \A q \in Req \ {r} : req'[q] = req[q]
<1>1. PICK by \in Id, i \in Id, x \in Role, label \in {"mayGrant", "mayRemove"} :
        Ask(r, by, i, x, label)
  BY DEF Request
<1> DEFINE new == [Idle EXCEPT !.pc = label, !.actor = by, !.found = i, !.about = x]
<1>2. new \in [pc : {label}, actor : {by}, email : {NoOne}, found : {i}, about : {x},
              disturbed : {FALSE}]
  BY DEF Idle
<1>3. req' = [req EXCEPT ![r] = new]
  BY <1>1 DEF Ask
<1> HIDE DEF new
<1>4. new.pc = label /\ new.found = i
  BY <1>2
<1> QED BY <1>3, <1>4 DEF TypeOK

LEMMA FaultFields ==
    ASSUME TypeOK, NEW r \in Req, Fault(r)
    PROVE  /\ \A q \in Req \ {r} : req'[q] = req[q]
           /\ \/ req'[r].pc = "idle"
              \/ /\ req'[r].pc \in {"create", "roster", "session"}
                 /\ req[r].pc \in SignPc /\ req'[r].disturbed
                 /\ req'[r].actor = req[r].actor /\ req'[r].email = req[r].email
<1>1. \A q \in Req \ {r} : req'[q] = req[q]
  BY DEF Fault, TypeOK
<1>2. \/ req' = [req EXCEPT ![r] = Idle]
      \/ \E l \in {"create", "roster", "session"}, i \in {0, req[r].found} :
            /\ req[r].pc \in SignPc
            /\ req' = [req EXCEPT ![r] = [req[r] EXCEPT !.pc = l, !.found = i,
                                                        !.disturbed = TRUE]]
  <2>1. CASE req[r].pc \in {"history", "canonical", "insertHistory"}
    <3>1. req' = [req EXCEPT ![r] = [req[r] EXCEPT !.pc = "create", !.found = 0,
                                              !.disturbed = TRUE]]
      BY <2>1 DEF Fault, At
    <3>2. req[r].pc \in SignPc
      BY <2>1 DEF SignPc
    <3> QED BY <3>1, <3>2
  <2>2. CASE At(r, "linkHistory") \/ At(r, "roster")
    <3>1. req[r].pc \in SignPc
      BY <2>2 DEF SignPc, At
    <3>2. \E l \in {"roster", "session"} :
            req' = [req EXCEPT ![r] = [req[r] EXCEPT !.pc = l, !.found = req[r].found,
                                                     !.disturbed = TRUE]]
      BY <2>2 DEF Fault, At
    <3> QED BY <3>1, <3>2
  <2>3. CASE req[r].pc \notin {"history", "canonical", "insertHistory", "linkHistory",
                              "roster"}
    BY <2>3 DEF Fault, At
  <2> QED BY <2>1, <2>2, <2>3 DEF At
<1>3. req' = [req EXCEPT ![r] = Idle] => req'[r].pc = "idle"
  BY DEF TypeOK, Idle
<1>4. ASSUME NEW l \in {"create", "roster", "session"}, NEW i \in {0, req[r].found},
             req[r].pc \in SignPc,
             req' = [req EXCEPT ![r] = [req[r] EXCEPT !.pc = l, !.found = i,
                                                 !.disturbed = TRUE]]
      PROVE  /\ req'[r].pc = l /\ req'[r].disturbed
             /\ req'[r].actor = req[r].actor /\ req'[r].email = req[r].email
  BY <1>4 DEF TypeOK
<1> QED BY <1>1, <1>2, <1>3, <1>4

LEMMA BeginOwn ==
    ASSUME OwnInv, NEW r \in Req,
           (\E p \in Person : SignIn(r, p)) \/ Request(r) \/ Fault(r)
    PROVE  OwnInv'
<1>1. TypeOK /\ TypeOK' /\ UNCHANGED <<account, address, created, mixed>>
  BY SignInType, RequestType, FaultType
     DEF OwnInv, tables, SignIn, Request, Ask, Fault, history
<1>2. AccountsOK' /\ Grows
  BY <1>1, Quiet DEF OwnInv
<1>3. CreatedOK'
  BY <1>1, <1>2, CreatedAgain DEF OwnInv
<1>4. \A q \in Req : SignOK(q)'
  <2>1. ASSUME NEW p \in Person, SignIn(r, p) PROVE \A q \in Req : SignOK(q)'
    <3>1. MailOwner[address[p]] = p
      BY DEF OwnInv
    <3>2. SignOK(r)'
      BY <1>1, <2>1, <3>1, SignInFields DEF SignOK
    <3>3. \A q \in Req \ {r} : SignOK(q)'
      BY <1>1, <1>2, <2>1, SignInFields, SignAgain DEF OwnInv
    <3> QED BY <3>2, <3>3
  <2>2. CASE Request(r)
    <3>1. SignOK(r)'
      BY <1>1, <2>2, RequestFields DEF SignOK, SignPc
    <3>2. \A q \in Req \ {r} : SignOK(q)'
      BY <1>1, <1>2, <2>2, RequestFields, SignAgain DEF OwnInv
    <3> QED BY <3>1, <3>2
  <2>3. CASE Fault(r)
    <3>1. SignOK(r)'
      BY <1>1, <2>3, FaultFields DEF SignOK, SignPc, OwnInv
    <3>2. \A q \in Req \ {r} : SignOK(q)'
      BY <1>1, <1>2, <2>3, FaultFields, SignAgain DEF OwnInv
    <3> QED BY <3>1, <3>2
  <2> QED BY <2>1, <2>2, <2>3
<1> QED BY <1>1, <1>2, <1>3, <1>4 DEF OwnInv

LEMMA BetweenOwn ==
    ASSUME OwnInv, Between
    PROVE  OwnInv' /\ Grows
<1>1. TypeOK /\ TypeOK' /\ UNCHANGED <<req, created>>
  BY BetweenType
     DEF OwnInv, Between, CreateAccount, EditAccount, ChangeAddress, Edit, history
<1>2. AccountsOK' /\ Grows
  BY <1>1, BetweenAccounts DEF OwnInv
<1>3. CreatedOK'
  BY <1>1, <1>2, CreatedAgain DEF OwnInv
<1>4. \A q \in Req : SignOK(q)'
  BY <1>1, <1>2, SignAgain DEF OwnInv
<1>5. \A p \in Person : MailOwner[address'[p]] = p
  BY <1>1 DEF Between, CreateAccount, EditAccount, ChangeAddress, OwnInv, TypeOK
<1> QED BY <1>1, <1>2, <1>3, <1>4, <1>5 DEF OwnInv

LEMMA NextOwn == OwnInv /\ [Next]_vars => OwnInv'
<1> SUFFICES ASSUME OwnInv, [Next]_vars PROVE OwnInv'
  OBVIOUS
<1>1. CASE Next
  BY <1>1, Steps, LookUpOwn, WriteOwn, QuietOwn, BeginOwn, BetweenOwn
<1>2. CASE UNCHANGED vars
  <2>1. UNCHANGED <<account, address, req, created, mixed>> /\ TypeOK /\ TypeOK'
    BY <1>2, NextTypeOK DEF vars, tables, history, OwnInv
  <2>2. AccountsOK' /\ Grows
    BY <2>1, Quiet DEF OwnInv
  <2>3. CreatedOK' /\ \A q \in Req : SignOK(q)'
    BY <2>1, <2>2, CreatedAgain, SignAgain DEF OwnInv
  <2> QED BY <2>1, <2>2, <2>3 DEF OwnInv
<1> QED BY <1>1, <1>2

LEMMA AtMostOne ==
    ASSUME NEW S, \A x, y \in S : x = y
    PROVE  Cardinality(S) <= 1
<1>1. CASE S = {}
  BY <1>1, FS_EmptySet
<1>2. CASE S # {}
  <2>1. PICK x \in S : S = {x}
    BY <1>2
  <2> QED BY <2>1, FS_Singleton
<1> QED BY <1>1, <1>2

LEMMA OwnIsOne == OwnInv => OneAccount
<1> SUFFICES ASSUME OwnInv, NEW p \in Person
             PROVE  /\ Cardinality(Linked(p)) <= 1
                    /\ p \notin mixed => Cardinality(created[p]) <= 1
  BY DEF OneAccount, OwnInv
<1>1. \A x, y \in Linked(p) : x = y
  BY DEF OwnInv, AccountsOK, Linked
<1>2. p \notin mixed => created[p] \subseteq Linked(p)
  BY DEF OwnInv, CreatedOK, TypeOK, Linked
<1>3. p \notin mixed => \A x, y \in created[p] : x = y
  BY <1>1, <1>2
<1> QED BY <1>1, <1>3, AtMostOne

(* One account at most is linked to a person.  Her sign-ins create one     *)
(* account at most, however they overlap and fail and whatever is edited   *)
(* meanwhile, unless she is mixed up with somebody                         *)
(* (auth/okta/callback.ts:304-372).                                        *)
THEOREM OneAccountEach == Spec => []OneAccount
BY InitOwn, NextOwn, OwnIsOne, PTL DEF Spec

-----------------------------------------------------------------------------
(* The same account, ever after.                                           *)

Searching == {"byMail", "linkMail", "history", "canonical", "linkHistory",
              "insertHistory", "create"}

(* A sign-in that nothing disturbed, of a person who is not mixed up with  *)
(* another, looks for an account only while she has none, and then goes on *)
(* with hers.                                                              *)
Calm(r) ==
    ~ req[r].disturbed /\ req[r].actor \notin mixed =>
        /\ req[r].pc \in Searching => Linked(req[r].actor) = {}
        /\ req[r].pc \in {"roster", "session"} =>
              account[req[r].found].okta = req[r].actor

(* Two sign-ins of a person disturb each other.                            *)
Apart(q, r) == (req[q].pc \in SignPc /\ req[r].pc \in SignPc
                   /\ req[q].actor = req[r].actor)
                       => q = r \/ (req[q].disturbed /\ req[r].disturbed)

HomeOK == \A p \in Person \ mixed :
    home[p] # 0 => Exists(home[p]) /\ account[home[p]].okta = p

StayInv ==
    /\ OwnInv /\ HomeOK
    /\ \A r \in Req : Calm(r)
    /\ \A q, r \in Req : Apart(q, r)

(* Nobody else comes to have the account of a person.                      *)
KeepsOff(p) == \A i \in Id : account'[i] # NoRow /\ account'[i].okta = p => i \in Linked(p)

LEMMA CalmAgain ==
    ASSUME TypeOK, Grows, NEW q \in Req, Calm(q),
           req'[q].pc = req[q].pc, req'[q].actor = req[q].actor,
           req'[q].found = req[q].found, req[q].disturbed => req'[q].disturbed,
           req[q].pc \in SignPc /\ ~ req'[q].disturbed => KeepsOff(req[q].actor)
    PROVE  Calm(q)'
<1>1. /\ req[q].pc \in SignPc => req[q].actor \in Person
      /\ req[q].pc \in {"roster", "session"} => req[q].found \in Id /\ Exists(req[q].found)
  BY DEF TypeOK, RequestOK
<1>2. req[q].disturbed \in BOOLEAN
  BY DEF TypeOK
<1>3. Searching \subseteq SignPc
  BY DEF Searching, SignPc
<1>6. mixed \subseteq mixed'
  BY DEF Grows
<1>4. ASSUME ~ req'[q].disturbed, req'[q].pc \in Searching, req'[q].actor \notin mixed'
      PROVE  {i \in Id : account'[i] # NoRow /\ account'[i].okta = req'[q].actor} = {}
  BY <1>2, <1>3, <1>4, <1>6 DEF Calm, KeepsOff
<1>5. ASSUME ~ req'[q].disturbed, req'[q].pc \in {"roster", "session"},
             req'[q].actor \notin mixed'
      PROVE  account'[req'[q].found].okta = req'[q].actor
  <2>1. account[req[q].found].okta = req[q].actor /\ req[q].actor \in Person
    BY <1>1, <1>2, <1>5, <1>6 DEF Calm, SignPc
  <2> QED BY <1>1, <1>5, <2>1 DEF Grows, Alike
<1> QED BY <1>4, <1>5 DEF Calm, Linked, Exists

LEMMA ApartAgain ==
    ASSUME \A q, r \in Req : Apart(q, r), NEW r \in Req, TypeOK,
           \A q \in Req \ {r} : req'[q] = req[q],
           req'[r].pc \in SignPc =>
               /\ req[r].pc \in SignPc
               /\ req'[r].actor = req[r].actor
               /\ req[r].disturbed => req'[r].disturbed
    PROVE  \A p, q \in Req : Apart(p, q)'
<1>1. ASSUME NEW p \in Req, NEW q \in Req PROVE Apart(p, q)'
  <2>1. Apart(p, q)
    OBVIOUS
  <2>2. CASE p = r /\ q = r
    BY <2>2 DEF Apart
  <2>3. CASE p = r /\ q # r
    BY <2>1, <2>3 DEF Apart
  <2>4. CASE p # r /\ q = r
    BY <2>1, <2>4 DEF Apart
  <2>5. CASE p # r /\ q # r
    BY <2>1, <2>5 DEF Apart
  <2> QED BY <2>2, <2>3, <2>4, <2>5
<1> QED BY <1>1

LEMMA HomeAgain ==
    ASSUME TypeOK, Grows, HomeOK, UNCHANGED home
    PROVE  HomeOK'
<1> SUFFICES ASSUME NEW p \in Person \ mixed', home'[p] # 0
             PROVE  account'[home'[p]] # NoRow /\ account'[home'[p]].okta = p
  BY DEF HomeOK, Exists
<1>1. home[p] \in Id /\ Exists(home[p]) /\ account[home[p]].okta = p
  BY DEF TypeOK, HomeOK, Grows
<1> QED BY <1>1 DEF Grows, Alike

LEMMA SameOff ==
    ASSUME UNCHANGED account, NEW p
    PROVE  KeepsOff(p)
BY DEF KeepsOff, Linked, Exists

LEMMA ExceptOff ==
    ASSUME TypeOK, NEW i \in Id, NEW a, account' = [account EXCEPT ![i] = a],
           NEW p, a.okta = p => i \in Linked(p)
    PROVE  KeepsOff(p)
BY DEF KeepsOff, Linked, Exists, TypeOK

LEMMA WriteOff ==
    ASSUME OwnInv, NEW r \in Req, Write(r), NEW p \in Person, p # req[r].actor
    PROVE  KeepsOff(p)
<1>1. TypeOK
  BY DEF OwnInv
<1>2. \/ UNCHANGED account
      \/ \E i \in Id : \E a :
            /\ account' = [account EXCEPT ![i] = a]
            /\ a.okta = p => i \in Linked(p)
  <2>1. CASE Sync(r)
    <3>1. /\ req[r].found \in Id /\ Exists(req[r].found)
          /\ account[req[r].found] \in Account
      BY <1>1, <2>1 DEF Sync, At, TypeOK, RequestOK, Exists
    <3> DEFINE a == [account[req[r].found] EXCEPT !.mail = req[r].email]
    <3>2. account' = [account EXCEPT ![req[r].found] = a]
      BY <2>1 DEF Sync
    <3>3. a.okta = p => req[r].found \in Linked(p)
      BY <3>1 DEF Account, Linked
    <3> HIDE DEF a
    <3> QED BY <3>1, <3>2, <3>3
  <2>2. CASE LinkMail(r)
    <3>1. /\ req[r].found \in Id /\ account[req[r].found] \in Account
      BY <1>1, <2>2 DEF LinkMail, At, TypeOK, RequestOK, Exists
    <3> DEFINE a == [account[req[r].found] EXCEPT !.okta = req[r].actor]
    <3>2. UNCHANGED account \/ account' = [account EXCEPT ![req[r].found] = a]
      BY <2>2 DEF LinkMail
    <3>3. a.okta # p
      BY <3>1 DEF Account
    <3> HIDE DEF a
    <3> QED BY <3>1, <3>2, <3>3
  <2>3. CASE LinkHistory(r) \/ InsertHistory(r) \/ Create(r)
    <3> DEFINE a == [okta |-> req[r].actor, mail |-> req[r].email]
    <3>1. a.okta # p
      OBVIOUS
    <3>2. ~ At(r, "create") => req[r].found \in Id
      BY <1>1, <2>3 DEF LinkHistory, InsertHistory, Create, At, TypeOK, RequestOK
    <3>4. UNCHANGED account \/ \E i \in Id : account' = [account EXCEPT ![i] = a]
      BY <2>3, <3>2 DEF LinkHistory, InsertHistory, Create, Insert, At, Free
    <3> HIDE DEF a
    <3> QED BY <3>1, <3>4
  <2> QED BY <2>1, <2>2, <2>3 DEF Write
<1> QED BY <1>1, <1>2, SameOff, ExceptOff

LEMMA InitStay == Init => StayInv
<1> SUFFICES ASSUME Init PROVE StayInv
  OBVIOUS
<1>1. \A r \in Req : req[r].pc = "idle"
  BY DEF Init, Idle
<1>2. (\A r \in Req : Calm(r)) /\ \A q, r \in Req : Apart(q, r)
  BY <1>1 DEF Calm, Apart, Searching, SignPc
<1>3. HomeOK
  BY DEF Init, HomeOK
<1> QED BY <1>2, <1>3, InitOwn DEF StayInv

(* A step of a sign-in that was under way: the others keep calm.           *)
LEMMA OthersCalm ==
    ASSUME StayInv, Grows, NEW r \in Req, NEW l, NEW i, Goto(r, l, i),
           req[r].pc \in SignPc,
           \A p \in Person : p # req[r].actor => KeepsOff(p)
    PROVE  /\ \A q \in Req \ {r} : Calm(q)'
           /\ \A p, q \in Req : Apart(p, q)'
<1>1. TypeOK
  BY DEF StayInv, OwnInv
<1>2. /\ \A q \in Req \ {r} : req'[q] = req[q]
      /\ req'[r].pc \in SignPc =>
            /\ req'[r].actor = req[r].actor
            /\ req'[r].disturbed = req[r].disturbed
  BY <1>1, GotoFields DEF Idle, SignPc
<1>3. ASSUME NEW q \in Req \ {r} PROVE Calm(q)'
  <2>1. Apart(q, r) /\ Calm(q)
    BY DEF StayInv
  <2>2. req[q].pc \in SignPc => req[q].actor \in Person
    BY <1>1 DEF TypeOK, RequestOK
  <2>3. req[q].pc \in SignPc /\ ~ req'[q].disturbed => KeepsOff(req[q].actor)
    BY <1>2, <2>1, <2>2 DEF Apart
  <2> QED BY <1>1, <1>2, <2>1, <2>3, CalmAgain
<1>4. \A p, q \in Req : Apart(p, q)'
  BY <1>1, <1>2, ApartAgain DEF StayInv
<1> QED BY <1>3, <1>4

LEMMA LookUpStay ==
    ASSUME StayInv, NEW r \in Req, LookUp(r)
    PROVE  StayInv'
<1>1. OwnInv /\ OwnInv' /\ TypeOK /\ UNCHANGED <<account, home, mixed>> /\ req[r].pc \in SignPc
  BY LookUpOwn
     DEF StayInv, OwnInv, LookUp, ByOkta, ByMail, LookInHistory, LookForCanonical,
         tables, history, At, SignPc
<1>2. Grows /\ \A p : KeepsOff(p)
  BY <1>1, Quiet, SameOff DEF OwnInv
<1>3. PICK l, i :
        /\ l \in {"sync", "byMail", "linkMail", "history", "canonical", "create",
                  "linkHistory", "insertHistory"}
        /\ Goto(r, l, i)
        /\ l = "sync" \/ req[r].pc \in Searching \/ Linked(req[r].actor) = {}
  BY DEF LookUp, ByOkta, ByMail, LookInHistory, LookForCanonical, Go, At, Searching
<1>4. Calm(r)'
  <2>1. /\ req'[r].pc = l /\ req'[r].actor = req[r].actor
        /\ req'[r].disturbed = req[r].disturbed
    BY <1>1, <1>3, GotoFields
  <2>2. ~ req[r].disturbed /\ req[r].actor \notin mixed /\ l # "sync"
           => Linked(req[r].actor) = {}
    BY <1>3 DEF StayInv, Calm
  <2> QED BY <1>1, <1>3, <2>1, <2>2 DEF Calm, Linked, Exists, Searching
<1>5. (\A q \in Req : Calm(q)') /\ \A p, q \in Req : Apart(p, q)'
  BY <1>1, <1>2, <1>3, <1>4, OthersCalm
<1>6. HomeOK'
  BY <1>1, <1>2, HomeAgain DEF StayInv
<1> QED BY <1>1, <1>5, <1>6 DEF StayInv

LEMMA WriteStay ==
    ASSUME StayInv, NEW r \in Req, Write(r)
    PROVE  StayInv'
<1>1. /\ OwnInv /\ OwnInv' /\ TypeOK /\ Grows /\ UNCHANGED home
      /\ req[r].pc \in SignPc /\ req[r].actor \in Person
  <2>1. OwnInv /\ OwnInv' /\ TypeOK /\ Grows
    BY WriteOwn DEF StayInv, OwnInv
  <2>2. UNCHANGED home
    BY DEF Write, Sync, LinkMail, LinkHistory, InsertHistory, Create, history
  <2>3. req[r].pc \in SignPc
    BY DEF Write, Sync, LinkMail, LinkHistory, InsertHistory, Create, At, SignPc
  <2>4. req[r].actor \in Person
    BY <2>1, <2>3 DEF TypeOK, RequestOK
  <2> QED BY <2>1, <2>2, <2>3, <2>4
<1>2. \A p \in Person : p # req[r].actor => KeepsOff(p)
  BY <1>1, WriteOff
<1> DEFINE clear == ~ req[r].disturbed /\ req[r].actor \notin mixed
<1>3. clear /\ ~ Sync(r) => Linked(req[r].actor) = {}
  BY DEF StayInv, Calm, Write, LinkMail, LinkHistory, InsertHistory, Create, At, Searching
<1>4. PICK l, i :
        /\ l \in {"idle", "roster", "create"}
        /\ Goto(r, l, i)
        /\ clear /\ l = "roster" => account'[i].okta = req[r].actor
        /\ l = "create" => UNCHANGED account /\ ~ Sync(r)
  <2>1. CASE Sync(r)
    <3>1. /\ req[r].found \in Id /\ Exists(req[r].found) /\ Goto(r, "roster", req[r].found)
          /\ Alike(mixed, account[req[r].found].okta, req[r].actor) /\ mixed' = mixed
      BY <1>1, <2>1 DEF Sync, At, Go, TypeOK, RequestOK, OwnInv, SignOK, history
    <3>2. clear => account[req[r].found].okta = req[r].actor
      BY <3>1 DEF Alike
    <3> QED BY <1>1, <3>1, <3>2 DEF Grows, Alike
  <2>2. CASE LinkMail(r)
    <3>1. req[r].found \in Id /\ account[req[r].found] \in Account
      BY <1>1, <2>2 DEF LinkMail, At, TypeOK, RequestOK, Exists
    <3>2. CASE Refused(req[r].found, req[r].actor)
      BY <2>2, <3>2 DEF LinkMail, Go
    <3>3. CASE ~ Refused(req[r].found, req[r].actor)
      <4> DEFINE a == [account[req[r].found] EXCEPT !.okta = req[r].actor]
      <4>1. /\ Goto(r, "roster", req[r].found)
            /\ account' = [account EXCEPT ![req[r].found] = a]
        BY <2>2, <3>3 DEF LinkMail, Go
      <4>2. a.okta = req[r].actor
        BY <3>1 DEF Account
      <4> HIDE DEF a
      <4>3. account'[req[r].found].okta = req[r].actor
        BY <1>1, <3>1, <4>1, <4>2 DEF TypeOK
      <4> QED BY <4>1, <4>3
    <3> QED BY <3>2, <3>3
  <2> DEFINE b == [okta |-> req[r].actor, mail |-> req[r].email]
  <2>3. b.okta = req[r].actor
    OBVIOUS
  <2>4. CASE LinkHistory(r)
    <3>1. req[r].found \in Id /\ ~ Sync(r) /\ Goto(r, "roster", req[r].found)
      BY <1>1, <2>4 DEF LinkHistory, Sync, At, Go, TypeOK, RequestOK
    <3>2. clear => ~ Refused(req[r].found, req[r].actor)
      BY <1>3, <3>1 DEF Refused
    <3>3. clear => account' = [account EXCEPT ![req[r].found] = b]
      BY <2>4, <3>2 DEF LinkHistory
    <3>4. clear => account'[req[r].found].okta = req[r].actor
      BY <1>1, <2>3, <3>1, <3>3 DEF TypeOK
    <3> QED BY <3>1, <3>4
  <2>5. ASSUME NEW i \in Id, Insert(r, i)
        PROVE  Goto(r, "roster", i) /\ account'[i].okta = req[r].actor
    BY <1>1, <2>3, <2>5 DEF Insert, TypeOK
  <2>6. CASE InsertHistory(r)
    <3>1. req[r].found \in Id /\ ~ Sync(r)
      BY <1>1, <2>6 DEF InsertHistory, Sync, At, TypeOK, RequestOK
    <3>2. CASE Insert(r, req[r].found)
      BY <2>5, <3>1, <3>2
    <3>3. CASE ~ Insert(r, req[r].found)
      BY <2>6, <3>1, <3>3 DEF InsertHistory
    <3> QED BY <3>2, <3>3
  <2>7. CASE Create(r)
    <3>1. CASE Linked(req[r].actor) # {}
      BY <2>7, <3>1 DEF Create, Go
    <3>2. CASE Linked(req[r].actor) = {}
      <4>1. PICK i \in Id : Insert(r, i)
        BY <2>7, <3>2 DEF Create, Free
      <4> QED BY <2>5, <4>1
    <3> QED BY <3>1, <3>2
  <2> QED BY <2>1, <2>2, <2>4, <2>6, <2>7 DEF Write
<1>5. Calm(r)'
  <2>1. CASE l = "idle"
    <3>1. req'[r].pc = "idle"
      BY <1>1, <1>4, <2>1, GotoFields DEF Idle
    <3> QED BY <3>1 DEF Calm, Searching
  <2>2. CASE l # "idle"
    <3>1. /\ req'[r].pc = l /\ req'[r].found = i /\ req'[r].actor = req[r].actor
          /\ req'[r].disturbed = req[r].disturbed
      BY <1>1, <1>4, <2>2, GotoFields
    <3>2. mixed \subseteq mixed'
      BY <1>1 DEF Grows
    <3> QED BY <1>3, <1>4, <2>2, <3>1, <3>2 DEF Calm, Linked, Exists, Searching
  <2> QED BY <2>1, <2>2
<1>6. (\A q \in Req : Calm(q)') /\ \A p, q \in Req : Apart(p, q)'
  BY <1>1, <1>2, <1>4, <1>5, OthersCalm
<1>7. HomeOK'
  BY <1>1, HomeAgain DEF StayInv
<1> QED BY <1>1, <1>6, <1>7 DEF StayInv

LEMMA OpenStay ==
    ASSUME StayInv, NEW r \in Req, Open(r)
    PROVE  StayInv'
<1>1. /\ OwnInv /\ OwnInv' /\ TypeOK /\ UNCHANGED <<account, mixed>>
      /\ req[r].pc \in {"roster", "session"} /\ req[r].pc \in SignPc
      /\ req[r].found \in Id /\ req[r].actor \in Person /\ Exists(req[r].found)
  BY QuietOwn
     DEF StayInv, OwnInv, TypeOK, RequestOK, Open, GrantRoster, Session, At, SignPc, tables,
         history
<1>2. Grows /\ \A p : KeepsOff(p)
  BY <1>1, Quiet, SameOff DEF OwnInv
<1>3. PICK l \in {"session", "idle"} : Goto(r, l, req[r].found)
  BY DEF Open, GrantRoster, Session, Go
<1>4. Calm(r)'
  <2>1. CASE l = "idle"
    <3>1. req'[r].pc = "idle"
      BY <1>1, <1>3, <2>1, GotoFields DEF Idle
    <3> QED BY <3>1 DEF Calm, Searching
  <2>2. CASE l = "session"
    <3>1. /\ req'[r].pc = l /\ req'[r].found = req[r].found /\ req'[r].actor = req[r].actor
          /\ req'[r].disturbed = req[r].disturbed
      BY <1>1, <1>3, <2>2, GotoFields
    <3> QED BY <1>1, <2>2, <3>1 DEF Calm, Searching, StayInv
  <2> QED BY <2>1, <2>2
<1>5. (\A q \in Req : Calm(q)') /\ \A p, q \in Req : Apart(p, q)'
  BY <1>1, <1>2, <1>3, <1>4, OthersCalm
<1>6. HomeOK'
  <2>1. CASE UNCHANGED home
    BY <1>1, <1>2, <2>1, HomeAgain DEF StayInv
  <2>2. CASE ~ req[r].disturbed /\ home' = [home EXCEPT ![req[r].actor] = req[r].found]
    <3>1. req[r].actor \notin mixed => account[req[r].found].okta = req[r].actor
      BY <1>1, <2>2 DEF StayInv, Calm
    <3> QED BY <1>1, <2>2, <3>1 DEF HomeOK, StayInv, TypeOK, Exists
  <2> QED BY <2>1, <2>2 DEF Open, GrantRoster, Session, history
<1> QED BY <1>1, <1>5, <1>6 DEF StayInv

LEMMA RoleStay ==
    ASSUME StayInv, NEW r \in Req, RoleStep(r)
    PROVE  StayInv'
<1>1. /\ OwnInv /\ OwnInv' /\ TypeOK /\ UNCHANGED <<account, home, mixed>>
  BY QuietOwn
     DEF StayInv, OwnInv, RoleStep, MayGrant, Look, Renew, Grant, MayRemove, Count, Remove,
         tables, history
<1>2. Grows /\ \A p : KeepsOff(p)
  BY <1>1, Quiet, SameOff DEF OwnInv
<1>3. PICK l, i : /\ l \in {"idle", "look", "grant", "renew", "count", "remove"}
                   /\ Goto(r, l, i)
  BY DEF RoleStep, MayGrant, Look, Renew, Grant, MayRemove, Count, Remove, Go
<1>4. /\ \A q \in Req \ {r} : req'[q] = req[q]
      /\ req'[r].pc \notin SignPc
  BY <1>1, <1>3, GotoFields DEF Idle, SignPc
<1>5. Calm(r)'
  BY <1>4 DEF Calm, Searching, SignPc
<1>6. \A q \in Req \ {r} : Calm(q)'
  BY <1>1, <1>2, <1>4, CalmAgain DEF StayInv
<1>7. \A p, q \in Req : Apart(p, q)'
  BY <1>1, <1>4, ApartAgain DEF StayInv
<1>8. HomeOK'
  BY <1>1, <1>2, HomeAgain DEF StayInv
<1> QED BY <1>1, <1>5, <1>6, <1>7, <1>8 DEF StayInv

LEMMA BeginStay ==
    ASSUME StayInv, NEW r \in Req,
           (\E p \in Person : SignIn(r, p)) \/ Request(r) \/ Fault(r)
    PROVE  StayInv'
<1>1. /\ OwnInv /\ OwnInv' /\ TypeOK /\ UNCHANGED <<account, home, mixed>>
  BY BeginOwn, SignInType, RequestType, FaultType
     DEF StayInv, OwnInv, tables, SignIn, Request, Ask, Fault, history
<1>2. Grows /\ \A p : KeepsOff(p)
  BY <1>1, Quiet, SameOff DEF OwnInv
<1>3. HomeOK'
  BY <1>1, <1>2, HomeAgain DEF StayInv
<1>4. CASE Request(r) \/ Fault(r)
  <2>1. /\ \A q \in Req \ {r} : req'[q] = req[q]
        /\ \/ req'[r].pc \notin SignPc
           \/ req[r].pc \in SignPc /\ req'[r].disturbed /\ req'[r].actor = req[r].actor
    BY <1>1, <1>4, RequestFields, FaultFields DEF SignPc
  <2>2. Calm(r)'
    BY <2>1 DEF Calm, Searching, SignPc
  <2>3. \A q \in Req \ {r} : Calm(q)'
    BY <1>1, <1>2, <2>1, CalmAgain DEF StayInv
  <2>4. \A p, q \in Req : Apart(p, q)'
    BY <1>1, <2>1, ApartAgain DEF StayInv
  <2> QED BY <1>1, <1>3, <2>2, <2>3, <2>4 DEF StayInv
<1>5. ASSUME NEW p \in Person, SignIn(r, p) PROVE StayInv'
  <2>1. /\ req'[r].pc = "byOkta" /\ req'[r].actor = p
        /\ ~ req'[r].disturbed => \A q \in Req \ {r} : req[q].actor # p
        /\ \A q \in Req \ {r} :
              /\ req'[q].pc = req[q].pc /\ req'[q].actor = req[q].actor
              /\ req'[q].found = req[q].found
              /\ req'[q].disturbed = (req[q].disturbed \/ req[q].actor = p)
    BY <1>1, <1>5, SignInFields
  <2>2. Calm(r)'
    BY <2>1 DEF Calm, Searching
  <2>3. \A q \in Req \ {r} : Calm(q)'
    BY <1>1, <1>2, <2>1, CalmAgain DEF StayInv
  <2>4. \A q \in Req \ {r} : Apart(q, r)' /\ Apart(r, q)'
    BY <2>1 DEF Apart
  <2>5. \A q, t \in Req \ {r} : Apart(q, t)'
    <3> TAKE q, t \in Req \ {r}
    <3>1. Apart(q, t)
      BY DEF StayInv
    <3> QED BY <2>1, <3>1 DEF Apart
  <2>6. Apart(r, r)'
    BY DEF Apart
  <2> QED BY <1>1, <1>3, <2>2, <2>3, <2>4, <2>5, <2>6 DEF StayInv
<1> QED BY <1>4, <1>5
LEMMA BetweenStay ==
    ASSUME StayInv, Between
    PROVE  StayInv'
<1>1. /\ OwnInv /\ OwnInv' /\ TypeOK /\ Grows /\ UNCHANGED <<req, home>>
  BY BetweenOwn
     DEF StayInv, OwnInv, Between, CreateAccount, EditAccount, ChangeAddress, Edit, history
<1>2. \A p \in Person : KeepsOff(p)
  <2>1. CASE \E m \in Mail : CreateAccount(m)
    <3>1. PICK m \in Mail, i \in Id :
             account' = [account EXCEPT ![i] = [okta |-> NoOne, mail |-> m]]
      BY <2>1 DEF CreateAccount, Free
    <3> DEFINE a == [okta |-> NoOne, mail |-> m]
    <3>3. a.okta \notin Person
      BY AccessAssumption
    <3> HIDE DEF a
    <3> QED BY <1>1, <3>1, <3>3, ExceptOff DEF a
  <2>2. CASE \E m \in Mail, i \in Id : EditAccount(i, m)
    <3>1. PICK m \in Mail, i \in Id : EditAccount(i, m)
      BY <2>2
    <3>2. /\ Exists(i) /\ account[i] \in Account
          /\ account' = [account EXCEPT ![i] = [account[i] EXCEPT !.mail = m]]
      BY <1>1, <3>1 DEF EditAccount, Edited, Exists, TypeOK
    <3> DEFINE a == [account[i] EXCEPT !.mail = m]
    <3>3. a.okta = account[i].okta
      BY <3>2 DEF Account
    <3>4. \A p : a.okta = p => i \in Linked(p)
      BY <3>2, <3>3 DEF Linked
    <3> HIDE DEF a
    <3>5. account' = [account EXCEPT ![i] = a]
      BY <3>2 DEF a
    <3> QED BY <1>1, <3>4, <3>5, ExceptOff
  <2>3. CASE \E m \in Mail, p \in Person : ChangeAddress(p, m)
    BY <2>3, SameOff DEF ChangeAddress
  <2> QED BY <2>1, <2>2, <2>3 DEF Between
<1>3. \A q \in Req : Calm(q)'
  <2> TAKE q \in Req
  <2>1. Calm(q) /\ (req[q].pc \in SignPc => req[q].actor \in Person)
    BY <1>1 DEF StayInv, TypeOK, RequestOK
  <2> QED BY <1>1, <1>2, <2>1, CalmAgain
<1>4. \A p, q \in Req : Apart(p, q)'
  BY <1>1 DEF StayInv, Apart
<1>5. HomeOK'
  BY <1>1, HomeAgain DEF StayInv
<1> QED BY <1>1, <1>3, <1>4, <1>5 DEF StayInv

LEMMA NextStay == StayInv /\ [Next]_vars => StayInv'
<1> SUFFICES ASSUME StayInv, [Next]_vars PROVE StayInv'
  OBVIOUS
<1>1. CASE Next
  BY <1>1, Steps, LookUpStay, WriteStay, OpenStay, RoleStay, BeginStay, BetweenStay
<1>2. CASE UNCHANGED vars
  <2>1. OwnInv'
    BY NextOwn DEF StayInv
  <2>2. UNCHANGED <<account, req, home, mixed>>
    BY <1>2 DEF vars, tables, history
  <2>3. HomeOK' /\ (\A q \in Req : Calm(q)') /\ \A p, q \in Req : Apart(p, q)'
    BY <2>2 DEF StayInv, HomeOK, Calm, Apart, Linked, Exists
  <2> QED BY <2>1, <2>3 DEF StayInv
<1> QED BY <1>1, <1>2

LEMMA AtHome ==
    ASSUME StayInv, NEW r \in Req, At(r, "session"), ~ req[r].disturbed,
           req[r].actor \notin mixed
    PROVE  /\ account[req[r].found].okta = req[r].actor
           /\ home[req[r].actor] \in {0, req[r].found}
<1>1. /\ req[r].actor \in Person /\ req[r].found \in Id /\ Exists(req[r].found)
  BY DEF StayInv, OwnInv, TypeOK, RequestOK, At, SignPc
<1>2. account[req[r].found].okta = req[r].actor
  BY DEF StayInv, Calm, At
<1>3. ASSUME home[req[r].actor] # 0 PROVE home[req[r].actor] = req[r].found
  <2>1. /\ home[req[r].actor] \in Id /\ Exists(home[req[r].actor])
        /\ account[home[req[r].actor]].okta = req[r].actor
    BY <1>1, <1>3 DEF StayInv, HomeOK, OwnInv, TypeOK
  <2> QED BY <1>1, <1>2, <2>1 DEF StayInv, OwnInv, AccountsOK
<1> QED BY <1>2, <1>3

(* A sign-in that nothing disturbed, of a person who is not mixed up with  *)
(* another, ends on the account that is linked to her, the one all of them *)
(* ended on before (auth/okta/callback.ts:242-372).                        *)
THEOREM StaysOnOne == Spec => StaysOnAccount
<1> DEFINE Stays == \A r \in Req :
           (At(r, "session") /\ ~ req[r].disturbed /\ req'[r] # req[r]
                /\ req'[r].pc = "idle" /\ req[r].actor \notin mixed)
               => /\ account[req[r].found].okta = req[r].actor
                  /\ home[req[r].actor] \in {0, req[r].found}
<1>1. StayInv /\ [Next]_vars => [Stays]_vars
  BY AtHome
<1> HIDE DEF Stays
<1>2. Spec => [][Stays]_vars
  BY <1>1, InitStay, NextStay, PTL DEF Spec
<1> QED BY <1>2 DEF StaysOnAccount, Stays

-----------------------------------------------------------------------------
(* The last super admin.                                                   *)

Removing(r) == At(r, "remove") /\ req[r].about = SuperAdmin

(* While somebody is about to be removed from the super admins, there are  *)
(* two of them, unless another one was being removed at the same time.     *)
SuperInv ==
    /\ TypeOK
    /\ raced \/ /\ Holders(SuperAdmin) # {}
                /\ \A r \in Req : Removing(r) =>
                      \E i, j \in Holders(SuperAdmin) : i # j

LEMMA InitSuper == Init => SuperInv
<1> SUFFICES ASSUME Init PROVE SuperInv
  OBVIOUS
<1>1. TypeOK
  BY InitTypeOK
<1>2. PICK i \in Id : <<i, SuperAdmin>> \in FirstRole
  BY TablesAssumption
<1>3. i \in Holders(SuperAdmin)
  BY <1>2, AccessAssumption DEF Init, Holders
<1>4. \A r \in Req : ~ Removing(r)
  BY DEF Init, Idle, Removing, At
<1> QED BY <1>1, <1>3, <1>4 DEF SuperInv

(* Nobody ceases to hold the role, and nobody new is about to be removed.  *)
LEMMA SuperAgain ==
    ASSUME SuperInv, TypeOK', UNCHANGED raced,
           Holders(SuperAdmin) \subseteq Holders(SuperAdmin)',
           \A r \in Req : Removing(r)' =>
               Removing(r) \/ \E i, j \in Holders(SuperAdmin) : i # j
    PROVE  SuperInv'
BY DEF SuperInv

LEMMA GotoRemoving ==
    ASSUME TypeOK, NEW r \in Req, NEW l, NEW i, Goto(r, l, i), l # "remove"
    PROVE  \A q \in Req : Removing(q)' => Removing(q) /\ q # r
BY GotoFields DEF Removing, At, Idle
(* The requests about to remove one are none but those that were.          *)
LEMMA QuietSuper ==
    ASSUME SuperInv, UNCHANGED <<role, raced>>, TypeOK',
           \A q \in Req : Removing(q)' => Removing(q)
    PROVE  SuperInv'
BY SuperAgain DEF Holders

LEMMA SignInSuper ==
    ASSUME SuperInv, NEW r \in Req, LookUp(r) \/ Write(r) \/ Session(r)
    PROVE  SuperInv'
<1>1. TypeOK /\ TypeOK'
  BY LookUpType, WriteType, OpenType DEF SuperInv, Open
<1>2. UNCHANGED <<role, raced>>
  BY DEF LookUp, ByOkta, ByMail, LookInHistory, LookForCanonical, Write, Sync, LinkMail,
         LinkHistory, InsertHistory, Create, Session, tables, history
<1>3. PICK l, i : Goto(r, l, i) /\ l # "remove"
  BY DEF LookUp, ByOkta, ByMail, LookInHistory, LookForCanonical, Write, Sync, LinkMail,
         LinkHistory, InsertHistory, Create, Insert, Session, Go
<1> QED BY <1>1, <1>2, <1>3, GotoRemoving, QuietSuper

LEMMA GiveSuper ==
    ASSUME SuperInv, NEW r \in Req, GrantRoster(r) \/ Renew(r) \/ Grant(r)
    PROVE  SuperInv'
<1>1. TypeOK /\ TypeOK' /\ UNCHANGED raced
  BY OpenType, RoleStepType
     DEF SuperInv, Open, RoleStep, GrantRoster, Renew, Grant, history
<1>2. PICK l, i : Goto(r, l, i) /\ l # "remove"
  BY DEF GrantRoster, Renew, Grant, Go
<1>3. SuperAdmin \in Role
  BY AccessAssumption
<1>4. ASSUME NEW k \in Id, role[k][SuperAdmin] = "held"
      PROVE  role'[k][SuperAdmin] = "held"
  <2>1. CASE GrantRoster(r)
    BY <1>1, <1>3, <1>4, <2>1 DEF GrantRoster, SuperInv, TypeOK
  <2>2. CASE role' = role
    BY <1>4, <2>2
  <2>3. CASE Give(r)
    BY <1>3, <1>4, <2>3 DEF Give, SuperInv, TypeOK
  <2> QED BY <2>1, <2>2, <2>3 DEF Renew, Grant
<1>5. Holders(SuperAdmin) \subseteq Holders(SuperAdmin)'
  BY <1>4 DEF Holders
<1> QED BY <1>1, <1>2, <1>5, GotoRemoving, SuperAgain

LEMMA AskSuper ==
    ASSUME SuperInv, NEW r \in Req,
           MayGrant(r) \/ Look(r) \/ MayRemove(r) \/ Count(r)
    PROVE  SuperInv'
<1>1. TypeOK /\ TypeOK' /\ UNCHANGED <<role, raced>>
  BY RoleStepType
     DEF SuperInv, RoleStep, MayGrant, Look, MayRemove, Count, tables, history
<1>2. CASE ~ Count(r)
  <2>1. PICK l, i : /\ Goto(r, l, i)
                    /\ l = "remove" => req[r].about # SuperAdmin
    BY <1>2 DEF MayGrant, Look, MayRemove, Go
  <2>2. \A q \in Req : Removing(q)' => Removing(q)
    <3>1. CASE l = "remove"
      BY <1>1, <2>1, <3>1, GotoFields DEF Removing, At
    <3>2. CASE l # "remove"
      BY <1>1, <2>1, <3>2, GotoRemoving
    <3> QED BY <3>1, <3>2
  <2> QED BY <1>1, <2>2, QuietSuper
<1>3. CASE Count(r)
  <2>1. CASE Cardinality(Holders(SuperAdmin)) <= 1
    <3>1. Goto(r, "idle", req[r].found)
      BY <1>3, <2>1 DEF Count, Go
    <3> QED BY <1>1, <3>1, GotoRemoving, QuietSuper
  <2>2. CASE ~ Cardinality(Holders(SuperAdmin)) <= 1
    <3>1. \E i, j \in Holders(SuperAdmin) : i # j
      BY <2>2, AtMostOne
    <3>2. Holders(SuperAdmin) \subseteq Holders(SuperAdmin)'
      BY <1>1 DEF Holders
    <3> QED BY <1>1, <3>1, <3>2, SuperAgain
  <2> QED BY <2>1, <2>2
<1> QED BY <1>2, <1>3

LEMMA RemoveSuper ==
    ASSUME SuperInv, NEW r \in Req, Remove(r)
    PROVE  SuperInv'
<1>1. TypeOK /\ TypeOK' /\ Goto(r, "idle", req[r].found) /\ At(r, "remove")
  BY RoleStepType DEF SuperInv, RoleStep, Remove, Go
<1>2. SUFFICES ASSUME ~ raced'
               PROVE  /\ Holders(SuperAdmin)' # {}
                      /\ \A q \in Req : Removing(q)' =>
                            \E i, j \in Holders(SuperAdmin)' : i # j
  BY <1>1 DEF SuperInv
<1>3. ~ raced
  BY <1>2 DEF Remove
<1>4. \A q \in Req : Removing(q)' => Removing(q) /\ q # r
  BY <1>1, GotoRemoving
<1>5. CASE req[r].about # SuperAdmin
  <2>1. ASSUME NEW i \in Id, role[i][SuperAdmin] = "held"
        PROVE  role'[i][SuperAdmin] = "held"
    BY <1>1, <1>5, <2>1, AccessAssumption DEF Remove, TypeOK
  <2>2. Holders(SuperAdmin) \subseteq Holders(SuperAdmin)'
    BY <2>1 DEF Holders
  <2> QED BY <1>3, <1>4, <2>2 DEF SuperInv
<1>6. CASE req[r].about = SuperAdmin
  <2>1. PICK i, j \in Holders(SuperAdmin) : i # j
    BY <1>1, <1>3, <1>6 DEF SuperInv, Removing
  <2>2. ASSUME NEW k \in Id, k # req[r].found, role[k][SuperAdmin] = "held"
        PROVE  role'[k][SuperAdmin] = "held"
    BY <1>1, <2>2, AccessAssumption DEF Remove, TypeOK
  <2>3. Holders(SuperAdmin)' # {}
    <3>1. CASE i # req[r].found
      BY <2>1, <2>2, <3>1 DEF Holders
    <3>2. CASE j # req[r].found
      BY <2>1, <2>2, <3>2 DEF Holders
    <3> QED BY <2>1, <3>1, <3>2
  <2>4. \A q \in Req \ {r} : ~ Removing(q)
    BY <1>2, <1>6 DEF Remove, Removing
  <2> QED BY <1>4, <2>3, <2>4
<1> QED BY <1>5, <1>6

LEMMA BeginSuper ==
    ASSUME SuperInv, NEW r \in Req,
           (\E p \in Person : SignIn(r, p)) \/ Request(r) \/ Fault(r)
    PROVE  SuperInv'
<1>1. TypeOK /\ TypeOK'
  BY SignInType, RequestType, FaultType DEF SuperInv
<1>2. UNCHANGED <<role, raced>>
  BY DEF SignIn, Request, Ask, Fault, tables, history
<1>3. ASSUME NEW q \in Req PROVE Removing(q)' => Removing(q)
  <2>1. CASE \E p \in Person : SignIn(r, p)
    BY <1>1, <2>1, SignInFields DEF Removing, At
  <2>2. CASE Request(r)
    BY <1>1, <2>2, RequestFields DEF Removing, At
  <2>3. CASE Fault(r)
    BY <1>1, <2>3, FaultFields DEF Removing, At
  <2> QED BY <2>1, <2>2, <2>3
<1> QED BY <1>1, <1>2, <1>3, QuietSuper

LEMMA NextSuper == SuperInv /\ [Next]_vars => SuperInv'
<1> SUFFICES ASSUME SuperInv, [Next]_vars PROVE SuperInv'
  OBVIOUS
<1>1. TypeOK'
  BY NextTypeOK DEF SuperInv
<1>2. CASE Between \/ UNCHANGED vars
  <2>1. UNCHANGED <<role, raced, req>>
    BY <1>2
       DEF Between, CreateAccount, EditAccount, ChangeAddress, Edit, vars, tables, history
  <2>2. \A q \in Req : Removing(q)' => Removing(q)
    BY <2>1 DEF Removing, At
  <2> QED BY <1>1, <2>1, <2>2, QuietSuper
<1>3. CASE Next
  BY <1>2, <1>3, Steps, SignInSuper, GiveSuper, AskSuper, RemoveSuper, BeginSuper
     DEF Open, RoleStep
<1> QED BY <1>2, <1>3

(* A super admin remains, however requests to grant and remove roles and   *)
(* sign-ins overlap, unless two removals have both counted before either   *)
(* removed (roles/[roleId]/volunteers/index.ts:140-187).                   *)
THEOREM SuperAdminRemains == Spec => []LastSuperAdmin
<1>1. SuperInv => LastSuperAdmin
  BY DEF SuperInv, LastSuperAdmin
<1> QED BY <1>1, InitSuper, NextSuper, PTL DEF Spec
=============================================================================

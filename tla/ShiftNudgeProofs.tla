-------------------------- MODULE ShiftNudgeProofs --------------------------
(***************************************************************************)
(* Theorems about ShiftNudge, for any volunteers, shifts, rosters and      *)
(* number of overlapping runs, and any bounds.                             *)
(***************************************************************************)
EXTENDS ShiftNudge, WellFoundedInduction, TLAPS

-----------------------------------------------------------------------------
(* The parts of the inductive invariants.                                  *)

(* Of the shift, all that no outdated form wrote.                          *)
Settled(s) == \A v \in Volunteer :
    on[v][s] /\ <<v, s>> \notin outdated => att[v][s] \in {"here", "absent"}

(* A run has selected the shift, or some run once did.                     *)
Taken(s) == s \in marked \/ \E r \in Run : s \in Todo(r)

(* The shift has been finalized, and is marked or about to be.             *)
Finalized(s) == s \in marked \/ \E r \in Run : pc[r] = "mark" /\ s = Current(r)

(* The shifts the job works on were over when it selected them, and still  *)
(* are unless somebody moves them.                                         *)
TakenInv == TypeOK /\ \A s \in Shift \ moved : Taken(s) => Over(s)

SettledInv == TakenInv /\ \A s \in Shift \ moved : Finalized(s) => Settled(s)

Untold(s) == \A p \in Address : told[s][p] = 0

(* What a run that has the shift still to do has told about it.            *)
RunTold(r, s) ==
    /\ s \notin marked
    /\ (~ catchup[r] /\ (pc[r] = "mail" \/ s # Current(r)) => Untold(s))
    /\ (catchup[r] /\ pc[r] = "mail" => \A p \in left[r] : told[s][p] = 0)

OnceOK(s) ==
    /\ \A r, q \in Run : s \in Todo(r) /\ s \in Todo(q) => r = q
    /\ \A r \in Run : s \in Todo(r) => RunTold(r, s)
    /\ ~ Taken(s) => Untold(s)
    /\ \A p \in Address : told[s][p] =< 1

OnceInv == TypeOK /\ \A s \in Shift \ blurred : OnceOK(s)

-----------------------------------------------------------------------------
(* Helpers.                                                                *)

LEMMA CurrentIsTodo ==
    ASSUME TypeOK, NEW r \in Run, pc[r] # "idle"
    PROVE  Current(r) \in Todo(r) /\ Current(r) \in Shift
<1>1. Todo(r) \subseteq Nat /\ Todo(r) # {} /\ Todo(r) \subseteq Shift
  BY NudgeAssumption DEF TypeOK, RunsOK, Todo
<1>2. PICK x \in Todo(r) : \A y \in Todo(r) : ~ (<<y, x>> \in OpToRel(<, Nat))
  BY <1>1, NatLessThanWellFounded, WFMin
<1>3. \A y \in Todo(r) : x <= y
  <2>1. \A y \in Todo(r) : x \in Nat /\ y \in Nat
    BY <1>1
  <2>2. \A y \in Todo(r) : ~ (y < x)
    BY <1>2, <2>1, Zenon DEF OpToRel
  <2> QED BY <2>1, <2>2
<1>4. Current(r) = Min(Todo(r))
  BY DEF Current
<1>5. Current(r) \in Todo(r)
  BY <1>3, <1>4 DEF Min
<1> QED BY <1>1, <1>5

LEMMA RecipientsType ==
    ASSUME TypeOK, NEW s \in Shift
    PROVE  Recipients(s) \in SUBSET Address /\ Recipients(s) # {}
BY DEF Recipients, LeadsOn, Address

(* The shifts of a run after its step, given the steps of the run.         *)
LEMMA TodoOf ==
    ASSUME NEW r \in Run, NEW s
    PROVE  s \in Todo(r) <=> s \in Shift /\ to[r][s] # {}
BY DEF Todo

-----------------------------------------------------------------------------
(* Type correctness.                                                       *)

Clock(s) == TimePasses(s) \/ Reschedule(s) \/ Cancel(s)

JobStep(r) ==
    \/ Load(r, FALSE) \/ Load(r, TRUE) \/ LoadNothing(r) \/ Step(r)
    \/ MailFails(r) \/ Stop(r)

LEMMA InitTypeOK == Init => TypeOK
<1> SUFFICES ASSUME Init PROVE TypeOK
  OBVIOUS
<1>1. AttendanceOK /\ \A v \in Volunteer, s \in Shift : on[v][s] => att[v][s] # "none"
  <2>1. on \in [Volunteer -> [Shift -> BOOLEAN]]
    BY DEF Init
  <2>2. att \in [Volunteer -> [Shift -> Attendance]]
    BY DEF Init, Attendance
  <2>3. \A v \in Volunteer, s \in Shift : on[v][s] => att[v][s] # "none"
    BY DEF Init
  <2>4. /\ phase \in [Shift -> Phase] /\ canceled \in [Shift -> BOOLEAN]
        /\ rated \in [Volunteer -> [Shift -> BOOLEAN]]
        /\ gate \subseteq Volunteer \X Shift
    BY DEF Init, Phase
  <2> QED BY <2>1, <2>2, <2>3, <2>4 DEF AttendanceOK
<1>2. RunsOK
  BY DEF Init, RunsOK, RunPc, Todo
<1>3. told \in [Shift -> [Address -> 0 .. 2]]
  BY DEF Init
<1>4. marked \subseteq Shift /\ blurred \subseteq Shift /\ moved \subseteq Shift
      /\ outdated \subseteq Volunteer \X Shift
  BY DEF Init
<1>5. changes \in 0 .. MaxChanges /\ faults \in 0 .. MaxFaults
  BY NudgeAssumption DEF Init
<1> QED BY <1>1, <1>2, <1>3, <1>4, <1>5 DEF TypeOK

LEMMA ClockType ==
    ASSUME TypeOK, NEW s \in Shift, Clock(s)
    PROVE  TypeOK'
<1>1. UNCHANGED <<attendance, gate, job, told, marked, faults, blurred, outdated>>
  BY DEF Clock, TimePasses, Reschedule, Cancel
<1>2. RunsOK'
  BY <1>1 DEF job, TypeOK, RunsOK, Todo
<1>3. AttendanceOK' /\ changes' \in 0 .. MaxChanges /\ moved' \subseteq Shift
  <2>1. CASE TimePasses(s)
    <3>1. After[phase[s]] \in Phase
      BY <2>1 DEF TimePasses, After, Phase, TypeOK, AttendanceOK
    <3> QED BY <2>1, <3>1 DEF TimePasses, attendance, TypeOK, AttendanceOK
  <2>2. CASE Reschedule(s)
    BY <2>2, NudgeAssumption
    DEF Reschedule, Change, attendance, TypeOK, AttendanceOK
  <2>3. CASE Cancel(s)
    BY <2>3, NudgeAssumption DEF Cancel, Change, attendance, TypeOK, AttendanceOK
  <2> QED BY <2>1, <2>2, <2>3 DEF Clock
<1> QED BY <1>1, <1>2, <1>3 DEF TypeOK, attendance

LEMMA AttendType ==
    ASSUME TypeOK, NEW v \in Volunteer, NEW s \in Shift, Attend(v, s)
    PROVE  TypeOK'
<1>1. UNCHANGED <<phase, canceled, job, told, marked, faults, blurred, moved>>
  BY DEF Attend, SignUp, Remove, CheckIn, OpenGate, WalkUpCheckIn, Review
<1>2. RunsOK'
  BY <1>1 DEF job, TypeOK, RunsOK, Todo
<1>3. AttendanceOK' /\ changes' \in 0 .. MaxChanges
      /\ \A u \in Volunteer, t \in Shift : on'[u][t] => att'[u][t] # "none"
  <2>1. CASE SignUp(v, s)
    <3>1. /\ Change
          /\ on' = [on EXCEPT ![v][s] = TRUE]
          /\ \E x \in Shift : \E a \in FormValues(x) : att' = [att EXCEPT ![v][s] = a]
          /\ UNCHANGED <<phase, canceled, rated, gate>>
      BY <2>1 DEF SignUp
    <3>2. PICK a \in {"pending", "here"} : att' = [att EXCEPT ![v][s] = a]
      BY <3>1 DEF FormValues
    <3> QED BY <3>1, <3>2, NudgeAssumption
            DEF Change, Attendance, TypeOK, AttendanceOK
  <2>2. CASE Remove(v, s)
    BY <2>2, NudgeAssumption DEF Remove, Change, TypeOK, AttendanceOK
  <2>3. CASE CheckIn(v, s)
    BY <2>3, NudgeAssumption
    DEF CheckIn, SetCheckedIn, Change, Attendance, TypeOK, AttendanceOK
  <2>4. CASE OpenGate(v, s)
    BY <2>4, NudgeAssumption
    DEF OpenGate, attendance, Change, TypeOK, AttendanceOK
  <2>5. CASE WalkUpCheckIn(v, s)
    BY <2>5
    DEF WalkUpCheckIn, SetCheckedIn, Attendance, TypeOK, AttendanceOK
  <2>6. CASE Review(v, s)
    BY <2>6, NudgeAssumption DEF Review, Change, TypeOK, AttendanceOK
  <2> QED BY <2>1, <2>2, <2>3, <2>4, <2>5, <2>6 DEF Attend
<1>4. outdated' \subseteq Volunteer \X Shift
  <2>1. CASE SignUp(v, s)
    BY <2>1 DEF SignUp, TypeOK
  <2>2. CASE ~ SignUp(v, s)
    BY <2>2 DEF Attend, Remove, CheckIn, OpenGate, WalkUpCheckIn, Review, TypeOK
  <2> QED BY <2>1, <2>2
<1> QED BY <1>1, <1>2, <1>3, <1>4 DEF TypeOK

LEMMA EndRuns ==
    ASSUME TypeOK, NEW r \in Run, End(r)
    PROVE  RunsOK'
BY DEF End, Goto, TypeOK, RunsOK, RunPc, Todo

LEMMA JobRuns ==
    ASSUME TypeOK, NEW r \in Run, JobStep(r)
    PROVE  RunsOK'
<1>1. ASSUME NEW all \in BOOLEAN, Load(r, all) PROVE RunsOK'
  <2> DEFINE picked == {s \in Shift : Qualifies(s, all)}
  <2>1. /\ picked # {} /\ picked \subseteq Shift
        /\ to' = [to EXCEPT ![r] =
               [s \in Shift |-> IF s \in picked THEN Recipients(s) ELSE {}]]
        /\ left' = [left EXCEPT ![r] =
               IF all THEN UNION {Recipients(s) : s \in picked} ELSE {}]
        /\ catchup' = [catchup EXCEPT ![r] = all]
        /\ pc' = [pc EXCEPT ![r] = "mail"]
    BY <1>1 DEF Load, Goto
  <2>2. \A s \in Shift : Recipients(s) \in SUBSET Address /\ Recipients(s) # {}
    BY RecipientsType
  <2>3. UNION {Recipients(s) : s \in picked} \in SUBSET Address
    BY <2>1, <2>2
  <2>4. \E s \in Shift : to'[r][s] # {}
    BY <2>1, <2>2 DEF TypeOK, RunsOK
  <2> HIDE DEF picked
  <2>5. /\ pc' \in [Run -> RunPc] /\ catchup' \in [Run -> BOOLEAN]
        /\ left' \in [Run -> SUBSET Address]
        /\ to' \in [Run -> [Shift -> SUBSET Address]]
    BY <2>1, <2>2, <2>3 DEF TypeOK, RunsOK, RunPc
  <2>6. \A q \in Run : (pc'[q] = "idle") <=> (Todo(q)' = {})
    BY <2>1, <2>4 DEF TypeOK, RunsOK, Todo
  <2> QED BY <2>5, <2>6 DEF RunsOK
<1>2. CASE LoadNothing(r)
  BY <1>2 DEF LoadNothing, vars, job, TypeOK, RunsOK, Todo
<1>3. CASE MailLeads(r) \/ Finalize(r) \/ MailAddress(r) \/ MailFails(r)
  <2>1. UNCHANGED <<catchup, to>> /\ pc[r] # "idle"
    BY <1>3 DEF MailLeads, Finalize, MailAddress, MailFails
  <2>2. left' = left \/ \E p : left' = [left EXCEPT ![r] = @ \ {p}]
    BY <1>3 DEF MailLeads, Finalize, MailAddress, MailFails, NextAddress
  <2>3. pc' = pc \/ \E l \in {"finalize", "mark"} : pc' = [pc EXCEPT ![r] = l]
    BY <1>3 DEF MailLeads, Finalize, MailAddress, MailFails, NextAddress, Goto
  <2>4. left' \in [Run -> SUBSET Address]
    BY <2>2 DEF TypeOK, RunsOK
  <2>5. /\ pc' \in [Run -> RunPc]
        /\ \A q \in Run : (pc'[q] = "idle") <=> (pc[q] = "idle")
    BY <2>1, <2>3 DEF TypeOK, RunsOK, RunPc
  <2>6. \A q \in Run : Todo(q)' = Todo(q)
    BY <2>1 DEF Todo
  <2> QED BY <2>1, <2>4, <2>5, <2>6 DEF TypeOK, RunsOK
<1>5. CASE Mark(r)
  <2>1. CASE End(r)
    BY <2>1, EndRuns
  <2>2. CASE ~ End(r)
    <3>1. /\ Todo(r) # {Current(r)}
          /\ to' = [to EXCEPT ![r][Current(r)] = {}]
          /\ UNCHANGED <<catchup, left>>
          /\ pc' = [pc EXCEPT ![r] = IF catchup[r] THEN "finalize" ELSE "mail"]
          /\ pc[r] = "mark"
      BY <1>5, <2>2 DEF Mark, NextShift, Goto
    <3>2. PICK s \in Todo(r) : s # Current(r)
      BY <3>1, CurrentIsTodo
    <3>3. to'[r][s] # {} /\ s \in Shift
      BY <3>1, <3>2 DEF TypeOK, RunsOK, Todo
    <3>4. /\ pc' \in [Run -> RunPc] /\ catchup' \in [Run -> BOOLEAN]
          /\ left' \in [Run -> SUBSET Address]
          /\ to' \in [Run -> [Shift -> SUBSET Address]]
      BY <3>1 DEF TypeOK, RunsOK, RunPc
    <3>5. \A q \in Run : (pc'[q] = "idle") <=> (Todo(q)' = {})
      BY <3>1, <3>3 DEF TypeOK, RunsOK, Todo
    <3> QED BY <3>4, <3>5 DEF RunsOK
  <2> QED BY <2>1, <2>2
<1>6. CASE Stop(r)
  BY <1>6, EndRuns DEF Stop
<1> QED BY <1>1, <1>2, <1>3, <1>5, <1>6 DEF JobStep, Step

(* A step of one run leaves the others as they are.                        *)
LEMMA RunsApart ==
    ASSUME TypeOK, NEW r \in Run, JobStep(r)
    PROVE  \A q \in Run \ {r} : /\ pc'[q] = pc[q] /\ to'[q] = to[q]
                                /\ catchup'[q] = catchup[q] /\ left'[q] = left[q]
<1>1. CASE Load(r, FALSE) \/ Load(r, TRUE)
  BY <1>1 DEF Load, Goto, TypeOK, RunsOK
<1>2. CASE LoadNothing(r) \/ MailLeads(r) \/ Finalize(r)
  BY <1>2 DEF LoadNothing, vars, job, MailLeads, Finalize, Goto, TypeOK, RunsOK
<1>3. CASE MailAddress(r) \/ MailFails(r)
  BY <1>3 DEF MailAddress, MailFails, NextAddress, Goto, TypeOK, RunsOK
<1>4. CASE Mark(r) \/ Stop(r)
  BY <1>4 DEF Mark, Stop, NextShift, End, Goto, TypeOK, RunsOK
<1> QED BY <1>1, <1>2, <1>3, <1>4 DEF JobStep, Step

(* A step of the job keeps the types.                                      *)
LEMMA JobType ==
    ASSUME TypeOK, NEW r \in Run, JobStep(r)
    PROVE  TypeOK'
<1>1. RunsOK'
  BY JobRuns
<1>2. UNCHANGED <<phase, canceled, on, rated, gate, changes, moved, outdated>>
  BY DEF JobStep, Load, LoadNothing, vars, attendance, Step, MailLeads,
         MailAddress, Finalize, Mark, MailFails, Stop
<1>3. \/ UNCHANGED att
      \/ att' = [v \in Volunteer |-> [att[v] EXCEPT ![Current(r)] =
             IF on[v][Current(r)] /\ @ = "pending" THEN "absent" ELSE @]]
  BY DEF JobStep, Load, LoadNothing, vars, attendance, Step, MailLeads,
         MailAddress, Finalize, Mark, MailFails, Stop
<1>4. /\ AttendanceOK'
      /\ \A v \in Volunteer, s \in Shift : on'[v][s] => att'[v][s] # "none"
  <2>1. CASE UNCHANGED att
    BY <1>2, <2>1 DEF TypeOK, AttendanceOK
  <2>2. CASE ~ UNCHANGED att
    <3> DEFINE new(v, s) == IF s = Current(r) /\ on[v][s] /\ att[v][s] = "pending"
                            THEN "absent" ELSE att[v][s]
    <3>1. att' = [v \in Volunteer |-> [s \in Shift |-> new(v, s)]]
      BY <1>3, <2>2 DEF TypeOK, AttendanceOK
    <3>2. \A v \in Volunteer, s \in Shift :
              new(v, s) \in Attendance /\ (on[v][s] => new(v, s) # "none")
      BY DEF TypeOK, AttendanceOK, Attendance
    <3> HIDE DEF new
    <3> QED BY <1>2, <3>1, <3>2 DEF TypeOK, AttendanceOK
  <2> QED BY <2>1, <2>2
<1>5. marked' \subseteq Shift
  <2>1. CASE Mark(r)
    BY <2>1, CurrentIsTodo DEF Mark, TypeOK
  <2>2. CASE ~ Mark(r)
    BY <2>2
    DEF JobStep, Load, LoadNothing, vars, Step, MailLeads, MailAddress,
        Finalize, MailFails, Stop, TypeOK
  <2> QED BY <2>1, <2>2
<1>6. told' \in [Shift -> [Address -> 0 .. 2]]
  <2>1. CASE MailLeads(r)
    BY <2>1, CurrentIsTodo DEF MailLeads, Once, TypeOK
  <2>2. CASE MailAddress(r)
    BY <2>2 DEF MailAddress, Once, TypeOK, RunsOK
  <2>3. CASE ~ MailLeads(r) /\ ~ MailAddress(r)
    BY <2>3
    DEF JobStep, Load, LoadNothing, vars, Step, Finalize, Mark, MailFails, Stop,
        TypeOK
  <2> QED BY <2>1, <2>2, <2>3
<1>7. faults' \in 0 .. MaxFaults /\ blurred' \subseteq Shift
  <2>1. UNCHANGED faults \/ Fault
    BY DEF JobStep, Load, LoadNothing, vars, Step, MailLeads, MailAddress,
           Finalize, Mark, MailFails, Stop
  <2>2. UNCHANGED blurred \/ \E S \in SUBSET Shift : blurred' = blurred \cup S
    <3>1. CASE Load(r, FALSE) \/ Load(r, TRUE)
      BY <3>1 DEF Load
    <3>2. CASE Stop(r)
      BY <3>2 DEF Stop, Todo
    <3>3. CASE LoadNothing(r) \/ Step(r) \/ MailFails(r)
      BY <3>3 DEF LoadNothing, vars, Step, MailLeads, MailAddress, Finalize,
                  Mark, MailFails
    <3> QED BY <3>1, <3>2, <3>3 DEF JobStep
  <2>3. faults' \in 0 .. MaxFaults
    BY <2>1, NudgeAssumption DEF Fault, TypeOK
  <2>4. blurred' \subseteq Shift
    BY <2>2 DEF TypeOK
  <2> QED BY <2>3, <2>4
<1> QED BY <1>1, <1>2, <1>4, <1>5, <1>6, <1>7 DEF TypeOK

LEMMA TypeStep == TypeOK /\ [Next]_vars => TypeOK'
<1> SUFFICES ASSUME TypeOK, [Next]_vars PROVE TypeOK'
  OBVIOUS
<1>1. CASE UNCHANGED vars
  BY <1>1 DEF vars, attendance, job, TypeOK, AttendanceOK, RunsOK, Todo
<1>2. CASE \E s \in Shift : Clock(s)
  BY <1>2, ClockType
<1>3. CASE \E v \in Volunteer, s \in Shift : Attend(v, s)
  BY <1>3, AttendType
<1>4. CASE \E r \in Run : JobStep(r)
  BY <1>4, JobType
<1> QED BY <1>1, <1>2, <1>3, <1>4 DEF Next, Clock, JobStep

(* The types of the variables, whatever the constants.                     *)
THEOREM TypeCorrect == Spec => []TypeOK
BY InitTypeOK, TypeStep, PTL DEF Spec

-----------------------------------------------------------------------------
(* What the job works on is over, and what it has marked is settled.       *)

(* A shift that is over stays over unless it is moved.                     *)
LEMMA OverStays ==
    ASSUME TypeOK, [Next]_vars, NEW s \in Shift, s \notin moved', Over(s)
    PROVE  Over(s)' /\ s \notin moved
<1>1. CASE UNCHANGED <<phase, moved>>
  BY <1>1 DEF Over
<1>2. ASSUME NEW t \in Shift, TimePasses(t) PROVE Over(s)' /\ s \notin moved
  BY <1>2 DEF TimePasses, After, Over, TypeOK, AttendanceOK
<1>3. ASSUME NEW t \in Shift, Reschedule(t) PROVE Over(s)' /\ s \notin moved
  BY <1>3 DEF Reschedule, Over, TypeOK, AttendanceOK
<1>4. ASSUME NEW t \in Shift, Cancel(t) PROVE UNCHANGED <<phase, moved>>
  BY <1>4 DEF Cancel
<1>5. ASSUME NEW v \in Volunteer, NEW t \in Shift, Attend(v, t)
      PROVE  UNCHANGED <<phase, moved>>
  BY <1>5 DEF Attend, SignUp, Remove, CheckIn, OpenGate, WalkUpCheckIn, Review
<1>6. ASSUME NEW r \in Run, JobStep(r) PROVE UNCHANGED <<phase, moved>>
  BY <1>6 DEF JobStep, Load, LoadNothing, vars, Step, MailLeads, MailAddress,
              Finalize, Mark, MailFails, Stop
<1>7. CASE UNCHANGED vars
  BY <1>1, <1>7 DEF vars
<1> QED BY <1>1, <1>2, <1>3, <1>4, <1>5, <1>6, <1>7 DEF Next, JobStep

(* The runs and the marker under a step of the job: a shift is newly taken *)
(* only by a load, and newly marked only by the run that has it.           *)
LEMMA TodoStep ==
    ASSUME TypeOK, NEW r \in Run, JobStep(r), NEW s \in Shift
    PROVE  /\ \A q \in Run \ {r} : (s \in Todo(q)') <=> (s \in Todo(q))
           /\ s \in Todo(r)' =>
                 s \in Todo(r) \/ \E all \in BOOLEAN : Load(r, all) /\ Qualifies(s, all)
           /\ s \in marked' => s \in marked \/ (Mark(r) /\ s = Current(r))
<1>1. ASSUME NEW all \in BOOLEAN, Load(r, all)
      PROVE  /\ \A q \in Run \ {r} : (s \in Todo(q)') <=> (s \in Todo(q))
             /\ (s \in Todo(r)' => Qualifies(s, all))
             /\ UNCHANGED marked
  <2> DEFINE picked == {t \in Shift : Qualifies(t, all)}
  <2>1. to' = [to EXCEPT ![r] =
               [t \in Shift |-> IF t \in picked THEN Recipients(t) ELSE {}]]
    BY <1>1 DEF Load
  <2>2. s \in Todo(r)' => s \in picked
    <3> HIDE DEF picked
    <3> QED BY <2>1 DEF TypeOK, RunsOK, Todo
  <2>3. \A q \in Run \ {r} : to'[q] = to[q]
    BY <2>1 DEF TypeOK, RunsOK
  <2>4. UNCHANGED marked
    BY <1>1 DEF Load
  <2> QED BY <2>2, <2>3, <2>4 DEF Todo
<1>2. CASE LoadNothing(r) \/ MailLeads(r) \/ MailAddress(r) \/ Finalize(r) \/ MailFails(r)
  <2>1. UNCHANGED <<to, marked>>
    BY <1>2 DEF LoadNothing, vars, job, MailLeads, MailAddress, Finalize, MailFails
  <2> QED BY <2>1 DEF Todo
<1>3. CASE Mark(r) \/ Stop(r)
  <2>1. \/ to' = [to EXCEPT ![r] = [t \in Shift |-> {}]]
        \/ to' = [to EXCEPT ![r][Current(r)] = {}]
    BY <1>3 DEF Mark, NextShift, Stop, End
  <2>2. s \in Todo(r)' => s \in Todo(r)
    <3>1. to'[r][s] = to[r][s] \/ to'[r][s] = {}
      BY <2>1 DEF TypeOK, RunsOK
    <3> QED BY <3>1 DEF Todo
  <2>3. \A q \in Run \ {r} : to'[q] = to[q]
    BY <2>1 DEF TypeOK, RunsOK
  <2>4. s \in marked' => s \in marked \/ (Mark(r) /\ s = Current(r))
    BY <1>3 DEF Mark, Stop
  <2> QED BY <2>2, <2>3, <2>4 DEF Todo
<1> QED BY <1>1, <1>2, <1>3 DEF JobStep, Step

LEMMA PeopleLeaveJob ==
    ASSUME [Next]_vars, ~ \E r \in Run : JobStep(r)
    PROVE  UNCHANGED <<job, told, marked, blurred>>
<1>1. ASSUME NEW s \in Shift, Clock(s) PROVE UNCHANGED <<job, told, marked, blurred>>
  BY <1>1 DEF Clock, TimePasses, Reschedule, Cancel
<1>2. ASSUME NEW v \in Volunteer, NEW s \in Shift, Attend(v, s)
      PROVE  UNCHANGED <<job, told, marked, blurred>>
  BY <1>2 DEF Attend, SignUp, Remove, CheckIn, OpenGate, WalkUpCheckIn, Review
<1>3. CASE UNCHANGED vars
  BY <1>3 DEF vars
<1> QED BY <1>1, <1>2, <1>3 DEF Next, Clock, JobStep

LEMMA MovedGrows ==
    ASSUME [Next]_vars
    PROVE  moved \subseteq moved'
<1>1. ASSUME NEW s \in Shift, Clock(s) PROVE moved \subseteq moved'
  BY <1>1 DEF Clock, TimePasses, Reschedule, Cancel
<1>2. ASSUME NEW v \in Volunteer, NEW s \in Shift, Attend(v, s) PROVE UNCHANGED moved
  BY <1>2 DEF Attend, SignUp, Remove, CheckIn, OpenGate, WalkUpCheckIn, Review
<1>3. ASSUME NEW r \in Run, JobStep(r) PROVE UNCHANGED moved
  BY <1>3 DEF JobStep, Load, LoadNothing, vars, Step, MailLeads, MailAddress,
              Finalize, Mark, MailFails, Stop
<1>4. CASE UNCHANGED vars
  BY <1>4 DEF vars
<1> QED BY <1>1, <1>2, <1>3, <1>4 DEF Next, Clock, JobStep

LEMMA TakenStep == TakenInv /\ [Next]_vars => TakenInv'
<1> SUFFICES ASSUME TakenInv, [Next]_vars PROVE TakenInv'
  OBVIOUS
<1>1. TypeOK /\ TypeOK'
  BY TypeStep DEF TakenInv
<1>2. ASSUME NEW s \in Shift, s \notin moved', Taken(s)' PROVE Over(s)'
  <2>1. CASE Taken(s)
    <3>1. s \notin moved
      BY <1>2, MovedGrows
    <3> QED BY <1>1, <1>2, <2>1, <3>1, OverStays DEF TakenInv
  <2>2. CASE ~ Taken(s)
    <3>1. PICK r \in Run : JobStep(r)
      BY <1>2, <2>2, PeopleLeaveJob DEF job, Taken, Todo
    <3>2. \/ \E all \in BOOLEAN : Qualifies(s, all)
          \/ Mark(r) /\ s = Current(r)
      BY <1>1, <1>2, <2>2, <3>1, TodoStep DEF Taken
    <3>3. ~ (Mark(r) /\ s = Current(r))
      BY <1>1, <2>2, CurrentIsTodo DEF Mark, Taken
    <3>4. Over(s)
      BY <3>2, <3>3 DEF Qualifies, Candidate, Over
    <3> QED BY <1>1, <1>2, <3>4, OverStays
  <2> QED BY <2>1, <2>2
<1> QED BY <1>1, <1>2 DEF TakenInv

LEMMA InitTakenInv == Init => TakenInv
BY InitTypeOK DEF Init, TakenInv, Taken, Todo

(* What a step of the job does to the attendance.                          *)
LEMMA FinalizeOnly ==
    ASSUME TypeOK, NEW r \in Run, JobStep(r), NEW v \in Volunteer, NEW s \in Shift
    PROVE  /\ UNCHANGED on
           /\ att'[v][s] # att[v][s] =>
                  /\ Finalize(r) /\ s = Current(r)
                  /\ att[v][s] = "pending" /\ att'[v][s] = "absent" /\ on[v][s]
<1>1. CASE Finalize(r)
  BY <1>1 DEF Finalize, TypeOK, AttendanceOK
<1>2. CASE ~ Finalize(r)
  BY <1>2 DEF JobStep, Load, LoadNothing, vars, attendance, Step, MailLeads,
              MailAddress, Mark, MailFails, Stop
<1> QED BY <1>1, <1>2

(* The job makes a no-show only of somebody who is then on the shift and   *)
(* pending, when the shift is over, however old what it has read is.       *)
THEOREM OnlyPending == Spec => PendingOnly
<1>1. TakenInv /\ [Next]_vars =>
          [pc' # pc => \A v \in Volunteer, s \in Shift :
              att'[v][s] # att[v][s] =>
                  /\ att[v][s] = "pending" /\ att'[v][s] = "absent" /\ on[v][s]
                  /\ phase[s] \in {"due", "old"} \/ s \in moved]_vars
  <2> SUFFICES ASSUME TakenInv, [Next]_vars, pc' # pc,
                      NEW v \in Volunteer, NEW s \in Shift, att'[v][s] # att[v][s]
               PROVE  /\ att[v][s] = "pending" /\ att'[v][s] = "absent" /\ on[v][s]
                      /\ phase[s] \in {"due", "old"} \/ s \in moved
    OBVIOUS
  <2>1. PICK r \in Run : JobStep(r)
    BY PeopleLeaveJob DEF job
  <2>2. /\ Finalize(r) /\ s = Current(r)
        /\ att[v][s] = "pending" /\ att'[v][s] = "absent" /\ on[v][s]
    BY <2>1, FinalizeOnly DEF TakenInv
  <2>3. Taken(s)
    BY <2>2, CurrentIsTodo DEF TakenInv, Finalize, Taken
  <2> QED BY <2>2, <2>3 DEF TakenInv, Over
<1> QED BY <1>1, InitTakenInv, TakenStep, PTL DEF Spec, PendingOnly

(* A shift that is settled when it is over stays so: whoever signs up then *)
(* is here at once, or was signed up by an outdated form.                  *)
LEMMA SettledStays ==
    ASSUME TypeOK, [Next]_vars, NEW s \in Shift, Over(s), Settled(s)
    PROVE  Settled(s)'
<1>1. ASSUME NEW r \in Run, JobStep(r),
             NEW v \in Volunteer, on'[v][s], <<v, s>> \notin outdated'
      PROVE  att'[v][s] \in {"here", "absent"}
  <2>1. UNCHANGED outdated
    BY <1>1 DEF JobStep, Load, LoadNothing, vars, Step, MailLeads, MailAddress,
                Finalize, Mark, MailFails, Stop
  <2> QED BY <1>1, <2>1, FinalizeOnly DEF Settled
<1>2. ASSUME NEW u \in Volunteer, NEW t \in Shift, Attend(u, t),
             NEW v \in Volunteer, on'[v][s], <<v, s>> \notin outdated'
      PROVE  att'[v][s] \in {"here", "absent"}
  <2>1. CASE SignUp(u, t)
    <3>1. /\ on' = [on EXCEPT ![u][t] = TRUE]
          /\ \E x \in Shift : \E a \in FormValues(x) :
                /\ att' = [att EXCEPT ![u][t] = a]
                /\ outdated' = IF a = "pending" /\ Over(t)
                               THEN outdated \cup {<<u, t>>} ELSE outdated \ {<<u, t>>}
      BY <2>1 DEF SignUp
    <3>2. PICK a \in {"pending", "here"} :
                /\ att' = [att EXCEPT ![u][t] = a]
                /\ outdated' = IF a = "pending" /\ Over(t)
                               THEN outdated \cup {<<u, t>>} ELSE outdated \ {<<u, t>>}
      BY <3>1 DEF FormValues
    <3>3. CASE u = v /\ t = s
      BY <1>2, <3>1, <3>2, <3>3 DEF TypeOK, AttendanceOK
    <3>4. CASE ~ (u = v /\ t = s)
      <4>1. on'[v][s] = on[v][s] /\ att'[v][s] = att[v][s]
        BY <3>1, <3>2, <3>4 DEF TypeOK, AttendanceOK
      <4>2. <<v, s>> \notin outdated
        BY <1>2, <3>2, <3>4
      <4> QED BY <1>2, <4>1, <4>2 DEF Settled
    <3> QED BY <3>3, <3>4
  <2>2. CASE Remove(u, t)
    BY <1>2, <2>2 DEF Remove, Settled, TypeOK, AttendanceOK
  <2>3. CASE CheckIn(u, t) \/ WalkUpCheckIn(u, t)
    <3>1. UNCHANGED <<on, outdated>> /\ SetCheckedIn(u, t)
      BY <2>3 DEF CheckIn, WalkUpCheckIn
    <3>2. PICK a \in {"here", "absent"} : att' = [att EXCEPT ![u][t] = a]
      BY <3>1 DEF SetCheckedIn
    <3> QED BY <1>2, <3>1, <3>2 DEF Settled, TypeOK, AttendanceOK
  <2>4. CASE OpenGate(u, t) \/ Review(u, t)
    BY <1>2, <2>4 DEF OpenGate, Review, attendance, Settled
  <2> QED BY <1>2, <2>1, <2>2, <2>3, <2>4 DEF Attend
<1>3. ASSUME NEW t \in Shift, Clock(t) PROVE UNCHANGED <<attendance, outdated>>
  BY <1>3 DEF Clock, TimePasses, Reschedule, Cancel
<1>4. CASE UNCHANGED vars
  BY <1>4 DEF vars, attendance, Settled
<1> QED BY <1>1, <1>2, <1>3, <1>4 DEF Next, Clock, JobStep, Settled, attendance

LEMMA NewlyFinalized ==
    ASSUME TypeOK, NEW r \in Run, JobStep(r), NEW s \in Shift,
           Finalized(s)', ~ Finalized(s)
    PROVE  Finalize(r) /\ s = Current(r)
<1>1. CASE Finalize(r)
  <2>1. /\ UNCHANGED <<to, marked>>
        /\ pc' = [pc EXCEPT ![r] = "mark"]
    BY <1>1 DEF Finalize, Goto
  <2>2. \A q \in Run : Current(q)' = Current(q)
    BY <2>1 DEF Current, Todo
  <2>3. \A q \in Run \ {r} : pc'[q] = pc[q]
    BY <2>1 DEF TypeOK, RunsOK
  <2> QED BY <1>1, <2>1, <2>2, <2>3 DEF Finalized
<1>2. CASE ~ Finalize(r)
  <2>1. ~ (Mark(r) /\ s = Current(r))
    BY DEF Mark, Finalized
  <2>2. s \notin marked'
    BY <2>1, TodoStep DEF Finalized
  <2>3. \A q \in Run \ {r} : pc'[q] = pc[q] /\ to'[q] = to[q]
    BY RunsApart
  <2>4. pc'[r] = "mark" => UNCHANGED <<pc, to>>
    <3>1. CASE LoadNothing(r)
      BY <3>1 DEF LoadNothing, vars, job
    <3>2. CASE ~ LoadNothing(r)
      BY <1>2, <3>2
      DEF JobStep, Load, Step, MailLeads, MailAddress, Mark, MailFails, Stop, End,
          NextShift, NextAddress, Goto, TypeOK, RunsOK
    <3> QED BY <3>1, <3>2
  <2> QED BY <2>2, <2>3, <2>4 DEF Finalized, Current, Todo
<1> QED BY <1>1, <1>2

LEMMA SettledStep == SettledInv /\ [Next]_vars => SettledInv'
<1> SUFFICES ASSUME SettledInv, [Next]_vars PROVE SettledInv'
  OBVIOUS
<1>1. TypeOK /\ TypeOK' /\ TakenInv'
  BY TypeStep, TakenStep DEF SettledInv, TakenInv
<1>2. ASSUME NEW s \in Shift, s \notin moved', Finalized(s)' PROVE Settled(s)'
  <2>1. s \notin moved
    BY <1>2, MovedGrows
  <2>2. CASE Finalized(s)
    <3>1. Taken(s)
      BY <1>1, <2>2, CurrentIsTodo DEF Finalized, Taken
    <3> QED BY <1>1, <2>1, <2>2, <3>1, SettledStays DEF SettledInv, TakenInv
  <2>3. CASE ~ Finalized(s)
    <3>1. PICK r \in Run : JobStep(r)
      BY <1>2, <2>3, PeopleLeaveJob DEF job, Finalized, Current, Todo
    <3>2. Finalize(r) /\ s = Current(r)
      BY <1>1, <1>2, <2>3, <3>1, NewlyFinalized
    <3> QED BY <1>1, <3>2 DEF Finalize, Settled, TypeOK, AttendanceOK, Attendance
  <2> QED BY <2>2, <2>3
<1> QED BY <1>1, <1>2 DEF SettledInv

(* Nobody on a marked shift is pending, whoever signs up, leaves or is     *)
(* checked in before, while and after the job works on it, unless the      *)
(* shift's times are edited or an outdated form signed them up as pending  *)
(* when the shift was over.                                                *)
THEOREM MarkedIsSettled == Spec => []MarkedSettled
<1>1. Init => SettledInv
  BY InitTakenInv DEF Init, SettledInv, Finalized
<1>2. SettledInv /\ [Next]_vars => SettledInv'
  BY SettledStep
<1>3. SettledInv => MarkedSettled
  BY DEF SettledInv, TakenInv, TypeOK, Finalized, Settled, MarkedSettled
<1> QED BY <1>1, <1>2, <1>3, PTL DEF Spec

-----------------------------------------------------------------------------
(* Nobody is mailed twice about a shift that runs took one after another.  *)

LEMMA BlurredGrows ==
    ASSUME [Next]_vars
    PROVE  blurred \subseteq blurred'
<1>1. ASSUME NEW r \in Run, JobStep(r) PROVE blurred \subseteq blurred'
  BY <1>1 DEF JobStep, Load, LoadNothing, vars, Step, MailLeads, MailAddress,
              Finalize, Mark, MailFails, Stop
<1> QED BY <1>1, PeopleLeaveJob

(* What a step of the job changes about one shift.                         *)
LEMMA ToldStep ==
    ASSUME TypeOK, NEW r \in Run, JobStep(r), NEW s \in Shift, s \notin Todo(r)
    PROVE  \A p \in Address : told'[s][p] = told[s][p]
<1>1. CASE MailLeads(r)
  <2>1. s # Current(r)
    BY <1>1, CurrentIsTodo DEF MailLeads
  <2> QED BY <1>1, <2>1 DEF MailLeads, TypeOK
<1>2. CASE MailAddress(r)
  <2>1. to[r][s] = {}
    BY DEF Todo
  <2> QED BY <1>2, <2>1 DEF MailAddress, TypeOK
<1>3. CASE ~ MailLeads(r) /\ ~ MailAddress(r)
  BY <1>3 DEF JobStep, Load, LoadNothing, vars, Step, Finalize, Mark, MailFails, Stop
<1> QED BY <1>1, <1>2, <1>3

(* The shift in the hands of the run that has it.                          *)
LEMMA OnceRun ==
    ASSUME TypeOK, NEW r \in Run, JobStep(r), NEW s \in Shift, s \in Todo(r),
           s \notin blurred', OnceOK(s)
    PROVE  /\ s \in Todo(r)' => RunTold(r, s)'
           /\ ~ Taken(s)' => Untold(s)'
           /\ \A p \in Address : told'[s][p] =< 1
<1> USE DEF OnceOK
<1>1. pc[r] # "idle" /\ to[r][s] # {}
  BY DEF TypeOK, RunsOK, Todo
<1>2. RunTold(r, s)
  OBVIOUS
<1>3. CASE MailLeads(r)
  <2>1. /\ pc' = [pc EXCEPT ![r] = "finalize"] /\ ~ catchup[r]
        /\ UNCHANGED <<to, catchup, marked, left>>
        /\ Untold(s)
    BY <1>2, <1>3 DEF MailLeads, Goto, RunTold
  <2>2. s \in Todo(r)' /\ Current(r)' = Current(r)
    BY <2>1 DEF Todo, Current
  <2>3. \A p \in Address : told'[s][p] =< 1
    BY <1>3, <2>1, CurrentIsTodo DEF MailLeads, Once, Untold, TypeOK
  <2>4. s # Current(r) => \A p \in Address : told'[s][p] = told[s][p]
    BY <1>3, CurrentIsTodo DEF MailLeads, TypeOK
  <2>5. RunTold(r, s)'
    BY <1>2, <2>1, <2>2, <2>4 DEF RunTold, Untold, TypeOK, RunsOK
  <2> QED BY <2>2, <2>3, <2>5 DEF Taken
<1>4. CASE MailAddress(r)
  <2>1. PICK p \in left[r] :
            /\ told' = [t \in Shift |->
                  IF p \in to[r][t] THEN [told[t] EXCEPT ![p] = Once(@)] ELSE told[t]]
            /\ NextAddress(r, p)
    BY <1>4 DEF MailAddress
  <2>2. /\ pc[r] = "mail" /\ catchup[r] /\ UNCHANGED <<to, catchup, marked>>
        /\ left' = [left EXCEPT ![r] = @ \ {p}]
    BY <1>4, <2>1 DEF MailAddress, NextAddress
  <2>3. p \in Address /\ told[s][p] = 0 /\ left[r] \subseteq Address
    BY <1>2, <2>1, <2>2 DEF RunTold, TypeOK, RunsOK
  <2>4. \A q \in Address : q # p => told'[s][q] = told[s][q]
    BY <2>1 DEF TypeOK
  <2>5. \A q \in Address : told'[s][q] =< 1
    BY <2>1, <2>3, <2>4 DEF Once, TypeOK
  <2>6. s \in Todo(r)'
    BY <2>2 DEF Todo
  <2>7. left'[r] = left[r] \ {p}
    BY <2>2 DEF TypeOK, RunsOK
  <2>8. RunTold(r, s)'
    BY <1>2, <2>2, <2>3, <2>4, <2>7 DEF RunTold
  <2> QED BY <2>5, <2>6, <2>8 DEF Taken
<1>5. CASE Finalize(r) \/ MailFails(r)
  <2>1. /\ UNCHANGED <<to, catchup, marked, told>>
        /\ left'[r] \subseteq left[r]
        /\ pc'[r] = "mail" => pc[r] = "mail" /\ (catchup[r] \/ pc = pc')
    BY <1>5 DEF Finalize, MailFails, NextAddress, Goto, TypeOK, RunsOK
  <2>2. s \in Todo(r)' /\ Current(r)' = Current(r)
    BY <2>1 DEF Todo, Current
  <2>3. RunTold(r, s)'
    BY <1>2, <2>1, <2>2 DEF RunTold, Untold
  <2> QED BY <2>1, <2>2, <2>3 DEF Taken
<1>6. CASE Mark(r)
  <2>1. UNCHANGED told /\ marked' = marked \cup {Current(r)} /\ pc[r] = "mark"
    BY <1>6 DEF Mark
  <2>2. CASE s = Current(r)
    <3>1. s \notin Todo(r)'
      BY <1>6, <2>2 DEF Mark, NextShift, End, TypeOK, RunsOK, Todo
    <3> QED BY <2>1, <2>2, <3>1 DEF Taken
  <2>3. CASE s # Current(r)
    <3>1. /\ to' = [to EXCEPT ![r][Current(r)] = {}]
          /\ pc' = [pc EXCEPT ![r] = IF catchup[r] THEN "finalize" ELSE "mail"]
          /\ UNCHANGED catchup
      BY <1>6, <2>3 DEF Mark, NextShift, Goto
    <3>2. s \in Todo(r)'
      BY <1>1, <2>3, <3>1 DEF TypeOK, RunsOK, Todo
    <3>3. RunTold(r, s)'
      BY <1>2, <2>1, <2>3, <3>1 DEF RunTold, Untold, TypeOK, RunsOK
    <3> QED BY <2>1, <3>2, <3>3 DEF Taken
  <2> QED BY <2>2, <2>3
<1>7. CASE Stop(r)
  <2>1. s \notin Todo(r)' /\ UNCHANGED told
    BY <1>7 DEF Stop, End, TypeOK, RunsOK, Todo
  <2>2. \A p \in Address : ~ (told[s][p] > 0)
    BY <1>7 DEF Stop
  <2>3. Untold(s)
    BY <2>2 DEF Untold, TypeOK
  <2> QED BY <2>1, <2>3 DEF Untold
<1>8. CASE LoadNothing(r)
  BY <1>8, <1>1 DEF LoadNothing
<1> QED BY <1>1, <1>3, <1>4, <1>5, <1>6, <1>7, <1>8 DEF JobStep, Step, Load

LEMMA OnceJob ==
    ASSUME TypeOK, NEW r \in Run, JobStep(r), NEW s \in Shift,
           s \notin blurred', OnceOK(s)
    PROVE  OnceOK(s)'
<1>1. CASE s \in Todo(r)
  <2>1. \A q \in Run \ {r} : s \notin Todo(q) /\ s \notin Todo(q)'
    BY <1>1, TodoStep DEF OnceOK
  <2> QED BY <1>1, <2>1, OnceRun DEF OnceOK
<1>2. CASE s \notin Todo(r) /\ s \notin Todo(r)'
  <2>1. \A p \in Address : told'[s][p] = told[s][p]
    BY <1>2, ToldStep
  <2>2. \A q \in Run : (s \in Todo(q)') <=> (s \in Todo(q))
    BY <1>2, TodoStep
  <2>3. (s \in marked') <=> (s \in marked)
    <3>1. ~ (Mark(r) /\ s = Current(r))
      BY <1>2, CurrentIsTodo DEF Mark
    <3>2. marked \subseteq marked'
      BY DEF JobStep, Load, LoadNothing, vars, Step, MailLeads, MailAddress,
             Finalize, Mark, MailFails, Stop
    <3> QED BY <3>1, <3>2, TodoStep
  <2>4. ASSUME NEW q \in Run \ {r}, s \in Todo(q) PROVE RunTold(q, s)'
    <3>1. /\ pc'[q] = pc[q] /\ catchup'[q] = catchup[q] /\ left'[q] = left[q]
          /\ Current(q)' = Current(q)
      BY RunsApart DEF Current, Todo
    <3>2. left[q] \subseteq Address
      BY DEF TypeOK, RunsOK
    <3>3. RunTold(q, s)
      BY <2>4 DEF OnceOK
    <3> QED BY <2>1, <2>3, <3>1, <3>2, <3>3 DEF RunTold, Untold
  <2> QED BY <1>2, <2>1, <2>2, <2>3, <2>4 DEF OnceOK, Taken, Untold
<1>3. CASE s \notin Todo(r) /\ s \in Todo(r)'
  <2>1. PICK all \in BOOLEAN : Load(r, all) /\ Qualifies(s, all)
    BY <1>3, TodoStep
  <2>2. \A q \in Run : s \notin Todo(q)
    BY <2>1 DEF Load
  <2>3. s \notin marked /\ UNCHANGED <<marked, told>>
    BY <2>1 DEF Load, Qualifies, Candidate
  <2>4. Untold(s)
    BY <2>2, <2>3 DEF OnceOK, Taken
  <2>5. \A q \in Run \ {r} : s \notin Todo(q)'
    BY <2>2, TodoStep
  <2>6. left'[r] \subseteq Address
    BY JobRuns DEF RunsOK
  <2>7. RunTold(r, s)'
    BY <2>3, <2>4, <2>6 DEF RunTold, Untold
  <2> QED BY <1>3, <2>3, <2>4, <2>5, <2>7 DEF OnceOK, Taken, Untold
<1> QED BY <1>1, <1>2, <1>3

(* Nobody is mailed twice about a shift, by whatever runs, regular or      *)
(* catch-up, as long as no two have it in hand together and none fails     *)
(* between its mail and its marker.                                        *)
THEOREM NudgedAtMostOnce == Spec => []NudgedOnce
<1>1. Init => OnceInv
  BY InitTypeOK DEF Init, OnceInv, OnceOK, Todo, Taken, Untold
<1>2. OnceInv /\ [Next]_vars => OnceInv'
  <2> SUFFICES ASSUME OnceInv, [Next]_vars, NEW s \in Shift, s \notin blurred'
               PROVE  OnceOK(s)'
    BY TypeStep DEF OnceInv
  <2>1. TypeOK /\ OnceOK(s)
    BY BlurredGrows DEF OnceInv
  <2>2. ASSUME NEW r \in Run, JobStep(r) PROVE OnceOK(s)'
    BY <2>1, <2>2, OnceJob
  <2>3. CASE ~ \E r \in Run : JobStep(r)
    <3>1. UNCHANGED <<job, told, marked>>
      BY <2>3, PeopleLeaveJob
    <3> QED BY <2>1, <3>1 DEF job, OnceOK, RunTold, Untold, Taken, Todo, Current
  <2> QED BY <2>2, <2>3
<1>3. OnceInv => NudgedOnce
  BY DEF OnceInv, OnceOK, NudgedOnce
<1> QED BY <1>1, <1>2, <1>3, PTL DEF Spec
=============================================================================

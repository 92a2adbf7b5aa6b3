------------------------- MODULE ShiftSignupProofs -------------------------
(***************************************************************************)
(* Theorems about ShiftSignup, for any number of volunteers, shifts and    *)
(* handlers, any days, and any bounds; and about Calendar, which extends   *)
(* it by the mails that the requests cause, for any number of mails of a   *)
(* kind and runs of the job.                                               *)
(***************************************************************************)
EXTENDS Calendar, WellFoundedInduction, TLAPS

-----------------------------------------------------------------------------
(* What the inductive invariant says.                                      *)

(* A handler about to compare or write a date has an early day that a      *)
(* shift the volunteer has a row for has or had.                           *)
FirstGrounded == \A r \in Req :
    pc[r] \in {"arrival", "set"} =>
        \E s \in Shift : \E d \in had[s] :
            row[who[r]][s] # "none" /\ d \in 1 .. OpenSun /\ first[r] = d

DaysHad == \A s \in Shift : day[s] \in had[s]

(* Requests about one volunteer, as long as they come one after another:   *)
(* no early shift of hers is before the day a handler has read (it may     *)
(* have been postponed since), and the arrival fits unless the handler is  *)
(* just about to set it.                                                   *)
LowerBound(d, v) == d \in Known /\ \A e \in EarlyDays(v) : d <= e

DatesOK(v) ==
    /\ \A r, q \in Req : WorksFor(r, v) /\ WorksFor(q, v) => r = q
    /\ \A r \in Req : WorksFor(r, v) =>
        /\ (pc[r] \in {"arrival", "set"} => LowerBound(first[r], v))
        /\ (pc[r] = "set" => NeedsSet(v, Target(first[r])))
    /\ (~ later[v] /\ (\A r \in Req : WorksFor(r, v) => pc[r] \notin ArrivalPc)
           => InTime(v))

(* The same for one volunteer and one shift: what the notice says at each  *)
(* step of the one handler that touches them.                              *)
StageOK(r, v, s) ==
    /\ (pc[r] \in {"check", "remove", "prior"} => Agree(v, s))
    /\ (pc[r] \in {"find", "write"} => Agree(v, s) /\ ~ canceled[s])
    /\ (pc[r] \in ArrivalPc \cup {"assigned"} => row[v][s] = "in" /\ ~ canceled[s])
    /\ (pc[r] = "removed" =>
            row[v][s] # "in" /\ (row[v][s] = "none" => ~ Good(v, s)))
    /\ (pc[r] = "update" => Agree(v, s) /\ seen[r] = canceled[s])
    /\ (pc[r] = "list" =>
            canceled[s] = want[r] /\ ((row[v][s] = "in" /\ want[r]) <=> Good(v, s)))
    /\ (pc[r] = "fan" =>
            /\ canceled[s] = want[r]
            /\ (v \in list[r] => row[v][s] = "in")
            /\ (v \notin list[r] => Agree(v, s)))

PairOK(v, s) ==
    /\ \A r, q \in Req : Touches(r, v, s) /\ Touches(q, v, s) => r = q
    /\ \A r \in Req : Touches(r, v, s) => StageOK(r, v, s)
    /\ (\A r \in Req : ~ Touches(r, v, s)) => Agree(v, s)

-----------------------------------------------------------------------------
(* The step of a handler, and what it leaves to the others.                *)

Step(r) == SignUp(r) \/ Remove(r) \/ Edit(r) \/ Fail(r)

Same(q) ==
    /\ pc'[q] = pc[q] /\ who'[q] = who[q] /\ shift'[q] = shift[q]
    /\ seen'[q] = seen[q] /\ first'[q] = first[q] /\ want'[q] = want[q]
    /\ list'[q] = list[q]

Others(r) == \A q \in Req \ {r} : Same(q)

LEMMA EndType ==
    ASSUME HandlersOK, NEW r \in Req, End(r)
    PROVE  /\ HandlersOK' /\ Others(r)
           /\ pc'[r] = "idle" /\ who'[r] = Nobody
<1>1. (CHOOSE s \in Shift : TRUE) \in Shift
  BY SignupAssumption
<1> QED BY <1>1 DEF HandlersOK, End, Goto, Others, Same, Pc

LEMMA BeginType ==
    ASSUME HandlersOK, NEW r \in Req, NEW v \in Volunteer \cup {Nobody},
           NEW s \in Shift, NEW l \in Pc, Begin(r, v, s, l),
           UNCHANGED <<seen, first, list>>,
           want' \in [Req -> BOOLEAN], \A q \in Req \ {r} : want'[q] = want[q]
    PROVE  /\ HandlersOK' /\ Others(r)
           /\ pc'[r] = l /\ who'[r] = v /\ shift'[r] = s
BY DEF HandlersOK, Begin, Goto, Others, Same

-----------------------------------------------------------------------------
(* Days.                                                                   *)

LEMMA DaysType ==
    ASSUME TypeOK, NEW v \in Volunteer
    PROVE  EarlyDays(v) \subseteq Known
BY SignupAssumption DEF EarlyDays, TypeOK, RowsOK

LEMMA DateType ==
    ASSUME TypeOK, NEW v \in Volunteer
    PROVE  arrival[v] \in Nat
<1>1. arrival[v] \in Known \/ arrival[v] = 0
  BY DEF TypeOK, RowsOK
<1>2. CASE arrival[v] \in Known
  BY <1>2, SignupAssumption
<1>3. CASE arrival[v] = 0
  BY <1>3
<1> QED BY <1>1, <1>2, <1>3

LEMMA FirstIsLeast ==
    ASSUME TypeOK, NEW v \in Volunteer, EarlyDays(v) # {}
    PROVE  /\ FirstDay(v) \in EarlyDays(v)
           /\ \A d \in EarlyDays(v) : FirstDay(v) <= d
<1>1. EarlyDays(v) \subseteq Nat
  BY DaysType, SignupAssumption
<1>2. PICK x \in EarlyDays(v) : \A y \in EarlyDays(v) : ~ (<<y, x>> \in OpToRel(<, Nat))
  BY <1>1, NatLessThanWellFounded, WFMin
<1>3. \A y \in EarlyDays(v) : x <= y
  <2>1. \A y \in EarlyDays(v) : x \in Nat /\ y \in Nat
    BY <1>1
  <2>2. \A y \in EarlyDays(v) : ~ (y < x)
    BY <1>2, <2>1, Zenon DEF OpToRel
  <2> QED BY <2>1, <2>2
<1>4. FirstDay(v) = Min(EarlyDays(v))
  BY DEF FirstDay
<1> QED BY <1>3, <1>4 DEF Min

LEMMA TargetType ==
    ASSUME NEW d \in Known
    PROVE  Target(d) \in Known /\ Target(d) \in 1 .. d
BY SignupAssumption DEF Target

LEMMA TargetMonotone ==
    ASSUME NEW d \in Known, NEW e \in Known, d <= e
    PROVE  Target(d) <= Target(e)
BY SignupAssumption DEF Target

(* A date that suits a day none of hers is before suits every day.         *)
LEMMA FirstSuffices ==
    ASSUME TypeOK, NEW v \in Volunteer, NEW x, LowerBound(x, v),
           arrival[v] \in 1 .. Target(x)
    PROVE  InTime(v)
<1> SUFFICES ASSUME NEW d \in EarlyDays(v) PROVE arrival[v] \in 1 .. Target(d)
  BY DEF InTime
<1>1. x \in Known /\ d \in Known /\ x <= d
  BY DaysType DEF LowerBound
<1>2. Target(x) <= Target(d)
  BY <1>1, TargetMonotone
<1>3. Target(x) \in Nat /\ Target(d) \in Nat
  BY <1>1, TargetType, SignupAssumption
<1> QED BY <1>2, <1>3

-----------------------------------------------------------------------------
(* Type correctness.                                                       *)

LEMMA InitTypeOK == Init => TypeOK
<1>1. (CHOOSE s \in Shift : TRUE) \in Shift
  BY SignupAssumption
<1> QED
  BY <1>1, SignupAssumption
  DEF Init, TypeOK, RowsOK, HandlersOK, Notice, Pc, PersonPc, EditPc, ArrivalPc

(* What every step of a handler does to the handlers, and the history that *)
(* only grows.                                                             *)
LEMMA HandlerStep ==
    ASSUME TypeOK, NEW r \in Req, Step(r)
    PROVE  /\ HandlersOK' /\ Others(r)
           /\ pc'[r] \in PersonPc => who'[r] \in Volunteer
           /\ pc'[r] \in EditPc => who'[r] = Nobody
<1> USE DEF TypeOK
<1>1. CASE SignUpBegin(r) \/ RemoveBegin(r)
  <2>1. PICK v \in Volunteer, s \in Shift, l \in {"check", "remove"} : Begin(r, v, s, l)
    BY <1>1 DEF SignUpBegin, RemoveBegin
  <2>2. UNCHANGED <<seen, first, want, list>>
    BY <1>1 DEF SignUpBegin, RemoveBegin
  <2>3. want' \in [Req -> BOOLEAN] /\ l \in Pc /\ l \notin EditPc
    BY <2>2 DEF HandlersOK, Pc, PersonPc, EditPc
  <2> QED BY <2>1, <2>2, <2>3, BeginType
<1>2. CASE EditBegin(r)
  <2>1. PICK s \in Shift, c \in BOOLEAN :
            Begin(r, Nobody, s, "prior") /\ want' = [want EXCEPT ![r] = c]
    BY <1>2 DEF EditBegin
  <2>2. UNCHANGED <<seen, first, list>>
    BY <1>2 DEF EditBegin
  <2>3. want' \in [Req -> BOOLEAN] /\ \A q \in Req \ {r} : want'[q] = want[q]
    BY <2>1 DEF HandlersOK
  <2>4. "prior" \in Pc /\ "prior" \notin PersonPc
    BY DEF Pc, PersonPc, EditPc, ArrivalPc
  <2> QED BY <2>1, <2>2, <2>3, <2>4, BeginType
<1>3. CASE End(r)
  BY <1>3, EndType DEF PersonPc, EditPc, ArrivalPc
<1>4. ASSUME NEW l \in Pc, Goto(r, l), UNCHANGED <<who, shift, want>>,
             seen' \in [Req -> BOOLEAN], first' \in [Req -> Known \cup {0}],
             list' \in [Req -> SUBSET Volunteer],
             \A q \in Req \ {r} : /\ seen'[q] = seen[q] /\ first'[q] = first[q]
                                  /\ list'[q] = list[q],
             l \in PersonPc <=> pc[r] \in PersonPc,
             l \in EditPc <=> pc[r] \in EditPc
      PROVE  /\ HandlersOK' /\ Others(r)
             /\ pc'[r] \in PersonPc => who'[r] \in Volunteer
             /\ pc'[r] \in EditPc => who'[r] = Nobody
  BY <1>4 DEF HandlersOK, Goto, Others, Same
<1>5. CASE CheckCanceled(r) /\ ~ End(r)
  BY <1>5, <1>4 DEF CheckCanceled, At, HandlersOK, Pc, PersonPc, EditPc, ArrivalPc
<1>6. CASE FindRow(r)
  BY <1>6, <1>4 DEF FindRow, At, HandlersOK, Pc, PersonPc, EditPc, ArrivalPc
<1>7. CASE WriteRow(r)
  BY <1>7, <1>4 DEF WriteRow, At, HandlersOK, Pc, PersonPc, EditPc, ArrivalPc
<1>8. CASE FirstEligible(r)
  <2>1. pc[r] \in PersonPc /\ FirstDay(who[r]) \in Known \cup {0}
    BY <1>8, FirstIsLeast, DaysType DEF FirstEligible, At, FirstDay, PersonPc, ArrivalPc
  <2>2. PICK l \in {"assigned", "arrival"} : Goto(r, l)
    BY <1>8 DEF FirstEligible
  <2>3. /\ first' = [first EXCEPT ![r] = FirstDay(who[r])]
        /\ UNCHANGED <<who, shift, want, seen, list>>
    BY <1>8 DEF FirstEligible
  <2>4. l \in PersonPc /\ l \in Pc /\ l \notin EditPc /\ pc[r] \notin EditPc
    BY <2>1 DEF Pc, PersonPc, EditPc, ArrivalPc
  <2> QED BY <2>1, <2>2, <2>3, <2>4, <1>4 DEF HandlersOK
<1>9. CASE ReadArrival(r)
  BY <1>9, <1>4 DEF ReadArrival, At, HandlersOK, Pc, PersonPc, EditPc, ArrivalPc
<1>10. CASE SetArrival(r)
  BY <1>10, <1>4 DEF SetArrival, At, HandlersOK, Pc, PersonPc, EditPc, ArrivalPc
<1>11. CASE RemoveRow(r)
  BY <1>11, <1>4 DEF RemoveRow, At, HandlersOK, Pc, PersonPc, EditPc, ArrivalPc
<1>12. CASE ReadPrior(r)
  BY <1>12, <1>4 DEF ReadPrior, At, HandlersOK, RowsOK, Pc, PersonPc, EditPc, ArrivalPc
<1>13. CASE UpdateTime(r) /\ ~ End(r)
  BY <1>13, <1>4 DEF UpdateTime, At, HandlersOK, Pc, PersonPc, EditPc, ArrivalPc
<1>14. CASE ListAssigned(r) /\ ~ End(r)
  BY <1>14, <1>4 DEF ListAssigned, At, HandlersOK, Pc, PersonPc, EditPc, ArrivalPc
<1>15. CASE (NotifyFlip(r) \/ NoticeFails(r)) /\ ~ End(r)
  <2>1. PICK v \in list[r] : list' = [list EXCEPT ![r] = @ \ {v}]
    BY <1>15 DEF NotifyFlip, NoticeFails, NextOf
  <2>2. UNCHANGED <<pc, who, shift, seen, first, want>>
    BY <1>15 DEF NotifyFlip, NoticeFails, NextOf
  <2> QED BY <2>1, <2>2 DEF HandlersOK, Others, Same
<1>16. CASE ArrivalFails(r)
  BY <1>16, <1>4 DEF ArrivalFails, HandlersOK, Pc, PersonPc, EditPc, ArrivalPc
<1>17. CASE DuplicateRow(r) \/ NotifyAssignment(r) \/ NotifyRemoval(r) \/ Stop(r)
  BY <1>17, <1>3 DEF DuplicateRow, NotifyAssignment, NotifyRemoval, Stop
<1> QED
  BY <1>1, <1>2, <1>3, <1>5, <1>6, <1>7, <1>8, <1>9, <1>10, <1>11, <1>12,
     <1>13, <1>14, <1>15, <1>16, <1>17
  DEF Step, SignUp, Remove, Edit, Fail

LEMMA TellType ==
    ASSUME told \in [Volunteer -> [Shift -> Notice]], NEW v, NEW s,
           NEW n \in Notice, Tell(v, s, n)
    PROVE  told' \in [Volunteer -> [Shift -> Notice]]
BY DEF Tell

(* Two steps of a handler change a date, the day of a shift or an arrival. *)
LEMMA DateStep ==
    ASSUME NEW r \in Req, Step(r)
    PROVE  UNCHANGED dates \/ SetArrival(r) \/ UpdateTime(r)
BY DEF Step, SignUp, Remove, Edit, Fail, SignUpBegin, CheckCanceled, FindRow,
       WriteRow, DuplicateRow, FirstEligible, ReadArrival, NotifyAssignment,
       RemoveBegin, RemoveRow, NotifyRemoval, EditBegin, ReadPrior,
       ListAssigned, NotifyFlip, Stop, ArrivalFails, NoticeFails

LEMMA TypeStep ==
    ASSUME TypeOK, [Next]_vars
    PROVE  TypeOK'
<1>1. CASE UNCHANGED vars \/ Rest
  <2>1. UNCHANGED vars
    BY <1>1 DEF Rest
  <2> QED BY <2>1 DEF vars, dates, handler, history, TypeOK, RowsOK, HandlersOK
<1>2. CASE ChooseArrival
  <2>1. RowsOK'
    BY <1>2 DEF ChooseArrival, TypeOK, RowsOK
  <2>2. UNCHANGED handler /\ HandlersOK'
    BY <1>2 DEF ChooseArrival, handler, TypeOK, HandlersOK
  <2>3. /\ asked' \in 0 .. MaxRequests /\ faults' \in 0 .. MaxFaults
        /\ blurred' \subseteq Volunteer \X Shift /\ muddled' \subseteq Volunteer
        /\ later' \in [Volunteer -> BOOLEAN]
        /\ had' \in [Shift -> SUBSET (Known \cup {0})]
    BY <1>2, SignupAssumption DEF ChooseArrival, OverlapFor, TypeOK
  <2> QED BY <2>1, <2>2, <2>3 DEF TypeOK, handler
<1>3. ASSUME NEW r \in Req, Step(r) PROVE TypeOK'
  <2>1. /\ HandlersOK' /\ Others(r)
        /\ pc'[r] \in PersonPc => who'[r] \in Volunteer
        /\ pc'[r] \in EditPc => who'[r] = Nobody
    BY <1>3, HandlerStep
  <2>2. \A q \in Req : /\ pc'[q] \in PersonPc => who'[q] \in Volunteer
                       /\ pc'[q] \in EditPc => who'[q] = Nobody
    BY <2>1 DEF Others, Same, TypeOK
  <2>3. pc[r] \in PersonPc => who[r] \in Volunteer
    BY DEF TypeOK
  <2> USE DEF TypeOK, RowsOK, Notice
  <2>4. row' \in [Volunteer -> [Shift -> {"none", "in", "out"}]]
    <3>1. CASE WriteRow(r) \/ RemoveRow(r)
      <4>1. who[r] \in Volunteer
        BY <3>1, <2>3 DEF WriteRow, RemoveRow, At, PersonPc
      <4>2. PICK m \in {"none", "in", "out"} :
                row' = [row EXCEPT ![who[r]] = [@ EXCEPT ![shift[r]] = m]]
        <5>1. CASE WriteRow(r)
          BY <5>1 DEF WriteRow
        <5>2. CASE RemoveRow(r)
          <6>1. shift[r] \in Shift
            BY DEF HandlersOK
          <6> DEFINE m == IF row[who[r]][shift[r]] = "in" THEN "out"
                          ELSE row[who[r]][shift[r]]
          <6>2. m \in {"none", "in", "out"}
            BY <6>1, <4>1
          <6>3. row' = [row EXCEPT ![who[r]] = [@ EXCEPT ![shift[r]] = m]]
            BY <5>2 DEF RemoveRow
          <6> QED BY <6>2, <6>3
        <5> QED BY <3>1, <5>1, <5>2
      <4> QED BY <4>1, <4>2
    <3>2. CASE UNCHANGED row
      BY <3>2
    <3> QED BY <1>3, <3>1, <3>2
      DEF Step, SignUp, Remove, Edit, Fail, SignUpBegin, CheckCanceled, FindRow,
          DuplicateRow, FirstEligible, ReadArrival, SetArrival, NotifyAssignment,
          RemoveBegin, NotifyRemoval, EditBegin, ReadPrior, UpdateTime,
          ListAssigned, NotifyFlip, Stop, ArrivalFails, NoticeFails
  <2>5. canceled' \in [Shift -> BOOLEAN]
    <3>1. CASE UpdateTime(r)
      BY <3>1 DEF UpdateTime, HandlersOK
    <3>2. CASE UNCHANGED canceled
      BY <3>2
    <3> QED BY <1>3, <3>1, <3>2
      DEF Step, SignUp, Remove, Edit, Fail, SignUpBegin, CheckCanceled, FindRow,
          WriteRow, DuplicateRow, FirstEligible, ReadArrival, SetArrival,
          NotifyAssignment, RemoveBegin, RemoveRow, NotifyRemoval, EditBegin,
          ReadPrior, ListAssigned, NotifyFlip, Stop, ArrivalFails, NoticeFails
  <2>6. arrival' \in [Volunteer -> Known \cup {0}] /\ auto' \in [Volunteer -> BOOLEAN]
    <3>1. CASE SetArrival(r)
      <4>1. first[r] \in Known => Target(first[r]) \in Known
        BY TargetType
      <4>2. first[r] = 0 => Target(first[r]) = 0
        BY SignupAssumption DEF Target
      <4> QED BY <3>1, <4>1, <4>2 DEF SetArrival, HandlersOK
    <3>2. CASE UNCHANGED <<arrival, auto>>
      BY <3>2
    <3> QED BY <1>3, <3>1, <3>2
      DEF dates, Step, SignUp, Remove, Edit, Fail, SignUpBegin, CheckCanceled, FindRow,
          WriteRow, DuplicateRow, FirstEligible, ReadArrival, NotifyAssignment,
          RemoveBegin, RemoveRow, NotifyRemoval, EditBegin, ReadPrior, UpdateTime,
          ListAssigned, NotifyFlip, Stop, ArrivalFails, NoticeFails
  <2>7. told' \in [Volunteer -> [Shift -> Notice]]
    <3>1. CASE NotifyAssignment(r) \/ NotifyRemoval(r)
      BY <3>1, TellType DEF NotifyAssignment, NotifyRemoval
    <3>3. CASE NotifyFlip(r)
      BY <3>3, TellType DEF NotifyFlip
    <3>2. CASE UNCHANGED told
      BY <3>2
    <3> QED BY <1>3, <3>1, <3>2, <3>3
      DEF Step, SignUp, Remove, Edit, Fail, SignUpBegin, CheckCanceled, FindRow,
          WriteRow, DuplicateRow, FirstEligible, ReadArrival, SetArrival,
          RemoveBegin, RemoveRow, EditBegin, ReadPrior, UpdateTime, ListAssigned,
          Stop, ArrivalFails, NoticeFails
  <2>8. asked' \in 0 .. MaxRequests /\ faults' \in 0 .. MaxFaults
    <3>1. CASE SignUpBegin(r) \/ RemoveBegin(r) \/ EditBegin(r)
      <4>1. asked < MaxRequests /\ asked' = asked + 1 /\ UNCHANGED faults
        BY <3>1 DEF SignUpBegin, RemoveBegin, EditBegin, Begin
      <4> QED BY <4>1, SignupAssumption
    <3>2. CASE UNCHANGED asked /\ (UNCHANGED faults \/ Fault)
      BY <3>2, SignupAssumption DEF Fault
    <3> QED BY <1>3, <3>1, <3>2
      DEF Step, SignUp, Remove, Edit, Fail, CheckCanceled, FindRow, WriteRow,
          DuplicateRow, FirstEligible, ReadArrival, SetArrival, NotifyAssignment,
          RemoveRow, NotifyRemoval, ReadPrior, UpdateTime, ListAssigned,
          NotifyFlip, Stop, ArrivalFails, NoticeFails, At
  <2>9. blurred' \subseteq Volunteer \X Shift /\ muddled' \subseteq Volunteer
    <3>1. CASE SignUpBegin(r) \/ RemoveBegin(r) \/ EditBegin(r)
      BY <3>1 DEF SignUpBegin, RemoveBegin, EditBegin, Overlapping, OverlapFor
    <3>2. CASE ArrivalFails(r)
      <4>1. who[r] \in Volunteer
        BY <3>2, <2>3 DEF ArrivalFails, PersonPc
      <4> QED BY <3>2, <4>1 DEF ArrivalFails
    <3>3. CASE NoticeFails(r) \/ Stop(r)
      BY <3>3 DEF NoticeFails, Stop, HandlersOK
    <3>4. CASE UNCHANGED <<blurred, muddled>>
      BY <3>4
    <3>5. CASE UpdateTime(r)
      BY <3>5 DEF UpdateTime, CalledForward, OverlapFor
    <3> QED BY <1>3, <3>1, <3>2, <3>3, <3>4, <3>5
      DEF Step, SignUp, Remove, Edit, Fail, CheckCanceled, FindRow,
          WriteRow, DuplicateRow, FirstEligible, ReadArrival, SetArrival,
          NotifyAssignment, RemoveRow, NotifyRemoval, ReadPrior,
          ListAssigned, NotifyFlip, history
  <2>10. later' \in [Volunteer -> BOOLEAN]
    BY <1>3
    DEF Step, SignUp, Remove, Edit, Fail, SignUpBegin, CheckCanceled, FindRow,
        WriteRow, DuplicateRow, FirstEligible, ReadArrival, SetArrival,
        NotifyAssignment, RemoveBegin, RemoveRow, NotifyRemoval, EditBegin,
        ReadPrior, UpdateTime, ListAssigned, NotifyFlip, Stop, ArrivalFails,
        NoticeFails, history
  <2>11. /\ day' \in [Shift -> Known \cup {0}]
         /\ had' \in [Shift -> SUBSET (Known \cup {0})]
    <3>1. CASE UpdateTime(r)
      BY <3>1 DEF UpdateTime, HandlersOK
    <3>2. CASE ~ UpdateTime(r)
      BY <1>3, <3>2, DateStep DEF dates, SetArrival
    <3> QED BY <3>1, <3>2
  <2> QED BY <2>1, <2>2, <2>4, <2>5, <2>6, <2>7, <2>8, <2>9, <2>10, <2>11
<1> QED BY <1>1, <1>2, <1>3 DEF Next, Step

(* Every reachable state has its variables in their types: arrival dates   *)
(* are days of the event.                                                  *)
THEOREM TypeCorrect == Spec => []TypeOK
<1>1. Init => TypeOK
  BY InitTypeOK
<1>2. TypeOK /\ [Next]_vars => TypeOK'
  BY TypeStep
<1> QED BY <1>1, <1>2, PTL DEF Spec

-----------------------------------------------------------------------------
(* Dates the application sets are grounded, whatever overlaps or fails.    *)

(* The rows after a step: only two steps change one, each its own.         *)
Writes(r, v, s)  == WriteRow(r) /\ who[r] = v /\ shift[r] = s
Removes(r, v, s) == RemoveRow(r) /\ who[r] = v /\ shift[r] = s /\ row[v][s] = "in"

LEMMA RowStep ==
    ASSUME TypeOK, NEW r \in Req, Step(r), NEW v \in Volunteer
    PROVE  /\ ~ (WriteRow(r) \/ RemoveRow(r)) \/ who[r] # v => row'[v] = row[v]
           /\ \A s \in Shift :
                row'[v][s] = IF Writes(r, v, s) THEN "in"
                             ELSE IF Removes(r, v, s) THEN "out" ELSE row[v][s]
<1>0. WriteRow(r) \/ RemoveRow(r) => who[r] \in Volunteer /\ shift[r] \in Shift
  BY DEF WriteRow, RemoveRow, At, TypeOK, HandlersOK, PersonPc
<1>1. CASE WriteRow(r)
  <2>1. pc[r] = "write"
    BY <1>1 DEF WriteRow, At
  <2>2. row' = [row EXCEPT ![who[r]] = [@ EXCEPT ![shift[r]] = "in"]]
    BY <1>1 DEF WriteRow
  <2>3. ~ RemoveRow(r)
    BY <2>1 DEF RemoveRow, At
  <2> QED BY <1>0, <1>1, <2>2, <2>3 DEF Writes, Removes, TypeOK, RowsOK
<1>2. CASE RemoveRow(r)
  <2>1. pc[r] = "remove"
    BY <1>2 DEF RemoveRow, At
  <2> DEFINE m == IF row[who[r]][shift[r]] = "in" THEN "out"
                  ELSE row[who[r]][shift[r]]
  <2>2. row' = [row EXCEPT ![who[r]] = [@ EXCEPT ![shift[r]] = m]]
    BY <1>2 DEF RemoveRow
  <2>3. ~ WriteRow(r)
    BY <2>1 DEF WriteRow, At
  <2> QED BY <1>0, <1>2, <2>2, <2>3 DEF Writes, Removes, TypeOK, RowsOK
<1>3. CASE ~ (WriteRow(r) \/ RemoveRow(r))
  <2>1. UNCHANGED row
    BY <1>3
    DEF Step, SignUp, Remove, Edit, Fail, SignUpBegin, CheckCanceled, FindRow,
        DuplicateRow, FirstEligible, ReadArrival, SetArrival, NotifyAssignment,
        RemoveBegin, NotifyRemoval, EditBegin, ReadPrior, UpdateTime,
        ListAssigned, NotifyFlip, Stop, ArrivalFails, NoticeFails
  <2> QED BY <1>3, <2>1 DEF Writes, Removes
<1> QED BY <1>1, <1>2, <1>3

LEMMA RowsStay ==
    ASSUME TypeOK, NEW r \in Req, Step(r), NEW v \in Volunteer, NEW s \in Shift,
           row[v][s] # "none"
    PROVE  row'[v][s] # "none"
BY RowStep

(* Only two steps lead to the last two of autoSetArrival.                  *)
LEMMA ArrivalSteps ==
    ASSUME TypeOK, NEW r \in Req, Step(r), pc'[r] \in {"arrival", "set"}
    PROVE  FirstEligible(r) \/ ReadArrival(r)
<1> USE DEF TypeOK, HandlersOK
<1>1. ASSUME End(r) PROVE FALSE
  BY <1>1, EndType
<1>2. ASSUME NEW l \in {"check", "find", "write", "eligible", "assigned",
                        "remove", "removed", "update", "list", "fan", "prior"},
             Goto(r, l)
      PROVE  FALSE
  BY <1>2 DEF Goto
<1>3. ASSUME NotifyFlip(r) \/ NoticeFails(r) PROVE FALSE
  BY <1>1, <1>3 DEF NotifyFlip, NoticeFails, NextOf, At
<1> QED BY <1>1, <1>2, <1>3
  DEF Step, SignUp, Remove, Edit, Fail, SignUpBegin, CheckCanceled, FindRow,
      WriteRow, DuplicateRow, SetArrival, NotifyAssignment, RemoveBegin,
      RemoveRow, NotifyRemoval, EditBegin, ReadPrior, UpdateTime, ListAssigned,
      Stop, ArrivalFails, Begin

LEMMA HadStep ==
    ASSUME TypeOK, DaysHad, [Next]_vars
    PROVE  DaysHad' /\ \A s \in Shift : had[s] \subseteq had'[s]
<1>1. CASE UNCHANGED <<day, had>>
  BY <1>1 DEF DaysHad
<1>2. ASSUME NEW r \in Req, UpdateTime(r)
      PROVE  DaysHad' /\ \A s \in Shift : had[s] \subseteq had'[s]
  <2>1. PICK d : /\ day' = [day EXCEPT ![shift[r]] = d]
                 /\ had' = [had EXCEPT ![shift[r]] = @ \cup {d}]
    BY <1>2 DEF UpdateTime
  <2> QED BY <2>1 DEF DaysHad, TypeOK, RowsOK
<1>3. CASE UNCHANGED vars \/ Rest \/ ChooseArrival
  BY <1>1, <1>3 DEF Rest, ChooseArrival, vars, dates
<1>4. ASSUME NEW r \in Req, Step(r)
      PROVE  DaysHad' /\ \A s \in Shift : had[s] \subseteq had'[s]
  BY <1>1, <1>2, <1>4, DateStep DEF dates, SetArrival
<1> QED BY <1>3, <1>4 DEF Next, Step

LEMMA GroundedStep ==
    ASSUME TypeOK, DaysHad, FirstGrounded, AutoDateGrounded, [Next]_vars
    PROVE  FirstGrounded' /\ AutoDateGrounded'
<1>0. \A s \in Shift : had[s] \subseteq had'[s]
  BY HadStep
<1>1. CASE UNCHANGED vars \/ Rest
  BY <1>1 DEF Rest, vars, dates, handler, FirstGrounded, AutoDateGrounded
<1>2. CASE ChooseArrival
  <2>1. FirstGrounded'
    BY <1>2 DEF ChooseArrival, handler, FirstGrounded
  <2>2. AutoDateGrounded'
    BY <1>2 DEF ChooseArrival, AutoDateGrounded, TypeOK, RowsOK
  <2> QED BY <2>1, <2>2
<1>3. ASSUME NEW r \in Req, Step(r) PROVE FirstGrounded' /\ AutoDateGrounded'
  <2>1. Others(r) /\ HandlersOK'
    BY <1>3, HandlerStep
  <2>2. \A v \in Volunteer, s \in Shift : row[v][s] # "none" => row'[v][s] # "none"
    BY <1>3, RowsStay
  <2>3. FirstGrounded'
    <3> SUFFICES ASSUME NEW q \in Req, pc'[q] \in {"arrival", "set"}
                 PROVE  \E s \in Shift : \E d \in had'[s] :
                            /\ row'[who'[q]][s] # "none"
                            /\ d \in 1 .. OpenSun
                            /\ first'[q] = d
      BY DEF FirstGrounded
    <3>1. CASE q # r
      <4>1. pc[q] \in {"arrival", "set"} /\ who'[q] = who[q] /\ first'[q] = first[q]
        BY <2>1, <3>1 DEF Others, Same
      <4>2. who[q] \in Volunteer
        BY <4>1 DEF TypeOK, PersonPc, ArrivalPc
      <4> QED BY <4>1, <4>2, <2>2, <1>0 DEF FirstGrounded
    <3>2. CASE q = r /\ FirstEligible(r)
      <4>1. who[r] \in Volunteer
        BY <3>2 DEF FirstEligible, At, TypeOK, PersonPc, ArrivalPc
      <4>2. FirstDay(who[r]) # 0
        BY <3>2 DEF FirstEligible, Goto, TypeOK, HandlersOK
      <4>3. FirstDay(who[r]) \in EarlyDays(who[r])
        BY <4>1, <4>2, FirstIsLeast DEF FirstDay
      <4>4. PICK s \in Shift : /\ row[who[r]][s] = "in"
                               /\ day[s] \in 1 .. OpenSun
                               /\ day[s] = FirstDay(who[r])
        BY <4>3 DEF EarlyDays
      <4>5. UNCHANGED <<row, had, who>> /\ first'[r] = day[s] /\ day[s] \in had[s]
        BY <3>2, <4>4 DEF FirstEligible, TypeOK, HandlersOK, dates, DaysHad
      <4> QED BY <3>2, <4>4, <4>5
    <3>3. CASE q = r /\ ReadArrival(r)
      <4>1. /\ pc[r] \in {"arrival", "set"} /\ UNCHANGED <<row, had, who, first>>
        BY <3>3 DEF ReadArrival, At, dates
      <4> QED BY <3>3, <4>1 DEF FirstGrounded
    <3> QED BY <1>3, <3>1, <3>2, <3>3, ArrivalSteps
  <2>4. AutoDateGrounded'
    <3>1. CASE UNCHANGED <<arrival, auto>>
      BY <3>1, <2>2, <1>0 DEF AutoDateGrounded
    <3>2. CASE SetArrival(r)
      <4>1. who[r] \in Volunteer
        BY <3>2 DEF SetArrival, At, TypeOK, PersonPc, ArrivalPc
      <4>2. PICK s \in Shift : \E d \in had[s] :
                row[who[r]][s] # "none" /\ d \in 1 .. OpenSun /\ first[r] = d
        BY <3>2 DEF SetArrival, At, FirstGrounded
      <4>3. PICK d \in had[s] :
                row[who[r]][s] # "none" /\ d \in 1 .. OpenSun /\ first[r] = d
        BY <4>2
      <4>4. arrival'[who[r]] = Target(d)
        BY <3>2, <4>1, <4>3 DEF SetArrival, TypeOK, RowsOK
      <4>5. \A v \in Volunteer \ {who[r]} :
                arrival'[v] = arrival[v] /\ auto'[v] = auto[v]
        BY <3>2 DEF SetArrival, TypeOK, RowsOK
      <4> QED BY <4>1, <4>3, <4>4, <4>5, <2>2, <1>0 DEF AutoDateGrounded
    <3> QED BY <1>3, <3>1, <3>2, DateStep DEF dates, UpdateTime
  <2> QED BY <2>3, <2>4
<1> QED BY <1>1, <1>2, <1>3 DEF Next, Step

(* An arrival the application has set always belongs to an early day of a  *)
(* shift the volunteer has or had, whatever days the edits write.          *)
THEOREM AutoDatesGrounded == Spec => []AutoDateGrounded
<1>1. Init => TypeOK /\ DaysHad /\ FirstGrounded /\ AutoDateGrounded
  BY InitTypeOK DEF Init, DaysHad, FirstGrounded, AutoDateGrounded
<1>2. TypeOK /\ DaysHad /\ FirstGrounded /\ AutoDateGrounded /\ [Next]_vars
        => (TypeOK /\ DaysHad /\ FirstGrounded /\ AutoDateGrounded)'
  BY TypeStep, HadStep, GroundedStep
<1> QED BY <1>1, <1>2, PTL DEF Spec

-----------------------------------------------------------------------------
(* A handler that is running ends or stays with its volunteer and shift;   *)
(* an idle one has nothing to do but to begin.                             *)
LEMMA KeepsTarget ==
    ASSUME TypeOK, NEW r \in Req, Step(r)
    PROVE  \/ pc[r] = "idle" /\ (SignUpBegin(r) \/ RemoveBegin(r) \/ EditBegin(r))
           \/ pc[r] # "idle" /\ (End(r) \/ UNCHANGED <<who, shift>>)
<1>1. SignUpBegin(r) \/ RemoveBegin(r) \/ EditBegin(r) => pc[r] = "idle"
  BY DEF SignUpBegin, RemoveBegin, EditBegin, Begin
<1>2. CASE NotifyFlip(r) \/ NoticeFails(r)
  BY <1>2 DEF NotifyFlip, NoticeFails, NextOf, At
<1>3. CASE CheckCanceled(r) \/ UpdateTime(r) \/ ListAssigned(r)
  BY <1>3 DEF CheckCanceled, UpdateTime, ListAssigned, At
<1>4. CASE \/ FindRow(r) \/ WriteRow(r) \/ FirstEligible(r) \/ ReadArrival(r)
           \/ SetArrival(r) \/ RemoveRow(r) \/ ReadPrior(r) \/ ArrivalFails(r)
  BY <1>4 DEF FindRow, WriteRow, FirstEligible, ReadArrival, SetArrival,
              RemoveRow, ReadPrior, ArrivalFails, ArrivalPc, At
<1>5. CASE DuplicateRow(r) \/ NotifyAssignment(r) \/ NotifyRemoval(r) \/ Stop(r)
  BY <1>5 DEF DuplicateRow, NotifyAssignment, NotifyRemoval, Stop, At
<1> QED BY <1>1, <1>2, <1>3, <1>4, <1>5 DEF Step, SignUp, Remove, Edit, Fail

-----------------------------------------------------------------------------
(* Requests about one volunteer, one after the other, and her arrival.     *)

(* A step that touches nothing of v keeps her dates in order.              *)
LEMMA OtherDates ==
    ASSUME TypeOK, TypeOK', NEW v \in Volunteer, NEW r \in Req, DatesOK(v),
           Others(r), ~ WorksFor(r, v), ~ WorksFor(r, v)',
           row'[v] = row[v], day' = day, arrival'[v] = arrival[v],
           later'[v] = later[v]
    PROVE  DatesOK(v)'
<1>1. EarlyDays(v)' = EarlyDays(v) /\ InTime(v)' = InTime(v)
  BY DEF EarlyDays, InTime
<1>2. \A d : NeedsSet(v, d)' = NeedsSet(v, d)
  BY DEF NeedsSet
<1>3. \A q \in Req : WorksFor(q, v)' <=> WorksFor(q, v)
  BY DEF Others, Same, WorksFor
<1>4. \A q \in Req : WorksFor(q, v) => pc'[q] = pc[q] /\ first'[q] = first[q]
  BY DEF Others, Same
<1> QED BY <1>1, <1>2, <1>3, <1>4 DEF DatesOK, LowerBound

(* A step of the one handler that works for v: what is left to show is     *)
(* where it stands afterwards.                                             *)
LEMMA OwnDates ==
    ASSUME NEW v \in Volunteer, NEW r \in Req, Others(r),
           \A q \in Req \ {r} : ~ WorksFor(q, v),
           WorksFor(r, v)' =>
               /\ (pc'[r] \in {"arrival", "set"} => LowerBound(first[r], v)')
               /\ (pc'[r] = "set" => NeedsSet(v, Target(first[r]))'),
           ~ later'[v] /\ ~ (WorksFor(r, v)' /\ pc'[r] \in ArrivalPc) => InTime(v)'
    PROVE  DatesOK(v)'
<1>1. \A q \in Req \ {r} : ~ WorksFor(q, v)'
  BY DEF Others, Same, WorksFor
<1> QED BY <1>1 DEF DatesOK

(* The steps of the handler that works for v.                              *)
LEMMA OwnDatesStep ==
    ASSUME TypeOK, NEW v \in Volunteer \ muddled', DatesOK(v),
           NEW r \in Req, Step(r), WorksFor(r, v)
    PROVE  DatesOK(v)'
<1>1. pc[r] # "idle" /\ who[r] = v /\ pc[r] \notin EditPc
  BY SignupAssumption DEF WorksFor, TypeOK
<1>2. \A q \in Req \ {r} : ~ WorksFor(q, v)
  BY DEF DatesOK
<1>3. Others(r) /\ HandlersOK'
  BY HandlerStep
<1>4. pc[r] \notin ArrivalPc => (~ later[v] => InTime(v))
  BY <1>1, <1>2 DEF DatesOK, WorksFor
<1>5. EarlyDays(v) \subseteq Known /\ Known \subseteq Nat \ {0}
  BY DaysType, SignupAssumption
(* Steps that leave her rows and dates alone.                              *)
<1>6. CASE /\ UNCHANGED <<row, day, arrival, later>>
           /\ pc[r] \notin ArrivalPc
           /\ pc'[r] \notin {"arrival", "set"}
  <2>1. ~ later'[v] => InTime(v)'
    BY <1>4, <1>6 DEF InTime, EarlyDays
  <2> QED BY <1>2, <1>3, <1>6, <2>1, OwnDates
<1>7. CASE End(r) /\ UNCHANGED <<row, day, arrival, later>> /\ pc[r] \notin ArrivalPc
  BY <1>6, <1>7, EndType DEF TypeOK
<1>8. CASE CheckCanceled(r) \/ FindRow(r) \/ DuplicateRow(r)
           \/ NotifyAssignment(r) \/ NotifyRemoval(r)
  BY <1>6, <1>7, <1>8
  DEF CheckCanceled, FindRow, DuplicateRow, NotifyAssignment, NotifyRemoval, At,
      Goto, ArrivalPc, dates, history, TypeOK, HandlersOK
<1>9. CASE WriteRow(r)
  <2>1. pc'[r] = "eligible"
    BY <1>9 DEF WriteRow, Goto, TypeOK, HandlersOK
  <2>2. WorksFor(r, v)'
    BY <1>1, <1>9, <2>1 DEF WriteRow, WorksFor
  <2> QED BY <1>2, <1>3, <2>1, <2>2, OwnDates DEF ArrivalPc
<1>10. CASE FirstEligible(r)
  <2>1. /\ first'[r] = FirstDay(v) /\ FirstDay(v)' = FirstDay(v)
        /\ EarlyDays(v)' = EarlyDays(v) /\ who'[r] = v
    BY <1>1, <1>10 DEF FirstEligible, FirstDay, EarlyDays, dates, TypeOK, HandlersOK
  <2>2. CASE FirstDay(v) = 0
    <3>1. EarlyDays(v) = {}
      BY <1>5, <2>2, FirstIsLeast
    <3>2. InTime(v)'
      BY <2>1, <3>1 DEF InTime
    <3>3. pc'[r] = "assigned"
      BY <1>1, <1>10, <2>2 DEF FirstEligible, Goto, TypeOK, HandlersOK
    <3> QED BY <1>2, <1>3, <3>2, <3>3, OwnDates
  <2>3. CASE FirstDay(v) # 0
    <3>1. EarlyDays(v) # {}
      BY <2>3 DEF FirstDay
    <3>2. pc'[r] = "arrival"
      BY <1>1, <1>10, <2>3 DEF FirstEligible, Goto, TypeOK, HandlersOK
    <3>3. WorksFor(r, v)'
      BY <2>1, <3>2 DEF WorksFor
    <3>4. LowerBound(first[r], v)'
      BY <1>5, <2>1, <3>1, FirstIsLeast DEF LowerBound
    <3> QED BY <1>2, <1>3, <3>2, <3>3, <3>4, OwnDates DEF ArrivalPc
  <2> QED BY <2>2, <2>3
<1>11. CASE ReadArrival(r)
  <2>1. /\ LowerBound(first[r], v) /\ pc[r] = "arrival"
        /\ UNCHANGED <<row, day, arrival, who, first>>
    BY <1>1, <1>11 DEF ReadArrival, At, dates, DatesOK, WorksFor
  <2>2. LowerBound(first[r], v)' /\ InTime(v)' = InTime(v)
    BY <2>1 DEF LowerBound, EarlyDays, InTime
  <2>3. CASE NeedsSet(v, Target(first[r]))
    <3>1. pc'[r] = "set"
      BY <1>1, <1>11, <2>3 DEF ReadArrival, Goto, TypeOK, HandlersOK
    <3>2. NeedsSet(v, Target(first[r]))'
      BY <2>1, <2>3 DEF NeedsSet
    <3>3. WorksFor(r, v)'
      BY <1>1, <2>1, <3>1 DEF WorksFor
    <3> QED BY <1>2, <1>3, <2>2, <3>1, <3>2, <3>3, OwnDates DEF ArrivalPc
  <2>4. CASE ~ NeedsSet(v, Target(first[r]))
    <3>1. pc'[r] = "assigned"
      BY <1>1, <1>11, <2>4 DEF ReadArrival, Goto, TypeOK, HandlersOK
    <3>2. Target(first[r]) \in Nat /\ arrival[v] \in Nat
      BY <1>5, <2>1, TargetType, DateType DEF LowerBound
    <3>3. arrival[v] \in 1 .. Target(first[r])
      BY <2>4, <3>2 DEF NeedsSet
    <3>4. InTime(v)
      BY <2>1, <3>3, FirstSuffices
    <3> QED BY <1>2, <1>3, <2>2, <3>1, <3>4, OwnDates
  <2> QED BY <2>3, <2>4
<1>12. CASE SetArrival(r)
  <2>1. LowerBound(first[r], v) /\ UNCHANGED <<row, day>>
    BY <1>1, <1>12 DEF SetArrival, At, DatesOK, WorksFor
  <2>2. arrival'[v] = Target(first[r]) /\ pc'[r] = "assigned"
    BY <1>1, <1>12 DEF SetArrival, Goto, TypeOK, RowsOK, HandlersOK
  <2>3. EarlyDays(v)' = EarlyDays(v)
    BY <2>1 DEF EarlyDays
  <2>4. Target(first[r]) \in Nat \ {0}
    BY <1>5, <2>1, TargetType DEF LowerBound
  <2>5. \A d \in EarlyDays(v) : Target(first[r]) <= Target(d) /\ Target(d) \in Nat
    BY <1>5, <2>1, TargetMonotone, TargetType DEF LowerBound
  <2>6. InTime(v)'
    BY <2>2, <2>3, <2>4, <2>5 DEF InTime
  <2> QED BY <1>2, <1>3, <2>2, <2>6, OwnDates
<1>13. CASE RemoveRow(r)
  <2>1. pc[r] = "remove" /\ pc'[r] = "removed" /\ UNCHANGED <<day, arrival, later>>
    BY <1>13 DEF RemoveRow, At, Goto, dates, history, TypeOK, HandlersOK
  <2>2. EarlyDays(v)' \subseteq EarlyDays(v)
    <3>1. ~ WriteRow(r)
      BY <2>1 DEF WriteRow, At
    <3>2. \A s \in Shift : row'[v][s] = "in" => row[v][s] = "in"
      BY <3>1, RowStep DEF Writes
    <3> QED BY <2>1, <3>2 DEF EarlyDays
  <2>3. ~ later'[v] => InTime(v)'
    BY <1>4, <2>1, <2>2 DEF InTime, ArrivalPc
  <2> QED BY <1>2, <1>3, <2>1, <2>3, OwnDates
<1>14. CASE Stop(r) \/ ArrivalFails(r)
  <2>1. v \in muddled'
    BY <1>1, <1>14 DEF Stop, ArrivalFails
  <2> QED BY <2>1
<1>15. ~ (SignUpBegin(r) \/ RemoveBegin(r) \/ EditBegin(r))
  BY <1>1 DEF SignUpBegin, RemoveBegin, EditBegin, Begin
<1>16. ~ (\/ ReadPrior(r) \/ UpdateTime(r) \/ ListAssigned(r) \/ NotifyFlip(r)
         \/ NoticeFails(r))
  BY <1>1 DEF ReadPrior, UpdateTime, ListAssigned, NotifyFlip, NoticeFails, At, EditPc
<1> QED BY <1>8, <1>9, <1>10, <1>11, <1>12, <1>13, <1>14, <1>15, <1>16
  DEF Step, SignUp, Remove, Edit, Fail

(* An edit that moves a shift of hers forward unsettles her; any other     *)
(* leaves no early day before those she had.                               *)
LEMMA EditDates ==
    ASSUME TypeOK, TypeOK', NEW v \in Volunteer \ muddled', DatesOK(v),
           NEW r \in Req, UpdateTime(r), Others(r), ~ WorksFor(r, v)'
    PROVE  DatesOK(v)'
<1>1. PICK d \in Known \cup {0} :
          /\ day' = [day EXCEPT ![shift[r]] = d]
          /\ later' = [x \in Volunteer |->
                          later[x] \/ x \in CalledForward(shift[r], d)]
          /\ muddled' = muddled \cup
                          UNION {OverlapFor(x) : x \in CalledForward(shift[r], d)}
  BY DEF UpdateTime
<1>2. UNCHANGED <<row, arrival>> /\ shift[r] \in Shift
  BY DEF UpdateTime, TypeOK, HandlersOK
<1>3. ~ WorksFor(r, v)
  BY SignupAssumption DEF UpdateTime, At, WorksFor, TypeOK, EditPc
<1>4. \A q \in Req : WorksFor(q, v)' <=> WorksFor(q, v)
  BY <1>3 DEF Others, Same, WorksFor
<1>5. CASE v \in CalledForward(shift[r], d)
  <2>1. OverlapFor(v) = {}
    BY <1>1, <1>5 DEF OverlapFor
  <2>2. later'[v] /\ \A q \in Req : ~ WorksFor(q, v)
    BY <1>1, <1>5, <2>1 DEF OverlapFor
  <2> QED BY <1>4, <2>2 DEF DatesOK
<1>6. CASE v \notin CalledForward(shift[r], d)
  <2>1. later'[v] = later[v]
    BY <1>1, <1>6 DEF TypeOK
  <2>2. ASSUME NEW e \in EarlyDays(v)'
        PROVE  \E f \in EarlyDays(v) : f \in Known /\ e \in Known /\ f <= e
    <3>1. PICK s \in Shift : row[v][s] = "in" /\ e = day'[s] /\ e \in 1 .. OpenSun
      BY <1>2, <2>2 DEF EarlyDays
    <3>2. day[s] \in Known \cup {0} /\ e \in Known
      BY <3>1, SignupAssumption DEF TypeOK, RowsOK
    <3>3. CASE s # shift[r]
      <4>1. e = day[s]
        BY <1>1, <3>1, <3>3 DEF TypeOK, RowsOK
      <4>2. e \in EarlyDays(v)
        BY <3>1, <4>1 DEF EarlyDays
      <4> QED BY <3>2, <4>2, SignupAssumption
    <3>4. CASE s = shift[r]
      <4>1. e = d
        BY <1>1, <1>2, <3>1, <3>4 DEF TypeOK, RowsOK
      <4>2. day[s] # 0 /\ ~ (d < day[s])
        BY <1>6, <3>1, <3>4, <4>1 DEF CalledForward
      <4>3. day[s] \in 1 .. OpenSun /\ day[s] \in Known /\ day[s] <= e
        <5>1. day[s] \in Known /\ Known \subseteq Nat \ {0}
          BY <3>2, <4>2, SignupAssumption
        <5>2. day[s] \in Nat \ {0} /\ e \in Nat /\ OpenSun \in Nat
          BY <3>2, <5>1, SignupAssumption
        <5> QED BY <3>1, <4>1, <4>2, <5>1, <5>2
      <4>4. day[s] \in EarlyDays(v)
        BY <3>1, <4>3 DEF EarlyDays
      <4> QED BY <3>2, <4>3, <4>4
    <3> QED BY <3>3, <3>4
  <2>3. InTime(v) => InTime(v)'
    <3> SUFFICES ASSUME InTime(v), NEW e \in EarlyDays(v)'
                 PROVE  arrival[v] \in 1 .. Target(e)
      BY <1>2 DEF InTime
    <3>1. PICK f \in EarlyDays(v) : f \in Known /\ e \in Known /\ f <= e
      BY <2>2
    <3>2. Target(f) <= Target(e) /\ Target(f) \in Nat /\ Target(e) \in Nat
      BY <3>1, TargetMonotone, TargetType, SignupAssumption
    <3> QED BY <3>1, <3>2 DEF InTime
  <2>4. ASSUME NEW x, LowerBound(x, v)
        PROVE  x \in Known /\ \A e \in EarlyDays(v)' : x <= e
    <3> SUFFICES ASSUME NEW e \in EarlyDays(v)' PROVE x <= e
      BY <2>4 DEF LowerBound
    <3>1. PICK f \in EarlyDays(v) : f \in Known /\ e \in Known /\ f <= e
      BY <2>2
    <3> QED BY <2>4, <3>1, SignupAssumption DEF LowerBound
  <2>5. \A q \in Req : WorksFor(q, v) => pc'[q] = pc[q] /\ first'[q] = first[q]
    BY <1>3 DEF Others, Same
  <2>6. \A x : NeedsSet(v, x)' = NeedsSet(v, x)
    BY <1>2 DEF NeedsSet
  <2>7. \A q \in Req : WorksFor(q, v) /\ LowerBound(first[q], v) => LowerBound(first[q], v)'
    BY <2>4, <2>5 DEF LowerBound
  <2> QED BY <1>4, <2>1, <2>3, <2>5, <2>6, <2>7 DEF DatesOK
<1> QED BY <1>5, <1>6

LEMMA DatesStep ==
    ASSUME TypeOK, [Next]_vars, NEW v \in Volunteer \ muddled', v \notin muddled,
           DatesOK(v)
    PROVE  DatesOK(v)'
<1>0. TypeOK'
  BY TypeStep
<1>1. CASE UNCHANGED vars \/ Rest
  BY <1>1 DEF Rest, vars, dates, handler, history, DatesOK, WorksFor, LowerBound,
              EarlyDays, InTime, NeedsSet
<1>2. CASE ChooseArrival
  <2>1. PICK x \in Volunteer, d \in Known :
            /\ arrival' = [arrival EXCEPT ![x] = d]
            /\ later' = [later EXCEPT ![x] = TRUE]
            /\ muddled' = muddled \cup OverlapFor(x)
            /\ UNCHANGED <<row, day, handler>>
    BY <1>2 DEF ChooseArrival
  <2>2. CASE x = v
    <3>1. later'[v] /\ \A q \in Req : ~ WorksFor(q, v)'
      BY <2>1, <2>2 DEF TypeOK, OverlapFor, WorksFor, handler
    <3> QED BY <3>1 DEF DatesOK
  <2>3. CASE x # v
    <3>1. arrival'[v] = arrival[v] /\ later'[v] = later[v]
      BY <2>1, <2>3 DEF TypeOK, RowsOK
    <3> QED BY <2>1, <3>1 DEF DatesOK, WorksFor, LowerBound, EarlyDays, InTime,
                             NeedsSet, handler
  <2> QED BY <2>2, <2>3
<1>3. ASSUME NEW r \in Req, Step(r) PROVE DatesOK(v)'
  <2>1. Others(r) /\ HandlersOK'
    BY <1>3, HandlerStep
  <2>5. CASE UpdateTime(r)
    <3>1. ~ WorksFor(r, v)'
      <4>1. who[r] = Nobody /\ (who'[r] = who[r] \/ who'[r] = Nobody)
        BY <2>5 DEF UpdateTime, At, End, TypeOK, HandlersOK, EditPc
      <4> QED BY <4>1, SignupAssumption DEF WorksFor
    <3> QED BY <1>0, <2>1, <2>5, <3>1, EditDates
  <2>2. CASE ~ WorksFor(r, v) /\ ~ WorksFor(r, v)' /\ ~ UpdateTime(r)
    <3>0. day' = day
      BY <1>3, <2>2, DateStep DEF dates, SetArrival
    <3>1. row'[v] = row[v]
      <4>1. WriteRow(r) \/ RemoveRow(r) => who[r] # v
        BY <2>2 DEF WorksFor, WriteRow, RemoveRow, At
      <4> QED BY <4>1, <1>3, RowStep
    <3>2. arrival'[v] = arrival[v]
      <4>1. SetArrival(r) => who[r] # v
        BY <2>2 DEF WorksFor, SetArrival, At
      <4> QED BY <4>1, <1>3, <2>2, DateStep DEF SetArrival, dates, TypeOK, RowsOK
    <3>3. later'[v] = later[v]
      <4>1. FirstEligible(r) \/ ReadArrival(r) \/ SetArrival(r) => who[r] # v
        BY <2>2 DEF WorksFor, FirstEligible, ReadArrival, SetArrival, At
      <4> QED BY <4>1, <1>3, <2>2
        DEF Step, SignUp, Remove, Edit, Fail, SignUpBegin, CheckCanceled, FindRow,
            WriteRow, DuplicateRow, FirstEligible, ReadArrival, SetArrival,
            NotifyAssignment, RemoveBegin, RemoveRow, NotifyRemoval, EditBegin,
            ReadPrior, ListAssigned, NotifyFlip, Stop, ArrivalFails,
            NoticeFails, history, TypeOK
    <3> QED BY <1>0, <2>1, <2>2, <3>0, <3>1, <3>2, <3>3, OtherDates
  <2>3. CASE WorksFor(r, v)
    BY <1>3, <2>3, OwnDatesStep
  <2>4. CASE ~ WorksFor(r, v) /\ WorksFor(r, v)'
    <3>1. SignUpBegin(r) \/ RemoveBegin(r)
      <4>1. ~ EditBegin(r)
        BY <2>4, SignupAssumption DEF EditBegin, Begin, WorksFor, TypeOK, HandlersOK
      <4>2. ~ End(r)
        BY <2>4, EndType DEF WorksFor, TypeOK
      <4> QED BY <1>3, <2>4, <4>1, <4>2, KeepsTarget DEF WorksFor
    <3>2. PICK x \in Volunteer, s \in Shift, l \in {"check", "remove"} :
              Begin(r, x, s, l) /\ muddled' = muddled \cup OverlapFor(x)
      BY <3>1 DEF SignUpBegin, RemoveBegin
    <3>3. x = v /\ pc'[r] = l
      BY <2>4, <3>2 DEF Begin, Goto, WorksFor, TypeOK, HandlersOK
    <3>4. \A q \in Req : ~ WorksFor(q, v)
      BY <3>2, <3>3 DEF OverlapFor
    <3>5. UNCHANGED <<row, day, arrival, later>>
      BY <3>1 DEF SignUpBegin, RemoveBegin, dates
    <3>6. ~ later'[v] => InTime(v)'
      BY <3>4, <3>5 DEF DatesOK, InTime, EarlyDays
    <3> QED BY <2>1, <3>3, <3>4, <3>6, OwnDates DEF ArrivalPc
  <2> QED BY <2>2, <2>3, <2>4, <2>5
<1> QED BY <1>1, <1>2, <1>3 DEF Next, Step

DatesInv == TypeOK /\ \A v \in Volunteer \ muddled : DatesOK(v)

LEMMA MuddledGrows ==
    ASSUME [Next]_vars
    PROVE  muddled \subseteq muddled'
<1>1. CASE UNCHANGED vars \/ Rest \/ ChooseArrival
  BY <1>1 DEF Rest, vars, history, ChooseArrival
<1>2. ASSUME NEW r \in Req, Step(r) PROVE muddled \subseteq muddled'
  BY <1>2
  DEF Step, SignUp, Remove, Edit, Fail, SignUpBegin, CheckCanceled, FindRow,
      WriteRow, DuplicateRow, FirstEligible, ReadArrival, SetArrival,
      NotifyAssignment, RemoveBegin, RemoveRow, NotifyRemoval, EditBegin,
      ReadPrior, UpdateTime, ListAssigned, NotifyFlip, Stop, ArrivalFails,
      NoticeFails, history
<1> QED BY <1>1, <1>2 DEF Next, Step

LEMMA DatesHold == Spec => []DatesInv
<1>1. Init => DatesInv
  <2> SUFFICES ASSUME Init PROVE DatesInv
    OBVIOUS
  <2>1. ASSUME NEW v \in Volunteer PROVE DatesOK(v)
    BY DEF Init, DatesOK, WorksFor, InTime, EarlyDays
  <2> QED BY <2>1, InitTypeOK DEF DatesInv
<1>2. DatesInv /\ [Next]_vars => DatesInv'
  BY TypeStep, DatesStep, MuddledGrows DEF DatesInv
<1> QED BY <1>1, <1>2, PTL DEF Spec

(* A volunteer whose last word was a sign-up arrives in time for every     *)
(* early shift she is on, as long as her requests come one after the       *)
(* other and no edit has since moved a shift of hers forward.              *)
THEOREM EverybodyInTime == Spec => []ArrivalInTime
<1>1. DatesInv => ArrivalInTime
  BY DEF DatesInv, DatesOK, ArrivalInTime
<1> QED BY <1>1, DatesHold, PTL

(* Setting the arrival only brings it forward, on the same condition: an   *)
(* earlier date the volunteer chose herself stays.                         *)
THEOREM ChosenDateKept == Spec => NeverPostponed
<1>1. ASSUME DatesInv, [Next]_vars, NEW v \in Volunteer \ muddled,
             auto'[v], arrival'[v] # arrival[v]
      PROVE  arrival[v] = 0 \/ arrival'[v] < arrival[v]
  <2>1. CASE UNCHANGED vars \/ Rest
    BY <1>1, <2>1 DEF Rest, vars, dates
  <2>2. CASE ChooseArrival
    BY <1>1, <2>2 DEF ChooseArrival, DatesInv, TypeOK, RowsOK
  <2>3. ASSUME NEW r \in Req, Step(r)
        PROVE  arrival[v] = 0 \/ arrival'[v] < arrival[v]
    <3>1. SetArrival(r)
      BY <1>1, <2>3, DateStep DEF dates, UpdateTime
    <3>2. who[r] = v /\ arrival'[v] = Target(first[r])
      BY <1>1, <3>1 DEF SetArrival, DatesInv, TypeOK, RowsOK
    <3>3. NeedsSet(v, Target(first[r]))
      BY <1>1, <3>1, <3>2 DEF SetArrival, At, DatesInv, DatesOK, WorksFor
    <3> QED BY <1>1, <3>2, <3>3 DEF NeedsSet
  <2> QED BY <1>1, <2>1, <2>2, <2>3 DEF Next, Step
<1>2. DatesInv /\ [Next]_vars =>
        [\A v \in Volunteer \ muddled :
           auto'[v] /\ arrival'[v] # arrival[v] =>
               arrival[v] = 0 \/ arrival'[v] < arrival[v]]_vars
  BY <1>1
<1> QED BY <1>2, DatesHold, PTL DEF Spec, NeverPostponed

-----------------------------------------------------------------------------
(* Requests and edits about one volunteer and one shift, one after the     *)
(* other, and the last notice.                                             *)

LEMMA TellAt ==
    ASSUME TypeOK, NEW x \in Volunteer, NEW y \in Shift, NEW n, Tell(x, y, n),
           NEW v \in Volunteer, NEW s \in Shift
    PROVE  told'[v][s] = IF v = x /\ s = y THEN n ELSE told[v][s]
BY DEF Tell, TypeOK, RowsOK

LEMMA OtherPair ==
    ASSUME NEW v \in Volunteer, NEW s \in Shift, NEW r \in Req, PairOK(v, s),
           Others(r), ~ Touches(r, v, s), ~ Touches(r, v, s)',
           row'[v][s] = row[v][s], canceled'[s] = canceled[s],
           told'[v][s] = told[v][s]
    PROVE  PairOK(v, s)'
<1>1. Agree(v, s)' <=> Agree(v, s)
  BY DEF Agree, Good
<1>2. Good(v, s)' <=> Good(v, s)
  BY DEF Good
<1>3. \A q \in Req : Touches(q, v, s)' <=> Touches(q, v, s)
  BY DEF Others, Same, Touches
<1>4. \A q \in Req : Touches(q, v, s) => (StageOK(q, v, s)' <=> StageOK(q, v, s))
  <2> SUFFICES ASSUME NEW q \in Req, Touches(q, v, s)
               PROVE  StageOK(q, v, s)' <=> StageOK(q, v, s)
    OBVIOUS
  <2>1. Same(q)
    BY DEF Others
  <2> QED BY <2>1, <1>1, <1>2 DEF Same, StageOK
<1> QED BY <1>1, <1>3, <1>4 DEF PairOK

LEMMA OwnPair ==
    ASSUME NEW v \in Volunteer, NEW s \in Shift, NEW r \in Req, Others(r),
           \A q \in Req \ {r} : ~ Touches(q, v, s),
           pc'[r] # "idle" => StageOK(r, v, s)',
           pc'[r] = "idle" \/ ~ Touches(r, v, s)' => Agree(v, s)'
    PROVE  PairOK(v, s)'
<1>1. \A q \in Req \ {r} : ~ Touches(q, v, s)'
  BY DEF Others, Same, Touches
<1> QED BY <1>1 DEF PairOK, Touches

(* The notices and the flags after a step.                                 *)
LEMMA ToldStep ==
    ASSUME TypeOK, NEW r \in Req, Step(r), NEW v \in Volunteer, NEW s \in Shift,
           ~ Touches(r, v, s)
    PROVE  told'[v][s] = told[v][s] /\ canceled'[s] = canceled[s]
<1>1. CASE NotifyAssignment(r) \/ NotifyRemoval(r)
  <2>1. who[r] \in Volunteer /\ shift[r] \in Shift /\ ~ (who[r] = v /\ shift[r] = s)
    BY <1>1 DEF NotifyAssignment, NotifyRemoval, At, TypeOK, HandlersOK, PersonPc, Touches
  <2>2. UNCHANGED told \/ \E n \in Notice : Tell(who[r], shift[r], n)
    BY <1>1 DEF NotifyAssignment, NotifyRemoval, Notice
  <2>3. UNCHANGED canceled
    BY <1>1 DEF NotifyAssignment, NotifyRemoval
  <2> QED BY <2>1, <2>2, <2>3, TellAt
<1>2. CASE NotifyFlip(r)
  <2>1. shift[r] \in Shift /\ shift[r] # s /\ list[r] \subseteq Volunteer
    BY <1>2 DEF NotifyFlip, At, TypeOK, HandlersOK, EditPc, Touches
  <2>2. PICK x \in list[r], n \in Notice : Tell(x, shift[r], n)
    BY <1>2 DEF NotifyFlip, Notice
  <2>3. UNCHANGED canceled
    BY <1>2 DEF NotifyFlip
  <2> QED BY <2>1, <2>2, <2>3, TellAt
<1>3. CASE UpdateTime(r)
  <2>1. shift[r] # s
    BY <1>3 DEF UpdateTime, At, TypeOK, EditPc, Touches
  <2> QED BY <1>3, <2>1 DEF UpdateTime, TypeOK, RowsOK
<1>4. CASE UNCHANGED <<told, canceled>>
  BY <1>4
<1> QED BY <1>1, <1>2, <1>3, <1>4
  DEF Step, SignUp, Remove, Edit, Fail, SignUpBegin, CheckCanceled, FindRow,
      WriteRow, DuplicateRow, FirstEligible, ReadArrival, SetArrival,
      RemoveBegin, RemoveRow, EditBegin, ReadPrior, ListAssigned, Stop,
      ArrivalFails, NoticeFails

(* A request about the pair begins: no other touches it.                   *)
LEMMA BeginPair ==
    ASSUME TypeOK, NEW v \in Volunteer, NEW s \in Shift, <<v, s>> \notin blurred',
           PairOK(v, s), NEW r \in Req, Step(r), ~ Touches(r, v, s), Touches(r, v, s)'
    PROVE  PairOK(v, s)'
<1>0. Others(r)
  BY HandlerStep
<1>1. ~ End(r)
  BY EndType DEF Touches, TypeOK
<1>2. pc[r] = "idle" /\ (SignUpBegin(r) \/ RemoveBegin(r) \/ EditBegin(r))
  <2>1. pc[r] # "idle" /\ UNCHANGED <<who, shift>> => FALSE
    BY DEF Touches
  <2> QED BY <1>1, <2>1, KeepsTarget
<1>3. PICK x \in Volunteer \cup {Nobody}, l \in {"check", "remove", "prior"} :
        /\ Begin(r, x, s, l)
        /\ x \in {v, Nobody}
        /\ blurred' = blurred \cup Overlapping(IF x = Nobody THEN Volunteer ELSE {v}, s)
  <2>1. CASE SignUpBegin(r) \/ RemoveBegin(r)
    <3>1. PICK x \in Volunteer, y \in Shift, l \in {"check", "remove"} :
            Begin(r, x, y, l) /\ blurred' = blurred \cup Overlapping({x}, y)
      BY <2>1 DEF SignUpBegin, RemoveBegin
    <3>2. x = v /\ y = s /\ x # Nobody
      BY <3>1, SignupAssumption DEF Begin, Touches, TypeOK, HandlersOK
    <3> QED BY <3>1, <3>2
  <2>2. CASE EditBegin(r)
    <3>1. PICK y \in Shift :
            Begin(r, Nobody, y, "prior") /\ blurred' = blurred \cup Overlapping(Volunteer, y)
      BY <2>2 DEF EditBegin
    <3>2. y = s
      BY <3>1 DEF Begin, Touches, TypeOK, HandlersOK
    <3> QED BY <3>1, <3>2
  <2> QED BY <1>2, <2>1, <2>2
<1>4. \A q \in Req : ~ Touches(q, v, s)
  <2>1. <<v, s>> \notin Overlapping(IF x = Nobody THEN Volunteer ELSE {v}, s)
    BY <1>3
  <2> QED BY <2>1 DEF Overlapping
<1>5. Agree(v, s)
  BY <1>4 DEF PairOK
<1>6. UNCHANGED <<row, canceled, told>>
  BY <1>2 DEF SignUpBegin, RemoveBegin, EditBegin
<1>7. Agree(v, s)'
  BY <1>5, <1>6 DEF Agree, Good
<1>8. pc'[r] \in {"check", "remove", "prior"}
  BY <1>3 DEF Begin, Goto, TypeOK, HandlersOK
<1>9. StageOK(r, v, s)'
  BY <1>7, <1>8 DEF StageOK, ArrivalPc
<1> QED BY <1>0, <1>4, <1>7, <1>9, OwnPair

(* The steps of a sign-up or a removal that touches the pair.              *)
LEMMA PersonPair ==
    ASSUME TypeOK, NEW v \in Volunteer, NEW s \in Shift, <<v, s>> \notin blurred',
           PairOK(v, s), NEW r \in Req, Step(r), Touches(r, v, s), pc[r] \in PersonPc
    PROVE  PairOK(v, s)'
<1>1. who[r] = v /\ shift[r] = s /\ pc[r] # "idle" /\ StageOK(r, v, s)
  BY SignupAssumption DEF Touches, PairOK, TypeOK
<1>2. \A q \in Req \ {r} : ~ Touches(q, v, s)
  BY DEF PairOK
<1>3. Others(r) /\ HandlersOK'
  BY HandlerStep
<1>4. /\ row[v][s] \in {"none", "in", "out"} /\ canceled[s] \in BOOLEAN
      /\ pc \in [Req -> Pc]
  BY DEF TypeOK, RowsOK, HandlersOK
(* It ends, and the tables agree.                                          *)
<1>5. ASSUME End(r), Agree(v, s)' PROVE PairOK(v, s)'
  BY <1>2, <1>3, <1>5, EndType, OwnPair DEF TypeOK
(* It goes on.                                                             *)
<1>6. ASSUME UNCHANGED <<who, shift>>, pc'[r] \in PersonPc, StageOK(r, v, s)'
      PROVE  PairOK(v, s)'
  <2>1. Touches(r, v, s)' /\ pc'[r] # "idle"
    BY <1>1, <1>6 DEF Touches, PersonPc, ArrivalPc
  <2> QED BY <1>2, <1>3, <1>6, <2>1, OwnPair
<1>7. CASE CheckCanceled(r)
  <2>1. Agree(v, s) /\ UNCHANGED <<row, canceled, told>>
    BY <1>1, <1>7 DEF CheckCanceled, At, StageOK
  <2>2. Agree(v, s)'
    BY <2>1 DEF Agree, Good
  <2>3. CASE canceled[s]
    BY <1>1, <1>5, <1>7, <2>2, <2>3 DEF CheckCanceled
  <2>4. CASE ~ canceled[s]
    <3>1. pc'[r] = "find" /\ UNCHANGED <<who, shift>>
      BY <1>1, <1>4, <1>7, <2>4 DEF CheckCanceled, Goto
    <3>2. StageOK(r, v, s)'
      BY <2>1, <2>2, <2>4, <3>1 DEF StageOK, ArrivalPc
    <3> QED BY <1>6, <2>1, <3>1, <3>2 DEF PersonPc
  <2> QED BY <2>3, <2>4
<1>8. CASE FindRow(r)
  <2>1. Agree(v, s) /\ ~ canceled[s] /\ UNCHANGED <<row, canceled, told, who, shift>>
    BY <1>1, <1>8 DEF FindRow, At, StageOK
  <2>2. Agree(v, s)' /\ pc'[r] = "write"
    BY <1>4, <1>8, <2>1 DEF Agree, Good, FindRow, Goto
  <2>3. StageOK(r, v, s)'
    BY <2>1, <2>2 DEF StageOK, ArrivalPc
  <2> QED BY <1>6, <2>1, <2>2, <2>3 DEF PersonPc
<1>9. CASE WriteRow(r)
  <2>1. ~ canceled[s] /\ UNCHANGED <<canceled, told, who, shift>>
    BY <1>1, <1>9 DEF WriteRow, At, StageOK
  <2>2. row'[v][s] = "in" /\ pc'[r] = "eligible"
    <3>1. pc'[r] = "eligible"
      BY <1>4, <1>9 DEF WriteRow, Goto
    <3>2. Writes(r, v, s)
      BY <1>1, <1>9 DEF Writes
    <3> QED BY <3>1, <3>2, RowStep
  <2>3. StageOK(r, v, s)' /\ Touches(r, v, s)'
    BY <1>1, <2>1, <2>2 DEF StageOK, ArrivalPc, Touches
  <2> QED BY <1>2, <1>3, <2>2, <2>3, OwnPair
<1>10. CASE DuplicateRow(r)
  <2>1. Agree(v, s) /\ UNCHANGED <<row, canceled, told>> /\ End(r)
    BY <1>1, <1>10 DEF DuplicateRow, At, StageOK
  <2> QED BY <1>5, <2>1 DEF Agree, Good
<1>11. CASE FirstEligible(r) \/ ReadArrival(r) \/ SetArrival(r) \/ ArrivalFails(r)
  <2>1. UNCHANGED <<row, canceled, told, who, shift>> /\ pc[r] \in ArrivalPc
    BY <1>11 DEF FirstEligible, ReadArrival, SetArrival, ArrivalFails, At, ArrivalPc
  <2>2. row[v][s] = "in" /\ ~ canceled[s]
    BY <1>1, <2>1 DEF StageOK
  <2>3. pc'[r] \in {"arrival", "set", "assigned"}
    BY <1>4, <1>11 DEF FirstEligible, ReadArrival, SetArrival, ArrivalFails, Goto
  <2>4. StageOK(r, v, s)'
    BY <2>1, <2>2, <2>3 DEF StageOK, ArrivalPc
  <2> QED BY <1>6, <2>1, <2>3, <2>4 DEF PersonPc, ArrivalPc
<1>12. CASE NotifyAssignment(r)
  <2>1. row[v][s] = "in" /\ ~ canceled[s] /\ UNCHANGED <<row, canceled>> /\ End(r)
    BY <1>1, <1>12 DEF NotifyAssignment, At, StageOK
  <2>2. told'[v][s] = "assigned"
    BY <1>1, <1>12, TellAt DEF NotifyAssignment
  <2> QED BY <1>5, <2>1, <2>2 DEF Agree, Good
<1>13. CASE RemoveRow(r)
  <2>1. Agree(v, s) /\ UNCHANGED <<canceled, told, who, shift>> /\ pc[r] = "remove"
    BY <1>1, <1>13 DEF RemoveRow, At, StageOK
  <2>2. row'[v][s] # "in" /\ (row'[v][s] = "none" => row[v][s] = "none")
    <3>1. ~ Writes(r, v, s)
      BY <2>1 DEF Writes, WriteRow, At
    <3>2. Removes(r, v, s) <=> row[v][s] = "in"
      BY <1>1, <1>13 DEF Removes
    <3> QED BY <3>1, <3>2, RowStep
  <2>3. pc'[r] = "removed"
    BY <1>4, <1>13 DEF RemoveRow, Goto
  <2>4. row'[v][s] = "none" => ~ Good(v, s)'
    BY <2>1, <2>2 DEF Agree, Good
  <2>5. StageOK(r, v, s)' /\ Touches(r, v, s)'
    BY <1>1, <2>1, <2>2, <2>3, <2>4 DEF StageOK, ArrivalPc, Touches
  <2> QED BY <1>2, <1>3, <2>3, <2>5, OwnPair
<1>14. CASE NotifyRemoval(r)
  <2>1. /\ row[v][s] # "in" /\ (row[v][s] = "none" => ~ Good(v, s))
        /\ UNCHANGED <<row, canceled>> /\ End(r)
    BY <1>1, <1>14 DEF NotifyRemoval, At, StageOK
  <2>2. told'[v][s] = IF row[v][s] # "none" THEN "removed" ELSE told[v][s]
    BY <1>1, <1>14, TellAt DEF NotifyRemoval
  <2> QED BY <1>5, <2>1, <2>2 DEF Agree, Good
<1>15. CASE Stop(r)
  BY <1>15 DEF Stop
<1>16. ~ (SignUpBegin(r) \/ RemoveBegin(r) \/ EditBegin(r))
  BY <1>1 DEF SignUpBegin, RemoveBegin, EditBegin, Begin
<1>17. ~ (\/ ReadPrior(r) \/ UpdateTime(r) \/ ListAssigned(r) \/ NotifyFlip(r)
          \/ NoticeFails(r))
  BY DEF ReadPrior, UpdateTime, ListAssigned, NotifyFlip, NoticeFails, At,
         PersonPc, ArrivalPc
<1> QED BY <1>7, <1>8, <1>9, <1>10, <1>11, <1>12, <1>13, <1>14, <1>15, <1>16, <1>17
  DEF Step, SignUp, Remove, Edit, Fail

(* The steps of an edit of the shift.                                      *)
LEMMA EditPair ==
    ASSUME TypeOK, NEW v \in Volunteer, NEW s \in Shift, <<v, s>> \notin blurred',
           PairOK(v, s), NEW r \in Req, Step(r), Touches(r, v, s), pc[r] \in EditPc
    PROVE  PairOK(v, s)'
<1>1. shift[r] = s /\ pc[r] # "idle" /\ StageOK(r, v, s)
  BY DEF Touches, PairOK
<1>2. \A q \in Req \ {r} : ~ Touches(q, v, s)
  BY DEF PairOK
<1>3. Others(r) /\ HandlersOK'
  BY HandlerStep
<1>4. /\ row[v][s] \in {"none", "in", "out"} /\ canceled \in [Shift -> BOOLEAN]
      /\ pc \in [Req -> Pc] /\ want \in [Req -> BOOLEAN] /\ seen \in [Req -> BOOLEAN]
      /\ list \in [Req -> SUBSET Volunteer]
  BY DEF TypeOK, RowsOK, HandlersOK
<1>5. ASSUME End(r), Agree(v, s)' PROVE PairOK(v, s)'
  BY <1>2, <1>3, <1>5, EndType, OwnPair DEF TypeOK
<1>6. ASSUME UNCHANGED <<who, shift>>, pc'[r] \in EditPc, StageOK(r, v, s)'
      PROVE  PairOK(v, s)'
  <2>1. Touches(r, v, s)' /\ pc'[r] # "idle"
    BY <1>1, <1>6 DEF Touches, EditPc
  <2> QED BY <1>2, <1>3, <1>6, <2>1, OwnPair
<1>7. CASE ReadPrior(r)
  <2>1. Agree(v, s) /\ UNCHANGED <<row, canceled, told, who, shift>>
    BY <1>1, <1>7 DEF ReadPrior, At, StageOK
  <2>2. Agree(v, s)' /\ pc'[r] = "update" /\ seen'[r] = canceled'[s]
    BY <1>1, <1>4, <1>7, <2>1 DEF Agree, Good, ReadPrior, Goto
  <2>3. StageOK(r, v, s)'
    BY <2>2 DEF StageOK, ArrivalPc
  <2> QED BY <1>6, <2>1, <2>2, <2>3 DEF EditPc
<1>8. CASE UpdateTime(r)
  <2>1. Agree(v, s) /\ seen[r] = canceled[s] /\ UNCHANGED <<row, told>>
    BY <1>1, <1>8 DEF UpdateTime, At, StageOK
  <2>2. canceled'[s] = want[r]
    BY <1>1, <1>4, <1>8 DEF UpdateTime
  <2>3. CASE seen[r] = want[r]
    <3>1. Agree(v, s)'
      BY <2>1, <2>2, <2>3 DEF Agree, Good
    <3> QED BY <1>5, <1>8, <2>3, <3>1 DEF UpdateTime
  <2>4. CASE seen[r] # want[r]
    <3>1. pc'[r] = "list" /\ UNCHANGED <<who, shift, want, seen>>
      BY <1>4, <1>8, <2>4 DEF UpdateTime, Goto
    <3>2. (row'[v][s] = "in" /\ want'[r]) <=> Good(v, s)'
      <4>1. canceled[s] <=> ~ want[r]
        BY <1>4, <2>1, <2>4
      <4> QED BY <2>1, <3>1, <4>1 DEF Agree, Good
    <3>3. StageOK(r, v, s)'
      BY <2>2, <3>1, <3>2 DEF StageOK, ArrivalPc
    <3> QED BY <1>6, <3>1, <3>3 DEF EditPc
  <2> QED BY <2>3, <2>4
<1>9. CASE ListAssigned(r)
  <2> DEFINE on == {x \in Volunteer : row[x][shift[r]] = "in"}
  <2>1. /\ canceled[s] = want[r] /\ ((row[v][s] = "in" /\ want[r]) <=> Good(v, s))
        /\ UNCHANGED <<row, canceled, told>>
    BY <1>1, <1>9 DEF ListAssigned, At, StageOK
  <2>2. v \in on <=> row[v][s] = "in"
    BY <1>1
  <2>3. v \notin on => Agree(v, s)'
    BY <2>1, <2>2 DEF Agree, Good
  <2>4. CASE on = {}
    BY <1>5, <1>9, <2>3, <2>4 DEF ListAssigned
  <2>5. CASE on # {}
    <3>1. pc'[r] = "fan" /\ list'[r] = on /\ UNCHANGED <<who, shift, want>>
      BY <1>4, <1>9, <2>5 DEF ListAssigned, Goto
    <3>2. StageOK(r, v, s)'
      BY <2>1, <2>2, <2>3, <3>1 DEF StageOK, ArrivalPc
    <3> QED BY <1>6, <3>1, <3>2 DEF EditPc
  <2> QED BY <2>4, <2>5
<1>10. CASE NotifyFlip(r) \/ NoticeFails(r)
  <2>1. /\ pc[r] = "fan" /\ canceled[s] = want[r]
        /\ (v \in list[r] => row[v][s] = "in")
        /\ (v \notin list[r] => Agree(v, s))
        /\ UNCHANGED <<row, canceled>>
    BY <1>1, <1>10 DEF NotifyFlip, NoticeFails, At, StageOK
  <2>2. PICK x \in list[r] :
          /\ NextOf(r, x)
          /\ IF x = v
             THEN told'[v][s] = IF want[r] THEN "canceled" ELSE "restored"
             ELSE told'[v][s] = told[v][s]
    <3>1. CASE NotifyFlip(r)
      <4>1. PICK x \in list[r] :
              /\ Tell(x, s, IF want[r] THEN "canceled" ELSE "restored")
              /\ NextOf(r, x)
        BY <1>1, <3>1 DEF NotifyFlip
      <4>2. x \in Volunteer
        BY <1>4
      <4> QED BY <4>1, <4>2, TellAt
    <3>2. CASE NoticeFails(r)
      BY <1>1, <3>2 DEF NoticeFails
    <3> QED BY <1>10, <3>1, <3>2
  <2>3. x = v => Agree(v, s)'
    BY <2>1, <2>2 DEF Agree, Good
  <2>4. v \notin list[r] => Agree(v, s)'
    BY <2>1, <2>2 DEF Agree, Good
  <2>5. CASE list[r] = {x}
    BY <1>5, <2>2, <2>3, <2>4, <2>5 DEF NextOf
  <2>6. CASE list[r] # {x}
    <3>1. pc'[r] = "fan" /\ list'[r] = list[r] \ {x} /\ UNCHANGED <<who, shift, want>>
      BY <1>4, <2>1, <2>2, <2>6 DEF NextOf
    <3>2. StageOK(r, v, s)'
      BY <2>1, <2>3, <2>4, <3>1 DEF StageOK, ArrivalPc
    <3> QED BY <1>6, <3>1, <3>2 DEF EditPc
  <2> QED BY <2>5, <2>6
<1>11. CASE Stop(r)
  BY <1>11 DEF Stop
<1>12. ~ (SignUpBegin(r) \/ RemoveBegin(r) \/ EditBegin(r))
  BY <1>1 DEF SignUpBegin, RemoveBegin, EditBegin, Begin
<1>13. ~ (\/ CheckCanceled(r) \/ FindRow(r) \/ WriteRow(r) \/ DuplicateRow(r)
          \/ FirstEligible(r) \/ ReadArrival(r) \/ SetArrival(r)
          \/ NotifyAssignment(r) \/ RemoveRow(r) \/ NotifyRemoval(r)
          \/ ArrivalFails(r))
  BY DEF CheckCanceled, FindRow, WriteRow, DuplicateRow, FirstEligible,
         ReadArrival, SetArrival, NotifyAssignment, RemoveRow, NotifyRemoval,
         ArrivalFails, ArrivalPc, At, EditPc
<1> QED BY <1>7, <1>8, <1>9, <1>10, <1>11, <1>12, <1>13
  DEF Step, SignUp, Remove, Edit, Fail

PairsInv ==
    /\ TypeOK
    /\ \A v \in Volunteer, s \in Shift : <<v, s>> \notin blurred => PairOK(v, s)

LEMMA BlurredGrows ==
    ASSUME [Next]_vars
    PROVE  blurred \subseteq blurred'
<1>1. CASE UNCHANGED vars \/ Rest \/ ChooseArrival
  BY <1>1 DEF Rest, vars, history, ChooseArrival
<1>2. ASSUME NEW r \in Req, Step(r) PROVE blurred \subseteq blurred'
  BY <1>2
  DEF Step, SignUp, Remove, Edit, Fail, SignUpBegin, CheckCanceled, FindRow,
      WriteRow, DuplicateRow, FirstEligible, ReadArrival, SetArrival,
      NotifyAssignment, RemoveBegin, RemoveRow, NotifyRemoval, EditBegin,
      ReadPrior, UpdateTime, ListAssigned, NotifyFlip, Stop, ArrivalFails,
      NoticeFails, history
<1> QED BY <1>1, <1>2 DEF Next, Step

LEMMA PairStep ==
    ASSUME TypeOK, [Next]_vars, NEW v \in Volunteer, NEW s \in Shift,
           <<v, s>> \notin blurred', PairOK(v, s)
    PROVE  PairOK(v, s)'
<1>1. CASE UNCHANGED vars \/ Rest \/ ChooseArrival
  <2>1. UNCHANGED <<row, canceled, told, handler>>
    BY <1>1 DEF Rest, vars, ChooseArrival
  <2> QED BY <2>1 DEF handler, PairOK, StageOK, Agree, Good, Touches
<1>2. ASSUME NEW r \in Req, Step(r) PROVE PairOK(v, s)'
  <2>1. CASE Touches(r, v, s)
    <3>1. pc[r] \in PersonPc \cup EditPc
      BY <2>1 DEF Touches, TypeOK, HandlersOK, Pc
    <3> QED BY <1>2, <2>1, <3>1, PersonPair, EditPair
  <2>2. CASE ~ Touches(r, v, s) /\ Touches(r, v, s)'
    BY <1>2, <2>2, BeginPair
  <2>3. CASE ~ Touches(r, v, s) /\ ~ Touches(r, v, s)'
    <3>1. row'[v][s] = row[v][s]
      <4>1. ~ Writes(r, v, s) /\ ~ Removes(r, v, s)
        BY <2>3 DEF Writes, Removes, WriteRow, RemoveRow, At, Touches
      <4> QED BY <1>2, <4>1, RowStep
    <3> QED BY <1>2, <2>3, <3>1, ToldStep, HandlerStep, OtherPair
  <2> QED BY <2>1, <2>2, <2>3
<1> QED BY <1>1, <1>2 DEF Next, Step

(* The last notice is right about whether a volunteer works, whatever the  *)
(* number of sign-ups, removals, cancellations and restorations and        *)
(* whatever failed for others, as long as what concerns her and the shift  *)
(* comes one after the other.                                              *)
THEOREM NoticesRight == Spec => []NoticesAgree
<1>1. Init => PairsInv
  <2> SUFFICES ASSUME Init PROVE PairsInv
    OBVIOUS
  <2>1. ASSUME NEW v \in Volunteer, NEW s \in Shift PROVE PairOK(v, s)
    BY DEF Init, PairOK, Touches, Agree, Good
  <2> QED BY <2>1, InitTypeOK DEF PairsInv
<1>2. PairsInv /\ [Next]_vars => PairsInv'
  BY TypeStep, PairStep, BlurredGrows DEF PairsInv
<1>3. PairsInv => NoticesAgree
  BY DEF PairsInv, PairOK, NoticesAgree
<1> QED BY <1>1, <1>2, <1>3, PTL DEF Spec

-----------------------------------------------------------------------------
(* Calendar: what the inductive invariant says.                            *)

(* A mail has been copied if it is delivered, and only if it was enqueued. *)
MailTypeOK ==
    /\ fate \in [Mail -> {"absent", "pending", "delivered", "refused"}]
    /\ copies \in [Mail -> Nat]
    /\ \A m \in Mail : /\ fate[m] = "absent" => copies[m] = 0
                       /\ fate[m] = "delivered" => copies[m] # 0

CalTypeOK ==
    /\ TypeOK /\ MailTypeOK
    /\ event \in [Pair -> [seq : {-1, 0, 1, 2}, shown : BOOLEAN]]
    /\ due \subseteq Pair

(* The calendar holds the event of the mail with the greatest SEQUENCE     *)
(* among those that came, if any did.                                      *)
Arrived(p, k) == \E n \in 1 .. MaxCopies : copies[<<p, k, n>>] # 0

EventOK(p) ==
    /\ \A k \in Kind : Arrived(p, k) => Sequence(k) <= event[p].seq
    /\ event[p].seq = -1 => ~ event[p].shown
    /\ event[p].seq # -1 => \E k \in Kind : /\ Arrived(p, k)
                                            /\ Sequence(k) = event[p].seq
                                            /\ event[p].shown = Publishes(k)

(* No mail about the pair was refused.                                     *)
MailsOK(p) == \A k \in Kind, n \in 1 .. MaxCopies : fate[<<p, k, n>>] # "refused"

(* Some notice of the kind has been enqueued.                              *)
Posted(p, k) == \E n \in 1 .. MaxCopies : fate[<<p, k, n>>] # "absent"

(* Handler r has written the row and has still to say so.                  *)
Assigning(r, v, s) == who[r] = v /\ shift[r] = s /\ pc[r] \in ArrivalPc \cup {"assigned"}
Removing(r, v, s)  == who[r] = v /\ shift[r] = s /\ pc[r] = "removed"

(* Handler r has changed the flag of s and tells those on it; v is one of  *)
(* them, if she is on it when the handler lists them.                      *)
Informs(r, s)    == shift[r] = s /\ pc[r] \in {"list", "fan"}
Listed(r, v, s)  == shift[r] = s /\ pc[r] = "fan" /\ v \in list[r]
Telling(r, v, s) == Informs(r, s) /\ (pc[r] = "list" \/ v \in list[r])

(* What a handler under way for the pair may rely on.                      *)
HandlerOK(r, v, s) ==
    /\ Assigning(r, v, s) => row[v][s] # "none"
    /\ Removing(r, v, s) => row[v][s] # "in"
    /\ Listed(r, v, s) => row[v][s] # "none"
    /\ Listed(r, v, s) /\ ~ want[r] => row[v][s] = "in"
    /\ Informs(r, s) /\ want[r] => canceled[s] \/ s \in restored
    /\ Informs(r, s) /\ ~ want[r] => s \in restored

(* What a notice that was enqueued says of the tables.                     *)
PostsOK(v, s) ==
    /\ row[v][s] = "none" => \A k \in Kind : ~ Posted(<<v, s>>, k)
    /\ <<v, s>> \in due => row[v][s] # "none"
    /\ s \in restored => ~ canceled[s]
    /\ Posted(<<v, s>>, "restored") => s \in restored /\ row[v][s] = "in"
    /\ Posted(<<v, s>>, "removed") =>
           canceled[s] \/ s \in restored \/ row[v][s] = "out"

(* What the tables owe: a notice that was enqueued, or one a handler is    *)
(* about to enqueue.                                                       *)
OwesRemoval(v, s) ==
    \/ Posted(<<v, s>>, "removed")
    \/ \E r \in Req : Telling(r, v, s) /\ want[r]

DebtsOK(v, s) ==
    /\ row[v][s] # "none" =>
           Posted(<<v, s>>, "assigned") \/ \E r \in Req : Assigning(r, v, s)
    /\ row[v][s] = "out" =>
           Posted(<<v, s>>, "removed") \/ \E r \in Req : Removing(r, v, s)
    /\ row[v][s] = "in" /\ canceled[s] => OwesRemoval(v, s)
    /\ s \in restored /\ row[v][s] = "in" /\ OwesRemoval(v, s) =>
           \/ Posted(<<v, s>>, "restored")
           \/ \E r \in Req : Telling(r, v, s) /\ ~ want[r]

PairCal(v, s) ==
    /\ \A r \in Req : HandlerOK(r, v, s)
    /\ PostsOK(v, s) /\ DebtsOK(v, s)

CalInv ==
    /\ CalTypeOK
    /\ \A p \in Pair : EventOK(p)
    /\ \A v \in Volunteer, s \in Shift :
          <<v, s>> \notin spoiled => PairCal(v, s) /\ MailsOK(<<v, s>>)

-----------------------------------------------------------------------------
(* Mails.                                                                  *)

(* enqueueEmail takes a mail that was not there.                           *)
LEMMA PostTakes ==
    ASSUME CalTypeOK, NEW p \in Pair, NEW k \in Kind, Post(p, k)
    PROVE  \E n \in 1 .. MaxCopies :
              /\ fate[<<p, k, n>>] = "absent"
              /\ fate' = [fate EXCEPT ![<<p, k, n>>] = "pending"]
              /\ UNCHANGED copies
<1> DEFINE left == {n \in 1 .. MaxCopies : fate[<<p, k, n>>] = "absent"}
<1>1. left # {} /\ left \subseteq Nat
  BY CalendarAssumption DEF Post
<1>2. PICK x \in left : \A y \in left : ~ (<<y, x>> \in OpToRel(<, Nat))
  BY <1>1, NatLessThanWellFounded, WFMin
<1>3. \A y \in left : x <= y
  <2>1. \A y \in left : x \in Nat /\ y \in Nat
    BY <1>1
  <2>2. \A y \in left : ~ (y < x)
    BY <1>2, <2>1, Zenon DEF OpToRel
  <2> QED BY <2>1, <2>2
<1>4. Min(left) \in left
  BY <1>3 DEF Min
<1>5. Delivery!Submit(<<p, k, Min(left)>>)
  BY DEF Post
<1> QED BY <1>4, <1>5 DEF Delivery!Submit

(* Mails of a pair, a kind and a number.                                   *)
LEMMA MailType ==
    ASSUME NEW p \in Pair, NEW k \in Kind, NEW n \in 1 .. MaxCopies,
           NEW q \in Pair, NEW j \in Kind, NEW i \in 1 .. MaxCopies
    PROVE  /\ <<p, k, n>> \in Mail /\ <<q, j, i>> \in Mail
           /\ <<q, j, i>> = <<p, k, n>> <=> q = p /\ j = k /\ i = n
BY DEF Mail

(* What it changes.                                                        *)
LEMMA PostStep ==
    ASSUME CalTypeOK, NEW p \in Pair, NEW k \in Kind, Post(p, k)
    PROVE  /\ MailTypeOK'
           /\ \A q \in Pair, j \in Kind :
                 /\ Posted(q, j)' <=> Posted(q, j) \/ (q = p /\ j = k)
                 /\ Arrived(q, j)' <=> Arrived(q, j)
           /\ \A q \in Pair : MailsOK(q) => MailsOK(q)'
<1>1. PICK n \in 1 .. MaxCopies : /\ fate[<<p, k, n>>] = "absent"
                                  /\ fate' = [fate EXCEPT ![<<p, k, n>>] = "pending"]
                                  /\ UNCHANGED copies
  BY PostTakes
<1>2. \A q \in Pair, j \in Kind, i \in 1 .. MaxCopies :
        fate'[<<q, j, i>>] = IF q = p /\ j = k /\ i = n THEN "pending"
                             ELSE fate[<<q, j, i>>]
  <2> TAKE q \in Pair, j \in Kind, i \in 1 .. MaxCopies
  <2>1. /\ <<p, k, n>> \in Mail /\ <<q, j, i>> \in Mail
        /\ <<q, j, i>> = <<p, k, n>> <=> q = p /\ j = k /\ i = n
    BY MailType
  <2> QED BY <1>1, <2>1 DEF CalTypeOK, MailTypeOK
<1>3. MailTypeOK'
  <2>1. <<p, k, n>> \in Mail
    BY DEF Mail
  <2> DEFINE t == <<p, k, n>>
  <2> HIDE DEF t
  <2> QED BY <1>1, <2>1 DEF CalTypeOK, MailTypeOK, t
<1>4. ASSUME NEW q \in Pair, NEW j \in Kind
      PROVE  /\ Posted(q, j)' <=> Posted(q, j) \/ (q = p /\ j = k)
             /\ Arrived(q, j)' <=> Arrived(q, j)
  BY <1>1, <1>2 DEF Posted, Arrived
<1>5. ASSUME NEW q \in Pair, MailsOK(q) PROVE MailsOK(q)'
  BY <1>2, <1>5 DEF MailsOK
<1> QED BY <1>3, <1>4, <1>5

(* A copy of a pending mail arrives, or it is refused.                     *)
LEMMA SettleStep ==
    ASSUME CalTypeOK, NEW p \in Pair, NEW k \in Kind, NEW n \in 1 .. MaxCopies,
           NEW f \in {"pending", "delivered", "refused"},
           fate[<<p, k, n>>] = "pending",
           fate' = [fate EXCEPT ![<<p, k, n>>] = f],
           copies' = IF f = "refused" THEN copies
                     ELSE [copies EXCEPT ![<<p, k, n>>] = @ + 1]
    PROVE  /\ MailTypeOK'
           /\ \A q \in Pair, j \in Kind :
                 /\ Posted(q, j)' <=> Posted(q, j)
                 /\ f # "refused" /\ q = p /\ j = k => Arrived(q, j)'
                 /\ ~ (f # "refused" /\ q = p /\ j = k) =>
                       (Arrived(q, j)' <=> Arrived(q, j))
           /\ \A q \in Pair : (f # "refused" \/ q # p) /\ MailsOK(q) => MailsOK(q)'
<1>0. copies[<<p, k, n>>] \in Nat /\ <<p, k, n>> \in Mail
  BY DEF CalTypeOK, MailTypeOK, Mail
<1>1. \A q \in Pair, j \in Kind, i \in 1 .. MaxCopies :
        /\ fate'[<<q, j, i>>] = IF q = p /\ j = k /\ i = n THEN f
                                ELSE fate[<<q, j, i>>]
        /\ copies'[<<q, j, i>>] =
              IF q = p /\ j = k /\ i = n /\ f # "refused"
              THEN copies[<<q, j, i>>] + 1 ELSE copies[<<q, j, i>>]
  <2> TAKE q \in Pair, j \in Kind, i \in 1 .. MaxCopies
  <2>1. /\ <<p, k, n>> \in Mail /\ <<q, j, i>> \in Mail
        /\ <<q, j, i>> = <<p, k, n>> <=> q = p /\ j = k /\ i = n
    BY MailType
  <2> QED BY <2>1 DEF CalTypeOK, MailTypeOK
<1>2. MailTypeOK'
  <2> DEFINE t == <<p, k, n>>
  <2> HIDE DEF t
  <2> QED BY <1>0 DEF CalTypeOK, MailTypeOK, t
<1>3. ASSUME NEW q \in Pair, NEW j \in Kind
      PROVE  /\ Posted(q, j)' <=> Posted(q, j)
             /\ f # "refused" /\ q = p /\ j = k => Arrived(q, j)'
             /\ ~ (f # "refused" /\ q = p /\ j = k) =>
                   (Arrived(q, j)' <=> Arrived(q, j))
  <2>1. Posted(q, j)' <=> Posted(q, j)
    BY <1>1 DEF Posted
  <2>2. \A i \in 1 .. MaxCopies : copies[<<q, j, i>>] \in Nat
    BY MailType DEF CalTypeOK, MailTypeOK
  <2>3. CASE f # "refused" /\ q = p /\ j = k
    <3>1. copies'[<<q, j, n>>] = copies[<<q, j, n>>] + 1
      BY <1>1, <2>3
    <3>2. copies'[<<q, j, n>>] # 0
      BY <2>2, <3>1
    <3> QED BY <2>1, <2>3, <3>2 DEF Arrived
  <2>4. CASE ~ (f # "refused" /\ q = p /\ j = k)
    <3>1. \A i \in 1 .. MaxCopies : copies'[<<q, j, i>>] = copies[<<q, j, i>>]
      BY <1>1, <2>4
    <3> QED BY <2>1, <2>4, <3>1 DEF Arrived
  <2> QED BY <2>1, <2>3, <2>4
<1>4. ASSUME NEW q \in Pair, f # "refused" \/ q # p, MailsOK(q) PROVE MailsOK(q)'
  BY <1>1, <1>4 DEF MailsOK
<1> QED BY <1>2, <1>3, <1>4

-----------------------------------------------------------------------------
(* The calendar.                                                           *)

LEMMA SequenceType ==
    ASSUME NEW k \in Kind
    PROVE  Sequence(k) \in {0, 1, 2}
BY DEF Kind, Sequence

LEMMA EventStays ==
    ASSUME NEW p \in Pair, EventOK(p), event'[p] = event[p],
           \A k \in Kind : Arrived(p, k)' <=> Arrived(p, k)
    PROVE  EventOK(p)'
BY DEF EventOK

LEMMA EventReplaced ==
    ASSUME CalTypeOK, NEW p \in Pair, NEW k \in Kind, EventOK(p),
           \A j \in Kind : Arrived(p, j)' <=> Arrived(p, j) \/ j = k,
           event'[p] = IF Sequence(k) < event[p].seq THEN event[p]
                       ELSE [seq |-> Sequence(k), shown |-> Publishes(k)]
    PROVE  EventOK(p)'
<1>1. event[p].seq \in {-1, 0, 1, 2}
  BY DEF CalTypeOK
<1>2. \A j \in Kind : Sequence(j) \in {0, 1, 2}
  BY SequenceType
<1>3. CASE Sequence(k) < event[p].seq
  <2>1. event'[p] = event[p]
    BY <1>3
  <2> QED BY <2>1, <1>1, <1>2, <1>3 DEF EventOK
<1>4. CASE ~ (Sequence(k) < event[p].seq)
  <2>1. event'[p].seq = Sequence(k) /\ event'[p].shown = Publishes(k)
    BY <1>4
  <2>2. \A j \in Kind : Arrived(p, j)' => Sequence(j) <= Sequence(k)
    BY <1>1, <1>2, <1>4 DEF EventOK
  <2>3. event'[p].seq # -1 /\ Arrived(p, k)'
    BY <1>2, <2>1
  <2> QED BY <2>1, <2>2, <2>3 DEF EventOK
<1> QED BY <1>3, <1>4

-----------------------------------------------------------------------------
(* What a step leaves of a handler's part in a pair.                       *)

Kept(r, v, s) ==
    /\ Assigning(r, v, s)' <=> Assigning(r, v, s)
    /\ Removing(r, v, s)' <=> Removing(r, v, s)
    /\ Informs(r, s)' => Informs(r, s)
    /\ Informs(r, s)' => want'[r] = want[r]
    /\ Listed(r, v, s)' =>
           Informs(r, s) /\ (Listed(r, v, s) \/ row[v][s] = "in")
    /\ Telling(r, v, s)' => Telling(r, v, s)
    /\ Telling(r, v, s) /\ row[v][s] = "in" => Telling(r, v, s)'

LEMMA TellingInforms ==
    ASSUME NEW r, NEW v, NEW s
    PROVE  /\ Telling(r, v, s) => Informs(r, s)
           /\ Listed(r, v, s) => Informs(r, s)
           /\ Telling(r, v, s)' => Informs(r, s)'
           /\ Listed(r, v, s)' => Informs(r, s)'
BY DEF Telling, Informs, Listed

(* Nothing changes for the pair, and its handlers keep their part.         *)
LEMMA PairStays ==
    ASSUME NEW v \in Volunteer, NEW s \in Shift, PairCal(v, s),
           row'[v][s] = row[v][s], canceled'[s] = canceled[s],
           s \in restored' <=> s \in restored,
           \A k \in Kind : Posted(<<v, s>>, k)' <=> Posted(<<v, s>>, k),
           <<v, s>> \in due' => <<v, s>> \in due \/ row[v][s] = "in",
           \A r \in Req : Kept(r, v, s)
    PROVE  PairCal(v, s)'
<1>1. {"assigned", "removed", "restored"} = Kind
  BY DEF Kind
<1>2. ASSUME NEW r \in Req PROVE HandlerOK(r, v, s)'
  <2>1. HandlerOK(r, v, s) /\ Kept(r, v, s)
    BY DEF PairCal
  <2> QED BY <2>1, TellingInforms DEF HandlerOK, Kept
<1>3. PostsOK(v, s)'
  BY <1>1 DEF PairCal, PostsOK
<1>4. \A r \in Req :
        Telling(r, v, s)' => Telling(r, v, s) /\ want'[r] = want[r]
  BY TellingInforms DEF Kept
<1>5. row[v][s] = "in" => \A r \in Req :
        Telling(r, v, s) => Telling(r, v, s)' /\ want'[r] = want[r]
  BY TellingInforms DEF Kept
<1>6. OwesRemoval(v, s)' => OwesRemoval(v, s)
  BY <1>1, <1>4 DEF OwesRemoval
<1>7. row[v][s] = "in" /\ OwesRemoval(v, s) => OwesRemoval(v, s)'
  BY <1>1, <1>5 DEF OwesRemoval
<1>8. \A r \in Req : /\ Assigning(r, v, s)' <=> Assigning(r, v, s)
                     /\ Removing(r, v, s)' <=> Removing(r, v, s)
  BY DEF Kept
<1>9. DebtsOK(v, s)
  BY DEF PairCal
<1>10. DebtsOK(v, s)'
  <2>1. row'[v][s] # "none" =>
           Posted(<<v, s>>, "assigned")' \/ \E r \in Req : Assigning(r, v, s)'
    BY <1>1, <1>8, <1>9 DEF DebtsOK
  <2>2. row'[v][s] = "out" =>
           Posted(<<v, s>>, "removed")' \/ \E r \in Req : Removing(r, v, s)'
    BY <1>1, <1>8, <1>9 DEF DebtsOK
  <2>3. row'[v][s] = "in" /\ canceled'[s] => OwesRemoval(v, s)'
    BY <1>7, <1>9 DEF DebtsOK
  <2>4. s \in restored' /\ row'[v][s] = "in" /\ OwesRemoval(v, s)' =>
           \/ Posted(<<v, s>>, "restored")'
           \/ \E r \in Req : Telling(r, v, s)' /\ ~ want'[r]
    BY <1>1, <1>5, <1>6, <1>9 DEF DebtsOK
  <2> QED BY <2>1, <2>2, <2>3, <2>4 DEF DebtsOK
<1> QED BY <1>2, <1>3, <1>10 DEF PairCal

(* Handlers whose step it is not, or whose step is not about the pair.     *)
LEMMA SameKept ==
    ASSUME NEW q \in Req, Same(q), NEW v, NEW s
    PROVE  /\ Kept(q, v, s)
           /\ Assigning(q, v, s)' <=> Assigning(q, v, s)
           /\ Removing(q, v, s)' <=> Removing(q, v, s)
           /\ Informs(q, s)' <=> Informs(q, s)
           /\ Listed(q, v, s)' <=> Listed(q, v, s)
           /\ Telling(q, v, s)' <=> Telling(q, v, s)
           /\ want'[q] = want[q]
BY DEF Same, Kept, Assigning, Removing, Informs, Listed, Telling

PartPc == ArrivalPc \cup {"assigned", "removed", "list", "fan"}

(* No part in the pair: none of the steps, or another volunteer's or       *)
(* another shift's.                                                        *)
Apart(r, v, s) ==
    /\ ~ Assigning(r, v, s) /\ ~ Removing(r, v, s)
    /\ ~ Informs(r, s) /\ ~ Listed(r, v, s) /\ ~ Telling(r, v, s)

LEMMA PcApart ==
    ASSUME NEW r, NEW v, NEW s
    PROVE  /\ pc[r] \notin PartPc => Apart(r, v, s)
           /\ pc'[r] \notin PartPc => Apart(r, v, s)'
BY DEF Apart, PartPc, Assigning, Removing, Informs, Listed, Telling

LEMMA OtherApart ==
    ASSUME NEW r \in Req, NEW v \in Volunteer, NEW s \in Shift
    PROVE  /\ TypeOK /\ ~ Touches(r, v, s) => Apart(r, v, s)
           /\ TypeOK' /\ ~ Touches(r, v, s)' => Apart(r, v, s)'
<1>1. TypeOK /\ ~ Touches(r, v, s) => Apart(r, v, s)
  BY DEF TypeOK, Touches, Apart, Assigning, Removing, Informs, Listed, Telling,
         EditPc, ArrivalPc
<1>2. TypeOK' /\ ~ Touches(r, v, s)' => Apart(r, v, s)'
  BY DEF TypeOK, Touches, Apart, Assigning, Removing, Informs, Listed, Telling,
         EditPc, ArrivalPc
<1> QED BY <1>1, <1>2

LEMMA ApartKept ==
    ASSUME NEW r, NEW v, NEW s, Apart(r, v, s), Apart(r, v, s)'
    PROVE  Kept(r, v, s)
BY DEF Apart, Kept

-----------------------------------------------------------------------------
(* The steps that neither change a row or a flag nor send a notice.        *)

LEMMA QuietStep ==
    ASSUME NEW r \in Req, Quiet(r)
    PROVE  Step(r) /\ UNCHANGED <<row, canceled, mailVars, restored, spoiled>>
BY DEF Quiet, Step, SignUp, Remove, Edit, Fail, SignUpBegin, CheckCanceled, FindRow,
       DuplicateRow, FirstEligible, ReadArrival, SetArrival, ArrivalFails,
       RemoveBegin, EditBegin, ReadPrior, ListAssigned

LEMMA QuietKept ==
    ASSUME TypeOK, NEW r \in Req, Quiet(r), NEW v \in Volunteer, NEW s \in Shift
    PROVE  Kept(r, v, s)
<1>1. pc \in [Req -> Pc] /\ who \in [Req -> Volunteer \cup {Nobody}]
  BY DEF TypeOK, HandlersOK
<1>2. End(r) => pc'[r] = "idle"
  BY EndType DEF TypeOK
<1>3. CASE \/ SignUpBegin(r) \/ RemoveBegin(r) \/ EditBegin(r) \/ CheckCanceled(r)
           \/ FindRow(r) \/ DuplicateRow(r) \/ ReadPrior(r)
  <2>1. pc[r] \in {"idle", "check", "find", "write", "prior"}
    BY <1>3 DEF SignUpBegin, RemoveBegin, EditBegin, CheckCanceled, FindRow,
                DuplicateRow, ReadPrior, Begin, At
  <2>2. pc'[r] \in {"idle", "check", "find", "write", "remove", "prior", "update"}
    BY <1>1, <1>2, <1>3
    DEF SignUpBegin, RemoveBegin, EditBegin, CheckCanceled, FindRow,
        DuplicateRow, ReadPrior, Begin, Goto
  <2>3. pc[r] \notin PartPc /\ pc'[r] \notin PartPc
    BY <2>1, <2>2 DEF PartPc, ArrivalPc
  <2> QED BY <2>3, PcApart, ApartKept
<1>4. CASE FirstEligible(r) \/ ReadArrival(r) \/ SetArrival(r) \/ ArrivalFails(r)
  <2>1. /\ pc[r] \in ArrivalPc
        /\ UNCHANGED <<who, shift, want, list>>
    BY <1>4 DEF FirstEligible, ReadArrival, SetArrival, ArrivalFails, At, ArrivalPc
  <2>2. pc'[r] \in ArrivalPc \cup {"assigned"}
    BY <1>1, <1>4
    DEF FirstEligible, ReadArrival, SetArrival, ArrivalFails, Goto, ArrivalPc
  <2> QED BY <2>1, <2>2
          DEF Kept, Assigning, Removing, Informs, Listed, Telling, ArrivalPc
<1>5. CASE ListAssigned(r)
  <2> DEFINE on == {x \in Volunteer : row[x][shift[r]] = "in"}
  <2>1. pc[r] = "list"
    BY <1>5 DEF ListAssigned, At
  <2>2. CASE on = {}
    <3>1. pc'[r] = "idle" /\ want'[r] = FALSE
      BY <1>2, <1>5, <2>2 DEF ListAssigned, End, TypeOK, HandlersOK
    <3>2. Telling(r, v, s) => row[v][s] # "in"
      BY <2>2 DEF Telling, Informs
    <3>3. Apart(r, v, s)'
      BY <3>1, PcApart DEF PartPc, ArrivalPc
    <3> QED BY <2>1, <3>2, <3>3 DEF Kept, Apart, Assigning, Removing, ArrivalPc
  <2>3. CASE on # {}
    <3>1. pc'[r] = "fan" /\ list'[r] = on /\ UNCHANGED <<who, shift, want>>
      BY <1>1, <1>5, <2>3 DEF ListAssigned, Goto, TypeOK, HandlersOK
    <3>2. shift[r] = s => (v \in on <=> row[v][s] = "in")
      OBVIOUS
    <3> QED BY <2>1, <3>1, <3>2
            DEF Kept, Assigning, Removing, Informs, Listed, Telling, ArrivalPc
  <2> QED BY <2>2, <2>3
<1> QED BY <1>3, <1>4, <1>5 DEF Quiet

LEMMA QuietPair ==
    ASSUME TypeOK, NEW r \in Req, Quiet(r), NEW v \in Volunteer, NEW s \in Shift,
           PairCal(v, s)
    PROVE  PairCal(v, s)'
<1>1. Step(r) /\ UNCHANGED <<row, canceled, fate, due, restored>>
  BY QuietStep DEF mailVars
<1>2. \A q \in Req : Kept(q, v, s)
  BY <1>1, HandlerStep, QuietKept, SameKept DEF Others
<1>3. \A k \in Kind : Posted(<<v, s>>, k)' <=> Posted(<<v, s>>, k)
  BY <1>1 DEF Posted
<1> QED BY <1>1, <1>2, <1>3, PairStays

-----------------------------------------------------------------------------
(* The other steps of a handler.                                           *)

(* For a pair they are not about, nothing changes.                         *)
LEMMA AwayPair ==
    ASSUME TypeOK, TypeOK', NEW r \in Req, Step(r),
           NEW v \in Volunteer, NEW s \in Shift, PairCal(v, s),
           ~ Touches(r, v, s), ~ Touches(r, v, s)',
           row'[v][s] = row[v][s], canceled'[s] = canceled[s],
           s \in restored' <=> s \in restored, due' = due,
           \A k \in Kind : Posted(<<v, s>>, k)' <=> Posted(<<v, s>>, k)
    PROVE  PairCal(v, s)'
<1>1. Others(r)
  BY HandlerStep
<1>2. Kept(r, v, s)
  BY OtherApart, ApartKept
<1>3. \A q \in Req : Kept(q, v, s)
  BY <1>1, <1>2, SameKept DEF Others
<1> QED BY <1>3, PairStays

(* A handler that goes on with the same request touches no other pair.     *)
LEMMA StaysAway ==
    ASSUME TypeOK, NEW r \in Req, NEW v \in Volunteer, NEW s \in Shift,
           ~ Touches(r, v, s), pc[r] # "idle",
           End(r) \/ UNCHANGED <<who, shift>>
    PROVE  ~ Touches(r, v, s)'
<1>1. End(r) => pc'[r] = "idle"
  BY EndType DEF TypeOK
<1> QED BY <1>1 DEF Touches

LEMMA SignPair ==
    ASSUME TypeOK, TypeOK', NEW r \in Req, Sign(r),
           NEW v \in Volunteer, NEW s \in Shift, <<v, s>> \notin spoiled',
           PairCal(v, s)
    PROVE  PairCal(v, s)'
<1>1. /\ WriteRow(r) /\ pc[r] = "write" /\ Step(r)
      /\ UNCHANGED <<canceled, fate, due, restored, who, shift>>
  BY DEF Sign, WriteRow, At, Step, SignUp, mailVars
<1>2. \A k \in Kind : Posted(<<v, s>>, k)' <=> Posted(<<v, s>>, k)
  BY <1>1 DEF Posted
<1>3. who[r] \in Volunteer
  BY <1>1 DEF TypeOK, PersonPc
<1>4. CASE ~ (who[r] = v /\ shift[r] = s)
  <2>1. ~ Touches(r, v, s)
    BY <1>3, <1>4, SignupAssumption DEF Touches
  <2>2. ~ Touches(r, v, s)'
    BY <1>1, <2>1, StaysAway
  <2>3. row'[v][s] = row[v][s]
    <3>1. ~ Writes(r, v, s) /\ ~ Removes(r, v, s)
      BY <1>4 DEF Writes, Removes
    <3> QED BY <1>1, <3>1, RowStep
  <2> QED BY <1>1, <1>2, <2>1, <2>2, <2>3, AwayPair
<1>5. CASE who[r] = v /\ shift[r] = s
  <2>1. row'[v][s] = "in"
    <3>1. Writes(r, v, s)
      BY <1>1, <1>5 DEF Writes
    <3> QED BY <1>1, <3>1, RowStep
  <2>2. pc'[r] = "eligible"
    BY <1>1 DEF WriteRow, Goto, TypeOK, HandlersOK
  <2>3. Assigning(r, v, s)'
    BY <1>1, <1>5, <2>2 DEF Assigning, ArrivalPc
  <2>4. /\ row[v][s] # "out" /\ ~ canceled[s]
        /\ \A q \in Req : ~ Removing(q, v, s) /\ ~ Informs(q, s)
    <3>1. Of(r) = <<v, s>>
      BY <1>5 DEF Of
    <3>2. ~ \/ row[v][s] = "out" \/ canceled[s]
            \/ \E q \in Req : /\ shift[q] = s
                              /\ \/ pc[q] = "removed" /\ who[q] = v
                                 \/ pc[q] \in {"list", "fan"}
      BY <3>1 DEF Sign
    <3> QED BY <3>2 DEF Removing, Informs
  <2>5. \A q \in Req : ~ Removing(q, v, s)' /\ ~ Informs(q, s)'
    <3>1. \A q \in Req \ {r} : ~ Removing(q, v, s)' /\ ~ Informs(q, s)'
      BY <1>1, <2>4, HandlerStep, SameKept DEF Others
    <3>2. ~ Removing(r, v, s)' /\ ~ Informs(r, s)'
      BY <2>2 DEF Removing, Informs
    <3> QED BY <3>1, <3>2
  <2>6. /\ \A q \in Req : ~ Telling(q, v, s)  /\ ~ Listed(q, v, s)
        /\ \A q \in Req : ~ Telling(q, v, s)' /\ ~ Listed(q, v, s)'
    BY <2>4, <2>5, TellingInforms
  <2>7. \A q \in Req : HandlerOK(q, v, s)'
    BY <2>1, <2>5, <2>6 DEF HandlerOK
  <2>8. {"assigned", "removed", "restored"} = Kind
    BY DEF Kind
  <2>9. row[v][s] \in {"none", "in"}
    BY <2>4 DEF TypeOK, RowsOK
  <2>10. PostsOK(v, s)'
    BY <1>1, <1>2, <2>1, <2>4, <2>8 DEF PairCal, PostsOK
  <2>11. OwesRemoval(v, s)' <=> Posted(<<v, s>>, "removed")
    BY <1>2, <2>6, <2>8 DEF OwesRemoval
  <2>12. s \in restored /\ Posted(<<v, s>>, "removed") => Posted(<<v, s>>, "restored")
    <3>1. Posted(<<v, s>>, "removed") => row[v][s] = "in"
      BY <2>8, <2>9 DEF PairCal, PostsOK
    <3> QED BY <2>6, <3>1 DEF PairCal, DebtsOK, OwesRemoval
  <2>13. DebtsOK(v, s)'
    BY <1>1, <1>2, <2>1, <2>3, <2>4, <2>8, <2>11, <2>12 DEF DebtsOK
  <2> QED BY <2>7, <2>10, <2>13 DEF PairCal
<1> QED BY <1>4, <1>5

(* The handler answers: the others keep their part, and it has none.       *)
LEMMA EndParts ==
    ASSUME TypeOK, NEW r \in Req, Step(r), End(r),
           NEW v \in Volunteer, NEW s \in Shift
    PROVE  /\ Apart(r, v, s)'
           /\ \A q \in Req \ {r} :
                 /\ Assigning(q, v, s)' <=> Assigning(q, v, s)
                 /\ Removing(q, v, s)' <=> Removing(q, v, s)
                 /\ Informs(q, s)' <=> Informs(q, s)
                 /\ Listed(q, v, s)' <=> Listed(q, v, s)
                 /\ Telling(q, v, s)' <=> Telling(q, v, s)
                 /\ want'[q] = want[q]
<1>1. pc'[r] \notin PartPc
  BY EndType DEF TypeOK, PartPc, ArrivalPc
<1> QED BY <1>1, HandlerStep, SameKept, PcApart DEF Others

LEMMA NotifySignUpPair ==
    ASSUME CalTypeOK, TypeOK', NEW r \in Req, NotifySignUp(r),
           NEW v \in Volunteer, NEW s \in Shift, PairCal(v, s)
    PROVE  PairCal(v, s)'
<1>0. TypeOK
  BY DEF CalTypeOK
<1>1. /\ NotifyAssignment(r) /\ pc[r] = "assigned" /\ Step(r) /\ End(r)
      /\ UNCHANGED <<row, canceled, due, restored>> /\ Post(Of(r), "assigned")
  BY DEF NotifySignUp, NotifyAssignment, At, Step, SignUp
<1>2. who[r] \in Volunteer /\ shift[r] \in Shift
  BY <1>0, <1>1 DEF TypeOK, HandlersOK, PersonPc
<1>3. Of(r) \in Pair /\ "assigned" \in Kind /\ <<v, s>> \in Pair
  BY <1>2 DEF Of, Pair, Kind
<1>4. \A k \in Kind : Posted(<<v, s>>, k)' <=>
          Posted(<<v, s>>, k) \/ (<<v, s>> = Of(r) /\ k = "assigned")
  BY <1>1, <1>3, PostStep
<1>5. CASE ~ (who[r] = v /\ shift[r] = s)
  <2>1. ~ Touches(r, v, s)
    BY <1>2, <1>5, SignupAssumption DEF Touches
  <2>2. ~ Touches(r, v, s)'
    BY <1>0, <1>1, <2>1, StaysAway
  <2>3. <<v, s>> # Of(r)
    BY <1>5 DEF Of
  <2> QED BY <1>0, <1>1, <1>4, <2>1, <2>2, <2>3, AwayPair
<1>6. CASE who[r] = v /\ shift[r] = s
  <2>1. Posted(<<v, s>>, "assigned")'
    BY <1>4, <1>6 DEF Of, Kind
  <2>2. {"assigned", "removed", "restored"} = Kind
    BY DEF Kind
  <2>3. Assigning(r, v, s) /\ ~ Removing(r, v, s) /\ ~ Informs(r, s)
    BY <1>1, <1>6 DEF Assigning, Removing, Informs, ArrivalPc
  <2>4. ~ Listed(r, v, s) /\ ~ Telling(r, v, s) /\ row[v][s] # "none"
    BY <2>3, TellingInforms DEF PairCal, HandlerOK
  <2>5. Apart(r, v, s)'
    BY <1>0, <1>1, EndParts
  <2>6. \A q \in Req : HandlerOK(q, v, s)'
    BY <1>0, <1>1, <2>5, EndParts DEF PairCal, HandlerOK, Apart
  <2>7. PostsOK(v, s)'
    BY <1>1, <1>4, <2>2, <2>4 DEF PairCal, PostsOK
  <2>8. \A q \in Req : /\ Removing(q, v, s)' <=> Removing(q, v, s)
                       /\ Telling(q, v, s)' <=> Telling(q, v, s)
                       /\ Telling(q, v, s) => want'[q] = want[q]
    BY <1>0, <1>1, <2>3, <2>4, <2>5, EndParts DEF Apart
  <2>9. OwesRemoval(v, s)' <=> OwesRemoval(v, s)
    BY <1>4, <2>2, <2>8 DEF OwesRemoval
  <2>10. DebtsOK(v, s)'
    BY <1>1, <1>4, <2>1, <2>2, <2>8, <2>9 DEF PairCal, DebtsOK
  <2> QED BY <2>6, <2>7, <2>10 DEF PairCal
<1> QED BY <1>5, <1>6

LEMMA UnsignPair ==
    ASSUME TypeOK, TypeOK', NEW r \in Req, Unsign(r),
           NEW v \in Volunteer, NEW s \in Shift, <<v, s>> \notin spoiled',
           PairCal(v, s)
    PROVE  PairCal(v, s)'
<1>1. /\ RemoveRow(r) /\ pc[r] = "remove" /\ Step(r)
      /\ UNCHANGED <<canceled, fate, due, restored, who, shift>>
  BY DEF Unsign, RemoveRow, At, Step, Remove, mailVars
<1>2. \A k \in Kind : Posted(<<v, s>>, k)' <=> Posted(<<v, s>>, k)
  BY <1>1 DEF Posted
<1>3. who[r] \in Volunteer
  BY <1>1 DEF TypeOK, PersonPc
<1>4. CASE ~ (who[r] = v /\ shift[r] = s)
  <2>1. ~ Touches(r, v, s)
    BY <1>3, <1>4, SignupAssumption DEF Touches
  <2>2. ~ Touches(r, v, s)'
    BY <1>1, <2>1, StaysAway
  <2>3. row'[v][s] = row[v][s]
    <3>1. ~ Writes(r, v, s) /\ ~ Removes(r, v, s)
      BY <1>4 DEF Writes, Removes
    <3> QED BY <1>1, <3>1, RowStep
  <2> QED BY <1>1, <1>2, <2>1, <2>2, <2>3, AwayPair
<1>5. CASE who[r] = v /\ shift[r] = s
  <2>1. row'[v][s] = IF row[v][s] = "in" THEN "out" ELSE row[v][s]
    <3>1. ~ Writes(r, v, s)
      BY <1>1 DEF Writes, WriteRow, At
    <3>2. Removes(r, v, s) <=> row[v][s] = "in"
      BY <1>1, <1>5 DEF Removes
    <3> QED BY <1>1, <3>1, <3>2, RowStep
  <2>2. pc'[r] = "removed"
    BY <1>1 DEF RemoveRow, Goto, TypeOK, HandlersOK
  <2>3. Removing(r, v, s)' /\ ~ Assigning(r, v, s)' /\ ~ Informs(r, s)'
    BY <1>1, <1>5, <2>2 DEF Removing, Assigning, Informs, ArrivalPc
  <2>4. Apart(r, v, s)
    BY <1>1, PcApart DEF PartPc, ArrivalPc
  <2>5. s \notin restored
    BY <1>5 DEF Unsign, Of
  <2>6. \A q \in Req \ {r} :
            /\ Assigning(q, v, s)' <=> Assigning(q, v, s)
            /\ Removing(q, v, s)' <=> Removing(q, v, s)
            /\ Informs(q, s)' <=> Informs(q, s)
            /\ Listed(q, v, s)' <=> Listed(q, v, s)
            /\ want'[q] = want[q]
    BY <1>1, HandlerStep, SameKept DEF Others
  <2>7. \A q \in Req : HandlerOK(q, v, s)'
    <3>1. HandlerOK(r, v, s)'
      BY <2>1, <2>3, TellingInforms DEF HandlerOK
    <3>2. ASSUME NEW q \in Req \ {r} PROVE HandlerOK(q, v, s)'
      <4>1. HandlerOK(q, v, s)
        BY DEF PairCal
      <4> QED BY <1>1, <2>1, <2>5, <2>6, <4>1, TellingInforms DEF HandlerOK
    <3> QED BY <3>1, <3>2
  <2>8. {"assigned", "removed", "restored"} = Kind
    BY DEF Kind
  <2>9. PostsOK(v, s)'
    BY <1>1, <1>2, <2>1, <2>5, <2>8 DEF PairCal, PostsOK
  <2>10. \A q \in Req : Assigning(q, v, s) => Assigning(q, v, s)'
    BY <2>4, <2>6 DEF Apart
  <2>11. DebtsOK(v, s)'
    BY <1>1, <1>2, <2>1, <2>3, <2>5, <2>8, <2>10 DEF PairCal, DebtsOK
  <2> QED BY <2>7, <2>9, <2>11 DEF PairCal
<1> QED BY <1>4, <1>5

LEMMA NotifyUnsignPair ==
    ASSUME CalTypeOK, TypeOK', NEW r \in Req, NotifyUnsign(r),
           NEW v \in Volunteer, NEW s \in Shift, PairCal(v, s)
    PROVE  PairCal(v, s)'
<1>0. TypeOK
  BY DEF CalTypeOK
<1>1. /\ NotifyRemoval(r) /\ pc[r] = "removed" /\ Step(r) /\ End(r)
      /\ UNCHANGED <<row, canceled, due, restored>>
  BY DEF NotifyUnsign, NotifyRemoval, At, Step, Remove
<1>2. who[r] \in Volunteer /\ shift[r] \in Shift
  BY <1>0, <1>1 DEF TypeOK, HandlersOK, PersonPc
<1>3. Of(r) \in Pair /\ "removed" \in Kind /\ <<v, s>> \in Pair
  BY <1>2 DEF Of, Pair, Kind
<1>4. \A k \in Kind : Posted(<<v, s>>, k)' <=>
          \/ Posted(<<v, s>>, k)
          \/ <<v, s>> = Of(r) /\ k = "removed" /\ row[v][s] # "none"
  <2>1. CASE row[who[r]][shift[r]] # "none"
    <3>1. Post(Of(r), "removed")
      BY <2>1 DEF NotifyUnsign
    <3>2. \A k \in Kind : Posted(<<v, s>>, k)' <=>
              Posted(<<v, s>>, k) \/ (<<v, s>> = Of(r) /\ k = "removed")
      BY <1>3, <3>1, PostStep
    <3>3. <<v, s>> = Of(r) => row[v][s] # "none"
      BY <2>1 DEF Of
    <3> QED BY <3>2, <3>3
  <2>2. CASE ~ (row[who[r]][shift[r]] # "none")
    <3>1. UNCHANGED <<fate, copies>>
      BY <2>2 DEF NotifyUnsign
    <3>2. \A k \in Kind : Posted(<<v, s>>, k)' <=> Posted(<<v, s>>, k)
      BY <3>1 DEF Posted
    <3>3. <<v, s>> = Of(r) => row[v][s] = "none"
      BY <2>2 DEF Of
    <3> QED BY <3>2, <3>3
  <2> QED BY <2>1, <2>2
<1>5. CASE ~ (who[r] = v /\ shift[r] = s)
  <2>1. ~ Touches(r, v, s)
    BY <1>2, <1>5, SignupAssumption DEF Touches
  <2>2. ~ Touches(r, v, s)'
    BY <1>0, <1>1, <2>1, StaysAway
  <2>3. <<v, s>> # Of(r)
    BY <1>5 DEF Of
  <2> QED BY <1>0, <1>1, <1>4, <2>1, <2>2, <2>3, AwayPair
<1>6. CASE who[r] = v /\ shift[r] = s
  <2>1. row[v][s] # "none" => Posted(<<v, s>>, "removed")'
    BY <1>3, <1>4, <1>6 DEF Of
  <2>2. {"assigned", "removed", "restored"} = Kind
    BY DEF Kind
  <2>3. Removing(r, v, s) /\ ~ Assigning(r, v, s)
    BY <1>1, <1>6 DEF Assigning, Removing, ArrivalPc
  <2>4. row[v][s] \in {"none", "out"}
    <3>1. row[v][s] # "in"
      BY <2>3 DEF PairCal, HandlerOK
    <3> QED BY <1>0, <3>1 DEF TypeOK, RowsOK
  <2>5. Apart(r, v, s)'
    BY <1>0, <1>1, EndParts
  <2>6. \A q \in Req : HandlerOK(q, v, s)'
    BY <1>0, <1>1, <2>5, EndParts DEF PairCal, HandlerOK, Apart
  <2>7. PostsOK(v, s)'
    BY <1>1, <1>4, <2>2, <2>4 DEF PairCal, PostsOK
  <2>8. \A q \in Req : Assigning(q, v, s)' <=> Assigning(q, v, s)
    BY <1>0, <1>1, <2>3, <2>5, EndParts DEF Apart
  <2>9. DebtsOK(v, s)'
    BY <1>1, <1>4, <2>1, <2>2, <2>4, <2>8 DEF PairCal, DebtsOK
  <2> QED BY <2>6, <2>7, <2>9 DEF PairCal
<1> QED BY <1>5, <1>6

LEMMA FlipPair ==
    ASSUME TypeOK, TypeOK', NEW r \in Req, Flip(r),
           NEW v \in Volunteer, NEW s \in Shift, <<v, s>> \notin spoiled',
           PairCal(v, s)
    PROVE  PairCal(v, s)'
<1>1. /\ UpdateTime(r) /\ pc[r] = "update" /\ Step(r) /\ UNCHANGED <<row, fate, due>>
      /\ canceled' = [canceled EXCEPT ![shift[r]] = want[r]]
      /\ restored' = restored \cup {x \in {shift[r]} : canceled[x] /\ ~ want[r]}
  BY DEF Flip, UpdateTime, At, Step, Edit, mailVars
<1>2. \A k \in Kind : Posted(<<v, s>>, k)' <=> Posted(<<v, s>>, k)
  BY <1>1 DEF Posted
<1>3. /\ canceled \in [Shift -> BOOLEAN] /\ want \in [Req -> BOOLEAN]
      /\ seen \in [Req -> BOOLEAN] /\ pc \in [Req -> Pc]
  BY DEF TypeOK, RowsOK, HandlersOK
<1>4. Apart(r, v, s)
  BY <1>1, PcApart DEF PartPc, ArrivalPc
<1>5. CASE shift[r] # s
  <2>1. ~ Touches(r, v, s)
    BY <1>5 DEF Touches
  <2>2. End(r) \/ UNCHANGED <<who, shift>>
    BY <1>1 DEF UpdateTime
  <2>3. ~ Touches(r, v, s)'
    BY <1>1, <2>1, <2>2, StaysAway
  <2>4. canceled'[s] = canceled[s] /\ (s \in restored' <=> s \in restored)
    BY <1>1, <1>3, <1>5
  <2> QED BY <1>1, <1>2, <2>1, <2>3, <2>4, AwayPair
<1>6. CASE shift[r] = s
  <2>1. seen[r] = canceled[s] /\ ~ (want[r] /\ s \in restored)
    <3>1. <<v, s>> \in Pair /\ <<v, s>>[2] = s
      BY DEF Pair
    <3>2. <<v, s>> \notin {p \in Pair : /\ p[2] = shift[r]
                                        /\ \/ seen[r] # canceled[p[2]]
                                           \/ want[r] /\ p[2] \in restored}
      BY DEF Flip
    <3> QED BY <1>6, <3>1, <3>2
  <2>2. canceled'[s] = want[r]
    BY <1>1, <1>3, <1>6
  <2>3. s \in restored' <=> s \in restored \/ (canceled[s] /\ ~ want[r])
    BY <1>1, <1>6
  <2>4. CASE seen[r] = want[r]
    <3>1. End(r)
      BY <1>1, <2>4 DEF UpdateTime
    <3>2. Kept(r, v, s)
      BY <1>1, <1>4, <3>1, EndParts, ApartKept
    <3>3. \A q \in Req : Kept(q, v, s)
      BY <1>1, <3>2, HandlerStep, SameKept DEF Others
    <3> QED BY <1>1, <1>2, <2>1, <2>2, <2>3, <2>4, <3>3, PairStays
  <2>5. CASE seen[r] # want[r]
    <3>1. pc'[r] = "list" /\ UNCHANGED <<who, shift, want, list>>
      BY <1>1, <1>3, <2>5 DEF UpdateTime, Goto
    <3>2. /\ Informs(r, s)' /\ Telling(r, v, s)' /\ ~ Listed(r, v, s)'
          /\ ~ Assigning(r, v, s)' /\ ~ Removing(r, v, s)'
      BY <1>6, <3>1 DEF Informs, Telling, Listed, Assigning, Removing, ArrivalPc
    <3>3. \A q \in Req \ {r} :
            /\ Assigning(q, v, s)' <=> Assigning(q, v, s)
            /\ Removing(q, v, s)' <=> Removing(q, v, s)
            /\ Informs(q, s)' <=> Informs(q, s)
            /\ Listed(q, v, s)' <=> Listed(q, v, s)
            /\ want'[q] = want[q]
      BY <1>1, HandlerStep, SameKept DEF Others
    <3>4. canceled[s] = ~ want[r] /\ canceled'[s] = ~ canceled[s]
      BY <1>3, <2>1, <2>2, <2>5
    <3>5. ASSUME NEW q \in Req PROVE HandlerOK(q, v, s)'
      <4>1. HandlerOK(q, v, s)
        BY DEF PairCal
      <4>2. CASE q = r
        BY <2>2, <2>3, <3>1, <3>2, <3>4, <4>2 DEF HandlerOK
      <4>3. CASE q # r
        BY <1>1, <2>2, <2>3, <3>3, <3>4, <4>1, <4>3 DEF HandlerOK
      <4> QED BY <4>2, <4>3
    <3>6. {"assigned", "removed", "restored"} = Kind
      BY DEF Kind
    <3>7. PostsOK(v, s)'
      BY <1>1, <1>2, <2>1, <2>2, <2>3, <3>4, <3>6 DEF PairCal, PostsOK
    <3>8. \A q \in Req : /\ Assigning(q, v, s)' <=> Assigning(q, v, s)
                         /\ Removing(q, v, s)' <=> Removing(q, v, s)
      BY <1>4, <3>2, <3>3 DEF Apart
    <3>9. want[r] => OwesRemoval(v, s)'
      BY <3>1, <3>2 DEF OwesRemoval
    <3>10. ~ want[r] => Telling(r, v, s)' /\ ~ want'[r]
      BY <3>1, <3>2
    <3>11. s \in restored' => ~ want[r]
      BY <2>1, <2>3
    <3>12. DebtsOK(v, s)'
      BY <1>1, <1>2, <2>2, <3>6, <3>8, <3>9, <3>10, <3>11 DEF PairCal, DebtsOK
    <3> QED BY <3>5, <3>7, <3>12 DEF PairCal
  <2> QED BY <2>4, <2>5
<1> QED BY <1>5, <1>6

(* The loop over those on the shift leaves to the others what they had.    *)
LEMMA FanKept ==
    ASSUME TypeOK, NEW r \in Req, Step(r), pc[r] = "fan",
           NEW x \in list[r], NextOf(r, x), NEW v \in Volunteer, NEW s \in Shift
    PROVE  /\ list[r] \ list'[r] = {x}
           /\ shift[r] # s \/ v # x => Kept(r, v, s)
           /\ shift[r] = s /\ v = x => ~ Telling(r, v, s)' /\ ~ Listed(r, v, s)'
           /\ Informs(r, s)' => Informs(r, s) /\ want'[r] = want[r]
           /\ ~ Assigning(r, v, s) /\ ~ Removing(r, v, s)
           /\ ~ Assigning(r, v, s)' /\ ~ Removing(r, v, s)'
<1>1. list \in [Req -> SUBSET Volunteer]
  BY DEF TypeOK, HandlersOK
<1>2. CASE list[r] = {x}
  <2>1. End(r) /\ list'[r] = {}
    BY <1>1, <1>2 DEF NextOf, End
  <2>2. Apart(r, v, s)'
    BY <2>1, EndParts
  <2> QED BY <1>2, <2>1, <2>2
          DEF Apart, Kept, Assigning, Removing, Informs, Listed, Telling, ArrivalPc
<1>3. CASE list[r] # {x}
  <2>1. list'[r] = list[r] \ {x} /\ UNCHANGED <<pc, who, shift, want>>
    BY <1>1, <1>3 DEF NextOf
  <2> QED BY <2>1
          DEF Apart, Kept, Assigning, Removing, Informs, Listed, Telling, ArrivalPc
<1> QED BY <1>2, <1>3

LEMMA NotifyFlippedPair ==
    ASSUME CalTypeOK, TypeOK', NEW r \in Req, NotifyFlipped(r),
           NEW v \in Volunteer, NEW s \in Shift, PairCal(v, s)
    PROVE  PairCal(v, s)'
<1> DEFINE k == IF want[r] THEN "removed" ELSE "restored"
<1>0. TypeOK
  BY DEF CalTypeOK
<1>1. /\ NotifyFlip(r) /\ pc[r] = "fan" /\ Step(r)
      /\ UNCHANGED <<row, canceled, due, restored>>
  BY DEF NotifyFlipped, NotifyFlip, At, Step, Edit
<1>2. PICK x \in list[r] : NextOf(r, x)
  BY <1>1 DEF NotifyFlip
<1>3. list[r] \ list'[r] = {x}
  BY <1>0, <1>1, <1>2, FanKept
<1>4. Post(<<x, shift[r]>>, k)
  BY <1>3 DEF NotifyFlipped
<1>5. <<x, shift[r]>> \in Pair /\ <<v, s>> \in Pair /\ k \in Kind
  BY <1>0, <1>2 DEF TypeOK, HandlersOK, Pair, Kind
<1>6. \A j \in Kind : Posted(<<v, s>>, j)' <=>
          Posted(<<v, s>>, j) \/ (<<v, s>> = <<x, shift[r]>> /\ j = k)
  <2> HIDE DEF k
  <2> QED BY <1>4, <1>5, PostStep
<1>7. \A q \in Req \ {r} :
        /\ Kept(q, v, s)
        /\ Assigning(q, v, s)' <=> Assigning(q, v, s)
        /\ Removing(q, v, s)' <=> Removing(q, v, s)
        /\ Informs(q, s)' <=> Informs(q, s)
        /\ Listed(q, v, s)' <=> Listed(q, v, s)
        /\ Telling(q, v, s)' <=> Telling(q, v, s)
        /\ want'[q] = want[q]
  BY <1>0, <1>1, HandlerStep, SameKept DEF Others
<1>8. CASE shift[r] # s \/ v # x
  <2>1. \A q \in Req : Kept(q, v, s)
    BY <1>0, <1>1, <1>2, <1>7, <1>8, FanKept
  <2>2. <<v, s>> # <<x, shift[r]>>
    BY <1>8
  <2> QED BY <1>1, <1>6, <2>1, <2>2, PairStays
<1>9. CASE shift[r] = s /\ v = x
  <2>1. /\ ~ Telling(r, v, s)' /\ ~ Listed(r, v, s)'
        /\ Informs(r, s)' => Informs(r, s) /\ want'[r] = want[r]
        /\ ~ Assigning(r, v, s) /\ ~ Removing(r, v, s)
        /\ ~ Assigning(r, v, s)' /\ ~ Removing(r, v, s)'
    BY <1>0, <1>1, <1>2, <1>9, FanKept
  <2>2. Listed(r, v, s) /\ Informs(r, s) /\ Telling(r, v, s) /\ HandlerOK(r, v, s)
    BY <1>1, <1>2, <1>9 DEF Listed, Informs, Telling, PairCal
  <2>3. {"assigned", "removed", "restored"} = Kind
    BY DEF Kind
  <2>4. \A q \in Req : HandlerOK(q, v, s)'
    <3>1. HandlerOK(r, v, s)'
      BY <1>1, <2>1, <2>2 DEF HandlerOK
    <3>2. ASSUME NEW q \in Req \ {r} PROVE HandlerOK(q, v, s)'
      BY <1>1, <1>7, <3>2 DEF PairCal, HandlerOK
    <3> QED BY <3>1, <3>2
  <2>5. /\ want[r] => Posted(<<v, s>>, "removed")'
        /\ ~ want[r] => Posted(<<v, s>>, "restored")'
    BY <1>6, <1>9, <2>3
  <2>6. \A j \in Kind : j # k => (Posted(<<v, s>>, j)' <=> Posted(<<v, s>>, j))
    <3> HIDE DEF k
    <3> QED BY <1>6
  <2>7. \A j \in Kind : Posted(<<v, s>>, j) => Posted(<<v, s>>, j)'
    BY <1>6
  <2>8. row[v][s] # "none"
    BY <2>2 DEF HandlerOK
  <2>9. PostsOK(v, s)'
    BY <1>1, <2>2, <2>3, <2>6, <2>8 DEF PairCal, PostsOK, HandlerOK
  <2>10. OwesRemoval(v, s)' => OwesRemoval(v, s)
    <3>1. want[r] => OwesRemoval(v, s)
      BY <2>2 DEF OwesRemoval
    <3>2. ~ want[r] => (Posted(<<v, s>>, "removed")' <=> Posted(<<v, s>>, "removed"))
      BY <2>3, <2>6
    <3>3. \A q \in Req : Telling(q, v, s)' => Telling(q, v, s) /\ want'[q] = want[q]
      BY <1>7, <2>1
    <3> QED BY <3>1, <3>2, <3>3 DEF OwesRemoval
  <2>11. OwesRemoval(v, s) => OwesRemoval(v, s)'
    <3>1. want[r] => Posted(<<v, s>>, "removed")'
      BY <2>5
    <3>2. \A q \in Req \ {r} : Telling(q, v, s) => Telling(q, v, s)' /\ want'[q] = want[q]
      BY <1>7
    <3> QED BY <2>3, <2>7, <3>1, <3>2 DEF OwesRemoval
  <2>12. s \in restored /\ row[v][s] = "in" /\ OwesRemoval(v, s) =>
            \/ Posted(<<v, s>>, "restored")'
            \/ \E q \in Req : Telling(q, v, s)' /\ ~ want'[q]
    <3>1. ~ want[r] => Posted(<<v, s>>, "restored")'
      BY <2>5
    <3>2. \A q \in Req \ {r} : Telling(q, v, s) => Telling(q, v, s)' /\ want'[q] = want[q]
      BY <1>7
    <3> QED BY <2>3, <2>7, <3>1, <3>2 DEF PairCal, DebtsOK
  <2>13. \A q \in Req : /\ Assigning(q, v, s)' <=> Assigning(q, v, s)
                        /\ Removing(q, v, s)' <=> Removing(q, v, s)
    BY <1>7, <2>1
  <2>14. DebtsOK(v, s)'
    BY <1>1, <2>3, <2>7, <2>10, <2>11, <2>12, <2>13 DEF PairCal, DebtsOK
  <2> QED BY <2>4, <2>9, <2>14 DEF PairCal
<1> QED BY <1>8, <1>9

(* A failure is about the pairs it spoils only.                            *)
LEMMA BreakPair ==
    ASSUME TypeOK, TypeOK', NEW r \in Req, Break(r),
           NEW v \in Volunteer, NEW s \in Shift, <<v, s>> \notin spoiled',
           PairCal(v, s)
    PROVE  PairCal(v, s)'
<1>1. Step(r) /\ UNCHANGED <<row, canceled, fate, due, restored>>
  BY DEF Break, Stop, NoticeFails, Step, Fail, mailVars
<1>2. \A k \in Kind : Posted(<<v, s>>, k)' <=> Posted(<<v, s>>, k)
  BY <1>1 DEF Posted
<1>3. CASE Stop(r) /\ spoiled' = spoiled \cup {p \in Pair : Touches(r, p[1], p[2])}
  <2>1. ~ Touches(r, v, s)
    <3>1. <<v, s>> \in Pair /\ <<v, s>>[1] = v /\ <<v, s>>[2] = s
      BY DEF Pair
    <3>2. <<v, s>> \notin {p \in Pair : Touches(r, p[1], p[2])}
      BY <1>3
    <3> QED BY <3>1, <3>2
  <2>2. ~ Touches(r, v, s)'
    BY <1>3, <2>1, StaysAway DEF Stop
  <2> QED BY <1>1, <1>2, <2>1, <2>2, AwayPair
<1>4. CASE NoticeFails(r) /\ \E x \in list[r] \ list'[r] :
                               spoiled' = spoiled \cup {<<x, shift[r]>>}
  <2>1. PICK x \in list[r] : NextOf(r, x)
    BY <1>4 DEF NoticeFails
  <2>2. pc[r] = "fan"
    BY <1>4 DEF NoticeFails, At
  <2>3. list[r] \ list'[r] = {x}
    BY <1>1, <2>1, <2>2, FanKept
  <2>4. shift[r] # s \/ v # x
    BY <1>4, <2>3
  <2>5. \A q \in Req : Kept(q, v, s)
    BY <1>1, <2>1, <2>2, <2>4, FanKept, HandlerStep, SameKept DEF Others
  <2> QED BY <1>1, <1>2, <2>5, PairStays
<1> QED BY <1>3, <1>4 DEF Break

-----------------------------------------------------------------------------
(* The job and the relay.                                                  *)

LEMMA IdleKept ==
    ASSUME UNCHANGED handler, NEW v \in Volunteer, NEW s \in Shift
    PROVE  \A q \in Req : /\ Kept(q, v, s) /\ want'[q] = want[q]
                          /\ Assigning(q, v, s)' <=> Assigning(q, v, s)
                          /\ Removing(q, v, s)' <=> Removing(q, v, s)
                          /\ Informs(q, s)' <=> Informs(q, s)
                          /\ Listed(q, v, s)' <=> Listed(q, v, s)
                          /\ Telling(q, v, s)' <=> Telling(q, v, s)
<1>1. \A q \in Req : Same(q)
  BY DEF handler, Same
<1> QED BY <1>1, SameKept

LEMMA BackfillPair ==
    ASSUME Backfill, NEW v \in Volunteer, NEW s \in Shift, PairCal(v, s)
    PROVE  PairCal(v, s)'
<1>1. UNCHANGED <<row, canceled, handler, fate, restored>>
  BY DEF Backfill, vars
<1>2. <<v, s>> \in due' => row[v][s] = "in"
  BY DEF Backfill
<1>3. \A k \in Kind : Posted(<<v, s>>, k)' <=> Posted(<<v, s>>, k)
  BY <1>1 DEF Posted
<1> QED BY <1>1, <1>2, <1>3, IdleKept, PairStays

LEMMA NotifyAgainPair ==
    ASSUME CalTypeOK, NEW p \in Pair, NotifyAgain(p),
           NEW v \in Volunteer, NEW s \in Shift, PairCal(v, s)
    PROVE  PairCal(v, s)'
<1>1. /\ UNCHANGED <<row, canceled, handler, restored>> /\ due' \subseteq due
      /\ p \in due /\ Post(p, "assigned")
  BY DEF NotifyAgain, vars
<1>2. <<v, s>> \in Pair /\ {"assigned", "removed", "restored"} = Kind
  BY DEF Pair, Kind
<1>3. \A k \in Kind : Posted(<<v, s>>, k)' <=>
          Posted(<<v, s>>, k) \/ (<<v, s>> = p /\ k = "assigned")
  BY <1>1, <1>2, PostStep
<1>4. \A q \in Req : /\ want'[q] = want[q]
                     /\ Assigning(q, v, s)' <=> Assigning(q, v, s)
                     /\ Removing(q, v, s)' <=> Removing(q, v, s)
                     /\ Informs(q, s)' <=> Informs(q, s)
                     /\ Listed(q, v, s)' <=> Listed(q, v, s)
                     /\ Telling(q, v, s)' <=> Telling(q, v, s)
  BY <1>1, IdleKept
<1>5. \A q \in Req : HandlerOK(q, v, s)'
  BY <1>1, <1>4 DEF PairCal, HandlerOK
<1>6. PostsOK(v, s)'
  BY <1>1, <1>2, <1>3 DEF PairCal, PostsOK
<1>7. OwesRemoval(v, s)' <=> OwesRemoval(v, s)
  BY <1>2, <1>3, <1>4 DEF OwesRemoval
<1>8. DebtsOK(v, s)'
  BY <1>1, <1>2, <1>3, <1>4, <1>7 DEF PairCal, DebtsOK
<1> QED BY <1>5, <1>6, <1>8 DEF PairCal

(* A copy arrives, or the mail is refused.                                 *)
LEMMA RelayStep ==
    ASSUME CalTypeOK, NEW m \in Mail, Receive(m) \/ ReceiveUnheard(m) \/ Lose(m),
           NEW p \in Pair, NEW k \in Kind, NEW n \in 1 .. MaxCopies, m = <<p, k, n>>
    PROVE  \E f \in {"pending", "delivered", "refused"} :
              /\ Lose(m) <=> f = "refused"
              /\ fate[<<p, k, n>>] = "pending"
              /\ fate' = [fate EXCEPT ![<<p, k, n>>] = f]
              /\ copies' = IF f = "refused" THEN copies
                           ELSE [copies EXCEPT ![<<p, k, n>>] = @ + 1]
<1>1. fate \in [Mail -> {"absent", "pending", "delivered", "refused"}]
  BY DEF CalTypeOK, MailTypeOK
<1>2. CASE Receive(m)
  <2>1. ~ Lose(m)
    BY <1>1, <1>2 DEF Receive, Lose, Delivery!Deliver, Delivery!Refuse
  <2> QED BY <1>2, <2>1 DEF Receive, Delivery!Deliver, Delivery!Copied
<1>3. CASE ReceiveUnheard(m)
  <2>1. ~ Lose(m) /\ fate' = [fate EXCEPT ![m] = "pending"]
    BY <1>1, <1>3
    DEF ReceiveUnheard, Lose, Delivery!DeliverUnheard, Delivery!Refuse
  <2> QED BY <1>3, <2>1 DEF ReceiveUnheard, Delivery!DeliverUnheard, Delivery!Copied
<1>4. CASE Lose(m)
  BY <1>4 DEF Lose, Delivery!Refuse
<1> QED BY <1>2, <1>3, <1>4

LEMMA RelayPair ==
    ASSUME CalTypeOK, NEW m \in Mail, Receive(m) \/ ReceiveUnheard(m) \/ Lose(m),
           NEW v \in Volunteer, NEW s \in Shift, PairCal(v, s)
    PROVE  PairCal(v, s)'
<1>1. UNCHANGED <<row, canceled, handler, due, restored>>
  BY DEF Receive, ReceiveUnheard, Lose, vars
<1>2. PICK p \in Pair, k \in Kind, n \in 1 .. MaxCopies : m = <<p, k, n>>
  BY DEF Mail
<1>3. PICK f \in {"pending", "delivered", "refused"} :
              /\ fate[<<p, k, n>>] = "pending"
              /\ fate' = [fate EXCEPT ![<<p, k, n>>] = f]
              /\ copies' = IF f = "refused" THEN copies
                           ELSE [copies EXCEPT ![<<p, k, n>>] = @ + 1]
  BY <1>2, RelayStep
<1>4. <<v, s>> \in Pair
  BY DEF Pair
<1>5. \A j \in Kind : Posted(<<v, s>>, j)' <=> Posted(<<v, s>>, j)
  BY <1>3, <1>4, SettleStep
<1> QED BY <1>1, <1>5, IdleKept, PairStays

-----------------------------------------------------------------------------
(* Types, and the mails and events after each kind of step.                *)

(* A step that enqueues at most one mail.                                  *)
Posts == UNCHANGED <<fate, copies>> \/ \E p \in Pair, k \in Kind : Post(p, k)

LEMMA PostsStep ==
    ASSUME CalTypeOK, Posts
    PROVE  /\ MailTypeOK'
           /\ \A q \in Pair, j \in Kind : Arrived(q, j)' <=> Arrived(q, j)
           /\ \A q \in Pair : MailsOK(q) => MailsOK(q)'
<1>1. CASE UNCHANGED <<fate, copies>>
  BY <1>1 DEF CalTypeOK, MailTypeOK, Arrived, MailsOK
<1>2. CASE \E p \in Pair, k \in Kind : Post(p, k)
  BY <1>2, PostStep
<1> QED BY <1>1, <1>2 DEF Posts

(* The steps of a handler are steps of ShiftSignup.                        *)
Acts(r) == \/ Sign(r) \/ NotifySignUp(r) \/ Unsign(r) \/ NotifyUnsign(r)
           \/ Flip(r) \/ NotifyFlipped(r) \/ Quiet(r) \/ Break(r)

LEMMA ActsStep ==
    ASSUME TypeOK, NEW r \in Req, Acts(r)
    PROVE  Step(r) /\ Posts /\ UNCHANGED <<event, due>> /\ spoiled \subseteq spoiled'
<1>1. /\ Step(r) /\ UNCHANGED <<event, due>>
      /\ spoiled \subseteq spoiled'
  <2>1. CASE Quiet(r)
    BY <2>1, QuietStep DEF mailVars
  <2>2. CASE \/ Sign(r) \/ NotifySignUp(r) \/ Unsign(r) \/ NotifyUnsign(r)
             \/ Flip(r) \/ NotifyFlipped(r)
    BY <2>2 DEF Sign, NotifySignUp, Unsign, NotifyUnsign, Flip, NotifyFlipped,
                mailVars, Step, SignUp, Remove, Edit
  <2>3. CASE Break(r)
    BY <2>3 DEF Break, mailVars, Step, Fail
  <2> QED BY <2>1, <2>2, <2>3 DEF Acts
<1>2. Posts
  <2>1. CASE Quiet(r) \/ Sign(r) \/ Unsign(r) \/ Flip(r) \/ Break(r)
    BY <2>1 DEF Quiet, Sign, Unsign, Flip, Break, mailVars, Posts
  <2>2. CASE NotifySignUp(r) \/ NotifyUnsign(r)
    <3>1. who[r] \in Volunteer /\ shift[r] \in Shift
      BY <2>2 DEF NotifySignUp, NotifyUnsign, NotifyAssignment, NotifyRemoval, At,
                  TypeOK, HandlersOK, PersonPc
    <3>2. Of(r) \in Pair /\ {"assigned", "removed"} \subseteq Kind
      BY <3>1 DEF Of, Pair, Kind
    <3> QED BY <2>2, <3>2 DEF NotifySignUp, NotifyUnsign, Posts
  <2>3. CASE NotifyFlipped(r)
    <3>1. PICK x \in list[r] :
            Post(<<x, shift[r]>>, IF want[r] THEN "removed" ELSE "restored")
      BY <2>3 DEF NotifyFlipped
    <3>2. <<x, shift[r]>> \in Pair /\ {"removed", "restored"} \subseteq Kind
      BY <3>1 DEF Pair, Kind, TypeOK, HandlersOK
    <3> QED BY <3>1, <3>2 DEF Posts
  <2> QED BY <2>1, <2>2, <2>3 DEF Acts
<1> QED BY <1>1, <1>2

(* The variables of ShiftSignup, after any step.                           *)
LEMMA BaseType ==
    ASSUME TypeOK, [CalNext]_calVars
    PROVE  TypeOK'
<1>1. CASE \E r \in Req : Acts(r)
  BY <1>1, ActsStep, TypeStep DEF Next, Step
<1>2. CASE \E m \in Mail : ReceiveUnheard(m) \/ Lose(m)
  <2>1. faults < MaxFaults /\ faults' = faults + 1
    BY <1>2 DEF ReceiveUnheard, Lose, Fault
  <2>2. faults' \in 0 .. MaxFaults
    BY <2>1, SignupAssumption DEF TypeOK
  <2>3. UNCHANGED <<row, canceled, arrival, auto, day, had, pc, who, shift, seen,
                    first, want, list, told, asked, blurred, muddled, later>>
    BY <1>2 DEF ReceiveUnheard, Lose, dates, handler, history
  <2> QED BY <2>2, <2>3 DEF TypeOK, RowsOK, HandlersOK
<1>3. CASE UNCHANGED vars
  BY <1>3, TypeStep
<1>4. CASE \/ Backfill \/ (\E p \in Pair : NotifyAgain(p)) \/ CalRest
           \/ (\E m \in Mail : Receive(m)) \/ UNCHANGED calVars
  BY <1>3, <1>4 DEF Backfill, NotifyAgain, CalRest, Rest, Receive, calVars
<1> QED BY <1>1, <1>2, <1>4 DEF CalNext, Acts

(* The mails and the calendar.                                             *)
LEMMA MailsStep ==
    ASSUME CalTypeOK, [CalNext]_calVars, \A p \in Pair : EventOK(p)
    PROVE  /\ MailTypeOK'
           /\ event' \in [Pair -> [seq : {-1, 0, 1, 2}, shown : BOOLEAN]]
           /\ due' \subseteq Pair
           /\ \A p \in Pair : EventOK(p)'
           /\ \A p \in Pair \ spoiled' : MailsOK(p) => MailsOK(p)'
           /\ spoiled \subseteq spoiled'
<1>1. CASE Posts /\ UNCHANGED event /\ due' \subseteq Pair /\ spoiled \subseteq spoiled'
  <2>1. event' \in [Pair -> [seq : {-1, 0, 1, 2}, shown : BOOLEAN]]
    BY <1>1 DEF CalTypeOK
  <2>2. \A p \in Pair : EventOK(p)'
    BY <1>1, PostsStep, EventStays
  <2> QED BY <1>1, <2>1, <2>2, PostsStep
<1>2. CASE \E r \in Req : Acts(r)
  BY <1>1, <1>2, ActsStep DEF CalTypeOK
<1>3. CASE Backfill \/ CalRest \/ UNCHANGED calVars
  BY <1>1, <1>3 DEF Backfill, CalRest, calVars, mailVars, Posts, CalTypeOK
<1>4. CASE \E p \in Pair : NotifyAgain(p)
  <2>1. "assigned" \in Kind
    BY DEF Kind
  <2> QED BY <1>1, <1>4, <2>1 DEF NotifyAgain, Posts, CalTypeOK
<1>5. ASSUME NEW m \in Mail, Receive(m) \/ ReceiveUnheard(m) \/ Lose(m)
      PROVE  /\ MailTypeOK'
             /\ event' \in [Pair -> [seq : {-1, 0, 1, 2}, shown : BOOLEAN]]
             /\ due' \subseteq Pair
             /\ \A p \in Pair : EventOK(p)'
             /\ \A p \in Pair \ spoiled' : MailsOK(p) => MailsOK(p)'
             /\ spoiled \subseteq spoiled'
  <2>1. PICK p \in Pair, k \in Kind, n \in 1 .. MaxCopies : m = <<p, k, n>>
    BY DEF Mail
  <2>2. m[1] = p /\ m[2] = k
    BY <2>1
  <2>3. due' \subseteq Pair /\ spoiled \subseteq spoiled'
    BY <1>5 DEF Receive, ReceiveUnheard, Lose, CalTypeOK
  <2>4. PICK f \in {"pending", "delivered", "refused"} :
              /\ Lose(m) <=> f = "refused"
              /\ fate[<<p, k, n>>] = "pending"
              /\ fate' = [fate EXCEPT ![<<p, k, n>>] = f]
              /\ copies' = IF f = "refused" THEN copies
                           ELSE [copies EXCEPT ![<<p, k, n>>] = @ + 1]
    BY <1>5, <2>1, RelayStep
  <2>5. /\ MailTypeOK'
        /\ \A q \in Pair, j \in Kind :
              /\ f # "refused" /\ q = p /\ j = k => Arrived(q, j)'
              /\ ~ (f # "refused" /\ q = p /\ j = k) =>
                    (Arrived(q, j)' <=> Arrived(q, j))
        /\ \A q \in Pair : (f # "refused" \/ q # p) /\ MailsOK(q) => MailsOK(q)'
    BY <2>4, SettleStep
  <2>6. CASE Receive(m) \/ ReceiveUnheard(m)
    <3>1. f # "refused"
      BY <1>5, <2>4, <2>6
      DEF Receive, ReceiveUnheard, Lose, Delivery!Deliver, Delivery!DeliverUnheard,
          Delivery!Refuse, CalTypeOK, MailTypeOK
    <3> DEFINE e == IF Sequence(k) < event[p].seq THEN event[p]
                    ELSE [seq |-> Sequence(k), shown |-> Publishes(k)]
    <3>3. event' = [event EXCEPT ![p] = e]
      BY <2>2, <2>6 DEF Receive, ReceiveUnheard, Put
    <3>4. e \in [seq : {-1, 0, 1, 2}, shown : BOOLEAN]
      <4>1. Sequence(k) \in {-1, 0, 1, 2} /\ Publishes(k) \in BOOLEAN
        BY SequenceType DEF Publishes
      <4>2. event[p] \in [seq : {-1, 0, 1, 2}, shown : BOOLEAN]
        BY DEF CalTypeOK
      <4> QED BY <4>1, <4>2
    <3>5. event' \in [Pair -> [seq : {-1, 0, 1, 2}, shown : BOOLEAN]]
      BY <3>3, <3>4 DEF CalTypeOK
    <3>6. event'[p] = e /\ \A q \in Pair \ {p} : event'[q] = event[q]
      BY <3>3 DEF CalTypeOK
    <3>7. ASSUME NEW q \in Pair PROVE EventOK(q)'
      <4>1. CASE q = p
        <5>1. \A j \in Kind : Arrived(p, j)' <=> Arrived(p, j) \/ j = k
          BY <2>5, <3>1
        <5>2. EventOK(p)'
          BY <3>6, <5>1, EventReplaced
        <5> QED BY <4>1, <5>2
      <4>2. CASE q # p
        BY <2>5, <3>6, <4>2, EventStays
      <4> QED BY <4>1, <4>2
    <3> QED BY <2>3, <2>5, <3>1, <3>5, <3>7
  <2>7. CASE Lose(m)
    <3>1. f = "refused" /\ spoiled' = spoiled \cup {p} /\ UNCHANGED event
      BY <2>2, <2>4, <2>7 DEF Lose
    <3>2. /\ \A q \in Pair, j \in Kind : Arrived(q, j)' <=> Arrived(q, j)
          /\ \A q \in Pair \ {p} : MailsOK(q) => MailsOK(q)'
      BY <2>5, <3>1
    <3>3. \A q \in Pair : EventOK(q)'
      BY <3>1, <3>2, EventStays
    <3>4. event' \in [Pair -> [seq : {-1, 0, 1, 2}, shown : BOOLEAN]]
      BY <3>1 DEF CalTypeOK
    <3> QED BY <2>3, <2>5, <3>1, <3>2, <3>3, <3>4
  <2> QED BY <1>5, <2>6, <2>7
<1> QED BY <1>2, <1>3, <1>4, <1>5 DEF CalNext, Acts

(* What is known of a pair, after any step.                                *)
LEMMA PairCalStep ==
    ASSUME CalTypeOK, TypeOK', [CalNext]_calVars, NEW v \in Volunteer, NEW s \in Shift,
           <<v, s>> \notin spoiled', PairCal(v, s)
    PROVE  PairCal(v, s)'
<1>1. ASSUME NEW r \in Req, Acts(r) PROVE PairCal(v, s)'
  BY <1>1, SignPair, NotifySignUpPair, UnsignPair, NotifyUnsignPair, FlipPair,
     NotifyFlippedPair, QuietPair, BreakPair DEF Acts, CalTypeOK
<1>2. CASE Backfill \/ (\E p \in Pair : NotifyAgain(p))
  BY <1>2, BackfillPair, NotifyAgainPair
<1>3. CASE \E m \in Mail : Receive(m) \/ ReceiveUnheard(m) \/ Lose(m)
  BY <1>3, RelayPair
<1>4. CASE CalRest \/ UNCHANGED calVars
  <2>1. UNCHANGED <<row, canceled, handler, fate, due, restored>>
    BY <1>4 DEF CalRest, Rest, calVars, vars, mailVars
  <2>2. \A j \in Kind : Posted(<<v, s>>, j)' <=> Posted(<<v, s>>, j)
    BY <2>1 DEF Posted
  <2> QED BY <2>1, <2>2, IdleKept, PairStays
<1> QED BY <1>1, <1>2, <1>3, <1>4 DEF CalNext, Acts

LEMMA CalInvInit == CalInit => CalInv
<1> SUFFICES ASSUME CalInit PROVE CalInv
  OBVIOUS
<1>1. fate = [m \in Mail |-> "absent"] /\ copies = [m \in Mail |-> 0]
  BY DEF CalInit, Delivery!Init
<1>2. \A p \in Pair, k \in Kind, n \in 1 .. MaxCopies :
        fate[<<p, k, n>>] = "absent" /\ copies[<<p, k, n>>] = 0
  BY <1>1 DEF Mail
<1>3. CalTypeOK
  <2>1. MailTypeOK
    BY <1>1 DEF MailTypeOK
  <2> QED BY <2>1, InitTypeOK DEF CalInit, CalTypeOK
<1>4. ASSUME NEW p \in Pair PROVE EventOK(p) /\ MailsOK(p)
  BY <1>2 DEF CalInit, EventOK, Arrived, MailsOK
<1>5. ASSUME NEW v \in Volunteer, NEW s \in Shift
      PROVE  PairCal(v, s) /\ MailsOK(<<v, s>>)
  <2>1. <<v, s>> \in Pair /\ {"assigned", "removed", "restored"} = Kind
    BY DEF Pair, Kind
  <2>2. \A k \in Kind : ~ Posted(<<v, s>>, k)
    BY <1>2, <2>1 DEF Posted
  <2>3. row[v][s] = "none" /\ due = {} /\ restored = {} /\ \A r \in Req : pc[r] = "idle"
    BY DEF CalInit, Init
  <2>4. \A r \in Req : Apart(r, v, s)
    BY <2>3, PcApart DEF PartPc, ArrivalPc
  <2>5. PairCal(v, s)
    BY <2>1, <2>2, <2>3, <2>4 DEF PairCal, HandlerOK, PostsOK, DebtsOK, Apart
  <2> QED BY <1>4, <2>1, <2>5
<1> QED BY <1>3, <1>4, <1>5 DEF CalInv

LEMMA CalInvStep == CalInv /\ [CalNext]_calVars => CalInv'
<1> SUFFICES ASSUME CalInv, [CalNext]_calVars PROVE CalInv'
  OBVIOUS
<1>1. CalTypeOK /\ TypeOK
  BY DEF CalInv, CalTypeOK
<1>2. TypeOK'
  BY <1>1, BaseType
<1>3. /\ CalTypeOK' /\ \A p \in Pair : EventOK(p)'
      /\ \A p \in Pair \ spoiled' : MailsOK(p) => MailsOK(p)'
      /\ spoiled \subseteq spoiled'
  BY <1>1, <1>2, MailsStep DEF CalInv, CalTypeOK
<1>4. ASSUME NEW v \in Volunteer, NEW s \in Shift, <<v, s>> \notin spoiled'
      PROVE  PairCal(v, s)' /\ MailsOK(<<v, s>>)'
  <2>1. <<v, s>> \in Pair /\ PairCal(v, s) /\ MailsOK(<<v, s>>)
    BY <1>3, <1>4 DEF CalInv, Pair
  <2> QED BY <1>1, <1>2, <1>3, <1>4, <2>1, PairCalStep
<1> QED BY <1>3, <1>4 DEF CalInv

(* Once nothing is under way, the delivered mail with the greatest         *)
(* SEQUENCE is the one the tables call for.                                *)
LEMMA CalmIsRight ==
    ASSUME CalInv, NEW v \in Volunteer, NEW s \in Shift, <<v, s>> \notin spoiled,
           Calm(<<v, s>>)
    PROVE  Right(<<v, s>>)
<1> DEFINE p == <<v, s>>
<1>1. p \in Pair /\ p[1] = v /\ p[2] = s /\ PairCal(v, s) /\ MailsOK(p) /\ EventOK(p)
  BY DEF Pair, CalInv
<1>2. TypeOK /\ row[v][s] \in {"none", "in", "out"} /\ canceled[s] \in BOOLEAN
  BY DEF CalInv, CalTypeOK, TypeOK, RowsOK
<1>3. \A r \in Req : Apart(r, v, s)
  BY <1>2, OtherApart DEF Calm
<1>4. ASSUME NEW k \in Kind PROVE Posted(p, k) <=> Arrived(p, k)
  <2>1. \A n \in 1 .. MaxCopies : <<p, k, n>> \in Mail /\ <<p, k, n>>[1] = p
    BY <1>1 DEF Mail
  <2>2. \A n \in 1 .. MaxCopies : fate[<<p, k, n>>] \in {"absent", "delivered"}
    BY <1>1, <2>1 DEF Calm, MailsOK, CalInv, CalTypeOK, MailTypeOK
  <2>3. \A n \in 1 .. MaxCopies :
          copies[<<p, k, n>>] # 0 <=> fate[<<p, k, n>>] = "delivered"
    BY <2>1, <2>2 DEF CalInv, CalTypeOK, MailTypeOK
  <2> QED BY <2>2, <2>3 DEF Posted, Arrived
<1>5. "assigned" \in Kind /\ "removed" \in Kind /\ "restored" \in Kind
  BY DEF Kind
<1>6. Sequence("assigned") = 0 /\ Sequence("removed") = 1 /\ Sequence("restored") = 2
  BY DEF Sequence
<1>7. /\ event[p].seq = -1 => ~ event[p].shown
      /\ event[p].seq \in {-1, 0, 1, 2}
      /\ event[p].seq = 0 => event[p].shown /\ Arrived(p, "assigned")
      /\ event[p].seq = 1 => ~ event[p].shown /\ Arrived(p, "removed")
      /\ event[p].seq = 2 => event[p].shown /\ Arrived(p, "restored")
      /\ Arrived(p, "assigned") => event[p].seq >= 0
      /\ Arrived(p, "removed") => event[p].seq >= 1
      /\ Arrived(p, "restored") => event[p].seq >= 2
  <2>1. event[p] \in [seq : {-1, 0, 1, 2}, shown : BOOLEAN]
    BY <1>1 DEF CalInv, CalTypeOK
  <2>2. event[p].seq # -1 => \E k \in {"assigned", "removed", "restored"} :
            /\ Arrived(p, k) /\ Sequence(k) = event[p].seq
            /\ event[p].shown = (k # "removed")
    BY <1>1 DEF EventOK, Kind, Publishes
  <2>3. /\ event[p].seq = -1 => ~ event[p].shown
        /\ \A k \in Kind : Arrived(p, k) => Sequence(k) <= event[p].seq
    BY <1>1 DEF EventOK
  <2> HIDE DEF p
  <2> QED BY <1>5, <1>6, <2>1, <2>2, <2>3
<1>8. CASE row[v][s] = "none"
  <2>1. \A k \in Kind : ~ Arrived(p, k)
    BY <1>1, <1>4, <1>8 DEF PairCal, PostsOK
  <2>2. ~ event[p].shown
    BY <1>5, <1>7, <2>1
  <2> QED BY <1>8, <2>2 DEF Right
<1>9. CASE row[v][s] = "out"
  <2>1. Arrived(p, "removed") /\ ~ Arrived(p, "restored")
    BY <1>1, <1>3, <1>4, <1>5, <1>9 DEF PairCal, PostsOK, DebtsOK, Apart
  <2>2. ~ event[p].shown
    BY <1>7, <2>1
  <2> QED BY <1>9, <2>2 DEF Right
<1>10. CASE row[v][s] = "in" /\ canceled[s]
  <2>1. Arrived(p, "removed") /\ ~ Arrived(p, "restored")
    BY <1>1, <1>3, <1>4, <1>5, <1>10 DEF PairCal, PostsOK, DebtsOK, OwesRemoval, Apart
  <2>2. ~ event[p].shown
    BY <1>7, <2>1
  <2> QED BY <1>10, <2>2 DEF Right
<1>11. CASE row[v][s] = "in" /\ ~ canceled[s]
  <2>1. Arrived(p, "assigned")
    BY <1>1, <1>3, <1>4, <1>5, <1>11 DEF PairCal, DebtsOK, Apart
  <2>2. Arrived(p, "removed") => s \in restored
    BY <1>1, <1>4, <1>5, <1>11 DEF PairCal, PostsOK
  <2>3. Arrived(p, "removed") => Arrived(p, "restored")
    BY <1>1, <1>3, <1>4, <1>5, <1>11, <2>2 DEF PairCal, DebtsOK, OwesRemoval, Apart
  <2>4. event[p].shown
    BY <1>7, <2>1, <2>3
  <2> QED BY <1>11, <2>4 DEF Right
<1> QED BY <1>2, <1>8, <1>9, <1>10, <1>11

(* However sign-ups, removals, cancellations, restorations, the job and    *)
(* the mails overtake each other: once they have arrived, the calendar     *)
(* shows the event of a pair that nothing spoiled exactly when she works.  *)
THEOREM CalendarRight == CalSpec => []CalendarAgrees
<1>1. CalInv => CalendarAgrees
  <2> SUFFICES ASSUME CalInv, NEW p \in Pair \ spoiled, Calm(p) PROVE Right(p)
    BY DEF CalendarAgrees
  <2>1. PICK v \in Volunteer, s \in Shift : p = <<v, s>>
    BY DEF Pair
  <2> QED BY <2>1, CalmIsRight
<1> QED BY <1>1, CalInvInit, CalInvStep, PTL DEF CalSpec
=============================================================================

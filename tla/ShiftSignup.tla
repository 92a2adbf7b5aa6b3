---------------------------- MODULE ShiftSignup ----------------------------
(***************************************************************************)
(* Signing up for a shift and leaving it (shifts/[timeId]/volunteers,      *)
(* components/api/shiftVolunteers.ts), the arrival date the sign-up sets   *)
(* (components/api/arrivalAutoSet.ts), and the shift editor that cancels   *)
(* or restores a shift, tells everybody on it, and may move the shift to   *)
(* another day without a word (shifts/types/[typeId]).  No handler of      *)
(* these uses a transaction or a lock: one action per await, and any two   *)
(* requests interleave.                                                    *)
(*                                                                         *)
(* A shift stands for one position of one shift time.  A notice is a call  *)
(* of enqueueEmail; MailQueue says what becomes of it.  Attendance         *)
(* (noshow), reviews and the points of a position are left out.            *)
(***************************************************************************)
EXTENDS Integers, FiniteSets, FiniteSetsExt

CONSTANTS
    Volunteer,      \* shiftboard_id
    Shift,          \* time_position_id
    DateOf,         \* the day each shift starts before anybody edits it, or 0
    Known,          \* the days of op_dates
    OpenSun,        \* the Sunday the gates open
    Req,            \* request handlers that may run at the same time
    Nobody,         \* in place of a volunteer: the handler edits the shift
    MaxRequests,    \* bound: requests of a behaviour
    MaxFaults       \* bound: steps that fail

ASSUME SignupAssumption ==
    /\ Shift # {}
    /\ Known \subseteq Nat \ {0}
    /\ DateOf \in [Shift -> Known \cup {0}]
    /\ OpenSun \in Nat
    /\ Nobody \notin Volunteer
    /\ MaxRequests \in Nat /\ MaxFaults \in Nat

VARIABLES
    row,            \* op_volunteer_shifts: no row, signed up, or removed
    canceled,       \* op_shift_times.canceled
    arrival, auto,  \* op_volunteers: arrival date (0 is NULL), arrival_auto_set
    day,            \* op_shift_times.start_date_id (0 is NULL)
    \* each handler: where it is, the volunteer and the shift it is about,
    \* what its SELECTs returned, the flag on the form, who is left to tell
    pc, who, shift, seen, first, want, list,
    told,           \* the last notice sent to a volunteer about a shift
    asked, faults,  \* counted for the bounds
    \* history: pairs whose requests overlapped or failed, volunteers whose
    \* did, volunteers who after their last sign-up chose a date or had a
    \* shift moved forward; and the days a shift has had
    blurred, muddled, later, had

dates   == <<arrival, auto, day, had>>
handler == <<pc, who, shift, seen, first, want, list>>
history == <<blurred, muddled, later>>
vars    == <<row, canceled, dates, handler, told, asked, faults, history>>

Notice == {"none", "assigned", "removed", "canceled", "restored"}
ArrivalPc == {"eligible", "arrival", "set"}
PersonPc == {"check", "find", "write", "assigned", "remove", "removed"} \cup ArrivalPc
EditPc == {"prior", "update", "list", "fan"}
Pc == {"idle"} \cup PersonPc \cup EditPc

-----------------------------------------------------------------------------
(* The day before the shift or, where op_dates lacks it, the day itself.   *)
Target(d) == IF d - 1 \in Known THEN d - 1 ELSE d

(* The days that call for early entry among those v is signed up for.      *)
EarlyDays(v) ==
    {d \in {day[s] : s \in {x \in Shift : row[v][x] = "in"}} : d \in 1 .. OpenSun}

(* Mutant: the latest of them.                                             *)
LatestDay(v) == IF EarlyDays(v) = {} THEN 0 ELSE Max(EarlyDays(v))

(* SELECT MIN(d.date), 0 for NULL.                                         *)
FirstDay(v) == IF EarlyDays(v) = {} THEN 0 ELSE Min(EarlyDays(v))

(* Handler r works for the pair of a volunteer and a shift.                *)
Touches(r, v, s) == pc[r] # "idle" /\ shift[r] = s /\ who[r] \in {v, Nobody}
WorksFor(r, v)   == pc[r] # "idle" /\ who[r] = v

Overlapping(V, s) ==
    {p \in V \X {s} : \E r \in Req : Touches(r, p[1], p[2])}
OverlapFor(v) == {x \in {v} : \E r \in Req : WorksFor(r, x)}

-----------------------------------------------------------------------------
Init ==
    /\ row = [v \in Volunteer |-> [s \in Shift |-> "none"]]
    /\ canceled = [s \in Shift |-> FALSE]
    /\ arrival = [v \in Volunteer |-> 0]
    /\ auto = [v \in Volunteer |-> FALSE]
    /\ day = DateOf
    /\ pc = [r \in Req |-> "idle"]
    /\ who = [r \in Req |-> Nobody]
    /\ shift = [r \in Req |-> CHOOSE s \in Shift : TRUE]
    /\ seen = [r \in Req |-> FALSE]
    /\ first = [r \in Req |-> 0]
    /\ want = [r \in Req |-> FALSE]
    /\ list = [r \in Req |-> {}]
    /\ told = [v \in Volunteer |-> [s \in Shift |-> "none"]]
    /\ asked = 0 /\ faults = 0
    /\ blurred = {} /\ muddled = {}
    /\ later = [v \in Volunteer |-> FALSE]
    /\ had = [s \in Shift |-> {DateOf[s]}]

Goto(r, l) == pc' = [pc EXCEPT ![r] = l]

(* The handler answers and forgets what it has read.                       *)
End(r) ==
    /\ Goto(r, "idle")
    /\ who' = [who EXCEPT ![r] = Nobody]
    /\ shift' = [shift EXCEPT ![r] = CHOOSE s \in Shift : TRUE]
    /\ seen' = [seen EXCEPT ![r] = FALSE]
    /\ first' = [first EXCEPT ![r] = 0]
    /\ want' = [want EXCEPT ![r] = FALSE]
    /\ list' = [list EXCEPT ![r] = {}]

(* A request about v and s arrives.                                        *)
Begin(r, v, s, l) ==
    /\ pc[r] = "idle"
    /\ asked < MaxRequests
    /\ asked' = asked + 1
    /\ Goto(r, l)
    /\ who' = [who EXCEPT ![r] = v]
    /\ shift' = [shift EXCEPT ![r] = s]

At(r, l) == pc[r] = l /\ UNCHANGED asked

Tell(v, s, n) == told' = [told EXCEPT ![v][s] = n]

-----------------------------------------------------------------------------
(* POST: sign up v for s.                                                  *)
SignUpBegin(r) == \E v \in Volunteer, s \in Shift :
    /\ Begin(r, v, s, "check")
    /\ blurred' = blurred \cup Overlapping({v}, s)
    /\ muddled' = muddled \cup OverlapFor(v)
    /\ UNCHANGED <<row, canceled, dates, seen, first, want, list, told,
                   faults, later>>

CheckCanceled(r) ==
    /\ At(r, "check")
    /\ IF canceled[shift[r]]
       THEN End(r)
       ELSE Goto(r, "find") /\ UNCHANGED <<who, shift, seen, first, want, list>>
    /\ UNCHANGED <<row, canceled, dates, told, faults, history>>

FindRow(r) ==
    /\ At(r, "find")
    /\ seen' = [seen EXCEPT ![r] = row[who[r]][shift[r]] # "none"]
    /\ Goto(r, "write")
    /\ UNCHANGED <<row, canceled, dates, who, shift, first, want, list, told,
                   faults, history>>

(* The UPDATE of the row it found, or the INSERT.                          *)
WriteRow(r) ==
    /\ At(r, "write")
    /\ seen[r] \/ row[who[r]][shift[r]] = "none"
    /\ row' = [row EXCEPT ![who[r]][shift[r]] = "in"]
    /\ Goto(r, "eligible")
    /\ UNCHANGED <<canceled, dates, who, shift, seen, first, want, list, told,
                   faults, history>>

(* The INSERT meets a row somebody wrote meanwhile: duplicate key, 500.    *)
DuplicateRow(r) ==
    /\ At(r, "write")
    /\ ~ seen[r] /\ row[who[r]][shift[r]] # "none"
    /\ End(r)
    /\ UNCHANGED <<row, canceled, dates, told, faults, history>>

(* autoSetArrival: the first day that calls for early entry ...            *)
FirstEligible(r) ==
    /\ At(r, "eligible")
    /\ first' = [first EXCEPT ![r] = FirstDay(who[r])]
    /\ IF FirstDay(who[r]) = 0
       THEN Goto(r, "assigned") /\ later' = [later EXCEPT ![who[r]] = FALSE]
       ELSE Goto(r, "arrival") /\ UNCHANGED later
    /\ UNCHANGED <<row, canceled, dates, who, shift, seen, want, list, told,
                   faults, blurred, muddled>>

(* Mutant: whatever the date is.                                           *)
NeedsSetAlways(v, d) == TRUE

NeedsSet(v, d) == arrival[v] = 0 \/ arrival[v] > d

(* ... the date on record, against the day before that ...                 *)
ReadArrival(r) ==
    /\ At(r, "arrival")
    /\ IF NeedsSet(who[r], Target(first[r]))
       THEN Goto(r, "set") /\ UNCHANGED later
       ELSE Goto(r, "assigned") /\ later' = [later EXCEPT ![who[r]] = FALSE]
    /\ UNCHANGED <<row, canceled, dates, who, shift, seen, first, want, list,
                   told, faults, blurred, muddled>>

(* Mutant: the day of the shift.                                           *)
SetShiftDay(r) ==
    /\ At(r, "set")
    /\ arrival' = [arrival EXCEPT ![who[r]] = first[r]]
    /\ auto' = [auto EXCEPT ![who[r]] = TRUE]
    /\ later' = [later EXCEPT ![who[r]] = FALSE]
    /\ Goto(r, "assigned")
    /\ UNCHANGED <<row, canceled, day, had, who, shift, seen, first, want, list,
                   told, faults, blurred, muddled>>

(* ... and the UPDATE, which does not look at the date again.              *)
SetArrival(r) ==
    /\ At(r, "set")
    /\ arrival' = [arrival EXCEPT ![who[r]] = Target(first[r])]
    /\ auto' = [auto EXCEPT ![who[r]] = TRUE]
    /\ later' = [later EXCEPT ![who[r]] = FALSE]
    /\ Goto(r, "assigned")
    /\ UNCHANGED <<row, canceled, day, had, who, shift, seen, first, want, list,
                   told, faults, blurred, muddled>>

NotifyAssignment(r) ==
    /\ At(r, "assigned")
    /\ Tell(who[r], shift[r], "assigned")
    /\ End(r)
    /\ UNCHANGED <<row, canceled, dates, faults, history>>

-----------------------------------------------------------------------------
(* DELETE: remove v from s.                                                *)
RemoveBegin(r) == \E v \in Volunteer, s \in Shift :
    /\ Begin(r, v, s, "remove")
    /\ blurred' = blurred \cup Overlapping({v}, s)
    /\ muddled' = muddled \cup OverlapFor(v)
    /\ UNCHANGED <<row, canceled, dates, seen, first, want, list, told,
                   faults, later>>

RemoveRow(r) ==
    /\ At(r, "remove")
    /\ row' = [row EXCEPT ![who[r]][shift[r]] = IF @ = "in" THEN "out" ELSE @]
    /\ Goto(r, "removed")
    /\ UNCHANGED <<canceled, dates, who, shift, seen, first, want, list, told,
                   faults, history>>

(* The context query of the notice finds the row, removed or not.          *)
NotifyRemoval(r) ==
    /\ At(r, "removed")
    /\ IF row[who[r]][shift[r]] # "none"
       THEN Tell(who[r], shift[r], "removed")
       ELSE UNCHANGED told
    /\ End(r)
    /\ UNCHANGED <<row, canceled, dates, faults, history>>

-----------------------------------------------------------------------------
(* PATCH of the shift type: the form carries the canceled flag.            *)
EditBegin(r) == \E s \in Shift, c \in BOOLEAN :
    /\ Begin(r, Nobody, s, "prior")
    /\ want' = [want EXCEPT ![r] = c]
    /\ blurred' = blurred \cup Overlapping(Volunteer, s)
    /\ UNCHANGED <<row, canceled, dates, seen, first, list, told, faults,
                   muddled, later>>

(* wasCanceledMap.                                                         *)
ReadPrior(r) ==
    /\ At(r, "prior")
    /\ seen' = [seen EXCEPT ![r] = canceled[shift[r]]]
    /\ Goto(r, "update")
    /\ UNCHANGED <<row, canceled, dates, who, shift, first, want, list, told,
                   faults, history>>

(* Those on the shift whom day d calls in earlier than its day does.       *)
CalledForward(s, d) ==
    {v \in Volunteer : /\ row[v][s] = "in"
                       /\ d \in 1 .. OpenSun
                       /\ day[s] = 0 \/ d < day[s]}

(* The UPDATE writes the day of the form too, NULL where op_dates lacks it.*)
(* Nobody's arrival is looked at.  No other step reads that day: it is     *)
(* chosen here.                                                            *)
UpdateTime(r) ==
    /\ At(r, "update")
    /\ canceled' = [canceled EXCEPT ![shift[r]] = want[r]]
    /\ \E d \in Known \cup {0} :
          LET V == CalledForward(shift[r], d) IN
          /\ day' = [day EXCEPT ![shift[r]] = d]
          /\ had' = [had EXCEPT ![shift[r]] = @ \cup {d}]
          /\ later' = [v \in Volunteer |-> later[v] \/ v \in V]
          /\ muddled' = muddled \cup UNION {OverlapFor(v) : v \in V}
    /\ IF seen[r] = want[r]
       THEN End(r)
       ELSE Goto(r, "list") /\ UNCHANGED <<who, shift, seen, first, want, list>>
    /\ UNCHANGED <<row, arrival, auto, told, faults, blurred>>

ListAssigned(r) ==
    /\ At(r, "list")
    /\ LET on == {v \in Volunteer : row[v][shift[r]] = "in"} IN
       IF on = {}
       THEN End(r)
       ELSE /\ list' = [list EXCEPT ![r] = on]
            /\ Goto(r, "fan")
            /\ UNCHANGED <<who, shift, seen, first, want>>
    /\ UNCHANGED <<row, canceled, dates, told, faults, history>>

(* The loop goes on with the others, and ends after the last.              *)
NextOf(r, v) ==
    IF list[r] = {v}
    THEN End(r)
    ELSE /\ list' = [list EXCEPT ![r] = @ \ {v}]
         /\ UNCHANGED <<pc, who, shift, seen, first, want>>

NotifyFlip(r) ==
    /\ At(r, "fan")
    /\ \E v \in list[r] :
        /\ Tell(v, shift[r], IF want[r] THEN "canceled" ELSE "restored")
        /\ NextOf(r, v)
    /\ UNCHANGED <<row, canceled, dates, faults, history>>

-----------------------------------------------------------------------------
(* PATCH of the volunteer's information: she chooses her arrival herself.  *)
ChooseArrival == \E v \in Volunteer, d \in Known :
    /\ asked < MaxRequests
    /\ asked' = asked + 1
    /\ arrival' = [arrival EXCEPT ![v] = d]
    /\ auto' = [auto EXCEPT ![v] = FALSE]
    /\ muddled' = muddled \cup OverlapFor(v)
    /\ later' = [later EXCEPT ![v] = TRUE]
    /\ UNCHANGED <<row, canceled, day, had, handler, told, faults, blurred>>

-----------------------------------------------------------------------------
Fault == faults < MaxFaults /\ faults' = faults + 1

(* An uncaught error or the end of the process.  A statement whose reply   *)
(* is lost has taken effect: that is this step after it.                   *)
Stop(r) ==
    /\ pc[r] # "idle" /\ UNCHANGED asked
    /\ Fault
    /\ End(r)
    /\ blurred' = blurred \cup
           {p \in Volunteer \X Shift : Touches(r, p[1], p[2])}
    /\ muddled' = muddled \cup {v \in Volunteer : who[r] = v}
    /\ UNCHANGED <<row, canceled, dates, told, later>>

(* autoSetArrival throws: logged, and the sign-up goes on.                 *)
ArrivalFails(r) ==
    /\ pc[r] \in ArrivalPc /\ UNCHANGED asked
    /\ Fault
    /\ Goto(r, "assigned")
    /\ muddled' = muddled \cup {who[r]}
    /\ UNCHANGED <<row, canceled, dates, who, shift, seen, first, want, list,
                   told, blurred, later>>

(* Mutant: it ends the loop.                                               *)
NoticeEndsLoop(r) ==
    /\ At(r, "fan")
    /\ Fault
    /\ End(r)
    /\ \E v \in list[r] : blurred' = blurred \cup {<<v, shift[r]>>}
    /\ UNCHANGED <<row, canceled, dates, told, muddled, later>>

(* One notice of the fan-out throws: logged, the next one follows.         *)
NoticeFails(r) ==
    /\ At(r, "fan")
    /\ Fault
    /\ \E v \in list[r] :
        /\ NextOf(r, v)
        /\ blurred' = blurred \cup {<<v, shift[r]>>}
    /\ UNCHANGED <<row, canceled, dates, told, muddled, later>>

-----------------------------------------------------------------------------
SignUp(r) ==
    \/ SignUpBegin(r) \/ CheckCanceled(r) \/ FindRow(r) \/ WriteRow(r)
    \/ DuplicateRow(r) \/ FirstEligible(r) \/ ReadArrival(r) \/ SetArrival(r)
    \/ NotifyAssignment(r)
Remove(r) == RemoveBegin(r) \/ RemoveRow(r) \/ NotifyRemoval(r)
Edit(r) ==
    \/ EditBegin(r) \/ ReadPrior(r) \/ UpdateTime(r) \/ ListAssigned(r)
    \/ NotifyFlip(r)
Fail(r) == Stop(r) \/ ArrivalFails(r) \/ NoticeFails(r)

(* The bound on requests is used up.                                       *)
Rest ==
    /\ asked = MaxRequests /\ \A r \in Req : pc[r] = "idle"
    /\ UNCHANGED vars

Next ==
    \/ \E r \in Req : SignUp(r) \/ Remove(r) \/ Edit(r) \/ Fail(r)
    \/ ChooseArrival
    \/ Rest

Spec == Init /\ [][Next]_vars

-----------------------------------------------------------------------------
RowsOK ==
    /\ row \in [Volunteer -> [Shift -> {"none", "in", "out"}]]
    /\ canceled \in [Shift -> BOOLEAN]
    /\ arrival \in [Volunteer -> Known \cup {0}]
    /\ auto \in [Volunteer -> BOOLEAN]
    /\ day \in [Shift -> Known \cup {0}]
    /\ told \in [Volunteer -> [Shift -> Notice]]

HandlersOK ==
    /\ pc \in [Req -> Pc]
    /\ who \in [Req -> Volunteer \cup {Nobody}]
    /\ shift \in [Req -> Shift]
    /\ seen \in [Req -> BOOLEAN]
    /\ first \in [Req -> Known \cup {0}]
    /\ want \in [Req -> BOOLEAN]
    /\ list \in [Req -> SUBSET Volunteer]

(* The types of the variables: dates on record are days of the event, and  *)
(* a handler of a request about a person is never in a step of an edit.    *)
TypeOK ==
    /\ RowsOK /\ HandlersOK
    /\ \A r \in Req : /\ (pc[r] \in PersonPc => who[r] \in Volunteer)
                       /\ (pc[r] \in EditPc => who[r] = Nobody)
    /\ asked \in 0 .. MaxRequests /\ faults \in 0 .. MaxFaults
    /\ blurred \subseteq Volunteer \X Shift
    /\ muddled \subseteq Volunteer
    /\ later \in [Volunteer -> BOOLEAN]
    /\ had \in [Shift -> SUBSET (Known \cup {0})]

(* The last notice says that v works on s exactly when she does.           *)
Good(v, s)  == told[v][s] \in {"assigned", "restored"}
Agree(v, s) == (row[v][s] = "in" /\ ~ canceled[s]) <=> Good(v, s)

(* v arrives in time for every early shift she is on.                      *)
InTime(v) == \A d \in EarlyDays(v) : arrival[v] \in 1 .. Target(d)

(* When nothing is under way for a volunteer and a shift, and their        *)
(* requests and the edits of the shift came one after the other without a  *)
(* failure of their own, the last notice is right about whether she works: *)
(* however many sign-ups, removals, cancellations and restorations there   *)
(* were, and whatever failed for the others on the shift.                  *)
NoticesAgree == \A v \in Volunteer, s \in Shift :
    <<v, s>> \notin blurred /\ (\A r \in Req : ~ Touches(r, v, s)) => Agree(v, s)

(* A volunteer whose last word was a sign-up (not the date form) arrives   *)
(* in time for every early shift she is on.  A removal in between changes  *)
(* nothing, requests of other volunteers neither, nor edits, but for one   *)
(* that has since moved a shift of hers forward.                           *)
ArrivalInTime == \A v \in Volunteer \ muddled :
    ~ later[v] /\ (\A r \in Req : ~ WorksFor(r, v)) => InTime(v)

(* An arrival the application has set is never a date of its own           *)
(* invention: it belongs to an early day of a shift the volunteer has or   *)
(* had.  This survives every overlap, every failure and every edit.        *)
AutoDateGrounded == \A v \in Volunteer :
    auto[v] => \E s \in Shift : \E d \in had[s] :
                   /\ row[v][s] # "none" /\ d \in 1 .. OpenSun
                   /\ arrival[v] = Target(d)

(* "So we never move an earlier, self-chosen arrival": setting the date    *)
(* only ever brings it forward, for the volunteers whose requests did not  *)
(* overlap.                                                                *)
NeverPostponed ==
    [][\A v \in Volunteer \ muddled :
          auto'[v] /\ arrival'[v] # arrival[v] =>
              arrival[v] = 0 \/ arrival'[v] < arrival[v]]_vars
=============================================================================

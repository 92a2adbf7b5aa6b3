----------------------------- MODULE ShiftNudge -----------------------------
(***************************************************************************)
(* Attendance (the check-in and review of components/api/shiftVolunteers,  *)
(* the walk-up check-in of a tablet) and the job that wraps a shift up     *)
(* about an hour after its end (lib/shiftLeadNudge, api/cron): it mails    *)
(* the leads, makes whoever is still pending a no-show, and marks the      *)
(* shift.  Runs of the job read everything in one SELECT and then work     *)
(* through the shifts one statement at a time; two runs may overlap.       *)
(*                                                                         *)
(* Sign-up and removal are one step each here (ShiftSignup has theirs);    *)
(* every lead has an address; positions and shifts are not deleted.        *)
(***************************************************************************)
EXTENDS Integers, FiniteSets, FiniteSetsExt

CONSTANTS
    Volunteer,
    Shift,          \* shift_times_id
    Lead,           \* pairs: the volunteer's position on the shift is a lead's
    Training,       \* shifts that the form of another shift can add
    Roster,         \* pairs: who is signed up at the beginning
    Coordinators,   \* COORDINATOR_EMAIL
    Run,            \* runs of the job that may be in progress together
    MaxChanges,     \* bound: what people change in a behaviour
    MaxFaults       \* bound: steps that fail

ASSUME NudgeAssumption ==
    /\ Shift \subseteq Nat /\ IsFiniteSet(Volunteer)
    /\ Lead \subseteq Volunteer \X Shift /\ Roster \subseteq Volunteer \X Shift
    /\ Training \subseteq Shift
    /\ Coordinators \notin Volunteer
    /\ MaxChanges \in Nat /\ MaxFaults \in Nat

VARIABLES
    phase,          \* where the clock stands relative to the shift's times
    canceled,       \* op_shift_times.canceled
    on,             \* op_volunteer_shifts: a row that is not removed
    att,            \* noshow: no row yet, pending (X), here (''), absent (Yes)
    rated,          \* rating > 0
    gate,           \* walk-up check-ins that have passed the window's check
    marked,         \* op_shift_lead_nudge
    \* each run: where it is, catch-up or not, for each shift still to do the
    \* addresses, and the addresses the catch-up has still to mail
    pc, catchup, to, left,
    told,           \* how often an address was mailed about a shift (0, 1, more)
    changes, faults,    \* counted for the bounds
    \* history: shifts two runs took at once, or a run mailed about and then
    \* failed; shifts whose times were edited; who was signed up as pending
    \* when the shift was over already
    blurred, moved, outdated

attendance == <<on, att, rated>>
job        == <<pc, catchup, to, left>>
vars       == <<phase, canceled, attendance, gate, marked, job, told, changes,
                faults, blurred, moved, outdated>>

Attendance == {"none", "pending", "here", "absent"}
Phase == {"future", "during", "due", "old"}
RunPc == {"idle", "mail", "finalize", "mark"}
Address == Volunteer \cup {Coordinators}

-----------------------------------------------------------------------------
(* What the job makes of a shift.                                          *)

NonLeads(s) == {v \in Volunteer : on[v][s] /\ <<v, s>> \notin Lead}

Unreviewed(s)   == {v \in NonLeads(s) : att[v][s] = "here" /\ ~ rated[v][s]}
NotCheckedIn(s) == {v \in NonLeads(s) : att[v][s] # "here"}

(* Somebody is checked in but not reviewed, or more than 30% of those who  *)
(* are not leads have not been checked in.                                 *)
ShouldNudge(s) ==
    \/ Unreviewed(s) # {}
    \/ 10 * Cardinality(NotCheckedIn(s)) > 3 * Cardinality(NonLeads(s))

(* Mutant: marked shifts are selected again.                               *)
CandidateAgain(s, all) ==
    /\ \E v \in Volunteer : on[v][s]
    /\ ~ canceled[s]
    /\ phase[s] = "due" \/ (all /\ phase[s] = "old")

(* Ended over an hour ago, and not too long ago unless all are wanted.     *)
Candidate(s, all) ==
    /\ \E v \in Volunteer : on[v][s]
    /\ ~ canceled[s] /\ s \notin marked
    /\ phase[s] = "due" \/ (all /\ phase[s] = "old")

Qualifies(s, all) == Candidate(s, all) /\ ShouldNudge(s)

LeadsOn(s) == {v \in Volunteer : on[v][s] /\ <<v, s>> \in Lead}

Recipients(s) == IF LeadsOn(s) = {} THEN {Coordinators} ELSE LeadsOn(s)

Todo(r) == {s \in Shift : to[r][s] # {}}

(* The shifts come ordered by their ids.                                   *)
Current(r) == Min(Todo(r))

-----------------------------------------------------------------------------
Init ==
    /\ phase = [s \in Shift |-> "future"]
    /\ canceled = [s \in Shift |-> FALSE]
    /\ on = [v \in Volunteer |-> [s \in Shift |-> <<v, s>> \in Roster]]
    /\ att = [v \in Volunteer |-> [s \in Shift |->
                 IF <<v, s>> \in Roster THEN "pending" ELSE "none"]]
    /\ rated = [v \in Volunteer |-> [s \in Shift |-> FALSE]]
    /\ gate = {} /\ marked = {}
    /\ pc = [r \in Run |-> "idle"]
    /\ catchup = [r \in Run |-> FALSE]
    /\ to = [r \in Run |-> [s \in Shift |-> {}]]
    /\ left = [r \in Run |-> {}]
    /\ told = [s \in Shift |-> [p \in Address |-> 0]]
    /\ changes = 0 /\ faults = 0
    /\ blurred = {} /\ moved = {} /\ outdated = {}

-----------------------------------------------------------------------------
(* Time, and the form that edits a shift's times or cancels it.            *)

After == [future |-> "during", during |-> "due", due |-> "old"]

TimePasses(s) ==
    /\ phase[s] # "old"
    /\ phase' = [phase EXCEPT ![s] = After[@]]
    /\ UNCHANGED <<canceled, attendance, gate, marked, job, told, changes,
                   faults, blurred, moved, outdated>>

Change == changes < MaxChanges /\ changes' = changes + 1

Reschedule(s) == \E p \in Phase \ {phase[s]} :
    /\ Change
    /\ phase' = [phase EXCEPT ![s] = p]
    /\ moved' = moved \cup {s}
    /\ UNCHANGED <<canceled, attendance, gate, marked, job, told, faults,
                   blurred, outdated>>

Cancel(s) ==
    /\ Change
    /\ canceled' = [canceled EXCEPT ![s] = ~ @]
    /\ UNCHANGED <<phase, attendance, gate, marked, job, told, faults, blurred,
                   moved, outdated>>

-----------------------------------------------------------------------------
(* Sign-up.  The form computes the value when it is drawn: pending for a   *)
(* shift still to come, here once check-in has begun.  Its clock is read   *)
(* once, when the application is loaded, so a page that has been open for  *)
(* long shows any earlier time; only a page whose shift was moved since    *)
(* may be ahead.                                                           *)
Begun(x) == phase[x] # "future" \/ x \in moved

FormValues(x) == {"pending"} \cup (IF Begun(x) THEN {"here"} ELSE {})

Over(s) == phase[s] \in {"due", "old"}

(* The value that the form of shift x sends, for x or with the training it *)
(* adds, if the volunteer does not have one.  The server does not look at  *)
(* the time.                                                               *)
SignUp(v, s) == \E x \in Shift : \E a \in FormValues(x) :
    /\ Change
    /\ x = s \/ (s \in Training /\ x \notin Training /\ ~ on[v][s])
    /\ ~ canceled[s]
    /\ on' = [on EXCEPT ![v][s] = TRUE]
    /\ att' = [att EXCEPT ![v][s] = a]
    /\ outdated' = IF a = "pending" /\ Over(s)
                   THEN outdated \cup {<<v, s>>} ELSE outdated \ {<<v, s>>}
    /\ UNCHANGED <<phase, canceled, rated, gate, marked, job, told, faults,
                   blurred, moved>>

Remove(v, s) ==
    /\ Change
    /\ on[v][s]
    /\ on' = [on EXCEPT ![v][s] = FALSE]
    /\ UNCHANGED <<phase, canceled, att, rated, gate, marked, job, told,
                   faults, blurred, moved, outdated>>

(* The switch writes what it shows, to a removed row too.                  *)
SetCheckedIn(v, s) == \E a \in {"here", "absent"} :
    /\ att[v][s] # "none"
    /\ att' = [att EXCEPT ![v][s] = a]

(* The page offers the switch from an hour before the shift on, by its     *)
(* clock.                                                                  *)
CheckIn(v, s) ==
    /\ Change
    /\ Begun(s)
    /\ SetCheckedIn(v, s)
    /\ UNCHANGED <<phase, canceled, on, rated, gate, marked, job, told, faults,
                   blurred, moved, outdated>>

(* A tablet without a login: the window of the shift is checked ...        *)
OpenGate(v, s) ==
    /\ Change
    /\ phase[s] = "during" /\ on[v][s]
    /\ gate' = gate \cup {<<v, s>>}
    /\ UNCHANGED <<phase, canceled, attendance, marked, job, told, faults,
                   blurred, moved, outdated>>

(* ... and then the row is written.                                        *)
WalkUpCheckIn(v, s) ==
    /\ <<v, s>> \in gate
    /\ gate' = gate \ {<<v, s>>}
    /\ SetCheckedIn(v, s)
    /\ UNCHANGED <<phase, canceled, on, rated, marked, job, told, changes,
                   faults, blurred, moved, outdated>>

Review(v, s) ==
    /\ Change
    /\ att[v][s] # "none"
    /\ rated' = [rated EXCEPT ![v][s] = ~ @]
    /\ UNCHANGED <<phase, canceled, on, att, gate, marked, job, told, faults,
                   blurred, moved, outdated>>

-----------------------------------------------------------------------------
(* A run of the job.                                                       *)

Goto(r, l) == pc' = [pc EXCEPT ![r] = l]

End(r) ==
    /\ Goto(r, "idle")
    /\ catchup' = [catchup EXCEPT ![r] = FALSE]
    /\ to' = [to EXCEPT ![r] = [s \in Shift |-> {}]]
    /\ left' = [left EXCEPT ![r] = {}]

(* loadCandidateShifts and the decision about each: one SELECT.            *)
Load(r, all) ==
    LET picked == {s \in Shift : Qualifies(s, all)} IN
    /\ pc[r] = "idle"
    /\ picked # {}
    /\ to' = [to EXCEPT ![r] =
                 [s \in Shift |-> IF s \in picked THEN Recipients(s) ELSE {}]]
    /\ left' = [left EXCEPT ![r] =
                   IF all THEN UNION {Recipients(s) : s \in picked} ELSE {}]
    /\ catchup' = [catchup EXCEPT ![r] = all]
    /\ Goto(r, "mail")
    /\ blurred' = blurred \cup {s \in picked : \E q \in Run : s \in Todo(q)}
    /\ UNCHANGED <<phase, canceled, attendance, gate, marked, told, changes,
                   faults, moved, outdated>>

(* A run that finds nothing to do.                                         *)
LoadNothing(r) ==
    /\ pc[r] = "idle" /\ {s \in Shift : Qualifies(s, FALSE)} = {}
    /\ UNCHANGED vars

Once(n) == IF n = 0 THEN 1 ELSE 2

(* The regular run mails about one shift at a time, to all its leads ...   *)
MailLeads(r) ==
    /\ pc[r] = "mail" /\ ~ catchup[r]
    /\ told' = [told EXCEPT ![Current(r)] =
           [p \in Address |-> IF p \in to[r][Current(r)] THEN Once(@[p]) ELSE @[p]]]
    /\ Goto(r, "finalize")
    /\ UNCHANGED <<phase, canceled, attendance, gate, marked, catchup, to,
                   left, changes, faults, blurred, moved, outdated>>

(* ... the catch-up mails each address once about all its shifts.          *)
NextAddress(r, p) ==
    /\ left' = [left EXCEPT ![r] = @ \ {p}]
    /\ IF left[r] = {p} THEN Goto(r, "finalize") ELSE UNCHANGED pc

MailAddress(r) == \E p \in left[r] :
    /\ pc[r] = "mail" /\ catchup[r]
    /\ told' = [s \in Shift |->
           IF p \in to[r][s] THEN [told[s] EXCEPT ![p] = Once(@)] ELSE told[s]]
    /\ NextAddress(r, p)
    /\ UNCHANGED <<phase, canceled, attendance, gate, marked, catchup, to,
                   changes, faults, blurred, moved, outdated>>

(* Mutant: only those who are not leads.                                   *)
FinalizeNonLeads(r) ==
    /\ pc[r] = "finalize"
    /\ att' = [v \in Volunteer |-> [att[v] EXCEPT ![Current(r)] =
           IF v \in NonLeads(Current(r)) /\ @ = "pending" THEN "absent" ELSE @]]
    /\ Goto(r, "mark")
    /\ UNCHANGED <<phase, canceled, on, rated, gate, marked, catchup, to, left,
                   told, changes, faults, blurred, moved, outdated>>

(* Mutant: those who left as well.                                         *)
FinalizeRemoved(r) ==
    /\ pc[r] = "finalize"
    /\ att' = [v \in Volunteer |-> [att[v] EXCEPT ![Current(r)] =
           IF @ = "pending" THEN "absent" ELSE @]]
    /\ Goto(r, "mark")
    /\ UNCHANGED <<phase, canceled, on, rated, gate, marked, catchup, to, left,
                   told, changes, faults, blurred, moved, outdated>>

(* Whoever is on the shift and still pending, leads included.              *)
Finalize(r) ==
    /\ pc[r] = "finalize"
    /\ att' = [v \in Volunteer |-> [att[v] EXCEPT ![Current(r)] =
           IF on[v][Current(r)] /\ @ = "pending" THEN "absent" ELSE @]]
    /\ Goto(r, "mark")
    /\ UNCHANGED <<phase, canceled, on, rated, gate, marked, catchup, to, left,
                   told, changes, faults, blurred, moved, outdated>>

(* After the last shift the run ends.                                      *)
NextShift(r) ==
    IF Todo(r) = {Current(r)}
    THEN End(r)
    ELSE /\ to' = [to EXCEPT ![r][Current(r)] = {}]
         /\ Goto(r, IF catchup[r] THEN "finalize" ELSE "mail")
         /\ UNCHANGED <<catchup, left>>

(* Mutant: the catch-up does not mark.                                     *)
MarkRegular(r) ==
    /\ pc[r] = "mark"
    /\ marked' = IF catchup[r] THEN marked ELSE marked \cup {Current(r)}
    /\ NextShift(r)
    /\ UNCHANGED <<phase, canceled, attendance, gate, told, changes, faults,
                   blurred, moved, outdated>>

Mark(r) ==
    /\ pc[r] = "mark"
    /\ marked' = marked \cup {Current(r)}
    /\ NextShift(r)
    /\ UNCHANGED <<phase, canceled, attendance, gate, told, changes, faults,
                   blurred, moved, outdated>>

-----------------------------------------------------------------------------
Fault == faults < MaxFaults /\ faults' = faults + 1

(* The enqueue throws: logged, and the run goes on.                        *)
MailFails(r) ==
    /\ pc[r] = "mail"
    /\ Fault
    /\ IF catchup[r]
       THEN \E p \in left[r] : NextAddress(r, p)
       ELSE Goto(r, "finalize") /\ UNCHANGED left
    /\ UNCHANGED <<phase, canceled, attendance, gate, marked, catchup, to,
                   told, changes, blurred, moved, outdated>>

(* A statement throws and ends the run, or the process ends.  A statement  *)
(* whose reply is lost has taken effect: that is this step after it.       *)
Stop(r) ==
    /\ pc[r] # "idle"
    /\ Fault
    /\ End(r)
    /\ blurred' = blurred \cup {s \in Todo(r) : \E p \in Address : told[s][p] > 0}
    /\ UNCHANGED <<phase, canceled, attendance, gate, marked, told, changes,
                   moved, outdated>>

-----------------------------------------------------------------------------
Step(r) == MailLeads(r) \/ MailAddress(r) \/ Finalize(r) \/ Mark(r)

Attend(v, s) ==
    \/ SignUp(v, s) \/ Remove(v, s) \/ CheckIn(v, s) \/ OpenGate(v, s)
    \/ WalkUpCheckIn(v, s) \/ Review(v, s)

Next ==
    \/ \E s \in Shift : TimePasses(s) \/ Reschedule(s) \/ Cancel(s)
    \/ \E v \in Volunteer, s \in Shift : Attend(v, s)
    \/ \E r \in Run : \/ Load(r, FALSE) \/ Load(r, TRUE) \/ LoadNothing(r)
                      \/ Step(r) \/ MailFails(r) \/ Stop(r)

Spec == Init /\ [][Next]_vars

(* The cron goes on asking, and a run that nothing stops goes on.          *)
FairSpec == Spec /\ \A r \in Run : WF_vars(Load(r, FALSE)) /\ WF_vars(Step(r))

-----------------------------------------------------------------------------
AttendanceOK ==
    /\ phase \in [Shift -> Phase]
    /\ canceled \in [Shift -> BOOLEAN]
    /\ on \in [Volunteer -> [Shift -> BOOLEAN]]
    /\ att \in [Volunteer -> [Shift -> Attendance]]
    /\ rated \in [Volunteer -> [Shift -> BOOLEAN]]
    /\ gate \subseteq Volunteer \X Shift

RunsOK ==
    /\ pc \in [Run -> RunPc]
    /\ catchup \in [Run -> BOOLEAN]
    /\ to \in [Run -> [Shift -> SUBSET Address]]
    /\ left \in [Run -> SUBSET Address]
    /\ \A r \in Run : (pc[r] = "idle") <=> (Todo(r) = {})

(* The types of the variables; a row that is not removed has a value, and  *)
(* a run is in progress exactly as long as it has shifts to do.            *)
TypeOK ==
    /\ AttendanceOK /\ RunsOK
    /\ \A v \in Volunteer, s \in Shift : on[v][s] => att[v][s] # "none"
    /\ marked \subseteq Shift
    /\ told \in [Shift -> [Address -> 0 .. 2]]
    /\ changes \in 0 .. MaxChanges /\ faults \in 0 .. MaxFaults
    /\ blurred \subseteq Shift /\ moved \subseteq Shift
    /\ outdated \subseteq Volunteer \X Shift

(* "Each shift is nudged at most once" (migration 016): nobody is mailed   *)
(* twice about a shift that no two runs took at the same time and that no  *)
(* run failed on after its mail.                                           *)
NudgedOnce == \A s \in Shift \ blurred, p \in Address : told[s][p] =< 1

(* "Finalize every still-pending volunteer (leads included)": nobody on a  *)
(* marked shift is pending, whoever leaves, comes back or is checked in    *)
(* before, while and after the job works on it, unless an outdated form    *)
(* signed them up as pending when the shift was over, or its times were    *)
(* edited.                                                                 *)
MarkedSettled == \A s \in marked \ moved, v \in Volunteer :
    on[v][s] /\ <<v, s>> \notin outdated => att[v][s] \in {"here", "absent"}

(* The job decides on what it read at its beginning and writes later: it   *)
(* still makes a no-show only of somebody who is then on the shift and     *)
(* pending, and only when the shift is over.                               *)
PendingOnly ==
    [][pc' # pc => \A v \in Volunteer, s \in Shift :
          att'[v][s] # att[v][s] =>
              /\ att[v][s] = "pending" /\ att'[v][s] = "absent" /\ on[v][s]
              /\ phase[s] \in {"due", "old"} \/ s \in moved]_vars

(* A shift that calls for a nudge does not go on calling for one: it is    *)
(* nudged and marked, or it stops to qualify, even if a run fails on it or *)
(* its mail does.                                                          *)
EveryShiftWrappedUp == \A s \in Shift : Qualifies(s, FALSE) ~> ~ Qualifies(s, FALSE)
=============================================================================

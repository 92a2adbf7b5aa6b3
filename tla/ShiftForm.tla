----------------------------- MODULE ShiftForm -----------------------------
(***************************************************************************)
(* The editor of shift types (shifts/types/[typeId], shifts/types).  The   *)
(* form is filled by a GET, edited for as long as the user likes, and sent *)
(* back as a whole; the handler brings op_shift_times and                  *)
(* op_shift_time_position in line with the list it is sent, statement by   *)
(* statement, without a transaction.  Rows are flagged as removed and      *)
(* brought back, never deleted.                                            *)
(*                                                                         *)
(* The statements of one Promise.all whose rows are known beforehand are   *)
(* one step.  Positions have a list of their own, whose dialog deletes     *)
(* those no type has (shifts/positions).  Left out: the canceled flag      *)
(* (ShiftSignup), categories, names, details, meals, points and slots of a *)
(* position, which nothing here depends on.                                *)
(***************************************************************************)
EXTENDS Integers, FiniteSets, FiniteSetsExt

CONSTANTS
    Type,           \* shift_name_id
    Slot,           \* a start and an end
    Position,       \* position_type_id
    TimeId, PosId,  \* what generateId may draw: numbers from 1
    FirstTime,      \* the times there are at the beginning: id -> type, slot
    FirstPos,       \* their positions: id -> time, position
    Req,            \* forms that may be open at the same time
    NoRow, NoType,  \* no row has that id; the handler has no form
    MaxForms,       \* bound: forms of a behaviour
    MaxEdits,       \* bound: edits of a form
    MaxFaults,      \* bound: INSERTs and UPDATEs that fail
    MaxSignUps      \* bound: sign-ups

ASSUME FormAssumption ==
    /\ TimeId \subseteq Nat \ {0} /\ PosId \subseteq Nat \ {0}
    /\ DOMAIN FirstTime \subseteq TimeId /\ DOMAIN FirstPos \subseteq PosId
    /\ \A t \in DOMAIN FirstTime :
          FirstTime[t].type \in Type /\ FirstTime[t].slot \in Slot
    /\ \A p \in DOMAIN FirstPos :
          FirstPos[p].time \in DOMAIN FirstTime /\ FirstPos[p].position \in Position
    /\ NoRow \notin [type : Type, slot : Slot, removed : BOOLEAN]
    /\ NoRow \notin [time : TimeId, position : Position, removed : BOOLEAN]
    /\ NoType \notin Type
    /\ MaxForms \in Nat /\ MaxEdits \in Nat /\ MaxFaults \in Nat
    /\ MaxSignUps \in Nat

VARIABLES
    named,          \* op_shift_name
    hidden,         \* those of them with delete_shift
    gone,           \* op_position_type: positions with delete_position
    time,           \* op_shift_times
    pos,            \* op_shift_time_position
    signed,         \* op_volunteer_shifts: positions somebody is on
    \* each form: where it or its handler is, the type it edits, the positions
    \* a new time is given, those the GET found, what the open dialog asks
    \* about, the times the form has
    pc, type, offered, found, asked, sent,
    \* its handler: the rows to remove, what is to be looked up or added, the
    \* times to insert at the end, the row the last added time was found in
    todo, adds, fresh, exist,
    edits, forms, faults, signUps,  \* counted for the bounds
    \* history: another form wrote since this one was filled; a time or a
    \* position it adds was found among the rows
    disturbed, revived,
    late            \* history: sign-ups that no form could know of

tables  == <<named, hidden, gone, time, pos>>
handler == <<pc, type, offered, found, asked, sent, todo, adds, fresh, exist>>
counts  == <<edits, forms, faults>>
people  == <<signed, late, signUps>>
vars    == <<tables, handler, counts, people, disturbed, revived>>

Time == [type : Type, slot : Slot, removed : BOOLEAN]
Pos  == [time : TimeId, position : Position, removed : BOOLEAN]

(* A position and a time as the form has them; id 0 is not in the table.   *)
Place == [position : Position, id : PosId \cup {0}]
Item  == [id : TimeId \cup {0}, slot : Slot, places : SUBSET Place]

(* A position to be added to a time, and the row found for it.             *)
Added == [time : TimeId, position : Position, looked : BOOLEAN, row : PosId \cup {0}]

Pc == {"idle", "form", "blank", "confirm", "update", "find", "drop", "rows", "add",
       "breaking", "take", "insert", "fill", "done", "failed", "unlist"}

Ended == {"idle", "done", "failed"}

(* What a dialog asks about; no dialog is open.                            *)
Question == [times : SUBSET TimeId, positions : SUBSET Position]
Nothing  == [times |-> {}, positions |-> {}]

-----------------------------------------------------------------------------
(* What the SELECTs of the form return.                                    *)

TimesOf(ty) ==
    {t \in TimeId : time[t] # NoRow /\ time[t].type = ty /\ ~ time[t].removed}

(* The positions of all times of the type, removed or not.                 *)
RowsOf(ty) == {p \in PosId : pos[p] # NoRow /\ time[pos[p].time].type = ty}

PlacesOf(t) ==
    {[position |-> pos[p].position, id |-> p] :
        p \in {q \in PosId : pos[q] # NoRow /\ pos[q].time = t /\ ~ pos[q].removed}}

(* A time without positions is not shown: the condition on the joined      *)
(* table drops it.                                                         *)
Shown(ty) ==
    {[id |-> t, slot |-> time[t].slot, places |-> PlacesOf(t)] :
        t \in {u \in TimesOf(ty) : PlacesOf(u) # {}}}

(* The form's list of positions, those of removed times among them.        *)
Offered(ty) == {pos[p].position : p \in {q \in RowsOf(ty) : ~ pos[q].removed}}

Ids(list) == {i.id : i \in list}
Places(list) == UNION {i.places : i \in list}

-----------------------------------------------------------------------------
Init ==
    /\ named = {FirstTime[t].type : t \in DOMAIN FirstTime} /\ hidden = {} /\ gone = {}
    /\ time = [t \in TimeId |->
                 IF t \in DOMAIN FirstTime
                 THEN [type |-> FirstTime[t].type, slot |-> FirstTime[t].slot,
                       removed |-> FALSE]
                 ELSE NoRow]
    /\ pos = [p \in PosId |->
                IF p \in DOMAIN FirstPos
                THEN [time |-> FirstPos[p].time, position |-> FirstPos[p].position,
                      removed |-> FALSE]
                ELSE NoRow]
    /\ pc = [r \in Req |-> "idle"]
    /\ type = [r \in Req |-> NoType]
    /\ offered = [r \in Req |-> {}] /\ sent = [r \in Req |-> {}]
    /\ found = [r \in Req |-> {}] /\ asked = [r \in Req |-> Nothing]
    /\ todo = [r \in Req |-> {}] /\ adds = [r \in Req |-> {}]
    /\ fresh = [r \in Req |-> {}]
    /\ exist = [r \in Req |-> 0]
    /\ edits = [r \in Req |-> 0] /\ forms = 0 /\ faults = 0
    /\ disturbed = [r \in Req |-> FALSE] /\ revived = [r \in Req |-> FALSE]
    /\ signed = {} /\ late = {} /\ signUps = 0

Goto(r, label) == pc' = [pc EXCEPT ![r] = label]
At(r, label)   == /\ pc[r] = label
                  /\ UNCHANGED <<type, offered, found, asked, sent, edits, forms, people>>

(* A step of a save disturbs the other forms of its type that are open or  *)
(* being saved; when it has found a time, those of every type.             *)
Disturbs(r) ==
    disturbed' = [q \in Req |-> disturbed[q]
                    \/ (q # r /\ pc[q] \notin Ended
                        /\ (type[q] = type[r] \/ exist'[r] # 0))]

-----------------------------------------------------------------------------
(* The form in the browser.                                                *)

Fill(r, ty, label, list, places) ==
    /\ Goto(r, label)
    /\ type' = [type EXCEPT ![r] = ty]
    /\ offered' = [offered EXCEPT ![r] = places]
    /\ found' = [found EXCEPT ![r] = places]
    /\ sent' = [sent EXCEPT ![r] = list]
    /\ todo' = [todo EXCEPT ![r] = {}] /\ adds' = [adds EXCEPT ![r] = {}]
    /\ fresh' = [fresh EXCEPT ![r] = {}]
    /\ exist' = [exist EXCEPT ![r] = 0]
    /\ disturbed' = [disturbed EXCEPT ![r] = FALSE]
    /\ revived' = [revived EXCEPT ![r] = FALSE]
    /\ UNCHANGED <<tables, people, asked, faults>>

OpenPage(r, ty, label, list, places) ==
    /\ pc[r] \in Ended /\ forms < MaxForms /\ forms' = forms + 1
    /\ edits' = [edits EXCEPT ![r] = 0]
    /\ Fill(r, ty, label, list, places)

(* GET, which shows the type as it is.                                     *)
Open(r, ty) ==
    ty \in named \ hidden /\ OpenPage(r, ty, "form", Shown(ty), Offered(ty))

(* The window is looked at again, the GET repeated, and its answer another *)
(* one: the form is filled anew, and what the user did to it is lost; a    *)
(* dialog stays open.                                                      *)
Refill(r) ==
    /\ pc[r] = "form" /\ disturbed[r]
    /\ Fill(r, type[r], "form", Shown(type[r]), Offered(type[r]))
    /\ UNCHANGED <<edits, forms>>

(* The page that creates a type.                                           *)
OpenBlank(r, ty) == ty \notin named /\ OpenPage(r, ty, "blank", {}, {})

(* The dialog that deletes a type, which the same GET fills.               *)
AskDelete(r, ty) ==
    /\ ty \in named \ hidden
    /\ Offered(ty) = {} \/ Shown(ty) = {}
    /\ pc[r] \in Ended /\ edits' = [edits EXCEPT ![r] = 0]
    /\ Fill(r, ty, "confirm", {}, {})
    /\ UNCHANGED forms

(* The types of the list that have the position, rows that were removed    *)
(* from them included.                                                     *)
Using(p) == {time[pos[u].time].type : u \in {v \in PosId : /\ pos[v] # NoRow
                                                          /\ pos[v].position = p}} \ hidden

(* The dialog that deletes a position.                                     *)
AskDeletePosition(r, p) ==
    p \notin gone /\ Using(p) = {} /\ OpenPage(r, NoType, "unlist", {}, {p})

Edit(r, list, places) ==
    /\ edits[r] < MaxEdits
    /\ edits' = [edits EXCEPT ![r] = @ + 1]
    /\ sent' = [sent EXCEPT ![r] = list]
    /\ offered' = [offered EXCEPT ![r] = places]
    /\ asked' = [asked EXCEPT ![r] = Nothing]
    /\ UNCHANGED <<tables, people, pc, type, found, todo, adds, fresh, exist, forms,
                   faults, disturbed, revived>>

AddTime(r, s) ==
    Edit(r, sent[r] \cup {[id |-> 0, slot |-> s,
                places |-> {[position |-> p, id |-> 0] : p \in offered[r]}]},
         offered[r])

(* Mutant: the flag is compared with true.                                 *)
CrewOfRemoved(t) == {p \in signed : pos[p].time = t /\ pos[p].removed}

(* What the dialogs are shown: the positions of a time somebody is on, and *)
(* the times of a type with somebody on that position, removed ones too.   *)
(* A dialog that is opened again shows its former answer until the new one *)
(* has come; that moment is left out.                                      *)
Crew(t) == {p \in signed : pos[p].time = t}
Crewed(ty, p) == {pos[u].time : u \in {v \in signed : /\ pos[v].position = p
                                                    /\ v \in RowsOf(ty)}}

Ask(r, question) ==
    /\ asked' = [asked EXCEPT ![r] = question]
    /\ UNCHANGED <<tables, people, pc, type, offered, found, sent, todo, adds, fresh,
                   exist, counts, disturbed, revived>>

(* The user wants to take away a time that is saved, or a position the GET *)
(* has found, and the dialog finds nobody on it.  One that finds somebody  *)
(* can only be closed.                                                     *)
AskRemoveTime(r, t) ==
    t \in Ids(sent[r]) \ {0} /\ Crew(t) = {} /\ Ask(r, [Nothing EXCEPT !.times = {t}])

AskRemovePosition(r, p) ==
    /\ p \in offered[r] \cap found[r] /\ Crewed(type[r], p) = {}
    /\ Ask(r, [Nothing EXCEPT !.positions = {p}])

Asking(r) ==
    \/ /\ pc[r] = "form" /\ asked[r] = Nothing /\ edits[r] < MaxEdits
       /\ \/ \E t \in TimeId : AskRemoveTime(r, t)
          \/ \E p \in Position : AskRemovePosition(r, p)
    \/ asked[r] # Nothing /\ Ask(r, Nothing)

(* By the id: every unsaved time goes with the first, without a dialog,    *)
(* and a saved one when the user confirms.  The page of a new type goes by *)
(* the place in the list.                                                  *)
RemoveTime(r, i) ==
    /\ asked[r] = [Nothing EXCEPT !.times = {i.id} \ {0}]
    /\ Edit(r, {j \in sent[r] : IF pc[r] = "blank" THEN j # i ELSE j.id # i.id},
            offered[r])

(* By the id as well; with two unsaved times, both would be replaced.      *)
MoveTime(r, i, s) ==
    /\ s # i.slot /\ \A j \in sent[r] : j.id = i.id => j = i
    /\ Edit(r, (sent[r] \ {i}) \cup {[i EXCEPT !.slot = s]}, offered[r])

(* To every time; only a position the form does not have yet.              *)
AddPosition(r, p) ==
    /\ p \notin offered[r] \cup {q.position : q \in Places(sent[r])}
    /\ Edit(r, {[i EXCEPT !.places = @ \cup {[position |-> p, id |-> 0]}] :
                   i \in sent[r]}, offered[r] \cup {p})

(* The dialog is for positions the GET has found.  The page of a new type  *)
(* leaves the times as they are.                                           *)
RemovePosition(r, p) ==
    /\ p \in offered[r]
    /\ asked[r] = [Nothing EXCEPT !.positions = {p} \cap found[r]]
    /\ Edit(r, {[i EXCEPT !.places =
                    {q \in @ : q.position # p \/ pc[r] = "blank"}] : i \in sent[r]},
            offered[r] \ {p})

Editing(r) ==
    /\ pc[r] \in {"form", "blank"}
    /\ \/ \E i \in sent[r] : RemoveTime(r, i)
       \/ \E p \in Position : RemovePosition(r, p)
       \/ /\ asked[r] = Nothing
          /\ \/ \E s \in Slot : AddTime(r, s) \/ \E i \in sent[r] : MoveTime(r, i, s)
             \/ \E p \in Position : AddPosition(r, p)

-----------------------------------------------------------------------------
(* The volunteers.  The page of a shift may be older than the removal of   *)
(* the position, and the POST looks at the shift's canceled flag only.     *)

(* The form does not have the row any more, or a dialog asks about it.     *)
Going(r, p) ==
    \/ p \notin Ids(Places(sent[r]))
    \/ pos[p].time \in asked[r].times \/ pos[p].position \in asked[r].positions

(* A form of the type will remove what it does not have, and so will the   *)
(* deletion of the type, or of the position.                               *)
AboutToGo(p) ==
    \E r \in Req :
        \/ /\ pc[r] \in Pc \ (Ended \cup {"blank", "breaking", "insert", "fill", "unlist"})
           /\ p \in RowsOf(type[r]) /\ Going(r, p)
        \/ pc[r] = "unlist" /\ pos[p].position \in offered[r]

InForce(p) == /\ ~ pos[p].removed /\ ~ time[pos[p].time].removed
              /\ time[pos[p].time].type \notin hidden
              /\ pos[p].position \notin gone

SignUp(p) ==
    /\ pos[p] # NoRow /\ p \notin signed
    /\ signUps < MaxSignUps /\ signUps' = signUps + 1
    /\ signed' = signed \cup {p}
    /\ late' = IF InForce(p) /\ ~ AboutToGo(p) THEN late ELSE late \cup {p}
    /\ UNCHANGED <<tables, handler, counts, disturbed, revived>>

Leave(p) ==
    /\ p \in signed
    /\ signed' = signed \ {p} /\ late' = late \ {p}
    /\ UNCHANGED <<tables, handler, counts, signUps, disturbed, revived>>

-----------------------------------------------------------------------------
(* PATCH.                                                                  *)

(* SELECT the times of the type.                                           *)
SelectTimes(r) ==
    /\ At(r, "form") /\ asked[r] = Nothing /\ Goto(r, "update")
    /\ todo' = [todo EXCEPT ![r] = TimesOf(type[r])]
    /\ UNCHANGED <<tables, adds, fresh, exist, faults, disturbed, revived>>

(* Mutant: a time that was moved is taken for one that is no longer there. *)
UpdateTimesMoved(r) ==
    /\ At(r, "update") /\ Goto(r, "find")
    /\ todo' = [todo EXCEPT ![r] = {t \in @ : \A i \in sent[r] :
                                         i.id # t \/ i.slot # time[t].slot}]
    /\ adds' = [adds EXCEPT ![r] = {i \in sent[r] : i.id \notin todo[r]}]
    /\ UNCHANGED <<tables, fresh, exist, faults, revived>>
    /\ Disturbs(r)

(* The times of the list with these ids are written.                       *)
Moved(r, ids) ==
    [t \in TimeId |-> IF t \in ids
                      THEN [time[t] EXCEPT !.slot = (CHOOSE i \in sent[r] : i.id = t).slot]
                      ELSE time[t]]

(* Rows that the list has too are updated.  The list's other times are to  *)
(* be added, the other rows to be removed.                                 *)
UpdateTimes(r) ==
    /\ At(r, "update") /\ Goto(r, "find")
    /\ time' = Moved(r, todo[r] \cap Ids(sent[r]))
    /\ todo' = [todo EXCEPT ![r] = @ \ Ids(sent[r])]
    /\ adds' = [adds EXCEPT ![r] = {i \in sent[r] : i.id \notin todo[r]}]
    /\ UNCHANGED <<named, hidden, gone, pos, fresh, exist, faults, revived>>
    /\ Disturbs(r)

(* One of them fails, as its instance is another time's already: others of *)
(* the batch are written, and the handler does not go on.                  *)
UpdateFails(r) ==
    /\ At(r, "update") /\ faults < MaxFaults /\ faults' = faults + 1
    /\ \E ids \in SUBSET (todo[r] \cap Ids(sent[r])) :
          ids # todo[r] \cap Ids(sent[r]) /\ time' = Moved(r, ids)
    /\ Goto(r, "failed")
    /\ UNCHANGED <<named, hidden, gone, pos, todo, adds, fresh, exist, revived>>
    /\ Disturbs(r)

(* An added time is looked up by its start and end only.                   *)
SameTimes(i) == {t \in TimeId : time[t] # NoRow /\ time[t].slot = i.slot}

(* The row found, whose ever it is, is brought back.                       *)
BringBack(r, i) ==
    /\ At(r, "find") /\ i \in adds[r]
    /\ \E t \in SameTimes(i) :
          /\ time' = [time EXCEPT ![t].removed = FALSE]
          /\ exist' = [exist EXCEPT ![r] = t]
    /\ adds' = [adds EXCEPT ![r] = @ \ {i}]
    /\ revived' = [revived EXCEPT ![r] = TRUE] /\ Disturbs(r)
    /\ UNCHANGED <<named, hidden, gone, pos, pc, todo, fresh, faults>>

(* Mutant: inserted at once, before the positions are read.                *)
InsertAtOnce(r, i) ==
    /\ At(r, "find") /\ i \in adds[r] /\ SameTimes(i) = {}
    /\ LET t   == Min({u \in TimeId : time[u] = NoRow})
           row == Min({u \in PosId : pos[u] = NoRow})
       IN  /\ time' = [time EXCEPT ![t] =
                         [type |-> type[r], slot |-> i.slot, removed |-> FALSE]]
           /\ pos' = IF i.places = {} THEN pos ELSE [pos EXCEPT ![row] =
                [time |-> t, position |-> (CHOOSE p \in i.places : TRUE).position,
                 removed |-> FALSE]]
    /\ exist' = [exist EXCEPT ![r] = 0]
    /\ adds' = [adds EXCEPT ![r] = @ \ {i}]
    /\ UNCHANGED <<named, hidden, gone, pc, todo, fresh, faults, revived>>
    /\ Disturbs(r)

KeepForLater(r, i) ==
    /\ At(r, "find") /\ i \in adds[r]
    /\ SameTimes(i) = {}
    /\ exist' = [exist EXCEPT ![r] = 0]
    /\ fresh' = [fresh EXCEPT ![r] = @ \cup {i}]
    /\ adds' = [adds EXCEPT ![r] = @ \ {i}]
    /\ UNCHANGED <<tables, pc, todo, faults, disturbed, revived>>

LookedUp(r) ==
    /\ At(r, "find") /\ adds[r] = {} /\ Goto(r, "drop")
    /\ UNCHANGED <<tables, todo, adds, fresh, exist, faults, disturbed, revived>>

DropTimes(r) ==
    /\ At(r, "drop") /\ Goto(r, "rows")
    /\ time' = [t \in TimeId |-> IF t \in todo[r]
                                 THEN [time[t] EXCEPT !.removed = TRUE]
                                 ELSE time[t]]
    /\ todo' = [todo EXCEPT ![r] = {}]
    /\ UNCHANGED <<named, hidden, gone, pos, adds, fresh, exist, faults, revived>>
    /\ Disturbs(r)

(* SELECT the positions of the type.  Those of an added time wait for its  *)
(* insertion; one of the list that is not in the table is to be added, one *)
(* of the table that is not in the list to be removed.                     *)
SelectRows(r) ==
    /\ At(r, "rows") /\ Goto(r, "add")
    /\ adds' = [adds EXCEPT ![r] =
           UNION {{[time |-> i.id, position |-> p.position, looked |-> FALSE, row |-> 0] :
                       p \in {q \in i.places : q.id \notin RowsOf(type[r])}} :
                   i \in {j \in sent[r] : j.id # 0}}]
    /\ todo' = [todo EXCEPT ![r] = RowsOf(type[r]) \ Ids(Places(sent[r]))]
    /\ UNCHANGED <<tables, fresh, exist, faults, disturbed, revived>>

(* The row of this time and position, or of the time found above.          *)
LookUpPosition(r, a) ==
    /\ pc[r] \in {"add", "breaking"} /\ a \in adds[r] /\ ~ a.looked
    /\ LET t   == IF exist[r] # 0 THEN exist[r] ELSE a.time
           hit == {p \in PosId : pos[p] # NoRow /\ pos[p].time = t
                                  /\ pos[p].position = a.position}
       IN  adds' = [adds EXCEPT ![r] = (@ \ {a}) \cup
              {[a EXCEPT !.looked = TRUE, !.row = IF hit = {} THEN 0 ELSE Min(hit)]}]
    /\ UNCHANGED <<tables, people, pc, type, offered, found, asked, sent, todo, fresh,
                   exist, counts, disturbed, revived>>

(* op_shift_time_position has a unique key on both columns.                *)
Taken(a) == \E p \in PosId : pos[p] # NoRow /\ pos[p].time = a.time
                                            /\ pos[p].position = a.position

FreeTimes     == {t \in TimeId : time[t] = NoRow}
FreePositions == {p \in PosId : pos[p] = NoRow}

NewPosition(a) ==
    pos' = [pos EXCEPT ![Min(FreePositions)] =
              [time |-> a.time, position |-> a.position, removed |-> FALSE]]

RevivePosition(r, a) ==
    /\ pc[r] \in {"add", "breaking"} /\ a \in adds[r] /\ a.looked /\ a.row # 0
    /\ pos' = [pos EXCEPT ![a.row].removed = FALSE]
    /\ adds' = [adds EXCEPT ![r] = @ \ {a}]
    /\ revived' = [revived EXCEPT ![r] = TRUE]
    /\ UNCHANGED <<named, hidden, gone, time, people, pc, type, offered, found, asked,
                   sent, todo, fresh, exist, counts>>
    /\ Disturbs(r)

InsertPosition(r, a) ==
    /\ pc[r] \in {"add", "breaking"} /\ a \in adds[r] /\ a.looked /\ a.row = 0
    /\ ~ Taken(a) /\ FreePositions # {} /\ NewPosition(a)
    /\ adds' = [adds EXCEPT ![r] = @ \ {a}]
    /\ UNCHANGED <<named, hidden, gone, time, people, pc, type, offered, found, asked,
                   sent, todo, fresh, exist, counts, revived>>
    /\ Disturbs(r)

(* The id was drawn before, or the statement fails, or the key exists: the *)
(* others of the batch still run, the handler does not go on.              *)
AddFails(r, a) ==
    /\ pc[r] \in {"add", "breaking"} /\ a \in adds[r] /\ a.looked /\ a.row = 0
    /\ IF Taken(a) \/ FreePositions = {} THEN UNCHANGED faults
       ELSE faults < MaxFaults /\ faults' = faults + 1
    /\ Goto(r, "breaking")
    /\ adds' = [adds EXCEPT ![r] = @ \ {a}]
    /\ UNCHANGED <<tables, people, type, offered, found, asked, sent, todo, fresh, exist,
                   edits, forms, disturbed, revived>>

Broken(r) ==
    /\ At(r, "breaking") /\ adds[r] = {} /\ Goto(r, "failed")
    /\ UNCHANGED <<tables, todo, adds, fresh, exist, faults, disturbed, revived>>

AllAdded(r) ==
    /\ At(r, "add") /\ adds[r] = {} /\ Goto(r, "take")
    /\ UNCHANGED <<tables, todo, adds, fresh, exist, faults, disturbed, revived>>

TakePositions(r) ==
    /\ At(r, "take") /\ Goto(r, "insert")
    /\ pos' = [p \in PosId |-> IF p \in todo[r]
                               THEN [pos[p] EXCEPT !.removed = TRUE] ELSE pos[p]]
    /\ todo' = [todo EXCEPT ![r] = {}]
    /\ UNCHANGED <<named, hidden, gone, time, adds, fresh, exist, faults, revived>>
    /\ Disturbs(r)

-----------------------------------------------------------------------------
(* handleTimeListAdd, of both PATCH and POST: a time, then its positions.  *)

InsertTime(r, i) ==
    /\ At(r, "insert") /\ i \in fresh[r] /\ FreeTimes # {}
    /\ Goto(r, "fill")
    /\ LET t == Min(FreeTimes)
       IN  /\ time' = [time EXCEPT ![t] =
                         [type |-> type[r], slot |-> i.slot, removed |-> FALSE]]
           /\ adds' = [adds EXCEPT ![r] =
                {[time |-> t, position |-> p.position, looked |-> TRUE, row |-> 0] :
                    p \in i.places}]
    /\ fresh' = [fresh EXCEPT ![r] = @ \ {i}]
    /\ UNCHANGED <<named, hidden, gone, pos, todo, exist, faults, revived>>
    /\ Disturbs(r)

FillTime(r, a) ==
    /\ At(r, "fill") /\ a \in adds[r]
    /\ ~ Taken(a) /\ FreePositions # {} /\ NewPosition(a)
    /\ adds' = [adds EXCEPT ![r] = @ \ {a}]
    /\ UNCHANGED <<named, hidden, gone, time, pc, todo, fresh, exist, faults, revived>>
    /\ Disturbs(r)

Filled(r) ==
    /\ At(r, "fill") /\ adds[r] = {} /\ Goto(r, "insert")
    /\ UNCHANGED <<tables, todo, adds, fresh, exist, faults, disturbed, revived>>

(* The instance is another time's already, the id was drawn before, or the *)
(* statement fails.                                                        *)
InsertFails(r) ==
    /\ \/ At(r, "insert") /\ fresh[r] # {}
       \/ At(r, "fill") /\ adds[r] # {}
    /\ faults < MaxFaults /\ faults' = faults + 1
    /\ Goto(r, "failed")
    /\ UNCHANGED <<tables, todo, adds, fresh, exist, disturbed, revived>>

Saved(r) ==
    /\ At(r, "insert") /\ fresh[r] = {} /\ Goto(r, "done")
    /\ UNCHANGED <<tables, todo, adds, fresh, exist, faults, disturbed, revived>>

(* POST: the row of the type, and the answer; the times follow unawaited.  *)
Create(r) ==
    /\ At(r, "blank") /\ type[r] \notin named
    /\ Goto(r, "insert")
    /\ named' = named \cup {type[r]}
    /\ fresh' = [fresh EXCEPT ![r] = sent[r]]
    /\ UNCHANGED <<hidden, gone, time, pos, todo, adds, exist, faults, revived>>
    /\ Disturbs(r)

(* DELETE.                                                                 *)
DeleteType(r) ==
    /\ At(r, "confirm") /\ Goto(r, "idle")
    /\ hidden' = hidden \cup {type[r]}
    /\ UNCHANGED <<named, gone, time, pos, todo, adds, fresh, exist, faults, disturbed,
                   revived>>

DeletePosition(r) ==
    /\ At(r, "unlist") /\ Goto(r, "idle")
    /\ gone' = gone \cup offered[r]
    /\ UNCHANGED <<named, hidden, time, pos, todo, adds, fresh, exist, faults, disturbed,
                   revived>>

(* The name is in use: the unique key of op_shift_name.                    *)
CreateFails(r) ==
    /\ At(r, "blank") /\ type[r] \in named /\ Goto(r, "failed")
    /\ UNCHANGED <<tables, todo, adds, fresh, exist, faults, disturbed, revived>>

-----------------------------------------------------------------------------
Save(r) ==
    \/ SelectTimes(r) \/ UpdateTimes(r) \/ UpdateFails(r)
    \/ \E i \in adds[r] : BringBack(r, i) \/ KeepForLater(r, i)
    \/ LookedUp(r) \/ DropTimes(r) \/ SelectRows(r)
    \/ \E a \in adds[r] : \/ LookUpPosition(r, a) \/ RevivePosition(r, a)
                           \/ InsertPosition(r, a) \/ AddFails(r, a)
    \/ Broken(r) \/ AllAdded(r) \/ TakePositions(r)
    \/ \E i \in fresh[r] : InsertTime(r, i)
    \/ \E a \in adds[r] : FillTime(r, a)
    \/ Filled(r) \/ InsertFails(r) \/ Saved(r)
    \/ Create(r) \/ CreateFails(r) \/ DeleteType(r) \/ DeletePosition(r)

Next ==
    \/ \E r \in Req : \/ \E ty \in Type : \/ Open(r, ty) \/ OpenBlank(r, ty)
                                          \/ AskDelete(r, ty)
                      \/ \E p \in Position : AskDeletePosition(r, p)
                      \/ Refill(r) \/ Asking(r) \/ Editing(r) \/ Save(r)
    \/ \E p \in PosId : SignUp(p) \/ Leave(p)

Spec == Init /\ [][Next]_vars

-----------------------------------------------------------------------------
TypeOK ==
    /\ named \subseteq Type /\ hidden \subseteq named /\ gone \subseteq Position
    /\ time \in [TimeId -> Time \cup {NoRow}]
    /\ pos \in [PosId -> Pos \cup {NoRow}]
    /\ pc \in [Req -> Pc]
    /\ type \in [Req -> Type \cup {NoType}]
    /\ offered \in [Req -> SUBSET Position] /\ sent \in [Req -> SUBSET Item]
    /\ found \in [Req -> SUBSET Position] /\ asked \in [Req -> Question]
    /\ todo \in [Req -> SUBSET (TimeId \cup PosId)]
    /\ adds \in [Req -> SUBSET (Item \cup Added)]
    /\ \A r \in Req : adds[r] \subseteq IF pc[r] = "find" THEN Item ELSE Added
    /\ fresh \in [Req -> SUBSET Item] /\ exist \in [Req -> TimeId \cup {0}]
    /\ edits \in [Req -> 0 .. MaxEdits]
    /\ signed \subseteq {p \in PosId : pos[p] # NoRow} /\ late \subseteq signed
    /\ forms \in 0 .. MaxForms /\ faults \in 0 .. MaxFaults
    /\ signUps \in 0 .. MaxSignUps
    /\ disturbed \in [Req -> BOOLEAN] /\ revived \in [Req -> BOOLEAN]

(* What the dialogs of ShiftTypesUpdate.tsx:194 and :240 and the one that  *)
(* deletes a position are for, as the handlers look neither at sign-ups    *)
(* nor at rows: nobody is on a position, time or type that was removed,    *)
(* except who signed up when it was already gone from the table or from an *)
(* open form, or an open dialog had asked about it.                        *)
NobodyLeftBehind ==
    /\ TypeOK
    /\ \A p \in signed : ~ InForce(p) => p \in late

Plain(list) == {[slot |-> i.slot, at |-> {p.position : p \in i.places}] : i \in list}

(* A save that ended without an error, without another one of its type in  *)
(* its way and without finding a row for what it adds, leaves the type as  *)
(* it was sent, whatever earlier saves left behind: the form, filled       *)
(* again, shows the list that was sent, and no position is in force on a   *)
(* time that is not.                                                       *)
SavedAsSent ==
    [][\A r \in Req :
           (pc[r] # "done" /\ pc'[r] = "done" /\ ~ disturbed[r] /\ ~ revived[r])
               => LET ty == type[r]
                  IN  /\ Plain(Shown(ty)) = {i \in Plain(sent[r]) : i.at # {}}
                      /\ \A p \in RowsOf(ty) :
                            ~ pos[p].removed => pos[p].time \in TimesOf(ty)]_vars

(* A save that nothing disturbs, one that fails in the middle included,    *)
(* takes away nothing the user left in the form.                           *)
KeptRowsStay ==
    [][\A r \in Req :
           (pc[r] \notin Ended /\ pc'[r] \in {"done", "failed"} /\ ~ disturbed[r])
               => \A i \in sent[r] :
                     i.id # 0 => /\ ~ time[i.id].removed
                                 /\ \A p \in i.places :
                                       p.id # 0 => ~ pos[p.id].removed]_vars
=============================================================================

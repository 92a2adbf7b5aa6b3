-------------------------- MODULE ShiftFormProofs --------------------------
(***************************************************************************)
(* Theorems about ShiftForm, for any types, slots, positions, tables and   *)
(* forms, and any bounds.                                                  *)
(***************************************************************************)
EXTENDS ShiftForm, WellFoundedInduction, TLAPS

-----------------------------------------------------------------------------
(* What the inductive invariant says.                                      *)

(* A position belongs to a time.                                           *)
Linked == \A p \in PosId : pos[p] # NoRow => time[pos[p].time] # NoRow

(* What a form has an id of is in the table as the form has it.            *)
Known(list) ==
    \A i \in list :
        /\ i.id # 0 => time[i.id] # NoRow
        /\ \A q \in i.places : q.id # 0 =>
               /\ i.id # 0 /\ pos[q.id] # NoRow
               /\ pos[q.id].time = i.id /\ pos[q.id].position = q.position

(* What a handler is about to write: the rows to remove are of its type,   *)
(* and none of them is in the list it was sent.                            *)
Stage(r) ==
    /\ Known(sent[r])
    /\ pc[r] \notin Ended \cup {"unlist"} => type[r] \in Type
    /\ pc[r] = "confirm" => type[r] \in named /\ sent[r] = {}
    /\ pc[r] \in {"update", "find", "drop"} =>
           \A t \in todo[r] : t \in TimeId /\ time[t] # NoRow /\ time[t].type = type[r]
    /\ pc[r] \in {"find", "drop"} => todo[r] \cap Ids(sent[r]) = {}
    /\ pc[r] \in {"add", "take"} =>
           todo[r] \subseteq RowsOf(type[r]) \ Ids(Places(sent[r]))
    /\ pc[r] \in {"add", "breaking", "fill"} =>
           \A a \in adds[r] : /\ time[a.time] # NoRow
                              /\ a.row # 0 => pos[a.row] # NoRow

(* A form whose handler will still remove what the form does not have.     *)
Working(r) == pc[r] \in Pc \ (Ended \cup {"blank", "breaking", "insert", "fill", "unlist"})

(* Who is on a position and not late is safe: the position is in force,    *)
(* and no open form or dialog is about to take it away.                    *)
Safe(p) == InForce(p) /\ ~ AboutToGo(p)

(* A dialog is open in a form only, and the saved positions of the form    *)
(* are among those its GET has found.                                      *)
Dialogs(r) ==
    /\ pc[r] # "form" => asked[r] = Nothing
    /\ pc[r] = "form" => \A i \in sent[r] : \A q \in i.places :
                             q.id # 0 => q.position \in found[r]

FormInv ==
    /\ TypeOK
    /\ Linked
    /\ \A r \in Req : Stage(r) /\ Dialogs(r)
    /\ \A p \in signed \ late : Safe(p)

(* What an undisturbed form kept is there and of its type.                 *)
Kept(r) ==
    pc[r] \notin Ended /\ ~ disturbed[r] =>
        \A i \in sent[r] :
            i.id # 0 => /\ ~ time[i.id].removed /\ time[i.id].type = type[r]
                        /\ \A q \in i.places : q.id # 0 => ~ pos[q.id].removed

-----------------------------------------------------------------------------
(* Helpers.                                                                *)

(* The least of a set of ids is one of them.                               *)
LEMMA MinIn ==
    ASSUME NEW S, S \subseteq Nat, S # {}
    PROVE  Min(S) \in S
<1>1. PICK x \in S : \A y \in S : ~ (<<y, x>> \in OpToRel(<, Nat))
  BY NatLessThanWellFounded, WFMin
<1>2. \A y \in S : x <= y
  <2>1. \A y \in S : x \in Nat /\ y \in Nat
    OBVIOUS
  <2>2. \A y \in S : ~ (y < x)
    BY <1>1, <2>1, Zenon DEF OpToRel
  <2> QED BY <2>1, <2>2
<1> QED BY <1>2 DEF Min

LEMMA IdsType == TimeId \subseteq Nat \ {0} /\ PosId \subseteq Nat \ {0}
BY FormAssumption

LEMMA FreeIn ==
    /\ FreeTimes # {} => Min(FreeTimes) \in TimeId /\ time[Min(FreeTimes)] = NoRow
    /\ FreePositions # {} => Min(FreePositions) \in PosId /\ pos[Min(FreePositions)] = NoRow
<1>1. FreeTimes \subseteq Nat /\ FreePositions \subseteq Nat
  BY IdsType DEF FreeTimes, FreePositions
<1>2. /\ FreeTimes # {} => Min(FreeTimes) \in FreeTimes
      /\ FreePositions # {} => Min(FreePositions) \in FreePositions
  BY <1>1, MinIn
<1> QED BY <1>2 DEF FreeTimes, FreePositions

LEMMA InPlaces ==
    ASSUME NEW list, NEW p
    PROVE  p \in Ids(Places(list)) <=> \E i \in list : \E q \in i.places : q.id = p
BY DEF Ids, Places

LEMMA InIds ==
    ASSUME NEW list, NEW t
    PROVE  t \in Ids(list) <=> \E i \in list : i.id = t
BY DEF Ids

(* The fields of a row that is there.                                      *)
LEMMA RowType ==
    ASSUME TypeOK
    PROVE  /\ \A t \in TimeId : time[t] # NoRow =>
                  time[t] \in Time /\ time[t].type \in Type /\ time[t].slot \in Slot
                  /\ time[t].removed \in BOOLEAN
           /\ \A p \in PosId : pos[p] # NoRow =>
                  pos[p] \in Pos /\ pos[p].time \in TimeId /\ pos[p].position \in Position
                  /\ pos[p].removed \in BOOLEAN
BY DEF TypeOK, Time, Pos

LEMMA RowIsRow ==
    /\ \A x \in Time : x # NoRow
    /\ \A x \in Pos : x # NoRow
BY FormAssumption DEF Time, Pos

(* Rows stay, and keep what they are the row of; the flag and the slot are *)
(* all that changes.                                                       *)
Grown ==
    /\ named \subseteq named'
    /\ \A t \in TimeId : time[t] # NoRow =>
           time'[t] # NoRow /\ time'[t].type = time[t].type
    /\ \A p \in PosId : pos[p] # NoRow =>
           /\ pos'[p] # NoRow
           /\ pos'[p].time = pos[p].time /\ pos'[p].position = pos[p].position

LEMMA SameRows ==
    ASSUME TypeOK, Linked, Grown, NEW ty
    PROVE  \A p \in PosId : pos[p] # NoRow => (p \in RowsOf(ty)' <=> p \in RowsOf(ty))
BY RowType DEF Linked, Grown, RowsOf

(* What a list has of the tables stays true.                               *)
LEMMA KnownStays ==
    ASSUME TypeOK, Grown, NEW list \in SUBSET Item, Known(list)
    PROVE  Known(list)'
<1> SUFFICES ASSUME NEW i \in list
             PROVE  /\ i.id # 0 => time'[i.id] # NoRow
                    /\ \A q \in i.places : q.id # 0 =>
                           /\ i.id # 0 /\ pos'[q.id] # NoRow
                           /\ pos'[q.id].time = i.id /\ pos'[q.id].position = q.position
  BY DEF Known
<1>1. i.id \in TimeId \cup {0} /\ \A q \in i.places : q.id \in PosId \cup {0}
  BY DEF Item, Place
<1>2. /\ i.id # 0 => time[i.id] # NoRow
      /\ \A q \in i.places : q.id # 0 =>
             /\ i.id # 0 /\ pos[q.id] # NoRow
             /\ pos[q.id].time = i.id /\ pos[q.id].position = q.position
  BY DEF Known
<1> QED BY <1>1, <1>2 DEF Grown

(* A handler that does nothing stays as far as it is, whatever others do.  *)
LEMMA StageStays ==
    ASSUME TypeOK, Linked, Grown, NEW r \in Req, Stage(r),
           pc'[r] = pc[r], type'[r] = type[r], sent'[r] = sent[r],
           todo'[r] = todo[r], adds'[r] = adds[r]
    PROVE  Stage(r)'
<1>1. Known(sent[r])'
  <2>1. Known(sent[r]) /\ sent[r] \in SUBSET Item
    BY DEF Stage, TypeOK
  <2> QED BY <2>1, KnownStays
<1>2. pc[r] \in {"add", "take"} => todo[r] \subseteq RowsOf(type[r])'
  <2> SUFFICES ASSUME pc[r] \in {"add", "take"}, NEW p \in todo[r]
               PROVE  p \in RowsOf(type[r])'
    OBVIOUS
  <2>1. p \in RowsOf(type[r])
    BY DEF Stage
  <2>2. p \in PosId /\ pos[p] # NoRow
    BY <2>1 DEF RowsOf
  <2> QED BY <2>1, <2>2, SameRows
<1>3. pc[r] \in {"add", "breaking", "fill"} =>
          \A a \in adds[r] : a.time \in TimeId /\ a.row \in PosId \cup {0}
  BY DEF TypeOK, Added
<1> QED BY <1>1, <1>2, <1>3 DEF Stage, Grown, Known

-----------------------------------------------------------------------------
(* The parts of TypeOK, and what keeps each.                               *)

TablesType ==
    /\ named \subseteq Type /\ hidden \subseteq named /\ gone \subseteq Position
    /\ time \in [TimeId -> Time \cup {NoRow}]
    /\ pos \in [PosId -> Pos \cup {NoRow}]

HandlersType ==
    /\ pc \in [Req -> Pc]
    /\ type \in [Req -> Type \cup {NoType}]
    /\ offered \in [Req -> SUBSET Position] /\ sent \in [Req -> SUBSET Item]
    /\ found \in [Req -> SUBSET Position] /\ asked \in [Req -> Question]
    /\ todo \in [Req -> SUBSET (TimeId \cup PosId)]
    /\ adds \in [Req -> SUBSET (Item \cup Added)]
    /\ \A r \in Req : adds[r] \subseteq IF pc[r] = "find" THEN Item ELSE Added
    /\ fresh \in [Req -> SUBSET Item] /\ exist \in [Req -> TimeId \cup {0}]

CountsType ==
    /\ edits \in [Req -> 0 .. MaxEdits]
    /\ forms \in 0 .. MaxForms /\ faults \in 0 .. MaxFaults

HistoryType == disturbed \in [Req -> BOOLEAN] /\ revived \in [Req -> BOOLEAN]

PeopleType ==
    /\ signed \subseteq {p \in PosId : pos[p] # NoRow} /\ late \subseteq signed
    /\ signUps \in 0 .. MaxSignUps

LEMMA TypeParts ==
    /\ TypeOK <=> TablesType /\ HandlersType /\ CountsType /\ HistoryType /\ PeopleType
    /\ TypeOK' <=> TablesType' /\ HandlersType' /\ CountsType' /\ HistoryType' /\ PeopleType'
BY DEF TypeOK, TablesType, HandlersType, CountsType, HistoryType, PeopleType

LEMMA PeopleStay ==
    ASSUME TypeOK, Grown, UNCHANGED people
    PROVE  PeopleType'
BY DEF TypeOK, Grown, PeopleType, people

LEMMA HistoryStays ==
    ASSUME TypeOK, NEW r \in Req, Disturbs(r) \/ UNCHANGED disturbed,
           UNCHANGED revived \/ revived' = [revived EXCEPT ![r] = TRUE]
    PROVE  HistoryType'
<1>1. revived' \in [Req -> BOOLEAN]
  BY DEF TypeOK
<1>2. disturbed' \in [Req -> BOOLEAN]
  <2>1. CASE UNCHANGED disturbed
    BY <2>1 DEF TypeOK
  <2>2. CASE Disturbs(r)
    BY <2>2 DEF Disturbs
  <2> QED BY <2>1, <2>2
<1> QED BY <1>1, <1>2 DEF HistoryType

(* Who is safe stays so when her position stays in force and the only form *)
(* that moved is not about to take it away.                                *)
LEMMA SafeStep ==
    ASSUME FormInv, Grown, NEW r \in Req,
           \A q \in Req \ {r} : /\ pc'[q] = pc[q] /\ type'[q] = type[q]
                                /\ offered'[q] = offered[q] /\ sent'[q] = sent[q]
                                /\ asked'[q] = asked[q],
           NEW p \in signed \ late, InForce(p)',
           Working(r)' /\ time[pos[p].time].type = type'[r] =>
               /\ p \in Ids(Places(sent'[r])) /\ pos[p].time \notin asked'[r].times
               /\ pos[p].position \notin asked'[r].positions,
           pc'[r] = "unlist" => pos[p].position \notin offered'[r]
    PROVE  Safe(p)'
<1>1. /\ p \in PosId /\ pos[p] # NoRow /\ pos'[p].position = pos[p].position
      /\ pos'[p].time = pos[p].time
      /\ time'[pos'[p].time].type = time[pos[p].time].type
      /\ Safe(p)
  BY RowType DEF FormInv, TypeOK, Linked, Grown
<1>2. ASSUME NEW q \in Req, Working(q)', p \in RowsOf(type[q])', Going(q, p)'
      PROVE  FALSE
  <2>1. time[pos[p].time].type = type'[q]
    BY <1>1, <1>2 DEF RowsOf
  <2>2. CASE q = r
    BY <1>1, <1>2, <2>1, <2>2 DEF Going, Ids, Places
  <2>3. CASE q # r
    <3>1. Working(q) /\ p \in RowsOf(type[q]) /\ Going(q, p)
      BY <1>1, <1>2, <2>1, <2>3 DEF Working, RowsOf, Going, Ids, Places
    <3> QED BY <1>1, <3>1 DEF Safe, AboutToGo, Working, Going
  <2> QED BY <2>2, <2>3
<1>3. ASSUME NEW q \in Req, pc'[q] = "unlist", pos'[p].position \in offered'[q]
      PROVE  FALSE
  BY <1>1, <1>3 DEF Safe, AboutToGo
<1>4. ~ AboutToGo(p)'
  BY <1>2, <1>3 DEF AboutToGo, Working
<1> QED BY <1>4 DEF Safe

(* A statement of a handler, from what it does to the tables, and to the   *)
(* variables of its own.                                                   *)
LEMMA SaveStep ==
    ASSUME FormInv, NEW r \in Req,
           UNCHANGED <<type, offered, found, asked, sent, people, edits, forms>>,
           TablesType', HandlersType', faults' \in 0 .. MaxFaults, HistoryType',
           Grown, Linked',
           \A q \in Req \ {r} : pc'[q] = pc[q] /\ todo'[q] = todo[q] /\ adds'[q] = adds[q],
           Working(r)' => Working(r), pc'[r] \notin {"unlist", "form"},
           pc[r] = "form" => asked[r] = Nothing,
           Stage(r)',
           \A p \in signed \ late : InForce(p)'
    PROVE  FormInv'
<1>1. TypeOK'
  <2>1. CountsType'
    BY DEF FormInv, TypeOK, CountsType
  <2>2. PeopleType'
    BY PeopleStay DEF FormInv
  <2> QED BY <2>1, <2>2, TypeParts
<1>2. \A q \in Req : Stage(q)' /\ Dialogs(q)'
  <2>1. ASSUME NEW q \in Req \ {r}
        PROVE  Stage(q)' /\ Dialogs(q)'
    <3>1. Stage(q)'
      BY StageStays DEF FormInv
    <3>2. Dialogs(q)'
      BY DEF FormInv, Dialogs
    <3> QED BY <3>1, <3>2
  <2>2. Dialogs(r)'
    BY DEF FormInv, Dialogs
  <2> QED BY <2>1, <2>2
<1>3. ASSUME NEW p \in signed' \ late'
      PROVE  Safe(p)'
  <2>1. p \in signed \ late
    BY DEF people
  <2>2. /\ p \in PosId /\ pos[p] # NoRow
        /\ Safe(p)
    BY <2>1 DEF FormInv, TypeOK
  <2>3. Working(r)' /\ time[pos[p].time].type = type'[r] =>
            /\ p \in Ids(Places(sent'[r])) /\ pos[p].time \notin asked'[r].times
            /\ pos[p].position \notin asked'[r].positions
    BY <2>2 DEF Safe, AboutToGo, Working, RowsOf, Going
  <2> QED BY <2>1, <2>3, SafeStep
<1> QED BY <1>1, <1>2, <1>3 DEF FormInv

LEMMA SameTables ==
    ASSUME FormInv, UNCHANGED tables
    PROVE  /\ TablesType' /\ Grown /\ Linked'
           /\ \A p \in signed \ late : InForce(p)'
<1>1. UNCHANGED <<named, hidden, gone, time, pos>>
  BY DEF tables
<1>2. TablesType' /\ Grown /\ Linked'
  BY <1>1 DEF FormInv, TypeOK, TablesType, Grown, Linked
<1>3. \A p \in signed \ late : InForce(p)
  BY DEF FormInv, Safe
<1> QED BY <1>1, <1>2, <1>3 DEF InForce

-----------------------------------------------------------------------------
(* The steps that only read the tables.                                    *)

LEMMA ReadStep ==
    ASSUME FormInv, NEW r \in Req,
           UNCHANGED <<tables, type, offered, found, asked, sent, people, edits, forms>>,
           UNCHANGED <<disturbed, revived>>,
           HandlersType', faults' \in 0 .. MaxFaults,
           \A q \in Req \ {r} : pc'[q] = pc[q] /\ todo'[q] = todo[q] /\ adds'[q] = adds[q],
           Working(r)' => Working(r), pc'[r] \notin {"unlist", "form"},
           pc[r] = "form" => asked[r] = Nothing,
           Stage(r)'
    PROVE  FormInv'
<1>1. HistoryType'
  BY DEF FormInv, TypeOK, HistoryType
<1> QED BY <1>1, SameTables, SaveStep

LEMMA FaultsType == ASSUME TypeOK PROVE faults \in 0 .. MaxFaults /\ MaxFaults \in Nat
BY FormAssumption DEF TypeOK

LEMMA SelectTimesInv ==
    ASSUME FormInv, NEW r \in Req, SelectTimes(r)
    PROVE  FormInv'
<1>1. /\ pc[r] = "form" /\ asked[r] = Nothing /\ pc' = [pc EXCEPT ![r] = "update"]
      /\ todo' = [todo EXCEPT ![r] = TimesOf(type[r])]
      /\ UNCHANGED <<tables, type, offered, found, asked, sent, people, edits, forms>>
      /\ UNCHANGED <<disturbed, revived>>
      /\ UNCHANGED <<adds, fresh, exist, faults>>
  BY DEF SelectTimes, At, Goto
<1>2. TimesOf(type[r]) \subseteq TimeId
  BY DEF TimesOf
<1>3. HandlersType'
  BY <1>1, <1>2 DEF FormInv, TypeOK, HandlersType, Pc
<1>4. /\ \A q \in Req \ {r} : pc'[q] = pc[q] /\ todo'[q] = todo[q] /\ adds'[q] = adds[q]
      /\ pc'[r] = "update" /\ todo'[r] = TimesOf(type[r]) /\ adds'[r] = adds[r]
  BY <1>1 DEF FormInv, TypeOK
<1>5. Stage(r)'
  BY <1>1, <1>4 DEF FormInv, Stage, Known, TimesOf, Ended, tables
<1>6. Working(r)
  BY <1>1 DEF Working, Pc, Ended
<1> QED BY <1>1, <1>3, <1>4, <1>5, <1>6, FaultsType, ReadStep DEF FormInv

LEMMA KeepForLaterInv ==
    ASSUME FormInv, NEW r \in Req, NEW i \in adds[r], KeepForLater(r, i)
    PROVE  FormInv'
<1>1. /\ pc[r] = "find" /\ pc' = pc
      /\ exist' = [exist EXCEPT ![r] = 0]
      /\ fresh' = [fresh EXCEPT ![r] = @ \cup {i}]
      /\ adds' = [adds EXCEPT ![r] = @ \ {i}]
      /\ UNCHANGED <<tables, type, offered, found, asked, sent, people, edits, forms>>
      /\ UNCHANGED <<disturbed, revived>>
      /\ UNCHANGED <<todo, faults>>
  BY DEF KeepForLater, At
<1>2. i \in Item
  BY <1>1 DEF FormInv, TypeOK
<1>3. HandlersType'
  BY <1>1, <1>2 DEF FormInv, TypeOK, HandlersType
<1>4. \A q \in Req \ {r} : pc'[q] = pc[q] /\ todo'[q] = todo[q] /\ adds'[q] = adds[q]
  BY <1>1 DEF FormInv, TypeOK
<1>5. Stage(r)'
  BY <1>1 DEF FormInv, Stage, Known, tables
<1>6. Working(r) /\ pc'[r] \notin {"unlist", "form"}
  BY <1>1 DEF Working, Pc, Ended
<1> QED BY <1>1, <1>3, <1>4, <1>5, <1>6, FaultsType, ReadStep DEF FormInv

(* The end of a stage: nothing but the handler's place changes.            *)
LEMMA MoveInv ==
    ASSUME FormInv, NEW r \in Req,
           \/ LookedUp(r) \/ Broken(r) \/ AllAdded(r) \/ Filled(r) \/ InsertFails(r)
           \/ Saved(r) \/ CreateFails(r)
    PROVE  FormInv'
<1>1. /\ UNCHANGED <<tables, type, offered, found, asked, sent, people, edits, forms>>
      /\ UNCHANGED <<disturbed, revived>>
      /\ UNCHANGED <<todo, adds, fresh, exist>>
      /\ faults' \in 0 .. MaxFaults
  BY FaultsType DEF FormInv, LookedUp, Broken, AllAdded, Filled, InsertFails, Saved,
                    CreateFails, At
<1>2. /\ pc' = [pc EXCEPT ![r] = pc'[r]]
      /\ \/ pc[r] = "find" /\ adds[r] = {} /\ pc'[r] = "drop"
         \/ pc[r] = "add" /\ adds[r] = {} /\ pc'[r] = "take"
         \/ pc[r] = "fill" /\ adds[r] = {} /\ pc'[r] = "insert"
         \/ pc[r] \in {"blank", "breaking", "insert", "fill"} /\ pc'[r] \in {"failed", "done"}
  BY DEF FormInv, TypeOK, LookedUp, Broken, AllAdded, Filled, InsertFails, Saved,
         CreateFails, At, Goto
<1>3. HandlersType'
  <2>1. pc' \in [Req -> Pc]
    BY <1>2 DEF FormInv, TypeOK, Pc
  <2>2. \A q \in Req : adds'[q] \subseteq IF pc'[q] = "find" THEN Item ELSE Added
    BY <1>1, <1>2 DEF FormInv, TypeOK
  <2> QED BY <1>1, <2>1, <2>2 DEF FormInv, TypeOK, HandlersType
<1>4. \A q \in Req \ {r} : pc'[q] = pc[q] /\ todo'[q] = todo[q] /\ adds'[q] = adds[q]
  BY <1>1, <1>2 DEF FormInv, TypeOK
<1>5. Stage(r)'
  <2>1. Stage(r) /\ Known(sent[r])'
    BY <1>1 DEF FormInv, Stage, Known, tables
  <2>2. RowsOf(type[r])' = RowsOf(type[r])
    BY <1>1 DEF RowsOf, tables
  <2> QED BY <1>1, <1>2, <2>1, <2>2 DEF Stage, Ended, tables
<1>6. (Working(r)' => Working(r)) /\ pc'[r] \notin {"unlist", "form"} /\ pc[r] # "form"
  BY <1>2 DEF Working, Pc, Ended
<1> QED BY <1>1, <1>3, <1>4, <1>5, <1>6, ReadStep

LEMMA SelectRowsInv ==
    ASSUME FormInv, NEW r \in Req, SelectRows(r)
    PROVE  FormInv'
<1> DEFINE wanted == UNION {{[time |-> i.id, position |-> p.position, looked |-> FALSE, row |-> 0] :
                                 p \in {q \in i.places : q.id \notin RowsOf(type[r])}} :
                             i \in {j \in sent[r] : j.id # 0}}
           extra == RowsOf(type[r]) \ Ids(Places(sent[r]))
<1>1. /\ pc[r] = "rows" /\ pc' = [pc EXCEPT ![r] = "add"]
      /\ adds' = [adds EXCEPT ![r] = wanted] /\ todo' = [todo EXCEPT ![r] = extra]
      /\ UNCHANGED <<tables, type, offered, found, asked, sent, people, edits, forms>>
      /\ UNCHANGED <<disturbed, revived>>
      /\ UNCHANGED <<fresh, exist, faults>>
  BY DEF SelectRows, At, Goto
<1>2. extra \subseteq PosId
  BY DEF RowsOf
<1>3. \A a \in wanted : a \in Added /\ time[a.time] # NoRow /\ a.row = 0
  <2> SUFFICES ASSUME NEW i \in sent[r], i.id # 0, NEW p \in i.places,
                      NEW a, a = [time |-> i.id, position |-> p.position,
                                  looked |-> FALSE, row |-> 0]
               PROVE  a \in Added /\ time[a.time] # NoRow /\ a.row = 0
    OBVIOUS
  <2>1. i \in Item /\ p \in Place /\ time[i.id] # NoRow
    BY DEF FormInv, TypeOK, Stage, Known, Item
  <2> QED BY <2>1 DEF Item, Place, Added
<1> HIDE DEF wanted
<1>4. HandlersType'
  <2>1. pc' \in [Req -> Pc] /\ todo' \in [Req -> SUBSET (TimeId \cup PosId)]
    BY <1>1, <1>2 DEF FormInv, TypeOK, Pc
  <2>2. wanted \subseteq Added
    BY <1>3
  <2>3. adds' \in [Req -> SUBSET (Item \cup Added)]
    BY <1>1, <2>2 DEF FormInv, TypeOK
  <2>4. \A q \in Req : adds'[q] \subseteq IF pc'[q] = "find" THEN Item ELSE Added
    BY <1>1, <2>2 DEF FormInv, TypeOK
  <2> QED BY <1>1, <2>1, <2>3, <2>4 DEF FormInv, TypeOK, HandlersType
<1>5. /\ \A q \in Req \ {r} : pc'[q] = pc[q] /\ todo'[q] = todo[q] /\ adds'[q] = adds[q]
      /\ pc'[r] = "add" /\ todo'[r] = extra /\ adds'[r] = wanted
  BY <1>1 DEF FormInv, TypeOK
<1>6. Stage(r)'
  <2>1. Stage(r) /\ Known(sent[r])'
    BY <1>1 DEF FormInv, Stage, Known, tables
  <2>2. RowsOf(type[r])' = RowsOf(type[r])
    BY <1>1 DEF RowsOf, tables
  <2> QED BY <1>1, <1>3, <1>5, <2>1, <2>2 DEF Stage, Ended, tables
<1>7. Working(r)
  BY <1>1 DEF Working, Pc, Ended
<1> QED BY <1>1, <1>4, <1>5, <1>6, <1>7, FaultsType, ReadStep DEF FormInv

(* The row found for a position to be added is one that is there.          *)
LEMMA LookUpPositionInv ==
    ASSUME FormInv, NEW r \in Req, NEW a \in adds[r], LookUpPosition(r, a)
    PROVE  FormInv'
<1> DEFINE t == IF exist[r] # 0 THEN exist[r] ELSE a.time
           hit == {p \in PosId : pos[p] # NoRow /\ pos[p].time = t
                                  /\ pos[p].position = a.position}
           b == [a EXCEPT !.looked = TRUE, !.row = IF hit = {} THEN 0 ELSE Min(hit)]
<1>1. /\ pc[r] \in {"add", "breaking"} /\ UNCHANGED pc
      /\ adds' = [adds EXCEPT ![r] = (@ \ {a}) \cup {b}]
      /\ UNCHANGED <<tables, type, offered, found, asked, sent, people, edits, forms>>
      /\ UNCHANGED <<disturbed, revived>>
      /\ UNCHANGED <<todo, fresh, exist, faults>>
  BY DEF LookUpPosition, counts
<1>2. a \in Added /\ time[a.time] # NoRow
  BY <1>1 DEF FormInv, TypeOK, Stage
<1>3. hit # {} => Min(hit) \in hit
  <2>1. hit \subseteq Nat
    BY IdsType
  <2> HIDE DEF hit
  <2> QED BY <2>1, MinIn
<1>4. b \in Added /\ time[b.time] # NoRow /\ (b.row # 0 => pos[b.row] # NoRow)
  <2> DEFINE m == Min(hit)
  <2>1. hit # {} => m \in PosId /\ pos[m] # NoRow
    BY <1>3
  <2>2. b = [a EXCEPT !.looked = TRUE, !.row = IF hit = {} THEN 0 ELSE m]
    OBVIOUS
  <2> HIDE DEF hit, m, b
  <2> QED BY <1>2, <2>1, <2>2 DEF Added
<1> HIDE DEF b
<1>5. HandlersType'
  BY <1>1, <1>2, <1>4 DEF FormInv, TypeOK, HandlersType
<1>6. /\ \A q \in Req \ {r} : pc'[q] = pc[q] /\ todo'[q] = todo[q] /\ adds'[q] = adds[q]
      /\ adds'[r] = (adds[r] \ {a}) \cup {b}
  BY <1>1 DEF FormInv, TypeOK
<1>7. Stage(r)'
  <2>1. Stage(r) /\ Known(sent[r])'
    BY <1>1 DEF FormInv, Stage, Known, tables
  <2>2. RowsOf(type[r])' = RowsOf(type[r])
    BY <1>1 DEF RowsOf, tables
  <2> QED BY <1>1, <1>4, <1>6, <2>1, <2>2 DEF Stage, Ended, tables
<1>8. (Working(r)' => Working(r)) /\ pc'[r] \notin {"unlist", "form"}
  BY <1>1 DEF Working, Pc, Ended
<1> QED BY <1>1, <1>5, <1>6, <1>7, <1>8, FaultsType, ReadStep DEF FormInv

LEMMA AddFailsInv ==
    ASSUME FormInv, NEW r \in Req, NEW a \in adds[r], AddFails(r, a)
    PROVE  FormInv'
<1>1. /\ pc[r] \in {"add", "breaking"} /\ pc' = [pc EXCEPT ![r] = "breaking"]
      /\ adds' = [adds EXCEPT ![r] = @ \ {a}]
      /\ UNCHANGED <<tables, type, offered, found, asked, sent, people, edits, forms>>
      /\ UNCHANGED <<disturbed, revived>>
      /\ UNCHANGED <<todo, fresh, exist>>
      /\ faults' \in 0 .. MaxFaults
  BY FaultsType DEF FormInv, AddFails, Goto
<1>2. HandlersType'
  BY <1>1 DEF FormInv, TypeOK, HandlersType, Pc
<1>3. /\ \A q \in Req \ {r} : pc'[q] = pc[q] /\ todo'[q] = todo[q] /\ adds'[q] = adds[q]
      /\ pc'[r] = "breaking" /\ adds'[r] = adds[r] \ {a}
  BY <1>1 DEF FormInv, TypeOK
<1>4. Stage(r)'
  <2>1. Stage(r) /\ Known(sent[r])'
    BY <1>1 DEF FormInv, Stage, Known, tables
  <2> QED BY <1>1, <1>3, <2>1 DEF Stage, Ended, tables
<1>5. (Working(r)' => Working(r)) /\ pc'[r] \notin {"unlist", "form"}
  BY <1>3 DEF Working
<1> QED BY <1>1, <1>2, <1>3, <1>4, <1>5, ReadStep

-----------------------------------------------------------------------------
(* The steps that write op_shift_times.                                    *)

(* A step that writes times only, and takes none of those from a type that *)
(* somebody safe is on.                                                    *)
LEMMA TimesStep ==
    ASSUME FormInv, UNCHANGED <<named, hidden, gone, pos>>,
           time' \in [TimeId -> Time \cup {NoRow}],
           \A t \in TimeId : time[t] # NoRow => time'[t] # NoRow /\ time'[t].type = time[t].type,
           \A p \in signed \ late : time'[pos[p].time].removed =>
                                        time[pos[p].time].removed
    PROVE  /\ TablesType' /\ Grown /\ Linked'
           /\ \A p \in signed \ late : InForce(p)'
<1>1. TablesType'
  BY DEF FormInv, TypeOK, TablesType
<1>2. Grown
  BY DEF Grown
<1>3. Linked'
  BY RowType DEF FormInv, Linked
<1>4. ASSUME NEW p \in signed \ late
      PROVE  InForce(p)'
  <2>1. p \in PosId /\ pos[p] # NoRow /\ InForce(p)
    BY DEF FormInv, TypeOK, Safe
  <2>2. pos[p].time \in TimeId /\ time[pos[p].time] # NoRow
    BY <2>1, RowType DEF FormInv, Linked
  <2> QED BY <2>1, <2>2 DEF InForce
<1> QED BY <1>1, <1>2, <1>3, <1>4

(* What the UPDATEs of the times write, all of them or those that do not   *)
(* fail.                                                                   *)
LEMMA MovesTimes ==
    ASSUME FormInv, NEW r \in Req, UpdateTimes(r) \/ UpdateFails(r)
    PROVE  /\ UNCHANGED <<named, hidden, gone, pos>> /\ pc[r] = "update"
           /\ time' \in [TimeId -> Time \cup {NoRow}]
           /\ \A t \in TimeId :
                  \/ time'[t] = time[t]
                  \/ /\ time[t] # NoRow /\ time'[t] # NoRow /\ time'[t] \in Time
                     /\ time[t].type = type[r] /\ time'[t].type = type[r]
                     /\ time'[t].removed = time[t].removed
<1>1. /\ UNCHANGED <<named, hidden, gone, pos>> /\ pc[r] = "update"
      /\ \E ids \in SUBSET (todo[r] \cap Ids(sent[r])) : time' = Moved(r, ids)
  BY DEF UpdateTimes, UpdateFails, At
<1>2. PICK ids \in SUBSET (todo[r] \cap Ids(sent[r])) : time' = Moved(r, ids)
  BY <1>1
<1>3. ASSUME NEW t \in TimeId, t \in ids
      PROVE  /\ time[t] # NoRow /\ time'[t] # NoRow /\ time'[t] \in Time
             /\ time[t].type = type[r] /\ time'[t].type = type[r]
             /\ time'[t].removed = time[t].removed
  <2>1. time[t] # NoRow /\ time[t] \in Time /\ time[t].type = type[r]
    BY <1>1, <1>2, <1>3, RowType DEF FormInv, Stage
  <2>2. PICK i \in sent[r] : i.id = t
    BY <1>2, <1>3, InIds
  <2>3. (CHOOSE j \in sent[r] : j.id = t) \in sent[r]
    BY <2>2
  <2>4. (CHOOSE j \in sent[r] : j.id = t).slot \in Slot
    BY <2>3 DEF FormInv, TypeOK, Item
  <2>5. time'[t] = [time[t] EXCEPT !.slot = (CHOOSE j \in sent[r] : j.id = t).slot]
    BY <1>2, <1>3 DEF Moved
  <2>6. /\ time'[t] \in Time /\ time'[t].type = time[t].type
        /\ time'[t].removed = time[t].removed
    BY <2>1, <2>4, <2>5 DEF Time
  <2> QED BY <2>1, <2>6, RowIsRow
<1>4. \A t \in TimeId : t \notin ids => time'[t] = time[t]
  BY <1>2 DEF Moved
<1>5. time' \in [TimeId -> Time \cup {NoRow}]
  <2>1. \A t \in TimeId : time'[t] \in Time \cup {NoRow}
    BY <1>3, <1>4 DEF FormInv, TypeOK
  <2> QED BY <1>2, <2>1 DEF Moved
<1> QED BY <1>1, <1>3, <1>4, <1>5

LEMMA MovesInForce ==
    ASSUME FormInv, NEW r \in Req, UpdateTimes(r) \/ UpdateFails(r)
    PROVE  /\ TablesType' /\ Grown /\ Linked'
           /\ \A p \in signed \ late : InForce(p)'
<1>1. \A p \in signed \ late : pos[p].time \in TimeId
  BY RowType DEF FormInv, TypeOK
<1> QED BY <1>1, MovesTimes, TimesStep

LEMMA UpdateTimesInv ==
    ASSUME FormInv, NEW r \in Req, UpdateTimes(r)
    PROVE  FormInv'
<1> DEFINE added == {i \in sent[r] : i.id \notin todo[r]}
<1>1. /\ pc[r] = "update" /\ pc' = [pc EXCEPT ![r] = "find"]
      /\ todo' = [todo EXCEPT ![r] = @ \ Ids(sent[r])]
      /\ adds' = [adds EXCEPT ![r] = added]
      /\ UNCHANGED <<type, offered, found, asked, sent, people, edits, forms>>
      /\ UNCHANGED <<fresh, exist, faults, revived>>
      /\ Disturbs(r)
  BY DEF UpdateTimes, At, Goto
<1>2. /\ UNCHANGED <<named, hidden, gone, pos>>
      /\ TablesType' /\ Grown /\ Linked'
      /\ \A p \in signed \ late : InForce(p)'
  BY MovesTimes, MovesInForce
<1>3. HandlersType'
  BY <1>1 DEF FormInv, TypeOK, HandlersType, Pc
<1>4. /\ \A q \in Req \ {r} : pc'[q] = pc[q] /\ todo'[q] = todo[q] /\ adds'[q] = adds[q]
      /\ pc'[r] = "find" /\ todo'[r] = todo[r] \ Ids(sent[r])
  BY <1>1 DEF FormInv, TypeOK
<1>5. Stage(r)'
  <2>1. Stage(r) /\ sent[r] \in SUBSET Item
    BY DEF FormInv, TypeOK
  <2>2. Known(sent[r])'
    <3>1. Known(sent[r])
      BY <2>1 DEF Stage
    <3> QED BY <1>1, <1>2, <2>1, <3>1, KnownStays DEF FormInv, Known
  <2>3. todo'[r] \cap Ids(sent[r])' = {}
    BY <1>1, <1>4 DEF Ids
  <2> QED BY <1>1, <1>2, <1>4, <2>1, <2>2, <2>3 DEF Stage, Ended, Grown
<1>6. HistoryType'
  BY <1>1, HistoryStays DEF FormInv
<1>7. Working(r)
  BY <1>1 DEF Working, Pc, Ended
<1> QED BY <1>1, <1>2, <1>3, <1>4, <1>5, <1>6, <1>7, FaultsType, SaveStep DEF FormInv

LEMMA UpdateFailsInv ==
    ASSUME FormInv, NEW r \in Req, UpdateFails(r)
    PROVE  FormInv'
<1>1. /\ pc[r] = "update" /\ pc' = [pc EXCEPT ![r] = "failed"]
      /\ UNCHANGED <<type, offered, found, asked, sent, people, edits, forms>>
      /\ UNCHANGED <<todo, adds, fresh, exist, revived>>
      /\ Disturbs(r) /\ faults' \in 0 .. MaxFaults
  BY FaultsType DEF FormInv, UpdateFails, At, Goto
<1>2. /\ UNCHANGED <<named, hidden, gone, pos>>
      /\ TablesType' /\ Grown /\ Linked'
      /\ \A p \in signed \ late : InForce(p)'
  BY MovesTimes, MovesInForce
<1>3. HandlersType'
  BY <1>1 DEF FormInv, TypeOK, HandlersType, Pc
<1>4. /\ \A q \in Req \ {r} : pc'[q] = pc[q] /\ todo'[q] = todo[q] /\ adds'[q] = adds[q]
      /\ pc'[r] = "failed"
  BY <1>1 DEF FormInv, TypeOK
<1>5. Stage(r)'
  <2>1. Known(sent[r]) /\ sent[r] \in SUBSET Item
    BY DEF FormInv, TypeOK, Stage
  <2>2. Known(sent[r])'
    BY <1>1, <1>2, <2>1, KnownStays DEF FormInv, Known
  <2> QED BY <1>4, <2>2 DEF Stage, Ended
<1>6. HistoryType'
  BY <1>1, HistoryStays DEF FormInv
<1>7. ~ Working(r)'
  BY <1>4 DEF Working, Ended
<1> QED BY <1>1, <1>2, <1>3, <1>4, <1>5, <1>6, <1>7, SaveStep

(* A row that is brought back keeps its type, whose ever it is.            *)
LEMMA BringBackInv ==
    ASSUME FormInv, NEW r \in Req, NEW i \in adds[r], BringBack(r, i)
    PROVE  FormInv'
<1>1. /\ pc[r] = "find" /\ UNCHANGED pc
      /\ adds' = [adds EXCEPT ![r] = @ \ {i}]
      /\ revived' = [revived EXCEPT ![r] = TRUE]
      /\ UNCHANGED <<type, offered, found, asked, sent, people, edits, forms>>
      /\ UNCHANGED <<named, hidden, gone, pos, todo, fresh, faults>>
      /\ Disturbs(r)
  BY DEF BringBack, At
<1>2. PICK t \in TimeId : /\ time[t] # NoRow
                          /\ time' = [time EXCEPT ![t].removed = FALSE]
                          /\ exist' = [exist EXCEPT ![r] = t]
  BY DEF BringBack, SameTimes
<1>3. /\ TablesType' /\ Grown /\ Linked'
      /\ \A p \in signed \ late : InForce(p)'
  <2>1. time[t] \in Time
    BY <1>2, RowType DEF FormInv
  <2>2. /\ [time[t] EXCEPT !.removed = FALSE] \in Time
        /\ [time[t] EXCEPT !.removed = FALSE].type = time[t].type
        /\ ~ [time[t] EXCEPT !.removed = FALSE].removed
    BY <2>1 DEF Time
  <2>3. /\ time' \in [TimeId -> Time \cup {NoRow}]
        /\ time'[t] = [time[t] EXCEPT !.removed = FALSE]
        /\ \A u \in TimeId \ {t} : time'[u] = time[u]
    BY <1>2, <2>2 DEF FormInv, TypeOK
  <2>4. \A p \in signed \ late : pos[p].time \in TimeId
    BY RowType DEF FormInv, TypeOK
  <2>5. \A u \in TimeId : time[u] # NoRow => time'[u] # NoRow /\ time'[u].type = time[u].type
    BY <2>2, <2>3, RowIsRow
  <2> QED BY <1>1, <2>2, <2>3, <2>4, <2>5, TimesStep
<1>4. HandlersType'
  BY <1>1, <1>2 DEF FormInv, TypeOK, HandlersType
<1>5. \A q \in Req \ {r} : pc'[q] = pc[q] /\ todo'[q] = todo[q] /\ adds'[q] = adds[q]
  BY <1>1 DEF FormInv, TypeOK
<1>6. Stage(r)'
  <2>1. Stage(r) /\ sent[r] \in SUBSET Item
    BY DEF FormInv, TypeOK
  <2>2. Known(sent[r])'
    <3>1. Known(sent[r])
      BY <2>1 DEF Stage
    <3> QED BY <1>1, <1>3, <2>1, <3>1, KnownStays DEF FormInv, Known
  <2>3. Ids(sent[r])' = Ids(sent[r])
    BY <1>1 DEF Ids
  <2> QED BY <1>1, <1>3, <2>1, <2>2, <2>3 DEF Stage, Ended, Grown
<1>7. HistoryType'
  BY <1>1, HistoryStays DEF FormInv
<1>8. Working(r) /\ pc'[r] \notin {"unlist", "form"}
  BY <1>1 DEF Working, Pc, Ended
<1> QED BY <1>1, <1>3, <1>4, <1>5, <1>6, <1>7, <1>8, FaultsType, SaveStep DEF FormInv

(* The times dropped are of the type and not in the list, and whoever is   *)
(* safe is on a position of the list, or on another type's.                *)
LEMMA DropTimesInv ==
    ASSUME FormInv, NEW r \in Req, DropTimes(r)
    PROVE  FormInv'
<1>1. /\ pc[r] = "drop" /\ pc' = [pc EXCEPT ![r] = "rows"]
      /\ time' = [t \in TimeId |-> IF t \in todo[r]
                                   THEN [time[t] EXCEPT !.removed = TRUE] ELSE time[t]]
      /\ todo' = [todo EXCEPT ![r] = {}]
      /\ UNCHANGED <<type, offered, found, asked, sent, people, edits, forms>>
      /\ UNCHANGED <<named, hidden, gone, pos, adds, fresh, exist, faults, revived>>
      /\ Disturbs(r)
  BY DEF DropTimes, At, Goto
<1>2. ASSUME NEW t \in TimeId, t \in todo[r]
      PROVE  /\ [time[t] EXCEPT !.removed = TRUE] \in Time
             /\ [time[t] EXCEPT !.removed = TRUE].type = time[t].type
             /\ [time[t] EXCEPT !.removed = TRUE] # NoRow
             /\ time[t] # NoRow /\ time[t].type = type[r] /\ t \notin Ids(sent[r])
  <2>1. time[t] # NoRow /\ time[t] \in Time /\ time[t].type = type[r] /\ t \notin Ids(sent[r])
    BY <1>1, <1>2, RowType DEF FormInv, Stage
  <2>2. /\ [time[t] EXCEPT !.removed = TRUE] \in Time
        /\ [time[t] EXCEPT !.removed = TRUE].type = time[t].type
    BY <2>1 DEF Time
  <2> QED BY <2>1, <2>2, RowIsRow
<1>3. \A p \in signed \ late : pos[p].time \in TimeId /\ pos[p].time \notin todo[r]
  <2> SUFFICES ASSUME NEW p \in signed \ late
               PROVE  pos[p].time \in TimeId /\ pos[p].time \notin todo[r]
    OBVIOUS
  <2>1. p \in PosId /\ pos[p] # NoRow /\ pos[p].time \in TimeId /\ Safe(p)
    BY RowType DEF FormInv, TypeOK
  <2>2. ASSUME pos[p].time \in todo[r]
        PROVE  FALSE
    <3>1. time[pos[p].time].type = type[r] /\ pos[p].time \notin Ids(sent[r])
      BY <1>2, <2>1, <2>2
    <3>2. Working(r) /\ p \in RowsOf(type[r])
      BY <1>1, <2>1, <3>1 DEF Working, Pc, Ended, RowsOf
    <3>3. p \in Ids(Places(sent[r]))
      BY <2>1, <3>2 DEF Safe, AboutToGo, Working, Going
    <3>4. PICK i \in sent[r] : \E q \in i.places : q.id = p
      BY <3>3, InPlaces
    <3>5. p # 0
      BY <2>1, IdsType
    <3>6. pos[p].time = i.id
      BY <3>4, <3>5 DEF FormInv, Stage, Known
    <3> QED BY <3>1, <3>6, InIds
  <2> QED BY <2>1, <2>2
<1>4. /\ TablesType' /\ Grown /\ Linked'
      /\ \A p \in signed \ late : InForce(p)'
  <2>1. time' \in [TimeId -> Time \cup {NoRow}]
    BY <1>1, <1>2 DEF FormInv, TypeOK
  <2>2. \A u \in TimeId : time[u] # NoRow => time'[u] # NoRow /\ time'[u].type = time[u].type
    BY <1>1, <1>2
  <2>3. \A p \in signed \ late : time'[pos[p].time] = time[pos[p].time]
    BY <1>1, <1>3
  <2> QED BY <1>1, <2>1, <2>2, <2>3, TimesStep
<1>5. HandlersType'
  BY <1>1 DEF FormInv, TypeOK, HandlersType, Pc
<1>6. /\ \A q \in Req \ {r} : pc'[q] = pc[q] /\ todo'[q] = todo[q] /\ adds'[q] = adds[q]
      /\ pc'[r] = "rows"
  BY <1>1 DEF FormInv, TypeOK
<1>7. Stage(r)'
  <2>1. Stage(r) /\ sent[r] \in SUBSET Item
    BY DEF FormInv, TypeOK
  <2>2. Known(sent[r])'
    <3>1. Known(sent[r])
      BY <2>1 DEF Stage
    <3> QED BY <1>1, <1>4, <2>1, <3>1, KnownStays DEF FormInv, Known
  <2> QED BY <1>1, <1>6, <2>1, <2>2 DEF Stage, Ended
<1>8. HistoryType'
  BY <1>1, HistoryStays DEF FormInv
<1>9. Working(r)
  BY <1>1 DEF Working, Pc, Ended
<1> QED BY <1>1, <1>4, <1>5, <1>6, <1>7, <1>8, <1>9, FaultsType, SaveStep DEF FormInv

LEMMA InsertTimeInv ==
    ASSUME FormInv, NEW r \in Req, NEW i \in fresh[r], InsertTime(r, i)
    PROVE  FormInv'
<1> DEFINE t == Min(FreeTimes)
           row == [type |-> type[r], slot |-> i.slot, removed |-> FALSE]
           wanted == {[time |-> t, position |-> p.position, looked |-> TRUE, row |-> 0] :
                          p \in i.places}
<1>1. /\ pc[r] = "insert" /\ pc' = [pc EXCEPT ![r] = "fill"] /\ FreeTimes # {}
      /\ time' = [time EXCEPT ![t] = row]
      /\ adds' = [adds EXCEPT ![r] = wanted]
      /\ fresh' = [fresh EXCEPT ![r] = @ \ {i}]
      /\ UNCHANGED <<type, offered, found, asked, sent, people, edits, forms>>
      /\ UNCHANGED <<named, hidden, gone, pos, todo, exist, faults, revived>>
      /\ Disturbs(r)
  BY DEF InsertTime, At, Goto
<1>2. t \in TimeId /\ time[t] = NoRow
  BY <1>1, FreeIn
<1>3. row \in Time /\ row # NoRow
  <2>1. type[r] \in Type
    BY <1>1 DEF FormInv, Stage, Ended
  <2>2. i.slot \in Slot
    BY DEF FormInv, TypeOK, Item
  <2>3. row \in Time
    BY <2>1, <2>2 DEF Time
  <2> QED BY <2>3, RowIsRow
<1>4. \A a \in wanted : a \in Added /\ a.time = t /\ a.row = 0
  <2> SUFFICES ASSUME NEW p \in i.places,
                      NEW a, a = [time |-> t, position |-> p.position,
                                  looked |-> TRUE, row |-> 0]
               PROVE  a \in Added /\ a.time = t /\ a.row = 0
    OBVIOUS
  <2>1. p.position \in Position
    BY DEF FormInv, TypeOK, Item, Place
  <2> HIDE DEF t
  <2> QED BY <1>2, <2>1 DEF Added
<1> HIDE DEF t, row, wanted
<1>5. /\ TablesType' /\ Grown /\ Linked'
      /\ \A p \in signed \ late : InForce(p)'
  <2>1. time' \in [TimeId -> Time \cup {NoRow}]
    BY <1>1, <1>3 DEF FormInv, TypeOK
  <2>2. \A u \in TimeId : time[u] # NoRow => time'[u] = time[u]
    BY <1>1, <1>2 DEF FormInv, TypeOK
  <2>3. \A p \in signed \ late : time'[pos[p].time] = time[pos[p].time]
    BY <2>2, RowType DEF FormInv, TypeOK, Linked
  <2> QED BY <1>1, <2>1, <2>2, <2>3, TimesStep
<1>6. HandlersType'
  <2>1. wanted \subseteq Added
    BY <1>4
  <2> QED BY <1>1, <2>1 DEF FormInv, TypeOK, HandlersType, Pc
<1>7. /\ \A q \in Req \ {r} : pc'[q] = pc[q] /\ todo'[q] = todo[q] /\ adds'[q] = adds[q]
      /\ pc'[r] = "fill" /\ adds'[r] = wanted /\ time'[t] = row
  BY <1>1, <1>2 DEF FormInv, TypeOK
<1>8. Stage(r)'
  <2>1. Stage(r) /\ sent[r] \in SUBSET Item
    BY DEF FormInv, TypeOK
  <2>2. Known(sent[r])'
    <3>1. Known(sent[r])
      BY <2>1 DEF Stage
    <3> QED BY <1>1, <1>5, <2>1, <3>1, KnownStays DEF FormInv, Known
  <2> QED BY <1>1, <1>3, <1>4, <1>7, <2>1, <2>2 DEF Stage, Ended
<1>9. HistoryType'
  BY <1>1, HistoryStays DEF FormInv
<1>10. ~ Working(r)'
  BY <1>7 DEF Working
<1> QED BY <1>1, <1>5, <1>6, <1>7, <1>8, <1>9, <1>10, FaultsType, SaveStep DEF FormInv

-----------------------------------------------------------------------------
(* The steps that write op_shift_time_position.                            *)

LEMMA PositionsStep ==
    ASSUME FormInv, UNCHANGED <<named, hidden, gone, time>>,
           pos' \in [PosId -> Pos \cup {NoRow}],
           \A p \in PosId : pos[p] # NoRow =>
               /\ pos'[p] # NoRow
               /\ pos'[p].time = pos[p].time /\ pos'[p].position = pos[p].position,
           \A p \in PosId : pos[p] = NoRow /\ pos'[p] # NoRow => time[pos'[p].time] # NoRow,
           \A p \in signed \ late : pos'[p].removed => pos[p].removed
    PROVE  /\ TablesType' /\ Grown /\ Linked'
           /\ \A p \in signed \ late : InForce(p)'
<1>1. TablesType' /\ Grown /\ Linked'
  BY DEF FormInv, TypeOK, TablesType, Grown, Linked
<1>2. ASSUME NEW p \in signed \ late
      PROVE  InForce(p)'
  <2>1. p \in PosId /\ pos[p] # NoRow /\ InForce(p)
    BY DEF FormInv, TypeOK, Safe
  <2> QED BY <2>1 DEF InForce
<1> QED BY <1>1, <1>2

(* What the steps below do to the handler.                                 *)
LEMMA PositionsSaveStep ==
    ASSUME FormInv, NEW r \in Req,
           UNCHANGED <<type, offered, found, asked, sent, people, edits, forms, faults>>,
           UNCHANGED <<named, hidden, gone, time>>,
           TablesType', Grown, Linked', \A p \in signed \ late : InForce(p)',
           pc' \in [Req -> Pc], pc'[r] \in {pc[r], "insert"}, pc[r] \notin {"unlist", "form"},
           pc'[r] # "find", pc[r] # "find",
           \A q \in Req \ {r} : pc'[q] = pc[q],
           todo' = [todo EXCEPT ![r] = todo'[r]], todo'[r] \subseteq todo[r],
           adds' = [adds EXCEPT ![r] = adds'[r]], adds'[r] \subseteq adds[r],
           UNCHANGED <<fresh, exist>>,
           Disturbs(r),
           UNCHANGED revived \/ revived' = [revived EXCEPT ![r] = TRUE],
           pc[r] \notin Ended
    PROVE  FormInv'
<1>1. HandlersType'
  BY DEF FormInv, TypeOK, HandlersType
<1>2. \A q \in Req \ {r} : pc'[q] = pc[q] /\ todo'[q] = todo[q] /\ adds'[q] = adds[q]
  BY DEF FormInv, TypeOK
<1>3. Stage(r)'
  <2>1. Stage(r) /\ sent[r] \in SUBSET Item /\ adds[r] \subseteq Added
    BY DEF FormInv, TypeOK
  <2>2. Known(sent[r])'
    <3>1. Known(sent[r])
      BY <2>1 DEF Stage
    <3> QED BY <2>1, <3>1, KnownStays DEF FormInv, Known
  <2>3. ASSUME pc[r] \in {"add", "take"}, NEW p \in todo[r]
        PROVE  p \in RowsOf(type[r])' /\ p \notin Ids(Places(sent[r]))'
    <3>1. p \in PosId /\ pos[p] # NoRow /\ p \in RowsOf(type[r])
          /\ p \notin Ids(Places(sent[r]))
      BY <2>1, <2>3 DEF Stage, RowsOf
    <3> QED BY <3>1 DEF Grown, RowsOf, Ids, Places
  <2>4. \A a \in adds[r] : a.row \in PosId \cup {0}
    BY <2>1 DEF Added
  <2>5. ASSUME pc'[r] \in {"add", "breaking", "fill"}, NEW a \in adds'[r]
        PROVE  time'[a.time] # NoRow /\ (a.row # 0 => pos'[a.row] # NoRow)
    BY <2>1, <2>4, <2>5 DEF Stage, Grown
  <2>6. Ids(sent[r])' = Ids(sent[r])
    BY DEF Ids
  <2>7. CASE pc'[r] = pc[r]
    BY <2>1, <2>2, <2>3, <2>5, <2>6, <2>7 DEF Stage, Ended
  <2>8. CASE pc'[r] = "insert"
    BY <2>1, <2>2, <2>8 DEF Stage
  <2> QED BY <2>7, <2>8
<1>4. HistoryType'
  BY HistoryStays DEF FormInv
<1>5. (Working(r)' => Working(r)) /\ pc'[r] \notin {"unlist", "form"}
  BY DEF Working
<1> QED BY <1>1, <1>2, <1>3, <1>4, <1>5, FaultsType, SaveStep DEF FormInv

LEMMA RevivePositionInv ==
    ASSUME FormInv, NEW r \in Req, NEW a \in adds[r], RevivePosition(r, a)
    PROVE  FormInv'
<1>1. /\ pc[r] \in {"add", "breaking"} /\ UNCHANGED pc /\ a.row # 0
      /\ pos' = [pos EXCEPT ![a.row].removed = FALSE]
      /\ adds' = [adds EXCEPT ![r] = @ \ {a}]
      /\ revived' = [revived EXCEPT ![r] = TRUE]
      /\ UNCHANGED <<type, offered, found, asked, sent, people, edits, forms, faults>>
      /\ UNCHANGED <<named, hidden, gone, time, todo, fresh, exist>>
      /\ Disturbs(r)
  BY DEF RevivePosition, counts
<1>2. a.row \in PosId /\ pos[a.row] \in Pos /\ pos[a.row] # NoRow
  <2>1. a.row \in PosId /\ pos[a.row] # NoRow
    BY <1>1 DEF FormInv, TypeOK, Stage, Added
  <2> QED BY <2>1, RowType DEF FormInv
<1>3. /\ [pos[a.row] EXCEPT !.removed = FALSE] \in Pos
      /\ [pos[a.row] EXCEPT !.removed = FALSE] # NoRow
      /\ [pos[a.row] EXCEPT !.removed = FALSE].time = pos[a.row].time
      /\ [pos[a.row] EXCEPT !.removed = FALSE].position = pos[a.row].position
      /\ ~ [pos[a.row] EXCEPT !.removed = FALSE].removed
  <2>1. /\ [pos[a.row] EXCEPT !.removed = FALSE] \in Pos
        /\ [pos[a.row] EXCEPT !.removed = FALSE].time = pos[a.row].time
        /\ [pos[a.row] EXCEPT !.removed = FALSE].position = pos[a.row].position
        /\ ~ [pos[a.row] EXCEPT !.removed = FALSE].removed
    BY <1>2 DEF Pos
  <2> QED BY <2>1, RowIsRow
<1>4. /\ pos'[a.row] = [pos[a.row] EXCEPT !.removed = FALSE]
      /\ \A p \in PosId \ {a.row} : pos'[p] = pos[p]
      /\ pos' \in [PosId -> Pos \cup {NoRow}]
  BY <1>1, <1>2, <1>3 DEF FormInv, TypeOK
<1>5. /\ TablesType' /\ Grown /\ Linked'
      /\ \A p \in signed \ late : InForce(p)'
  <2>1. /\ \A p \in PosId : pos[p] # NoRow =>
               /\ pos'[p] # NoRow
               /\ pos'[p].time = pos[p].time /\ pos'[p].position = pos[p].position
        /\ \A p \in PosId : pos[p] = NoRow /\ pos'[p] # NoRow => time[pos'[p].time] # NoRow
    BY <1>2, <1>3, <1>4
  <2>2. \A p \in signed \ late : pos'[p].removed => pos[p].removed
    BY <1>3, <1>4 DEF FormInv, TypeOK
  <2> QED BY <1>1, <1>4, <2>1, <2>2, PositionsStep
<1>6. /\ todo' = [todo EXCEPT ![r] = todo'[r]] /\ todo'[r] \subseteq todo[r]
      /\ adds' = [adds EXCEPT ![r] = adds'[r]] /\ adds'[r] \subseteq adds[r]
  BY <1>1 DEF FormInv, TypeOK
<1> QED BY <1>1, <1>5, <1>6, PositionsSaveStep DEF FormInv, TypeOK, Ended

(* A new row of a time that is there.                                      *)
LEMMA NewPositionStep ==
    ASSUME FormInv, NEW r \in Req, pc[r] \in {"add", "breaking", "fill"},
           NEW a \in adds[r], NewPosition(a), FreePositions # {},
           UNCHANGED <<named, hidden, gone, time>>
    PROVE  /\ TablesType' /\ Grown /\ Linked'
           /\ \A p \in signed \ late : InForce(p)'
<1> DEFINE n == Min(FreePositions)
           row == [time |-> a.time, position |-> a.position, removed |-> FALSE]
<1>1. n \in PosId /\ pos[n] = NoRow
  BY FreeIn
<1>2. row \in Pos /\ row # NoRow /\ time[a.time] # NoRow
  <2>1. a \in Added /\ time[a.time] # NoRow
    BY DEF FormInv, TypeOK, Stage
  <2>2. row \in Pos
    BY <2>1 DEF Added, Pos
  <2> QED BY <2>1, <2>2, RowIsRow
<1>3. pos' = [pos EXCEPT ![n] = row]
  BY DEF NewPosition
<1>4. row.time = a.time
  OBVIOUS
<1> HIDE DEF n, row
<1>5. /\ pos' \in [PosId -> Pos \cup {NoRow}]
      /\ pos'[n] = row /\ \A p \in PosId \ {n} : pos'[p] = pos[p]
  BY <1>1, <1>2, <1>3 DEF FormInv, TypeOK
<1>6. \A p \in signed \ late : pos'[p] = pos[p]
  BY <1>1, <1>5 DEF FormInv, TypeOK
<1> QED BY <1>1, <1>2, <1>4, <1>5, <1>6, PositionsStep

LEMMA InsertPositionInv ==
    ASSUME FormInv, NEW r \in Req, NEW a \in adds[r], InsertPosition(r, a)
    PROVE  FormInv'
<1>1. /\ pc[r] \in {"add", "breaking"} /\ UNCHANGED pc
      /\ FreePositions # {} /\ NewPosition(a)
      /\ adds' = [adds EXCEPT ![r] = @ \ {a}]
      /\ UNCHANGED <<type, offered, found, asked, sent, people, edits, forms, faults>>
      /\ UNCHANGED <<named, hidden, gone, time, todo, fresh, exist, revived>>
      /\ Disturbs(r)
  BY DEF InsertPosition, counts
<1>2. /\ TablesType' /\ Grown /\ Linked'
      /\ \A p \in signed \ late : InForce(p)'
  BY <1>1, NewPositionStep
<1>3. /\ todo' = [todo EXCEPT ![r] = todo'[r]] /\ todo'[r] \subseteq todo[r]
      /\ adds' = [adds EXCEPT ![r] = adds'[r]] /\ adds'[r] \subseteq adds[r]
  BY <1>1 DEF FormInv, TypeOK
<1> QED BY <1>1, <1>2, <1>3, PositionsSaveStep DEF FormInv, TypeOK, Ended

LEMMA FillTimeInv ==
    ASSUME FormInv, NEW r \in Req, NEW a \in adds[r], FillTime(r, a)
    PROVE  FormInv'
<1>1. /\ pc[r] = "fill" /\ UNCHANGED pc
      /\ FreePositions # {} /\ NewPosition(a)
      /\ adds' = [adds EXCEPT ![r] = @ \ {a}]
      /\ UNCHANGED <<type, offered, found, asked, sent, people, edits, forms, faults>>
      /\ UNCHANGED <<named, hidden, gone, time, todo, fresh, exist, revived>>
      /\ Disturbs(r)
  BY DEF FillTime, At
<1>2. /\ TablesType' /\ Grown /\ Linked'
      /\ \A p \in signed \ late : InForce(p)'
  BY <1>1, NewPositionStep
<1>3. /\ todo' = [todo EXCEPT ![r] = todo'[r]] /\ todo'[r] \subseteq todo[r]
      /\ adds' = [adds EXCEPT ![r] = adds'[r]] /\ adds'[r] \subseteq adds[r]
  BY <1>1 DEF FormInv, TypeOK
<1> QED BY <1>1, <1>2, <1>3, PositionsSaveStep DEF FormInv, TypeOK, Ended

(* The rows taken are of the type and not in the list, and so nobody safe  *)
(* is on one.                                                              *)
LEMMA TakePositionsInv ==
    ASSUME FormInv, NEW r \in Req, TakePositions(r)
    PROVE  FormInv'
<1>1. /\ pc[r] = "take" /\ pc' = [pc EXCEPT ![r] = "insert"]
      /\ pos' = [p \in PosId |-> IF p \in todo[r]
                                 THEN [pos[p] EXCEPT !.removed = TRUE] ELSE pos[p]]
      /\ todo' = [todo EXCEPT ![r] = {}]
      /\ UNCHANGED <<type, offered, found, asked, sent, people, edits, forms, faults>>
      /\ UNCHANGED <<named, hidden, gone, time, adds, fresh, exist, revived>>
      /\ Disturbs(r)
  BY DEF TakePositions, At, Goto
<1>2. todo[r] \subseteq RowsOf(type[r]) \ Ids(Places(sent[r]))
  BY <1>1 DEF FormInv, Stage
<1>3. ASSUME NEW p \in PosId, p \in todo[r]
      PROVE  /\ [pos[p] EXCEPT !.removed = TRUE] \in Pos
             /\ [pos[p] EXCEPT !.removed = TRUE] # NoRow /\ pos[p] # NoRow
             /\ [pos[p] EXCEPT !.removed = TRUE].time = pos[p].time
             /\ [pos[p] EXCEPT !.removed = TRUE].position = pos[p].position
  <2>1. pos[p] # NoRow /\ pos[p] \in Pos
    BY <1>2, <1>3, RowType DEF FormInv, RowsOf
  <2>2. /\ [pos[p] EXCEPT !.removed = TRUE] \in Pos
        /\ [pos[p] EXCEPT !.removed = TRUE].time = pos[p].time
        /\ [pos[p] EXCEPT !.removed = TRUE].position = pos[p].position
    BY <2>1 DEF Pos
  <2> QED BY <2>1, <2>2, RowIsRow
<1>4. \A p \in signed \ late : p \in PosId /\ p \notin todo[r]
  <2> SUFFICES ASSUME NEW p \in signed \ late, p \in todo[r]
               PROVE  FALSE
    BY DEF FormInv, TypeOK
  <2>1. Safe(p) /\ p \in RowsOf(type[r]) /\ p \notin Ids(Places(sent[r]))
    BY <1>2 DEF FormInv
  <2> QED BY <1>1, <2>1 DEF Safe, AboutToGo, Going, Pc, Ended
<1>5. /\ TablesType' /\ Grown /\ Linked'
      /\ \A p \in signed \ late : InForce(p)'
  <2>1. pos' \in [PosId -> Pos \cup {NoRow}]
    BY <1>1, <1>3 DEF FormInv, TypeOK
  <2>2. /\ \A p \in PosId : pos[p] # NoRow =>
               /\ pos'[p] # NoRow
               /\ pos'[p].time = pos[p].time /\ pos'[p].position = pos[p].position
        /\ \A p \in PosId : pos[p] = NoRow /\ pos'[p] # NoRow => time[pos'[p].time] # NoRow
    BY <1>1, <1>3
  <2>3. \A p \in signed \ late : pos'[p] = pos[p]
    BY <1>1, <1>4
  <2> QED BY <1>1, <2>1, <2>2, <2>3, PositionsStep
<1>6. /\ todo' = [todo EXCEPT ![r] = todo'[r]] /\ todo'[r] \subseteq todo[r]
      /\ adds' = [adds EXCEPT ![r] = adds'[r]] /\ adds'[r] \subseteq adds[r]
      /\ pc'[r] = "insert" /\ pc' \in [Req -> Pc] /\ \A q \in Req \ {r} : pc'[q] = pc[q]
  BY <1>1 DEF FormInv, TypeOK, Pc
<1> QED BY <1>1, <1>5, <1>6, PositionsSaveStep DEF Ended

-----------------------------------------------------------------------------
(* The steps that create a type and delete one, or a position.             *)

LEMMA CreateInv ==
    ASSUME FormInv, NEW r \in Req, Create(r)
    PROVE  FormInv'
<1>1. /\ pc[r] = "blank" /\ pc' = [pc EXCEPT ![r] = "insert"]
      /\ named' = named \cup {type[r]}
      /\ fresh' = [fresh EXCEPT ![r] = sent[r]]
      /\ UNCHANGED <<type, offered, found, asked, sent, people, edits, forms>>
      /\ UNCHANGED <<hidden, gone, time, pos, todo, adds, exist, faults, revived>>
      /\ Disturbs(r)
  BY DEF Create, At, Goto
<1>2. type[r] \in Type
  BY <1>1 DEF FormInv, Stage, Ended
<1>3. TablesType' /\ Grown /\ Linked'
  BY <1>1, <1>2 DEF FormInv, TypeOK, TablesType, Grown, Linked
<1>4. \A p \in signed \ late : InForce(p)'
  BY <1>1 DEF FormInv, Safe, InForce
<1>5. HandlersType'
  BY <1>1 DEF FormInv, TypeOK, HandlersType, Pc
<1>6. /\ \A q \in Req \ {r} : pc'[q] = pc[q] /\ todo'[q] = todo[q] /\ adds'[q] = adds[q]
      /\ pc'[r] = "insert"
  BY <1>1 DEF FormInv, TypeOK
<1>7. Stage(r)'
  BY <1>1, <1>2, <1>6 DEF FormInv, Stage, Known
<1>8. HistoryType'
  BY <1>1, HistoryStays DEF FormInv
<1>9. ~ Working(r)'
  BY <1>6 DEF Working
<1> QED BY <1>1, <1>3, <1>4, <1>5, <1>6, <1>7, <1>8, <1>9, FaultsType, SaveStep DEF FormInv

(* Nobody safe is on a position of the type, or on the position.           *)
LEMMA DeleteInv ==
    ASSUME FormInv, NEW r \in Req, DeleteType(r) \/ DeletePosition(r)
    PROVE  FormInv'
<1>1. /\ pc' = [pc EXCEPT ![r] = "idle"]
      /\ UNCHANGED <<type, offered, found, asked, sent, people, edits, forms>>
      /\ UNCHANGED <<named, time, pos, todo, adds, fresh, exist, faults, disturbed, revived>>
  BY DEF DeleteType, DeletePosition, At, Goto
<1>2. /\ hidden' \subseteq named /\ gone' \subseteq Position
      /\ \A p \in signed \ late : InForce(p)'
  <2> SUFFICES ASSUME NEW p \in signed \ late
               PROVE  hidden' \subseteq named /\ gone' \subseteq Position
                      /\ InForce(p)'
    <3>1. hidden' \subseteq named /\ gone' \subseteq Position
      BY DEF DeleteType, DeletePosition, At, FormInv, TypeOK, Stage
    <3> QED BY <3>1
  <2>1. p \in PosId /\ pos[p] # NoRow /\ Safe(p)
    BY DEF FormInv, TypeOK
  <2>2. CASE DeleteType(r)
    <3>1. /\ pc[r] = "confirm" /\ hidden' = hidden \cup {type[r]} /\ UNCHANGED gone
          /\ type[r] \in named /\ sent[r] = {}
      BY <2>2 DEF DeleteType, At, FormInv, Stage
    <3>2. p \notin Ids(Places(sent[r]))
      BY <3>1, InPlaces
    <3>3. time[pos[p].time].type # type[r]
      BY <2>1, <3>1, <3>2 DEF Safe, AboutToGo, RowsOf, Going, Pc, Ended
    <3> QED BY <1>1, <2>1, <3>1, <3>3 DEF Safe, InForce, FormInv, TypeOK
  <2>3. CASE DeletePosition(r)
    <3>1. pc[r] = "unlist" /\ gone' = gone \cup offered[r] /\ UNCHANGED hidden
      BY <2>3 DEF DeletePosition, At
    <3>2. pos[p].position \notin offered[r]
      BY <2>1, <3>1 DEF Safe, AboutToGo
    <3> QED BY <1>1, <2>1, <3>1, <3>2 DEF Safe, InForce, FormInv, TypeOK
  <2> QED BY <2>2, <2>3
<1>3. TablesType' /\ Grown /\ Linked'
  BY <1>1, <1>2 DEF FormInv, TypeOK, TablesType, Grown, Linked
<1>4. pc[r] \in {"confirm", "unlist"}
  BY DEF DeleteType, DeletePosition, At
<1>5. HandlersType' /\ HistoryType'
  BY <1>1, <1>4 DEF FormInv, TypeOK, HandlersType, HistoryType, Pc
<1>6. /\ \A q \in Req \ {r} : pc'[q] = pc[q] /\ todo'[q] = todo[q] /\ adds'[q] = adds[q]
      /\ pc'[r] = "idle"
  BY <1>1 DEF FormInv, TypeOK
<1>7. Stage(r)'
  BY <1>1, <1>6 DEF FormInv, Stage, Known, Ended
<1>8. ~ Working(r)'
  BY <1>6 DEF Working, Ended
<1> QED BY <1>1, <1>2, <1>3, <1>4, <1>5, <1>6, <1>7, <1>8, FaultsType, SaveStep DEF FormInv

-----------------------------------------------------------------------------
(* The form in the browser.                                                *)

(* A form that is filled, from what it is filled with.                     *)
LEMMA FillInv ==
    ASSUME FormInv, NEW r \in Req, NEW ty \in Type \cup {NoType},
           NEW label \in {"form", "blank", "confirm", "unlist"},
           NEW list \in SUBSET Item, NEW places \in SUBSET Position,
           Fill(r, ty, label, list, places),
           edits' \in [Req -> 0 .. MaxEdits], forms' \in 0 .. MaxForms,
           Known(list),
           label # "unlist" => ty \in Type,
           asked[r] = Nothing \/ (pc[r] = "form" /\ label = "form" /\ type[r] = ty),
           label = "form" => \A i \in list : \A q \in i.places : q.position \in places,
           label = "confirm" => ty \in named /\ list = {},
           label \in {"form", "confirm"} =>
               \A p \in signed \ late :
                   time[pos[p].time].type = ty => p \in Ids(Places(list)),
           label = "unlist" => \A p \in signed \ late : pos[p].position \notin places
    PROVE  FormInv'
<1>1. /\ pc' = [pc EXCEPT ![r] = label] /\ type' = [type EXCEPT ![r] = ty]
      /\ offered' = [offered EXCEPT ![r] = places]
      /\ found' = [found EXCEPT ![r] = places] /\ UNCHANGED asked
      /\ sent' = [sent EXCEPT ![r] = list]
      /\ todo' = [todo EXCEPT ![r] = {}] /\ adds' = [adds EXCEPT ![r] = {}]
      /\ fresh' = [fresh EXCEPT ![r] = {}] /\ exist' = [exist EXCEPT ![r] = 0]
      /\ disturbed' = [disturbed EXCEPT ![r] = FALSE]
      /\ revived' = [revived EXCEPT ![r] = FALSE]
      /\ UNCHANGED <<named, hidden, gone, time, pos, signed, late, signUps, faults>>
      /\ UNCHANGED tables
  BY DEF Fill, Goto, tables, people
<1>2. /\ \A q \in Req \ {r} : /\ pc'[q] = pc[q] /\ type'[q] = type[q]
                              /\ offered'[q] = offered[q] /\ sent'[q] = sent[q]
                              /\ todo'[q] = todo[q] /\ adds'[q] = adds[q]
                              /\ found'[q] = found[q] /\ asked'[q] = asked[q]
      /\ found'[r] = places /\ asked'[r] = asked[r]
      /\ pc'[r] = label /\ type'[r] = ty /\ offered'[r] = places /\ sent'[r] = list
      /\ todo'[r] = {} /\ adds'[r] = {}
  BY <1>1 DEF FormInv, TypeOK
<1>3. TablesType' /\ Grown /\ Linked' /\ \A p \in signed \ late : InForce(p)'
  BY <1>1, SameTables
<1>4. TypeOK'
  <2>1. HandlersType'
    <3>1. pc' \in [Req -> Pc] /\ label # "find"
      BY <1>1 DEF FormInv, TypeOK, Pc
    <3>2. \A q \in Req : adds'[q] \subseteq IF pc'[q] = "find" THEN Item ELSE Added
      BY <1>2 DEF FormInv, TypeOK
    <3> QED BY <1>1, <3>1, <3>2 DEF FormInv, TypeOK, HandlersType
  <2>2. HistoryType' /\ PeopleType' /\ CountsType'
    BY <1>1 DEF FormInv, TypeOK, HistoryType, PeopleType, CountsType
  <2> QED BY <1>3, <2>1, <2>2, TypeParts
<1>5. \A q \in Req : Stage(q)' /\ Dialogs(q)'
  <2>1. ASSUME NEW q \in Req \ {r}
        PROVE  Stage(q)' /\ Dialogs(q)'
    <3>1. Stage(q)'
      BY <1>2, <1>3, StageStays DEF FormInv
    <3>2. Dialogs(q)'
      BY <1>2 DEF FormInv, Dialogs
    <3> QED BY <3>1, <3>2
  <2>2. Stage(r)'
    BY <1>1, <1>2 DEF Stage, Known
  <2>3. Dialogs(r)'
    BY <1>2 DEF Dialogs
  <2> QED BY <2>1, <2>2, <2>3
<1>6. ASSUME NEW p \in signed' \ late'
      PROVE  Safe(p)'
  <2>1. p \in signed \ late
    BY <1>1
  <2>2. Working(r)' => label \in {"form", "confirm"}
    BY <1>2 DEF Working
  <2>3. time[pos[p].time].type = ty =>
            pos[p].time \notin asked[r].times /\ pos[p].position \notin asked[r].positions
    <3>1. CASE asked[r] = Nothing
      BY <3>1 DEF Nothing
    <3>2. CASE pc[r] = "form" /\ type[r] = ty
      <4>1. Safe(p) /\ p \in PosId /\ pos[p] # NoRow /\ Working(r)
        BY <2>1, <3>2 DEF FormInv, TypeOK, Working, Pc, Ended
      <4> QED BY <3>2, <4>1 DEF Safe, AboutToGo, Working, RowsOf, Going
    <3> QED BY <3>1, <3>2
  <2> QED BY <1>2, <1>3, <2>1, <2>2, <2>3, SafeStep
<1> QED BY <1>3, <1>4, <1>5, <1>6 DEF FormInv

(* The GET: all that is in force is shown.                                 *)
LEMMA ShownGood ==
    ASSUME FormInv, NEW ty \in Type
    PROVE  /\ Shown(ty) \in SUBSET Item /\ Offered(ty) \in SUBSET Position
           /\ Known(Shown(ty))
           /\ \A i \in Shown(ty) : \A q \in i.places : q.position \in Offered(ty)
           /\ \A p \in signed \ late : time[pos[p].time].type = ty =>
                  p \in Ids(Places(Shown(ty))) /\ pos[p].position \in Offered(ty)
<1>1. ASSUME NEW t \in TimeId
      PROVE  /\ PlacesOf(t) \in SUBSET Place
             /\ \A q \in PlacesOf(t) : /\ q.id \in PosId /\ pos[q.id] # NoRow
                                       /\ pos[q.id].time = t
                                       /\ pos[q.id].position = q.position
  BY RowType DEF FormInv, PlacesOf, Place
<1>2. ASSUME NEW i \in Shown(ty)
      PROVE  /\ i \in Item /\ i.id \in TimeId /\ time[i.id] # NoRow
             /\ i.places = PlacesOf(i.id)
  <2>1. PICK t \in TimesOf(ty) : i = [id |-> t, slot |-> time[t].slot, places |-> PlacesOf(t)]
    BY DEF Shown
  <2>2. t \in TimeId /\ time[t] # NoRow /\ time[t].slot \in Slot
    BY RowType DEF FormInv, TimesOf
  <2> QED BY <1>1, <2>1, <2>2 DEF Item
<1>3. Known(Shown(ty))
  <2> SUFFICES ASSUME NEW i \in Shown(ty)
               PROVE  /\ i.id # 0 /\ time[i.id] # NoRow
                      /\ \A q \in i.places : /\ pos[q.id] # NoRow
                                             /\ pos[q.id].time = i.id
                                             /\ pos[q.id].position = q.position
    BY DEF Known
  <2>1. i.id \in TimeId /\ time[i.id] # NoRow /\ i.places = PlacesOf(i.id)
    BY <1>2
  <2>2. i.id # 0
    BY <2>1, IdsType
  <2>3. \A q \in PlacesOf(i.id) : /\ pos[q.id] # NoRow /\ pos[q.id].time = i.id
                                  /\ pos[q.id].position = q.position
    BY <1>1, <2>1
  <2> QED BY <2>1, <2>2, <2>3
<1>4. Offered(ty) \in SUBSET Position
  BY RowType DEF FormInv, Offered, RowsOf
<1>5. ASSUME NEW p \in signed \ late, time[pos[p].time].type = ty
      PROVE  p \in Ids(Places(Shown(ty))) /\ pos[p].position \in Offered(ty)
  <2>1. /\ p \in PosId /\ pos[p] # NoRow /\ InForce(p)
        /\ pos[p].time \in TimeId /\ time[pos[p].time] # NoRow
    BY RowType DEF FormInv, TypeOK, Linked, Safe
  <2>2. pos[p].position \in Offered(ty)
    BY <1>5, <2>1 DEF Offered, RowsOf, InForce
  <2> DEFINE t == pos[p].time
             i == [id |-> t, slot |-> time[t].slot, places |-> PlacesOf(t)]
  <2>3. [position |-> pos[p].position, id |-> p] \in PlacesOf(t)
    BY <2>1 DEF PlacesOf, InForce
  <2>4. t \in TimesOf(ty)
    BY <1>5, <2>1 DEF TimesOf, InForce
  <2>5. i \in Shown(ty)
    BY <2>3, <2>4 DEF Shown
  <2>6. \E q \in i.places : q.id = p
    BY <2>3
  <2> HIDE DEF i
  <2>7. p \in Ids(Places(Shown(ty)))
    BY <2>5, <2>6, InPlaces
  <2> QED BY <2>2, <2>7
<1>6. ASSUME NEW i \in Shown(ty), NEW q \in i.places
      PROVE  q.position \in Offered(ty)
  <2>1. PICK t \in TimesOf(ty) : i.places = PlacesOf(t)
    BY DEF Shown
  <2>2. q.id \in PosId /\ pos[q.id] # NoRow /\ ~ pos[q.id].removed
        /\ pos[q.id].time = t /\ pos[q.id].position = q.position
    BY <2>1 DEF PlacesOf
  <2>3. q.id \in RowsOf(ty)
    BY <2>1, <2>2 DEF RowsOf, TimesOf
  <2> QED BY <2>2, <2>3 DEF Offered
<1> QED BY <1>2, <1>3, <1>4, <1>5, <1>6

LEMMA OpenInv ==
    ASSUME FormInv, NEW r \in Req,
           \/ \E ty \in Type : Open(r, ty) \/ OpenBlank(r, ty) \/ AskDelete(r, ty)
           \/ \E p \in Position : AskDeletePosition(r, p)
           \/ Refill(r)
    PROVE  FormInv'
<1>0. /\ MaxEdits \in Nat /\ MaxForms \in Nat
      /\ pc[r] \in Ended => asked[r] = Nothing
  BY FormAssumption DEF FormInv, Dialogs, Ended
<1>1. ASSUME NEW ty \in Type, Open(r, ty)
      PROVE  FormInv'
  <2>1. /\ Fill(r, ty, "form", Shown(ty), Offered(ty))
        /\ forms < MaxForms /\ forms' = forms + 1 /\ edits' = [edits EXCEPT ![r] = 0]
        /\ asked[r] = Nothing
    BY <1>0, <1>1 DEF Open, OpenPage
  <2>2. edits' \in [Req -> 0 .. MaxEdits] /\ forms' \in 0 .. MaxForms
    BY <1>0, <2>1 DEF FormInv, TypeOK
  <2> QED BY <2>1, <2>2, ShownGood, FillInv
<1>2. CASE Refill(r)
  <2>1. /\ Fill(r, type[r], "form", Shown(type[r]), Offered(type[r]))
        /\ UNCHANGED <<edits, forms>> /\ pc[r] = "form"
    BY <1>2 DEF Refill
  <2>2. type[r] \in Type
    BY <1>2 DEF Refill, FormInv, Stage, Ended
  <2>3. edits' \in [Req -> 0 .. MaxEdits] /\ forms' \in 0 .. MaxForms
    BY <2>1 DEF FormInv, TypeOK
  <2>4. /\ Shown(type[r]) \in SUBSET Item /\ Offered(type[r]) \in SUBSET Position
        /\ Known(Shown(type[r]))
        /\ \A i \in Shown(type[r]) : \A q \in i.places : q.position \in Offered(type[r])
        /\ \A p \in signed \ late : time[pos[p].time].type = type[r] =>
               p \in Ids(Places(Shown(type[r])))
    BY <2>2, ShownGood
  <2> QED BY <2>1, <2>2, <2>3, <2>4, FillInv
<1>3. ASSUME NEW ty \in Type, OpenBlank(r, ty)
      PROVE  FormInv'
  <2>1. /\ Fill(r, ty, "blank", {}, {})
        /\ forms < MaxForms /\ forms' = forms + 1 /\ edits' = [edits EXCEPT ![r] = 0]
        /\ asked[r] = Nothing
    BY <1>0, <1>3 DEF OpenBlank, OpenPage
  <2>2. edits' \in [Req -> 0 .. MaxEdits] /\ forms' \in 0 .. MaxForms
    BY <1>0, <2>1 DEF FormInv, TypeOK
  <2>3. Known({})
    BY DEF Known
  <2> QED BY <2>1, <2>2, <2>3, FillInv
<1>4. ASSUME NEW ty \in Type, AskDelete(r, ty)
      PROVE  FormInv'
  <2>1. /\ Fill(r, ty, "confirm", {}, {}) /\ ty \in named
        /\ Offered(ty) = {} \/ Shown(ty) = {}
        /\ UNCHANGED forms /\ edits' = [edits EXCEPT ![r] = 0] /\ asked[r] = Nothing
    BY <1>0, <1>4 DEF AskDelete
  <2>2. edits' \in [Req -> 0 .. MaxEdits] /\ forms' \in 0 .. MaxForms
    BY <1>0, <2>1 DEF FormInv, TypeOK
  <2>3. Known({})
    BY DEF Known
  <2>4. \A p \in signed \ late : time[pos[p].time].type # ty
    <3> SUFFICES ASSUME NEW p \in signed \ late, time[pos[p].time].type = ty
                 PROVE  FALSE
      OBVIOUS
    <3>1. p \in Ids(Places(Shown(ty))) /\ pos[p].position \in Offered(ty)
      BY ShownGood
    <3>2. Shown(ty) # {}
      BY <3>1, InPlaces
    <3> QED BY <2>1, <3>1, <3>2
  <2> QED BY <2>1, <2>2, <2>3, <2>4, FillInv
<1>5. ASSUME NEW p \in Position, AskDeletePosition(r, p)
      PROVE  FormInv'
  <2>1. /\ Fill(r, NoType, "unlist", {}, {p}) /\ Using(p) = {}
        /\ forms < MaxForms /\ forms' = forms + 1 /\ edits' = [edits EXCEPT ![r] = 0]
        /\ asked[r] = Nothing
    BY <1>0, <1>5 DEF AskDeletePosition, OpenPage
  <2>2. edits' \in [Req -> 0 .. MaxEdits] /\ forms' \in 0 .. MaxForms
    BY <1>0, <2>1 DEF FormInv, TypeOK
  <2>3. Known({})
    BY DEF Known
  <2>4. \A u \in signed \ late : pos[u].position \notin {p}
    <3> SUFFICES ASSUME NEW u \in signed \ late, pos[u].position = p
                 PROVE  FALSE
      OBVIOUS
    <3>1. u \in PosId /\ pos[u] # NoRow /\ time[pos[u].time].type \notin hidden
      BY DEF FormInv, TypeOK, Safe, InForce
    <3>2. time[pos[u].time].type \in Using(p)
      BY <3>1 DEF Using
    <3> QED BY <2>1, <3>2
  <2> QED BY <2>1, <2>2, <2>3, <2>4, FillInv
<1> QED BY <1>1, <1>2, <1>3, <1>4, <1>5

(* An edit, from the list it makes.                                        *)
LEMMA EditInv ==
    ASSUME FormInv, NEW r \in Req, pc[r] \in {"form", "blank"},
           NEW list \in SUBSET Item, NEW places \in SUBSET Position,
           Edit(r, list, places), Known(list),
           pc[r] = "form" => \A i \in list : \A q \in i.places :
                                 q.id # 0 => q.position \in found[r],
           pc[r] = "form" =>
               \A p \in signed \ late :
                   /\ time[pos[p].time].type = type[r]
                   /\ p \in Ids(Places(sent[r]))
                   => p \in Ids(Places(list))
    PROVE  FormInv'
<1>1. /\ edits[r] < MaxEdits /\ edits' = [edits EXCEPT ![r] = @ + 1]
      /\ sent' = [sent EXCEPT ![r] = list] /\ offered' = [offered EXCEPT ![r] = places]
      /\ UNCHANGED <<named, hidden, gone, time, pos, signed, late, signUps, faults>>
      /\ asked' = [asked EXCEPT ![r] = Nothing] /\ UNCHANGED <<tables, pc, type, found>>
      /\ UNCHANGED <<todo, adds, fresh, exist, forms, disturbed, revived>>
  BY DEF Edit, tables, people
<1>2. /\ \A q \in Req \ {r} : /\ offered'[q] = offered[q] /\ sent'[q] = sent[q]
                              /\ asked'[q] = asked[q]
      /\ offered'[r] = places /\ sent'[r] = list /\ asked'[r] = Nothing
  BY <1>1 DEF FormInv, TypeOK
<1>3. TablesType' /\ Grown /\ Linked' /\ \A p \in signed \ late : InForce(p)'
  BY <1>1, SameTables
<1>4. TypeOK'
  <2>1. edits' \in [Req -> 0 .. MaxEdits]
    BY <1>1, FormAssumption DEF FormInv, TypeOK
  <2>2. Nothing \in Question
    BY DEF Nothing, Question
  <2> QED BY <1>1, <2>1, <2>2 DEF FormInv, TypeOK
<1>5. \A q \in Req : Stage(q)' /\ Dialogs(q)'
  <2>1. ASSUME NEW q \in Req \ {r}
        PROVE  Stage(q)' /\ Dialogs(q)'
    <3>1. Stage(q)'
      BY <1>1, <1>2, <1>3, StageStays DEF FormInv
    <3>2. Dialogs(q)'
      BY <1>1, <1>2 DEF FormInv, Dialogs
    <3> QED BY <3>1, <3>2
  <2>2. Stage(r)'
    BY <1>1, <1>2 DEF FormInv, Stage, Known
  <2>3. Dialogs(r)'
    BY <1>1, <1>2 DEF Dialogs
  <2> QED BY <2>1, <2>2, <2>3
<1>6. ASSUME NEW p \in signed' \ late'
      PROVE  Safe(p)'
  <2>1. p \in signed \ late /\ p \in PosId /\ pos[p] # NoRow /\ Safe(p)
    BY <1>1 DEF FormInv, TypeOK
  <2>2. ASSUME Working(r)', time[pos[p].time].type = type'[r]
        PROVE  /\ p \in Ids(Places(sent'[r])) /\ pos[p].time \notin asked'[r].times
               /\ pos[p].position \notin asked'[r].positions
    <3>1. pc[r] = "form" /\ Working(r) /\ time[pos[p].time].type = type[r]
      BY <1>1, <2>2 DEF Working, Pc, Ended
    <3>2. p \in Ids(Places(sent[r]))
      BY <2>1, <3>1 DEF Safe, AboutToGo, RowsOf, Working, Going
    <3> QED BY <1>2, <2>1, <3>1, <3>2 DEF Nothing
  <2> QED BY <1>1, <1>2, <1>3, <2>1, <2>2, SafeStep
<1> QED BY <1>3, <1>4, <1>5, <1>6 DEF FormInv

(* Each edit keeps, of what the form has an id of, all but what nobody is  *)
(* on.                                                                     *)
LEMMA EditingInv ==
    ASSUME FormInv, NEW r \in Req, Editing(r)
    PROVE  FormInv'
<1>1. /\ pc[r] \in {"form", "blank"} /\ sent[r] \in SUBSET Item /\ Known(sent[r])
      /\ offered[r] \in SUBSET Position
      /\ pc[r] = "form" => \A i \in sent[r] : \A q \in i.places :
                               q.id # 0 => q.position \in found[r]
  BY DEF Editing, FormInv, TypeOK, Stage, Dialogs
<1>2. \A i \in sent[r] : /\ i \in Item /\ i.id \in TimeId \cup {0} /\ i.slot \in Slot
                         /\ i.places \in SUBSET Place
  BY <1>1 DEF Item
<1>3. ASSUME NEW p \in signed \ late
      PROVE  p \in PosId /\ p \in Nat \ {0} /\ pos[p] # NoRow
  BY IdsType DEF FormInv, TypeOK
<1>4. ASSUME NEW s \in Slot, AddTime(r, s)
      PROVE  FormInv'
  <2> DEFINE new == [id |-> 0, slot |-> s,
                     places |-> {[position |-> p, id |-> 0] : p \in offered[r]}]
             list == sent[r] \cup {new}
  <2>1. Edit(r, list, offered[r])
    BY <1>4 DEF AddTime
  <2>2. new \in Item /\ new.id = 0 /\ \A q \in new.places : q.id = 0
    BY <1>1 DEF Item, Place
  <2>3. \A i \in list : i \in sent[r] \/ i = new
    OBVIOUS
  <2> HIDE DEF new
  <2>4. list \in SUBSET Item /\ Known(list)
    BY <1>1, <2>2, <2>3 DEF Known
  <2>5. \A p : p \in Ids(Places(sent[r])) => p \in Ids(Places(list))
    BY DEF Ids, Places
  <2>6. pc[r] = "form" => \A i \in list : \A q \in i.places :
                              q.id # 0 => q.position \in found[r]
    BY <1>1, <2>2, <2>3
  <2> QED BY <1>1, <2>1, <2>4, <2>5, <2>6, EditInv
<1>5. ASSUME NEW i \in sent[r], RemoveTime(r, i)
      PROVE  FormInv'
  <2> DEFINE list == {j \in sent[r] : IF pc[r] = "blank" THEN j # i ELSE j.id # i.id}
  <2>1. Edit(r, list, offered[r]) /\ asked[r].times = {i.id} \ {0}
    BY <1>5 DEF RemoveTime, Nothing
  <2>2. list \in SUBSET Item /\ Known(list)
    BY <1>1 DEF Known
  <2>3. ASSUME pc[r] = "form", NEW p \in signed \ late,
               time[pos[p].time].type = type[r], p \in Ids(Places(sent[r]))
        PROVE  p \in Ids(Places(list))
    <3>0. PICK j \in sent[r] : \E q \in j.places : q.id = p
      BY <2>3, InPlaces
    <3>1. PICK q \in j.places : q.id = p
      BY <3>0
    <3>2. j.id # 0 /\ pos[p].time = j.id
      BY <1>1, <1>3, <3>1 DEF Known
    <3>3. j.id # i.id
      <4>1. Working(r) /\ p \in RowsOf(type[r]) /\ ~ AboutToGo(p)
        BY <1>3, <2>3 DEF Working, Pc, Ended, RowsOf, FormInv, Safe
      <4>2. pos[p].time \notin asked[r].times
        BY <4>1 DEF AboutToGo, Working, Going
      <4> QED BY <2>1, <3>2, <4>2
    <3>4. j \in list
      BY <2>3, <3>3
    <3> QED BY <3>1, <3>4, InPlaces
  <2> QED BY <1>1, <2>1, <2>2, <2>3, EditInv
<1>6. ASSUME NEW i \in sent[r], NEW s \in Slot, MoveTime(r, i, s)
      PROVE  FormInv'
  <2> DEFINE new == [i EXCEPT !.slot = s]
             list == (sent[r] \ {i}) \cup {new}
  <2>1. Edit(r, list, offered[r])
    BY <1>6 DEF MoveTime
  <2>2. new \in Item /\ new.id = i.id /\ new.places = i.places
    BY <1>2 DEF Item
  <2>3. \A j \in list : j \in sent[r] \/ j = new
    OBVIOUS
  <2> HIDE DEF new
  <2>4. list \in SUBSET Item /\ Known(list)
    <3>1. list \in SUBSET Item
      BY <1>1, <2>2
    <3>2. Known(list)
      BY <1>1, <2>2, <2>3 DEF Known
    <3> QED BY <3>1, <3>2
  <2>5. ASSUME NEW p, p \in Ids(Places(sent[r]))
        PROVE  p \in Ids(Places(list))
    <3>0. PICK j \in sent[r] : \E q \in j.places : q.id = p
      BY <2>5, InPlaces
    <3>1. PICK q \in j.places : q.id = p
      BY <3>0
    <3>2. CASE j = i
      BY <2>2, <3>1, <3>2, InPlaces
    <3>3. CASE j # i
      <4>1. j \in list
        BY <3>3
      <4> QED BY <3>1, <4>1, InPlaces
    <3> QED BY <3>2, <3>3
  <2>6. pc[r] = "form" => \A j \in list : \A q \in j.places :
                              q.id # 0 => q.position \in found[r]
    BY <1>1, <2>2, <2>3
  <2> QED BY <1>1, <2>1, <2>4, <2>5, <2>6, EditInv
<1>7. ASSUME NEW p \in Position, AddPosition(r, p)
      PROVE  FormInv'
  <2> DEFINE new(i) == [i EXCEPT !.places = @ \cup {[position |-> p, id |-> 0]}]
             list == {new(i) : i \in sent[r]}
  <2>1. Edit(r, list, offered[r] \cup {p})
    BY <1>7 DEF AddPosition
  <2>2. ASSUME NEW i \in sent[r]
        PROVE  /\ new(i) \in Item /\ new(i).id = i.id
               /\ \A q \in i.places : q \in new(i).places
               /\ \A q \in new(i).places : q \in i.places \/ q.id = 0
    BY <1>2 DEF Item, Place
  <2>3. \A j \in list : \E i \in sent[r] : j = new(i)
    OBVIOUS
  <2>4. \A i \in sent[r] : new(i) \in list
    OBVIOUS
  <2> HIDE DEF new
  <2>5. list \in SUBSET Item
    BY <2>2
  <2>6. Known(list)
    <3> SUFFICES ASSUME NEW i \in sent[r]
                 PROVE  /\ new(i).id # 0 => time[new(i).id] # NoRow
                        /\ \A q \in new(i).places : q.id # 0 =>
                               /\ new(i).id # 0 /\ pos[q.id] # NoRow
                               /\ pos[q.id].time = new(i).id
                               /\ pos[q.id].position = q.position
      BY <2>3 DEF Known
    <3> QED BY <1>1, <2>2 DEF Known
  <2>7. ASSUME NEW u, u \in Ids(Places(sent[r]))
        PROVE  u \in Ids(Places(list))
    <3>0. PICK j \in sent[r] : \E q \in j.places : q.id = u
      BY <2>7, InPlaces
    <3>1. PICK q \in j.places : q.id = u
      BY <3>0
    <3>2. new(j) \in list /\ q \in new(j).places
      BY <2>2, <2>4, <3>1
    <3> HIDE DEF list
    <3> QED BY <3>1, <3>2, InPlaces
  <2>8. offered[r] \cup {p} \in SUBSET Position
    BY <1>1
  <2>9. pc[r] = "form" => \A j \in list : \A q \in j.places :
                              q.id # 0 => q.position \in found[r]
    BY <1>1, <2>2, <2>3
  <2> HIDE DEF list
  <2> QED BY <1>1, <2>1, <2>5, <2>6, <2>7, <2>8, <2>9, EditInv
<1>8. ASSUME NEW p \in Position, RemovePosition(r, p)
      PROVE  FormInv'
  <2> DEFINE new(i) == [i EXCEPT !.places =
                           {q \in @ : q.position # p \/ pc[r] = "blank"}]
             list == {new(i) : i \in sent[r]}
  <2>1. /\ Edit(r, list, offered[r] \ {p})
        /\ asked[r].positions = {p} \cap found[r]
    BY <1>8 DEF RemovePosition, Nothing
  <2>2. ASSUME NEW i \in sent[r]
        PROVE  /\ new(i) \in Item /\ new(i).id = i.id
               /\ \A q \in i.places : q.position # p => q \in new(i).places
               /\ \A q \in new(i).places : q \in i.places
    BY <1>2 DEF Item, Place
  <2>3. \A j \in list : \E i \in sent[r] : j = new(i)
    OBVIOUS
  <2>4. \A i \in sent[r] : new(i) \in list
    OBVIOUS
  <2> HIDE DEF new
  <2>5. list \in SUBSET Item
    BY <2>2
  <2>6. Known(list)
    <3> SUFFICES ASSUME NEW i \in sent[r]
                 PROVE  /\ new(i).id # 0 => time[new(i).id] # NoRow
                        /\ \A q \in new(i).places : q.id # 0 =>
                               /\ new(i).id # 0 /\ pos[q.id] # NoRow
                               /\ pos[q.id].time = new(i).id
                               /\ pos[q.id].position = q.position
      BY <2>3 DEF Known
    <3> QED BY <1>1, <2>2 DEF Known
  <2>7. ASSUME pc[r] = "form", NEW u \in signed \ late,
               time[pos[u].time].type = type[r], u \in Ids(Places(sent[r]))
        PROVE  u \in Ids(Places(list))
    <3>0. PICK j \in sent[r] : \E q \in j.places : q.id = u
      BY <2>7, InPlaces
    <3>1. PICK q \in j.places : q.id = u
      BY <3>0
    <3>2. pos[u].position = q.position
      BY <1>1, <1>3, <3>1 DEF Known
    <3>3. Working(r) /\ u \in RowsOf(type[r]) /\ ~ AboutToGo(u)
      BY <1>3, <2>7 DEF Working, Pc, Ended, RowsOf, FormInv, Safe
    <3>4. q.position # p
      <4>1. pos[u].position \notin asked[r].positions
        BY <3>3 DEF AboutToGo, Working, Going
      <4>2. q.position \in found[r]
        BY <1>1, <1>3, <2>7, <3>1
      <4> QED BY <2>1, <3>2, <4>1, <4>2
    <3>5. new(j) \in list /\ q \in new(j).places
      BY <2>2, <2>4, <3>1, <3>4
    <3> HIDE DEF list
    <3> QED BY <3>1, <3>5, InPlaces
  <2>8. offered[r] \ {p} \in SUBSET Position
    BY <1>1
  <2>9. pc[r] = "form" => \A j \in list : \A q \in j.places :
                              q.id # 0 => q.position \in found[r]
    BY <1>1, <2>2, <2>3
  <2> HIDE DEF list
  <2> QED BY <1>1, <2>1, <2>5, <2>6, <2>7, <2>8, <2>9, EditInv
<1> QED BY <1>4, <1>5, <1>6, <1>7, <1>8 DEF Editing

(* A dialog is opened about what nobody is on, or closed.                  *)
LEMMA AskingInv ==
    ASSUME FormInv, NEW r \in Req, Asking(r)
    PROVE  FormInv'
<1>1. PICK question \in Question :
          /\ asked' = [asked EXCEPT ![r] = question]
          /\ \/ question = Nothing
             \/ /\ pc[r] = "form"
                /\ \A p \in signed : time[pos[p].time].type = type[r] =>
                       /\ pos[p].time \notin question.times
                       /\ pos[p].position \notin question.positions
  <2>1. CASE Ask(r, Nothing)
    <3>1. Nothing \in Question
      BY DEF Nothing, Question
    <3> QED BY <2>1, <3>1 DEF Ask
  <2>2. ASSUME NEW t \in TimeId, AskRemoveTime(r, t), pc[r] = "form"
        PROVE  \E question \in Question :
                  /\ asked' = [asked EXCEPT ![r] = question]
                  /\ \A p \in signed : /\ pos[p].time \notin question.times
                                        /\ pos[p].position \notin question.positions
    <3> DEFINE question == [Nothing EXCEPT !.times = {t}]
    <3>1. question \in Question /\ question.times = {t} /\ question.positions = {}
      BY DEF Nothing, Question
    <3>2. asked' = [asked EXCEPT ![r] = question] /\ \A p \in signed : pos[p].time # t
      BY <2>2 DEF AskRemoveTime, Ask, Crew
    <3> HIDE DEF question
    <3> QED BY <3>1, <3>2
  <2>3. ASSUME NEW x \in Position, AskRemovePosition(r, x), pc[r] = "form"
        PROVE  \E question \in Question :
                  /\ asked' = [asked EXCEPT ![r] = question]
                  /\ \A p \in signed : time[pos[p].time].type = type[r] =>
                         /\ pos[p].time \notin question.times
                         /\ pos[p].position \notin question.positions
    <3> DEFINE question == [Nothing EXCEPT !.positions = {x}]
    <3>1. question \in Question /\ question.positions = {x} /\ question.times = {}
      BY DEF Nothing, Question
    <3>2. asked' = [asked EXCEPT ![r] = question] /\ Crewed(type[r], x) = {}
      BY <2>3 DEF AskRemovePosition, Ask
    <3>3. ASSUME NEW p \in signed, time[pos[p].time].type = type[r]
          PROVE  pos[p].position # x
      <4>1. p \in RowsOf(type[r])
        BY <3>3 DEF RowsOf, FormInv, TypeOK
      <4> QED BY <3>2, <4>1 DEF Crewed
    <3> HIDE DEF question
    <3> QED BY <3>1, <3>2, <3>3
  <2> QED BY <2>1, <2>2, <2>3 DEF Asking
<1>2. /\ UNCHANGED <<named, hidden, gone, time, pos, signed, late, signUps>>
      /\ UNCHANGED <<tables, people, pc, type, offered, found, sent>>
      /\ UNCHANGED <<todo, adds, fresh, exist, edits, forms, faults, disturbed, revived>>
  BY DEF Asking, AskRemoveTime, AskRemovePosition, Ask, tables, people, counts
<1>3. /\ \A q \in Req \ {r} : asked'[q] = asked[q]
      /\ asked'[r] = question
  BY <1>1 DEF FormInv, TypeOK
<1>4. TablesType' /\ Grown /\ Linked' /\ \A p \in signed \ late : InForce(p)'
  BY <1>2, SameTables
<1>5. TypeOK'
  BY <1>1, <1>2 DEF FormInv, TypeOK
<1>6. ASSUME NEW q \in Req
      PROVE  Stage(q)' /\ Dialogs(q)'
  <2>1. Stage(q)'
    BY <1>2, <1>4, StageStays DEF FormInv
  <2>2. Dialogs(q)'
    BY <1>1, <1>2, <1>3 DEF FormInv, Dialogs
  <2> QED BY <2>1, <2>2
<1>7. ASSUME NEW p \in signed' \ late'
      PROVE  Safe(p)'
  <2>1. p \in signed \ late /\ p \in PosId /\ pos[p] # NoRow /\ Safe(p)
    BY <1>2 DEF FormInv, TypeOK
  <2>2. ASSUME Working(r)', time[pos[p].time].type = type'[r]
        PROVE  /\ p \in Ids(Places(sent'[r])) /\ pos[p].time \notin asked'[r].times
               /\ pos[p].position \notin asked'[r].positions
    <3>1. Working(r) /\ time[pos[p].time].type = type[r]
      BY <1>2, <2>2 DEF Working
    <3>2. p \in Ids(Places(sent[r]))
      BY <2>1, <3>1 DEF Safe, AboutToGo, RowsOf, Working, Going
    <3> QED BY <1>1, <1>2, <1>3, <2>1, <3>1, <3>2 DEF Nothing
  <2>3. pc'[r] = "unlist" => pos[p].position \notin offered'[r]
    BY <1>2, <2>1 DEF Safe, AboutToGo
  <2> QED BY <1>2, <1>3, <1>4, <2>1, <2>2, <2>3, SafeStep
<1> QED BY <1>4, <1>5, <1>6, <1>7 DEF FormInv

-----------------------------------------------------------------------------
(* The volunteers.                                                         *)

LEMMA PeopleInv ==
    ASSUME FormInv, NEW p \in PosId, SignUp(p) \/ Leave(p)
    PROVE  FormInv'
<1>1. /\ UNCHANGED <<tables, handler, counts, disturbed, revived>>
      /\ UNCHANGED <<named, hidden, gone, time, pos>>
      /\ UNCHANGED <<pc, type, offered, found, asked, sent, todo, adds, fresh, exist>>
      /\ UNCHANGED <<edits, forms, faults>>
  BY DEF SignUp, Leave, tables, handler, counts
<1>2. TypeOK'
  <2>1. PeopleType'
    <3>1. /\ signed \subseteq {u \in PosId : pos[u] # NoRow} /\ late \subseteq signed
          /\ signUps \in 0 .. MaxSignUps /\ MaxSignUps \in Nat
      BY FormAssumption DEF FormInv, TypeOK
    <3>2. CASE SignUp(p)
      <4>1. signed' = signed \cup {p} /\ late' \in {late, late \cup {p}} /\ pos[p] # NoRow
        BY <3>2 DEF SignUp
      <4>2. signUps' \in 0 .. MaxSignUps
        BY <3>1, <3>2 DEF SignUp
      <4> QED BY <1>1, <3>1, <4>1, <4>2 DEF PeopleType
    <3>3. CASE Leave(p)
      BY <1>1, <3>1, <3>3 DEF Leave, PeopleType
    <3> QED BY <3>2, <3>3
  <2>2. HandlersType' /\ CountsType' /\ HistoryType'
    BY <1>1 DEF FormInv, TypeOK, HandlersType, CountsType, HistoryType
  <2>3. TablesType'
    BY <1>1 DEF FormInv, TypeOK, TablesType
  <2> QED BY <2>1, <2>2, <2>3, TypeParts
<1>3. Linked'
  BY <1>1 DEF FormInv, Linked
<1>4. \A r \in Req : Stage(r)' /\ Dialogs(r)'
  <2>1. \A r \in Req : Stage(r)'
    BY <1>1 DEF FormInv, Stage, Known, RowsOf, Ids, Places
  <2>2. \A r \in Req : Dialogs(r)'
    BY <1>1 DEF FormInv, Dialogs
  <2> QED BY <2>1, <2>2
<1>5. ASSUME NEW u \in signed' \ late'
      PROVE  Safe(u)'
  <2>1. Safe(u)
    BY <1>5 DEF SignUp, Leave, FormInv, Safe
  <2>2. InForce(u)'
    BY <1>1, <2>1 DEF Safe, InForce
  <2>3. AboutToGo(u)' <=> AboutToGo(u)
    BY <1>1 DEF AboutToGo, RowsOf, Going, Ids, Places
  <2> QED BY <2>1, <2>2, <2>3 DEF Safe
<1> QED BY <1>2, <1>3, <1>4, <1>5 DEF FormInv

-----------------------------------------------------------------------------
(* All steps.                                                              *)

LEMMA SaveInv ==
    ASSUME FormInv, NEW r \in Req, Save(r)
    PROVE  FormInv'
BY SelectTimesInv, UpdateTimesInv, UpdateFailsInv, BringBackInv, KeepForLaterInv, MoveInv,
   DropTimesInv, SelectRowsInv, LookUpPositionInv, RevivePositionInv, InsertPositionInv, AddFailsInv,
   TakePositionsInv, InsertTimeInv, FillTimeInv, CreateInv, DeleteInv, Zenon DEF Save

LEMMA InitInv == Init => FormInv
<1> SUFFICES ASSUME Init PROVE FormInv
  OBVIOUS
<1>1. /\ \A t \in DOMAIN FirstTime :
             t \in TimeId /\ FirstTime[t].type \in Type /\ FirstTime[t].slot \in Slot
      /\ \A p \in DOMAIN FirstPos : /\ p \in PosId /\ FirstPos[p].time \in DOMAIN FirstTime
                                    /\ FirstPos[p].position \in Position
  BY FormAssumption
<1>2. time \in [TimeId -> Time \cup {NoRow}] /\ pos \in [PosId -> Pos \cup {NoRow}]
  BY <1>1 DEF Init, Time, Pos
<1>3. named \subseteq Type /\ hidden = {} /\ gone = {}
  BY <1>1 DEF Init
<1>4. /\ \A r \in Req : /\ pc[r] = "idle" /\ sent[r] = {} /\ adds[r] = {}
                        /\ todo[r] = {} /\ asked[r] = Nothing
      /\ signed = {} /\ late = {}
  BY DEF Init
<1>5. TypeOK
  <2>1. TablesType
    BY <1>2, <1>3 DEF TablesType
  <2>2. HandlersType
    <3>1. Nothing \in Question
      BY DEF Nothing, Question
    <3> QED BY <1>4, <3>1 DEF Init, HandlersType, Pc
  <2>3. CountsType /\ HistoryType /\ PeopleType
    BY FormAssumption DEF Init, CountsType, HistoryType, PeopleType
  <2> QED BY <2>1, <2>2, <2>3, TypeParts
<1>6. Linked
  <2> SUFFICES ASSUME NEW p \in PosId, pos[p] # NoRow
               PROVE  time[pos[p].time] # NoRow
    BY DEF Linked
  <2>1. p \in DOMAIN FirstPos /\ pos[p].time = FirstPos[p].time
    BY DEF Init
  <2>2. FirstPos[p].time \in DOMAIN FirstTime /\ FirstPos[p].time \in TimeId
    BY <1>1, <2>1
  <2>3. time[FirstPos[p].time] \in Time
    BY <1>1, <2>2 DEF Init, Time
  <2> QED BY <2>1, <2>3, RowIsRow
<1>7. \A r \in Req : Stage(r) /\ Dialogs(r)
  BY <1>4 DEF Stage, Known, Ended, Dialogs
<1> QED BY <1>4, <1>5, <1>6, <1>7 DEF FormInv

LEMMA NextInv == FormInv /\ [Next]_vars => FormInv'
<1>1. ASSUME FormInv, Next
      PROVE  FormInv'
  BY <1>1, OpenInv, AskingInv, EditingInv, SaveInv, PeopleInv, Zenon DEF Next
<1>2. ASSUME FormInv, UNCHANGED vars
      PROVE  FormInv'
  <2>1. /\ UNCHANGED <<named, hidden, gone, time, pos>>
        /\ UNCHANGED <<pc, type, offered, found, asked, sent, todo, adds, fresh, exist>>
        /\ UNCHANGED <<edits, forms, faults, signed, late, signUps, disturbed, revived>>
    BY <1>2 DEF vars, tables, handler, counts, people
  <2>2. TypeOK' /\ Linked'
    BY <1>2, <2>1 DEF FormInv, TypeOK, Linked
  <2>3. \A r \in Req : Stage(r)' /\ Dialogs(r)'
    <3>1. \A r \in Req : Stage(r)'
      BY <1>2, <2>1 DEF FormInv, Stage, Known, RowsOf, Ids, Places
    <3>2. \A r \in Req : Dialogs(r)'
      BY <1>2, <2>1 DEF FormInv, Dialogs
    <3> QED BY <3>1, <3>2
  <2>4. \A p \in signed \ late : Safe(p)'
    BY <1>2, <2>1 DEF FormInv, Safe, InForce, AboutToGo, RowsOf, Going, Ids, Places
  <2> QED BY <2>1, <2>2, <2>3, <2>4 DEF FormInv
<1> QED BY <1>1, <1>2

LEMMA FormInvariant == Spec => []FormInv
BY InitInv, NextInv, PTL DEF Spec

-----------------------------------------------------------------------------
(* Every value of every variable is one of its kind; the rows of the       *)
(* tables, the lists the forms are sent as, what the handlers are about to *)
(* write.                                                                  *)
THEOREM TypeCorrect == Spec => []TypeOK
<1>1. FormInv => TypeOK
  BY DEF FormInv
<1> QED BY <1>1, FormInvariant, PTL

(* Nobody is on a position, time or type that was removed, except who      *)
(* signed up when it was already gone from the table or from an open form, *)
(* or when an open dialog had asked about it: the dialogs of               *)
(* ShiftTypesUpdate.tsx ask before the list is sent, and no handler that   *)
(* runs in between, its own or another type's, can take away what the list *)
(* has kept.                                                               *)
THEOREM NobodyLeft == Spec => []NobodyLeftBehind
<1>1. FormInv => NobodyLeftBehind
  BY DEF FormInv, NobodyLeftBehind, Safe
<1> QED BY <1>1, FormInvariant, PTL

-----------------------------------------------------------------------------
(* What the user kept.                                                     *)

FormsKept == FormInv /\ \A r \in Req : Kept(r)

(* The only rows a handler removes are those it was about to remove.       *)
RemovesTodo(r) ==
    /\ \A t \in TimeId : time[t] # NoRow =>
           /\ time'[t].type = time[t].type
           /\ time'[t].removed => time[t].removed \/ (pc[r] = "drop" /\ t \in todo[r])
    /\ \A p \in PosId : pos[p] # NoRow =>
           (pos'[p].removed => pos[p].removed \/ (pc[r] = "take" /\ p \in todo[r]))

(* The frame of a step of a handler, and whom it disturbs.                 *)
Frame(r) ==
    /\ UNCHANGED <<type, sent>> /\ \A q \in Req \ {r} : pc'[q] = pc[q]
    /\ pc[r] \notin Ended
    /\ Disturbs(r) \/ UNCHANGED <<time, pos, disturbed>>

LEMMA SaveFrame ==
    ASSUME FormInv, NEW r \in Req, Save(r)
    PROVE  Frame(r)
<1> USE DEF Frame, Ended, At, Goto, tables, people
<1>0. pc \in [Req -> Pc]
  BY DEF FormInv, TypeOK
<1>1. CASE \/ SelectTimes(r) \/ LookedUp(r) \/ SelectRows(r) \/ Broken(r) \/ AllAdded(r)
           \/ Filled(r) \/ InsertFails(r) \/ Saved(r) \/ CreateFails(r)
           \/ DeleteType(r) \/ DeletePosition(r)
  BY <1>0, <1>1 DEF SelectTimes, LookedUp, SelectRows, Broken, AllAdded, Filled, InsertFails,
                    Saved, CreateFails, DeleteType, DeletePosition
<1>2. CASE \/ UpdateTimes(r) \/ UpdateFails(r) \/ DropTimes(r) \/ TakePositions(r)
           \/ Create(r)
  BY <1>0, <1>2 DEF UpdateTimes, UpdateFails, DropTimes, TakePositions, Create
<1>3. CASE \E i \in adds[r] : BringBack(r, i) \/ KeepForLater(r, i)
  BY <1>0, <1>3 DEF BringBack, KeepForLater
<1>4. CASE \E a \in adds[r] : \/ LookUpPosition(r, a) \/ RevivePosition(r, a)
                              \/ InsertPosition(r, a) \/ AddFails(r, a)
  BY <1>0, <1>4 DEF LookUpPosition, RevivePosition, InsertPosition, AddFails
<1>5. CASE \/ \E i \in fresh[r] : InsertTime(r, i)
           \/ \E a \in adds[r] : FillTime(r, a)
  BY <1>0, <1>5 DEF InsertTime, FillTime
<1> QED BY <1>1, <1>2, <1>3, <1>4, <1>5 DEF Save

LEMMA SaveRemoves ==
    ASSUME FormInv, NEW r \in Req, Save(r)
    PROVE  RemovesTodo(r)
<1>0. /\ TypeOK
      /\ time \in [TimeId -> Time \cup {NoRow}] /\ pos \in [PosId -> Pos \cup {NoRow}]
  BY DEF FormInv, TypeOK
<1>1. CASE UNCHANGED <<time, pos>>
  BY <1>1 DEF RemovesTodo
<1>2. ASSUME UpdateTimes(r) \/ UpdateFails(r)
      PROVE  RemovesTodo(r)
  BY <1>2, MovesTimes DEF RemovesTodo
<1>3. ASSUME DropTimes(r)
      PROVE  RemovesTodo(r)
  <2>1. UNCHANGED pos /\ pc[r] = "drop"
    BY <1>3 DEF DropTimes, At
  <2>2. \A t \in TimeId : time[t] # NoRow =>
            /\ time'[t].type = time[t].type
            /\ t \notin todo[r] => time'[t].removed = time[t].removed
    BY <1>0, <1>3, RowType DEF DropTimes, Time
  <2> QED BY <2>1, <2>2 DEF RemovesTodo
<1>4. ASSUME NEW i \in adds[r], BringBack(r, i)
      PROVE  RemovesTodo(r)
  <2>1. PICK t \in SameTimes(i) : time' = [time EXCEPT ![t].removed = FALSE]
    BY <1>4 DEF BringBack
  <2>2. UNCHANGED pos
    BY <1>4 DEF BringBack
  <2>3. \A u \in TimeId : time[u] # NoRow =>
            time'[u].type = time[u].type /\ (time'[u].removed => time[u].removed)
    BY <1>0, <2>1, RowType DEF Time
  <2> QED BY <2>2, <2>3 DEF RemovesTodo
<1>5. ASSUME NEW i \in fresh[r], InsertTime(r, i)
      PROVE  RemovesTodo(r)
  <2>1. time[Min(FreeTimes)] = NoRow /\ UNCHANGED pos
    BY <1>5, FreeIn DEF InsertTime
  <2>2. \A u \in TimeId : time[u] # NoRow => time'[u] = time[u]
    BY <1>0, <1>5, <2>1 DEF InsertTime
  <2> QED BY <2>1, <2>2 DEF RemovesTodo
<1>6. ASSUME NEW a \in adds[r], RevivePosition(r, a)
      PROVE  RemovesTodo(r)
  <2>1. UNCHANGED time /\ pos' = [pos EXCEPT ![a.row].removed = FALSE]
    BY <1>6 DEF RevivePosition
  <2>2. \A p \in PosId : pos[p] # NoRow => (pos'[p].removed => pos[p].removed)
    BY <1>0, <2>1, RowType DEF Pos
  <2> QED BY <2>1, <2>2 DEF RemovesTodo
<1>7. ASSUME NEW a \in adds[r], InsertPosition(r, a) \/ FillTime(r, a)
      PROVE  RemovesTodo(r)
  <2>1. UNCHANGED time /\ FreePositions # {} /\ NewPosition(a)
    BY <1>7 DEF InsertPosition, FillTime
  <2>2. \A p \in PosId : pos[p] # NoRow => pos'[p] = pos[p]
    BY <1>0, <2>1, FreeIn DEF NewPosition
  <2> QED BY <2>1, <2>2 DEF RemovesTodo
<1>8. ASSUME TakePositions(r)
      PROVE  RemovesTodo(r)
  <2>1. UNCHANGED time /\ pc[r] = "take"
    BY <1>8 DEF TakePositions, At
  <2>2. \A p \in PosId : p \notin todo[r] => pos'[p] = pos[p]
    BY <1>8 DEF TakePositions
  <2> QED BY <2>1, <2>2 DEF RemovesTodo
<1>9. \/ UNCHANGED <<time, pos>>
      \/ UpdateTimes(r) \/ UpdateFails(r) \/ DropTimes(r) \/ TakePositions(r)
      \/ \E i \in adds[r] : BringBack(r, i)
      \/ \E a \in adds[r] : RevivePosition(r, a) \/ InsertPosition(r, a) \/ FillTime(r, a)
      \/ \E i \in fresh[r] : InsertTime(r, i)
  <2> USE DEF tables
  <2>1. \/ SelectTimes(r) \/ LookedUp(r) \/ SelectRows(r) \/ Broken(r) \/ AllAdded(r)
        \/ Filled(r) \/ InsertFails(r) \/ Saved(r) \/ CreateFails(r) \/ Create(r)
        \/ DeleteType(r) \/ DeletePosition(r)
        => UNCHANGED <<time, pos>>
    BY DEF SelectTimes, LookedUp, SelectRows, Broken, AllAdded, Filled, InsertFails,
           Saved, CreateFails, Create, DeleteType, DeletePosition
  <2>2. /\ \A i \in adds[r] : KeepForLater(r, i) => UNCHANGED <<time, pos>>
        /\ \A a \in adds[r] : LookUpPosition(r, a) \/ AddFails(r, a)
                                => UNCHANGED <<time, pos>>
    BY DEF KeepForLater, LookUpPosition, AddFails
  <2> QED BY <2>1, <2>2, Zenon DEF Save
<1> QED BY <1>1, <1>2, <1>3, <1>4, <1>5, <1>6, <1>7, <1>8, <1>9, Zenon

(* A form is as kept as it was when none of the rows it has was removed.   *)
LEMMA KeptStep ==
    ASSUME FormInv, NEW q \in Req, Kept(q), type'[q] = type[q], sent'[q] = sent[q],
           pc'[q] \notin Ended /\ ~ disturbed'[q] =>
               /\ pc[q] \notin Ended /\ ~ disturbed[q]
               /\ \A t \in Ids(sent[q]) \ {0} : time[t] # NoRow /\ time[t].type = type[q] =>
                      time'[t].type = time[t].type /\ (time'[t].removed => time[t].removed)
               /\ \A p \in Ids(Places(sent[q])) : p \in RowsOf(type[q]) =>
                      (pos'[p].removed => pos[p].removed)
    PROVE  Kept(q)'
<1> SUFFICES ASSUME pc'[q] \notin Ended, ~ disturbed'[q], NEW i \in sent[q], i.id # 0
             PROVE  /\ ~ time'[i.id].removed /\ time'[i.id].type = type[q]
                    /\ \A u \in i.places : u.id # 0 => ~ pos'[u.id].removed
  BY DEF Kept
<1>1. /\ time[i.id] # NoRow
      /\ \A u \in i.places : u.id # 0 => pos[u.id] # NoRow /\ pos[u.id].time = i.id
  BY DEF FormInv, Stage, Known
<1>2. /\ ~ time[i.id].removed /\ time[i.id].type = type[q]
      /\ \A u \in i.places : u.id # 0 => ~ pos[u.id].removed
  BY DEF Kept
<1>3. i.id \in Ids(sent[q])
  BY InIds
<1>4. ASSUME NEW u \in i.places, u.id # 0
      PROVE  ~ pos'[u.id].removed
  <2>1. u.id \in Ids(Places(sent[q]))
    BY InPlaces
  <2>2. u.id \in PosId
    BY <1>4 DEF FormInv, TypeOK, Item, Place
  <2>3. u.id \in RowsOf(type[q])
    BY <1>1, <1>2, <1>4, <2>2 DEF RowsOf
  <2> QED BY <1>2, <1>4, <2>1, <2>3
<1> QED BY <1>1, <1>2, <1>3, <1>4

LEMMA SaveKept ==
    ASSUME FormsKept, NEW r \in Req, Save(r)
    PROVE  \A q \in Req : Kept(q)'
<1> SUFFICES ASSUME NEW q \in Req
             PROVE  Kept(q)'
  OBVIOUS
<1>1. FormInv /\ Kept(q) /\ Stage(r) /\ Frame(r) /\ RemovesTodo(r)
  BY SaveFrame, SaveRemoves DEF FormsKept, FormInv
<1>2. type'[q] = type[q] /\ sent'[q] = sent[q]
  BY <1>1 DEF Frame
<1> SUFFICES ASSUME pc'[q] \notin Ended, ~ disturbed'[q]
             PROVE  /\ pc[q] \notin Ended /\ ~ disturbed[q]
                    /\ \A t \in Ids(sent[q]) \ {0} : time[t] # NoRow /\ time[t].type = type[q] =>
                           /\ time'[t].type = time[t].type
                           /\ time'[t].removed => time[t].removed
                    /\ \A p \in Ids(Places(sent[q])) : p \in RowsOf(type[q]) =>
                           (pos'[p].removed => pos[p].removed)
  BY <1>1, <1>2, KeptStep, Zenon
<1>3. pc[q] \notin Ended
  BY <1>1 DEF Frame
<1>4. ~ disturbed[q] /\ (q # r /\ type[q] = type[r] => UNCHANGED <<time, pos>>)
  BY <1>1, <1>3 DEF Frame, Disturbs
<1>5. ASSUME NEW t \in Ids(sent[q]) \ {0}, time[t] # NoRow, time[t].type = type[q]
      PROVE  time'[t].type = time[t].type /\ (time'[t].removed => time[t].removed)
  <2>1. t \in TimeId
    BY DEF FormsKept, FormInv, TypeOK, Ids, Item
  <2>2. pc[r] = "drop" /\ t \in todo[r] => UNCHANGED <<time, pos>>
    BY <1>1, <1>4, <1>5 DEF Stage
  <2> QED BY <1>1, <1>5, <2>1, <2>2 DEF RemovesTodo
<1>6. ASSUME NEW p \in Ids(Places(sent[q])), p \in RowsOf(type[q])
      PROVE  pos'[p].removed => pos[p].removed
  <2>1. p \in PosId /\ pos[p] # NoRow /\ time[pos[p].time].type = type[q]
    BY <1>6 DEF RowsOf
  <2>2. pc[r] = "take" /\ p \in todo[r] => UNCHANGED <<time, pos>>
    BY <1>1, <1>4, <1>6, <2>1 DEF Stage, RowsOf
  <2> QED BY <1>1, <2>1, <2>2 DEF RemovesTodo
<1> QED BY <1>3, <1>4, <1>5, <1>6

LEMMA ShownKept ==
    ASSUME NEW ty, NEW i \in Shown(ty)
    PROVE  /\ ~ time[i.id].removed /\ time[i.id].type = ty
           /\ \A u \in i.places : ~ pos[u.id].removed
BY DEF Shown, TimesOf, PlacesOf

LEMMA FillKept ==
    ASSUME FormsKept, NEW r \in Req, NEW ty, NEW label, NEW list, NEW places,
           Fill(r, ty, label, list, places), list \in {{}, Shown(ty)}
    PROVE  \A q \in Req : Kept(q)'
<1> SUFFICES ASSUME NEW q \in Req
             PROVE  Kept(q)'
  OBVIOUS
<1>1. /\ pc' = [pc EXCEPT ![r] = label] /\ type' = [type EXCEPT ![r] = ty]
      /\ sent' = [sent EXCEPT ![r] = list]
      /\ disturbed' = [disturbed EXCEPT ![r] = FALSE]
      /\ UNCHANGED <<time, pos>>
  BY DEF Fill, Goto, tables
<1>2. CASE q = r
  <2>1. type'[q] = ty /\ sent'[q] = list
    BY <1>1, <1>2 DEF FormsKept, FormInv, TypeOK
  <2> QED BY <1>1, <2>1, ShownKept DEF Kept
<1>3. CASE q # r
  BY <1>1, <1>3 DEF FormsKept, FormInv, TypeOK, Kept
<1> QED BY <1>2, <1>3

LEMMA OpenKept ==
    ASSUME FormsKept, NEW r \in Req,
           \/ \E ty \in Type : Open(r, ty) \/ OpenBlank(r, ty) \/ AskDelete(r, ty)
           \/ \E p \in Position : AskDeletePosition(r, p)
           \/ Refill(r)
    PROVE  \A q \in Req : Kept(q)'
BY FillKept DEF Open, OpenBlank, AskDelete, AskDeletePosition, Refill, OpenPage

(* An edit gives no id to what has none, and takes no position of a time   *)
(* for another's.                                                          *)
LEMMA EditingKept ==
    ASSUME FormsKept, NEW r \in Req, Editing(r)
    PROVE  \A q \in Req : Kept(q)'
<1>1. PICK list, places :
        /\ Edit(r, list, places)
        /\ \A j \in list : j.id # 0 =>
               \E i \in sent[r] : /\ i.id = j.id
                                  /\ \A u \in j.places : u.id # 0 => u \in i.places
  <2>0. \A i \in sent[r] : i \in Item
    BY DEF FormsKept, FormInv, TypeOK
  <2>1. ASSUME NEW s \in Slot, AddTime(r, s)
        PROVE  \A j \in sent[r] \cup {[id |-> 0, slot |-> s,
                     places |-> {[position |-> p, id |-> 0] : p \in offered[r]}]} :
                   j.id # 0 => j \in sent[r]
    OBVIOUS
  <2>2. ASSUME NEW i \in sent[r], NEW s \in Slot
        PROVE  \A j \in (sent[r] \ {i}) \cup {[i EXCEPT !.slot = s]} :
                   \E k \in sent[r] : k.id = j.id /\ k.places = j.places
    BY <2>0 DEF Item
  <2>3. ASSUME NEW p \in Position
        PROVE  \A j \in {[i EXCEPT !.places = @ \cup {[position |-> p, id |-> 0]}] :
                             i \in sent[r]} :
                   \E i \in sent[r] : /\ i.id = j.id
                                      /\ \A u \in j.places : u.id # 0 => u \in i.places
    BY <2>0 DEF Item
  <2>4. ASSUME NEW p \in Position
        PROVE  \A j \in {[i EXCEPT !.places =
                              {q \in @ : q.position # p \/ pc[r] = "blank"}] : i \in sent[r]} :
                   \E i \in sent[r] : /\ i.id = j.id
                                      /\ \A u \in j.places : u \in i.places
    BY <2>0 DEF Item
  <2>5. CASE \E s \in Slot : AddTime(r, s)
    BY <2>1, <2>5 DEF AddTime
  <2>6. CASE \E i \in sent[r] : RemoveTime(r, i)
    BY <2>6 DEF RemoveTime
  <2>7. CASE \E i \in sent[r] : \E s \in Slot : MoveTime(r, i, s)
    BY <2>2, <2>7 DEF MoveTime
  <2>8. CASE \E p \in Position : AddPosition(r, p)
    BY <2>3, <2>8 DEF AddPosition
  <2>9. CASE \E p \in Position : RemovePosition(r, p)
    BY <2>4, <2>9 DEF RemovePosition
  <2> QED BY <2>5, <2>6, <2>7, <2>8, <2>9 DEF Editing
<1>2. /\ sent' = [sent EXCEPT ![r] = list]
      /\ UNCHANGED <<pc, type, disturbed, time, pos>>
  BY <1>1 DEF Edit, tables
<1>3. sent'[r] = list /\ \A q \in Req \ {r} : sent'[q] = sent[q]
  BY <1>2 DEF FormsKept, FormInv, TypeOK
<1>4. \A q \in Req \ {r} : Kept(q)'
  BY <1>2, <1>3 DEF FormsKept, Kept
<1>5. Kept(r)'
  <2> SUFFICES ASSUME pc[r] \notin Ended, ~ disturbed[r], NEW j \in list, j.id # 0
               PROVE  /\ ~ time[j.id].removed /\ time[j.id].type = type[r]
                      /\ \A u \in j.places : u.id # 0 => ~ pos[u.id].removed
    BY <1>2, <1>3 DEF Kept
  <2>1. PICK i \in sent[r] : /\ i.id = j.id
                             /\ \A u \in j.places : u.id # 0 => u \in i.places
    BY <1>1
  <2> QED BY <2>1 DEF FormsKept, Kept
<1> QED BY <1>4, <1>5

(* A dialog that is opened or closed leaves everything else.               *)
LEMMA AskingSame ==
    ASSUME NEW r \in Req, Asking(r)
    PROVE  UNCHANGED <<named, time, pos, pc, type, sent, todo, adds, fresh, exist,
                       disturbed, revived>>
BY DEF Asking, AskRemoveTime, AskRemovePosition, Ask, tables

LEMMA KeptInit == Init => FormsKept
BY InitInv DEF Init, FormsKept, Kept, Ended

LEMMA KeptNext == FormsKept /\ [Next]_vars => FormsKept'
<1> SUFFICES ASSUME FormsKept, [Next]_vars
             PROVE  FormsKept'
  OBVIOUS
<1>1. FormInv'
  BY NextInv DEF FormsKept
<1>2. ASSUME UNCHANGED <<pc, type, sent, disturbed, time, pos>>
      PROVE  \A q \in Req : Kept(q)'
  BY <1>2 DEF FormsKept, Kept
<1>3. ASSUME NEW p \in PosId, SignUp(p) \/ Leave(p)
      PROVE  \A q \in Req : Kept(q)'
  <2>1. UNCHANGED <<pc, type, sent, disturbed, time, pos>>
    BY <1>3 DEF SignUp, Leave, handler, tables
  <2> QED BY <1>2, <2>1
<1>4. ASSUME UNCHANGED vars \/ \E r \in Req : Asking(r)
      PROVE  \A q \in Req : Kept(q)'
  <2>1. UNCHANGED <<pc, type, sent, disturbed, time, pos>>
    BY <1>4, AskingSame DEF vars, handler, tables
  <2> QED BY <1>2, <2>1
<1>5. ASSUME Next
      PROVE  \A q \in Req : Kept(q)'
  BY <1>3, <1>4, <1>5, OpenKept, EditingKept, SaveKept, Zenon DEF Next
<1>6. \A q \in Req : Kept(q)'
  BY <1>4, <1>5
<1> QED BY <1>1, <1>6 DEF FormsKept

(* A save that nothing disturbs, one that fails in the middle included,    *)
(* takes away nothing the user left in the form: the statements that       *)
(* remove rows (UPDATE ... SET remove_shift_time, remove_time_position)    *)
(* write none that the list has an id of.                                  *)
THEOREM KeptRows == Spec => KeptRowsStay
<1> DEFINE Untaken ==
        \A r \in Req :
           (pc[r] \notin Ended /\ pc'[r] \in {"done", "failed"} /\ ~ disturbed[r])
               => \A i \in sent[r] :
                     i.id # 0 => /\ ~ time[i.id].removed
                                 /\ \A p \in i.places :
                                       p.id # 0 => ~ pos[p.id].removed
<1>1. FormsKept => Untaken
  BY DEF FormsKept, Kept
<1>2. FormsKept /\ [Next]_vars => [Untaken]_vars
  BY <1>1
<1> QED BY <1>2, KeptInit, KeptNext, PTL DEF Spec, KeptRowsStay

-----------------------------------------------------------------------------
(* What was sent.                                                          *)

(* A time of the form and one of the table that are alike.                 *)
Wants(i) == {q.position : q \in i.places}
Has(t)   == {q.position : q \in PlacesOf(t)}
Alike(i, t) == time[t].slot = i.slot /\ Has(t) = Wants(i)

AllAlike(list, times) ==
    /\ \A i \in list : \E t \in times : Alike(i, t)
    /\ \A t \in times : \E i \in list : Alike(i, t)

(* No position is in force on a time that is not.                          *)
Standing(ty) == \A p \in RowsOf(ty) : ~ pos[p].removed => pos[p].time \in TimesOf(ty)

Unsaved(list) == {i \in list : i.id = 0}

(* A time is of a type that has a name.                                    *)
Named == \A t \in TimeId : time[t] # NoRow => time[t].type \in named

(* What a handler has in hand is of its own type and of its own list,      *)
(* whatever else goes on.                                                  *)
Own(r) ==
    /\ \A i \in sent[r] : i.id # 0 => time[i.id].type = type[r]
    /\ \A i, j \in sent[r] : i.id = j.id /\ i.id # 0 => i = j
    /\ pc[r] \notin Ended \cup {"blank", "unlist"} => type[r] \in named
    /\ pc[r] = "blank" => \A i \in sent[r] : i.id = 0
    /\ pc[r] \in {"form", "blank", "update"} => fresh[r] = {}
    /\ pc[r] \in {"add", "breaking", "fill"} =>
           \A a \in adds[r] : /\ time[a.time].type = type[r]
                              /\ a.row # 0 /\ exist[r] = 0 => pos[a.row].time = a.time
    /\ fresh[r] \subseteq sent[r] /\ (pc[r] = "find" => adds[r] \subseteq sent[r])
    /\ pc[r] \notin Ended /\ ~ revived[r] => exist[r] = 0

(* Between the SELECT of the positions and the removal of those that are   *)
(* not in the list: every position of the list is in force, or about to be *)
(* added; one in force is in the list, or about to be removed.             *)
RowsRight(r) ==
    /\ \A i \in sent[r] : i.id # 0 => \A q \in i.places :
           \/ \E a \in adds[r] : a.time = i.id /\ a.position = q.position
           \/ \E p \in RowsOf(type[r]) \ todo[r] :
                 ~ pos[p].removed /\ pos[p].time = i.id /\ pos[p].position = q.position
    /\ \A p \in RowsOf(type[r]) \ todo[r] : ~ pos[p].removed =>
           \E i \in sent[r] : i.id = pos[p].time /\ pos[p].position \in Wants(i)
    /\ \A a \in adds[r] :
           \E i \in sent[r] : i.id = a.time /\ a.time # 0 /\ a.position \in Wants(i)

(* While the positions of an added time are inserted.                      *)
InHand(r) ==
    \E c \in sent[r] \ fresh[r], t \in TimesOf(type[r]) :
        /\ AllAlike(sent[r] \ (fresh[r] \cup {c}), TimesOf(type[r]) \ {t})
        /\ time[t].slot = c.slot
        /\ Wants(c) = Has(t) \cup {a.position : a \in adds[r]}
        /\ \A a \in adds[r] : a.time = t

(* What a save that nothing disturbed, and that found no rows for what it  *)
(* adds, has done so far.                                                  *)
AsSent(r) ==
    pc[r] \notin Ended /\ ~ disturbed[r] /\ ~ revived[r] =>
        /\ pc[r] = "update" => todo[r] = TimesOf(type[r])
        /\ pc[r] \in {"find", "drop"} => todo[r] = TimesOf(type[r]) \ Ids(sent[r])
        /\ pc[r] = "find" => adds[r] \cup fresh[r] = Unsaved(sent[r])
        /\ pc[r] \in {"drop", "rows", "add", "take"} => fresh[r] = Unsaved(sent[r])
        /\ pc[r] \in {"rows", "add", "take"} => TimesOf(type[r]) \subseteq Ids(sent[r])
        /\ pc[r] \in {"find", "drop", "rows", "add", "take"} =>
               \A i \in sent[r] : i.id # 0 => time[i.id].slot = i.slot
        /\ pc[r] \in {"add", "take"} => RowsRight(r)
        /\ pc[r] = "take" => adds[r] = {}
        /\ pc[r] = "insert" => AllAlike(sent[r] \ fresh[r], TimesOf(type[r]))
        /\ pc[r] = "fill" => InHand(r)
        /\ pc[r] \in {"insert", "fill"} => Standing(type[r])

-----------------------------------------------------------------------------
(* What a step leaves to the others.                                       *)

(* The other handlers stay where they are.                                 *)
Elsewhere(r) ==
    \A q \in Req \ {r} :
        /\ pc'[q] = pc[q] /\ type'[q] = type[q] /\ sent'[q] = sent[q]
        /\ todo'[q] = todo[q] /\ adds'[q] = adds[q] /\ fresh'[q] = fresh[q]
        /\ exist'[q] = exist[q] /\ revived'[q] = revived[q]

(* What a handler writes is of its own type.                               *)
Writes(r) ==
    /\ \A t \in TimeId : time'[t] # time[t] => time'[t] # NoRow /\ time'[t].type = type[r]
    /\ \A p \in PosId : pos'[p] # pos[p] =>
           pos'[p] # NoRow /\ time'[pos'[p].time].type = type[r]

(* A time that was not there is inserted by a save on its way.             *)
Born(r) ==
    \A t \in TimeId : time[t] = NoRow /\ time'[t] # NoRow =>
        pc[r] = "insert" /\ time'[t].type = type[r]

(* What there is of a type stays as it is.                                 *)
SameFor(ty) ==
    /\ TimesOf(ty)' = TimesOf(ty) /\ RowsOf(ty)' = RowsOf(ty)
    /\ \A t \in TimesOf(ty) : time'[t] = time[t] /\ PlacesOf(t)' = PlacesOf(t)
    /\ \A t \in TimeId : time[t] # NoRow /\ time[t].type = ty => time'[t] = time[t]
    /\ \A p \in RowsOf(ty) : pos'[p] = pos[p]

LEMMA SaveElsewhere ==
    ASSUME FormInv, NEW r \in Req, Save(r)
    PROVE  Elsewhere(r)
<1> USE DEF Elsewhere, At, Goto
<1>0. /\ pc \in [Req -> Pc] /\ DOMAIN todo = Req /\ DOMAIN adds = Req /\ DOMAIN fresh = Req
      /\ DOMAIN exist = Req /\ DOMAIN revived = Req
  BY DEF FormInv, TypeOK
<1>1. CASE \/ SelectTimes(r) \/ LookedUp(r) \/ SelectRows(r) \/ Broken(r) \/ AllAdded(r)
           \/ Filled(r) \/ InsertFails(r) \/ Saved(r) \/ CreateFails(r)
           \/ DeleteType(r) \/ DeletePosition(r)
  BY <1>0, <1>1 DEF SelectTimes, LookedUp, SelectRows, Broken, AllAdded, Filled, InsertFails,
                    Saved, CreateFails, DeleteType, DeletePosition
<1>2. CASE \/ UpdateTimes(r) \/ UpdateFails(r) \/ DropTimes(r) \/ TakePositions(r)
           \/ Create(r)
  BY <1>0, <1>2 DEF UpdateTimes, UpdateFails, DropTimes, TakePositions, Create
<1>3. CASE \E i \in adds[r] : BringBack(r, i) \/ KeepForLater(r, i)
  BY <1>0, <1>3 DEF BringBack, KeepForLater
<1>4. CASE \E a \in adds[r] : \/ LookUpPosition(r, a) \/ RevivePosition(r, a)
                              \/ InsertPosition(r, a) \/ AddFails(r, a)
  BY <1>0, <1>4 DEF LookUpPosition, RevivePosition, InsertPosition, AddFails
<1>5. CASE \/ \E i \in fresh[r] : InsertTime(r, i)
           \/ \E a \in adds[r] : FillTime(r, a)
  BY <1>0, <1>5 DEF InsertTime, FillTime
<1> QED BY <1>1, <1>2, <1>3, <1>4, <1>5 DEF Save

LEMMA OthersSame ==
    ASSUME TypeOK, Linked, Grown, NEW r \in Req, Writes(r), NEW ty, ty # type[r]
    PROVE  SameFor(ty)
<1>1. \A t \in TimeId : time[t] # NoRow /\ time[t].type = ty => time'[t] = time[t]
  BY DEF Grown, Writes
<1>2. \A t \in TimeId : time'[t] # NoRow /\ time'[t].type = ty => time'[t] = time[t]
  BY DEF Writes
<1>3. TimesOf(ty)' = TimesOf(ty)
  BY <1>1, <1>2 DEF TimesOf
<1>4. \A p \in PosId : pos[p] # NoRow =>
          /\ time[pos[p].time] # NoRow /\ pos[p].time \in TimeId
          /\ time'[pos'[p].time].type = time[pos[p].time].type /\ pos'[p] # NoRow
  BY RowType DEF Linked, Grown
<1>5. \A p \in RowsOf(ty) : pos'[p] = pos[p]
  BY <1>4 DEF RowsOf, Writes
<1>6. \A p \in PosId : pos'[p] # NoRow /\ time'[pos'[p].time].type = ty => pos'[p] = pos[p]
  BY DEF Writes
<1>7. RowsOf(ty)' = RowsOf(ty)
  BY <1>4, <1>6 DEF RowsOf
<1>8. ASSUME NEW t \in TimesOf(ty)
      PROVE  PlacesOf(t)' = PlacesOf(t)
  <2>1. t \in TimeId /\ time[t] # NoRow /\ time[t].type = ty /\ time'[t] = time[t]
    BY <1>1 DEF TimesOf
  <2>2. \A p \in PosId : (pos[p] # NoRow /\ pos[p].time = t) => pos'[p] = pos[p]
    BY <1>5, <2>1 DEF RowsOf
  <2>3. \A p \in PosId : (pos'[p] # NoRow /\ pos'[p].time = t) => pos'[p] = pos[p]
    BY <1>6, <2>1
  <2>4. {q \in PosId : pos[q] # NoRow /\ pos[q].time = t /\ ~ pos[q].removed}
            = {q \in PosId : pos'[q] # NoRow /\ pos'[q].time = t /\ ~ pos'[q].removed}
    BY <2>2, <2>3
  <2>5. \A p \in {q \in PosId : pos[q] # NoRow /\ pos[q].time = t /\ ~ pos[q].removed} :
            pos'[p] = pos[p]
    BY <2>2
  <2> QED BY <2>4, <2>5 DEF PlacesOf
<1>9. TimesOf(ty) \subseteq {t \in TimeId : time[t] # NoRow /\ time[t].type = ty}
  BY DEF TimesOf
<1> QED BY <1>1, <1>3, <1>5, <1>7, <1>8, <1>9 DEF SameFor

LEMMA UnchangedSame ==
    ASSUME UNCHANGED <<time, pos>>, NEW ty
    PROVE  SameFor(ty)
BY DEF SameFor, TimesOf, RowsOf, PlacesOf

(* A handler that waits has what it had.                                   *)
LEMMA OwnStays ==
    ASSUME FormInv, Grown, NEW q \in Req, Own(q),
           pc'[q] = pc[q], type'[q] = type[q], sent'[q] = sent[q], adds'[q] = adds[q],
           fresh'[q] = fresh[q], exist'[q] = exist[q], revived'[q] = revived[q]
    PROVE  Own(q)'
<1>1. TypeOK /\ Stage(q) /\ Known(sent[q])
  BY DEF FormInv, Stage
<1>2. \A i \in sent[q] : i.id # 0 => time'[i.id].type = type[q]
  <2> SUFFICES ASSUME NEW i \in sent[q], i.id # 0
               PROVE  time'[i.id].type = type[q]
    OBVIOUS
  <2>1. i.id \in TimeId /\ time[i.id] # NoRow
    BY <1>1 DEF TypeOK, Item, Known
  <2> QED BY <2>1 DEF Own, Grown
<1>3. ASSUME pc[q] \in {"add", "breaking", "fill"}, NEW a \in adds[q]
      PROVE  /\ time'[a.time].type = type[q]
             /\ a.row # 0 /\ exist[q] = 0 => pos'[a.row].time = a.time
  <2>1. a \in Added /\ a.time \in TimeId /\ a.row \in PosId \cup {0}
    BY <1>1, <1>3 DEF TypeOK, Added
  <2>2. time[a.time] # NoRow /\ (a.row # 0 => pos[a.row] # NoRow)
    BY <1>1, <1>3 DEF Stage
  <2> QED BY <1>3, <2>1, <2>2 DEF Own, Grown
<1>4. named \subseteq named'
  BY DEF Grown
<1> QED BY <1>2, <1>3, <1>4 DEF Own

LEMMA AsSentStays ==
    ASSUME FormInv, NEW q \in Req, Own(q), AsSent(q),
           pc'[q] = pc[q], type'[q] = type[q], sent'[q] = sent[q], todo'[q] = todo[q],
           adds'[q] = adds[q], fresh'[q] = fresh[q], revived'[q] = revived[q],
           pc[q] \notin Ended /\ ~ disturbed'[q] => ~ disturbed[q] /\ SameFor(type[q])
    PROVE  AsSent(q)'
<1> SUFFICES ASSUME pc[q] \notin Ended, ~ disturbed'[q], ~ revived[q]
             PROVE  AsSent(q)'
  BY DEF AsSent
<1> DEFINE ty == type[q]
<1>1. ~ disturbed[q] /\ SameFor(ty)
  OBVIOUS
<1>2. TimesOf(ty)' = TimesOf(ty) /\ RowsOf(ty)' = RowsOf(ty)
  BY <1>1 DEF SameFor
<1>3. ASSUME NEW i, NEW t \in TimesOf(ty)
      PROVE  Alike(i, t)' <=> Alike(i, t)
  BY <1>1 DEF SameFor, Alike, Has, Wants
<1>4. ASSUME NEW list, NEW times, times \subseteq TimesOf(ty), AllAlike(list, times)
      PROVE  AllAlike(list, times)'
  BY <1>3, <1>4 DEF AllAlike
<1>5. \A i \in sent[q] : i.id # 0 => time'[i.id] = time[i.id]
  <2> SUFFICES ASSUME NEW i \in sent[q], i.id # 0
               PROVE  time'[i.id] = time[i.id]
    OBVIOUS
  <2>1. i.id \in TimeId /\ time[i.id] # NoRow
    BY DEF FormInv, Stage, TypeOK, Item, Known
  <2> QED BY <1>1, <2>1 DEF Own, SameFor
<1>6. pc[q] \in {"add", "take"} => RowsRight(q)'
  <2> SUFFICES ASSUME pc[q] \in {"add", "take"}
               PROVE  RowsRight(q)'
    OBVIOUS
  <2>1. RowsRight(q)
    BY <1>1 DEF AsSent
  <2>2. \A p \in RowsOf(ty) : pos'[p] = pos[p]
    BY <1>1 DEF SameFor
  <2> QED BY <1>2, <2>1, <2>2 DEF RowsRight, Wants
<1>7. pc[q] = "insert" => AllAlike(sent[q] \ fresh[q], TimesOf(ty))'
  BY <1>1, <1>2, <1>4 DEF AsSent
<1>8. pc[q] = "fill" => InHand(q)'
  <2> SUFFICES ASSUME pc[q] = "fill"
               PROVE  InHand(q)'
    OBVIOUS
  <2>1. PICK c \in sent[q] \ fresh[q], t \in TimesOf(ty) :
            /\ AllAlike(sent[q] \ (fresh[q] \cup {c}), TimesOf(ty) \ {t})
            /\ time[t].slot = c.slot
            /\ Wants(c) = Has(t) \cup {a.position : a \in adds[q]}
            /\ \A a \in adds[q] : a.time = t
    BY <1>1 DEF AsSent, InHand
  <2>2. AllAlike(sent[q] \ (fresh[q] \cup {c}), TimesOf(ty) \ {t})'
    BY <1>2, <1>4, <2>1
  <2>3. time'[t].slot = c.slot /\ Has(t)' = Has(t) /\ Wants(c)' = Wants(c)
    BY <1>1, <2>1 DEF SameFor, Has, Wants
  <2>4. t \in TimesOf(ty)'
    BY <1>2, <2>1
  <2> QED BY <2>1, <2>2, <2>3, <2>4 DEF InHand
<1>9. pc[q] \in {"insert", "fill"} => Standing(ty)'
  <2> SUFFICES ASSUME pc[q] \in {"insert", "fill"}
               PROVE  Standing(ty)'
    OBVIOUS
  <2>1. Standing(ty)
    BY <1>1 DEF AsSent
  <2>2. \A p \in RowsOf(ty) : pos'[p] = pos[p]
    BY <1>1 DEF SameFor
  <2> QED BY <1>2, <2>1, <2>2 DEF Standing
<1> QED BY <1>1, <1>2, <1>5, <1>6, <1>7, <1>8, <1>9 DEF AsSent, Ids, Unsaved

(* What a statement of a save writes: rows of its type, unless it has      *)
(* found a row for an added time.                                          *)
LEMMA SaveWrites ==
    ASSUME FormInv, NEW r \in Req, Own(r), Save(r)
    PROVE  Grown /\ Born(r) /\ (exist'[r] = 0 => Writes(r))
<1> DEFINE Goal == Grown /\ Born(r) /\ (exist'[r] = 0 => Writes(r))
<1>0. /\ TypeOK /\ Linked /\ Stage(r)
      /\ time \in [TimeId -> Time \cup {NoRow}] /\ pos \in [PosId -> Pos \cup {NoRow}]
      /\ exist \in [Req -> TimeId \cup {0}]
      /\ \A t \in TimeId : t # 0
  BY IdsType DEF FormInv, TypeOK
<1>1. CASE UNCHANGED <<time, pos>> /\ named \subseteq named'
  BY <1>1 DEF Grown, Born, Writes
<1>2. ASSUME UpdateTimes(r) \/ UpdateFails(r)
      PROVE  Goal
  <2>1. UNCHANGED <<named, pos>>
    BY <1>2, MovesTimes
  <2>2. \A t \in TimeId :
            \/ time'[t] = time[t]
            \/ /\ time[t] # NoRow /\ time'[t] # NoRow
               /\ time[t].type = type[r] /\ time'[t].type = type[r]
    BY <1>2, MovesTimes
  <2>3. Grown /\ Born(r)
    BY <2>1, <2>2 DEF Grown, Born
  <2>4. Writes(r)
    BY <2>1, <2>2 DEF Writes
  <2> QED BY <2>3, <2>4
<1>3. ASSUME DropTimes(r)
      PROVE  Goal
  <2>1. UNCHANGED <<named, pos>> /\ pc[r] = "drop"
    BY <1>3 DEF DropTimes, At
  <2>2. ASSUME NEW t \in TimeId
        PROVE  \/ time'[t] = time[t]
               \/ /\ time[t] # NoRow /\ time'[t] # NoRow
                  /\ time[t].type = type[r] /\ time'[t].type = type[r]
    <3>1. CASE t \notin todo[r]
      BY <1>3, <3>1 DEF DropTimes
    <3>2. CASE t \in todo[r]
      <4>1. time[t] \in Time /\ time[t].type = type[r] /\ time[t] # NoRow
        BY <1>0, <2>1, <3>2, RowType DEF Stage
      <4>2. time'[t] = [time[t] EXCEPT !.removed = TRUE]
        BY <1>3, <3>2 DEF DropTimes
      <4>3. time'[t] \in Time /\ time'[t].type = type[r]
        BY <4>1, <4>2 DEF Time
      <4> QED BY <4>1, <4>3, RowIsRow
    <3> QED BY <3>1, <3>2
  <2>3. Grown /\ Born(r)
    BY <2>1, <2>2 DEF Grown, Born
  <2>4. Writes(r)
    BY <2>1, <2>2 DEF Writes
  <2> QED BY <2>3, <2>4
<1>4. ASSUME NEW i \in adds[r], BringBack(r, i)
      PROVE  Goal
  <2>1. PICK t \in SameTimes(i) : /\ time' = [time EXCEPT ![t].removed = FALSE]
                                  /\ exist' = [exist EXCEPT ![r] = t]
    BY <1>4 DEF BringBack
  <2>2. UNCHANGED <<named, pos>> /\ t \in TimeId /\ time[t] \in Time /\ exist'[r] # 0
    BY <1>0, <1>4, <2>1, RowType DEF BringBack, SameTimes
  <2>3. \A u \in TimeId : time[u] # NoRow =>
            time'[u].type = time[u].type /\ time'[u] # NoRow
    BY <1>0, <2>1, <2>2, RowType, RowIsRow DEF Time
  <2>4. \A u \in TimeId : time[u] = NoRow => time'[u] = NoRow
    BY <1>0, <2>1, <2>2, RowIsRow
  <2> QED BY <2>2, <2>3, <2>4 DEF Grown, Born
<1>5. ASSUME NEW i \in fresh[r], InsertTime(r, i)
      PROVE  Goal
  <2> DEFINE n == Min(FreeTimes)
  <2>1. n \in TimeId /\ time[n] = NoRow /\ UNCHANGED <<named, pos>> /\ pc[r] = "insert"
    BY <1>5, FreeIn DEF InsertTime, At
  <2>2. time' = [time EXCEPT ![n] = [type |-> type[r], slot |-> i.slot, removed |-> FALSE]]
    BY <1>5 DEF InsertTime
  <2>3. type[r] \in Type /\ i.slot \in Slot
    BY <1>0, <2>1 DEF Stage, TypeOK, Item, Ended
  <2>4. time'[n] \in Time /\ time'[n].type = type[r]
    BY <1>0, <2>1, <2>2, <2>3 DEF Time
  <2> HIDE DEF n
  <2>5. \A u \in TimeId : u # n => time'[u] = time[u]
    BY <1>0, <2>2
  <2>6. time'[n] # NoRow
    BY <2>4, RowIsRow
  <2> QED BY <2>1, <2>4, <2>5, <2>6 DEF Grown, Born, Writes
<1>6. ASSUME NEW a \in adds[r], RevivePosition(r, a)
      PROVE  Goal
  <2>1. /\ UNCHANGED <<named, time, exist>> /\ pos' = [pos EXCEPT ![a.row].removed = FALSE]
        /\ a.row # 0 /\ pc[r] \in {"add", "breaking"}
    BY <1>6 DEF RevivePosition
  <2>2. a \in Added /\ a.row \in PosId /\ pos[a.row] # NoRow /\ pos[a.row] \in Pos
    BY <1>0, <2>1, RowType DEF TypeOK, Added, Stage
  <2>3. \A p \in PosId : p # a.row => pos'[p] = pos[p]
    BY <1>0, <2>1
  <2>4. /\ pos'[a.row] \in Pos /\ pos'[a.row].time = pos[a.row].time
        /\ pos'[a.row].position = pos[a.row].position
    BY <1>0, <2>1, <2>2 DEF Pos
  <2>5. pos'[a.row] # NoRow
    BY <2>4, RowIsRow
  <2>6. exist'[r] = 0 => time[pos[a.row].time].type = type[r]
    BY <2>1 DEF Own
  <2> QED BY <2>1, <2>2, <2>3, <2>4, <2>5, <2>6 DEF Grown, Born, Writes
<1>7. ASSUME NEW a \in adds[r], InsertPosition(r, a) \/ FillTime(r, a)
      PROVE  Goal
  <2> DEFINE n == Min(FreePositions)
  <2>1. /\ UNCHANGED <<named, time>> /\ pc[r] \in {"add", "breaking", "fill"}
        /\ n \in PosId /\ pos[n] = NoRow
        /\ pos' = [pos EXCEPT ![n] =
                     [time |-> a.time, position |-> a.position, removed |-> FALSE]]
    BY <1>7, FreeIn DEF InsertPosition, FillTime, NewPosition, At
  <2>2. a \in Added
    BY <1>0, <2>1 DEF TypeOK
  <2> HIDE DEF n
  <2>3. pos'[n] \in Pos /\ pos'[n].time = a.time
    BY <1>0, <2>1, <2>2 DEF Pos, Added
  <2>4. time[a.time].type = type[r] /\ pos'[n] # NoRow
    BY <2>1, <2>3, RowIsRow DEF Own
  <2>5. \A p \in PosId : p # n => pos'[p] = pos[p]
    BY <1>0, <2>1
  <2> QED BY <2>1, <2>3, <2>4, <2>5 DEF Grown, Born, Writes
<1>8. ASSUME TakePositions(r)
      PROVE  Goal
  <2>1. UNCHANGED <<named, time>> /\ pc[r] = "take"
    BY <1>8 DEF TakePositions, At
  <2>2. ASSUME NEW p \in PosId
        PROVE  \/ pos'[p] = pos[p]
               \/ /\ pos[p] # NoRow /\ pos'[p] # NoRow
                  /\ pos'[p].time = pos[p].time /\ pos'[p].position = pos[p].position
                  /\ time[pos[p].time].type = type[r]
    <3>1. CASE p \notin todo[r]
      BY <1>8, <3>1 DEF TakePositions
    <3>2. CASE p \in todo[r]
      <4>1. pos[p] \in Pos /\ pos[p] # NoRow /\ time[pos[p].time].type = type[r]
        BY <1>0, <2>1, <3>2, RowType DEF Stage, RowsOf
      <4>2. pos'[p] = [pos[p] EXCEPT !.removed = TRUE]
        BY <1>8, <3>2 DEF TakePositions
      <4>3. /\ pos'[p] \in Pos /\ pos'[p].time = pos[p].time
            /\ pos'[p].position = pos[p].position
        BY <4>1, <4>2 DEF Pos
      <4> QED BY <4>1, <4>3, RowIsRow
    <3> QED BY <3>1, <3>2
  <2> QED BY <2>1, <2>2 DEF Grown, Born, Writes
<1>9. \/ UNCHANGED <<time, pos>> /\ named \subseteq named'
      \/ UpdateTimes(r) \/ UpdateFails(r) \/ DropTimes(r) \/ TakePositions(r)
      \/ \E i \in adds[r] : BringBack(r, i)
      \/ \E a \in adds[r] : RevivePosition(r, a) \/ InsertPosition(r, a) \/ FillTime(r, a)
      \/ \E i \in fresh[r] : InsertTime(r, i)
  <2> USE DEF tables
  <2>1. \/ SelectTimes(r) \/ LookedUp(r) \/ SelectRows(r) \/ Broken(r) \/ AllAdded(r)
        \/ Filled(r) \/ InsertFails(r) \/ Saved(r) \/ CreateFails(r) \/ Create(r)
        \/ DeleteType(r) \/ DeletePosition(r)
        => UNCHANGED <<time, pos>> /\ named \subseteq named'
    BY DEF SelectTimes, LookedUp, SelectRows, Broken, AllAdded, Filled, InsertFails,
           Saved, CreateFails, Create, DeleteType, DeletePosition
  <2>2. /\ \A i \in adds[r] : KeepForLater(r, i) =>
                UNCHANGED <<time, pos>> /\ named \subseteq named'
        /\ \A a \in adds[r] : LookUpPosition(r, a) \/ AddFails(r, a) =>
                UNCHANGED <<time, pos>> /\ named \subseteq named'
    BY DEF KeepForLater, LookUpPosition, AddFails
  <2> QED BY <2>1, <2>2, Zenon DEF Save
<1> QED BY <1>1, <1>2, <1>3, <1>4, <1>5, <1>6, <1>7, <1>8, <1>9, Zenon

-----------------------------------------------------------------------------
(* What a save does to its own.                                            *)

Progress(r) == Own(r) /\ AsSent(r)

(* What an undisturbed form has an id of is in the table.                  *)
LEMMA SentIsThere ==
    ASSUME FormsKept, NEW r \in Req, pc[r] \notin Ended, ~ disturbed[r],
           NEW i \in sent[r], i.id # 0
    PROVE  /\ i.id \in TimesOf(type[r]) /\ i.id \in TimeId
           /\ \A q \in i.places : q.id # 0 =>
                  /\ q.id \in RowsOf(type[r]) /\ ~ pos[q.id].removed
                  /\ pos[q.id].time = i.id /\ pos[q.id].position = q.position
<1>1. /\ i.id \in TimeId /\ time[i.id] # NoRow
      /\ \A q \in i.places : q.id # 0 =>
             /\ q.id \in PosId /\ pos[q.id] # NoRow
             /\ pos[q.id].time = i.id /\ pos[q.id].position = q.position
  BY DEF FormsKept, FormInv, Stage, TypeOK, Item, Place, Known
<1>2. /\ ~ time[i.id].removed /\ time[i.id].type = type[r]
      /\ \A q \in i.places : q.id # 0 => ~ pos[q.id].removed
  BY DEF FormsKept, Kept
<1> QED BY <1>1, <1>2 DEF TimesOf, RowsOf

LEMMA HasMember ==
    ASSUME NEW t, NEW x
    PROVE  /\ x \in Has(t) <=> \E p \in PosId : /\ pos[p] # NoRow /\ pos[p].time = t
                                                /\ ~ pos[p].removed /\ pos[p].position = x
           /\ x \in Has(t)' <=> \E p \in PosId : /\ pos'[p] # NoRow /\ pos'[p].time = t
                                                 /\ ~ pos'[p].removed /\ pos'[p].position = x
<1>1. ASSUME NEW table, NEW rows,
             rows = {q \in PosId : table[q] # NoRow /\ table[q].time = t /\ ~ table[q].removed}
      PROVE  x \in {q.position : q \in {[position |-> table[p].position, id |-> p] : p \in rows}}
                 <=> \E p \in PosId : /\ table[p] # NoRow /\ table[p].time = t
                                      /\ ~ table[p].removed /\ table[p].position = x
  <2> DEFINE place(p) == [position |-> table[p].position, id |-> p]
  <2>1. \A p : place(p).position = table[p].position
    OBVIOUS
  <2> HIDE DEF place
  <2>2. x \in {q.position : q \in {place(p) : p \in rows}} <=> \E p \in rows : table[p].position = x
    BY <2>1
  <2> QED BY <1>1, <2>2 DEF place
<1> QED BY <1>1 DEF Has, PlacesOf

LEMMA OwnStep ==
    ASSUME FormInv, Grown, NEW r \in Req, Own(r),
           type'[r] = type[r], sent'[r] = sent[r], fresh'[r] \subseteq sent[r],
           pc'[r] = "find" => adds'[r] \subseteq sent[r],
           pc'[r] \notin {"form", "blank", "update"},
           pc'[r] \notin Ended => type[r] \in named',
           pc'[r] \in {"add", "breaking", "fill"} =>
               \A a \in adds'[r] : /\ time'[a.time].type = type[r]
                                   /\ a.row # 0 /\ exist'[r] = 0 => pos'[a.row].time = a.time,
           pc'[r] \notin Ended /\ ~ revived'[r] => exist'[r] = 0
    PROVE  Own(r)'
<1>1. \A i \in sent[r] : i.id # 0 => time'[i.id].type = type[r]
  <2> SUFFICES ASSUME NEW i \in sent[r], i.id # 0
               PROVE  time'[i.id].type = type[r]
    OBVIOUS
  <2>1. i.id \in TimeId /\ time[i.id] # NoRow
    BY DEF FormInv, Stage, TypeOK, Item, Known
  <2> QED BY <2>1 DEF Own, Grown
<1> QED BY <1>1 DEF Own

LEMMA SelectTimesGoes ==
    ASSUME FormsKept, NEW r \in Req, Progress(r), SelectTimes(r)
    PROVE  Progress(r)'
<1>1. /\ pc[r] = "form" /\ pc'[r] = "update" /\ todo'[r] = TimesOf(type[r])
      /\ UNCHANGED <<named, time, pos, type, sent, fresh, adds, exist, disturbed, revived>>
  BY DEF FormsKept, FormInv, TypeOK, SelectTimes, At, Goto, tables
<1>2. Own(r)'
  BY <1>1 DEF Progress, Own, Ended
<1>3. AsSent(r)'
  BY <1>1 DEF AsSent, TimesOf
<1> QED BY <1>2, <1>3 DEF Progress

LEMMA UpdateTimesGoes ==
    ASSUME FormsKept, NEW r \in Req, Progress(r), Save(r), UpdateTimes(r)
    PROVE  Progress(r)'
<1> DEFINE ty == type[r]
           slotOf(t) == (CHOOSE i \in sent[r] : i.id = t).slot
<1>0. TypeOK /\ Own(r) /\ AsSent(r) /\ Stage(r) /\ Grown
  BY SaveWrites DEF FormsKept, FormInv, Progress
<1>1. /\ pc[r] = "update" /\ pc'[r] = "find"
      /\ todo'[r] = todo[r] \ Ids(sent[r])
      /\ adds'[r] = {i \in sent[r] : i.id \notin todo[r]}
      /\ UNCHANGED <<type, sent, named, pos, fresh, exist, revived>>
      /\ disturbed'[r] = disturbed[r]
  BY <1>0 DEF TypeOK, UpdateTimes, At, Goto, Disturbs
<1>2. \A t \in TimeId : time'[t] = IF t \in todo[r] /\ t \in Ids(sent[r])
                                   THEN [time[t] EXCEPT !.slot = slotOf(t)] ELSE time[t]
  BY DEF UpdateTimes, Moved
<1>3. Own(r)'
  BY <1>0, <1>1, OwnStep DEF FormsKept, Own, Ended
<1>4. SUFFICES ASSUME ~ disturbed[r], ~ revived[r]
               PROVE  AsSent(r)'
  BY <1>1, <1>3 DEF Progress, AsSent
<1>5. todo[r] = TimesOf(ty) /\ fresh[r] = {}
  BY <1>0, <1>1, <1>4 DEF AsSent, Own, Ended
<1>6. \A t \in TimesOf(ty) : t \in TimeId /\ time[t] # NoRow /\ time[t] \in Time
  BY <1>0, RowType DEF TimesOf
<1>7. TimesOf(ty)' = TimesOf(ty)
  <2>1. \A t \in TimeId : time'[t] # time[t] =>
            t \in TimesOf(ty) /\ time'[t].removed = time[t].removed
    BY <1>2, <1>5, <1>6 DEF Time
  <2> QED BY <1>0, <1>1, <1>6, <2>1 DEF TimesOf, Grown
<1>8. \A i \in sent[r] : i.id # 0 => i.id \in TimesOf(ty)
  BY <1>1, <1>4, SentIsThere DEF Ended
<1>9. ASSUME NEW i \in sent[r], i.id # 0
      PROVE  time'[i.id].slot = i.slot
  <2>1. i.id \in Ids(sent[r]) /\ i.id \in TimeId /\ i.id \in todo[r] /\ time[i.id] \in Time
    BY <1>5, <1>6, <1>8, <1>9, InIds
  <2>2. \A j \in sent[r] : j.id = i.id => j = i
    BY <1>0, <1>9 DEF Own
  <2>3. (CHOOSE j \in sent[r] : j.id = i.id) = i
    BY <2>2
  <2>4. slotOf(i.id) = i.slot
    BY <2>3
  <2> HIDE DEF slotOf
  <2>5. time'[i.id] = [time[i.id] EXCEPT !.slot = i.slot]
    BY <1>2, <2>1, <2>4
  <2> QED BY <2>1, <2>5 DEF Time
<1>10. adds'[r] \cup fresh[r] = Unsaved(sent[r])
  <2>1. \A t \in TimesOf(ty) : t # 0
    BY <1>6, IdsType
  <2> QED BY <1>1, <1>5, <1>8, <2>1 DEF Unsaved
<1> QED BY <1>1, <1>5, <1>7, <1>9, <1>10 DEF AsSent, Ids, Unsaved

LEMMA LookUpTimesGoes ==
    ASSUME FormsKept, NEW r \in Req, Progress(r), Save(r),
           \/ \E i \in adds[r] : BringBack(r, i) \/ KeepForLater(r, i)
           \/ LookedUp(r)
    PROVE  Progress(r)'
<1>0. TypeOK /\ Own(r) /\ AsSent(r) /\ Grown
  BY SaveWrites DEF FormsKept, FormInv, Progress
<1>1. ASSUME NEW i \in adds[r], BringBack(r, i)
      PROVE  Progress(r)'
  <2>1. /\ pc[r] = "find" /\ pc'[r] = "find" /\ UNCHANGED <<named, type, sent, fresh>>
        /\ revived'[r]
    BY <1>0, <1>1 DEF TypeOK, BringBack, At
  <2>2. adds'[r] \subseteq adds[r]
    BY <1>0, <1>1 DEF TypeOK, BringBack
  <2>3. Own(r)'
    BY <1>0, <2>1, <2>2, OwnStep DEF FormsKept, Own, Ended
  <2> QED BY <2>1, <2>3 DEF Progress, AsSent
<1>2. ASSUME NEW i \in adds[r], KeepForLater(r, i)
      PROVE  Progress(r)'
  <2>1. /\ pc[r] = "find" /\ pc'[r] = "find"
        /\ UNCHANGED <<named, time, pos, type, sent, todo, disturbed, revived>>
        /\ fresh'[r] = fresh[r] \cup {i} /\ adds'[r] = adds[r] \ {i} /\ exist'[r] = 0
    BY <1>0, <1>2 DEF TypeOK, KeepForLater, At, tables
  <2>2. AsSent(r)'
    BY <1>0, <2>1 DEF AsSent, TimesOf, Ids, Unsaved, Ended
  <2>3. i \in sent[r]
    BY <1>0, <2>1 DEF Own
  <2>4. Own(r)'
    BY <1>0, <2>1, <2>3, OwnStep DEF FormsKept, Own, Ended
  <2> QED BY <2>2, <2>4 DEF Progress
<1>3. ASSUME LookedUp(r)
      PROVE  Progress(r)'
  <2>1. /\ pc[r] = "find" /\ pc'[r] = "drop" /\ adds[r] = {}
        /\ UNCHANGED <<named, time, pos, type, sent, todo, adds, fresh, exist, disturbed,
                       revived>>
    BY <1>0, <1>3 DEF TypeOK, LookedUp, At, Goto, tables
  <2>2. AsSent(r)'
    BY <1>0, <2>1 DEF AsSent, TimesOf, Ids, Unsaved, Ended
  <2>3. Own(r)'
    BY <1>0, <2>1, OwnStep DEF FormsKept, Own, Ended
  <2> QED BY <2>2, <2>3 DEF Progress
<1> QED BY <1>1, <1>2, <1>3

LEMMA DropTimesGoes ==
    ASSUME FormsKept, NEW r \in Req, Progress(r), Save(r), DropTimes(r)
    PROVE  Progress(r)'
<1> DEFINE ty == type[r]
<1>0. TypeOK /\ Own(r) /\ AsSent(r) /\ Grown
  BY SaveWrites DEF FormsKept, FormInv, Progress
<1>1. /\ pc[r] = "drop" /\ pc'[r] = "rows" /\ disturbed'[r] = disturbed[r]
      /\ UNCHANGED <<type, sent, named, pos, adds, fresh, exist, revived>>
  BY <1>0 DEF TypeOK, DropTimes, At, Goto, Disturbs
<1>2. \A t \in TimeId : time'[t] = IF t \in todo[r] THEN [time[t] EXCEPT !.removed = TRUE]
                                   ELSE time[t]
  BY DEF DropTimes
<1>3. Own(r)'
  BY <1>0, <1>1, OwnStep DEF FormsKept, Own, Ended
<1>4. SUFFICES ASSUME ~ disturbed[r], ~ revived[r]
               PROVE  AsSent(r)'
  BY <1>1, <1>3 DEF Progress, AsSent
<1>5. todo[r] = TimesOf(ty) \ Ids(sent[r]) /\ fresh[r] = Unsaved(sent[r])
  BY <1>0, <1>1, <1>4 DEF AsSent, Ended
<1>6. ASSUME NEW t \in TimesOf(ty)'
      PROVE  t \in Ids(sent[r])
  <2>1. t \in TimeId /\ time'[t] # NoRow /\ time'[t].type = ty /\ ~ time'[t].removed
    BY <1>1 DEF TimesOf
  <2>2. CASE t \in todo[r]
    <3>1. time[t] \in Time
      BY <1>0, <1>5, <2>2, RowType DEF TimesOf
    <3>2. time'[t] = [time[t] EXCEPT !.removed = TRUE]
      BY <1>2, <2>1, <2>2
    <3>3. time'[t].removed
      BY <3>1, <3>2 DEF Time
    <3> QED BY <2>1, <3>3
  <2>3. CASE t \notin todo[r]
    <3>1. time'[t] = time[t]
      BY <1>2, <2>1, <2>3
    <3>2. t \in TimesOf(ty)
      BY <2>1, <3>1 DEF TimesOf
    <3> QED BY <1>5, <2>3, <3>2
  <2> QED BY <2>2, <2>3
<1>7. ASSUME NEW i \in sent[r], i.id # 0
      PROVE  time'[i.id].slot = i.slot
  <2>1. i.id \in TimeId /\ i.id \notin todo[r]
    BY <1>0, <1>5, <1>7, InIds DEF TypeOK, Item
  <2>2. time[i.id].slot = i.slot
    BY <1>0, <1>1, <1>4, <1>7 DEF AsSent, Ended
  <2> QED BY <1>2, <2>1, <2>2
<1> QED BY <1>1, <1>5, <1>6, <1>7 DEF AsSent, Ids, Unsaved

LEMMA SelectRowsGoes ==
    ASSUME FormsKept, NEW r \in Req, Progress(r), Save(r), SelectRows(r)
    PROVE  Progress(r)'
<1> DEFINE ty == type[r]
           rec(i, p) == [time |-> i.id, position |-> p.position, looked |-> FALSE, row |-> 0]
           wanted == UNION {{rec(i, p) : p \in {q \in i.places : q.id \notin RowsOf(ty)}} :
                                i \in {j \in sent[r] : j.id # 0}}
<1>0. TypeOK /\ Own(r) /\ AsSent(r) /\ Grown
  BY SaveWrites DEF FormsKept, FormInv, Progress
<1>1. /\ pc[r] = "rows" /\ pc'[r] = "add"
      /\ adds'[r] = wanted /\ todo'[r] = RowsOf(ty) \ Ids(Places(sent[r]))
      /\ UNCHANGED <<named, time, pos, type, sent, fresh, exist, disturbed, revived>>
  BY <1>0 DEF TypeOK, SelectRows, At, Goto, tables
<1>2. ASSUME NEW a
      PROVE  a \in wanted <=>
                 \E i \in sent[r] : \E q \in i.places :
                     i.id # 0 /\ q.id \notin RowsOf(ty) /\ a = rec(i, q)
  OBVIOUS
<1>3. \A i, q : rec(i, q).time = i.id /\ rec(i, q).position = q.position /\ rec(i, q).row = 0
  OBVIOUS
<1> HIDE DEF wanted, rec
<1>4. \A a \in wanted : \E i \in sent[r] : \E q \in i.places :
          i.id # 0 /\ a.time = i.id /\ a.position = q.position /\ a.row = 0
  BY <1>2, <1>3
<1>5. Own(r)'
  <2>1. \A a \in wanted : time[a.time].type = ty /\ a.row = 0
    BY <1>0, <1>4 DEF Own
  <2> QED BY <1>0, <1>1, <2>1, OwnStep DEF FormsKept, Own, Ended
<1>6. SUFFICES ASSUME ~ disturbed[r], ~ revived[r]
               PROVE  AsSent(r)'
  BY <1>1, <1>5 DEF Progress, AsSent
<1>7. RowsOf(ty)' = RowsOf(ty) /\ TimesOf(ty)' = TimesOf(ty)
  BY <1>1 DEF RowsOf, TimesOf
<1>8. ASSUME NEW i \in sent[r], i.id # 0, NEW q \in i.places
      PROVE  \/ \E a \in wanted : a.time = i.id /\ a.position = q.position
             \/ \E p \in RowsOf(ty) \ todo'[r] :
                   ~ pos[p].removed /\ pos[p].time = i.id /\ pos[p].position = q.position
  <2>1. CASE q.id \notin RowsOf(ty)
    <3>1. rec(i, q) \in wanted
      BY <1>2, <1>8, <2>1
    <3> QED BY <1>3, <3>1
  <2>2. CASE q.id \in RowsOf(ty)
    <3>1. q.id # 0
      BY <2>2, IdsType DEF RowsOf
    <3>2. q.id \notin todo'[r]
      BY <1>1, <1>8, InPlaces
    <3> QED BY <1>1, <1>6, <1>8, <2>2, <3>1, <3>2, SentIsThere DEF Ended
  <2> QED BY <2>1, <2>2
<1>9. ASSUME NEW p \in RowsOf(ty) \ todo'[r]
      PROVE  \E i \in sent[r] : i.id = pos[p].time /\ pos[p].position \in Wants(i)
  <2>1. PICK i \in sent[r] : \E q \in i.places : q.id = p
    BY <1>1, <1>9, InPlaces
  <2>2. PICK q \in i.places : q.id = p
    BY <2>1
  <2>3. q.id # 0
    BY <1>9, <2>2, IdsType DEF RowsOf
  <2>4. pos[p].time = i.id /\ pos[p].position = q.position
    BY <2>2, <2>3 DEF FormsKept, FormInv, Stage, Known
  <2> QED BY <2>4 DEF Wants
<1>10. \A a \in wanted : \E i \in sent[r] :
           i.id = a.time /\ a.time # 0 /\ a.position \in Wants(i)
  BY <1>4 DEF Wants
<1>11. RowsRight(r)'
  BY <1>1, <1>7, <1>8, <1>9, <1>10 DEF RowsRight, Wants
<1> QED BY <1>0, <1>1, <1>6, <1>7, <1>11 DEF AsSent, Ids, Unsaved, Ended

LEMMA LookUpPositionGoes ==
    ASSUME FormsKept, NEW r \in Req, Progress(r), Save(r), NEW a \in adds[r],
           LookUpPosition(r, a)
    PROVE  Progress(r)'
<1> DEFINE ty == type[r]
           t == IF exist[r] # 0 THEN exist[r] ELSE a.time
           hit == {p \in PosId : pos[p] # NoRow /\ pos[p].time = t
                                  /\ pos[p].position = a.position}
           b == [a EXCEPT !.looked = TRUE, !.row = IF hit = {} THEN 0 ELSE Min(hit)]
<1>0. TypeOK /\ Own(r) /\ AsSent(r) /\ Grown
  BY SaveWrites DEF FormsKept, FormInv, Progress
<1>1. /\ pc[r] \in {"add", "breaking"} /\ pc'[r] = pc[r]
      /\ adds'[r] = (adds[r] \ {a}) \cup {b}
      /\ UNCHANGED <<named, time, pos, type, sent, todo, fresh, exist, disturbed, revived>>
  BY <1>0 DEF TypeOK, LookUpPosition, tables
<1>2. a \in Added
  BY <1>0, <1>1 DEF TypeOK
<1>3. hit # {} => Min(hit) \in hit
  <2>1. hit \subseteq Nat
    BY IdsType
  <2> HIDE DEF hit
  <2> QED BY <2>1, MinIn
<1>4. b.time = a.time /\ b.position = a.position
      /\ (b.row # 0 /\ exist[r] = 0 => pos[b.row].time = b.time)
  <2> DEFINE m == Min(hit)
  <2>1. hit # {} => m \in PosId /\ pos[m].time = t
    BY <1>3
  <2>2. b = [a EXCEPT !.looked = TRUE, !.row = IF hit = {} THEN 0 ELSE m]
    OBVIOUS
  <2>3. exist[r] = 0 => t = a.time
    OBVIOUS
  <2> HIDE DEF hit, m, b, t
  <2> QED BY <1>2, <2>1, <2>2, <2>3 DEF Added
<1> HIDE DEF b
<1>5. Own(r)'
  <2>1. \A c \in adds'[r] : /\ time[c.time].type = ty
                            /\ c.row # 0 /\ exist[r] = 0 => pos[c.row].time = c.time
    BY <1>0, <1>1, <1>4 DEF Own
  <2> QED BY <1>0, <1>1, <2>1, OwnStep DEF FormsKept, Own, Ended
<1>6. SUFFICES ASSUME ~ disturbed[r], ~ revived[r], pc[r] = "add"
               PROVE  AsSent(r)'
  BY <1>1, <1>5 DEF Progress, AsSent
<1>7. RowsOf(ty)' = RowsOf(ty) /\ TimesOf(ty)' = TimesOf(ty)
  BY <1>1 DEF RowsOf, TimesOf
<1>8. RowsRight(r)
  BY <1>0, <1>6 DEF AsSent, Ended
<1>9. RowsRight(r)'
  <2>1. ASSUME NEW i \in sent[r], i.id # 0, NEW q \in i.places
        PROVE  \/ \E c \in adds'[r] : c.time = i.id /\ c.position = q.position
               \/ \E p \in RowsOf(ty) \ todo[r] :
                     ~ pos[p].removed /\ pos[p].time = i.id /\ pos[p].position = q.position
    BY <1>1, <1>4, <1>8, <2>1 DEF RowsRight
  <2>2. \A c \in adds'[r] : \E i \in sent[r] :
            i.id = c.time /\ c.time # 0 /\ c.position \in Wants(i)
    BY <1>1, <1>4, <1>8 DEF RowsRight
  <2>3. \A p \in RowsOf(ty) \ todo[r] : ~ pos[p].removed =>
            \E i \in sent[r] : i.id = pos[p].time /\ pos[p].position \in Wants(i)
    BY <1>8 DEF RowsRight
  <2> QED BY <1>1, <1>7, <2>1, <2>2, <2>3 DEF RowsRight, Wants
<1> QED BY <1>0, <1>1, <1>6, <1>7, <1>9 DEF AsSent, Ids, Unsaved, Ended

(* A batch that is broken promises nothing, nor does a save that ended or  *)
(* that found a row.                                                       *)
LEMMA OtherwiseGoes ==
    ASSUME FormsKept, NEW r \in Req, Progress(r), Save(r),
           \/ \E a \in adds[r] : RevivePosition(r, a) \/ AddFails(r, a)
           \/ Broken(r) \/ UpdateFails(r) \/ InsertFails(r) \/ Saved(r) \/ CreateFails(r)
           \/ DeleteType(r) \/ DeletePosition(r)
    PROVE  Progress(r)'
<1>0. TypeOK /\ Own(r) /\ AsSent(r) /\ Grown /\ Stage(r)
  BY SaveWrites DEF FormsKept, FormInv, Progress
<1>1. ASSUME NEW a \in adds[r], RevivePosition(r, a)
      PROVE  Progress(r)'
  <2>1. /\ pc[r] \in {"add", "breaking"} /\ pc'[r] = pc[r]
        /\ UNCHANGED <<named, time, type, sent, fresh, exist>>
        /\ adds'[r] = adds[r] \ {a} /\ revived'[r]
    BY <1>0, <1>1 DEF TypeOK, RevivePosition
  <2>2. \A b \in adds[r] : b.row # 0 => b.row \in PosId /\ pos[b.row] # NoRow
    BY <1>0, <2>1 DEF TypeOK, Stage, Added
  <2>3. \A b \in adds'[r] : /\ time[b.time].type = type[r]
                            /\ b.row # 0 /\ exist[r] = 0 => pos'[b.row].time = b.time
    BY <1>0, <2>1, <2>2 DEF Own, Grown
  <2>4. Own(r)'
    BY <1>0, <2>1, <2>3, OwnStep DEF FormsKept, Own, Ended
  <2> QED BY <2>1, <2>4 DEF Progress, AsSent
<1>2. ASSUME NEW a \in adds[r], AddFails(r, a)
      PROVE  Progress(r)'
  <2>1. /\ pc[r] \in {"add", "breaking"} /\ pc'[r] = "breaking"
        /\ UNCHANGED <<named, time, pos, type, sent, fresh, exist, revived>>
        /\ adds'[r] = adds[r] \ {a}
    BY <1>0, <1>2 DEF TypeOK, AddFails, Goto, tables
  <2>2. \A b \in adds'[r] : /\ time[b.time].type = type[r]
                            /\ b.row # 0 /\ exist[r] = 0 => pos[b.row].time = b.time
    BY <1>0, <2>1 DEF Own
  <2>3. Own(r)'
    BY <1>0, <2>1, <2>2, OwnStep DEF FormsKept, Own, Ended
  <2> QED BY <2>1, <2>3 DEF Progress, AsSent
<1>3. ASSUME \/ Broken(r) \/ UpdateFails(r) \/ InsertFails(r) \/ Saved(r) \/ CreateFails(r)
             \/ DeleteType(r) \/ DeletePosition(r)
      PROVE  Progress(r)'
  <2>1. pc'[r] \in Ended /\ UNCHANGED <<type, sent, fresh>>
    BY <1>0, <1>3 DEF TypeOK, Broken, UpdateFails, InsertFails, Saved, CreateFails,
                      DeleteType, DeletePosition, At, Goto, Ended
  <2>2. Own(r)'
    BY <1>0, <2>1, OwnStep DEF FormsKept, Own, Ended
  <2> QED BY <2>1, <2>2 DEF Progress, AsSent
<1> QED BY <1>1, <1>2, <1>3

LEMMA InsertPositionGoes ==
    ASSUME FormsKept, NEW r \in Req, Progress(r), Save(r), NEW a \in adds[r],
           InsertPosition(r, a)
    PROVE  Progress(r)'
<1> DEFINE ty == type[r]
           n == Min(FreePositions)
<1>0. TypeOK /\ Own(r) /\ AsSent(r) /\ Grown /\ Stage(r) /\ Linked
  BY SaveWrites DEF FormsKept, FormInv, Progress
<1>1. /\ pc[r] \in {"add", "breaking"} /\ pc'[r] = pc[r]
      /\ adds'[r] = adds[r] \ {a} /\ disturbed'[r] = disturbed[r]
      /\ UNCHANGED <<named, time, type, sent, todo, fresh, exist, revived>>
      /\ n \in PosId /\ pos[n] = NoRow
      /\ pos' = [pos EXCEPT ![n] =
                   [time |-> a.time, position |-> a.position, removed |-> FALSE]]
  BY <1>0, FreeIn DEF TypeOK, InsertPosition, NewPosition, Disturbs
<1> HIDE DEF n
<1>2. /\ pos'[n] = [time |-> a.time, position |-> a.position, removed |-> FALSE]
      /\ \A p \in PosId : p # n => pos'[p] = pos[p]
  BY <1>0, <1>1 DEF TypeOK
<1>3. pos'[n] # NoRow /\ time[a.time].type = ty
  <2>1. a \in Added
    BY <1>0, <1>1 DEF TypeOK
  <2>2. pos'[n] \in Pos
    BY <1>2, <2>1 DEF Added, Pos
  <2> QED BY <1>0, <1>1, <2>2, RowIsRow DEF Own
<1>4. Own(r)'
  <2>1. \A b \in adds[r] : b.row # 0 => b.row \in PosId /\ pos[b.row] # NoRow
    BY <1>0, <1>1 DEF TypeOK, Stage, Added
  <2>2. \A b \in adds'[r] : /\ time[b.time].type = type[r]
                            /\ b.row # 0 /\ exist[r] = 0 => pos'[b.row].time = b.time
    BY <1>0, <1>1, <2>1 DEF Own, Grown
  <2> QED BY <1>0, <1>1, <2>2, OwnStep DEF FormsKept, Own, Ended
<1>5. SUFFICES ASSUME ~ disturbed[r], ~ revived[r], pc[r] = "add"
               PROVE  AsSent(r)'
  BY <1>1, <1>4 DEF Progress, AsSent
<1>6. RowsRight(r) /\ todo[r] \subseteq RowsOf(ty)
  BY <1>0, <1>5 DEF AsSent, Ended, Stage
<1>7. TimesOf(ty)' = TimesOf(ty)
  BY <1>1 DEF TimesOf
<1>8. /\ RowsOf(ty)' = RowsOf(ty) \cup {n} /\ n \notin todo[r]
      /\ \A p \in RowsOf(ty) : p # n /\ pos'[p] = pos[p]
  BY <1>1, <1>2, <1>3, <1>6 DEF RowsOf
<1>9. RowsRight(r)'
  <2>1. ASSUME NEW i \in sent[r], i.id # 0, NEW q \in i.places
        PROVE  \/ \E b \in adds'[r] : b.time = i.id /\ b.position = q.position
               \/ \E p \in RowsOf(ty)' \ todo[r] :
                     ~ pos'[p].removed /\ pos'[p].time = i.id /\ pos'[p].position = q.position
    <3>1. CASE \E b \in adds[r] : b.time = i.id /\ b.position = q.position
      BY <1>1, <1>2, <1>8, <3>1
    <3>2. CASE \E p \in RowsOf(ty) \ todo[r] :
                  ~ pos[p].removed /\ pos[p].time = i.id /\ pos[p].position = q.position
      BY <1>8, <3>2
    <3> QED BY <1>6, <2>1, <3>1, <3>2 DEF RowsRight
  <2>2. \A b \in adds[r] : \E i \in sent[r] :
            i.id = b.time /\ b.time # 0 /\ b.position \in Wants(i)
    BY <1>6 DEF RowsRight
  <2>3. ASSUME NEW p \in RowsOf(ty)' \ todo[r], ~ pos'[p].removed
        PROVE  \E i \in sent[r] : i.id = pos'[p].time /\ pos'[p].position \in Wants(i)
    <3>1. CASE p = n
      BY <1>2, <2>2, <3>1
    <3>2. CASE p # n
      BY <1>6, <1>8, <2>3, <3>2 DEF RowsRight
    <3> QED BY <3>1, <3>2
  <2> QED BY <1>1, <2>1, <2>2, <2>3 DEF RowsRight, Wants
<1> QED BY <1>0, <1>1, <1>5, <1>7, <1>9 DEF AsSent, Ids, Unsaved, Ended

LEMMA AllAddedGoes ==
    ASSUME FormsKept, NEW r \in Req, Progress(r), Save(r), AllAdded(r)
    PROVE  Progress(r)'
<1>0. TypeOK /\ Own(r) /\ AsSent(r) /\ Grown
  BY SaveWrites DEF FormsKept, FormInv, Progress
<1>1. /\ pc[r] = "add" /\ pc'[r] = "take" /\ adds[r] = {}
      /\ UNCHANGED <<named, time, pos, type, sent, todo, adds, fresh, exist, disturbed,
                     revived>>
  BY <1>0 DEF TypeOK, AllAdded, At, Goto, tables
<1>2. Own(r)'
  BY <1>0, <1>1, OwnStep DEF FormsKept, Own, Ended
<1>3. /\ RowsOf(type[r])' = RowsOf(type[r]) /\ TimesOf(type[r])' = TimesOf(type[r])
  BY <1>1 DEF RowsOf, TimesOf
<1>4. AsSent(r)'
  BY <1>0, <1>1, <1>3 DEF AsSent, RowsRight, Wants, Ids, Unsaved, Ended
<1> QED BY <1>2, <1>4 DEF Progress

LEMMA TakePositionsGoes ==
    ASSUME FormsKept, NEW r \in Req, Progress(r), Save(r), TakePositions(r)
    PROVE  Progress(r)'
<1> DEFINE ty == type[r]
<1>0. TypeOK /\ Own(r) /\ AsSent(r) /\ Grown /\ Linked
  BY SaveWrites DEF FormsKept, FormInv, Progress
<1>1. /\ pc[r] = "take" /\ pc'[r] = "insert" /\ disturbed'[r] = disturbed[r]
      /\ UNCHANGED <<named, time, type, sent, adds, fresh, exist, revived>>
  BY <1>0 DEF TypeOK, TakePositions, At, Goto, Disturbs
<1>2. \A p \in PosId : pos'[p] = IF p \in todo[r] THEN [pos[p] EXCEPT !.removed = TRUE]
                                 ELSE pos[p]
  BY DEF TakePositions
<1>3. Own(r)'
  BY <1>0, <1>1, OwnStep DEF FormsKept, Own, Ended
<1>4. SUFFICES ASSUME ~ disturbed[r], ~ revived[r]
               PROVE  AsSent(r)'
  BY <1>1, <1>3 DEF Progress, AsSent
<1>5. /\ RowsRight(r) /\ adds[r] = {} /\ fresh[r] = Unsaved(sent[r])
      /\ TimesOf(ty) \subseteq Ids(sent[r])
      /\ \A i \in sent[r] : i.id # 0 => time[i.id].slot = i.slot
  BY <1>0, <1>1, <1>4 DEF AsSent, Ended
<1>6. todo[r] \subseteq RowsOf(ty)
  BY <1>1 DEF FormsKept, FormInv, Stage
<1>7. \A i \in sent[r] : i.id # 0 => i.id \in TimesOf(ty)
  BY <1>1, <1>4, SentIsThere DEF Ended
<1>8. \A p \in PosId : pos'[p] # NoRow /\ ~ pos'[p].removed =>
          p \notin todo[r] /\ pos'[p] = pos[p]
  <2> SUFFICES ASSUME NEW p \in PosId, p \in todo[r]
               PROVE  pos'[p].removed
    BY <1>2
  <2>1. pos[p] \in Pos
    BY <1>0, <1>6, RowType DEF RowsOf
  <2>2. pos'[p] = [pos[p] EXCEPT !.removed = TRUE]
    BY <1>2
  <2> QED BY <2>1, <2>2 DEF Pos
<1>9. TimesOf(ty)' = TimesOf(ty)
  BY <1>1 DEF TimesOf
<1>10. ASSUME NEW p \in PosId, pos'[p] # NoRow, ~ pos'[p].removed, time[pos'[p].time].type = ty
       PROVE  \E j \in sent[r] : j.id = pos[p].time /\ pos[p].position \in Wants(j)
  <2>1. p \in RowsOf(ty) \ todo[r] /\ ~ pos[p].removed
    BY <1>8, <1>10 DEF RowsOf
  <2> QED BY <1>5, <2>1 DEF RowsRight
<1>11. ASSUME NEW i \in sent[r], i.id # 0
       PROVE  Alike(i, i.id)'
  <2>1. ASSUME NEW x \in Wants(i)
        PROVE  x \in Has(i.id)'
    <3>1. PICK q \in i.places : q.position = x
      BY DEF Wants
    <3>2. PICK p \in RowsOf(ty) \ todo[r] :
              ~ pos[p].removed /\ pos[p].time = i.id /\ pos[p].position = q.position
      BY <1>5, <1>11 DEF RowsRight
    <3>3. p \in PosId /\ pos'[p] = pos[p] /\ pos[p] # NoRow
      BY <1>2, <3>2 DEF RowsOf
    <3>4. \E u \in PosId : /\ pos'[u] # NoRow /\ pos'[u].time = i.id
                           /\ ~ pos'[u].removed /\ pos'[u].position = x
      BY <3>1, <3>2, <3>3
    <3> QED BY <3>4, HasMember
  <2>2. ASSUME NEW x \in Has(i.id)'
        PROVE  x \in Wants(i)
    <3>1. PICK p \in PosId : /\ pos'[p] # NoRow /\ pos'[p].time = i.id
                             /\ ~ pos'[p].removed /\ pos'[p].position = x
      BY HasMember
    <3>2. time[i.id].type = ty /\ pos'[p] = pos[p]
      BY <1>0, <1>8, <1>11, <3>1 DEF Own
    <3>3. PICK j \in sent[r] : j.id = pos[p].time /\ pos[p].position \in Wants(j)
      BY <1>10, <3>1, <3>2
    <3>4. j = i
      BY <1>0, <1>11, <3>1, <3>2, <3>3 DEF Own
    <3> QED BY <3>1, <3>2, <3>3, <3>4
  <2>3. Has(i.id)' = Wants(i) /\ Wants(i)' = Wants(i)
    BY <2>1, <2>2 DEF Wants
  <2> QED BY <1>1, <1>5, <1>11, <2>3 DEF Alike
<1>12. AllAlike(sent[r] \ fresh[r], TimesOf(ty))'
  <2>1. \A i \in sent[r] \ fresh[r] : i.id # 0
    BY <1>5 DEF Unsaved
  <2>2. \A t \in TimesOf(ty) : t # 0
    BY IdsType DEF TimesOf
  <2>3. \A t \in TimesOf(ty) : \E i \in sent[r] \ fresh[r] : i.id = t
    BY <1>5, <2>2, InIds DEF Unsaved
  <2> QED BY <1>1, <1>7, <1>9, <1>11, <2>1, <2>2, <2>3 DEF AllAlike
<1>13. Standing(ty)'
  <2> SUFFICES ASSUME NEW p \in RowsOf(ty)', ~ pos'[p].removed
               PROVE  pos'[p].time \in TimesOf(ty)'
    BY <1>1 DEF Standing
  <2>1. p \in PosId /\ pos'[p] # NoRow /\ time[pos'[p].time].type = ty
    BY <1>1 DEF RowsOf
  <2>2. PICK j \in sent[r] : j.id = pos[p].time
    BY <1>10, <2>1
  <2>3. pos'[p] = pos[p] /\ pos[p].time \in TimeId
    BY <1>0, <1>8, <2>1, RowType
  <2>4. j.id # 0
    BY <2>2, <2>3, IdsType
  <2> QED BY <1>7, <1>9, <2>2, <2>3, <2>4
<1> QED BY <1>1, <1>12, <1>13 DEF AsSent

LEMMA InsertTimeGoes ==
    ASSUME FormsKept, NEW r \in Req, Progress(r), Save(r), NEW i \in fresh[r],
           InsertTime(r, i)
    PROVE  Progress(r)'
<1> DEFINE ty == type[r]
           rec(n, p) == [time |-> n, position |-> p.position, looked |-> TRUE, row |-> 0]
<1>0. TypeOK /\ Own(r) /\ AsSent(r) /\ Grown /\ Linked /\ Stage(r)
  BY SaveWrites DEF FormsKept, FormInv, Progress
<1>1. PICK n \in TimeId :
      /\ pc[r] = "insert" /\ pc'[r] = "fill" /\ disturbed'[r] = disturbed[r]
      /\ UNCHANGED <<named, pos, type, sent, exist, revived>>
      /\ fresh'[r] = fresh[r] \ {i}
      /\ adds'[r] = {rec(n, p) : p \in i.places}
      /\ time[n] = NoRow
      /\ time' = [time EXCEPT ![n] = [type |-> ty, slot |-> i.slot, removed |-> FALSE]]
  <2>1. Min(FreeTimes) \in TimeId /\ time[Min(FreeTimes)] = NoRow
    BY FreeIn DEF InsertTime
  <2> QED BY <1>0, <2>1 DEF TypeOK, InsertTime, At, Goto, Disturbs
<1>2. \A p : rec(n, p).time = n /\ rec(n, p).position = p.position /\ rec(n, p).row = 0
  OBVIOUS
<1> HIDE DEF rec
<1>3. /\ time'[n] = [type |-> ty, slot |-> i.slot, removed |-> FALSE]
      /\ \A t \in TimeId : t # n => time'[t] = time[t]
  BY <1>0, <1>1 DEF TypeOK
<1>4. time'[n] # NoRow
  <2>1. type[r] \in Type /\ i.slot \in Slot
    BY <1>0, <1>1 DEF Stage, TypeOK, Item, Ended
  <2>2. time'[n] \in Time
    BY <1>3, <2>1 DEF Time
  <2> QED BY <2>2, RowIsRow
<1>5. \A a \in adds'[r] : a.time = n /\ a.row = 0 /\ \E p \in i.places : a.position = p.position
  BY <1>1, <1>2
<1>6. Own(r)'
  <2>1. \A a \in adds'[r] : /\ time'[a.time].type = ty
                            /\ a.row # 0 /\ exist'[r] = 0 => pos'[a.row].time = a.time
    BY <1>3, <1>5
  <2> QED BY <1>0, <1>1, <2>1, OwnStep DEF FormsKept, Own, Ended
<1>7. SUFFICES ASSUME ~ disturbed[r], ~ revived[r]
               PROVE  AsSent(r)'
  BY <1>1, <1>6 DEF Progress, AsSent
<1>8. AllAlike(sent[r] \ fresh[r], TimesOf(ty)) /\ Standing(ty) /\ i \in sent[r]
  BY <1>0, <1>1, <1>7 DEF AsSent, Ended, Own
<1>9. TimesOf(ty)' = TimesOf(ty) \cup {n} /\ n \notin TimesOf(ty)
  BY <1>1, <1>3, <1>4 DEF TimesOf
<1>10. \A p \in PosId : pos[p] # NoRow => pos[p].time # n /\ pos[p].time \in TimeId
  BY <1>0, <1>1, RowType DEF Linked
<1>11. Has(n)' = {}
  <2>1. ASSUME NEW x \in Has(n)'
        PROVE  FALSE
    <3>1. PICK p \in PosId : pos'[p] # NoRow /\ pos'[p].time = n
      BY <2>1, HasMember
    <3> QED BY <1>1, <1>10, <3>1
  <2> QED BY <2>1
<1>12. \A t \in TimesOf(ty), j \in sent[r] : Alike(j, t)' <=> Alike(j, t)
  <2>1. \A t \in TimesOf(ty) : time'[t] = time[t]
    BY <1>3, <1>9 DEF TimesOf
  <2>2. \A t : PlacesOf(t)' = PlacesOf(t)
    BY <1>1 DEF PlacesOf
  <2> QED BY <2>1, <2>2 DEF Alike, Has, Wants
<1>13. InHand(r)'
  <2>1. i \in sent[r] \ fresh'[r] /\ n \in TimesOf(ty)'
    BY <1>1, <1>8, <1>9
  <2>2. sent[r] \ (fresh'[r] \cup {i}) = sent[r] \ fresh[r] /\ TimesOf(ty)' \ {n} = TimesOf(ty)
    BY <1>1, <1>9
  <2>3. AllAlike(sent[r] \ (fresh[r] \cup {i}), TimesOf(ty) \ {n})'
    <3>1. /\ \A j \in sent[r] \ fresh[r] : \E t \in TimesOf(ty) : Alike(j, t)'
          /\ \A t \in TimesOf(ty) : \E j \in sent[r] \ fresh[r] : Alike(j, t)'
      BY <1>8, <1>12 DEF AllAlike
    <3> QED BY <1>1, <2>2, <3>1 DEF AllAlike
  <2>4. Wants(i) = {a.position : a \in adds'[r]}
    <3>1. \A p \in i.places : rec(n, p) \in adds'[r] /\ rec(n, p).position = p.position
      BY <1>1, <1>2
    <3> QED BY <1>5, <3>1 DEF Wants
  <2>5. Wants(i)' = Wants(i) /\ time'[n].slot = i.slot
    BY <1>3 DEF Wants
  <2> QED BY <1>1, <1>5, <1>11, <2>1, <2>3, <2>4, <2>5 DEF InHand
<1>14. Standing(ty)'
  <2>1. \A p \in RowsOf(ty)' : p \in RowsOf(ty)
    BY <1>1, <1>3, <1>10 DEF RowsOf
  <2> QED BY <1>1, <1>8, <1>9, <2>1 DEF Standing
<1> QED BY <1>1, <1>13, <1>14 DEF AsSent

LEMMA FillTimeGoes ==
    ASSUME FormsKept, NEW r \in Req, Progress(r), Save(r), NEW a \in adds[r],
           FillTime(r, a)
    PROVE  Progress(r)'
<1> DEFINE ty == type[r]
           n == Min(FreePositions)
<1>0. TypeOK /\ Own(r) /\ AsSent(r) /\ Grown /\ Linked /\ Stage(r)
  BY SaveWrites DEF FormsKept, FormInv, Progress
<1>1. /\ pc[r] = "fill" /\ pc'[r] = "fill" /\ disturbed'[r] = disturbed[r]
      /\ UNCHANGED <<named, time, type, sent, fresh, exist, revived>>
      /\ adds'[r] = adds[r] \ {a}
      /\ n \in PosId /\ pos[n] = NoRow
      /\ pos' = [pos EXCEPT ![n] =
                   [time |-> a.time, position |-> a.position, removed |-> FALSE]]
  BY <1>0, FreeIn DEF TypeOK, FillTime, NewPosition, At, Goto, Disturbs
<1> HIDE DEF n
<1>2. /\ pos'[n] = [time |-> a.time, position |-> a.position, removed |-> FALSE]
      /\ \A p \in PosId : p # n => pos'[p] = pos[p]
  BY <1>0, <1>1 DEF TypeOK
<1>3. pos'[n] # NoRow
  <2>1. a \in Added
    BY <1>0, <1>1 DEF TypeOK
  <2>2. pos'[n] \in Pos
    BY <1>2, <2>1 DEF Added, Pos
  <2> QED BY <2>2, RowIsRow
<1>4. Own(r)'
  <2>1. \A b \in adds[r] : b.row # 0 => b.row \in PosId /\ pos[b.row] # NoRow
    BY <1>0, <1>1 DEF TypeOK, Stage, Added
  <2>2. \A b \in adds'[r] : /\ time[b.time].type = type[r]
                            /\ b.row # 0 /\ exist[r] = 0 => pos'[b.row].time = b.time
    BY <1>0, <1>1, <2>1 DEF Own, Grown
  <2> QED BY <1>0, <1>1, <2>2, OwnStep DEF FormsKept, Own, Ended
<1>5. SUFFICES ASSUME ~ disturbed[r], ~ revived[r]
               PROVE  AsSent(r)'
  BY <1>1, <1>4 DEF Progress, AsSent
<1>6. PICK c \in sent[r] \ fresh[r], t \in TimesOf(ty) :
          /\ AllAlike(sent[r] \ (fresh[r] \cup {c}), TimesOf(ty) \ {t})
          /\ time[t].slot = c.slot
          /\ Wants(c) = Has(t) \cup {b.position : b \in adds[r]}
          /\ \A b \in adds[r] : b.time = t
  BY <1>0, <1>1, <1>5 DEF AsSent, InHand, Ended
<1>7. TimesOf(ty)' = TimesOf(ty)
  BY <1>1 DEF TimesOf
<1>8. \A x : x \in Has(t)' <=> x \in Has(t) \/ x = a.position
  <2> TAKE x
  <2>1. (\E p \in PosId : /\ pos'[p] # NoRow /\ pos'[p].time = t
                          /\ ~ pos'[p].removed /\ pos'[p].position = x)
        <=> \/ x = a.position
            \/ \E p \in PosId : /\ pos[p] # NoRow /\ pos[p].time = t
                                /\ ~ pos[p].removed /\ pos[p].position = x
    BY <1>1, <1>2, <1>3, <1>6
  <2> QED BY <2>1, HasMember
<1>9. ASSUME NEW u, u # t
      PROVE  Has(u)' = Has(u)
  <2>1. ASSUME NEW x
        PROVE  x \in Has(u)' <=> x \in Has(u)
    <3>1. (\E p \in PosId : /\ pos'[p] # NoRow /\ pos'[p].time = u
                            /\ ~ pos'[p].removed /\ pos'[p].position = x)
          <=> \E p \in PosId : /\ pos[p] # NoRow /\ pos[p].time = u
                               /\ ~ pos[p].removed /\ pos[p].position = x
      BY <1>1, <1>2, <1>3, <1>6, <1>9
    <3> QED BY <3>1, HasMember
  <2>2. \A x : x \in Has(u)' <=> x \in Has(u)
    BY <2>1
  <2>3. Has(u)' \subseteq Has(u) /\ Has(u) \subseteq Has(u)'
    BY <2>2
  <2> QED BY <2>3
<1>10. InHand(r)'
  <2>1. \A u \in TimesOf(ty) \ {t}, j \in sent[r] : Alike(j, u)' <=> Alike(j, u)
    BY <1>1, <1>9 DEF Alike, Wants
  <2>2. AllAlike(sent[r] \ (fresh[r] \cup {c}), TimesOf(ty) \ {t})'
    <3>1. /\ \A j \in sent[r] \ (fresh[r] \cup {c}) : \E u \in TimesOf(ty) \ {t} : Alike(j, u)'
          /\ \A u \in TimesOf(ty) \ {t} : \E j \in sent[r] \ (fresh[r] \cup {c}) : Alike(j, u)'
      BY <1>6, <2>1 DEF AllAlike
    <3> QED BY <1>1, <1>7, <3>1 DEF AllAlike
  <2>3. Wants(c) = Has(t)' \cup {b.position : b \in adds'[r]}
    <3>1. {b.position : b \in adds[r]} = {a.position} \cup {b.position : b \in adds'[r]}
      BY <1>1
    <3> QED BY <1>6, <1>8, <3>1
  <2>4. Wants(c)' = Wants(c) /\ \A b \in adds'[r] : b.time = t
    BY <1>1, <1>6 DEF Wants
  <2>5. (c \in sent[r] \ fresh[r])' /\ (t \in TimesOf(type[r]))' /\ time'[t].slot = c.slot
    <3>1. t \in TimesOf(ty)'
      BY <1>6, <1>7
    <3>2. (c \in sent[r] \ fresh[r])' /\ time'[t].slot = c.slot
      BY <1>1, <1>6
    <3> QED BY <3>1, <3>2
  <2>6. Wants(c)' = Has(t)' \cup {b.position : b \in adds'[r]}
    BY <2>3, <2>4
  <2> QED BY <2>2, <2>4, <2>5, <2>6 DEF InHand
<1>11. Standing(ty)'
  <2>1. Standing(ty)
    BY <1>0, <1>1, <1>5 DEF AsSent, Ended
  <2>2. \A p \in RowsOf(ty)' : p # n => p \in RowsOf(ty) /\ pos'[p] = pos[p]
    BY <1>1, <1>2 DEF RowsOf
  <2>3. pos'[n].time \in TimesOf(ty)
    BY <1>2, <1>6
  <2> QED BY <1>1, <1>7, <2>1, <2>2, <2>3 DEF Standing
<1> QED BY <1>1, <1>10, <1>11 DEF AsSent

LEMMA FilledGoes ==
    ASSUME FormsKept, NEW r \in Req, Progress(r), Save(r), Filled(r)
    PROVE  Progress(r)'
<1> DEFINE ty == type[r]
<1>0. TypeOK /\ Own(r) /\ AsSent(r) /\ Grown
  BY SaveWrites DEF FormsKept, FormInv, Progress
<1>1. /\ pc[r] = "fill" /\ pc'[r] = "insert" /\ adds[r] = {}
      /\ UNCHANGED <<named, time, pos, type, sent, adds, fresh, exist, disturbed, revived>>
  BY <1>0 DEF TypeOK, Filled, At, Goto, tables
<1>2. Own(r)'
  BY <1>0, <1>1, OwnStep DEF FormsKept, Own, Ended
<1>3. SUFFICES ASSUME ~ disturbed[r], ~ revived[r]
               PROVE  AsSent(r)'
  BY <1>1, <1>2 DEF Progress, AsSent
<1>4. PICK c \in sent[r] \ fresh[r], t \in TimesOf(ty) :
          /\ AllAlike(sent[r] \ (fresh[r] \cup {c}), TimesOf(ty) \ {t})
          /\ time[t].slot = c.slot
          /\ Wants(c) = Has(t) \cup {b.position : b \in adds[r]}
  BY <1>0, <1>1, <1>3 DEF AsSent, InHand, Ended
<1>5. Alike(c, t)
  BY <1>1, <1>4 DEF Alike
<1>6. AllAlike(sent[r] \ fresh[r], TimesOf(ty))
  BY <1>4, <1>5 DEF AllAlike
<1>7. AllAlike(sent[r] \ fresh[r], TimesOf(ty))'
  <2>1. TimesOf(ty)' = TimesOf(ty) /\ \A u : PlacesOf(u)' = PlacesOf(u)
    BY <1>1 DEF TimesOf, PlacesOf
  <2>2. \A i, u : Alike(i, u)' <=> Alike(i, u)
    BY <1>1, <2>1 DEF Alike, Has, Wants
  <2> QED BY <1>1, <1>6, <2>1, <2>2 DEF AllAlike
<1>8. Standing(ty)'
  <2>1. Standing(ty)
    BY <1>0, <1>1, <1>3 DEF AsSent, Ended
  <2> QED BY <1>1, <2>1 DEF Standing, RowsOf, TimesOf
<1> QED BY <1>1, <1>7, <1>8 DEF AsSent

LEMMA CreateGoes ==
    ASSUME FormsKept, Named, NEW r \in Req, Progress(r), Save(r), Create(r)
    PROVE  Progress(r)'
<1> DEFINE ty == type[r]
<1>0. TypeOK /\ Own(r) /\ AsSent(r) /\ Grown /\ Linked
  BY SaveWrites DEF FormsKept, FormInv, Progress
<1>1. /\ pc[r] = "blank" /\ pc'[r] = "insert" /\ ty \notin named /\ ty \in named'
      /\ UNCHANGED <<time, pos, type, sent, adds, exist, revived>>
      /\ fresh'[r] = sent[r] /\ disturbed'[r] = disturbed[r]
  BY <1>0 DEF TypeOK, Create, At, Goto, Disturbs
<1>2. Own(r)'
  BY <1>0, <1>1, OwnStep DEF FormsKept, Own, Ended
<1>3. TimesOf(ty)' = {} /\ RowsOf(ty)' = {}
  <2>1. \A t \in TimeId : time[t] # NoRow => time[t].type # ty
    BY <1>1 DEF Named
  <2>2. \A p \in PosId : pos[p] # NoRow => pos[p].time \in TimeId /\ time[pos[p].time] # NoRow
    BY <1>0, RowType DEF Linked
  <2> QED BY <1>1, <2>1, <2>2 DEF TimesOf, RowsOf
<1>4. AsSent(r)'
  BY <1>1, <1>3 DEF AsSent, AllAlike, Standing
<1> QED BY <1>2, <1>4 DEF Progress

-----------------------------------------------------------------------------
(* The whole of it.                                                        *)

SentInv == FormsKept /\ Named /\ \A r \in Req : Progress(r)

LEMMA SaveGoes ==
    ASSUME SentInv, NEW r \in Req, Save(r)
    PROVE  Named' /\ \A q \in Req : Progress(q)'
<1>0. /\ FormsKept /\ Named /\ Progress(r) /\ Own(r)
      /\ FormInv /\ TypeOK /\ Linked
  BY DEF SentInv, FormsKept, FormInv, Progress
<1>1. /\ Grown /\ Born(r) /\ (exist'[r] = 0 => Writes(r))
      /\ Frame(r) /\ Elsewhere(r)
  BY <1>0, SaveWrites, SaveFrame, SaveElsewhere
<1>2. Named'
  <2>1. pc[r] = "insert" => type[r] \in named
    BY <1>0 DEF Own, Ended
  <2> QED BY <1>0, <1>1, <2>1 DEF Named, Grown, Born
<1>3. Progress(r)'
  <2>1. ASSUME NEW a \in adds[r], \/ LookUpPosition(r, a) \/ RevivePosition(r, a)
                                  \/ InsertPosition(r, a) \/ AddFails(r, a) \/ FillTime(r, a)
        PROVE  Progress(r)'
    BY <1>0, <2>1, LookUpPositionGoes, InsertPositionGoes, OtherwiseGoes, FillTimeGoes
  <2>2. ASSUME \E i \in adds[r] : BringBack(r, i) \/ KeepForLater(r, i)
        PROVE  Progress(r)'
    BY <1>0, <2>2, LookUpTimesGoes
  <2>3. ASSUME NEW i \in fresh[r], InsertTime(r, i)
        PROVE  Progress(r)'
    BY <1>0, <2>3, InsertTimeGoes
  <2>4. ASSUME \/ SelectTimes(r) \/ UpdateTimes(r) \/ LookedUp(r) \/ DropTimes(r)
               \/ SelectRows(r) \/ AllAdded(r) \/ TakePositions(r) \/ Filled(r) \/ Create(r)
        PROVE  Progress(r)'
    BY <1>0, <2>4, SelectTimesGoes, UpdateTimesGoes, LookUpTimesGoes, DropTimesGoes,
       SelectRowsGoes, AllAddedGoes, TakePositionsGoes, FilledGoes, CreateGoes
  <2>5. ASSUME \/ Broken(r) \/ UpdateFails(r) \/ InsertFails(r) \/ Saved(r) \/ CreateFails(r)
               \/ DeleteType(r) \/ DeletePosition(r)
        PROVE  Progress(r)'
    BY <1>0, <2>5, OtherwiseGoes
  <2> QED BY <2>1, <2>2, <2>3, <2>4, <2>5, Zenon DEF Save
<1>4. ASSUME NEW q \in Req \ {r}
      PROVE  Progress(q)'
  <2>1. Own(q) /\ AsSent(q)
    BY DEF SentInv, Progress
  <2>2. Own(q)'
    BY <1>0, <1>1, <2>1, OwnStays DEF Elsewhere
  <2>3. pc[q] \notin Ended /\ ~ disturbed'[q] => ~ disturbed[q] /\ SameFor(type[q])
    <3> SUFFICES ASSUME pc[q] \notin Ended, ~ disturbed'[q]
                 PROVE  ~ disturbed[q] /\ SameFor(type[q])
      OBVIOUS
    <3>1. CASE UNCHANGED <<time, pos, disturbed>>
      BY <3>1, UnchangedSame
    <3>2. CASE Disturbs(r)
      <4>1. ~ disturbed[q] /\ type[q] # type[r] /\ exist'[r] = 0
        BY <3>2 DEF Disturbs
      <4> QED BY <1>0, <1>1, <4>1, OthersSame
    <3> QED BY <1>1, <3>1, <3>2 DEF Frame
  <2>4. AsSent(q)'
    BY <1>0, <1>1, <2>1, <2>3, AsSentStays DEF Elsewhere
  <2> QED BY <2>2, <2>4 DEF Progress
<1> QED BY <1>2, <1>3, <1>4

(* Steps that leave the tables and the other handlers.                     *)
LEMMA OthersGo ==
    ASSUME SentInv, NEW q \in Req, UNCHANGED <<named, time, pos>>,
           pc'[q] = pc[q], type'[q] = type[q], sent'[q] = sent[q], todo'[q] = todo[q],
           adds'[q] = adds[q], fresh'[q] = fresh[q], exist'[q] = exist[q],
           revived'[q] = revived[q], disturbed'[q] = disturbed[q]
    PROVE  Progress(q)'
<1>1. FormInv /\ Own(q) /\ AsSent(q) /\ Grown /\ SameFor(type[q])
  BY UnchangedSame DEF SentInv, FormsKept, Progress, Grown
<1>2. Own(q)'
  BY <1>1, OwnStays
<1>3. AsSent(q)'
  BY <1>1, AsSentStays
<1> QED BY <1>2, <1>3 DEF Progress

LEMMA FillGoes ==
    ASSUME SentInv, NEW r \in Req, NEW ty, NEW label, NEW list, NEW places,
           Fill(r, ty, label, list, places),
           \/ label = "form" /\ list = Shown(ty) /\ ty \in named
           \/ label = "confirm" /\ list = {} /\ ty \in named
           \/ label \in {"blank", "unlist"} /\ list = {}
    PROVE  \A q \in Req : Progress(q)'
<1>0. TypeOK
  BY DEF SentInv, FormsKept, FormInv
<1>1. /\ UNCHANGED <<named, time, pos>>
      /\ pc'[r] = label /\ type'[r] = ty /\ sent'[r] = list /\ fresh'[r] = {}
      /\ exist'[r] = 0
  BY <1>0 DEF Fill, Goto, TypeOK, tables
<1>2. ASSUME NEW q \in Req \ {r}
      PROVE  Progress(q)'
  <2>1. /\ pc'[q] = pc[q] /\ type'[q] = type[q] /\ sent'[q] = sent[q] /\ todo'[q] = todo[q]
        /\ adds'[q] = adds[q] /\ fresh'[q] = fresh[q] /\ exist'[q] = exist[q]
        /\ revived'[q] = revived[q] /\ disturbed'[q] = disturbed[q]
    BY <1>0 DEF Fill, Goto, TypeOK
  <2> QED BY <1>1, <2>1, OthersGo
<1>3. /\ \A i \in Shown(ty) : time[i.id].type = ty
      /\ \A i, j \in Shown(ty) : i.id = j.id => i = j
  BY DEF Shown, TimesOf
<1>4. Own(r)'
  BY <1>1, <1>3 DEF Own, Ended
<1>5. AsSent(r)'
  BY <1>1 DEF AsSent
<1> QED BY <1>2, <1>4, <1>5 DEF Progress

LEMMA OpenGoes ==
    ASSUME SentInv, NEW r \in Req,
           \/ \E ty \in Type : Open(r, ty) \/ OpenBlank(r, ty) \/ AskDelete(r, ty)
           \/ \E p \in Position : AskDeletePosition(r, p)
           \/ Refill(r)
    PROVE  Named' /\ \A q \in Req : Progress(q)'
<1>1. ASSUME NEW ty \in Type, Open(r, ty) \/ OpenBlank(r, ty) \/ AskDelete(r, ty)
      PROVE  (\A q \in Req : Progress(q)') /\ UNCHANGED <<named, time>>
  <2>1. CASE Open(r, ty)
    BY <2>1, FillGoes DEF Open, OpenPage, Fill, tables
  <2>2. CASE OpenBlank(r, ty)
    BY <2>2, FillGoes DEF OpenBlank, OpenPage, Fill, tables
  <2>3. CASE AskDelete(r, ty)
    BY <2>3, FillGoes DEF AskDelete, Fill, tables
  <2> QED BY <1>1, <2>1, <2>2, <2>3
<1>2. ASSUME NEW p \in Position, AskDeletePosition(r, p)
      PROVE  (\A q \in Req : Progress(q)') /\ UNCHANGED <<named, time>>
  BY <1>2, FillGoes DEF AskDeletePosition, OpenPage, Fill, tables
<1>3. ASSUME Refill(r)
      PROVE  (\A q \in Req : Progress(q)') /\ UNCHANGED <<named, time>>
  <2>1. type[r] \in named
    BY <1>3 DEF Refill, SentInv, Progress, Own, Ended
  <2> QED BY <1>3, <2>1, FillGoes DEF Refill, Fill, tables
<1>4. UNCHANGED <<named, time>> => Named'
  BY DEF SentInv, Named
<1> QED BY <1>1, <1>2, <1>3, <1>4

(* An edit leaves one item to an id, and gives none to what has none.      *)
LEMMA EditingGoes ==
    ASSUME SentInv, NEW r \in Req, Editing(r)
    PROVE  Named' /\ \A q \in Req : Progress(q)'
<1>0. TypeOK /\ Own(r) /\ \A i \in sent[r] : i \in Item
  BY DEF SentInv, FormsKept, FormInv, TypeOK, Progress
<1> DEFINE OneEach(list) == \A i, j \in list : i.id = j.id /\ i.id # 0 => i = j
           From(list) == \A j \in list : j.id # 0 => \E i \in sent[r] : i.id = j.id
<1>1. OneEach(sent[r])
  BY <1>0 DEF Own
<1>2. PICK list, places : Edit(r, list, places) /\ From(list) /\ OneEach(list)
  <2>1. ASSUME NEW s \in Slot, AddTime(r, s)
        PROVE  \E list, places : Edit(r, list, places) /\ From(list) /\ OneEach(list)
    <3> DEFINE new == [id |-> 0, slot |-> s,
                       places |-> {[position |-> p, id |-> 0] : p \in offered[r]}]
    <3>1. new.id = 0 /\ Edit(r, sent[r] \cup {new}, offered[r])
      BY <2>1 DEF AddTime
    <3> HIDE DEF new
    <3>2. From(sent[r] \cup {new}) /\ OneEach(sent[r] \cup {new})
      BY <1>1, <3>1
    <3> QED BY <3>1, <3>2
  <2>2. ASSUME NEW i \in sent[r], RemoveTime(r, i)
        PROVE  \E list, places : Edit(r, list, places) /\ From(list) /\ OneEach(list)
    <3> DEFINE rest == {j \in sent[r] : IF pc[r] = "blank" THEN j # i ELSE j.id # i.id}
    <3>1. Edit(r, rest, offered[r])
      BY <2>2 DEF RemoveTime
    <3>2. From(rest) /\ OneEach(rest)
      BY <1>1
    <3> QED BY <3>1, <3>2
  <2>3. ASSUME NEW i \in sent[r], NEW s \in Slot, MoveTime(r, i, s)
        PROVE  \E list, places : Edit(r, list, places) /\ From(list) /\ OneEach(list)
    <3> DEFINE moved == [i EXCEPT !.slot = s]
    <3>1. /\ Edit(r, (sent[r] \ {i}) \cup {moved}, offered[r])
          /\ \A j \in sent[r] : j.id = i.id => j = i
          /\ moved.id = i.id
      BY <1>0, <2>3 DEF MoveTime, Item
    <3> HIDE DEF moved
    <3>2. From((sent[r] \ {i}) \cup {moved}) /\ OneEach((sent[r] \ {i}) \cup {moved})
      BY <1>1, <3>1
    <3> QED BY <3>1, <3>2
  <2>4. ASSUME NEW p \in Position, AddPosition(r, p) \/ RemovePosition(r, p)
        PROVE  \E list, places : Edit(r, list, places) /\ From(list) /\ OneEach(list)
    <3>1. CASE AddPosition(r, p)
      <4> DEFINE more(i) == [i EXCEPT !.places = @ \cup {[position |-> p, id |-> 0]}]
                 list == {more(i) : i \in sent[r]}
      <4>1. \A i \in sent[r] : more(i).id = i.id
        BY <1>0 DEF Item
      <4>2. Edit(r, list, offered[r] \cup {p})
        BY <3>1 DEF AddPosition
      <4> HIDE DEF more
      <4>3. From(list) /\ OneEach(list)
        BY <1>1, <4>1
      <4> QED BY <4>2, <4>3
    <3>2. CASE RemovePosition(r, p)
      <4> DEFINE less(i) == [i EXCEPT !.places =
                               {q \in @ : q.position # p \/ pc[r] = "blank"}]
                 list == {less(i) : i \in sent[r]}
      <4>1. \A i \in sent[r] : less(i).id = i.id
        BY <1>0 DEF Item
      <4>2. Edit(r, list, offered[r] \ {p})
        BY <3>2 DEF RemovePosition
      <4> HIDE DEF less
      <4>3. From(list) /\ OneEach(list)
        BY <1>1, <4>1
      <4> QED BY <4>2, <4>3
    <3> QED BY <2>4, <3>1, <3>2
  <2> QED BY <2>1, <2>2, <2>3, <2>4 DEF Editing
<1>3. /\ sent' = [sent EXCEPT ![r] = list] /\ pc[r] \in {"form", "blank"}
      /\ UNCHANGED <<named, time, pos, pc, type, todo, adds, fresh, exist, disturbed, revived>>
  BY <1>2 DEF Editing, Edit, tables
<1>4. sent'[r] = list /\ \A q \in Req \ {r} : sent'[q] = sent[q]
  BY <1>0, <1>3 DEF TypeOK
<1>5. ASSUME NEW q \in Req \ {r}
      PROVE  Progress(q)'
  BY <1>3, <1>4, OthersGo
<1>6. Own(r)'
  <2>1. \A j \in list : j.id # 0 => time[j.id].type = type[r] /\ pc[r] # "blank"
    BY <1>0, <1>2 DEF Own
  <2> QED BY <1>0, <1>2, <1>3, <1>4, <2>1 DEF Own, Ended
<1>7. AsSent(r)'
  BY <1>3 DEF AsSent
<1>8. Named'
  BY <1>3 DEF SentInv, Named
<1> QED BY <1>5, <1>6, <1>7, <1>8 DEF Progress

LEMMA SentInit == Init => SentInv
<1> SUFFICES ASSUME Init PROVE SentInv
  OBVIOUS
<1>1. FormsKept
  BY KeptInit
<1>2. Named
  <2> SUFFICES ASSUME NEW t \in TimeId, time[t] # NoRow
               PROVE  time[t].type \in named
    BY DEF Named
  <2>1. t \in DOMAIN FirstTime /\ time[t].type = FirstTime[t].type
    BY DEF Init
  <2> QED BY <2>1 DEF Init
<1>3. ASSUME NEW r \in Req
      PROVE  Progress(r)
  <2>1. pc[r] = "idle" /\ sent[r] = {} /\ fresh[r] = {} /\ exist[r] = 0
    BY DEF Init
  <2> QED BY <2>1 DEF Progress, Own, AsSent, Ended
<1> QED BY <1>1, <1>2, <1>3 DEF SentInv

LEMMA SentNext == SentInv /\ [Next]_vars => SentInv'
<1> SUFFICES ASSUME SentInv, [Next]_vars
             PROVE  SentInv'
  OBVIOUS
<1>1. FormsKept'
  BY KeptNext DEF SentInv
<1>2. ASSUME UNCHANGED <<named, time, pos, pc, type, sent, todo, adds, fresh, exist,
                         disturbed, revived>>
      PROVE  Named' /\ \A q \in Req : Progress(q)'
  <2>1. Named'
    BY <1>2 DEF SentInv, Named
  <2> QED BY <1>2, <2>1, OthersGo
<1>3. ASSUME NEW p \in PosId, SignUp(p) \/ Leave(p)
      PROVE  Named' /\ \A q \in Req : Progress(q)'
  <2>1. UNCHANGED <<named, time, pos, pc, type, sent, todo, adds, fresh, exist,
                    disturbed, revived>>
    BY <1>3 DEF SignUp, Leave, handler, tables
  <2> QED BY <1>2, <2>1
<1>4. ASSUME UNCHANGED vars \/ \E r \in Req : Asking(r)
      PROVE  Named' /\ \A q \in Req : Progress(q)'
  <2>1. UNCHANGED <<named, time, pos, pc, type, sent, todo, adds, fresh, exist,
                    disturbed, revived>>
    BY <1>4, AskingSame DEF vars, handler, tables
  <2> QED BY <1>2, <2>1
<1>5. ASSUME Next
      PROVE  Named' /\ \A q \in Req : Progress(q)'
  BY <1>3, <1>4, <1>5, OpenGoes, EditingGoes, SaveGoes, Zenon DEF Next
<1> QED BY <1>1, <1>4, <1>5 DEF SentInv

(* What a save that nothing disturbed left is what it was sent.            *)
LEMMA LeftAsSent ==
    ASSUME SentInv, NEW r \in Req, pc[r] = "insert", fresh[r] = {},
           ~ disturbed[r], ~ revived[r]
    PROVE  /\ Plain(Shown(type[r])) = {i \in Plain(sent[r]) : i.at # {}}
           /\ Standing(type[r])
<1> DEFINE ty == type[r]
           plain(t) == [slot |-> time[t].slot, at |-> Has(t)]
           plainOf(i) == [slot |-> i.slot, at |-> Wants(i)]
<1>1. AllAlike(sent[r], TimesOf(ty)) /\ Standing(ty)
  BY DEF SentInv, Progress, AsSent, Ended
<1>2. Plain(Shown(ty)) = {plain(t) : t \in {u \in TimesOf(ty) : PlacesOf(u) # {}}}
  <2> DEFINE item(t) == [id |-> t, slot |-> time[t].slot, places |-> PlacesOf(t)]
  <2>1. \A t : [slot |-> item(t).slot, at |-> {p.position : p \in item(t).places}] = plain(t)
    BY DEF Has
  <2> HIDE DEF item, plain
  <2> QED BY <2>1 DEF Plain, Shown, item
<1>3. Plain(sent[r]) = {plainOf(i) : i \in sent[r]}
  BY DEF Plain, Wants
<1>4. \A t : PlacesOf(t) # {} <=> Has(t) # {}
  BY DEF Has
<1>5. \A i, t : Alike(i, t) => plain(t) = plainOf(i)
  BY DEF Alike
<1>6. \A t : plain(t).at = Has(t)
  OBVIOUS
<1> HIDE DEF plain, plainOf
<1> QED BY <1>1, <1>2, <1>3, <1>4, <1>5, <1>6 DEF AllAlike

(* A save that ended without an error, that no other of its type got in    *)
(* the way of and that found no row for what it adds, leaves the type as   *)
(* it was sent: what PATCH and POST of shifts/types are for, with any      *)
(* other types' saves and deletions, sign-ups and failures in between.     *)
THEOREM SavedRight == Spec => SavedAsSent
<1> DEFINE Done ==
        \A r \in Req :
           (pc[r] # "done" /\ pc'[r] = "done" /\ ~ disturbed[r] /\ ~ revived[r])
               => LET ty == type[r]
                  IN  /\ Plain(Shown(ty)) = {i \in Plain(sent[r]) : i.at # {}}
                      /\ \A p \in RowsOf(ty) :
                            ~ pos[p].removed => pos[p].time \in TimesOf(ty)
<1>1. ASSUME SentInv, Next, NEW r \in Req, pc[r] # "done", pc'[r] = "done"
      PROVE  pc[r] = "insert" /\ fresh[r] = {}
  <2>0. TypeOK /\ FormInv
    BY <1>1 DEF SentInv, FormsKept, FormInv
  <2>1. PICK q \in Req : Save(q)
    <3>1. ASSUME NEW q \in Req, NEW ty, NEW label, NEW list, NEW places,
                 Fill(q, ty, label, list, places), label # "done"
          PROVE  FALSE
      BY <1>1, <2>0, <3>1 DEF Fill, Goto, TypeOK
    <3>2. ASSUME NEW q \in Req, Asking(q) \/ Editing(q)
          PROVE  FALSE
      <4>1. UNCHANGED pc
        BY <3>2, AskingSame DEF Editing, AddTime, RemoveTime, MoveTime, AddPosition, RemovePosition, Edit
      <4> QED BY <1>1, <4>1
    <3>3. ASSUME NEW p \in PosId, SignUp(p) \/ Leave(p)
          PROVE  FALSE
      BY <1>1, <3>3 DEF SignUp, Leave, handler
    <3>4. ASSUME NEW q \in Req, NEW ty, Open(q, ty) \/ OpenBlank(q, ty) \/ AskDelete(q, ty)
          PROVE  FALSE
      BY <3>1, <3>4 DEF Open, OpenBlank, AskDelete, OpenPage
    <3>5. ASSUME NEW q \in Req, Refill(q) \/ \E p \in Position : AskDeletePosition(q, p)
          PROVE  FALSE
      BY <3>1, <3>5 DEF Refill, AskDeletePosition, OpenPage
    <3> QED BY <1>1, <3>2, <3>3, <3>4, <3>5, Zenon DEF Next
  <2>2. q = r
    BY <1>1, <2>0, <2>1, SaveFrame DEF Frame
  <2>3. pc \in [Req -> Pc] /\ Save(r)
    BY <2>0, <2>1, <2>2 DEF TypeOK
  <2>4. Saved(r)
    <3>1. ~ \E i \in adds[r] : BringBack(r, i) \/ KeepForLater(r, i)
      BY <1>1, <2>3 DEF BringBack, KeepForLater
    <3>2. ~ \E a \in adds[r] : \/ LookUpPosition(r, a) \/ RevivePosition(r, a)
                               \/ InsertPosition(r, a) \/ AddFails(r, a)
      BY <1>1, <2>3 DEF LookUpPosition, RevivePosition, InsertPosition, AddFails, Goto
    <3>3. /\ ~ \E i \in fresh[r] : InsertTime(r, i)
          /\ ~ \E a \in adds[r] : FillTime(r, a)
      BY <1>1, <2>3 DEF InsertTime, FillTime, Goto
    <3>4. ~ (\/ SelectTimes(r) \/ UpdateTimes(r) \/ UpdateFails(r) \/ LookedUp(r)
             \/ DropTimes(r) \/ SelectRows(r) \/ Broken(r) \/ AllAdded(r) \/ TakePositions(r)
             \/ Filled(r) \/ InsertFails(r))
      BY <1>1, <2>3 DEF SelectTimes, UpdateTimes, UpdateFails, LookedUp, DropTimes,
         SelectRows, Broken, AllAdded, TakePositions, Filled, InsertFails, Goto
    <3>5. ~ (Create(r) \/ CreateFails(r) \/ DeleteType(r) \/ DeletePosition(r))
      BY <1>1, <2>3 DEF Create, CreateFails, DeleteType, DeletePosition, Goto
    <3> QED BY <2>3, <3>1, <3>2, <3>3, <3>4, <3>5, Zenon DEF Save
  <2> QED BY <2>4 DEF Saved, At
<1>2. SentInv /\ [Next]_vars => [Done]_vars
  BY <1>1, LeftAsSent DEF Standing
<1> QED BY <1>2, SentInit, SentNext, PTL DEF Spec, SavedAsSent
=============================================================================

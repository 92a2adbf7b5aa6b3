------------------------------ MODULE SapPages ------------------------------
(***************************************************************************)
(* The two pages that tell of passes, while the handlers of SapPool are at *)
(* work: the operators' list of people and the volunteer's information     *)
(* page.  Each is one look at the tables; the rules are those of SapRules. *)
(***************************************************************************)
EXTENDS SapPool, SapRules

CONSTANTS
    Applicant,      \* what a volunteer may have done, as SapRules has it
    WorkDays,       \* the days the rules about days are checked on
    DateLists,      \* what op_dates may hold
    EventDate,      \* of a ticket: the date of the row of op_dates its pass
                    \* points to, 0 if it points to none
    Former          \* of a volunteer: the date of a pass of an earlier year
                    \* that names her and points to such a row, 0 if none

ASSUME RulesAssumption ==
    /\ Applicant \subseteq [staff : BOOLEAN, external : BOOLEAN, signed : BOOLEAN,
                            trained : BOOLEAN, total : Nat, worked : SUBSET DayName,
                            arrival : DayName \cup {Never}]
    /\ WorkDays \subseteq DayName
    /\ EventDate \in [Ticket -> Nat] /\ Former \in [Person -> Nat]

(* The row the information page finds: the last one uploaded that names    *)
(* her and points to a date, whatever its status and its year, with the    *)
(* date of that row of op_dates.                                           *)
Dated(k) == {p \in Pass : sbId[p] = k /\ EventDate[ticket[p]] # 0}

InfoPass(k) ==
    IF Dated(k) = {} THEN {Former[k]} \ {0}
    ELSE {EventDate[ticket[p]] : p \in {q \in Dated(k) : \A o \in Dated(k) : o =< q}}

(* The one the list of people finds: of this year, and not burned.         *)
ListedPass(k) == {DateOf(p) : p \in {q \in Pass : sbId[q] = k /\ Active(q)}}

(* One row to her name at most, not burned, with the date it was uploaded  *)
(* with; and none of an earlier year unless there is such a row.           *)
Plain(k) ==
    /\ Cardinality({p \in Pass : sbId[p] = k}) =< 1
    /\ \A p \in Pass : sbId[p] = k =>
          status[p] # "burned" /\ EventDate[ticket[p]] = DateOf(p)
    /\ Former[k] # 0 => \E p \in Pass : sbId[p] = k

(* Whoever x is, whatever is in the drawer and whichever pass she has.     *)
SameStory(x, pool, pass, chosen) ==
    LET people == PeoplePage(x, pool, pass, chosen)
        info   == InfoPage(x, pass)
    IN  /\ (info.bypass = "sap_issued") = (people.pass # NoDate)
        /\ people.pass # NoDate => info.earned = people.pass
        /\ people.pass = NoDate /\ FirstShift(x) # NoDate
           /\ people.standing \in {"missing", "complete"} =>
               /\ (info.earned # NoDate) = (people.standing = "complete")
               /\ info.earned # NoDate => people.auto =< info.earned
        /\ people.auto # NoDate /\ ~ x.staff => ~ AutoRefused(x)

RulesSound ==
    /\ DaysCovered(WorkDays) /\ MoreIsNoLess(WorkDays) /\ YearOfMost(DateLists)
    /\ \A x \in Applicant, pool \in SUBSET Days, pass \in Days \cup {NoDate},
          chosen \in BOOLEAN : SameStory(x, pool, pass, chosen)

(* info/index.ts:303, sapStatus.ts:3: what a volunteer is told is what the *)
(* operators see.  Her pass is the same on both pages, if she never had    *)
(* one replaced, its date is one of op_dates, and last year's is not the   *)
(* only one.  Without one on either page, and on track for one, she is     *)
(* told of a date exactly if they see her as complete; the date is not     *)
(* before the pass that Auto picks, and Auto is not refused where a date   *)
(* is shown for her.                                                       *)
(* The requirements both rest on are as many days of work as they name.    *)
PagesAgree ==
    /\ RulesSound
    /\ \A k \in Person : Plain(k) => ListedPass(k) = InfoPass(k)
=============================================================================

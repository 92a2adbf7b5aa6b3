------------------------------ MODULE SapRules ------------------------------
(***************************************************************************)
(* Who earns a Setup Access Pass and for which day: the pure functions of  *)
(* lib/sapStatus.ts and lib/sap.ts, and what two pages make of them, the   *)
(* operators' list (api/saps/people) and the volunteer's own information   *)
(* (api/volunteers/[shiftboardId]/info).                                   *)
(*                                                                         *)
(* Days are named as in op_dates and numbered in their order.  A person is *)
(* a record: staff, external (a pass from another group), signed (the      *)
(* Behavioral Standards), trained (nothing missing), total (CSP of all her *)
(* shifts, those at removed times too), worked (days with a CSP or more,   *)
(* without those), arrival (a day, or Never).                              *)
(***************************************************************************)
EXTENDS Integers, FiniteSets, FiniteSetsExt, Sequences, SequencesExt

EventDays == <<"EarlyThur", "EarlyFri", "EarlyMan", "PreSun", "PreMon", "PreTue",
               "PreWed", "PreThur", "PreFri", "PreSat", "OpenSun", "Mon", "Tue", "Wed">>
DayName == ToSet(EventDays)
Never   == "none"
NoDate  == -1

DateNo(name) == CHOOSE i \in DOMAIN EventDays : EventDays[i] = name

-----------------------------------------------------------------------------
(* lib/sapStatus.ts                                                        *)

PRE_OPEN_DATENAMES == DayName \ {"OpenSun", "Mon", "Tue", "Wed"}
SUBSTITUTE_DAYS == {"Mon", "Tue"}
REQUIRED_CSP == 12

(* For each arrival the days to work on; of a larger set, one is enough.   *)
WholeWeek == {{"PreMon"}, {"PreTue"}, {"PreWed"}, {"PreThur"},
              {"PreFri", "PreSat", "OpenSun"}}
DAY_REQS ==
    [day \in {"EarlyThur", "EarlyFri", "EarlyMan", "PreSun", "PreMon", "PreTue", "PreWed",
              "PreThur", "PreFri", "PreSat"} |->
        CASE day = "PreMon"  -> WholeWeek \ {{"PreMon"}}
          [] day = "PreTue"  -> WholeWeek \ {{"PreMon"}, {"PreTue"}}
          [] day = "PreWed"  -> {{"PreThur"}, {"PreFri"}, {"PreSat", "OpenSun"}}
          [] day = "PreThur" -> {{"PreFri"}, {"PreSat", "OpenSun"}}
          [] day = "PreFri"  -> {{"PreSat", "OpenSun"}}
          [] day = "PreSat"  -> {{"OpenSun"}}
          [] OTHER -> WholeWeek]

RequiredDays(arrival) == IF arrival \in DOMAIN DAY_REQS THEN DAY_REQS[arrival] ELSE {}

(* Mutant: Monday or Tuesday makes up for any number of days.              *)
UnmetIfLate(arrival, worked) ==
    LET left == {days \in RequiredDays(arrival) : days \cap worked = {}}
    IN  IF worked \cap SUBSTITUTE_DAYS # {} THEN {} ELSE left

(* buildRequiredDays: a Monday or Tuesday makes up for the last one.       *)
Unmet(arrival, worked) ==
    LET left == {days \in RequiredDays(arrival) : days \cap worked = {}}
    IN  IF Cardinality(left) = 1 /\ worked \cap SUBSTITUTE_DAYS # {} THEN {} ELSE left

(* The first shift with CSP.                                               *)
FirstShift(x) == IF x.worked = {} THEN NoDate ELSE Min({DateNo(d) : d \in x.worked})

IsPreOpenShift(x) == FirstShift(x) # NoDate /\ FirstShift(x) =< DateNo("OpenSun")

(* evaluateSapEligibility                                                  *)
RequirementsMet(x) ==
    x.signed /\ x.trained /\ x.total >= REQUIRED_CSP /\ Unmet(x.arrival, x.worked) = {}

Standing(x, override) ==
    CASE x.external -> "external"
      [] ~ x.external /\ (x.staff \/ ~ IsPreOpenShift(x)) /\ ~ override -> "not_earning"
      [] OTHER -> IF RequirementsMet(x) THEN "complete" ELSE "missing"

-----------------------------------------------------------------------------
(* lib/sap.ts                                                              *)

AutoTargetDay(x) == IF FirstShift(x) = NoDate THEN NoDate ELSE FirstShift(x) - 1

PickAutoSap(target, pool) ==
    LET fit == {d \in pool : d =< target}
    IN  IF target = NoDate \/ fit = {} THEN NoDate ELSE Max(fit)

(* The year of the event a date [y, m] belongs to.                         *)
BurnYear(date) == IF date.m >= 10 THEN date.y + 1 ELSE date.y

(* The years are counted in the order in which they first come.            *)
ModeBurnYear(dates) ==
    LET years == [i \in DOMAIN dates |-> BurnYear(dates[i])]
        count(by) == Cardinality({i \in DOMAIN years : years[i] = by})
        first == SelectSeq([i \in DOMAIN years |-> i],
                           LAMBDA i : \A j \in 1 .. i - 1 : years[j] # years[i])
    IN  FoldLeft(LAMBDA best, i :
            IF \/ best = NoDate \/ count(years[i]) > count(best)
               \/ count(years[i]) = count(best) /\ years[i] > best
            THEN years[i] ELSE best, NoDate, first)

-----------------------------------------------------------------------------
(* The pages.  pass is the date of the pass each shows for the person, or  *)
(* NoDate; chosen whether an operator has noted another date for her.      *)

NeedsNone(x) == ~ x.staff /\ (~ IsPreOpenShift(x) \/ x.external)

(* api/saps/people                                                         *)
PeoplePage(x, pool, pass, chosen) ==
    [standing |-> Standing(x, pass # NoDate \/ chosen),
     auto     |-> IF NeedsNone(x) THEN NoDate ELSE PickAutoSap(AutoTargetDay(x), pool),
     pass     |-> pass]

(* api/saps/assign refuses Auto: staff or not.                             *)
AutoRefused(x) == ~ IsPreOpenShift(x) \/ x.external

(* .../info: the date a pass has been earned for, and why the requirements *)
(* are not shown.                                                          *)
InfoPage(x, pass) ==
    [earned |-> IF pass # NoDate THEN pass
                ELSE IF RequirementsMet(x) THEN AutoTargetDay(x) ELSE NoDate,
     bypass |-> CASE pass # NoDate -> "sap_issued"
                  [] pass = NoDate /\ x.staff -> "staff"
                  [] pass = NoDate /\ ~ x.staff /\ x.external -> "other_sap"
                  [] OTHER -> IF x.arrival # Never /\ x.arrival \notin PRE_OPEN_DATENAMES
                              THEN "post_opening" ELSE "none"]

-----------------------------------------------------------------------------
(* What the rules say, without the order in which the code goes about it.  *)

(* Who has met the days of her arrival has worked on as many different     *)
(* days as it asks for, each in its time except one early in the week (by  *)
(* Hall's theorem: any k of the entries have k days between them).         *)
DaysCovered(days) ==
    \A arrival \in DayName, worked \in SUBSET days :
        Unmet(arrival, worked) = {} =>
            \E late \in SUBSET RequiredDays(arrival) :
                /\ Cardinality(late) =< IF worked \cap SUBSTITUTE_DAYS = {} THEN 0 ELSE 1
                /\ \A Q \in SUBSET (RequiredDays(arrival) \ late) :
                      Cardinality((UNION Q) \cap worked) >= Cardinality(Q)

(* Another shift takes nothing away, the arrival being the same.           *)
MoreIsNoLess(days) ==
    \A arrival \in DayName, worked \in SUBSET days, day \in days :
        Unmet(arrival, worked) = {} => Unmet(arrival, worked \cup {day}) = {}

(* The year most dates are in, the later of two.                           *)
YearOfMost(lists) ==
    \A dates \in lists :
        LET years == {BurnYear(dates[i]) : i \in DOMAIN dates}
            count(by) == Cardinality({i \in DOMAIN dates : BurnYear(dates[i]) = by})
        IN  years # {} =>
                ModeBurnYear(dates) =
                    Max({by \in years : \A y \in years : count(y) =< count(by)})
=============================================================================

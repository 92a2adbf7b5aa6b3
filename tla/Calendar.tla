------------------------------ MODULE Calendar ------------------------------
(***************************************************************************)
(* What the calendars of the volunteers show: the handlers of ShiftSignup, *)
(* whose notices carry an event (components/api/assignmentNotify.ts), the  *)
(* job that sends the notices again (admin/backfill-notify), a mail layer  *)
(* that delivers in any order (MailDelivery), and a calendar that lets an  *)
(* event of its UID be replaced by one with a SEQUENCE at least as great.  *)
(*                                                                         *)
(* The UID is made of the volunteer and the position, so there is one      *)
(* event for a pair.  Every volunteer has an address and every shift has   *)
(* its times; the date form, which mails nothing, is left out.             *)
(***************************************************************************)
EXTENDS ShiftSignup

CONSTANTS
    MaxCopies,      \* bound: mails of one kind about a pair
    MaxBackfills    \* bound: runs of the job that sends notices again

ASSUME CalendarAssumption == MaxCopies \in Nat /\ MaxBackfills \in Nat

VARIABLES
    fate, copies,   \* of each mail, as MailDelivery has them
    event,          \* what the calendar holds for a pair
    due, backfills, \* whom the job has still to notify; its runs
    \* history: shifts restored once, pairs for which nothing is promised
    restored, spoiled

Pair == Volunteer \X Shift

Kind == {"assigned", "removed", "restored"}

(* Mutant: without a default of its own for a cancellation.                *)
SequenceZero(k) == IF k = "restored" THEN 2 ELSE 0

(* Mutant: without the number of its own for a restoration.                *)
SequenceDefault(k) == IF k = "removed" THEN 1 ELSE 0

Sequence(k) == CASE k = "assigned" -> 0 [] k = "removed" -> 1 [] k = "restored" -> 2

(* METHOD and STATUS: whether the event is to be shown.                    *)
Publishes(k) == k # "removed"

Mail == Pair \X Kind \X (1 .. MaxCopies)

Delivery == INSTANCE MailDelivery

mailVars == <<fate, copies, event, due, backfills>>
calVars  == <<vars, mailVars, restored, spoiled>>

CalInit ==
    /\ Init /\ Delivery!Init
    /\ event = [p \in Pair |-> [seq |-> -1, shown |-> FALSE]]
    /\ due = {} /\ backfills = 0
    /\ restored = {} /\ spoiled = {}

-----------------------------------------------------------------------------
(* enqueueEmail.                                                           *)
Post(p, k) ==
    LET left == {n \in 1 .. MaxCopies : fate[<<p, k, n>>] = "absent"}
    IN  left # {} /\ Delivery!Submit(<<p, k, Min(left)>>)

Of(r) == <<who[r], shift[r]>>

Quiet(r) ==
    /\ \/ SignUpBegin(r) \/ CheckCanceled(r) \/ FindRow(r) \/ DuplicateRow(r)
       \/ FirstEligible(r) \/ ReadArrival(r) \/ SetArrival(r) \/ ArrivalFails(r)
       \/ RemoveBegin(r) \/ EditBegin(r) \/ ReadPrior(r) \/ ListAssigned(r)
    /\ UNCHANGED <<mailVars, restored, spoiled>>

(* The SEQUENCE of an assignment is the least there is: nothing is         *)
(* promised for a pair that has been removed before, for one written onto  *)
(* a canceled shift, or while a removal of the same pair is being told or  *)
(* an edit of the shift is under way.                                      *)
Sign(r) ==
    /\ WriteRow(r)
    /\ spoiled' = spoiled \cup
         {p \in {Of(r)} :
            \/ row[p[1]][p[2]] = "out" \/ canceled[p[2]]
            \/ \E q \in Req : shift[q] = p[2]
                   /\ \/ pc[q] = "removed" /\ who[q] = p[1]
                      \/ pc[q] \in {"list", "fan"}}
    /\ UNCHANGED <<mailVars, restored>>

NotifySignUp(r) ==
    /\ NotifyAssignment(r) /\ Post(Of(r), "assigned")
    /\ UNCHANGED <<event, due, backfills, restored, spoiled>>

(* A restoration has the greatest SEQUENCE there is: nothing is promised   *)
(* for those removed afterwards, nor when the shift is canceled again.     *)
Unsign(r) ==
    /\ RemoveRow(r)
    /\ spoiled' = spoiled \cup {p \in {Of(r)} : p[2] \in restored}
    /\ UNCHANGED <<mailVars, restored>>

NotifyUnsign(r) ==
    /\ NotifyRemoval(r)
    /\ IF row[who[r]][shift[r]] # "none" THEN Post(Of(r), "removed")
                                         ELSE UNCHANGED <<fate, copies>>
    /\ UNCHANGED <<event, due, backfills, restored, spoiled>>

(* Nor when another edit has changed the flag since this one read it.      *)
Flip(r) ==
    /\ UpdateTime(r)
    /\ restored' = restored \cup {s \in {shift[r]} : canceled[s] /\ ~ want[r]}
    /\ spoiled' = spoiled \cup
         {p \in Pair : /\ p[2] = shift[r]
                       /\ \/ seen[r] # canceled[p[2]]
                          \/ want[r] /\ p[2] \in restored}
    /\ UNCHANGED mailVars

NotifyFlipped(r) ==
    /\ NotifyFlip(r)
    /\ \E v \in list[r] \ list'[r] :
          Post(<<v, shift[r]>>, IF want[r] THEN "removed" ELSE "restored")
    /\ UNCHANGED <<event, due, backfills, restored, spoiled>>

(* Those a failure concerns are promised nothing.                          *)
Break(r) ==
    /\ \/ /\ Stop(r)
          /\ spoiled' = spoiled \cup {p \in Pair : Touches(r, p[1], p[2])}
       \/ /\ NoticeFails(r)
          /\ \E v \in list[r] \ list'[r] : spoiled' = spoiled \cup {<<v, shift[r]>>}
    /\ UNCHANGED <<mailVars, restored>>

-----------------------------------------------------------------------------
(* The job: one SELECT, then a notice for each row it found.               *)
Backfill ==
    /\ due = {} /\ backfills < MaxBackfills /\ backfills' = backfills + 1
    /\ due' = {p \in Pair : row[p[1]][p[2]] = "in" /\ ~ canceled[p[2]]}
    /\ UNCHANGED <<vars, fate, copies, event, restored, spoiled>>

NotifyAgain(p) ==
    /\ p \in due /\ due' = due \ {p}
    /\ Post(p, "assigned")
    /\ UNCHANGED <<vars, event, backfills, restored, spoiled>>

-----------------------------------------------------------------------------
(* The calendar reads the event of a mail.                                 *)
Put(m) ==
    event' = [event EXCEPT ![m[1]] =
                IF Sequence(m[2]) < @.seq THEN @
                ELSE [seq |-> Sequence(m[2]), shown |-> Publishes(m[2])]]

Receive(m) ==
    /\ Delivery!Deliver(m) /\ Put(m)
    /\ UNCHANGED <<vars, due, backfills, restored, spoiled>>

(* A copy arrives and the mail server's answer is lost: the mail comes     *)
(* again, later.                                                           *)
ReceiveUnheard(m) ==
    /\ Fault /\ Delivery!DeliverUnheard(m) /\ Put(m)
    /\ UNCHANGED <<row, canceled, dates, handler, told, asked, history,
                   due, backfills, restored, spoiled>>

(* Refused for good: the pair is promised nothing.                         *)
Lose(m) ==
    /\ Fault /\ Delivery!Refuse(m)
    /\ spoiled' = spoiled \cup {m[1]}
    /\ UNCHANGED <<row, canceled, dates, handler, told, asked, history,
                   event, due, backfills, restored>>

-----------------------------------------------------------------------------
GoesOn(r) ==
    \/ Sign(r) \/ NotifySignUp(r) \/ Unsign(r) \/ NotifyUnsign(r)
    \/ Flip(r) \/ NotifyFlipped(r)
    \/ Quiet(r) /\ pc[r] # "idle" /\ faults' = faults

CalRest == Rest /\ UNCHANGED <<mailVars, restored, spoiled>>

CalNext ==
    \/ \E r \in Req : \/ Sign(r) \/ NotifySignUp(r) \/ Unsign(r)
                      \/ NotifyUnsign(r) \/ Flip(r) \/ NotifyFlipped(r)
                      \/ Quiet(r) \/ Break(r)
    \/ Backfill \/ \E p \in Pair : NotifyAgain(p)
    \/ \E m \in Mail : Receive(m) \/ ReceiveUnheard(m) \/ Lose(m)
    \/ CalRest

CalSpec == CalInit /\ [][CalNext]_calVars

(* A handler that nothing stops goes on; the job too; every mail is        *)
(* delivered or refused.                                                   *)
CalFairSpec ==
    /\ CalSpec
    /\ \A r \in Req : WF_calVars(GoesOn(r))
    /\ \A p \in Pair : WF_calVars(NotifyAgain(p))
    /\ \A m \in Mail : WF_calVars(Receive(m) \/ Lose(m))

-----------------------------------------------------------------------------
(* The calendar shows the event of a pair exactly when she works.          *)
Right(p) == event[p].shown <=> (row[p[1]][p[2]] = "in" /\ ~ canceled[p[2]])

(* Nothing about the pair is under way, in a handler, the job or a mail.   *)
Calm(p) ==
    /\ \A r \in Req : ~ Touches(r, p[1], p[2])
    /\ p \notin due
    /\ \A m \in Mail : m[1] = p => fate[m] # "pending"

(* However the notices of a sign-up, its removal, a cancellation, a        *)
(* restoration and the job overtake each other, in the handlers that send  *)
(* them and in the mail, and whichever of them comes twice: once they have *)
(* arrived, the calendar shows the event exactly when the volunteer works, *)
(* except for the pairs spoiled above.                                     *)
CalendarAgrees == \A p \in Pair \ spoiled : Calm(p) => Right(p)

(* And they do arrive: the calendar ends up right and stays so.            *)
CalendarSettles == \A p \in Pair : <>[](p \in spoiled \/ Right(p))
=============================================================================

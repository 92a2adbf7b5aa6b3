------------------------------ MODULE SapPool ------------------------------
(***************************************************************************)
(* The pool of Setup Access Passes: the tables op_saps and op_sap_offbook  *)
(* and the request handlers that work on them side by side (pages/api/saps *)
(* and the off-book link of pages/api/auth/okta/callback.ts).              *)
(*                                                                         *)
(* One action per await of a handler.  The rows of op_saps are shown as    *)
(* COMMITTED: what a transaction of doAssign has written stays with the    *)
(* request until it commits, and the rows it has locked (FOR UPDATE) keep  *)
(* every other writer waiting.  A plain read never waits.                  *)
(*                                                                         *)
(* A pass is a row of op_saps, named by its sap_id.  burn_year is left out *)
(* because every query of these handlers fixes it to the current one.      *)
(***************************************************************************)
EXTENDS Integers, FiniteSets

CONSTANTS
    Person,         \* volunteers, by shiftboard_id
    Mail,           \* off-book people, by e-mail address
    Nobody,         \* SQL NULL in an owner column
    Account,        \* the volunteer who logs in with an off-book address
    Req,            \* request handlers that may run at the same time
    NoReq,
    Ticket,         \* the passes printed in the batch PDF
    TicketDate,     \* the date printed on each, as a day number
    MaxPass,        \* bound: rows of op_saps
    AutoDay,        \* autoTargetDay of each volunteer, 0 if Auto means None
    Ops             \* the operations in play

ASSUME SapAssumption ==
    /\ Nobody \notin Person \cup Mail
    /\ Person \cap Mail = {}
    /\ Account \in [Mail -> Person]
    /\ NoReq \notin Req
    /\ Ticket # {} /\ TicketDate \in [Ticket -> Nat \ {0}]
    /\ MaxPass \in Nat
    /\ AutoDay \in [Person -> Nat]

Key  == Person \cup Mail
Pass == 1 .. MaxPass
Days == {TicketDate[t] : t \in Ticket}

VARIABLES
    \* the columns of op_saps
    status, sbId, mail, via, superseded, ticket,
    offbook,        \* op_sap_offbook: whether a mail is listed or linked
    \* database locks: GET_LOCK names and row locks, with their owner
    lock, rowLock,
    \* each handler: where it is, the person and the date it works for, the
    \* pass in hand and the status read with it, the pass it has reserved,
    \* the pages left to insert
    pc, key, want, cur, was, new, pages,
    given           \* history: the people a pass was handed to

owners  == <<sbId, mail>>
rows    == <<status, owners, via, superseded, ticket>>
locks   == <<lock, rowLock>>
handler == <<pc, key, want, cur, was, new, pages>>
vars    == <<rows, offbook, locks, handler, given>>

Status == {"absent", "available", "assigned", "received", "burned"}

(* Where a handler waits.  "read" to "commit" are doAssign inside its      *)
(* named lock, the last two inside its transaction with rows locked.       *)
Locked == {"read", "reserve", "commit"}
InTxn  == {"reserve", "commit"}
Pc == {"idle", "lock", "issue", "serve", "flip", "enqueue", "move", "flag",
       "insert"} \cup Locked

-----------------------------------------------------------------------------
Active(p) == status[p] \in {"assigned", "received"}
DateOf(p) == TicketDate[ticket[p]]

(* The row's owner column that is not NULL (shiftboard_id or               *)
(* assigned_email), and the human behind an owner.                         *)
Holder(p) == IF mail[p] # Nobody THEN mail[p] ELSE sbId[p]
Who(k)    == IF k \in Mail THEN Account[k] ELSE k

(* WHERE shiftboard_id=? / assigned_email=?, whichever the target names.   *)
Owns(k, p) == IF k \in Mail THEN mail[p] = k ELSE sbId[p] = k

Current(k) == {p \in Pass : Owns(k, p) /\ Active(p)}
Free(d)    == {p \in Pass : status[p] = "available" /\ DateOf(p) = d}

(* Mutant: the reads of the transaction without FOR UPDATE.                *)
UnlockedAlways(r, p) == p \in Pass

(* No other transaction has the row locked.                                *)
Unlocked(r, p) == rowLock[p] \in {NoReq, r}

(* Rows of the date that another transaction has freed but not committed:  *)
(* a locking read of the date waits for them too.                          *)
Freeing(r, d) == {p \in Pass : /\ ~ Unlocked(r, p)
                               /\ status[p] = "assigned" /\ DateOf(p) = d
                               /\ cur[rowLock[p]] = p}

-----------------------------------------------------------------------------
Init ==
    /\ status = [p \in Pass |-> "absent"]
    /\ sbId = [p \in Pass |-> Nobody]
    /\ mail = [p \in Pass |-> Nobody]
    /\ via = [p \in Pass |-> "none"]
    /\ superseded = [p \in Pass |-> 0]
    /\ ticket = [p \in Pass |-> CHOOSE t \in Ticket : TRUE]
    /\ offbook = [m \in Mail |-> "none"]
    /\ lock = [k \in Key |-> NoReq]
    /\ rowLock = [p \in Pass |-> NoReq]
    /\ pc = [r \in Req |-> "idle"]
    /\ key = [r \in Req |-> Nobody]
    /\ want = [r \in Req |-> 0]
    /\ cur = [r \in Req |-> 0]
    /\ was = [r \in Req |-> "absent"]
    /\ new = [r \in Req |-> 0]
    /\ pages = [r \in Req |-> {}]
    /\ given = [p \in Pass |-> {}]

(* Mutant: the named lock is not released.                                 *)
EndKeepsLock(r) ==
    /\ rowLock' = [p \in Pass |-> IF rowLock[p] = r THEN NoReq ELSE rowLock[p]]
    /\ pc' = [pc EXCEPT ![r] = "idle"]
    /\ key' = [key EXCEPT ![r] = Nobody]
    /\ want' = [want EXCEPT ![r] = 0]
    /\ cur' = [cur EXCEPT ![r] = 0]
    /\ was' = [was EXCEPT ![r] = "absent"]
    /\ new' = [new EXCEPT ![r] = 0]
    /\ pages' = [pages EXCEPT ![r] = {}]
    /\ UNCHANGED lock

(* The handler answers: its transaction is over, the named lock and the    *)
(* connection are given back (the finally block of doAssign).              *)
End(r) ==
    /\ lock' = [k \in Key |-> IF lock[k] = r THEN NoReq ELSE lock[k]]
    /\ rowLock' = [p \in Pass |-> IF rowLock[p] = r THEN NoReq ELSE rowLock[p]]
    /\ pc' = [pc EXCEPT ![r] = "idle"]
    /\ key' = [key EXCEPT ![r] = Nobody]
    /\ want' = [want EXCEPT ![r] = 0]
    /\ cur' = [cur EXCEPT ![r] = 0]
    /\ was' = [was EXCEPT ![r] = "absent"]
    /\ new' = [new EXCEPT ![r] = 0]
    /\ pages' = [pages EXCEPT ![r] = {}]

(* An idle handler is called and gets as far as its first await that       *)
(* another request can come between.                                       *)
Begin(r, at, k, d, p) ==
    /\ pc[r] = "idle"
    /\ pc' = [pc EXCEPT ![r] = at]
    /\ key' = [key EXCEPT ![r] = k]
    /\ want' = [want EXCEPT ![r] = d]
    /\ cur' = [cur EXCEPT ![r] = p]
    /\ UNCHANGED <<rows, offbook, locks, was, new, pages, given>>

Goto(r, at) == pc' = [pc EXCEPT ![r] = at]

-----------------------------------------------------------------------------
(* POST api/saps/upload: the tickets of the batch that are not in the      *)
(* table yet are inserted one by one, each an INSERT of its own.           *)
Tickets == {ticket[p] : p \in {q \in Pass : status[q] # "absent"}}

UploadBegin(r) ==
    /\ "upload" \in Ops
    /\ pc[r] = "idle" /\ Ticket \ Tickets # {}
    /\ Goto(r, "insert")
    /\ pages' = [pages EXCEPT ![r] = Ticket \ Tickets]
    /\ UNCHANGED <<rows, offbook, locks, key, want, cur, was, new, given>>

(* The unique index on ticket_id refuses a page that a concurrent upload   *)
(* has inserted since; that ends the upload, earlier rows stay.            *)
UploadInsert(r) ==
    /\ pc[r] = "insert"
    /\ \E t \in pages[r] :
        IF t \in Tickets
        THEN End(r) /\ UNCHANGED <<rows, offbook, given>>
        ELSE \E p \in Pass :
            /\ status[p] = "absent"
            /\ \A q \in Pass : status[q] = "absent" => p =< q
            /\ status' = [status EXCEPT ![p] = "available"]
            /\ ticket' = [ticket EXCEPT ![p] = t]
            /\ IF pages[r] = {t}
               THEN End(r)
               ELSE /\ pages' = [pages EXCEPT ![r] = @ \ {t}]
                    /\ UNCHANGED <<locks, pc, key, want, cur, was, new>>
            /\ UNCHANGED <<owners, via, superseded, offbook, given>>

-----------------------------------------------------------------------------
(* POST api/saps/assign with a date, for someone the SAP page lists: every *)
(* volunteer, and the off-book people not linked yet.                      *)
AssignBegin(r) ==
    /\ "assign" \in Ops
    /\ \E k \in Key, d \in Days :
        /\ k \in Mail => offbook[k] = "listed"
        /\ Begin(r, "lock", k, d, 0)

(* The same with the date "auto": the latest date in the pool that is not  *)
(* after the day before the first shift (pickAutoSap).                     *)
AutoPick(k, d) ==
    /\ Free(d) # {} /\ d =< AutoDay[k]
    /\ \A e \in Days : Free(e) # {} /\ e =< AutoDay[k] => e =< d

AssignAuto(r) ==
    /\ "auto" \in Ops
    /\ \E k \in Person, d \in Days : AutoPick(k, d) /\ Begin(r, "lock", k, d, 0)

(* Mutant: the transaction without its named lock.                         *)
GetLockAlways(r) ==
    /\ pc[r] = "lock"
    /\ Goto(r, "read")
    /\ UNCHANGED <<rows, offbook, locks, key, want, cur, was, new, pages, given>>

(* GET_LOCK(key, 10): one assign per target at a time.                     *)
GetLock(r) ==
    /\ pc[r] = "lock" /\ lock[key[r]] = NoReq
    /\ lock' = [lock EXCEPT ![key[r]] = r]
    /\ Goto(r, "read")
    /\ UNCHANGED <<rows, offbook, rowLock, key, want, cur, was, new, pages, given>>

(* The ten seconds are over: "Busy - try again".                           *)
Busy(r) ==
    /\ pc[r] = "lock" /\ lock[key[r]] # NoReq
    /\ End(r)
    /\ UNCHANGED <<rows, offbook, given>>

(* Mutant: the active pass is read without FOR UPDATE.                     *)
ReadCurrentUnlocked(r) ==
    /\ pc[r] = "read"
    /\ \E c \in (IF Current(key[r]) = {} THEN {0} ELSE Current(key[r])) :
        IF c # 0 /\ status[c] = "assigned" /\ DateOf(c) = want[r]
        THEN End(r)
        ELSE /\ cur' = [cur EXCEPT ![r] = c]
             /\ was' = [was EXCEPT ![r] = IF c = 0 THEN "absent" ELSE status[c]]
             /\ Goto(r, "reserve")
             /\ UNCHANGED <<locks, key, want, new, pages>>
    /\ UNCHANGED <<rows, offbook, given>>

(* The transaction begins: the active passes of the target are read and    *)
(* locked.  The code looks at the first row only, and the query sets no    *)
(* order.  A pass of the wanted date that was not handed out is kept;      *)
(* another one that was not handed out is freed.                           *)
ReadCurrent(r) ==
    /\ pc[r] = "read"
    /\ \A p \in Current(key[r]) : Unlocked(r, p)
    /\ \E c \in (IF Current(key[r]) = {} THEN {0} ELSE Current(key[r])) :
        IF c # 0 /\ status[c] = "assigned" /\ DateOf(c) = want[r]
        THEN End(r)
        ELSE /\ cur' = [cur EXCEPT ![r] = c]
             /\ was' = [was EXCEPT ![r] = IF c = 0 THEN "absent" ELSE status[c]]
             /\ rowLock' = [p \in Pass |->
                    IF p \in Current(key[r]) THEN r ELSE rowLock[p]]
             /\ Goto(r, "reserve")
             /\ UNCHANGED <<lock, key, want, new, pages>>
    /\ UNCHANGED <<rows, offbook, given>>

(* SELECT ... ORDER BY sap_id LIMIT 1 FOR UPDATE, over the free passes of  *)
(* the date and the ones another transaction may yet give back.            *)
Scan(r) == Free(want[r]) \cup Freeing(r, want[r])
FirstOf(S, p) == p \in S /\ \A q \in S : p =< q

Reserve(r) ==
    /\ pc[r] = "reserve"
    /\ \E p \in Pass :
        /\ FirstOf(Scan(r), p) /\ Unlocked(r, p)
        /\ new' = [new EXCEPT ![r] = p]
        /\ rowLock' = [rowLock EXCEPT ![p] = r]
    /\ Goto(r, "commit")
    /\ UNCHANGED <<rows, offbook, lock, key, want, cur, was, pages, given>>

(* Mutant: commit instead of rollback, the old pass is gone.               *)
NothingFreeCommits(r) ==
    /\ pc[r] = "reserve" /\ Scan(r) = {}
    /\ status' = [p \in Pass |-> IF p = cur[r] THEN "available" ELSE status[p]]
    /\ sbId' = [p \in Pass |-> IF p = cur[r] THEN Nobody ELSE sbId[p]]
    /\ mail' = [p \in Pass |-> IF p = cur[r] THEN Nobody ELSE mail[p]]
    /\ End(r)
    /\ UNCHANGED <<via, superseded, ticket, offbook, given>>

(* No pass of that date: rollback, the old pass stays where it was.        *)
NothingFree(r) ==
    /\ pc[r] = "reserve" /\ Scan(r) = {}
    /\ End(r)
    /\ UNCHANGED <<rows, offbook, given>>

(* COMMIT: the reserved pass gets its owner, a freed one loses it, and one *)
(* that was handed out is burned and points at its replacement.            *)
Commit(r) ==
    LET n == new[r]
        c == cur[r]
        k == key[r]
        frees(p) == p = c /\ was[r] = "assigned"
        burns(p) == p = c /\ was[r] = "received"
        put(p, column, target) == IF p = n /\ k \in target THEN k
                                  ELSE IF frees(p) THEN Nobody ELSE column[p]
    IN  /\ pc[r] = "commit"
        /\ status' = [p \in Pass |-> CASE p = n    -> "assigned"
                                       [] frees(p) -> "available"
                                       [] burns(p) -> "burned"
                                       [] OTHER    -> status[p]]
        /\ sbId' = [p \in Pass |-> put(p, sbId, Person)]
        /\ mail' = [p \in Pass |-> put(p, mail, Mail)]
        /\ superseded' = [p \in Pass |-> IF burns(p) THEN n ELSE superseded[p]]
        /\ End(r)
        /\ UNCHANGED <<via, ticket, offbook, given>>

(* Mutant: a received pass is released too.                                *)
UnassignReceived(k) ==
    LET freed == Current(k)
    IN  /\ "unassign" \in Ops
        /\ freed # {} /\ \A p \in freed : rowLock[p] = NoReq
        /\ status' = [p \in Pass |-> IF p \in freed THEN "available" ELSE status[p]]
        /\ sbId' = [p \in Pass |-> IF p \in freed THEN Nobody ELSE sbId[p]]
        /\ mail' = [p \in Pass |-> IF p \in freed THEN Nobody ELSE mail[p]]
        /\ UNCHANGED <<via, superseded, ticket, offbook, locks, handler, given>>

(* DELETE api/saps/assign: one statement that frees every pass of the      *)
(* target that was not handed out.                                         *)
Unassign(k) ==
    LET freed == {p \in Pass : Owns(k, p) /\ status[p] = "assigned"}
    IN  /\ "unassign" \in Ops
        /\ freed # {} /\ \A p \in freed : rowLock[p] = NoReq
        /\ status' = [p \in Pass |-> IF p \in freed THEN "available" ELSE status[p]]
        /\ sbId' = [p \in Pass |-> IF p \in freed THEN Nobody ELSE sbId[p]]
        /\ mail' = [p \in Pass |-> IF p \in freed THEN Nobody ELSE mail[p]]
        /\ UNCHANGED <<via, superseded, ticket, offbook, locks, handler, given>>

-----------------------------------------------------------------------------
(* UPDATE ... SET status='received' WHERE sap_id=? AND status='assigned'.  *)
Flip(r, p, how) ==
    /\ status[p] = "assigned" /\ rowLock[p] = NoReq
    /\ status' = [status EXCEPT ![p] = "received"]
    /\ via' = [via EXCEPT ![p] = how]

HandTo(k, p) == given' = [given EXCEPT ![p] = @ \cup {Who(k)}]

(* POST api/saps/[sapId]/issue, clicked on the row of a person whose pass  *)
(* the page shows as assigned.                                             *)
IssueBegin(r) ==
    /\ "issue" \in Ops
    /\ \E p \in Pass : status[p] = "assigned" /\ Begin(r, "issue", Holder(p), 0, p)

IssueFlip(r) ==
    /\ pc[r] = "issue"
    /\ \/ /\ Flip(r, cur[r], "download")
          /\ Goto(r, "serve")
          /\ UNCHANGED <<owners, superseded, ticket, locks, key, want, cur, was, new, pages>>
       \/ /\ status[cur[r]] # "assigned"
          /\ End(r)
          /\ UNCHANGED rows
    /\ UNCHANGED <<offbook, given>>

(* The file is read and sent: the person of that row has the pass.         *)
IssueServe(r) ==
    /\ pc[r] = "serve"
    /\ HandTo(key[r], cur[r])
    /\ End(r)
    /\ UNCHANGED <<rows, offbook>>

(* POST api/saps/[sapId]/email: the recipient and the status are read with *)
(* the file, before the row is locked; a pass already received is sent     *)
(* again without touching the row.                                         *)
EmailBegin(r) ==
    /\ "email" \in Ops
    /\ \E p \in Pass :
        \/ status[p] = "assigned" /\ Begin(r, "flip", Holder(p), 0, p)
        \/ status[p] = "received" /\ Begin(r, "enqueue", Holder(p), 0, p)

EmailFlip(r) ==
    /\ pc[r] = "flip"
    /\ \/ /\ Flip(r, cur[r], "email")
          /\ Goto(r, "enqueue")
          /\ UNCHANGED <<owners, superseded, ticket, locks, key, want, cur, was, new, pages>>
       \/ /\ status[cur[r]] # "assigned"
          /\ End(r)
          /\ UNCHANGED rows
    /\ UNCHANGED <<offbook, given>>

(* enqueueEmail to the recipient read above.                               *)
EmailEnqueue(r) ==
    /\ pc[r] = "enqueue"
    /\ HandTo(key[r], cur[r])
    /\ End(r)
    /\ UNCHANGED <<rows, offbook>>

(* GET api/volunteers/[shiftboardId]/sap/[sapId], the download button of a *)
(* volunteer's own page: any row that names the volunteer is served.       *)
SelfDownload(p) ==
    /\ "self" \in Ops
    /\ sbId[p] # Nobody
    /\ HandTo(sbId[p], p)
    /\ UNCHANGED <<rows, offbook, locks, handler>>

-----------------------------------------------------------------------------
(* POST api/saps/offbook                                                   *)
AddOffbook(m) ==
    /\ offbook[m] = "none"
    /\ offbook' = [offbook EXCEPT ![m] = "listed"]
    /\ UNCHANGED <<rows, locks, handler, given>>

(* The first Okta login with an off-book address, three statements: the    *)
(* entry is not linked yet, its passes move to the volunteer, it is linked.*)
LinkBegin(r) ==
    /\ "link" \in Ops
    /\ \E m \in Mail : offbook[m] = "listed" /\ Begin(r, "move", m, 0, 0)

(* Mutant: the passes get a shiftboard_id and keep their assigned_email.   *)
LinkMoveKeepsMail(r) ==
    LET moved == {p \in Pass : mail[p] = key[r] /\ sbId[p] = Nobody}
    IN  /\ pc[r] = "move"
        /\ \A p \in moved : rowLock[p] = NoReq
        /\ sbId' = [p \in Pass |-> IF p \in moved THEN Account[key[r]] ELSE sbId[p]]
        /\ Goto(r, "flag")
        /\ UNCHANGED <<status, mail, via, superseded, ticket, offbook, locks,
                       key, want, cur, was, new, pages, given>>

LinkMove(r) ==
    LET moved == {p \in Pass : mail[p] = key[r] /\ sbId[p] = Nobody}
    IN  /\ pc[r] = "move"
        /\ \A p \in moved : rowLock[p] = NoReq
        /\ sbId' = [p \in Pass |-> IF p \in moved THEN Account[key[r]] ELSE sbId[p]]
        /\ mail' = [p \in Pass |-> IF p \in moved THEN Nobody ELSE mail[p]]
        /\ Goto(r, "flag")
        /\ UNCHANGED <<status, via, superseded, ticket, offbook, locks,
                       key, want, cur, was, new, pages, given>>

LinkFlag(r) ==
    /\ pc[r] = "flag"
    /\ offbook' = [offbook EXCEPT ![key[r]] = "linked"]
    /\ End(r)
    /\ UNCHANGED <<rows, given>>

-----------------------------------------------------------------------------
(* A statement throws, a file is missing, a lock wait times out or the     *)
(* process dies: what was committed stays, the transaction is rolled back  *)
(* and the locks are given back.                                           *)
Fail(r) ==
    /\ pc[r] # "idle"
    /\ End(r)
    /\ UNCHANGED <<rows, offbook, given>>

(* Which transaction a handler waits for.                                  *)
Waits(r, s) ==
    /\ r # s
    /\ \/ pc[r] = "read" /\ \E p \in Current(key[r]) : rowLock[p] = s
       \/ pc[r] = "reserve" /\ \E p \in Pass : FirstOf(Scan(r), p) /\ rowLock[p] = s

(* InnoDB rolls back a transaction of a cycle of waiting ones.             *)
Deadlocked(r) == \E S \in SUBSET Req :
    r \in S /\ \A s \in S : \E t \in S : Waits(s, t)

DeadlockVictim(r) == Deadlocked(r) /\ Fail(r)

Step(r) ==
    \/ UploadInsert(r)
    \/ GetLock(r) \/ Busy(r) \/ ReadCurrent(r) \/ Reserve(r) \/ NothingFree(r)
    \/ Commit(r)
    \/ IssueFlip(r) \/ IssueServe(r) \/ EmailFlip(r) \/ EmailEnqueue(r)
    \/ LinkMove(r) \/ LinkFlag(r)

Begins(r) ==
    \/ UploadBegin(r) \/ AssignBegin(r) \/ AssignAuto(r)
    \/ IssueBegin(r) \/ EmailBegin(r) \/ LinkBegin(r)

Next ==
    \/ \E r \in Req : Begins(r) \/ Step(r) \/ Fail(r) \/ DeadlockVictim(r)
    \/ \E k \in Key : Unassign(k)
    \/ \E m \in Mail : AddOffbook(m)
    \/ \E p \in Pass : SelfDownload(p)

Spec == Init /\ [][Next]_vars

(* Row locks are granted in the order they were asked for, and a cycle of  *)
(* waiting transactions is broken at once.                                 *)
FairSpec == Spec /\ \A r \in Req : SF_vars(Step(r)) /\ SF_vars(DeadlockVictim(r))

-----------------------------------------------------------------------------
RowsOK ==
    /\ status \in [Pass -> Status]
    /\ sbId \in [Pass -> Person \cup {Nobody}]
    /\ mail \in [Pass -> Mail \cup {Nobody}]
    /\ via \in [Pass -> {"none", "download", "email"}]
    /\ superseded \in [Pass -> Pass \cup {0}]
    /\ ticket \in [Pass -> Ticket]
    /\ offbook \in [Mail -> {"none", "listed", "linked"}]
    /\ given \in [Pass -> SUBSET Person]

HandlersOK ==
    /\ lock \in [Key -> Req \cup {NoReq}]
    /\ rowLock \in [Pass -> Req \cup {NoReq}]
    /\ pc \in [Req -> Pc]
    /\ key \in [Req -> Key \cup {Nobody}]
    /\ want \in [Req -> Days \cup {0}]
    /\ cur \in [Req -> Pass \cup {0}]
    /\ was \in [Req -> Status]
    /\ new \in [Req -> Pass \cup {0}]
    /\ pages \in [Req -> SUBSET Ticket]

TypeOK == RowsOK /\ HandlersOK

(* A pass in the pool belongs to nobody, any other pass to one owner, in   *)
(* one of the two owner columns: what api/saps/people builds its two lists *)
(* on.                                                                     *)
OwnedOnce == \A p \in Pass :
    IF status[p] \in {"absent", "available"}
    THEN sbId[p] = Nobody /\ mail[p] = Nobody
    ELSE (sbId[p] = Nobody) # (mail[p] = Nobody)

(* "One active SAP per person" (api/saps/assign): two passes that are      *)
(* assigned or received never have the same owner.                         *)
OneActivePass == \A p, q \in Pass :
    Active(p) /\ Active(q) /\ Holder(p) = Holder(q) => p = q

(* "Only an 'assigned' (not yet downloaded/emailed) SAP can be released"   *)
(* (api/saps/assign): a pass that is in the pool, or can still go back to  *)
(* it, has been handed to nobody.                                          *)
AssignedUnseen == \A p \in Pass :
    status[p] \in {"absent", "available", "assigned"} => given[p] = {}

(* A received pass is locked: it stays received until a pass assigned to   *)
(* the same owner in the same step replaces it, and a burned pass is never *)
(* used again and keeps naming its replacement.                            *)
IssuedForGood == [][\A p \in Pass :
    /\ status[p] = "received" /\ status'[p] # "received" =>
        /\ status'[p] = "burned"
        /\ \E q \in Pass : /\ superseded'[p] = q /\ status'[q] = "assigned"
                           /\ sbId'[q] = sbId[p] /\ mail'[q] = mail[p]
    /\ status[p] = "burned" =>
        status'[p] = "burned" /\ superseded'[p] = superseded[p]]_vars

(* An assign that reaches its transaction never takes a pass away without  *)
(* giving another ("rolled back automatically if the new reservation       *)
(* fails").                                                                *)
NeverEmptyHanded == [][\A r \in Req :
    pc[r] \in InTxn /\ pc'[r] = "idle" /\ Current(key[r]) # {} =>
        \E p \in Pass : /\ status'[p] \in {"assigned", "received"}
                        /\ IF key[r] \in Mail THEN mail'[p] = key[r]
                                              ELSE sbId'[p] = key[r]]_vars

(* A pass is only ever handed to the person it is assigned to ("First      *)
(* delivery locks (atomic; loses the race -> 409)", api/saps/email).       *)
HandedToHolder == \A p \in Pass :
    given[p] # {} => given[p] = {Who(Holder(p))}

(* The handlers, with their locks and transactions, implement the ledger.  *)
Ledger == INSTANCE PassLedger WITH
    stage <- status, holder <- [p \in Pass |-> Holder(p)], Owner <- Key
KeepsLedger == Ledger!Spec

(* Every request is answered, also when transactions wait for each other,  *)
(* and "Named locks outlive the txn and the pooled connection, so release  *)
(* it": a named lock that is taken is free again later.                    *)
EveryHandlerAnswers ==
    /\ \A r \in Req : pc[r] # "idle" ~> pc[r] = "idle"
    /\ \A k \in Key : lock[k] # NoReq ~> lock[k] = NoReq

-----------------------------------------------------------------------------
(* What the locks mean: the strengthening of the invariants above.         *)

(* A handler knows whom it works for, and one about to hand out a pass has *)
(* a pass that left the pool for good.                                     *)
TaskOK(r) ==
    /\ pc[r] \in {"lock", "issue", "serve", "flip", "enqueue"} => key[r] \in Key
    /\ pc[r] \in {"issue", "serve", "flip", "enqueue"} => cur[r] # 0
    /\ pc[r] \in {"move", "flag"} => key[r] \in Mail
    /\ pc[r] \in {"serve", "enqueue"} => status[cur[r]] \in {"received", "burned"}

(* A transaction has locked the passes it is going to write, and what it   *)
(* has read of them is still true.                                         *)
TxnOK(r) ==
    /\ pc[r] \in InTxn /\ cur[r] # 0 =>
        /\ rowLock[cur[r]] = r
        /\ Owns(key[r], cur[r]) /\ Active(cur[r]) /\ was[r] = status[cur[r]]
    /\ pc[r] \in InTxn /\ cur[r] = 0 => was[r] = "absent"
    /\ pc[r] = "commit" =>
        new[r] # 0 /\ rowLock[new[r]] = r /\ status[new[r]] = "available"

(* The named lock of a target is held by the one handler that is inside    *)
(* doAssign for it, and only transactions lock rows.                       *)
LockInv ==
    /\ \A r \in Req : pc[r] \in Locked => key[r] \in Key /\ lock[key[r]] = r
    /\ \A k \in Key, r \in Req : lock[k] = r => pc[r] \in Locked /\ key[r] = k
    /\ \A p \in Pass, r \in Req : rowLock[p] = r => pc[r] \in InTxn

SapInv == OwnedOnce /\ LockInv /\ \A r \in Req : TaskOK(r) /\ TxnOK(r)

(* Without off-book links no handler is linking, and the pass a            *)
(* transaction works on is the only active one of its target.              *)
NoLink    == \A r \in Req : pc[r] \notin {"move", "flag"}
TargetInv == \A r \in Req : pc[r] \in InTxn => Current(key[r]) \subseteq {cur[r]}
PoolInv   == NoLink /\ TargetInv /\ OneActivePass
=============================================================================

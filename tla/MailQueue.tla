----------------------------- MODULE MailQueue -----------------------------
(***************************************************************************)
(* The outgoing mail queue: the table op_email_queue, the enqueueEmail     *)
(* calls that fill it, and the worker loop of every server process that    *)
(* drains it (client/lib/mail).                                            *)
(*                                                                         *)
(* One action per await of the code: everything between two awaits of      *)
(* tickOnce or enqueueEmail is one step, and the steps of workers, calls,  *)
(* clock and SMTP link interleave freely.  A step that talks to the        *)
(* database may fail in the two ways lib/database.ts knows: the statement  *)
(* was executed and its reply lost, or it was never executed.              *)
(*                                                                         *)
(* Time is counted in ticks of one minute and kept RELATIVE to now: due[r] *)
(* is next_attempt_at - NOW and sentAge[r] is NOW - sent_at.  Both are     *)
(* normalised on every tick so that an unbounded clock has finitely many   *)
(* states (see Tick).                                                      *)
(***************************************************************************)
EXTENDS Integers, FiniteSets, Sequences

CONSTANTS
    Worker,         \* the server processes, each running one worker loop
    Call,           \* the enqueueEmail calls of a behaviour
    Rcpt,           \* mail addresses
    To,             \* the address each call writes to
    Direct,         \* the calls that pass no recipientShiftboardId
    MaxRows,        \* bound: rows ever inserted
    Backoff,        \* BACKOFF_SECONDS, in ticks
    Minute, Day,    \* the two windows of the rate limit, in ticks
    RatePerMinute, RatePerDay,
    MaxFaults,      \* bound: database statements that fail
    MaxCrashes,     \* bound: crashes of a server process
    MaxOutages,     \* bound: times the SMTP link goes down
    MaxUnheard      \* bound: times the server's answer to an accepted mail is lost

ASSUME MailAssumption ==
    /\ Call # {} /\ To \in [Call -> Rcpt]
    /\ Direct \subseteq Call
    /\ MaxRows \in Nat
    /\ Backoff \in Seq(Nat \ {0}) /\ Len(Backoff) > 0
    /\ Minute \in Nat /\ Day \in Nat /\ Minute =< Day
    /\ RatePerMinute \in Nat /\ RatePerDay \in Nat
    /\ MaxFaults \in Nat /\ MaxCrashes \in Nat /\ MaxOutages \in Nat
    /\ MaxUnheard \in Nat

(* At least one server process runs, and only finitely many do.            *)
ASSUME WorkerAssumption == Worker # {} /\ IsFiniteSet(Worker)

RowId == 1 .. MaxRows

VARIABLES
    \* the columns of op_email_queue, and AUTO_INCREMENT
    state, attempts, due, sentAge, nextId,
    rowCall,        \* history: the call that inserted the row
    \* the flags other tables hold for an address
    unsub, bounced,
    \* enqueueEmail: where each call is
    callPc,
    \* tickOnce: where each worker is, the row it holds, the attempts it
    \* read with it, and whether the statement is being executed again
    pc, held, tries, again,
    linkUp,         \* whether the SMTP server can be reached
    \* history: mails the server accepted, and how long ago; and the rows and
    \* ages of those it accepted while its answer was lost
    acked, ackAge, unheard,
    faults, crashes, outages

table == <<state, attempts, due, sentAge, nextId, rowCall>>
flags == <<unsub, bounced>>
local == <<pc, held, tries, again>>
smtp  == <<linkUp, acked, ackAge, unheard>>
vars  == <<table, flags, callPc, local, smtp, faults, crashes, outages>>

-----------------------------------------------------------------------------
(* The row states the code writes; "none" is a row not inserted yet.  The  *)
(* column's fifth value, failed, is written by no code.                    *)
RowState == {"none", "queued", "sending", "sent", "dead"}

(* Where a call stands: isUnsubscribed, INSERT, its second execution, and  *)
(* the three ways it returns.                                              *)
CallPc == {"new", "insert", "reinsert", "done", "skipped", "failed"}

(* Where a worker stands.  From "check" to "fail" it holds a claimed row.  *)
Holding  == {"check", "send", "ok", "dead", "fail"}
Marking  == {"ok", "dead", "fail"}
WorkerPc == {"idle", "day", "claim"} \cup Holding

Smaller(a, b) == IF a =< b THEN a ELSE b

(* nextAttemptDelaySeconds: the last entry of the table is the cap.        *)
Delay(n) == IF n < 1 THEN Backoff[1] ELSE Backoff[Smaller(n, Len(Backoff))]

(* attempts beyond the length of the table change no delay any more, so    *)
(* the counter saturates there.                                            *)
Bump(n) == Smaller(n + 1, Len(Backoff))

(* Mutant: a window that is one tick short.                                *)
SentWithinShort(window) ==
    Cardinality({r \in RowId : state[r] = "sent" /\ sentAge[r] < window - 1})

(* recentSentCount: rows recorded as sent inside the window.               *)
SentWithin(window) ==
    Cardinality({r \in RowId : state[r] = "sent" /\ sentAge[r] < window})

DueRows == {r \in RowId : state[r] = "queued" /\ due[r] =< 0}

(* Mutant: ORDER BY next_attempt_at DESC.                                  *)
LastDue(r) ==
    /\ r \in DueRows
    /\ \A s \in DueRows : due[r] > due[s] \/ (due[r] = due[s] /\ r >= s)

(* ORDER BY next_attempt_at ASC, id ASC LIMIT 1                            *)
FirstDue(r) ==
    /\ r \in DueRows
    /\ \A s \in DueRows : due[r] < due[s] \/ (due[r] = due[s] /\ r =< s)

-----------------------------------------------------------------------------
Init ==
    /\ state = [r \in RowId |-> "none"]
    /\ attempts = [r \in RowId |-> 0]
    /\ due = [r \in RowId |-> 0]
    /\ sentAge = [r \in RowId |-> Day]
    /\ nextId = 1
    /\ rowCall = [r \in RowId |-> CHOOSE c \in Call : TRUE]
    /\ unsub = {} /\ bounced = {}
    /\ callPc = [c \in Call |-> "new"]
    /\ pc = [w \in Worker |-> "idle"]
    /\ held = [w \in Worker |-> 1]
    /\ tries = [w \in Worker |-> 0]
    /\ again = [w \in Worker |-> FALSE]
    /\ linkUp = TRUE
    /\ acked = [r \in RowId |-> 0]
    /\ ackAge = [r \in RowId |-> Day]
    /\ unheard = << >>
    /\ faults = 0 /\ crashes = 0 /\ outages = 0

-----------------------------------------------------------------------------
(* A fault of the database connection, charged to the bound.               *)
Fault == faults < MaxFaults /\ faults' = faults + 1

(* enqueueEmail, first await: a call that names its recipient is skipped   *)
(* when that volunteer holds the unsubscribed role.                        *)
EnqueueCheck(c) ==
    /\ callPc[c] = "new"
    /\ callPc' = [callPc EXCEPT ![c] =
           IF c \notin Direct /\ To[c] \in unsub THEN "skipped" ELSE "insert"]
    /\ UNCHANGED <<table, flags, local, smtp, faults, crashes, outages>>

InsertRow(c) ==
    /\ nextId \in RowId
    /\ state' = [state EXCEPT ![nextId] = "queued"]
    /\ due' = [due EXCEPT ![nextId] = 0]
    /\ rowCall' = [rowCall EXCEPT ![nextId] = c]
    /\ nextId' = nextId + 1
    /\ UNCHANGED <<attempts, sentAge>>

(* The pool wrapper runs a statement once more if the connection timed out *)
(* or was lost; a second failure, and every other error, is thrown to the  *)
(* caller.                                                                 *)
AfterFailedInsert(c) ==
    \/ callPc[c] = "insert" /\ callPc' = [callPc EXCEPT ![c] = "reinsert"]
    \/ callPc' = [callPc EXCEPT ![c] = "failed"]

EnqueueInsert(c) ==
    /\ callPc[c] \in {"insert", "reinsert"}
    /\ \/ InsertRow(c) /\ UNCHANGED faults
          /\ callPc' = [callPc EXCEPT ![c] = "done"]
       \/ InsertRow(c) /\ Fault /\ AfterFailedInsert(c)
       \/ UNCHANGED table /\ Fault /\ AfterFailedInsert(c)
    /\ UNCHANGED <<flags, local, smtp, crashes, outages>>

(* The unsubscribed role and the bounce flag are set and cleared by other  *)
(* handlers at any time.                                                   *)
SetUnsubscribed(a) ==
    /\ \/ unsub' = unsub \cup {a}
       \/ unsub' = unsub \ {a}
    /\ UNCHANGED <<table, bounced, callPc, local, smtp, faults, crashes, outages>>

SetBounced(a) ==
    /\ \/ bounced' = bounced \cup {a}
       \/ bounced' = bounced \ {a}
    /\ UNCHANGED <<table, unsub, callPc, local, smtp, faults, crashes, outages>>

-----------------------------------------------------------------------------
Goto(w, label) == pc' = [pc EXCEPT ![w] = label]

(* tickOnce, per-minute limit.  At the limit the tick returns and nothing  *)
(* changes, so only the passing case is a step.                            *)
CheckMinute(w) ==
    /\ pc[w] = "idle"
    /\ SentWithin(Minute) < RatePerMinute
    /\ Goto(w, "day")
    /\ UNCHANGED <<table, flags, callPc, held, tries, again, smtp, faults,
                   crashes, outages>>

CheckDay(w) ==
    /\ pc[w] = "day"
    /\ Goto(w, IF SentWithin(Day) < RatePerDay THEN "claim" ELSE "idle")
    /\ UNCHANGED <<table, flags, callPc, held, tries, again, smtp, faults,
                   crashes, outages>>

(* A failed read throws out of tickOnce; the loop logs it and sleeps.  A   *)
(* claim that fails before its commit is rolled back: the same step.       *)
TickThrows(w) ==
    /\ pc[w] \in {"day", "claim"}
    /\ Fault
    /\ Goto(w, "idle")
    /\ UNCHANGED <<table, flags, callPc, held, tries, again, smtp, crashes,
                   outages>>

(* Mutant: the UPDATE of the claim is missing.                             *)
TakeRowUnmarked(r) == r \in RowId /\ UNCHANGED table

(* The UPDATE of claimNextDue.  The due column is not read again before a  *)
(* failure rewrites it, so it is reset.                                    *)
TakeRow(r) ==
    /\ state' = [state EXCEPT ![r] = "sending"]
    /\ due' = [due EXCEPT ![r] = 0]
    /\ UNCHANGED <<attempts, sentAge, nextId, rowCall>>

(* claimNextDue: one transaction under the row lock of FOR UPDATE.  When   *)
(* the reply to COMMIT is lost the row is claimed and nobody holds it: the *)
(* transaction runs on its own connection, which the wrapper never retries.*)
Claim(w) ==
    /\ pc[w] = "claim"
    /\ \/ \E r \in RowId :
             /\ FirstDue(r)
             /\ TakeRow(r)
             /\ \/ /\ Goto(w, "check")
                   /\ held' = [held EXCEPT ![w] = r]
                   /\ tries' = [tries EXCEPT ![w] = attempts[r]]
                   /\ again' = [again EXCEPT ![w] = FALSE]
                   /\ UNCHANGED faults
                \/ Goto(w, "idle") /\ Fault /\ UNCHANGED <<held, tries, again>>
       \/ /\ DueRows = {}
          /\ Goto(w, "idle")
          /\ UNCHANGED <<table, held, tries, again, faults>>
    /\ UNCHANGED <<flags, callPc, smtp, crashes, outages>>

(* isBounced: on a database error the mail is sent anyway.                 *)
CheckBounced(w) ==
    /\ pc[w] = "check"
    /\ \/ /\ Goto(w, IF To[rowCall[held[w]]] \in bounced THEN "dead" ELSE "send")
          /\ UNCHANGED faults
       \/ Fault /\ Goto(w, "send")
    /\ UNCHANGED <<table, flags, callPc, held, tries, again, smtp, crashes,
                   outages>>

(* transport.send and classifyError.  A reachable server accepts the mail  *)
(* or refuses it for good (550, 551, 553, 554); anything else, a dead link *)
(* or a 4xx, is transient, and so is a connection that ends after the      *)
(* server took the mail and before its answer came.                        *)
Send(w) ==
    /\ pc[w] = "send"
    /\ \/ /\ linkUp
          /\ acked' = [acked EXCEPT ![held[w]] = @ + 1]
          /\ ackAge' = [ackAge EXCEPT ![held[w]] = 0]
          /\ Goto(w, "ok") /\ UNCHANGED unheard
       \/ /\ linkUp /\ Len(unheard) < MaxUnheard
          /\ unheard' = Append(unheard, [row |-> held[w], age |-> 0])
          /\ Goto(w, "fail") /\ UNCHANGED <<acked, ackAge>>
       \/ linkUp /\ Goto(w, "dead") /\ UNCHANGED <<acked, ackAge, unheard>>
       \/ ~linkUp /\ Goto(w, "fail") /\ UNCHANGED <<acked, ackAge, unheard>>
    /\ UNCHANGED <<table, flags, callPc, held, tries, again, linkUp, faults,
                   crashes, outages>>

(* The three UPDATEs by id.                                                *)
MarkSent(r) ==
    /\ state' = [state EXCEPT ![r] = "sent"]
    /\ sentAge' = [sentAge EXCEPT ![r] = 0]
    /\ attempts' = [attempts EXCEPT ![r] = Bump(@)]
    /\ UNCHANGED <<due, nextId, rowCall>>

MarkDead(r) ==
    /\ state' = [state EXCEPT ![r] = "dead"]
    /\ attempts' = [attempts EXCEPT ![r] = Bump(@)]
    /\ UNCHANGED <<due, sentAge, nextId, rowCall>>

(* Mutants: the delay of the previous attempt; the state not reset.        *)
MarkTransientEarly(r, n) ==
    /\ state' = [state EXCEPT ![r] = "queued"]
    /\ attempts' = [attempts EXCEPT ![r] = Bump(@)]
    /\ due' = [due EXCEPT ![r] = Delay(n)]
    /\ UNCHANGED <<sentAge, nextId, rowCall>>

MarkTransientKeepsState(r, n) ==
    /\ attempts' = [attempts EXCEPT ![r] = Bump(@)]
    /\ due' = [due EXCEPT ![r] = Delay(n + 1)]
    /\ UNCHANGED <<state, sentAge, nextId, rowCall>>

(* The delay comes from the attempts read with the claim, the counter is   *)
(* incremented in the table.                                               *)
MarkTransientFailure(r, n) ==
    /\ state' = [state EXCEPT ![r] = "queued"]
    /\ attempts' = [attempts EXCEPT ![r] = Bump(@)]
    /\ due' = [due EXCEPT ![r] = Delay(n + 1)]
    /\ UNCHANGED <<sentAge, nextId, rowCall>>

Mark(w) ==
    \/ pc[w] = "ok"   /\ MarkSent(held[w])
    \/ pc[w] = "dead" /\ MarkDead(held[w])
    \/ pc[w] = "fail" /\ MarkTransientFailure(held[w], tries[w])

(* Mutant: a mark that failed for good is caught and the row requeued.     *)
AfterFailedMarkRequeues(w) ==
    \/ ~ again[w] /\ again' = [again EXCEPT ![w] = TRUE] /\ UNCHANGED pc
    \/ Goto(w, "fail") /\ again' = [again EXCEPT ![w] = FALSE]

(* A mark whose connection was lost is executed once more; failing again,  *)
(* or with another error, it throws, and the tick ends without anybody     *)
(* holding the row.                                                        *)
AfterFailedMark(w) ==
    \/ ~ again[w] /\ again' = [again EXCEPT ![w] = TRUE] /\ UNCHANGED pc
    \/ Goto(w, "idle") /\ again' = [again EXCEPT ![w] = FALSE]

Finish(w) ==
    /\ pc[w] \in Marking
    /\ \/ /\ Mark(w)
          /\ Goto(w, "idle")
          /\ again' = [again EXCEPT ![w] = FALSE]
          /\ UNCHANGED faults
       \/ Mark(w) /\ Fault /\ AfterFailedMark(w)
       \/ UNCHANGED table /\ Fault /\ AfterFailedMark(w)
    /\ UNCHANGED <<flags, callPc, held, tries, smtp, crashes, outages>>

(* The process dies and is started again; register() starts a new worker.  *)
Crash(w) ==
    /\ pc[w] # "idle"
    /\ crashes < MaxCrashes
    /\ crashes' = crashes + 1
    /\ Goto(w, "idle")
    /\ again' = [again EXCEPT ![w] = FALSE]
    /\ UNCHANGED <<table, flags, callPc, held, tries, smtp, faults, outages>>

-----------------------------------------------------------------------------
LinkDown ==
    /\ linkUp /\ outages < MaxOutages
    /\ linkUp' = FALSE
    /\ outages' = outages + 1
    /\ UNCHANGED <<table, flags, callPc, local, acked, ackAge, unheard, faults, crashes>>

LinkUp ==
    /\ ~linkUp
    /\ linkUp' = TRUE
    /\ UNCHANGED <<table, flags, callPc, local, acked, ackAge, unheard, faults,
                   crashes, outages>>

(* Among rows that are due only the order of next_attempt_at matters, so a *)
(* due row keeps minus its rank among them (0: the latest).                *)
Normalised(d) ==
    LET overdue == {r \in RowId : state[r] = "queued" /\ d[r] =< 0}
    IN  [r \in RowId |->
            IF r \in overdue
            THEN -Cardinality({s \in overdue : d[s] > d[r]})
            ELSE d[r]]

(* One minute passes.  Ages stop at the length of the longer window.       *)
Tick ==
    /\ due' = Normalised([r \in RowId |->
                  IF state[r] = "queued" THEN due[r] - 1 ELSE due[r]])
    /\ sentAge' = [r \in RowId |-> Smaller(sentAge[r] + 1, Day)]
    /\ ackAge' = [r \in RowId |-> Smaller(ackAge[r] + 1, Day)]
    /\ unheard' = [i \in DOMAIN unheard |->
                      [unheard[i] EXCEPT !.age = Smaller(@ + 1, Day)]]
    /\ UNCHANGED <<state, attempts, nextId, rowCall, flags, callPc, local,
                   linkUp, acked, faults, crashes, outages>>

-----------------------------------------------------------------------------
WorkerStep(w) ==
    \/ CheckMinute(w) \/ CheckDay(w) \/ Claim(w) \/ CheckBounced(w)
    \/ Send(w) \/ Finish(w)

Next ==
    \/ \E c \in Call : EnqueueCheck(c) \/ EnqueueInsert(c)
    \/ \E a \in Rcpt : SetUnsubscribed(a) \/ SetBounced(a)
    \/ \E w \in Worker : WorkerStep(w) \/ TickThrows(w) \/ Crash(w)
    \/ LinkDown \/ LinkUp \/ Tick

Spec == Init /\ [][Next]_vars

(* What the scheduling of the code justifies: the loop re-arms its timer   *)
(* in a finally block, so a live worker takes its next step, and minutes   *)
(* pass.  Callers, faults and crashes are never forced, and an outage need *)
(* not end.                                                                *)
FairSpec == Spec /\ WF_vars(Tick) /\ \A w \in Worker : WF_vars(WorkerStep(w))

-----------------------------------------------------------------------------
UnheardOK == unheard \in Seq([row : RowId, age : Nat]) /\ Len(unheard) =< MaxUnheard

TypeOK ==
    /\ state \in [RowId -> RowState]
    /\ attempts \in [RowId -> Nat]
    /\ due \in [RowId -> Int]
    /\ sentAge \in [RowId -> Nat]
    /\ nextId \in Nat \ {0}
    /\ rowCall \in [RowId -> Call]
    /\ unsub \subseteq Rcpt /\ bounced \subseteq Rcpt
    /\ callPc \in [Call -> CallPc]
    /\ pc \in [Worker -> WorkerPc]
    /\ held \in [Worker -> Nat]
    /\ \A w \in Worker : pc[w] \in Holding => held[w] \in RowId
    /\ tries \in [Worker -> Nat]
    /\ again \in [Worker -> BOOLEAN]
    /\ linkUp \in BOOLEAN
    /\ acked \in [RowId -> Nat]
    /\ ackAge \in [RowId -> Nat]
    /\ UnheardOK
    /\ faults \in 0 .. MaxFaults
    /\ crashes \in 0 .. MaxCrashes
    /\ outages \in 0 .. MaxOutages

(* The comment above claimNextDue: two worker ticks cannot hold the same   *)
(* row, and a row somebody holds is out of the queue until the holder's    *)
(* own UPDATE puts it somewhere else.                                      *)
ClaimExclusive ==
    \A w \in Worker : pc[w] \in Holding =>
        /\ ~again[w] => state[held[w]] = "sending"
        /\ \A v \in Worker \ {w} : pc[v] \in Holding => held[v] # held[w]

(* The server is heard to accept no mail twice, whatever crashes between   *)
(* transport.send and markSent and whatever UPDATE fails; and the table    *)
(* never contradicts what was heard: sent means accepted, queued and dead  *)
(* mean that nobody knows of an acceptance.  A second copy is sent only    *)
(* where the answer to the first was lost.                                 *)
AtMostOnce ==
    \A r \in RowId :
        /\ acked[r] =< 1
        /\ state[r] = "sent" => acked[r] = 1
        /\ state[r] \in {"none", "queued", "dead"} => acked[r] = 0

(* The strengthening that makes ClaimExclusive and AtMostOnce inductive.   *)
(* The row a worker holds was inserted; until the worker's UPDATE ran it   *)
(* is sending, while the UPDATE is run again it may already be what the    *)
(* UPDATE makes it; and the worker's place says whether the server took it.*)
Marked(label) == CASE label = "ok" -> "sent"
                   [] label = "dead" -> "dead"
                   [] OTHER -> "queued"

HolderInv ==
    \A w \in Worker :
        /\ again[w] => pc[w] \in Marking /\ faults > 0
        /\ pc[w] \in Holding =>
               /\ \/ state[held[w]] = "sending"
                  \/ again[w] /\ state[held[w]] = Marked(pc[w])
               /\ acked[held[w]] = IF pc[w] = "ok" THEN 1 ELSE 0

FreshRows == \A r \in RowId : r >= nextId => state[r] = "none"

MailInv == FreshRows /\ HolderInv /\ ClaimExclusive /\ AtMostOnce

(* A row recorded as sent or dead is never touched again by a worker that  *)
(* still believes it holds it.                                             *)
SettledIsFinal ==
    [][\A r \in RowId :
           state[r] \in {"sent", "dead"} => state'[r] = state[r]]_vars

(* The wait of a requeued row is the table's entry for the attempts the    *)
(* row now has, although the delay is computed from the copy read at the   *)
(* claim and the counter is incremented in the database.                   *)
RequeueDelay ==
    [][\A r \in RowId :
           (state'[r] = "queued" /\ due'[r] > due[r])
               => due'[r] = Delay(attempts'[r])]_vars

(* The limits the queue promises the relay, counted on what the relay      *)
(* accepted and not on what the table records.  The limit is read before   *)
(* the claim and counts recorded mails: a mail accepted and not recorded,  *)
(* because a process died, the UPDATE failed or the answer was lost, is    *)
(* missing from the count, and so is what each other worker has in its     *)
(* hands, no more.                                                         *)
AckedWithin(window) ==
    Cardinality({r \in RowId : acked[r] > 0 /\ ackAge[r] < window})
    + Cardinality({i \in DOMAIN unheard : unheard[i].age < window})

Uncounted == crashes + faults + Len(unheard) + Cardinality(Worker) - 1

RateRespected ==
    /\ AckedWithin(Minute) =< RatePerMinute + Uncounted
    /\ AckedWithin(Day) =< RatePerDay + Uncounted

(* No queued row starves: it is claimed eventually, even if the link never *)
(* comes back and other rows keep failing and returning to the queue.      *)
EveryMailTried == \A r \in RowId : state[r] = "queued" ~> state[r] = "sending"

(* The fate of a mail: what the server was heard to accept is delivered    *)
(* whatever the table says, a row written off is refused.  Its reader gets *)
(* the copies whose answer was lost as well.                               *)
Fate == [r \in RowId |->
            IF acked[r] > 0 THEN "delivered"
            ELSE IF state[r] = "none" THEN "absent"
            ELSE IF state[r] = "dead" THEN "refused"
            ELSE "pending"]

Copies == [r \in RowId |->
              acked[r] + Cardinality({i \in DOMAIN unheard : unheard[i].row = r})]

Delivery == INSTANCE MailDelivery WITH Mail <- RowId, fate <- Fate, copies <- Copies

(* The queue implements MailDelivery: a copy is handed over only while the *)
(* mail's fate is open, and neither a crash nor a second worker changes    *)
(* its fate once the server was heard, or repeats what it was heard to     *)
(* accept.                                                                 *)
DeliversMail == Delivery!Spec

(* With its fairness: if outages end, no process dies and no statement     *)
(* fails, every queued mail is delivered or refused for good.              *)
DeliversEveryMail ==
    WF_vars(LinkUp) /\ [](faults = 0 /\ crashes = 0) => Delivery!Settling
=============================================================================

# CensusScheduler: TLA+ models and proofs

CensusScheduler is the volunteer scheduling application of the Black Rock City Census: a
Next.js/TypeScript server (`client/`) over one MySQL/MariaDB database (`database/`,
`migrations/`), deployed in the cloud and, during the event, on a server on playa.  This
directory holds TLA+ models of its core logic, the TLC configurations that check them on
small instances, and theorems about them with TLAPS proofs.  Every definition names the
source lines it models in `PROJECT.json` ("map"); paths below are relative to the
repository, and `api/` abbreviates `client/src/pages/api/`.

## 1. Inventory

The server is a set of request handlers without shared memory: all state is in the
database, and a handler is a sequence of SQL statements with an await between any two.
Almost no handler uses a transaction, so any two requests interleave at every await.
Two background loops live in each server process (mail worker, database health check);
an external cron calls one endpoint.

| Part | State | Operations | Hard behaviour |
|---|---|---|---|
| Outgoing mail queue (`client/lib/mail`) | `op_email_queue` | enqueue, claim, send, mark sent/dead/transient, rate limit | several workers, crash between send and mark, lost replies, outages of days, starvation |
| Database access (`client/lib/database.ts`, `dbHealth.ts`) | pool, health state | run a statement and run it again after a lost connection; ping, drain | a second execution of something already done; a wedged pool |
| SAP pool (`api/saps`, `client/lib/sap*.ts`) | `op_saps` (Setup Access Passes) | upload, assign, unassign, issue, email, off-book claim, burn | two admins assigning at once, mail of a pass that was just reassigned, the Okta link moving passes |
| Sign-in and account linking (`api/auth/okta`) | `op_volunteers.okta_id`, off-book SAPs, roster roles | find or create the account, link, move passes | two sign-ins at once, link racing an assignment |
| Shift sign-up (`api/shifts/[timeId]/volunteers`, `components/api/shiftVolunteers.ts`) | `op_volunteer_shifts` | sign up, remove, check in, review | stale cancel check, double sign-up, remove and sign up again |
| Assignment mail and calendar (`components/api/assignmentNotify.ts`) | mail with an ICS event (UID, SEQUENCE) | assign, remove, restore | mails reordered by retries, sequence numbers that do not grow |
| Shift types (`api/shifts/types/[typeId]`, `src/app/shifts/types`) | `op_shift_times`, `op_shift_time_position` | fill the form, edit, save, delete, cancel, restore, notify everybody on the shift | two saves of one form, reading the same old flag, ids drawn twice, partial failure, sign-ups between the dialog's look, the click and the save |
| Shift-lead nudge (`client/src/lib/shiftLeadNudge*.ts`, `api/cron`) | `op_shift_lead_nudge` | select candidates, mail leads, mark | overlapping cron runs, crash between mail and mark |
| Roles (`api/roles`) | `op_volunteer_roles` | grant, revoke, last super admin check | check then act |
| Live pages (`src/app/shifts/[timeId]/volunteers`, `src/app/volunteers/[shiftboardId]/account`, `api/socket`) | each browser's copy of the answers | events patch the copies, refetch, the gates of a sign-up | decisions from stale data, events lost or out of order |
| Tablet provisioning (`api/provision`, `lib/device.ts`) | one-time tokens | mint, claim | one conditional UPDATE; a token consumed and not delivered |
| Arrival date (`components/api/arrivalAutoSet.ts`) | `op_volunteers.arrival` | set from the first shift, edit by hand | a stale read overwriting a self-chosen date |
| Pure rules (`lib/sap.ts`, `lib/sapStatus.ts`, `shiftLeadNudge.logic.ts`, `mail/backoff.ts`) | none | burn year, target day, eligibility, nudge condition, backoff | boundaries |
| Read-only freeze, middleware, QR codes, labels, shift sheets, dates, doodle, contact form, React client, ETL scripts | | | not concurrent, or no state worth a model |

What makes each part correct:

- **Mail queue.** A row is in at most one worker's hands; the relay is heard to accept a mail at
  most once, and a second copy goes out only after an answer that was lost; sent and dead are final; the limits hold; every queued mail is tried, and when
  outages end it is settled; a transient failure never ends a mail.
- **SAP pool.** A pass that is out of the pool has exactly one owner; a person has at most
  one active pass; a pass a volunteer received never returns to the pool; a pass is mailed
  to the person it belongs to; a burned pass points at its replacement.
- **Sign-up and calendar.** The row of a volunteer and a position says what the last
  accepted request said; after the mails have arrived the calendar agrees with the row.
- **Cancel, nudge.** Everybody is told exactly once; who was on a shift when it was wrapped up
  is either here or a no-show, and who was checked in stays so.
- **Roles, accounts.** A super admin remains; a person has one account and stays on it.
- **Shift form.** What a save that was alone leaves is what the form said, nothing the user
  kept is lost, even when the save fails half way, and nobody is left on what was removed.
- **Pure rules.** A volunteer is told what the operators see of her; what counts as enough days
  of work are as many days as the table names.
- **Database access.** Every statement is answered; a pool whose database is back heals.
- **Live pages.** A page that waits for nothing shows the table; the gates that exist in the
  browser only hold for those who let their page hear of the last change.

## 2. Plan

Modules in the order of importance.

| # | Module | Models | Composes / abstract specification | Main properties | State |
|---|---|---|---|---|---|
| 1 | `MailQueue` | mail queue | implements `MailDelivery` | exclusive claims, at most once, every mail tried | checked, proved |
| 2 | `SapPool` | SAP pool with the Okta link | implements `PassLedger` | one active pass, issued for good, every handler answers | checked, proved |
| 3 | `ShiftSignup` | sign-up, removal, arrival date, cancel and restore | calls enqueueEmail as in 1 | notices agree with rows, arrival in time, date never postponed | checked, proved |
| 4 | `ShiftNudge` | check-in, review, nudge, catch-up | the attendance of the rows of 3 | who was checked in is never made a no-show; nudged once; every shift wrapped up | checked, proved |
| 5 | `ShiftForm` | times and positions of a shift type, the form in the browser, `generateId` | the edits of 3 | a save leaves what was sent; what was kept stays; nobody is left on a removed row | checked, proved |
| 6 | `DbPool` | pool, retry wrapper, health check | below 1 to 5 | one drain heals, every statement ends | checked, proved |
| 7 | `Access` | roles, last super admin, account lookup and link at sign-in, roster | the link step of 2 | one account, always the same; a super admin remains | checked, proved |
| 8 | `Calendar` | the events in the notices, through a mail layer that reorders | extends 3, uses `MailDelivery` | the calendar ends up as the row | checked, proved |
| 9 | `LivePages` | browsers' copies, socket events, gates of the sign-up | the rows of 3 and 4 | settled pages agree, slots kept, no double booking | checked, proved |
| 10 | `SapRules`, `SapPages` | burn year, target day, choice of a pass, eligibility; the two pages that show them | extends 2 | both pages agree; the rules mean what they are for | checked, proved |

Every safety property of the runs has a theorem by now (section 6), under the conditions named
there.  Bounds stay at the smallest numbers that let two actors meet: two handlers, two people,
two or three objects, one or two failures.

## 3. Modules and the code

### MailQueue, MailDelivery

`MailQueue` is `op_email_queue` with everything that writes it.  Row variables: `state`,
`attempts`, `due` (relative to now), `sentAge`, `rowCall` (which call inserted it).  The
recipients' flags are `unsub` and `bounced`.  A call of enqueueEmail has a label `callPc`, a
worker process has `pc`, the row it `held` and the attempts it read (`tries`), and the marker
`again` while the retry wrapper executes its UPDATE a second time.  What the relay was heard to
accept is `acked` with its age; what it accepted while its answer was lost is `unheard`, with row and
age.  Such a mail is a transient failure to the worker and goes out again.

| Action | Code |
|---|---|
| EnqueueCheck, EnqueueInsert | `queue.ts` enqueueEmail: unsubscribed check, INSERT; the wrapper of `database.ts` may execute the INSERT twice |
| CheckMinute, CheckDay | the two rate checks of `worker.ts` tickOnce |
| Claim | claimNextDue: SELECT ... FOR UPDATE SKIP LOCKED and UPDATE in one transaction, whose COMMIT may lose its reply |
| CheckBounced, Send, Finish | bounce flag (fails open), transport.send (accepted, accepted and unheard, refused, failed), then markSent, markDead or markTransientFailure; each UPDATE applied, applied with the reply lost, or not applied |
| TickThrows, Crash | the catch of the loop; the end of the process with a row in its hands |
| LinkDown, LinkUp, Tick | outages of the SMTP relay; time |

Time is relative: `Tick` ages everything by one, ages saturate at `Day`, and due times are kept
only as far as the order of the queue needs.  `MailDelivery` is what the rest of the program
may assume: a mail is submitted, then delivered once or refused for good; while its fate is open its
reader may get copies, one for each lost answer.  Queue and promise agree on the fate of every mail
and on the number of its copies.

### SapPool, PassLedger

`SapPool` is `op_saps` and the off-book entries.  Row variables show what is committed:
`status`, the two owner columns `sbId` and `mail`, `via`, `superseded`, `ticket` (the page of
the PDF), `offbook`.  A transaction buffers its writes in the handler's variables (`cur`,
`was`, `new`) until `Commit`; the rows it has read FOR UPDATE are in `rowLock`, the named locks
of `GET_LOCK` in `lock`.  `DeadlockVictim` breaks a cycle of transactions waiting for rows.
`Fail` is any statement that throws, a file that is missing, a lock that times out, or the end
of the process.  `given` is history: to whom a pass was actually handed.

| Action | Code (`api/saps`) |
|---|---|
| UploadBegin, UploadInsert | `upload`: one INSERT per page |
| AssignBegin, AssignAuto, GetLock, Busy, ReadCurrent, Reserve, NothingFree, Commit | `assign` doAssign, from the choice of the date to the release of the named lock |
| Unassign | `assign` DELETE |
| IssueBegin, IssueFlip, IssueServe | `[sapId]`: the operator's download |
| EmailBegin, EmailFlip, EmailEnqueue | `[sapId]/email`, resend included |
| SelfDownload | `[sapId]/file`: the volunteer's own download, which does not change the status |
| AddOffbook, LinkBegin, LinkMove, LinkFlag | `offbook`; the part of the Okta callback that moves an off-book address's passes |

`PassLedger` is what the operators see: each operation one indivisible entry (Stock, Give,
Swap, Reissue, Release, Receive), and nobody is given a second active pass.

### ShiftSignup

Variables: `row` (no row, signed up, removed), `canceled`, `day` (start_date_id as a day of
`op_dates`, 0 for NULL), `arrival`, `auto`; for each handler
where it is (`pc`), for whom (`who`, `shift`) and what it read (`seen`, `first`, `want`,
`list`).  `told` is the last notice sent about a volunteer and a shift.  History variables
delimit what the properties promise: `blurred` pairs and `muddled` volunteers are those whose
own requests overlapped or failed, `later` those who after their last sign-up chose their date or had
a shift moved forward, `had` the days a shift has had.

| Action | Code |
|---|---|
| SignUpBegin, CheckCanceled, FindRow, WriteRow, DuplicateRow | POST of `api/shifts/[timeId]/volunteers` |
| FirstEligible, ReadArrival, SetArrival | autoSetArrival: three reads, then a write that does not look again |
| NotifyAssignment | `assignmentNotify.ts` |
| RemoveBegin, RemoveRow, NotifyRemoval | `shiftVolunteers.ts` shiftVolunteerRemove |
| EditBegin, ReadPrior, UpdateTime, ListAssigned, NotifyFlip | PATCH of `api/shifts/types/[typeId]`: the canceled flag and the day of the shift (start_time and start_date_id, which no autoSetArrival follows), and the notices to everybody on the shift |
| ChooseArrival | the arrival date of the information form |
| Stop, ArrivalFails, NoticeFails | uncaught errors and crashes; the two kinds of error the handlers catch and log |

`Rest` is a stutter that stands for the end of the bounded behaviour; the code has no such step.

### ShiftNudge

Per shift: `phase` (where the clock stands relative to its times: check-in not begun, going
on, over for an hour, over for more than a day), `canceled`, the marker `marked`; per volunteer
and shift: `on` (a row in force), `att` (noshow: pending X, here '', absent Yes), `rated`.  A run
of the job has `pc`, whether it is the catch-up, for each shift it has still to do the addresses
(`to`), and the addresses the catch-up has still to mail (`left`).  `told` counts the mails
about a shift per address.  History: `blurred` shifts are those two runs had in hand together,
or a run mailed about and then failed; `moved` are those whose times were edited; `outdated` pairs
are those signed up as pending when the shift was over already.

| Action | Code |
|---|---|
| TimePasses, Reschedule, Cancel | the clock; the form of the shift type as far as the job reads it |
| SignUp, Remove | what POST and DELETE write to the row (their other steps are in ShiftSignup); the value is the one the form computed (`FormValues`), by the clock the page read when the application was loaded, which the server does not check; `Training` names the shifts the form of another shift can add |
| CheckIn, Review | PATCH of `shiftVolunteers.ts`, also on a removed row |
| OpenGate, WalkUpCheckIn | the tablet without a login: the window is checked, later the row is written |
| Load, LoadNothing | loadCandidateShifts and evaluateShift: one SELECT, then decisions in memory |
| MailLeads, MailAddress, MailFails | one mail per shift (regular) or per address (catch-up); a failing enqueue is logged |
| Finalize, Mark | finalizeAndMark: the UPDATE of the pending rows, the INSERT IGNORE of the marker |
| Stop | any other statement that throws, or the end of the process |

Every volunteer has at most one position on a shift and every lead has an address; mails are
counted per addressee, without the copy to the coordinators.

### SapRules, SapPages

`SapRules` has the pure functions of `client/lib/sapStatus.ts` and `client/lib/sap.ts` as
operators without state, over days numbered in their order, and beside each page's use of them
(`PeoplePage`, `AutoRefused`, `InfoPage`).  Three statements say what the rules are for without
the order in which the code goes about it: `DaysCovered` (who has met the requirements of an
arrival has a day of work of her own for each entry of the table, but for the one that a Monday
or Tuesday makes up for), `MoreIsNoLess` (another shift undoes nothing), `YearOfMost` (the
event's year is the one most dates are in, the later of two).  `SapPages` puts the two pages on
top of `SapPool`: the pass each of them finds for a volunteer, while the handlers work.  What
`op_dates` has for a pass and what is left of earlier years does not change while they work
(`EventDate`, `Former`).

### ShiftForm

Tables: `named` and `hidden` (op_shift_name, its delete flag), `gone` (op_position_type, its
delete flag), `time` and `pos` (op_shift_times,
op_shift_time_position: rows are flagged `removed` and brought back, never deleted), `signed`
(op_volunteer_shifts: the positions somebody is on).  Per form, `pc` goes from the page
("form" or "blank") over the statements of the save to "done" or "failed"; `sent` is the list in
the browser and later in the request, `found` the positions the GET found, `asked` what an open
dialog asks about, `todo`, `adds`, `fresh`, `exist` what the handler
computed from the list.  History: `disturbed` (another form of the type wrote since this one was
filled), `revived` (an added time or position was found among the rows), `late` (sign-ups for
what was already gone from the table or from an open form, or what an open dialog asked about).

| Action | Code (`api/shifts/types`, `src/app/shifts/types`) |
|---|---|
| Open, OpenBlank, Refill | the GET that fills the form; the empty form of a new type; the GET repeated by SWR, which fills the form again over unsaved edits |
| Edit: AddTime, RemoveTime, MoveTime, AddPosition, RemovePosition | the handlers of ShiftTypesForm and ShiftTypesUpdate; unsaved times share one id, so they move and go together; what is saved goes when the user confirms what was asked, the rest at once |
| Asking: AskRemoveTime, AskRemovePosition | the dialogs' look at the sign-ups, a step of its own before the click: one that finds somebody can only be closed |
| AskDelete, DeleteType | ShiftTypesDialogDelete, which looks at sign-ups, and the DELETE, which does not |
| AskDeletePosition, DeletePosition | the dialog of the list of positions, which shows the types whose rows name the position, removed rows too, and the DELETE, which does not look |
| SignUp, Leave | what POST and DELETE of a shift write (their other steps are in ShiftSignup), also from a page older than the removal |
| SelectTimes, UpdateTimes, UpdateFails, LookedUp, DropTimes | PATCH: the times that stay, whose UPDATEs may fail on the unique instance after others of the batch; the lookup of added ones by start and end, the times to remove |
| SelectRows, LookUpPosition, RevivePosition, InsertPosition, AddFails, TakePositions | the positions, looked up and written side by side (Promise.all); an INSERT that fails ends the save while its siblings go on |
| InsertTime, FillTime, Filled, InsertFails | handleTimeListAdd: `generateId`, the time, then its positions |
| Create, CreateFails | POST: the answer goes out before the times are inserted |

`generateId` draws any id: its query is not awaited, so one that is taken is not refused until
the INSERT.

### DbPool

A `Client` statement or a `Ping` is a job: `job` (idle, waiting, running, ok, failed), `queue`
(waiting for a connection), `holder` (who has each connection), `conn` (none, connecting, live,
dead).  A dead connection looks like a live one until a statement on it times out.  The check
has `pc`, `state` and `wedgeTicks`.  `up` says whether the database answers.

| Action | Code |
|---|---|
| Query, Issue, Retry, TimeOut, Unanswered | `database.ts` wrapWithRetry around the pool's query and execute |
| Borrow, Connect, Connected, Answer, Reap | the mysql2 pool: free connection, new one up to the limit, queue; idle ones are closed |
| Tick, PoolOk, PoolFails, FreshOk, FreshFails | `dbHealth.ts` tickHealthCheck: ping through the pool against a timer, then over a connection of its own |
| Drain | drainPool: every connection destroyed, used or not; what ran on it fails, what waits is served by new ones |
| Break, GoDown, ComeUp | the network and the database |

### Access

`account` (okta id and address by id), `role` (by id: none, held, removed), `address` (what Okta
has for a person), one request per handler in `req` with the label of its next statement.
History: `home` (the account each person first signed in to), `created`, `raced` (two removals
of a super admin both counted before either wrote), `mixed` (people whom an edit has mixed up,
because an account that had the address of one was given the address of the other, or the id of a
new account, under which `sb_pinfo` has somebody else).

| Action | Code |
|---|---|
| SignIn, ByOkta, Sync, ByMail, LinkMail | `api/auth/okta/callback.ts`: the account with this Okta id, else with this address |
| LookInHistory, LookForCanonical, LinkHistory, InsertHistory, Create | the account known from earlier years (`sb_pinfo`), or a new id; errors in between are caught |
| GrantRoster, Session | roles by the roster; the session |
| Ask, MayGrant, Look, Renew, Give, MayRemove, Count, Remove | `api/roles/[roleId]/volunteers` with its checks |
| CreateAccount, EditAccount, ChangeAddress | the account pages; the person changes the address at Okta |
| Fault | a statement that throws |

### Calendar

`Calendar` extends `ShiftSignup`: each of its actions is one of ShiftSignup's with what it posts.
`fate` and `copies` are the state of each mail as `MailDelivery` has it, so mails arrive in any
order, late, twice (`ReceiveUnheard`) or (refused) never; `event` is what the calendar holds under the UID of a volunteer and position.
`Receive` lets an event replace one whose SEQUENCE is not greater.  `Backfill` and `NotifyAgain`
are `api/admin/backfill-notify`.  `spoiled` names the pairs for which the numbers 0, 1, 2 cannot
suffice (section 5) or a failure has dropped a notice.

### LivePages

Per tab: `at` (the page on the screen: a shift, or the account page `Mine`), and per key (the
volunteers of a shift, the user's own shifts `Mine`) `cache`, `wait` (where its GET is: none, out, answered, due) and `got`; `listening`
(pages with handlers on the socket), `left` (what the account page showed last, which is what its
handlers patch afterwards), `inbox` (events on their way), `op` (what the user does).
SWR and socket.io are modelled from how the pages use them: an answer older than a mutation
is dropped, a mutation asks again at its end unless another overtook it (`raced`), a request
under way or a recent one is shared.

| Action | Code |
|---|---|
| Read, Land, Focus, Open | useSWR of the page and the dialog |
| Listen, Receive | the effect that registers handlers once there are data; the handlers patch every page that ever registered, whatever shift the event is about; the account page has none for additions (`Hears`) and does not look at whose shift was removed (`PatchedMine`) |
| Pick, Cancel, Submit | the add dialog: places left, own shifts loaded, no overlap with one that is not canceled; the training it offers (`Trainings`) |
| Leave, Toggle | remove dialog and check-in switch of either page |
| Write, Reply, Fail | the handler's row; the answer with the event to the others (a dialog's connection is its own, so its page hears it too), and then the POST of the training (`Afterwards`); an error, and no event |

History: `unaware` (keys that changed unheard), `crowded` and `hasty` (sign-ups decided side by side,
or before the list was read again), `along` (who is on which training taken along).

## 4. Runs

| Run | Instance | Shows |
|---|---|---|
| `mail_workers` | 2 workers, 2 mails, 1 crash, 1 outage, 1 lost answer (2,732,696 states) | no row in two hands, the delay follows the counter, MailDelivery implemented |
| `mail_live` | 1 worker, limit 1, 1 failing statement, 1 lost answer, an outage that may last (454,400) | a mail is heard to be accepted once, settled rows stay so, the limits hold, no row starves, every mail is settled if the relay comes back and no statement fails |
| `sap_pool` | 2 handlers, 2 people, 2 passes of different days (98,830) | one active pass each, passes that can return were handed to nobody, a failed assign takes nothing away, PassLedger implemented, every handler answers, every named lock comes back |
| `sap_link` | a volunteer and her off-book address (472,840); 80 kinds of volunteers, 9 days, lists of up to 3 dates | ownership columns exclusive and issued passes kept, even through the link; the volunteer's page and the operators' list agree, and the rules mean what they are for |
| `signup` | 2 volunteers, 2 shifts, 2 handlers, 4 requests, 1 failure, edits that move a shift (4,397,395) | notices, rows and arrival dates agree except where requests about the same volunteer overlap or an edit moves a shift forward under her |
| `nudge` | 2 volunteers, a shift and a training, 2 runs, 1 change by people, 1 failure (1,080,317) | who is pending becomes a no-show and nobody else, marked shifts are settled, nobody is mailed twice, every shift that calls for it is wrapped up |
| `form` | 2 forms or dialogs, 2 types, 2 edits each, dialogs, 1 sign-up, 1 failing INSERT or UPDATE (2,888,580) | a save that was alone leaves what was sent; what the user kept stays, even when it fails; who signed up in time is on no removed row and no deleted position |
| `db_pool` | 2 connections, 1 client, 2 pings, 2 deaths, 1 outage, 1 slow statement (562,247) | no job or connection is lost, one drain heals, one death goes unnoticed, every statement ends, the pool heals |
| `access` | 2 people, 3 addresses, 2 handlers, 3 requests, 1 edit, 1 failure (2,354,464) | one account each, always the same, but for people mixed up by an edit or an id; a super admin remains unless two removals overlap |
| `calendar` | 1 volunteer, 1 shift, 2 handlers, 4 requests, 1 backfill, 1 failure or lost answer (890,173) | the calendar agrees with the row once the mails have arrived, and they do |
| `pages` | 2 browsers, 5 shifts with 1 place: overlapping, canceled, with a training; an account page, 2 requests, 1 failure (2,712,453) | settled pages show the table, slots and overlaps are respected by those who wait, but for trainings taken along |
| `sap_mailed` | 2 people | violated: see findings |

Bounds.  Two workers or handlers are enough for every race here, as all communication is
through rows and each race is between one read-then-write and one other write.  Two mails let
one overtake another.  In `signup` the two shifts start on the first
day of the event (whose day before is not in `op_dates`) and on the day of the gates, and an edit
moves them to any of three days or to one that is not in `op_dates`; four
requests let a sign-up, a cancellation and a restoration meet another sign-up.  The day of
`calendar`'s shift is not in `op_dates` (`Known` is empty), so the arrival date, which `signup` is
about, stays out of it.  Symmetry is used only
in runs with safety properties.  In `nudge` one change by people may fall between any two
steps of the two runs.  In `form`,
two edits let one form add and remove while the other does the same, and one sign-up falls
between any two steps of them; six ids leave `generateId` the choice
between a free and a taken one.  In `db_pool` two connections stand for the ten: one may be
dead while the other serves, or both may be.  In `pages` a session is two browsers on one
shift, one on a shift and one on an account page (of the same person, or of another on
the same shift), or one browser that goes from one shift to another, or between the account and
the shift with the training.  Two browsers on different shifts (912,653 states) and one that goes
between the account and a shift that has begun (171,404) were searched apart from the run and
found right; when one of two browsers
goes between a shift and the account there are more than 15 million states, none of which the
search had found wrong when it was stopped.

Fairness.  `MailQueue!FairSpec`: a live worker's next step is taken, because the loop re-arms
its timer in a `finally` block, and time passes; callers, faults, crashes and the end of an
outage are not forced, so `DeliversEveryMail` is stated under the assumption that the link
comes up and that no statement fails and no process dies.  `SapPool!FairSpec`: strong fairness
of each handler's steps and of the deadlock detection, because InnoDB grants row locks in the
order they were requested and breaks a cycle at once.  `ShiftNudge!FairSpec`: the cron keeps
calling the regular run (every 15 minutes, for the 23 hours a shift qualifies) and a run that
nothing stops goes on; the catch-up, time and people are not forced, and each of the failures
the bound allows may hit any step.  `DbPool!FairSpec`: the pool serves its queue, a connection
answers or its statement times out, and the timer of the check fires, which it re-arms
whatever the tick finds; the network and the end of an outage are not forced.
`Calendar!CalFairSpec`: a handler and the job that nothing stops go on, and every mail is
delivered or refused, which is what `mail_live` shows of the queue.  `ShiftSignup`, `ShiftForm`,
`Access` and `LivePages` have no liveness property and no fairness.

## 5. Findings

Shown by a run: `sap_mailed` / `HandedToHolder`.  The email handler flips a pass by its id and
not by the owner it read; a pass reassigned in between goes to its former owner
(`api/saps/[sapId]/email/index.ts:67`).

Met while modelling; the properties leave these histories out, by a condition in their
statement or a history variable, and would be violated without it.

Passes:

- The Okta link moves a pass to a volunteer who has one already
  (`api/auth/okta/callback.ts:467`): why `OneActivePass` is run without the link.
- A mail whose enqueue fails after the pass was flipped is not undone
  (`api/saps/[sapId]/email/index.ts:80`).
- A volunteer's own download leaves a pass `assigned`, which can then be released
  (`api/volunteers/[shiftboardId]/sap/[sapId]/index.ts:29`): why `AssignedUnseen` is claimed
  without that operation.

- The two pages are said to have the same rules (`client/lib/sapStatus.ts:1-5`,
  `api/volunteers/[shiftboardId]/info/index.ts:303`), and have where `PagesAgree` says so.
  Where the list shows "external" or "not earning" the volunteer's page still tells of a date
  earned, as it looks at `requirementsMet` alone (`:321`).  Its query for a pass has no
  condition on the status (`:88-96`): a burned pass uploaded after its replacement is the one
  shown.  Nor has it one on the year: a volunteer without a pass this year is shown last year's, as
  issued, while the list filters the year (`api/saps/people/index.ts:137-143`).  And it joins
  `op_dates`: a pass whose date was not in the table at the upload
  (`api/saps/upload/index.ts:82-88`) is in the list and never on the page, and one whose date was
  edited since (`api/dates/[dateId]/index.ts:21-29`) has the new date there.  `InfoPass` does all
  this; `Plain` names the rows for which the pages agree.  The list has an Auto date for staff who start late or have another pass, and assign
  refuses Auto for them (`api/saps/people/index.ts:213`, `api/saps/assign/index.ts:122`).
- The required days are not a chain: for PreWed both Thursday and Friday are needed, for the
  earlier PreTue Thursday and any one of Friday to Sunday (`sapStatus.ts:13-14`).  The total of
  points counts shifts at removed times, the points per day do not
  (`api/saps/people/index.ts:101-117`).

Mail and calendar:

- The retry wrapper executes an INSERT again after the reply was lost; one call of enqueueEmail
  then has two rows (`client/lib/database.ts:127`).
- A mail the relay has taken and whose answer is lost (the connection ends after DATA) has no
  response code and counts as transient (`transport.ts:127-131`, `classify.ts:41-42`): it is
  requeued and sent again.  `AtMostOnce` and `MailDelivery` speak of what the relay was heard to
  accept, and count the other copies.
- A requeueing UPDATE that fails leaves the row `sending` for ever (`queue.ts:184`): why
  `DeliversEveryMail` assumes no failing statements.  One error is enough unless it is one of the
  two the wrapper retries (`database.ts:103-109`).  A mail whose markSent failed, or whose answer was
  lost, is not counted against the limits (`worker.ts:41`): `RateRespected` says by how many they may
  be exceeded (`Uncounted`).
- SEQUENCE is 0, 1 or 2 for an assignment, a cancellation and a restoration
  (`assignmentNotify.ts:143`, `:484`).  A re-assignment after a removal has 0 after 1, and a removal
  or second cancellation after a restoration 1 after 2: the calendar keeps what it has.  The
  comment at :433-436 names the repeated cycle only.  Notices of a sign-up and a removal of the
  same pair that overlap, and a sign-up written while a cancellation or restoration lists whom to
  tell, may leave the wrong one last.

Shifts and attendance:

- An earlier date the volunteer saves between the read and the write of autoSetArrival is
  overwritten (`components/api/arrivalAutoSet.ts:70`), although the comment at :9-11 says a
  self-chosen earlier arrival is never moved.
- An edit that moves a shift (`types/[typeId]/index.ts:305`) is not followed by autoSetArrival, as a
  sign-up is: those on a shift that moves forward are too late until they sign up again, and an
  automatic date may be that of a day the shift no longer has.  A day that is not in `op_dates` leaves
  the shift without one.  `ArrivalInTime` leaves the first out (`later`), `AutoDateGrounded` allows
  the second (`had`).
- Two concurrent saves of a shift type both find the flag unset and notify everybody twice
  (`types/[typeId]/index.ts:272`); a sign-up that passed the canceled check before the flag was
  set ends on a canceled shift without a word (`[timeId]/volunteers/index.ts:255`).
- Two overlapping runs of the nudge both mail about a shift, and a run that ends between the mail
  and the marker is followed by one that mails again (`shiftLeadNudge.ts:156`, `:135`), although
  `migrations/016_shift_lead_nudge.sql:2` says at most once.
- The marker stays when a shift's times are edited (`types/[typeId]/index.ts:282`): a shift moved
  into the future after it was wrapped up is never wrapped up again.
- The form computes the check-in value by a clock that is read once, when the application is loaded
  (`state/developer-mode/context.tsx:36`), and the server does not look at the time: a page that has
  been open since before the shift adds somebody as pending after it was wrapped up.  With the
  training it sends the value of the shift, not the one it computed for the training
  (`ShiftVolunteersDialogAdd.tsx:766`).  Who was added so stays pending on a marked shift: `outdated`.

Shift form:

- An added time is looked up by start and end alone, among the times of all types
  (`types/[typeId]/index.ts:387`; the comment at :376-378 speaks of this type's).  The id found
  last is used for the positions of all added times, and the positions of a revived time are
  removed again by the same save (:475).
- Two open forms of a type undo each other's additions; the form as sent is the whole list.
- Times not saved yet share the id 0, so moving or removing one moves or removes all
  (`ShiftTypesForm.tsx:377`, `ShiftTypesUpdate.tsx:231`).  A time without positions is not shown by
  the GET and removed by the next save.
- The form is filled again whenever the GET brings something new, on a focus of the window for
  instance, and unsaved edits are gone (`ShiftTypesUpdate.tsx:141`): `Refill`.
- Only the dialogs look at who is signed up, the save and the DELETE do not
  (`ShiftTypesTimeDialogRemove.tsx:157`), and a sign-up does not look at what was removed
  (`[timeId]/volunteers/index.ts:250`): somebody who signs up after the dialog has looked, be it before the click, before the save or
  between its statements, or on a page that is older, is on a row no list shows: `late`.  The
  dialog for a position counts the sign-ups of removed times too.
- The UPDATEs of a save run side by side, and `shift_instance` is unique
  (`scheduler_schema.sql:313`): two times that exchange their instances make one fail, and the
  save ends with some of the times written and nothing added or removed: `UpdateFails`.
- A form that is filled again while a dialog is open keeps the place in the list the dialog was
  opened with (`ShiftTypesUpdate.tsx:198`), by which the click removes another position from the
  list the form offers (not from its times); this is left out.
- The dialog that deletes a position asks for rows of any type that is not deleted, removed rows
  included (`positions/[positionId]/types/index.ts:18`): "must be removed from the following
  types" cannot be done, a position that was ever on a type stays.  The one that deletes a
  category says the same, and its button is enabled all the same
  (`ShiftCategoriesDialogDelete.tsx:176`, where those of positions, roles and dates look at the
  list): the types keep a category that no list has, and lose their department
  (`api/shifts/index.ts:83`).  The forms offer deleted positions and categories
  (`types/defaults/index.ts:35`).
- `generateId` returns before its query answers, and the query has no WHERE
  (`client/src/utils/generateId.ts:22-26`).  POST answers before its times are inserted
  (`types/index.ts:177`).

Accounts and roles:

- Two super admins can remove each other at once (`api/roles/[roleId]/volunteers/index.ts:161`;
  the comment at :150-152 excludes it): `raced`.
- A failing UPDATE that links an account from history is swallowed after the account counts as
  found (`callback.ts:350`, `:375`); the session is opened and the next sign-in links it.
- The email of an account can be edited to any address, another person's too
  (`api/volunteers/[shiftboardId]/account/index.ts:101-119` checks nothing), and the look-up by
  address takes the account over, whomever it is linked to (`callback.ts:304-317` has no condition
  on `okta_id`): the next sign-in of that other person finds the account, and the person who had it
  gets a second one.  The same from an id: `generateId` (`callback.ts:387-404`) asks `op_volunteers`
  only, so a new account may get an id that `sb_pinfo` has for somebody else, whose sign-in then
  overwrites the row (`callback.ts:345-357`).  `api/volunteers/account/index.ts:20-28` asks no more,
  but draws from numbers meant to be above all the imported ones (:7-11); the model draws any.
  `EditAccount`, `CreateAccount` and `Create` do all this; `OneAccount` and `StaysOnAccount` speak
  of whom it has not happened to (`mixed`), and say that nobody else is affected.
- The roster grants a role again that an admin has removed (`callback.ts:425-432`).

Database access:

- The drain destroys connections in use, too: a pool that was only slow loses its running
  statements (`database.ts:174`), where the comment at :167-169 sees no impact.
- `consecutiveWedgeTicks` is kept through "unreachable"; the connection of the check ignores
  MYSQL_PORT (`database.ts:147-157`).

Live pages:

- Places and overlaps are looked at in the browser only.  Two people who pick the last place
  before either has heard of the other both get it; a second sign-up right after the first is
  checked against the list cached before it, which is there, so nothing fails closed
  (`ShiftVolunteersDialogAdd.tsx:618`).
- The training that a position asks for is posted after the shift (`ShiftVolunteersDialogAdd.tsx:762`)
  and no gate looks at it: `hasTimeConflict` (:641) is about the shift alone, and for the training
  there is only a warning (:877).  So one careful sign-up may leave a person on two shifts that
  overlap; `NoDoubleBooking` leaves out the pairs in `along`.  When this POST fails, the shift stays taken
  and the dialog open.
- A check-in event says `isCheckedIn` and the handler reads `checked`
  (`ShiftVolunteers.tsx:317`, `:214`); the add event has no `isCheckedIn`; no handler looks at the
  shift.  All are corrected by the request that follows.
- An event that comes before the page has data and handlers is lost until the page is looked at
  again, and so is the page's own check-in when an event overtakes it (`unaware`).
- The account page drops a shift from its list when anybody is removed from it
  (`VolunteerShifts.tsx:218`) until the request that follows is answered, and is not told of
  sign-ups made elsewhere.

## 6. Proofs

All theorems hold for every value of the constants within the assumptions stated in the
module that declares them; nothing is assumed about bounds except that they are naturals.

- `MailQueueProofs`.  `TypeCorrect`; then, under `Unduplicated` (no failing statements, or a
  single worker process), `ExclusiveClaims`, `DeliveredAtMostOnce`,
  `SettledRowsStaySettled` and the refinement `ImplementsMailDelivery`.  Neither safety
  invariant is inductive: that no two workers hold a row needs to know that a held row is
  `sending` (or already what the repeated UPDATE makes it), and that the rows not yet inserted
  are untouched.  `MailInv` = FreshRows, HolderInv, ClaimExclusive, AtMostOnce.  The condition
  is needed: with two workers and the wrapper, a requeueing UPDATE that is executed again may
  hit a row another worker has claimed meanwhile.
- `SapPoolProofs`.  Unconditional: `TypeCorrect`, `PassesOwnedOnce`, `IssuedPassesStay`, from
  `SapInv` = OwnedOnce, LockInv (whoever is inside doAssign for a target holds its named lock;
  only transactions lock rows), TaskOK and TxnOK (what a transaction read of the rows it locked
  is still true).  Without the volunteer's own download, `ReleasedUnseen`.  Without the Okta
  link, `OneActivePassEach` and the refinement `ImplementsPassLedger`, from `PoolInv`:
  the pass a transaction works on is the only active one of its target.  Each omitted
  operation is one that breaks the property in the code (section 5).
- `ShiftSignupProofs`.  `TypeCorrect` and `AutoDatesGrounded` hold whatever overlaps, fails or is
  edited, the second with the day a handler has read in the invariant: it is one that a shift of the
  volunteer has had (`DaysHad`).  `EverybodyInTime` and
  `ChosenDateKept` follow from `DatesInv`: the requests of a volunteer that is not muddled run
  one at a time, so the first early day a handler read is still no later than any there is (an edit
  may move a shift back under it), and the date is in time unless that handler is about to set it.  `NoticesRight` follows from `PairsInv`, which
  says for each step of the one handler that touches a pair what the last notice may be; in the
  middle of the fan-out it differs for those already told and those not.  That the least
  element of a set of days is below all of it rests on well-foundedness of the naturals.

- `ShiftNudgeProofs`.  `TypeCorrect`.  `OnlyPending` from `TakenInv`: what a run has selected is
  over, and stays so unless it is moved, however long ago the run read it.  `MarkedIsSettled`
  from `SettledInv`: a shift finalized by any run is settled from the UPDATE on, before the marker is
  there, but for those an outdated form signed up (section 5).  `NudgedAtMostOnce` from `OnceInv`, which says
  of the one run that has a shift in hand which addresses it has still to tell.  That a run's
  current shift is one of those it has to do rests on well-foundedness of the naturals.
- `AccessProofs`.  `TypeCorrect`, for tables that agree at the beginning on whose an account is
  (`TablesAssumption`).  `OneAccount` from `OwnInv`: whose an account is, told by its address, and
  whom it is linked to change only among the people mixed up (`Alike`, an equivalence that only
  grows, as `mixed` does); a link agrees with the address in the same sense, and so does whatever
  id a sign-in holds with the person who signs in; the accounts a person's sign-ins created are
  linked to her if she is not mixed up, and of those the unique key leaves one.  `StaysOnAccount` from `StayInv` = OwnInv, Calm (a sign-in
  that nothing disturbed looks for an account only while the person has none, and then goes on
  with hers), Apart (two of a person's have disturbed each other) and HomeOK.  `LastSuperAdmin`
  from `SuperInv`: while somebody is about to be removed there are two holders, unless another
  such request had counted too.

- `DbPoolProofs`.  `TypeCorrect`; `NothingLost` from `PlacesInv` = TypeOK, Held (a job has a
  connection to itself exactly while it runs), Queued (and a place in the queue, of which no two
  are its, exactly while it waits).  `OneDrainHeals` is inductive only with `Healed`: from a drain
  on, unless something hurts the pool again, no connection is dead, nothing is slow, and the ping
  under way, which may be the one that was running when the drain came, has not failed.
  `OneDeathUnnoticed` needs `Harmless`: one death is one dead connection or one statement that is
  executed again, never both.
- `ShiftSignupProofs`, second part: `CalendarRight` for `Calendar`, from `CalInv`.  The calendar
  holds the delivered mail with the greatest SEQUENCE (`EventOK`), copies included; for a pair that is not spoiled
  the mails there are, in any state of delivery, are some that the tables allow (`PostsOK`) and all
  that they owe, but for the one a handler is about to enqueue (`DebtsOK`).
- `MailQueueProofs`, `RateWithinLimits`: `RateInv` counts.  What a window has accepted and the
  workers that have passed its check exceed the limit by the orphans (mails accepted and
  never recorded), the mails accepted unheard and the other workers at most, and each orphan was paid
  for by a crash or a failing statement (`OrphansPaid`).  It needs finitely many workers
  (`WorkerAssumption`) and `Unduplicated`.  `DelayFollowsAttempts`: as long as no statement is
  executed twice (`MaxFaults = 0`, as in the run), since an UPDATE that is applied again adds to the
  attempts again and the wait is that of the first.  Its invariant `Ranked` is about time:
  due rows lie no further in the past than there are rows due after them, so that a row's due
  time rises only when a failure sets it.
- `ShiftFormProofs`.  `TypeCorrect` and `NobodyLeft` from `FormInv`: a position belongs to a time
  that is there, what a form has an id of is in the table as the form has it (`Known`), the rows a
  handler is about to remove are of its type and none it was sent (`Stage`), and who is on a
  position and not late is `Safe`: it is in force, and no open form is about to remove it, nor
  does an open dialog ask about it.  What the user confirms is what the dialog asked about, and
  every saved position of a form is one its GET has found (`Dialogs`), so that none goes unasked.
  `KeptRows` from `Kept`: nothing an undisturbed form left is removed, at any step of its save.
  `SavedRight`, that a save leaves what was sent, from `SentInv`.  `Own` holds of every handler,
  disturbed or not: what it has in hand is of its type and its list.  `AsSent` says of an
  undisturbed one how far it has got: which rows it has still to remove, which times to look
  up or insert; between the SELECT of the positions and their removal, that each position of
  the list is in force or about to be added, and each in force in the list or about to go
  (`RowsRight`); while an added time is being filled, that it is the only one not yet right
  (`InHand`).  Saves of other types keep it, as a save that found no row writes only rows of
  its own type (`Writes`, `SameFor`).
- `SapPoolProofs`, further: `NobodyEmptyHanded` from the locks (`SapInv`); and
  `PagesTellTheSame`, that the page and the list of `SapPages` agree for every day and every list
  of qualifying shifts with the same pass in hand, and find the same pass in every state of the
  pool in which her rows are `Plain`.  That ModeBurnYear is the year most dates are
  in is a fold over a list, which only the run evaluates, and the theorem has it as a condition
  (`YearOfMost(DateLists)`); the rest of the rules is proved.
- `LivePagesProofs`.  `TypeCorrect`.  `SettledRight` from `Honest`: as long as no change of a page
  went unheard, is on its way or is written and not told yet, an answer that came, and data held by a page
  that waits for nothing, are the table's.  The patches may be wrong, and are; a page that was
  patched is due to ask again.  `RoomKept` and `NobodyTwice` from `RoomInv` and `ClashInv`, which
  count the sign-ups decided and not yet written among the people of a shift and the shifts of
  a person, and `NotedInv`: a training posted or chosen is noted in `crowded` and `along`, and no sign-up
  under way is of a canceled shift.  Their conditions say of the beginning what the two properties say of the end
  (`RoomAtFirst`, `ApartAtFirst`), and that a tab that stays on one page, whose dialog the model
  gives no list of its user's shifts, is not the only place where two of them meet
  (`ListWhereNeeded`).  The run's instance meets all three.

The assumptions on constants are what the types of the tables and the code give: sets of
volunteers, workers and connections are finite where somebody counts them, ids are positive
numbers, markers such as `NoRow` and `NoData` are none of the values they stand beside, no shift
overlaps with itself.  The type invariants of `MailQueue`, `SapPool`, `ShiftSignup` and
`ShiftNudge` are shown by these proofs alone and are in no run.

Only model-checked: the liveness properties and the fairness part of the refinement
(`EveryMailTried`, `DeliversEveryMail`, `EveryHandlerAnswers`,
`EveryShiftWrappedUp`, `EveryStatementEnds`, `PoolHeals`, `CalendarSettles`: the prover does not
treat ENABLED); and `YearOfMost`, which is about a fold over a list (induction over data is out
of its reach).

## 7. Not modelled

Text of mails and events, PDF contents and parsing, HTTP and cookies; notes and remembered
choices that only their own page reads; the moment in which a dialog of the
shift form that is opened again still shows its former answer; the dry run of the nudge; creating and renaming
positions, and the lists of categories and dates, whose entries are read by name; names and passcodes of accounts, the marks volunteers
set on themselves; the webhook and the log of the health check; reviews, the admins' dialog
and the drawing board among the live pages; calendars that forget canceled events.
Provisioning of tablets is one conditional UPDATE (`api/provision/claim.ts:31`) and a signed
cookie: when the reply is lost the token is spent and the next try is answered 410, and there is
no second step to meet.  Rendering (QR codes, labels, shift sheets), the remaining React pages,
the freeze and the middleware (a table of paths and methods), ETL and deployment scripts keep no
state that two requests share and are left out.  Where a page only holds an id or a row between
two requests, the model of the handler takes it as an input chosen earlier.

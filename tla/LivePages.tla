----------------------------- MODULE LivePages -----------------------------
(***************************************************************************)
(* The pages of shifts and the account page in the volunteers' browsers:   *)
(* what each has in its cache, the dialog that decides from it whether a   *)
(* sign-up may be sent (the server does not look at slots or at other      *)
(* shifts), and the socket by which one page tells the others what it has  *)
(* changed.                                                                *)
(*                                                                         *)
(* A page keeps the last answer to each GET (SWR).  An event of the socket *)
(* patches what the page has and makes it ask again; so does the end of    *)
(* the page's own request.  What a request was answered is thrown away     *)
(* when the page has asked again since, or has a request of its own        *)
(* going on that nothing has overtaken.  What was asked for a moment ago   *)
(* is not asked for again when a page or dialog that needs it opens; how   *)
(* long a moment is, is left open.                                         *)
(*                                                                         *)
(* The users are volunteers on playa, not admins, whose dialog has no      *)
(* gates.  In a session that sees one page only the dialog does without    *)
(* the list of the user's own shifts, and without its gate, which allows   *)
(* more.  Of the gates that read this list the overlap stands for the      *)
(* others.  Each shift has one position, whose prerequisite may be a       *)
(* training: a shift too, taken with the other and posted after it.  The   *)
(* look the dialog takes at the places of a training is left out: any may  *)
(* be chosen.  A GET that fails is one that takes longer, for SWR repeats  *)
(* it.  Of what the account page shows of the user's shifts the check-in   *)
(* is left out, and so are reviews, and cancelations that come meanwhile.  *)
(***************************************************************************)
EXTENDS Naturals, Sequences, FiniteSets

CONSTANTS
    Browser, Volunteer, UserOf,
    Shift,
    Sessions,   \* which tabs are open and which pages each looks at
    Future,     \* the shifts whose check-in has not begun
    Canceled,   \* the shifts that have been canceled
    Clash,      \* pairs of shifts that overlap
    Training,   \* the trainings that go with each shift
    Slots,      \* places on a shift
    FirstOn,    \* who is on each shift to begin with, in each of them
    Mine,       \* the user's own shifts: the account page, and its key
    NoData,
    MaxOps,     \* bound: requests that change something
    MaxFaults   \* bound: requests that fail or whose answer is lost

(* noshow: pending X, checked in the empty string, absent Yes.  A row the  *)
(* socket pushed has none.                                                 *)
Attendance == {"pending", "here", "absent"}
Shown      == Attendance \cup {"off", "unset"}

ASSUME PagesAssumption ==
    /\ UserOf \in [Browser -> Volunteer]
    /\ \A v \in Sessions : /\ DOMAIN v \subseteq Browser
                            /\ \A t \in DOMAIN v : v[t] \subseteq Shift \cup {Mine}
    /\ Future \subseteq Shift /\ Canceled \subseteq Shift /\ Mine \notin Shift
    /\ Training \in [Shift -> SUBSET (Shift \ Canceled)]
    /\ Clash \subseteq Shift \X Shift
    /\ \A s, x \in Shift : <<s, x>> \in Clash => <<x, s>> \in Clash /\ s # x
    /\ FirstOn \in [Sessions -> [Shift -> SUBSET Volunteer]]
    /\ Slots \in Nat /\ MaxOps \in Nat /\ MaxFaults \in Nat
    /\ IsFiniteSet(Volunteer)
    /\ \A own \in SUBSET Shift : NoData # own
    /\ NoData \notin [list : [Volunteer -> Shown], filled : Nat]

Key == Shift \cup {Mine}

VARIABLES
    row,        \* op_volunteer_shifts: off, or the attendance of who is on
    visits,     \* one of Sessions
    at,         \* the page each tab shows
    cache, wait, got, \* per tab and key: data, where its GET is, its answer
    left,       \* what the account page of a tab has shown last
    listening,  \* the pages that have handlers on the socket
    inbox,      \* events on their way to a tab
    op,         \* what the user of a tab is doing
    unaware,    \* history: keys that changed without their page hearing it
    crowded,    \* history: shifts with sign-ups decided side by side, and
                \* trainings taken along with another shift
    along,      \* history: who is on which training since it was taken along
    hasty,      \* history: volunteers who did not wait for their own shifts
    ops, faults

fetch == <<cache, wait, got, left>>
past  == <<crowded, along, hasty>>
vars  == <<row, visits, at, fetch, listening, inbox, op, unaware, past, ops, faults>>

Tab == DOMAIN visits

(* Tabs whose user goes from page to page.                                 *)
Roaming(t) == Cardinality(visits[t]) > 1

-----------------------------------------------------------------------------
OnShift(s) == {v \in Volunteer : row[s][v] # "off"}
Overlap(s, x) == s = x \/ <<s, x>> \in Clash

(* What a sign-up writes: noShowShift.                                     *)
Initially(s) == IF s \in Future THEN "pending" ELSE "here"

(* The answers of the two GETs.  The count is taken from the rows.         *)
View(t, k) ==
    IF k = Mine THEN {s \in Shift : UserOf[t] \in OnShift(s)}
    ELSE [list |-> row[k], filled |-> Cardinality(OnShift(k))]

Idle(t) == [pc |-> "idle", kind |-> "none", who |-> UserOf[t],
            shift |-> NoData, training |-> NoData, value |-> "off", raced |-> FALSE]

Busy(t) == op[t].pc \in {"posting", "written"}
Loaded(t) == cache[t][at[t]] # NoData

(* The dialog is open, with the posting of the training it adds too.       *)
Dialog(t) == op[t].pc # "idle" /\ op[t].kind \in {"add", "train"}

Init ==
    /\ visits \in Sessions
    /\ row = [s \in Shift |-> [v \in Volunteer |->
                  IF v \in FirstOn[visits][s] THEN "pending" ELSE "off"]]
    /\ at \in [Tab -> Key] /\ \A t \in Tab : at[t] \in visits[t]
    /\ cache = [t \in Tab |-> [k \in Key |-> NoData]]
    /\ wait = [t \in Tab |-> [k \in Key |-> IF k = at[t] THEN "out" ELSE "none"]]
    /\ got = [t \in Tab |-> [k \in Key |-> NoData]]
    /\ left = [t \in Tab |-> NoData]
    /\ listening = [t \in Tab |-> {}]
    /\ inbox = [t \in Tab |-> <<>>]
    /\ op = [t \in Tab |-> Idle(t)]
    /\ unaware = [t \in Tab |-> {}]
    /\ crowded = {} /\ along = {} /\ hasty = {}
    /\ ops = 0 /\ faults = 0

-----------------------------------------------------------------------------
(* A new GET for each of the keys; the answers of older ones do not count. *)
Ask(t, keys) ==
    /\ wait' = [wait EXCEPT ![t] = [k \in Key |-> IF k \in keys THEN "out" ELSE @[k]]]
    /\ got' = [got EXCEPT ![t] = [k \in Key |-> IF k \in keys THEN NoData ELSE @[k]]]
    /\ unaware' = [unaware EXCEPT ![t] = @ \ keys]

(* What a tab has of a key was read before now, and it need not ask again. *)
Stale(t, k) == wait[t][k] = "got" \/ (wait[t][k] = "none" /\ cache[t][k] # NoData)

(* The server answers a GET.                                               *)
Read(t, k) ==
    /\ t \in Tab /\ wait[t][k] = "out"
    /\ wait' = [wait EXCEPT ![t][k] = "got"]
    /\ got' = [got EXCEPT ![t][k] = View(t, k)]
    /\ UNCHANGED <<row, visits, at, cache, left, listening, inbox, op, unaware,
                   past, ops, faults>>

(* The answer arrives.  While a request of the page itself is going on it  *)
(* is thrown away, unless an event came in between.                        *)
Land(t, k) ==
    /\ t \in Tab /\ wait[t][k] = "got"
    /\ wait' = [wait EXCEPT ![t][k] = "none"]
    /\ got' = [got EXCEPT ![t][k] = NoData]
    /\ cache' = IF k = at[t] /\ Busy(t) /\ ~ op[t].raced THEN cache
                ELSE [cache EXCEPT ![t][k] = got[t][k]]
    /\ UNCHANGED <<row, visits, at, left, listening, inbox, op, unaware, past,
                   ops, faults>>

(* A page or dialog opens that needs k: it waits for a request under way,  *)
(* and does without one if its data are recent, which they never are when  *)
(* an event has touched them while their page was not on the screen.       *)
Need(t, k) ==
    \/ wait[t][k] \in {"none", "due"} /\ Ask(t, {k})
    \/ /\ wait[t][k] # "due" /\ (wait[t][k] = "none" => cache[t][k] # NoData)
       /\ Ask(t, {})

(* The window is looked at again.                                          *)
Focus(t, k) ==
    /\ t \in Tab
    /\ k = at[t] \/ (k = Mine /\ Dialog(t) /\ Roaming(t))
    /\ wait[t][k] = "none" /\ Ask(t, {k})
    /\ UNCHANGED <<row, visits, at, cache, left, listening, inbox, op, past, ops, faults>>

(* The user goes to another page.                                          *)
Open(t, k) ==
    /\ t \in Tab /\ k \in visits[t]
    /\ at[t] # k /\ op[t].pc = "idle"
    /\ at' = [at EXCEPT ![t] = k]
    /\ left' = IF at[t] = Mine THEN [left EXCEPT ![t] = cache[t][Mine]] ELSE left
    /\ Need(t, k)
    /\ UNCHANGED <<row, visits, cache, listening, inbox, op, past, ops, faults>>

(* The effect that registers the handlers does nothing without data, and   *)
(* waits for /api/socket first.  Handlers are never taken off.             *)
Listen(t) ==
    /\ t \in Tab /\ Loaded(t) /\ at[t] \notin listening[t]
    /\ listening' = [listening EXCEPT ![t] = @ \cup {at[t]}]
    /\ UNCHANGED <<row, visits, at, fetch, inbox, op, unaware, past, ops, faults>>

-----------------------------------------------------------------------------
(* What the handlers do to a list.  They do not look at the shift of the   *)
(* event; a check-in event says isCheckedIn and the handler reads checked. *)
Patched(list, e) ==
    CASE e.kind = "add"    -> [list EXCEPT ![e.who] = IF @ = "off" THEN "unset" ELSE @]
      [] e.kind = "remove" -> [list EXCEPT ![e.who] = "off"]
      [] e.kind = "toggle" -> [list EXCEPT ![e.who] = IF @ = "off" THEN @ ELSE "absent"]

(* The account page has no handler for those who are added.                *)
Hears(e) == IF e.kind = "add" THEN e.to \ {Mine} ELSE e.to

(* The account page does not look at whose shift it is, and patches, when  *)
(* it is no longer on the screen, what it showed last.                     *)
PatchedMine(t, e) ==
    LET own == IF at[t] = Mine THEN cache[t][Mine] ELSE left[t]
    IN  IF e.kind = "remove" THEN own \ {e.shift} ELSE own

(* On the screen: the page and, in the dialog, the user's own shifts.      *)
OnScreen(t) == {at[t]} \cup IF Roaming(t) /\ Dialog(t) THEN {Mine} ELSE {}

(* mutate(data) for every page that has handlers; what is on the screen is *)
(* asked for again, and overtakes a request of its own.                    *)
Revalidate(t, pages) ==
    LET open == pages \cap OnScreen(t)
    IN  /\ wait' = [wait EXCEPT ![t] = [k \in Key |->
                       IF k \in open THEN "out" ELSE IF k \in pages THEN "due" ELSE @[k]]]
        /\ got' = [got EXCEPT ![t] = [k \in Key |-> IF k \in pages THEN NoData ELSE @[k]]]

Receive(t) ==
    /\ t \in Tab /\ inbox[t] # <<>>
    /\ LET e == Head(inbox[t])
           pages == listening[t] \cap Hears(e)
           deaf == {k \in {e.shift} \ pages : Stale(t, k)}
       IN  /\ inbox' = [inbox EXCEPT ![t] = Tail(@)]
           /\ cache' = [cache EXCEPT ![t] = [k \in Key |->
                  CASE k \notin pages -> cache[t][k]
                    [] k \in pages /\ k = Mine -> PatchedMine(t, e)
                    [] OTHER -> [cache[t][k] EXCEPT
                                    !.list = Patched(cache[t][k].list, e)]]]
           /\ Revalidate(t, pages)
           /\ op' = [op EXCEPT ![t].raced = @ \/ (Busy(t) /\ at[t] \in pages)]
           /\ unaware' = [unaware EXCEPT ![t] = (@ \ (pages \cap OnScreen(t))) \cup deaf]
    /\ UNCHANGED <<row, visits, at, left, listening, past, ops, faults>>

-----------------------------------------------------------------------------
(* The page has heard of everything and waits for nothing.                 *)
Settled(t, s) ==
    /\ wait[t][s] = "none" /\ ~ Busy(t) /\ inbox[t] = <<>> /\ s \notin unaware[t]
    /\ \A x \in Tab : ~ (op[x].pc = "written" /\ op[x].shift = s)

SigningUp(t, s) == Dialog(t) /\ at[t] = s

(* Mutant: the last comparison is =<.                                      *)
OfferedOneMore(t) ==
    /\ at[t] \notin Canceled
    /\ cache[t][at[t]].list[UserOf[t]] = "off"
    /\ at[t] \in Future => cache[t][at[t]].filled =< Slots

(* Whether the page offers a place, as far as it knows.                    *)
Offered(t) ==
    /\ at[t] \notin Canceled
    /\ cache[t][at[t]].list[UserOf[t]] = "off"
    /\ at[t] \in Future => cache[t][at[t]].filled < Slots

(* The user opens the dialog, which asks for her shifts, and picks the     *)
(* position.                                                               *)
Pick(t) ==
    /\ t \in Tab /\ op[t].pc = "idle" /\ at[t] \in Shift /\ Loaded(t) /\ Offered(t)
    /\ op' = [op EXCEPT ![t].pc = "picked", ![t].kind = "add", ![t].shift = at[t],
                        ![t].value = Initially(at[t])]
    /\ IF Roaming(t) THEN Need(t, Mine) ELSE Ask(t, {})
    /\ crowded' = IF Settled(t, at[t])
                     /\ \A x \in Tab \ {t} : ~ SigningUp(x, at[t])
                  THEN crowded ELSE crowded \cup {at[t]}
    /\ UNCHANGED <<row, visits, at, cache, left, listening, inbox, along, hasty, ops,
                   faults>>

Cancel(t) ==
    /\ t \in Tab /\ op[t].pc = "picked"
    /\ op' = [op EXCEPT ![t] = Idle(t)]
    /\ UNCHANGED <<row, visits, at, fetch, listening, inbox, unaware, past, ops, faults>>

(* Mutant: a list that is not there yet blocks nothing.                    *)
MaySubmitUnloaded(t) ==
    cache[t][Mine] # NoData => \A s \in cache[t][Mine] \ Canceled : ~ Overlap(s, at[t])

(* onSubmit: without the list of her shifts the sign-up is not sent, nor   *)
(* when one of them that is not canceled overlaps.                         *)
MaySubmit(t) ==
    cache[t][Mine] # NoData /\ \A s \in cache[t][Mine] \ Canceled : ~ Overlap(s, at[t])

(* The training that goes with the sign-up: one, if the shift has any and  *)
(* her list, as far as the dialog has it, shows none of them.              *)
Trainings(t) ==
    LET own == IF cache[t][Mine] = NoData THEN {} ELSE cache[t][Mine]
    IN  IF Training[at[t]] \cap own = {} /\ Training[at[t]] # {}
        THEN Training[at[t]] \cup IF cache[t][Mine] = NoData THEN {NoData} ELSE {}
        ELSE {NoData}

Post(t, request) ==
    /\ ops < MaxOps /\ ops' = ops + 1
    /\ op' = [op EXCEPT ![t] = request]
    /\ UNCHANGED <<row, visits, at, fetch, listening, inbox, unaware, along, faults>>

(* The form wants a volunteer whom the page's list does not show.          *)
Submit(t, also) ==
    /\ t \in Tab /\ op[t].pc = "picked" /\ (Roaming(t) => MaySubmit(t))
    /\ cache[t][at[t]].list[UserOf[t]] = "off"
    /\ also \in Trainings(t)
    /\ Post(t, [op[t] EXCEPT !.pc = "posting", !.training = also])
    /\ crowded' = crowded \cup ({also} \ {NoData})
    /\ hasty' = IF /\ cache[t][Mine] = NoData
                      \/ (wait[t][Mine] = "none" /\ Mine \notin unaware[t])
                   /\ \A x \in Tab \ {t} : UserOf[x] = UserOf[t] => op[x].pc = "idle"
                THEN hasty ELSE hasty \cup {UserOf[t]}

(* The user takes herself off a shift.                                     *)
Leave(t, s) ==
    /\ t \in Tab /\ op[t].pc = "idle" /\ Loaded(t)
    /\ IF at[t] = Mine THEN s \in cache[t][Mine]
                       ELSE s = at[t] /\ cache[t][s].list[UserOf[t]] # "off"
    /\ Post(t, [Idle(t) EXCEPT !.pc = "posting", !.kind = "remove", !.shift = s])
    /\ UNCHANGED <<crowded, hasty>>

(* The switch of the row of v, once check-in has begun; on the account     *)
(* page it may show either.                                                *)
Toggle(t, s, v) ==
    /\ t \in Tab /\ op[t].pc = "idle" /\ Loaded(t) /\ s \notin Future
    /\ \E value \in {"here", "absent"} :
          /\ IF at[t] = Mine THEN s \in cache[t][Mine] /\ v = UserOf[t]
             ELSE /\ s = at[t] /\ s \notin Canceled /\ cache[t][s].list[v] # "off"
                  /\ (value = "absent") = (cache[t][s].list[v] = "here")
          /\ Post(t, [Idle(t) EXCEPT !.pc = "posting", !.kind = "toggle", !.who = v,
                                     !.shift = s, !.value = value])
    /\ UNCHANGED <<crowded, hasty>>

-----------------------------------------------------------------------------
(* The server writes the row; of a row that was removed the attendance is  *)
(* written and nobody sees it.                                             *)
Write(t) ==
    LET v == op[t].who  s == op[t].shift
        own == {x \in Tab : UserOf[x] = v /\ op[t].kind # "toggle" /\ Stale(x, Mine)}
    IN  /\ t \in Tab /\ op[t].pc = "posting"
        /\ row' = [row EXCEPT ![s][v] =
                      IF op[t].kind = "toggle" /\ @ = "off" THEN @ ELSE op[t].value]
        /\ op' = [op EXCEPT ![t].pc = "written"]
        /\ unaware' = [x \in Tab |-> IF x \in own THEN unaware[x] \cup {Mine}
                                     ELSE unaware[x]]
        /\ along' = CASE op[t].kind = "train"  -> along \cup {<<v, s>>}
                      [] op[t].kind = "remove" -> along \ {<<v, s>>}
                      [] OTHER -> along
        /\ UNCHANGED <<visits, at, fetch, listening, inbox, crowded, hasty, ops, faults>>

(* The end of a request of the page: it asks again, unless an event has    *)
(* overtaken the request.                                                  *)
AskAgain(t) == Ask(t, IF op[t].raced THEN {} ELSE {at[t]})

(* Mutant: everybody but the sender's browser.                             *)
ToldOthers(t) == [x \in Tab |-> IF x = t THEN {} ELSE Key]

(* Who is told.  A dialog has a connection of its own, so what it sends    *)
(* comes back to the page it belongs to; the switch is the page's, and the *)
(* pages of shifts share a connection.                                     *)
Told(t) == IF op[t].kind = "toggle" THEN [x \in Tab |-> IF x # t THEN Key
                                                   ELSE IF at[t] = Mine THEN Shift
                                                   ELSE {Mine}]
                                    ELSE [x \in Tab |-> Key]

(* After the answer: the training is posted next, to the same key, with    *)
(* the attendance of the shift, and no gate looks at it; or all is done.   *)
Afterwards(t) ==
    IF op[t].training = NoData THEN Idle(t)
    ELSE [op[t] EXCEPT !.pc = "posting", !.kind = "train", !.shift = op[t].training,
                       !.training = NoData, !.raced = FALSE]

(* The answer is there: the page asks again and sends the event.           *)
Reply(t) ==
    LET k == at[t]
        event(x) == [kind |-> IF op[t].kind = "train" THEN "add" ELSE op[t].kind,
                     who |-> op[t].who, shift |-> op[t].shift, to |-> Told(t)[x]]
        deaf == op[t].raced /\ op[t].kind = "toggle" /\ k # Mine /\ Stale(t, k)
    IN  /\ t \in Tab /\ op[t].pc = "written"
        /\ wait' = [wait EXCEPT ![t][k] = IF op[t].raced THEN @ ELSE "out"]
        /\ got' = [got EXCEPT ![t][k] = IF op[t].raced THEN @ ELSE NoData]
        /\ unaware' = [unaware EXCEPT ![t] =
               (IF op[t].raced THEN @ ELSE @ \ {k}) \cup IF deaf THEN {k} ELSE {}]
        /\ inbox' = [x \in Tab |-> IF Told(t)[x] \cap visits[x] # {}
                                   THEN Append(inbox[x], event(x)) ELSE inbox[x]]
        /\ op' = [op EXCEPT ![t] = Afterwards(t)]
        /\ UNCHANGED <<row, visits, at, cache, left, listening, past, ops, faults>>

(* The request fails before or after its statement: an error is shown, no  *)
(* event is sent, and the dialog stays open, also when it is the training  *)
(* that fails and the shift itself is taken.                               *)
Fail(t) ==
    LET k == at[t]  s == op[t].shift
        silent == op[t].pc = "written"
        unheard(x) == IF silent /\ (x # t \/ k # s \/ op[t].raced) /\ Stale(x, s)
                      THEN {s} ELSE {}
    IN  /\ t \in Tab /\ Busy(t)
        /\ faults < MaxFaults /\ faults' = faults + 1
        /\ wait' = [wait EXCEPT ![t][k] = IF op[t].raced THEN @ ELSE "out"]
        /\ got' = [got EXCEPT ![t][k] = IF op[t].raced THEN @ ELSE NoData]
        /\ unaware' = [x \in Tab |->
               (IF x = t /\ ~ op[t].raced THEN unaware[x] \ {k} ELSE unaware[x])
                   \cup unheard(x)]
        /\ op' = [op EXCEPT ![t] = IF Dialog(t)
                     THEN [@ EXCEPT !.pc = "picked", !.kind = "add", !.shift = at[t],
                                    !.training = NoData, !.raced = FALSE]
                     ELSE Idle(t)]
        /\ UNCHANGED <<row, visits, at, cache, left, listening, inbox, past, ops>>

-----------------------------------------------------------------------------
Next ==
    \E t \in Browser :
        \/ \E k \in Key : Read(t, k) \/ Land(t, k) \/ Focus(t, k)
                            \/ Open(t, k)
        \/ Listen(t) \/ Receive(t)
        \/ Pick(t) \/ Cancel(t) \/ \E x \in {NoData} \cup Shift : Submit(t, x)
        \/ \E s \in Shift : Leave(t, s) \/ \E v \in Volunteer : Toggle(t, s, v)
        \/ Write(t) \/ Reply(t) \/ Fail(t)

Spec == Init /\ [][Next]_vars

-----------------------------------------------------------------------------
TypeOK ==
    /\ row \in [Shift -> [Volunteer -> Attendance \cup {"off"}]]
    /\ at \in [Tab -> Key]
    /\ \A t \in Tab : Mine \in listening[t] /\ at[t] # Mine => left[t] # NoData
    /\ \A t \in Tab, k \in Key :
          /\ (wait[t][k] = "got") = (got[t][k] # NoData)
          /\ wait[t][k] \in {"none", "due", "out", "got"}
          /\ cache[t][k] # NoData =>
                 IF k = Mine THEN cache[t][k] \subseteq Shift
                 ELSE /\ cache[t][k].list \in [Volunteer -> Shown]
                      /\ cache[t][k].filled \in 0 .. Cardinality(Volunteer)
    /\ \A t \in Tab : \A k \in listening[t] : cache[t][k] # NoData
    /\ unaware \in [Tab -> SUBSET Key] /\ along \subseteq Volunteer \X Shift
    /\ ops \in 0 .. MaxOps /\ faults \in 0 .. MaxFaults

(* ShiftVolunteers.tsx:194: whatever the events have put into a page, of a *)
(* shift or of the account, of what has changed elsewhere or of somebody   *)
(* else's shifts, when it waits for nothing and no change went unheard it  *)
(* shows the table.                                                        *)
SettledPagesAgree ==
    /\ TypeOK
    /\ \A t \in Tab :
          Loaded(t) /\ Settled(t, at[t]) => cache[t][at[t]] = View(t, at[t])

(* A shift yet to come gets no more people than places, if nobody picks a  *)
(* place while another sign-up is under way or before her page has heard   *)
(* of the last, and nobody takes it along as a training: the gate is the   *)
(* page's, and the page's count is only as good as the events that make it *)
(* ask again.                                                              *)
SlotsKept ==
    \A s \in Future : Cardinality(OnShift(s)) > Slots => s \in crowded

(* ShiftVolunteersDialogAdd.tsx:618: nobody is on two shifts that overlap, *)
(* if she submits one sign-up at a time and not before the list of her     *)
(* shifts has been read again after her last change.  Two kinds do not     *)
(* count: shifts that are canceled, and trainings taken along with another *)
(* shift, whose overlap is only warned of (:877) and which may overlap     *)
(* with that very shift.                                                   *)
NoDoubleBooking ==
    \A v \in Volunteer : \A s, x \in Shift \ Canceled :
        /\ <<s, x>> \in Clash /\ v \in OnShift(s) \cap OnShift(x)
        /\ <<v, s>> \notin along /\ <<v, x>> \notin along
        => v \in hasty

-----------------------------------------------------------------------------
(* What the last two presuppose: the shifts begin with no more people than *)
(* places; nobody begins on two that overlap; and a tab that sees one page *)
(* only, whose dialog is without the list of the user's shifts, is not of  *)
(* a shift that overlaps with another she is on or may come to.            *)
RoomAtFirst == \A d \in Sessions, s \in Future : Cardinality(FirstOn[d][s]) <= Slots

ApartAtFirst ==
    \A d \in Sessions, v \in Volunteer, s, x \in Shift \ Canceled :
        <<s, x>> \in Clash => ~ (v \in FirstOn[d][s] /\ v \in FirstOn[d][x])

ListWhereNeeded ==
    \A d \in Sessions : \A t \in DOMAIN d :
        \/ Cardinality(d[t]) > 1
        \/ \A s \in d[t] \cap Shift, x \in Shift \ Canceled :
               <<s, x>> \in Clash =>
                   /\ UserOf[t] \notin FirstOn[d][x]
                   /\ \A u \in DOMAIN d : UserOf[u] = UserOf[t] => x \notin d[u]
=============================================================================

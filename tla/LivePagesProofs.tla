-------------------------- MODULE LivePagesProofs --------------------------
(***************************************************************************)
(* What the pages of LivePages promise, for every number of tabs, shifts   *)
(* and volunteers, every time table and every bound on the requests.       *)
(*                                                                         *)
(* The invariant behind SettledPagesAgree is Honest: as long as no change  *)
(* of a key went unheard, is on its way, or is written and not yet told,   *)
(* an answer that a tab has got, and data it holds while it waits for      *)
(* nothing, are the table's.  The events patch what a page holds in ways   *)
(* that need not be right; what saves it is that a page that was patched   *)
(* is due to ask again.                                                    *)
(*                                                                         *)
(* The two theorems about sign-ups count the sign-ups that have been       *)
(* decided and not written yet among the shifts' people.                   *)
(***************************************************************************)
EXTENDS LivePages, FiniteSetTheorems, TLAPS

(* What a GET may answer.                                                  *)
Rows       == [list : [Volunteer -> Shown], filled : 0 .. Cardinality(Volunteer)]
AnswerOf(k) == IF k = Mine THEN SUBSET Shift ELSE Rows
Data       == {NoData} \cup (SUBSET Shift) \cup Rows

DataOn(tabs, f) ==
    /\ f \in [tabs -> [Key -> Data]]
    /\ \A t \in tabs, k \in Key : f[t][k] \in {NoData} \cup AnswerOf(k)

Phase == {"none", "due", "out", "got"}
Event == [kind : {"add", "remove", "toggle"}, who : Volunteer, shift : Shift,
          to : SUBSET Key]
Op    == [pc : {"idle", "picked", "posting", "written"},
          kind : {"none", "add", "train", "remove", "toggle"}, who : Volunteer,
          shift : {NoData} \cup Shift, training : {NoData} \cup Shift,
          value : Attendance \cup {"off"}, raced : BOOLEAN]

FetchOK ==
    /\ wait \in [Tab -> [Key -> Phase]]
    /\ DataOn(Tab, cache) /\ DataOn(Tab, got)
    /\ \A t \in Tab, k \in Key : wait[t][k] = "got" <=> got[t][k] # NoData
    /\ left \in [Tab -> {NoData} \cup SUBSET Shift]
    /\ \A t \in Tab : \A k \in Shift \ visits[t] :
           wait[t][k] = "none" /\ cache[t][k] = NoData

PlaceOK ==
    /\ visits \in Sessions
    /\ at \in [Tab -> Key] /\ \A t \in Tab : at[t] \in visits[t]

HearOK ==
    /\ listening \in [Tab -> SUBSET Key]
    /\ \A t \in Tab : /\ listening[t] \subseteq visits[t]
                      /\ \A k \in listening[t] : cache[t][k] # NoData
                      /\ Mine \in listening[t] /\ at[t] # Mine => left[t] # NoData

(* What a user is doing is about the page she is at.                       *)
OpOK(o, t, k) ==
    /\ o.pc # "idle" => o.kind # "none" /\ o.shift \in Shift
    /\ o.pc = "idle" => o.who = UserOf[t]
    /\ o.pc = "picked" => o.kind = "add"
    /\ o.pc \notin {"posting", "written"} => ~ o.raced
    /\ o.pc # "idle" /\ o.kind \in {"add", "train"} =>
           k \in Shift /\ o.who = UserOf[t] /\ o.value # "off"
    /\ o.pc # "idle" /\ o.kind = "add" => o.shift = k
    /\ o.training # NoData => o.kind = "add"
    /\ o.pc # "idle" /\ o.kind = "remove" => o.value = "off"
    /\ o.pc # "idle" /\ o.kind = "toggle" =>
           o.value # "off" /\ (k = Mine \/ o.shift = k)

OpsOK == op \in [Tab -> Op] /\ \A t \in Tab : OpOK(op[t], t, at[t])

RestOK ==
    /\ inbox \in [Tab -> Seq(Event)]
    /\ row \in [Shift -> [Volunteer -> Attendance \cup {"off"}]]
    /\ unaware \in [Tab -> SUBSET Key]
    /\ crowded \subseteq Shift /\ hasty \subseteq Volunteer
    /\ along \subseteq Volunteer \X Shift
    /\ ops \in 0 .. MaxOps /\ faults \in 0 .. MaxFaults

PagesType == FetchOK /\ PlaceOK /\ HearOK /\ OpsOK /\ RestOK

(* An event about k is on its way to t; a change of k is not told yet.     *)
Pending(t, k) == \E i \in DOMAIN inbox[t] : inbox[t][i].shift = k
Changing(k)   == \E x \in Tab : op[x].pc = "written" /\ op[x].shift = k

(* Nothing has changed that t was not told, or is not about to be.         *)
Vouched(t, k) == k \notin unaware[t] /\ ~ Pending(t, k) /\ ~ Changing(k)

(* While a request of the page is going on its answers may be thrown away; *)
(* it asks again at the end.                                               *)
Exempt(t, k) == k = at[t] /\ Busy(t) /\ ~ op[t].raced

Honest(t, k) ==
    Vouched(t, k) =>
        /\ wait[t][k] = "got" => got[t][k] = View(t, k)
        /\ wait[t][k] = "none" /\ cache[t][k] # NoData /\ ~ Exempt(t, k) =>
               cache[t][k] = View(t, k)

PagesHonest == \A t \in Tab, k \in Key : Honest(t, k)
PagesInv    == PagesType /\ PagesHonest

(* Who is on a shift or about to be.                                       *)
Party(s) == OnShift(s) \cup {UserOf[t] : t \in {x \in Tab : SigningUp(x, s)}}
RoomInv  == \A s \in Future \ crowded : Cardinality(Party(s)) <= Slots

(* A training that is or will be posted has been noted.                    *)
NotedInv == \A t \in Tab :
    /\ op[t].training # NoData => op[t].training \in crowded
    /\ op[t].kind = "train" => op[t].shift \in crowded

(* The shifts v has asked for, or is on and did not take along as a        *)
(* training.                                                               *)
Sending(t, s) == Busy(t) /\ op[t].kind = "add" /\ op[t].shift = s
AskedFor(v, s) == \E t \in Tab : UserOf[t] = v /\ Sending(t, s)
Holds(v, s) == v \in OnShift(s) /\ <<v, s>> \notin along
Submits(t) == \E also \in {NoData} \cup Shift : Submit(t, also)
Plans(v)  == {s \in Shift \ Canceled : Holds(v, s) \/ AskedFor(v, s)}
ClashInv  == \A v \in Volunteer \ hasty : \A s, x \in Plans(v) : <<s, x>> \notin Clash

(* Who is on a shift was on it from the beginning, has been at its page,   *)
(* or has taken it along as a training.                                    *)
Came(v, s) == v \in FirstOn[visits][s] \/ \E t \in Tab : UserOf[t] = v /\ s \in visits[t]
CameInv    == \A s \in Shift : \A v \in Volunteer : Holds(v, s) => Came(v, s)

-----------------------------------------------------------------------------
(* What the tabs and the tables give every step.                           *)
LEMMA Tabs ==
    ASSUME PlaceOK
    PROVE  \A t \in Tab : /\ t \in Browser /\ UserOf[t] \in Volunteer
                          /\ visits[t] \subseteq Key
                          /\ at[t] \in Key /\ at[t] \in visits[t]
BY PagesAssumption DEF PlaceOK, Tab, Key

LEMMA NoDataApart == /\ \A own \in SUBSET Shift : NoData # own
                     /\ NoData \notin Rows
<1>1. \A r \in Rows : r \in [list : [Volunteer -> Shown], filled : Nat]
  BY FS_CardinalityType, PagesAssumption DEF Rows
<1> QED BY <1>1, PagesAssumption

LEMMA OnShiftCount ==
    ASSUME NEW s \in Shift
    PROVE  /\ OnShift(s) \subseteq Volunteer /\ IsFiniteSet(OnShift(s))
           /\ Cardinality(OnShift(s)) \in 0 .. Cardinality(Volunteer)
<1>1. OnShift(s) \subseteq Volunteer
  BY DEF OnShift
<1>2. IsFiniteSet(Volunteer)
  BY PagesAssumption
<1>3. /\ IsFiniteSet(OnShift(s))
      /\ Cardinality(OnShift(s)) <= Cardinality(Volunteer)
  BY <1>1, <1>2, FS_Subset
<1>4. Cardinality(OnShift(s)) \in Nat /\ Cardinality(Volunteer) \in Nat
  BY <1>2, <1>3, FS_CardinalityType
<1> QED BY <1>1, <1>3, <1>4

LEMMA ViewType ==
    ASSUME RestOK, NEW t \in Tab, NEW k \in Key
    PROVE  View(t, k) \in AnswerOf(k) /\ View(t, k) # NoData
<1>1. CASE k = Mine
  BY <1>1, NoDataApart DEF View, AnswerOf
<1>2. CASE k \in Shift
  <2>1. k # Mine
    BY <1>2, PagesAssumption
  <2>2. row[k] \in [Volunteer -> Shown]
    BY <1>2 DEF RestOK, Shown
  <2>3. Cardinality(OnShift(k)) \in 0 .. Cardinality(Volunteer)
    BY <1>2, OnShiftCount
  <2>4. View(t, k) \in Rows
    BY <2>1, <2>2, <2>3 DEF View, Rows
  <2> QED BY <2>1, <2>4, NoDataApart DEF AnswerOf
<1> QED BY <1>1, <1>2 DEF Key

LEMMA ViewStays ==
    ASSUME row' = row, NEW t, NEW k
    PROVE  View(t, k)' = View(t, k)
BY DEF View, OnShift

LEMMA PatchedType ==
    ASSUME NEW list \in [Volunteer -> Shown], NEW e \in Event
    PROVE  Patched(list, e) \in [Volunteer -> Shown]
BY DEF Patched, Event, Shown, Attendance

LEMMA DataPut ==
    ASSUME NEW tabs, NEW f, NEW t \in tabs, NEW k \in Key, DataOn(tabs, f),
           NEW d \in {NoData} \cup AnswerOf(k)
    PROVE  DataOn(tabs, [f EXCEPT ![t][k] = d])
<1> DEFINE g == [f EXCEPT ![t][k] = d]
<1>1. d \in Data
  BY DEF AnswerOf, Data
<1>2. /\ g \in [tabs -> [Key -> Data]]
      /\ \A u \in tabs, j \in Key : g[u][j] = IF u = t /\ j = k THEN d ELSE f[u][j]
  BY <1>1 DEF DataOn
<1> QED BY <1>2 DEF DataOn

(* The steps that only ask.                                                *)
LEMMA AskEffect ==
    ASSUME FetchOK, RestOK, NEW t \in Tab, NEW keys \in SUBSET Key, Ask(t, keys)
    PROVE  /\ wait' \in [Tab -> [Key -> Phase]]
           /\ DataOn(Tab, got')
           /\ unaware' \in [Tab -> SUBSET Key]
           /\ \A u \in Tab, k \in Key :
                 IF u = t /\ k \in keys
                 THEN wait'[u][k] = "out" /\ got'[u][k] = NoData
                 ELSE /\ wait'[u][k] = wait[u][k] /\ got'[u][k] = got[u][k]
                      /\ k \in unaware[u] <=> k \in unaware'[u]
<1> USE DEF Ask
<1>1. wait' \in [Tab -> [Key -> Phase]] /\ unaware' \in [Tab -> SUBSET Key]
  BY DEF FetchOK, RestOK, Phase
<1>2. \A u \in Tab, k \in Key :
          /\ wait'[u][k] = IF u = t /\ k \in keys THEN "out" ELSE wait[u][k]
          /\ got'[u][k] = IF u = t /\ k \in keys THEN NoData ELSE got[u][k]
          /\ unaware'[u] = IF u = t THEN unaware[u] \ keys ELSE unaware[u]
  BY DEF FetchOK, RestOK, DataOn
<1>3. got' \in [Tab -> [Key -> Data]]
  BY DEF FetchOK, DataOn, Data
<1>4. \A u \in Tab, k \in Key : got'[u][k] \in {NoData} \cup AnswerOf(k)
  BY <1>2 DEF FetchOK, DataOn
<1> QED BY <1>1, <1>2, <1>3, <1>4 DEF DataOn

LEMMA AskKeepsFetch ==
    ASSUME FetchOK, RestOK, NEW t \in Tab, NEW keys \in SUBSET Key, Ask(t, keys),
           keys \cap Shift \subseteq visits[t], UNCHANGED <<visits, cache>>,
           left' \in [Tab -> {NoData} \cup SUBSET Shift]
    PROVE  FetchOK' /\ unaware' \in [Tab -> SUBSET Key]'
<1>0. Tab' = Tab
  BY DEF Tab
<1>1. \A u \in Tab, k \in Key : wait'[u][k] = "got" <=> got'[u][k] # NoData
  <2> SUFFICES ASSUME NEW u \in Tab, NEW k \in Key
               PROVE  wait'[u][k] = "got" <=> got'[u][k] # NoData
    OBVIOUS
  <2>1. wait[u][k] = "got" <=> got[u][k] # NoData
    BY DEF FetchOK
  <2> QED BY <2>1, AskEffect
<1>2. \A u \in Tab : \A k \in Shift \ visits[u] :
          wait'[u][k] = "none" /\ cache[u][k] = NoData
  <2> SUFFICES ASSUME NEW u \in Tab, NEW k \in Shift \ visits[u]
               PROVE  wait'[u][k] = "none" /\ cache[u][k] = NoData
    OBVIOUS
  <2>1. k \in Key /\ ~ (u = t /\ k \in keys)
    BY DEF Key
  <2>2. wait[u][k] = "none" /\ cache[u][k] = NoData
    BY DEF FetchOK
  <2> QED BY <2>1, <2>2, AskEffect
<1> QED BY <1>0, <1>1, <1>2, AskEffect DEF FetchOK

LEMMA NeedAsks ==
    ASSUME NEW t, NEW k, Need(t, k)
    PROVE  Ask(t, {k}) \/ Ask(t, {})
BY DEF Need

-----------------------------------------------------------------------------
(* Every action keeps the types, and who does what from where.             *)
LEMMA ReadType ==
    ASSUME PagesType, NEW t, NEW k \in Key, Read(t, k)
    PROVE  PagesType'
<1> USE DEF Read, past
<1>1. t \in Tab /\ Tab' = Tab
  BY DEF Tab
<1>2. View(t, k) \in AnswerOf(k) /\ View(t, k) # NoData
  BY <1>1, ViewType DEF PagesType
<1>3. DataOn(Tab, got')
  BY <1>1, <1>2, DataPut DEF PagesType, FetchOK
<1>4. wait' \in [Tab -> [Key -> Phase]]
  BY <1>1 DEF PagesType, FetchOK, Phase
<1>5. \A u \in Tab, j \in Key :
          /\ wait'[u][j] = IF u = t /\ j = k THEN "got" ELSE wait[u][j]
          /\ got'[u][j] = IF u = t /\ j = k THEN View(t, k) ELSE got[u][j]
  BY <1>1 DEF PagesType, FetchOK, DataOn
<1>6. \A u \in Tab, j \in Key : wait'[u][j] = "got" <=> got'[u][j] # NoData
  BY <1>2, <1>5 DEF PagesType, FetchOK
<1>7. \A u \in Tab : \A j \in Shift \ visits[u] : wait'[u][j] = "none"
  BY <1>5 DEF PagesType, FetchOK, Key
<1>8. FetchOK'
  BY <1>1, <1>3, <1>4, <1>6, <1>7 DEF PagesType, FetchOK
<1>9. PlaceOK' /\ HearOK' /\ OpsOK' /\ RestOK'
  BY <1>1 DEF PagesType, PlaceOK, HearOK, OpsOK, RestOK
<1> QED BY <1>8, <1>9 DEF PagesType

LEMMA LandType ==
    ASSUME PagesType, NEW t, NEW k \in Key, Land(t, k)
    PROVE  PagesType'
<1> USE DEF Land, past
<1>1. t \in Tab /\ Tab' = Tab
  BY DEF Tab
<1>2. got[t][k] \in AnswerOf(k) /\ got[t][k] # NoData
  BY <1>1 DEF PagesType, FetchOK, DataOn
<1>3. DataOn(Tab, got') /\ DataOn(Tab, cache')
  BY <1>1, <1>2, DataPut DEF PagesType, FetchOK
<1>4. wait' \in [Tab -> [Key -> Phase]]
  BY <1>1 DEF PagesType, FetchOK, Phase
<1>5. \A u \in Tab, j \in Key :
          /\ wait'[u][j] = IF u = t /\ j = k THEN "none" ELSE wait[u][j]
          /\ got'[u][j] = IF u = t /\ j = k THEN NoData ELSE got[u][j]
          /\ cache'[u][j] # cache[u][j] => u = t /\ j = k /\ cache'[u][j] = got[t][k]
  BY <1>1 DEF PagesType, FetchOK, DataOn
<1>6. \A u \in Tab, j \in Key : wait'[u][j] = "got" <=> got'[u][j] # NoData
  BY <1>5 DEF PagesType, FetchOK
<1>7. \A u \in Tab : \A j \in Shift \ visits[u] :
          wait'[u][j] = "none" /\ cache'[u][j] = NoData
  <2> SUFFICES ASSUME NEW u \in Tab, NEW j \in Shift \ visits[u]
               PROVE  wait'[u][j] = "none" /\ cache'[u][j] = NoData
    OBVIOUS
  <2>1. j \in Key /\ wait[u][j] = "none" /\ cache[u][j] = NoData
    BY DEF PagesType, FetchOK, Key
  <2>2. ~ (u = t /\ j = k)
    BY <2>1
  <2> QED BY <2>1, <2>2, <1>5
<1>8. FetchOK'
  BY <1>1, <1>3, <1>4, <1>6, <1>7 DEF PagesType, FetchOK
<1>9. HearOK'
  <2>1. \A u \in Tab : \A j \in listening[u] : j \in Key /\ cache'[u][j] # NoData
    BY <1>2, <1>5 DEF PagesType, HearOK
  <2> QED BY <1>1, <2>1 DEF PagesType, HearOK
<1>10. PlaceOK' /\ OpsOK' /\ RestOK'
  BY <1>1 DEF PagesType, PlaceOK, OpsOK, RestOK
<1> QED BY <1>8, <1>9, <1>10 DEF PagesType

LEMMA FocusType ==
    ASSUME PagesType, NEW t, NEW k \in Key, Focus(t, k)
    PROVE  PagesType'
<1> USE DEF Focus, past
<1>1. t \in Tab /\ Tab' = Tab
  BY DEF Tab
<1>2. {k} \cap Shift \subseteq visits[t]
  BY <1>1, PagesAssumption DEF PagesType, PlaceOK
<1>3. FetchOK' /\ unaware' \in [Tab -> SUBSET Key]
  BY <1>1, <1>2, AskKeepsFetch DEF PagesType, FetchOK
<1>4. PlaceOK' /\ HearOK' /\ OpsOK' /\ RestOK'
  BY <1>1, <1>3 DEF PagesType, PlaceOK, HearOK, OpsOK, RestOK
<1> QED BY <1>3, <1>4 DEF PagesType

LEMMA OpenType ==
    ASSUME PagesType, NEW t, NEW k \in Key, Open(t, k)
    PROVE  PagesType'
<1> USE DEF Open, past
<1>1. t \in Tab /\ Tab' = Tab
  BY DEF Tab
<1>2. at[t] \in Key /\ \A u \in Tab : at'[u] = IF u = t THEN k ELSE at[u]
  BY <1>1, Tabs DEF PagesType, PlaceOK
<1>3. cache[t][Mine] \in {NoData} \cup SUBSET Shift
  BY <1>1 DEF PagesType, FetchOK, DataOn, AnswerOf, Key
<1>4. left' \in [Tab -> {NoData} \cup SUBSET Shift]
  BY <1>1, <1>3 DEF PagesType, FetchOK
<1>5. PICK keys \in {{k}, {}} : Ask(t, keys)
  BY NeedAsks
<1>6. FetchOK' /\ unaware' \in [Tab -> SUBSET Key]
  <2>1. keys \in SUBSET Key /\ keys \cap Shift \subseteq visits[t]
    BY <1>5
  <2> QED BY <1>1, <1>4, <1>5, <2>1, AskKeepsFetch DEF PagesType
<1>7. PlaceOK'
  BY <1>1, <1>2 DEF PagesType, PlaceOK
<1>8. HearOK'
  <2> SUFFICES ASSUME NEW u \in Tab, Mine \in listening[u], at'[u] # Mine
               PROVE  left'[u] # NoData
    BY <1>1 DEF PagesType, HearOK
  <2>1. cache[u][Mine] # NoData
    BY DEF PagesType, HearOK
  <2>2. CASE u = t /\ at[t] = Mine
    BY <1>1, <2>1, <2>2 DEF PagesType, FetchOK
  <2>3. CASE ~ (u = t /\ at[t] = Mine)
    <3>1. left'[u] = left[u]
      BY <1>1, <2>3 DEF PagesType, FetchOK
    <3>2. at[u] # Mine
      BY <1>2, <2>3
    <3> QED BY <3>1, <3>2 DEF PagesType, HearOK
  <2> QED BY <2>2, <2>3
<1>9. OpsOK'
  <2>1. \A u \in Tab : OpOK(op[u], u, at'[u])
    BY <1>2 DEF PagesType, OpsOK, OpOK
  <2> QED BY <1>1, <2>1 DEF PagesType, OpsOK
<1>10. RestOK'
  BY <1>1, <1>6 DEF PagesType, RestOK
<1> QED BY <1>6, <1>7, <1>8, <1>9, <1>10 DEF PagesType

LEMMA ListenType ==
    ASSUME PagesType, NEW t, Listen(t)
    PROVE  PagesType'
<1> USE DEF Listen, fetch, past
<1>1. t \in Tab /\ Tab' = Tab
  BY DEF Tab
<1>2. at[t] \in Key /\ at[t] \in visits[t] /\ cache[t][at[t]] # NoData
  BY <1>1, Tabs DEF PagesType, Loaded
<1>3. \A u \in Tab : listening'[u] = IF u = t THEN listening[u] \cup {at[t]}
                                              ELSE listening[u]
  BY <1>1 DEF PagesType, HearOK
<1>4. listening' \in [Tab -> SUBSET Key]
  BY <1>1, <1>2 DEF PagesType, HearOK
<1>5. HearOK'
  BY <1>1, <1>2, <1>3, <1>4 DEF PagesType, HearOK
<1>6. FetchOK' /\ PlaceOK' /\ OpsOK' /\ RestOK'
  BY <1>1 DEF PagesType, FetchOK, PlaceOK, OpsOK, RestOK
<1> QED BY <1>5, <1>6 DEF PagesType

LEMMA OpPut ==
    ASSUME OpsOK, NEW t \in Tab, NEW o \in Op, OpOK(o, t, at[t]),
           op' = [op EXCEPT ![t] = o], UNCHANGED <<at, visits>>
    PROVE  OpsOK'
<1>1. Tab' = Tab
  BY DEF Tab
<1>2. op' \in [Tab -> Op] /\ \A u \in Tab : op'[u] = IF u = t THEN o ELSE op[u]
  BY DEF OpsOK
<1> QED BY <1>1, <1>2 DEF OpsOK

LEMMA IdleType ==
    ASSUME PlaceOK, NEW t \in Tab, NEW k
    PROVE  Idle(t) \in Op /\ OpOK(Idle(t), t, k)
BY Tabs DEF Idle, Op, OpOK

(* What a step of the socket does to the keys of one tab.                  *)
LEMMA ReceiveEffect ==
    ASSUME PagesType, NEW t, Receive(t)
    PROVE  /\ t \in Tab /\ Tab' = Tab /\ Head(inbox[t]) \in Event
           /\ listening[t] \cap Hears(Head(inbox[t])) \subseteq Key
           /\ DOMAIN cache' = Tab
           /\ \A u \in Tab : cache'[u] = [k \in Key |-> cache'[u][k]]
           /\ \A k \in listening[t] \cap Hears(Head(inbox[t])) :
                 /\ wait'[t][k] = IF k \in OnScreen(t) THEN "out" ELSE "due"
                 /\ got'[t][k] = NoData
                 /\ cache'[t][k] = IF k = Mine THEN PatchedMine(t, Head(inbox[t]))
                       ELSE [cache[t][k] EXCEPT !.list = Patched(@, Head(inbox[t]))]
           /\ \A u \in Tab, k \in Key :
                 u # t \/ k \notin listening[t] \cap Hears(Head(inbox[t])) =>
                     /\ wait'[u][k] = wait[u][k] /\ got'[u][k] = got[u][k]
                     /\ cache'[u][k] = cache[u][k]
<1> DEFINE e == Head(inbox[t])
           pages == listening[t] \cap Hears(e)
<1>1. t \in Tab /\ Tab' = Tab
  BY DEF Receive, Tab
<1>2. e \in Event /\ pages \subseteq Key
  BY <1>1 DEF Receive, PagesType, RestOK, HearOK
<1>3. \A u \in Tab, k \in Key :
          /\ wait'[u][k] = IF u = t THEN IF k \in pages \cap OnScreen(t) THEN "out"
                                         ELSE IF k \in pages THEN "due" ELSE wait[u][k]
                           ELSE wait[u][k]
          /\ got'[u][k] = IF u = t /\ k \in pages THEN NoData ELSE got[u][k]
  BY <1>1 DEF Receive, Revalidate, PagesType, FetchOK, DataOn
<1>4. \A u \in Tab, k \in Key :
          cache'[u][k] = IF u = t /\ k \in pages
                         THEN IF k = Mine THEN PatchedMine(t, e)
                              ELSE [cache[t][k] EXCEPT !.list = Patched(@, e)]
                         ELSE cache[u][k]
  <2> DEFINE page == [k \in Key |->
                 CASE k \notin pages -> cache[t][k]
                   [] k \in pages /\ k = Mine -> PatchedMine(t, e)
                   [] OTHER -> [cache[t][k] EXCEPT !.list = Patched(@, e)]]
  <2>1. cache' = [cache EXCEPT ![t] = page]
    BY DEF Receive
  <2>2. \A k \in Key : page[k] =
            IF k \in pages THEN IF k = Mine THEN PatchedMine(t, e)
                                ELSE [cache[t][k] EXCEPT !.list = Patched(@, e)]
            ELSE cache[t][k]
    OBVIOUS
  <2> HIDE DEF page
  <2>3. \A u \in Tab : cache'[u] = IF u = t THEN page ELSE cache[u]
    BY <1>1, <2>1 DEF PagesType, FetchOK, DataOn
  <2> QED BY <1>1, <2>2, <2>3
<1>6. /\ DOMAIN cache' = Tab
      /\ \A u \in Tab : cache'[u] = [k \in Key |-> cache'[u][k]]
  <2> DEFINE page == [k \in Key |->
                 CASE k \notin pages -> cache[t][k]
                   [] k \in pages /\ k = Mine -> PatchedMine(t, e)
                   [] OTHER -> [cache[t][k] EXCEPT !.list = Patched(@, e)]]
  <2>1. cache' = [cache EXCEPT ![t] = page]
    BY DEF Receive
  <2>2. page = [k \in Key |-> page[k]]
    OBVIOUS
  <2> HIDE DEF page
  <2> QED BY <1>1, <2>1, <2>2 DEF PagesType, FetchOK, DataOn
<1> HIDE DEF e, pages
<1>5. /\ \A k \in pages :
            /\ wait'[t][k] = IF k \in OnScreen(t) THEN "out" ELSE "due"
            /\ got'[t][k] = NoData
            /\ cache'[t][k] = IF k = Mine THEN PatchedMine(t, e)
                               ELSE [cache[t][k] EXCEPT !.list = Patched(@, e)]
      /\ \A u \in Tab, k \in Key : u # t \/ k \notin pages =>
            /\ wait'[u][k] = wait[u][k] /\ got'[u][k] = got[u][k]
            /\ cache'[u][k] = cache[u][k]
  BY <1>1, <1>2, <1>3, <1>4
<1> QED BY <1>1, <1>2, <1>5, <1>6 DEF e, pages

(* The patched data are data, and there are some.                          *)
LEMMA ReceivedData ==
    ASSUME PagesType, NEW t, Receive(t),
           NEW k \in listening[t] \cap Hears(Head(inbox[t]))
    PROVE  k \in Key /\ cache'[t][k] \in AnswerOf(k) /\ cache'[t][k] # NoData
<1> DEFINE e == Head(inbox[t])
<1>1. t \in Tab /\ e \in Event /\ k \in Key /\ k \in listening[t]
  BY ReceiveEffect
<1>2. cache[t][k] \in AnswerOf(k)
  BY <1>1 DEF PagesType, FetchOK, HearOK, DataOn
<1>3. cache'[t][k] = IF k = Mine THEN PatchedMine(t, e)
                     ELSE [cache[t][k] EXCEPT !.list = Patched(@, e)]
  BY <1>1, ReceiveEffect
<1> HIDE DEF e
<1>4. CASE k = Mine
  <2>1. cache[t][Mine] \in SUBSET Shift
    BY <1>2, <1>4 DEF AnswerOf
  <2>2. at[t] # Mine => left[t] \in SUBSET Shift
    BY <1>1, <1>4 DEF PagesType, HearOK, FetchOK
  <2>3. PatchedMine(t, e) \in SUBSET Shift
    BY <2>1, <2>2 DEF PatchedMine
  <2> QED BY <1>1, <1>3, <1>4, <2>3, NoDataApart DEF AnswerOf
<1>5. CASE k # Mine
  <2>1. cache[t][k] \in Rows
    BY <1>2, <1>5 DEF AnswerOf
  <2>2. Patched(cache[t][k].list, e) \in [Volunteer -> Shown]
    BY <1>1, <2>1, PatchedType DEF Rows
  <2>3. [cache[t][k] EXCEPT !.list = Patched(@, e)] \in Rows
    BY <2>1, <2>2 DEF Rows
  <2> QED BY <1>1, <1>3, <1>5, <2>3, NoDataApart DEF AnswerOf
<1> QED BY <1>4, <1>5

LEMMA ReceiveType ==
    ASSUME PagesType, NEW t, Receive(t)
    PROVE  PagesType'
<1> DEFINE pages == listening[t] \cap Hears(Head(inbox[t]))
<1>1. t \in Tab /\ Tab' = Tab /\ pages \subseteq Key
  BY ReceiveEffect
<1>2. \A u \in Tab, k \in Key :
          IF u = t /\ k \in pages
          THEN /\ wait'[u][k] \in {"out", "due"} /\ got'[u][k] = NoData
               /\ cache'[u][k] \in AnswerOf(k) /\ cache'[u][k] # NoData
          ELSE /\ wait'[u][k] = wait[u][k] /\ got'[u][k] = got[u][k]
               /\ cache'[u][k] = cache[u][k]
  <2> SUFFICES ASSUME NEW u \in Tab, NEW k \in Key
               PROVE  IF u = t /\ k \in pages
                      THEN /\ wait'[u][k] \in {"out", "due"} /\ got'[u][k] = NoData
                           /\ cache'[u][k] \in AnswerOf(k) /\ cache'[u][k] # NoData
                      ELSE /\ wait'[u][k] = wait[u][k] /\ got'[u][k] = got[u][k]
                           /\ cache'[u][k] = cache[u][k]
    OBVIOUS
  <2>1. u = t /\ k \in pages =>
            cache'[u][k] \in AnswerOf(k) /\ cache'[u][k] # NoData
    BY ReceivedData
  <2>2. CASE u = t /\ k \in pages
    BY <2>1, <2>2, ReceiveEffect
  <2>3. CASE ~ (u = t /\ k \in pages)
    BY <2>3, ReceiveEffect
  <2> QED BY <2>2, <2>3
<1> HIDE DEF pages
<1>3. wait' \in [Tab -> [Key -> Phase]]
  BY <1>1 DEF Receive, Revalidate, PagesType, FetchOK, Phase
<1>4. DataOn(Tab, got')
  <2>1. got' \in [Tab -> [Key -> Data]]
    BY <1>1 DEF Receive, Revalidate, PagesType, FetchOK, DataOn, Data
  <2>2. \A u \in Tab, k \in Key : got'[u][k] \in {NoData} \cup AnswerOf(k)
    BY <1>2 DEF PagesType, FetchOK, DataOn
  <2> QED BY <2>1, <2>2 DEF DataOn
<1>5. DataOn(Tab, cache')
  <2>1. \A u \in Tab, k \in Key : cache'[u][k] \in {NoData} \cup AnswerOf(k)
    BY <1>2 DEF PagesType, FetchOK, DataOn
  <2>2. \A u \in Tab, k \in Key : cache'[u][k] \in Data
    BY <2>1 DEF AnswerOf, Data
  <2>3. cache' = [u \in Tab |-> cache'[u]]
    BY ReceiveEffect DEF Receive
  <2>4. \A u \in Tab : cache'[u] = [k \in Key |-> cache'[u][k]]
    BY ReceiveEffect
  <2>5. \A u \in Tab : cache'[u] \in [Key -> Data]
    BY <2>2, <2>4
  <2>6. cache' \in [Tab -> [Key -> Data]]
    BY <2>3, <2>5
  <2> QED BY <2>1, <2>6 DEF DataOn
<1>6. \A u \in Tab, k \in Key : wait'[u][k] = "got" <=> got'[u][k] # NoData
  <2> SUFFICES ASSUME NEW u \in Tab, NEW k \in Key
               PROVE  wait'[u][k] = "got" <=> got'[u][k] # NoData
    OBVIOUS
  <2>1. wait[u][k] = "got" <=> got[u][k] # NoData
    BY DEF PagesType, FetchOK
  <2> QED BY <1>2, <2>1
<1>7. \A u \in Tab : \A k \in Shift \ visits[u] :
          wait'[u][k] = "none" /\ cache'[u][k] = NoData
  <2> SUFFICES ASSUME NEW u \in Tab, NEW k \in Shift \ visits[u]
               PROVE  wait'[u][k] = "none" /\ cache'[u][k] = NoData
    OBVIOUS
  <2>1. k \in Key /\ wait[u][k] = "none" /\ cache[u][k] = NoData
    BY DEF PagesType, FetchOK, Key
  <2>2. ~ (u = t /\ k \in pages)
    BY DEF PagesType, HearOK, pages
  <2> QED BY <1>2, <2>1, <2>2
<1>8. FetchOK'
  BY <1>1, <1>3, <1>4, <1>5, <1>6, <1>7 DEF Receive, PagesType, FetchOK
<1>9. HearOK'
  <2>1. \A u \in Tab : \A k \in listening[u] : k \in Key /\ cache[u][k] # NoData
    BY DEF PagesType, HearOK
  <2>2. \A u \in Tab : \A k \in listening[u] : cache'[u][k] # NoData
    BY <1>2, <2>1
  <2> QED BY <1>1, <2>2 DEF Receive, PagesType, HearOK
<1>10. OpsOK'
  <2> DEFINE o == [op[t] EXCEPT !.raced = @ \/ (Busy(t) /\ at[t] \in pages)]
  <2>1. op[t] \in Op /\ OpOK(op[t], t, at[t])
    BY <1>1 DEF PagesType, OpsOK
  <2>2. op' = [op EXCEPT ![t] = o]
    BY <1>1, <2>1 DEF Receive, pages
  <2>3. /\ o.pc = op[t].pc /\ o.kind = op[t].kind /\ o.who = op[t].who
        /\ o.shift = op[t].shift /\ o.value = op[t].value
        /\ o.training = op[t].training
        /\ o.raced = (op[t].raced \/ (Busy(t) /\ at[t] \in pages)) /\ o \in Op
    BY <2>1 DEF Op
  <2> HIDE DEF o
  <2>4. OpOK(o, t, at[t])
    BY <2>1, <2>3 DEF OpOK, Busy
  <2> QED BY <1>1, <2>2, <2>3, <2>4, OpPut DEF PagesType, Receive
<1>11. RestOK'
  <2>1. inbox' \in [Tab -> Seq(Event)]
    BY <1>1 DEF Receive, PagesType, RestOK
  <2>2. unaware' \in [Tab -> SUBSET Key]
    <3>1. Head(inbox[t]).shift \in Key
      BY ReceiveEffect DEF Event, Key
    <3> QED BY <1>1, <3>1 DEF Receive, PagesType, RestOK
  <2> QED BY <1>1, <2>1, <2>2 DEF Receive, PagesType, RestOK, past
<1>12. PlaceOK'
  BY <1>1 DEF Receive, PagesType, PlaceOK
<1> QED BY <1>8, <1>9, <1>10, <1>11, <1>12 DEF PagesType

LEMMA PickType ==
    ASSUME PagesType, NEW t, Pick(t)
    PROVE  PagesType'
<1>1. t \in Tab /\ Tab' = Tab /\ at[t] \in Shift
  BY DEF Pick, Tab
<1>2. PICK keys \in {{Mine}, {}} : Ask(t, keys)
  BY NeedAsks DEF Pick
<1>3. FetchOK' /\ unaware' \in [Tab -> SUBSET Key]
  <2>1. keys \in SUBSET Key /\ keys \cap Shift \subseteq visits[t]
    BY <1>2, PagesAssumption DEF Key
  <2> QED BY <1>1, <1>2, <2>1, AskKeepsFetch DEF Pick, PagesType, FetchOK
<1>4. OpsOK'
  <2> DEFINE o == [op[t] EXCEPT !.pc = "picked", !.kind = "add", !.shift = at[t],
                                !.value = Initially(at[t])]
  <2>1. op[t] \in Op /\ OpOK(op[t], t, at[t]) /\ op[t].pc = "idle"
    BY <1>1 DEF Pick, PagesType, OpsOK
  <2>2. op' = [op EXCEPT ![t] = o]
    BY <1>1, <2>1 DEF Pick, PagesType, OpsOK, Op
  <2>3. /\ o.pc = "picked" /\ o.kind = "add" /\ o.who = op[t].who
        /\ o.shift = at[t] /\ o.value = Initially(at[t]) /\ o.raced = op[t].raced
        /\ o.training = op[t].training /\ o \in Op
    BY <1>1, <2>1 DEF Op, Initially, Attendance
  <2>4. o.value # "off"
    BY <2>3 DEF Initially
  <2> HIDE DEF o
  <2>5. ~ o.raced
    BY <2>1, <2>3 DEF OpOK
  <2>6. o.who = UserOf[t]
    BY <2>1, <2>3 DEF OpOK
  <2>7. OpOK(o, t, at[t])
    BY <1>1, <2>3, <2>4, <2>5, <2>6 DEF OpOK
  <2> QED BY <1>1, <2>2, <2>3, <2>7, OpPut DEF Pick, PagesType
<1>5. RestOK'
  BY <1>1, <1>3 DEF Pick, PagesType, RestOK
<1>6. PlaceOK' /\ HearOK'
  BY <1>1 DEF Pick, PagesType, PlaceOK, HearOK
<1> QED BY <1>3, <1>4, <1>5, <1>6 DEF PagesType

LEMMA CancelType ==
    ASSUME PagesType, NEW t, Cancel(t)
    PROVE  PagesType'
<1> USE DEF Cancel, fetch, past
<1>1. t \in Tab /\ Tab' = Tab
  BY DEF Tab
<1>2. OpsOK'
  BY <1>1, IdleType, OpPut DEF PagesType
<1>3. FetchOK' /\ PlaceOK' /\ HearOK' /\ RestOK'
  BY <1>1 DEF PagesType, FetchOK, PlaceOK, HearOK, RestOK
<1> QED BY <1>2, <1>3 DEF PagesType

(* The steps that send a request.                                          *)
LEMMA PostType ==
    ASSUME PagesType, NEW t \in Tab, NEW o \in Op, OpOK(o, t, at[t]), Post(t, o),
           hasty' \subseteq Volunteer, crowded' \subseteq Shift
    PROVE  PagesType'
<1> USE DEF Post, fetch
<1>1. Tab' = Tab
  BY DEF Tab
<1>2. OpsOK'
  BY OpPut DEF PagesType
<1>3. ops' \in 0 .. MaxOps
  BY PagesAssumption DEF PagesType, RestOK
<1>4. FetchOK' /\ PlaceOK' /\ HearOK' /\ RestOK'
  BY <1>1, <1>3 DEF PagesType, FetchOK, PlaceOK, HearOK, RestOK
<1> QED BY <1>2, <1>4 DEF PagesType

LEMMA SubmitType ==
    ASSUME PagesType, NEW t, NEW also \in {NoData} \cup Shift, Submit(t, also)
    PROVE  PagesType'
<1> DEFINE o == [op[t] EXCEPT !.pc = "posting", !.training = also]
<1>1. t \in Tab /\ op[t] \in Op /\ OpOK(op[t], t, at[t]) /\ op[t].pc = "picked"
  BY DEF Submit, PagesType, OpsOK
<1>2. /\ o \in Op /\ o.pc = "posting" /\ o.kind = op[t].kind /\ o.who = op[t].who
      /\ o.shift = op[t].shift /\ o.value = op[t].value /\ o.raced = op[t].raced
  BY <1>1 DEF Op
<1>3. OpOK(o, t, at[t])
  BY <1>1, <1>2 DEF OpOK
<1>4. hasty' \subseteq Volunteer /\ crowded' \subseteq Shift
  BY <1>1, Tabs DEF Submit, PagesType, RestOK
<1>5. Post(t, o)
  BY DEF Submit
<1> QED BY <1>1, <1>2, <1>3, <1>4, <1>5, PostType

LEMMA LeaveType ==
    ASSUME PagesType, NEW t, NEW s \in Shift, Leave(t, s)
    PROVE  PagesType'
<1> DEFINE o == [Idle(t) EXCEPT !.pc = "posting", !.kind = "remove", !.shift = s]
<1>1. t \in Tab /\ UserOf[t] \in Volunteer
  BY Tabs DEF Leave, PagesType
<1>2. /\ o \in Op /\ o.pc = "posting" /\ o.kind = "remove" /\ o.shift = s
      /\ o.value = "off" /\ OpOK(o, t, at[t])
  BY <1>1 DEF Op, Idle, OpOK
<1>3. Post(t, o) /\ hasty' \subseteq Volunteer /\ crowded' \subseteq Shift
  BY DEF Leave, PagesType, RestOK
<1> QED BY <1>1, <1>2, <1>3, PostType

LEMMA ToggleType ==
    ASSUME PagesType, NEW t, NEW s \in Shift, NEW v \in Volunteer, Toggle(t, s, v)
    PROVE  PagesType'
<1>1. t \in Tab /\ UserOf[t] \in Volunteer
  BY Tabs DEF Toggle, PagesType
<1>2. PICK value \in {"here", "absent"} :
          /\ at[t] = Mine \/ s = at[t]
          /\ Post(t, [Idle(t) EXCEPT !.pc = "posting", !.kind = "toggle", !.who = v,
                                     !.shift = s, !.value = value])
  BY DEF Toggle
<1> DEFINE o == [Idle(t) EXCEPT !.pc = "posting", !.kind = "toggle", !.who = v,
                                !.shift = s, !.value = value]
<1>3. /\ o \in Op /\ o.pc = "posting" /\ o.kind = "toggle" /\ o.shift = s
      /\ o.value = value /\ o.training = NoData
  BY <1>1, <1>2 DEF Op, Idle, Attendance
<1>4. OpOK(o, t, at[t])
  BY <1>2, <1>3 DEF OpOK
<1>5. hasty' \subseteq Volunteer /\ crowded' \subseteq Shift
  BY DEF Toggle, PagesType, RestOK
<1> QED BY <1>1, <1>2, <1>3, <1>4, <1>5, PostType

LEMMA WriteType ==
    ASSUME PagesType, NEW t, Write(t)
    PROVE  PagesType'
<1> USE DEF Write, fetch, past
<1>1. t \in Tab /\ Tab' = Tab /\ op[t] \in Op /\ OpOK(op[t], t, at[t])
  BY DEF Tab, PagesType, OpsOK
<1>2. op[t].who \in Volunteer /\ op[t].shift \in Shift
      /\ op[t].value \in Attendance \cup {"off"}
  BY <1>1 DEF OpOK, Op
<1>3. row' \in [Shift -> [Volunteer -> Attendance \cup {"off"}]]
  BY <1>2 DEF PagesType, RestOK
<1>4. unaware' \in [Tab -> SUBSET Key]
  BY <1>1 DEF PagesType, RestOK, Key
<1>5. OpsOK'
  <2> DEFINE o == [op[t] EXCEPT !.pc = "written"]
  <2>1. /\ o \in Op /\ o.pc = "written" /\ o.kind = op[t].kind /\ o.who = op[t].who
        /\ o.shift = op[t].shift /\ o.value = op[t].value
        /\ o.training = op[t].training
    BY <1>1 DEF Op
  <2>2. op' = [op EXCEPT ![t] = o]
    BY <1>1 DEF PagesType, OpsOK
  <2> HIDE DEF o
  <2>3. OpOK(o, t, at[t])
    BY <1>1, <2>1 DEF OpOK
  <2> QED BY <1>1, <2>1, <2>2, <2>3, OpPut DEF PagesType
<1>6. along' \subseteq Volunteer \X Shift
  BY <1>2 DEF PagesType, RestOK
<1>7. FetchOK' /\ PlaceOK' /\ HearOK' /\ RestOK'
  BY <1>1, <1>3, <1>4, <1>6 DEF PagesType, FetchOK, PlaceOK, HearOK, RestOK
<1> QED BY <1>5, <1>7 DEF PagesType

(* The end of a request: the page asks again, or not.                      *)
LEMMA EndFetch ==
    ASSUME PagesType, NEW t \in Tab, UNCHANGED <<visits, cache, left>>,
           wait' = [wait EXCEPT ![t][at[t]] = IF op[t].raced THEN @ ELSE "out"],
           got' = [got EXCEPT ![t][at[t]] = IF op[t].raced THEN @ ELSE NoData]
    PROVE  /\ FetchOK'
           /\ ~ op[t].raced => wait'[t][at[t]] = "out"
           /\ \A u \in Tab, j \in Key :
                 ~ (u = t /\ j = at[t] /\ ~ op[t].raced) =>
                     wait'[u][j] = wait[u][j] /\ got'[u][j] = got[u][j]
<1> PICK k : k = at[t]
  OBVIOUS
<1>1. k \in Key /\ k \in visits[t] /\ Tab' = Tab
  BY Tabs DEF PagesType, Tab
<1>2. \A u \in Tab, j \in Key :
          /\ wait'[u][j] = IF u = t /\ j = k /\ ~ op[t].raced THEN "out" ELSE wait[u][j]
          /\ got'[u][j] = IF u = t /\ j = k /\ ~ op[t].raced THEN NoData ELSE got[u][j]
  BY <1>1 DEF PagesType, FetchOK, DataOn
<1>3. wait' \in [Tab -> [Key -> Phase]]
  BY <1>1 DEF PagesType, FetchOK, Phase
<1>4. DataOn(Tab, got')
  <2> DEFINE d == IF op[t].raced THEN got[t][k] ELSE NoData
  <2>1. d \in {NoData} \cup AnswerOf(k) /\ got' = [got EXCEPT ![t][k] = d]
    BY <1>1 DEF PagesType, FetchOK, DataOn
  <2>2. DataOn(Tab, got)
    BY DEF PagesType, FetchOK
  <2> HIDE DEF d
  <2>3. DataOn(Tab, [got EXCEPT ![t][k] = d])
    BY <1>1, <2>1, <2>2, DataPut
  <2> QED BY <2>1, <2>3
<1>5. \A u \in Tab, j \in Key : wait'[u][j] = "got" <=> got'[u][j] # NoData
  BY <1>2 DEF PagesType, FetchOK
<1>6. \A u \in Tab : \A j \in Shift \ visits[u] :
          wait'[u][j] = "none" /\ cache'[u][j] = NoData
  BY <1>1, <1>2 DEF PagesType, FetchOK, Key
<1> QED BY <1>1, <1>2, <1>3, <1>4, <1>5, <1>6 DEF PagesType, FetchOK

(* What comes after a request: nothing, or a training's.                   *)
LEMMA AfterwardsType ==
    ASSUME PagesType, NEW t \in Tab, op[t].pc = "written"
    PROVE  /\ Afterwards(t) \in Op /\ OpOK(Afterwards(t), t, at[t])
           /\ \/ Afterwards(t).pc = "idle"
              \/ Afterwards(t).pc = "posting" /\ Afterwards(t).kind = "train"
<1>1. op[t] \in Op /\ OpOK(op[t], t, at[t])
  BY DEF PagesType, OpsOK
<1>2. CASE op[t].training = NoData
  BY <1>2, IdleType DEF PagesType, Afterwards, Idle
<1>3. CASE op[t].training # NoData
  <2> DEFINE o == [op[t] EXCEPT !.pc = "posting", !.kind = "train",
                                !.shift = op[t].training, !.training = NoData,
                                !.raced = FALSE]
  <2>1. Afterwards(t) = o
    BY <1>3 DEF Afterwards
  <2>2. /\ o \in Op /\ o.pc = "posting" /\ o.kind = "train" /\ o.who = op[t].who
        /\ o.shift \in Shift /\ o.training = NoData /\ o.value = op[t].value
        /\ ~ o.raced
    BY <1>1, <1>3 DEF Op
  <2> HIDE DEF o
  <2>3. op[t].kind = "add"
    BY <1>1, <1>3 DEF OpOK
  <2>4. OpOK(o, t, at[t])
    BY <1>1, <2>2, <2>3 DEF OpOK
  <2> QED BY <2>1, <2>2, <2>4
<1> QED BY <1>2, <1>3

LEMMA ReplyType ==
    ASSUME PagesType, NEW t, Reply(t)
    PROVE  PagesType'
<1>1. t \in Tab /\ Tab' = Tab /\ op[t] \in Op /\ OpOK(op[t], t, at[t])
      /\ at[t] \in Key
  BY Tabs DEF Reply, Tab, PagesType, OpsOK
<1>2. FetchOK'
  BY <1>1, EndFetch DEF Reply
<1>3. OpsOK'
  BY <1>1, AfterwardsType, OpPut DEF Reply, PagesType
<1>4. unaware' \in [Tab -> SUBSET Key]
  BY <1>1 DEF Reply, PagesType, RestOK
<1>5. inbox' \in [Tab -> Seq(Event)]
  <2> DEFINE event(x) == [kind |-> IF op[t].kind = "train" THEN "add" ELSE op[t].kind,
                          who |-> op[t].who, shift |-> op[t].shift, to |-> Told(t)[x]]
  <2>1. \A x \in Tab : Told(t)[x] \in SUBSET Key
    BY DEF Told, Key
  <2>2. \A x \in Tab : event(x) \in Event
    BY <1>1, <2>1 DEF Reply, OpOK, Op, Event
  <2>3. inbox' = [x \in Tab |-> IF Told(t)[x] \cap visits[x] # {}
                                THEN Append(inbox[x], event(x)) ELSE inbox[x]]
    BY DEF Reply
  <2> HIDE DEF event
  <2>4. \A x \in Tab : inbox[x] \in Seq(Event) /\ Append(inbox[x], event(x)) \in Seq(Event)
    BY <2>2 DEF PagesType, RestOK
  <2> QED BY <2>3, <2>4
<1>6. PlaceOK' /\ HearOK' /\ RestOK'
  BY <1>1, <1>4, <1>5 DEF Reply, past, PagesType, PlaceOK, HearOK, RestOK
<1> QED BY <1>2, <1>3, <1>6 DEF PagesType

LEMMA FailType ==
    ASSUME PagesType, NEW t, Fail(t)
    PROVE  PagesType'
<1>1. t \in Tab /\ Tab' = Tab /\ op[t] \in Op /\ OpOK(op[t], t, at[t])
      /\ at[t] \in Key
  BY Tabs DEF Fail, Tab, PagesType, OpsOK
<1>2. FetchOK'
  BY <1>1, EndFetch DEF Fail
<1>3. OpsOK'
  <2>1. CASE Dialog(t)
    <3> DEFINE o == [op[t] EXCEPT !.pc = "picked", !.kind = "add", !.shift = at[t],
                                  !.training = NoData, !.raced = FALSE]
    <3>0. at[t] \in Shift
      BY <1>1, <2>1 DEF Dialog, OpOK
    <3>1. /\ o \in Op /\ o.pc = "picked" /\ o.kind = "add" /\ o.who = op[t].who
          /\ o.shift = at[t] /\ o.value = op[t].value /\ ~ o.raced
          /\ o.training = NoData
      BY <1>1, <3>0 DEF Op
    <3>2. op' = [op EXCEPT ![t] = o] /\ op[t].pc # "idle"
          /\ op[t].kind \in {"add", "train"}
      BY <2>1 DEF Fail, Busy, Dialog
    <3> HIDE DEF o
    <3>3. OpOK(o, t, at[t])
      BY <1>1, <3>0, <3>1, <3>2 DEF OpOK
    <3> QED BY <1>1, <3>1, <3>2, <3>3, OpPut DEF Fail, PagesType
  <2>2. CASE ~ Dialog(t)
    <3>1. op' = [op EXCEPT ![t] = Idle(t)]
      BY <2>2 DEF Fail
    <3> QED BY <1>1, <3>1, IdleType, OpPut DEF Fail, PagesType
  <2> QED BY <2>1, <2>2
<1>4. unaware' \in [Tab -> SUBSET Key]
  <2>1. op[t].shift \in Key
    BY <1>1 DEF Fail, Busy, OpOK, Key
  <2> QED BY <1>1, <2>1 DEF Fail, PagesType, RestOK
<1>5. faults' \in 0 .. MaxFaults
  BY PagesAssumption DEF Fail, PagesType, RestOK
<1>6. PlaceOK' /\ HearOK' /\ RestOK'
  BY <1>1, <1>4, <1>5 DEF Fail, past, PagesType, PlaceOK, HearOK, RestOK
<1> QED BY <1>2, <1>3, <1>6 DEF PagesType

LEMMA InitType == Init => PagesType
<1> SUFFICES ASSUME Init
             PROVE  PagesType
  OBVIOUS
<1> USE DEF Init
<1>1. /\ \A t \in Tab : t \in Browser /\ UserOf[t] \in Volunteer
      /\ \A t \in Tab : visits[t] \subseteq Key
  BY PagesAssumption DEF Tab, Key
<1>2. PlaceOK
  BY DEF PlaceOK
<1>3. FetchOK
  <2>1. DataOn(Tab, cache) /\ DataOn(Tab, got)
    BY DEF DataOn, Data
  <2>2. wait \in [Tab -> [Key -> Phase]]
    BY DEF Phase
  <2>3. \A t \in Tab, k \in Key : wait[t][k] \in {"none", "out"} /\ got[t][k] = NoData
    OBVIOUS
  <2>4. \A t \in Tab : \A k \in Shift \ visits[t] : k \in Key /\ k # at[t]
    BY DEF Key
  <2>5. \A t \in Tab : \A k \in Shift \ visits[t] :
            wait[t][k] = "none" /\ cache[t][k] = NoData
    BY <2>4
  <2>6. left \in [Tab -> {NoData} \cup SUBSET Shift]
    OBVIOUS
  <2> QED BY <2>1, <2>2, <2>3, <2>5, <2>6 DEF FetchOK
<1>4. HearOK
  BY DEF HearOK
<1>5. OpsOK
  BY <1>2, IdleType DEF OpsOK
<1>6. RestOK
  <2>1. row \in [Shift -> [Volunteer -> Attendance \cup {"off"}]]
    BY DEF Attendance
  <2>2. inbox \in [Tab -> Seq(Event)]
    OBVIOUS
  <2>3. unaware \in [Tab -> SUBSET Key] /\ crowded \subseteq Shift
        /\ hasty \subseteq Volunteer /\ along \subseteq Volunteer \X Shift
    OBVIOUS
  <2>4. ops \in 0 .. MaxOps /\ faults \in 0 .. MaxFaults
    BY PagesAssumption
  <2> QED BY <2>1, <2>2, <2>3, <2>4 DEF RestOK
<1> QED BY <1>2, <1>3, <1>4, <1>5, <1>6 DEF PagesType

LEMMA TypeStep == PagesType /\ [Next]_vars => PagesType'
<1> SUFFICES ASSUME PagesType, [Next]_vars
             PROVE  PagesType'
  OBVIOUS
<1>1. ASSUME NEW t \in Browser, NEW k \in Key,
             Read(t, k) \/ Land(t, k) \/ Focus(t, k) \/ Open(t, k)
      PROVE  PagesType'
  BY <1>1, ReadType, LandType, FocusType, OpenType
<1>2. ASSUME NEW t \in Browser, Listen(t) \/ Receive(t)
      PROVE  PagesType'
  BY <1>2, ListenType, ReceiveType
<1>3. ASSUME NEW t \in Browser, NEW x \in {NoData} \cup Shift,
             Pick(t) \/ Cancel(t) \/ Submit(t, x)
      PROVE  PagesType'
  BY <1>3, PickType, CancelType, SubmitType
<1>4. ASSUME NEW t \in Browser, NEW s \in Shift,
             Leave(t, s) \/ \E v \in Volunteer : Toggle(t, s, v)
      PROVE  PagesType'
  BY <1>4, LeaveType, ToggleType
<1>5. ASSUME NEW t \in Browser, Write(t) \/ Reply(t) \/ Fail(t)
      PROVE  PagesType'
  BY <1>5, WriteType, ReplyType, FailType
<1>6. ASSUME UNCHANGED vars
      PROVE  PagesType'
  <2>1. Tab' = Tab
    BY <1>6 DEF vars, Tab
  <2> QED BY <1>6, <2>1 DEF vars, fetch, past, PagesType, FetchOK, PlaceOK, HearOK,
                            OpsOK, RestOK
<1> QED BY <1>1, <1>2, <1>3, <1>4, <1>5, <1>6 DEF Next

-----------------------------------------------------------------------------
(* Honesty, one tab and one key at a time: nothing that matters has        *)
(* changed, or the tab has nothing that could be wrong.                    *)
LEMMA StaysHonest ==
    ASSUME NEW t, NEW k, Honest(t, k), View(t, k)' = View(t, k),
           wait'[t][k] = wait[t][k], got'[t][k] = got[t][k], cache'[t][k] = cache[t][k],
           Vouched(t, k)' => Vouched(t, k), Exempt(t, k) => Exempt(t, k)'
    PROVE  Honest(t, k)'
BY DEF Honest

LEMMA NothingStale ==
    ASSUME NEW t, NEW k,
           \/ wait'[t][k] \in {"out", "due"}
           \/ wait'[t][k] \notin {"got"} /\ cache'[t][k] = NoData
    PROVE  Honest(t, k)'
BY DEF Honest

LEMMA NotStaleHonest ==
    ASSUME NEW t, NEW k, ~ Stale(t, k), wait'[t][k] = wait[t][k],
           cache'[t][k] = cache[t][k]
    PROVE  Honest(t, k)'
BY DEF Honest, Stale

(* Steps that tell nobody anything and write nothing: the requests stay    *)
(* where they are, or none that was sent was written.                      *)
LEMMA StillVouched ==
    ASSUME NEW t \in Tab, NEW k, Tab' = Tab, k \in unaware[t] => k \in unaware'[t],
           inbox'[t] = inbox[t],
           \A x \in Tab : op[x].pc = "written" =>
               op'[x].pc = "written" /\ op'[x].shift = op[x].shift
    PROVE  Vouched(t, k)' => Vouched(t, k)
BY DEF Vouched, Pending, Changing

LEMMA ReadHonest ==
    ASSUME PagesInv, NEW t, NEW k \in Key, Read(t, k)
    PROVE  PagesHonest'
<1> USE DEF Read
<1>1. t \in Tab /\ Tab' = Tab
  BY DEF Tab
<1> SUFFICES ASSUME NEW u \in Tab, NEW j \in Key
             PROVE  Honest(u, j)'
  BY <1>1 DEF PagesHonest
<1>2. View(u, j)' = View(u, j)
  BY ViewStays
<1>3. /\ wait'[u][j] = IF u = t /\ j = k THEN "got" ELSE wait[u][j]
      /\ got'[u][j] = IF u = t /\ j = k THEN View(t, k) ELSE got[u][j]
  BY <1>1 DEF PagesInv, PagesType, FetchOK, DataOn
<1>4. CASE u = t /\ j = k
  BY <1>2, <1>3, <1>4 DEF Honest
<1>5. CASE ~ (u = t /\ j = k)
  <2>1. Vouched(u, j)' => Vouched(u, j)
    BY <1>1, StillVouched
  <2>2. Exempt(u, j) => Exempt(u, j)'
    BY DEF Exempt, Busy
  <2> QED BY <1>2, <1>3, <1>5, <2>1, <2>2, StaysHonest DEF PagesInv, PagesHonest
<1> QED BY <1>4, <1>5

LEMMA LandHonest ==
    ASSUME PagesInv, NEW t, NEW k \in Key, Land(t, k)
    PROVE  PagesHonest'
<1> USE DEF Land
<1>1. t \in Tab /\ Tab' = Tab
  BY DEF Tab
<1> SUFFICES ASSUME NEW u \in Tab, NEW j \in Key
             PROVE  Honest(u, j)'
  BY <1>1 DEF PagesHonest
<1>2. View(u, j)' = View(u, j) /\ Honest(u, j)
  BY ViewStays DEF PagesInv, PagesHonest
<1>3. /\ wait'[u][j] = IF u = t /\ j = k THEN "none" ELSE wait[u][j]
      /\ got'[u][j] = IF u = t /\ j = k THEN NoData ELSE got[u][j]
      /\ cache'[u][j] = IF u = t /\ j = k /\ ~ Exempt(t, k) THEN got[t][k] ELSE cache[u][j]
  BY <1>1 DEF PagesInv, PagesType, FetchOK, DataOn, Exempt
<1>4. Vouched(u, j)' => Vouched(u, j)
  BY <1>1, StillVouched
<1>5. Exempt(u, j) <=> Exempt(u, j)'
  BY DEF Exempt, Busy
<1>6. CASE u = t /\ j = k
  <2>1. Vouched(u, j) => got[u][j] = View(u, j)
    BY <1>2, <1>6 DEF Honest
  <2> QED BY <1>2, <1>3, <1>4, <1>5, <1>6, <2>1 DEF Honest
<1>7. CASE ~ (u = t /\ j = k)
  BY <1>2, <1>3, <1>4, <1>5, <1>7, StaysHonest
<1> QED BY <1>6, <1>7

(* A page or dialog that asks, whatever its user does meanwhile.           *)
LEMMA AskHonest ==
    ASSUME PagesInv, NEW t \in Tab, NEW keys \in SUBSET Key, Ask(t, keys),
           UNCHANGED <<row, visits, cache, inbox>>,
           \A x \in Tab : op[x].pc = "written" =>
               op'[x].pc = "written" /\ op'[x].shift = op[x].shift,
           \A u \in Tab, j \in Key : Exempt(u, j) => Exempt(u, j)'
    PROVE  PagesHonest'
<1>1. Tab' = Tab
  BY DEF Tab
<1> SUFFICES ASSUME NEW u \in Tab, NEW j \in Key
             PROVE  Honest(u, j)'
  BY <1>1 DEF PagesHonest
<1>2. IF u = t /\ j \in keys
      THEN wait'[u][j] = "out"
      ELSE /\ wait'[u][j] = wait[u][j] /\ got'[u][j] = got[u][j]
           /\ j \in unaware[u] <=> j \in unaware'[u]
  BY AskEffect DEF PagesInv, PagesType
<1>3. CASE u = t /\ j \in keys
  BY <1>2, <1>3, NothingStale
<1>4. CASE ~ (u = t /\ j \in keys)
  <2>1. View(u, j)' = View(u, j) /\ Honest(u, j)
    BY ViewStays DEF PagesInv, PagesHonest
  <2>2. Vouched(u, j)' => Vouched(u, j)
    BY <1>1, <1>2, <1>4, StillVouched
  <2> QED BY <1>2, <1>4, <2>1, <2>2, StaysHonest
<1> QED BY <1>3, <1>4

LEMMA FocusHonest ==
    ASSUME PagesInv, NEW t, NEW k \in Key, Focus(t, k)
    PROVE  PagesHonest'
<1>1. \A u \in Tab, j \in Key : Exempt(u, j) => Exempt(u, j)'
  BY DEF Focus, Exempt, Busy
<1> QED BY <1>1, AskHonest DEF Focus

LEMMA OpenHonest ==
    ASSUME PagesInv, NEW t, NEW k \in Key, Open(t, k)
    PROVE  PagesHonest'
<1>1. PICK keys \in {{k}, {}} : Ask(t, keys)
  BY NeedAsks DEF Open
<1>2. \A u \in Tab : u # t => at'[u] = at[u]
  BY DEF Open, PagesInv, PagesType, PlaceOK
<1>3. \A u \in Tab, j \in Key : Exempt(u, j) => Exempt(u, j)'
  BY <1>2 DEF Open, Exempt, Busy
<1> QED BY <1>1, <1>3, AskHonest DEF Open

LEMMA PickHonest ==
    ASSUME PagesInv, NEW t, Pick(t)
    PROVE  PagesHonest'
<1>1. PICK keys \in {{Mine}, {}} : Ask(t, keys)
  BY NeedAsks DEF Pick
<1>2. t \in Tab /\ op[t] \in Op /\ op[t].pc = "idle"
  BY DEF Pick, PagesInv, PagesType, OpsOK
<1>3. op'[t].pc = "picked" /\ \A u \in Tab : u # t => op'[u] = op[u]
  BY <1>2 DEF Pick, PagesInv, PagesType, OpsOK, Op
<1>4. \A u \in Tab, j \in Key : Exempt(u, j) => Exempt(u, j)'
  BY <1>2, <1>3 DEF Pick, Exempt, Busy
<1> QED BY <1>1, <1>2, <1>3, <1>4, AskHonest DEF Pick, Key

(* Steps that the data do not notice.                                      *)
LEMMA QuietHonest ==
    ASSUME PagesInv, UNCHANGED <<row, visits, at, cache, wait, got, inbox, unaware>>,
           \A x \in Tab : op[x].pc = "written" =>
               op'[x].pc = "written" /\ op'[x].shift = op[x].shift,
           \A x \in Tab : Busy(x) => op'[x] = op[x]
    PROVE  PagesHonest'
<1>1. Tab' = Tab
  BY DEF Tab
<1> SUFFICES ASSUME NEW u \in Tab, NEW j \in Key
             PROVE  Honest(u, j)'
  BY <1>1 DEF PagesHonest
<1>2. View(u, j)' = View(u, j) /\ Honest(u, j)
  BY ViewStays DEF PagesInv, PagesHonest
<1>3. Vouched(u, j)' => Vouched(u, j)
  BY <1>1, StillVouched
<1>4. Exempt(u, j) => Exempt(u, j)'
  BY DEF Exempt, Busy
<1> QED BY <1>2, <1>3, <1>4, StaysHonest

LEMMA ListenHonest ==
    ASSUME PagesInv, NEW t, Listen(t)
    PROVE  PagesHonest'
BY QuietHonest DEF Listen, fetch

LEMMA CancelHonest ==
    ASSUME PagesInv, NEW t, Cancel(t)
    PROVE  PagesHonest'
<1>1. t \in Tab /\ op[t].pc = "picked" /\ \A x \in Tab : x # t => op'[x] = op[x]
  BY DEF Cancel, PagesInv, PagesType, OpsOK
<1> QED BY <1>1, QuietHonest DEF Cancel, fetch, Busy

LEMMA PostHonest ==
    ASSUME PagesInv, NEW t \in Tab, NEW o, Post(t, o), op[t].pc \in {"idle", "picked"}
    PROVE  PagesHonest'
<1>1. \A x \in Tab : x # t => op'[x] = op[x]
  BY DEF Post, PagesInv, PagesType, OpsOK
<1> QED BY <1>1, QuietHonest DEF Post, fetch, Busy

LEMMA ReceiveHonest ==
    ASSUME PagesInv, NEW t, Receive(t)
    PROVE  PagesHonest'
<1> DEFINE e == Head(inbox[t])
           pages == listening[t] \cap Hears(e)
<1>1. t \in Tab /\ Tab' = Tab /\ PagesType
  BY ReceiveEffect DEF PagesInv
<1> SUFFICES ASSUME NEW u \in Tab, NEW j \in Key
             PROVE  Honest(u, j)'
  BY <1>1 DEF PagesHonest
<1>2. View(u, j)' = View(u, j) /\ Honest(u, j)
  BY ViewStays DEF Receive, PagesInv, PagesHonest
<1>3. /\ \A x \in Tab : op'[x].pc = op[x].pc /\ op'[x].shift = op[x].shift
      /\ \A x \in Tab : x # t => op'[x] = op[x] /\ inbox'[x] = inbox[x]
                                 /\ unaware'[x] = unaware[x]
      /\ inbox[t] # <<>> /\ inbox[t] \in Seq(Event) /\ inbox'[t] = Tail(inbox[t])
      /\ op'[t].raced = (op[t].raced \/ (Busy(t) /\ at[t] \in pages))
      /\ at' = at
  BY <1>1 DEF Receive, PagesType, OpsOK, RestOK, Op
<1>4. CASE u = t /\ j \in pages
  <2>1. wait'[u][j] \in {"out", "due"}
    BY <1>1, <1>4, ReceiveEffect
  <2> QED BY <2>1, NothingStale
<1>5. CASE u = t /\ j \notin pages /\ e.shift = j
  <2>1. wait'[u][j] = wait[u][j] /\ cache'[u][j] = cache[u][j]
    BY <1>1, <1>5, ReceiveEffect
  <2>2. CASE Stale(t, j)
    <3>1. j \in unaware'[t]
      BY <1>1, <1>5, <2>2 DEF Receive, PagesType, RestOK
    <3> QED BY <1>5, <3>1 DEF Honest, Vouched
  <2>3. CASE ~ Stale(t, j)
    BY <1>5, <2>1, <2>3, NotStaleHonest
  <2> QED BY <2>2, <2>3
<1>6. CASE u = t /\ j \notin pages /\ e.shift # j
  <2>1. /\ wait'[u][j] = wait[u][j] /\ got'[u][j] = got[u][j]
        /\ cache'[u][j] = cache[u][j]
    BY <1>1, <1>6, ReceiveEffect
  <2>2. j \in unaware[t] => j \in unaware'[t]
    BY <1>1, <1>6 DEF Receive, PagesType, RestOK
  <2>3. Pending(t, j) => Pending(t, j)'
    <3> SUFFICES ASSUME NEW i \in DOMAIN inbox[t], inbox[t][i].shift = j
                 PROVE  Pending(t, j)'
      BY DEF Pending
    <3>1. i \in 1 .. Len(inbox[t]) /\ i # 1
      BY <1>3, <1>6
    <3>2. /\ i - 1 \in 1 .. Len(Tail(inbox[t])) /\ Tail(inbox[t])[i - 1] = inbox[t][i]
          /\ DOMAIN Tail(inbox[t]) = 1 .. Len(Tail(inbox[t]))
      BY <1>3, <3>1
    <3> QED BY <1>3, <3>2 DEF Pending
  <2>4. Changing(j) => Changing(j)'
    BY <1>1, <1>3 DEF Changing
  <2>5. Vouched(u, j)' => Vouched(u, j)
    BY <1>6, <2>2, <2>3, <2>4 DEF Vouched
  <2>6. Exempt(u, j) => Exempt(u, j)'
    BY <1>1, <1>3, <1>6 DEF Exempt, Busy
  <2> QED BY <1>2, <2>1, <2>5, <2>6, StaysHonest
<1>7. CASE u # t
  <2>1. /\ wait'[u][j] = wait[u][j] /\ got'[u][j] = got[u][j]
        /\ cache'[u][j] = cache[u][j]
    BY <1>1, <1>7, ReceiveEffect
  <2>2. Vouched(u, j)' => Vouched(u, j)
    BY <1>1, <1>3, <1>7, StillVouched
  <2>3. Exempt(u, j) => Exempt(u, j)'
    BY <1>3, <1>7 DEF Exempt, Busy
  <2> QED BY <1>2, <2>1, <2>2, <2>3, StaysHonest
<1> QED BY <1>4, <1>5, <1>6, <1>7

(* What a write changes is the table of its shift and, unless it is an     *)
(* attendance, what its volunteer's account answers.                       *)
LEMMA WriteViews ==
    ASSUME PagesType, NEW t, Write(t), NEW u \in Tab, NEW j \in Key,
           j # op[t].shift,
           j = Mine => UserOf[u] # op[t].who \/ op[t].kind = "toggle"
    PROVE  View(u, j)' = View(u, j)
<1>1. t \in Tab /\ op[t] \in Op /\ op[t].shift \in Shift /\ OpOK(op[t], t, at[t])
      /\ op[t].pc = "posting"
  BY DEF Write, PagesType, OpsOK, OpOK
<1>2. \A s \in Shift, v \in Volunteer :
          row'[s][v] = IF s = op[t].shift /\ v = op[t].who
                       THEN IF op[t].kind = "toggle" /\ row[s][v] = "off" THEN row[s][v]
                            ELSE op[t].value
                       ELSE row[s][v]
  BY <1>1 DEF Write, PagesType, RestOK
<1>3. \A s \in Shift : s # op[t].shift => row'[s] = row[s]
  BY <1>1 DEF Write, PagesType, RestOK
<1>4. CASE j = Mine
  <2>1. UserOf[u] \in Volunteer
    BY Tabs DEF PagesType
  <2>2. op[t].kind = "toggle" => op[t].value # "off"
    BY <1>1 DEF OpOK
  <2>3. \A s \in Shift : (row'[s][UserOf[u]] # "off") = (row[s][UserOf[u]] # "off")
    BY <1>2, <1>4, <2>1, <2>2
  <2>4. \A s \in Shift : (UserOf[u] \in OnShift(s))' <=> UserOf[u] \in OnShift(s)
    BY <2>1, <2>3 DEF OnShift
  <2> QED BY <1>4, <2>4 DEF View
<1>5. CASE j # Mine
  <2>1. row'[j] = row[j]
    BY <1>3, <1>5 DEF Key
  <2> QED BY <1>5, <2>1 DEF View, OnShift
<1> QED BY <1>4, <1>5

LEMMA WriteHonest ==
    ASSUME PagesInv, NEW t, Write(t)
    PROVE  PagesHonest'
<1>1. /\ t \in Tab /\ Tab' = Tab /\ op[t] \in Op /\ op[t].pc = "posting"
      /\ PagesType /\ op[t].shift \in Shift
  BY DEF Write, Tab, PagesInv, PagesType, OpsOK, OpOK
<1>2. /\ op'[t].pc = "written" /\ op'[t].shift = op[t].shift
      /\ op'[t].raced = op[t].raced
      /\ \A x \in Tab : x # t => op'[x] = op[x]
  BY <1>1 DEF Write, PagesType, OpsOK, Op
<1> SUFFICES ASSUME NEW u \in Tab, NEW j \in Key
             PROVE  Honest(u, j)'
  BY <1>1 DEF PagesHonest
<1>3. /\ wait'[u][j] = wait[u][j] /\ got'[u][j] = got[u][j]
      /\ cache'[u][j] = cache[u][j] /\ inbox'[u] = inbox[u] /\ at' = at
      /\ j \in unaware[u] => j \in unaware'[u]
  BY DEF Write, fetch
<1>4. CASE j = op[t].shift
  BY <1>1, <1>2, <1>4 DEF Honest, Vouched, Changing
<1>5. CASE j = Mine /\ UserOf[u] = op[t].who /\ op[t].kind # "toggle"
  <2>1. CASE Stale(u, Mine)
    <3>1. j \in unaware'[u]
      BY <1>1, <1>5, <2>1 DEF Write
    <3> QED BY <3>1 DEF Honest, Vouched
  <2>2. CASE ~ Stale(u, Mine)
    BY <1>3, <1>5, <2>2, NotStaleHonest
  <2> QED BY <2>1, <2>2
<1>6. CASE j # op[t].shift /\ (j = Mine => UserOf[u] # op[t].who \/ op[t].kind = "toggle")
  <2>1. View(u, j)' = View(u, j)
    BY <1>1, <1>6, WriteViews
  <2>2. Vouched(u, j)' => Vouched(u, j)
    BY <1>1, <1>2, <1>3, StillVouched
  <2>3. Exempt(u, j) => Exempt(u, j)'
    BY <1>1, <1>2, <1>3 DEF Exempt, Busy
  <2> QED BY <1>3, <2>1, <2>2, <2>3, StaysHonest DEF PagesInv, PagesHonest
<1> QED BY <1>4, <1>5, <1>6

LEMMA InitHonest == Init => PagesHonest
<1> SUFFICES ASSUME Init, NEW t \in Tab, NEW k \in Key
             PROVE  Honest(t, k)
  BY DEF PagesHonest
<1>1. wait[t][k] \in {"out", "none"} /\ cache[t][k] = NoData
  BY DEF Init
<1> QED BY <1>1 DEF Honest

(* Whoever is told of a change has it in the inbox, until it is taken out. *)
LEMMA ReplyTells ==
    ASSUME PagesType, NEW t, Reply(t), NEW x \in Tab
    PROVE  /\ DOMAIN inbox[x] \subseteq DOMAIN inbox'[x]
           /\ \A i \in DOMAIN inbox[x] : inbox'[x][i] = inbox[x][i]
           /\ Told(t)[x] \cap visits[x] # {} =>
                  \E i \in DOMAIN inbox'[x] : inbox'[x][i].shift = op[t].shift
<1> DEFINE event == [kind |-> IF op[t].kind = "train" THEN "add" ELSE op[t].kind,
                     who |-> op[t].who, shift |-> op[t].shift, to |-> Told(t)[x]]
<1>1. inbox'[x] = IF Told(t)[x] \cap visits[x] # {} THEN Append(inbox[x], event)
                                                    ELSE inbox[x]
  BY DEF Reply
<1>2. inbox[x] \in Seq(Event) /\ event.shift = op[t].shift
  BY DEF PagesType, RestOK
<1> HIDE DEF event
<1>3. /\ Len(inbox[x]) \in Nat /\ DOMAIN inbox[x] = 1 .. Len(inbox[x])
      /\ DOMAIN Append(inbox[x], event) = 1 .. Len(inbox[x]) + 1
      /\ \A i \in 1 .. Len(inbox[x]) : Append(inbox[x], event)[i] = inbox[x][i]
      /\ Append(inbox[x], event)[Len(inbox[x]) + 1] = event
  BY <1>2
<1>4. Len(inbox[x]) + 1 \in DOMAIN Append(inbox[x], event)
  BY <1>3
<1> QED BY <1>1, <1>2, <1>3, <1>4

LEMMA ReplyHonest ==
    ASSUME PagesInv, NEW t, Reply(t)
    PROVE  PagesHonest'
<1> PICK s \in Shift : s = op[t].shift
  BY DEF Reply, PagesInv, PagesType, OpsOK, OpOK
<1>1. /\ t \in Tab /\ Tab' = Tab /\ PagesType /\ op[t] \in Op /\ OpOK(op[t], t, at[t])
      /\ op[t].pc = "written" /\ at[t] \in Key
  BY Tabs DEF Reply, Tab, PagesInv, PagesType, OpsOK, OpOK
<1>2. /\ op'[t].pc # "written"
      /\ \A x \in Tab : x # t => op'[x] = op[x]
  BY <1>1, AfterwardsType DEF Reply, PagesType, OpsOK
<1> SUFFICES ASSUME NEW u \in Tab, NEW j \in Key
             PROVE  Honest(u, j)'
  BY <1>1 DEF PagesHonest
<1>3. View(u, j)' = View(u, j) /\ Honest(u, j) /\ cache'[u][j] = cache[u][j]
  BY ViewStays DEF Reply, PagesInv, PagesHonest
<1>4. /\ ~ op[t].raced => wait'[t][at[t]] = "out"
      /\ ~ (u = t /\ j = at[t] /\ ~ op[t].raced) =>
             wait'[u][j] = wait[u][j] /\ got'[u][j] = got[u][j]
  <2>1. UNCHANGED <<visits, cache, left>>
    BY DEF Reply
  <2>2. /\ wait' = [wait EXCEPT ![t][at[t]] = IF op[t].raced THEN @ ELSE "out"]
        /\ got' = [got EXCEPT ![t][at[t]] = IF op[t].raced THEN @ ELSE NoData]
    BY DEF Reply
  <2> QED BY <1>1, <2>1, <2>2, EndFetch
<1>5. ~ (u = t /\ j = at[t] /\ ~ op[t].raced) => (j \in unaware[u] => j \in unaware'[u])
  BY <1>1 DEF Reply, PagesType, RestOK
<1>6. Pending(u, j) => Pending(u, j)'
  <2> SUFFICES ASSUME NEW i \in DOMAIN inbox[u], inbox[u][i].shift = j
               PROVE  Pending(u, j)'
    BY DEF Pending
  <2>1. i \in DOMAIN inbox'[u] /\ inbox'[u][i] = inbox[u][i]
    BY <1>1, ReplyTells
  <2> QED BY <2>1 DEF Pending
<1>7. Exempt(u, j) /\ u # t => Exempt(u, j)'
  BY <1>2 DEF Reply, Exempt, Busy
<1>8. Changing(j) => Changing(j)' \/ j = s
  BY <1>1, <1>2 DEF Changing
<1>9. Told(t)[u] \cap visits[u] # {} => Pending(u, s)'
  BY <1>1, ReplyTells DEF Pending
<1>10. CASE u = t /\ j = at[t] /\ ~ op[t].raced
  BY <1>4, <1>10, NothingStale
<1>11. CASE ~ (u = t /\ j = at[t] /\ ~ op[t].raced) /\ (j = s => Pending(u, j)')
  <2>1. Vouched(u, j)' => Vouched(u, j)
    BY <1>5, <1>6, <1>8, <1>11 DEF Vouched
  <2>2. Exempt(u, j) => Exempt(u, j)'
    BY <1>7, <1>11 DEF Exempt
  <2> QED BY <1>3, <1>4, <1>11, <2>1, <2>2, StaysHonest
<1>12. CASE ~ (u = t /\ j = at[t] /\ ~ op[t].raced) /\ j = s /\ ~ Pending(u, s)'
  <2>1. Told(t)[u] \cap visits[u] = {}
    BY <1>9, <1>12
  <2>2. u = t /\ op[t].kind = "toggle"
    <3>1. at[u] \in visits[u] /\ at[u] \in Key
      BY <1>1, Tabs DEF PagesType
    <3>2. Told(t)[u] # Key
      BY <2>1, <3>1
    <3> QED BY <3>2 DEF Told
  <2>3. CASE at[t] = Mine
    <3>1. Told(t)[u] = Shift
      BY <2>2, <2>3 DEF Told
    <3>2. s \notin visits[u]
      BY <1>1, <2>1, <3>1
    <3>3. wait[u][s] = "none" /\ cache[u][s] = NoData
      BY <1>1, <3>2 DEF PagesType, FetchOK
    <3>4. wait'[u][j] = wait[u][j]
      BY <1>4, <1>12
    <3> QED BY <1>3, <1>12, <3>3, <3>4, NothingStale
  <2>4. CASE at[t] # Mine
    <3>1. j = at[t] /\ op[t].raced
      BY <1>1, <1>12, <2>2, <2>4 DEF OpOK
    <3>2. CASE Stale(t, j)
      <4>1. j \in unaware'[t]
        BY <1>1, <2>2, <2>4, <3>1, <3>2 DEF Reply, PagesType, RestOK
      <4> QED BY <2>2, <4>1 DEF Honest, Vouched
    <3>3. CASE ~ Stale(t, j)
      BY <1>3, <1>4, <1>12, <2>2, <3>3, NotStaleHonest
    <3> QED BY <3>2, <3>3
  <2> QED BY <2>3, <2>4
<1> QED BY <1>10, <1>11, <1>12

LEMMA FailHonest ==
    ASSUME PagesInv, NEW t, Fail(t)
    PROVE  PagesHonest'
<1> DEFINE s == op[t].shift
<1>1. /\ t \in Tab /\ Tab' = Tab /\ PagesType /\ op[t] \in Op /\ at[t] \in Key
      /\ OpOK(op[t], t, at[t]) /\ op[t].pc \in {"posting", "written"} /\ s \in Shift
  BY Tabs DEF Fail, Busy, Tab, PagesInv, PagesType, OpsOK, OpOK
<1>2. /\ op'[t].pc \in {"picked", "idle"}
      /\ \A x \in Tab : x # t => op'[x] = op[x]
  BY <1>1 DEF Fail, Idle, PagesType, OpsOK, Op
<1> SUFFICES ASSUME NEW u \in Tab, NEW j \in Key
             PROVE  Honest(u, j)'
  BY <1>1 DEF PagesHonest
<1>3. /\ View(u, j)' = View(u, j) /\ Honest(u, j) /\ cache'[u][j] = cache[u][j]
      /\ inbox' = inbox
  BY ViewStays DEF Fail, PagesInv, PagesHonest
<1>4. /\ ~ op[t].raced => wait'[t][at[t]] = "out"
      /\ ~ (u = t /\ j = at[t] /\ ~ op[t].raced) =>
             wait'[u][j] = wait[u][j] /\ got'[u][j] = got[u][j]
  <2>1. UNCHANGED <<visits, cache, left>>
    BY DEF Fail
  <2>2. /\ wait' = [wait EXCEPT ![t][at[t]] = IF op[t].raced THEN @ ELSE "out"]
        /\ got' = [got EXCEPT ![t][at[t]] = IF op[t].raced THEN @ ELSE NoData]
    BY DEF Fail
  <2> QED BY <1>1, <2>1, <2>2, EndFetch
<1>5. ~ (u = t /\ j = at[t] /\ ~ op[t].raced) => (j \in unaware[u] => j \in unaware'[u])
  BY <1>1 DEF Fail, PagesType, RestOK
<1>6. Exempt(u, j) /\ u # t => Exempt(u, j)'
  BY <1>2 DEF Fail, Exempt, Busy
<1>7. Changing(j) => Changing(j)' \/ (j = s /\ op[t].pc = "written")
  BY <1>1, <1>2 DEF Changing
<1>8. /\ op[t].pc = "written" /\ (u # t \/ at[t] # s \/ op[t].raced) /\ Stale(u, s)
      => s \in unaware'[u]
  BY <1>1 DEF Fail, PagesType, RestOK
<1> HIDE DEF s
<1>9. CASE u = t /\ j = at[t] /\ ~ op[t].raced
  BY <1>4, <1>9, NothingStale
<1>10. CASE ~ (u = t /\ j = at[t] /\ ~ op[t].raced) /\ ~ (j = s /\ op[t].pc = "written")
  <2>1. Vouched(u, j)' => Vouched(u, j)
    BY <1>3, <1>5, <1>7, <1>10 DEF Vouched, Pending
  <2>2. Exempt(u, j) => Exempt(u, j)'
    BY <1>6, <1>10 DEF Exempt
  <2> QED BY <1>3, <1>4, <1>10, <2>1, <2>2, StaysHonest
<1>11. CASE ~ (u = t /\ j = at[t] /\ ~ op[t].raced) /\ j = s /\ op[t].pc = "written"
  <2>1. CASE Stale(u, s)
    <3>1. j \in unaware'[u]
      BY <1>8, <1>11, <2>1
    <3> QED BY <3>1 DEF Honest, Vouched
  <2>2. CASE ~ Stale(u, s)
    BY <1>3, <1>4, <1>11, <2>2, NotStaleHonest
  <2> QED BY <2>1, <2>2
<1> QED BY <1>9, <1>10, <1>11

LEMMA HonestStep == PagesInv /\ [Next]_vars => PagesHonest'
<1> SUFFICES ASSUME PagesInv, [Next]_vars
             PROVE  PagesHonest'
  OBVIOUS
<1>1. ASSUME NEW t \in Browser, NEW k \in Key,
             Read(t, k) \/ Land(t, k) \/ Focus(t, k) \/ Open(t, k)
      PROVE  PagesHonest'
  BY <1>1, ReadHonest, LandHonest, FocusHonest, OpenHonest
<1>2. ASSUME NEW t \in Browser, Listen(t) \/ Receive(t) \/ Pick(t) \/ Cancel(t)
      PROVE  PagesHonest'
  BY <1>2, ListenHonest, ReceiveHonest, PickHonest, CancelHonest
<1>3. ASSUME NEW t \in Browser,
             \/ \E x \in {NoData} \cup Shift : Submit(t, x)
             \/ \E s \in Shift : Leave(t, s) \/ \E v \in Volunteer : Toggle(t, s, v)
      PROVE  PagesHonest'
  <2>1. t \in Tab /\ op[t].pc \in {"idle", "picked"} /\ \E o : Post(t, o)
    BY <1>3 DEF Submit, Leave, Toggle
  <2> QED BY <2>1, PostHonest
<1>4. ASSUME NEW t \in Browser, Write(t) \/ Reply(t) \/ Fail(t)
      PROVE  PagesHonest'
  BY <1>4, WriteHonest, ReplyHonest, FailHonest
<1>5. ASSUME UNCHANGED vars
      PROVE  PagesHonest'
  BY <1>5, QuietHonest DEF vars, fetch
<1> QED BY <1>1, <1>2, <1>3, <1>4, <1>5 DEF Next

LEMMA InvInit == Init => PagesInv
BY InitType, InitHonest DEF PagesInv

LEMMA InvStep == PagesInv /\ [Next]_vars => PagesInv'
BY TypeStep, HonestStep DEF PagesInv

LEMMA AlwaysInv == Spec => []PagesInv
BY InvInit, InvStep, PTL DEF Spec

-----------------------------------------------------------------------------
LEMMA TypesImplyTypeOK == PagesType => TypeOK
<1> SUFFICES ASSUME PagesType
             PROVE  TypeOK
  OBVIOUS
<1>1. \A t \in Tab, k \in Key :
          /\ (wait[t][k] = "got") = (got[t][k] # NoData)
          /\ wait[t][k] \in {"none", "due", "out", "got"}
  <2> SUFFICES ASSUME NEW t \in Tab, NEW k \in Key
               PROVE  /\ (wait[t][k] = "got") = (got[t][k] # NoData)
                      /\ wait[t][k] \in {"none", "due", "out", "got"}
    OBVIOUS
  <2>1. wait[t][k] = "got" <=> got[t][k] # NoData
    BY DEF PagesType, FetchOK
  <2>2. wait[t][k] \in {"none", "due", "out", "got"}
    BY DEF PagesType, FetchOK, Phase
  <2> QED BY <2>1, <2>2
<1>2. \A t \in Tab, k \in Key : cache[t][k] # NoData =>
          IF k = Mine THEN cache[t][k] \subseteq Shift
          ELSE /\ cache[t][k].list \in [Volunteer -> Shown]
               /\ cache[t][k].filled \in 0 .. Cardinality(Volunteer)
  BY DEF PagesType, FetchOK, DataOn, AnswerOf, Rows
<1>3. \A t \in Tab : /\ \A k \in listening[t] : cache[t][k] # NoData
                     /\ Mine \in listening[t] /\ at[t] # Mine => left[t] # NoData
  BY DEF PagesType, HearOK
<1> QED BY <1>1, <1>2, <1>3 DEF TypeOK, PagesType, PlaceOK, RestOK

(* A page that has heard of everything and waits for nothing is right.     *)
LEMMA SettledIsRight ==
    ASSUME PagesInv, NEW t \in Tab, Loaded(t), Settled(t, at[t])
    PROVE  cache[t][at[t]] = View(t, at[t])
<1>1. at[t] \in Key
  BY Tabs DEF PagesInv, PagesType
<1>2. Vouched(t, at[t])
  BY DEF Settled, Vouched, Pending, Changing
<1>3. ~ Exempt(t, at[t])
  BY DEF Settled, Exempt
<1> QED BY <1>1, <1>2, <1>3 DEF PagesInv, PagesHonest, Honest, Settled, Loaded

(* The pages and the requests keep their types.                            *)
THEOREM TypeCorrect == Spec => []TypeOK
<1>1. PagesInv => TypeOK
  BY TypesImplyTypeOK DEF PagesInv
<1> QED BY <1>1, AlwaysInv, PTL

(* ShiftVolunteers.tsx:194: a page that waits for nothing and has heard of *)
(* every change shows the table, whatever the events have put into it.     *)
THEOREM SettledRight == Spec => []SettledPagesAgree
<1>1. PagesInv => SettledPagesAgree
  BY TypesImplyTypeOK, SettledIsRight DEF PagesInv, SettledPagesAgree
<1> QED BY <1>1, AlwaysInv, PTL

-----------------------------------------------------------------------------
(* Who signs up: a request that is written is of somebody at the page.     *)
LEMMA SignerIsThere ==
    ASSUME PagesType, NEW t \in Tab, op[t].pc # "idle", op[t].kind = "add"
    PROVE  /\ op[t].shift = at[t] /\ op[t].who = UserOf[t] /\ at[t] \in Shift
           /\ at[t] \in visits[t] /\ UserOf[t] \in Volunteer
BY Tabs DEF PagesType, OpsOK, OpOK

(* Only the write of a sign-up brings somebody onto a shift.               *)
LEMMA WhoComes ==
    ASSUME PagesType, [Next]_vars, NEW s \in Shift, NEW v \in OnShift(s)',
           v \notin OnShift(s)
    PROVE  \E t \in Tab : /\ Write(t)
                          /\ op[t].pc = "posting" /\ op[t].kind \in {"add", "train"}
                          /\ op[t].shift = s /\ op[t].who = v /\ UserOf[t] = v
<1>1. row' # row
  BY DEF OnShift
<1>2. PICK t \in Browser : Write(t)
  <2> SUFFICES ASSUME \A t \in Browser : ~ Write(t)
               PROVE  row' = row
    BY <1>1
  <2>1. ASSUME NEW t \in Browser, NEW k \in Key,
               Read(t, k) \/ Land(t, k) \/ Focus(t, k) \/ Open(t, k)
        PROVE  row' = row
    BY <2>1 DEF Read, Land, Focus, Open
  <2>2. ASSUME NEW t \in Browser, Listen(t) \/ Receive(t) \/ Pick(t) \/ Cancel(t)
        PROVE  row' = row
    BY <2>2 DEF Listen, Receive, Pick, Cancel
  <2>3. ASSUME NEW t \in Browser, NEW s_1 \in Shift,
               Leave(t, s_1) \/ \E v_1 \in Volunteer : Toggle(t, s_1, v_1)
        PROVE  row' = row
    BY <2>3 DEF Leave, Toggle, Post
  <2>4. ASSUME NEW t \in Browser, NEW x \in {NoData} \cup Shift,
               Submit(t, x) \/ Reply(t) \/ Fail(t)
        PROVE  row' = row
    BY <2>4 DEF Submit, Post, Reply, Fail
  <2> QED BY <2>1, <2>2, <2>3, <2>4 DEF Next, vars
<1>3. /\ t \in Tab /\ op[t] \in Op /\ op[t].pc = "posting" /\ OpOK(op[t], t, at[t])
      /\ op[t].shift \in Shift
  BY <1>2 DEF Write, PagesType, OpsOK, OpOK
<1>4. v \in Volunteer
  BY DEF OnShift
<1>5. row'[s][v] = IF s = op[t].shift /\ v = op[t].who
                   THEN IF op[t].kind = "toggle" /\ row[s][v] = "off" THEN row[s][v]
                        ELSE op[t].value
                   ELSE row[s][v]
  BY <1>2, <1>3, <1>4 DEF Write, PagesType, RestOK
<1>6. row'[s][v] # "off" /\ row[s][v] = "off"
  BY <1>4 DEF OnShift
<1>7. s = op[t].shift /\ v = op[t].who /\ op[t].kind \in {"add", "train"}
  BY <1>3, <1>5, <1>6 DEF OpOK, Op
<1> QED BY <1>2, <1>3, <1>7 DEF OpOK

(* A sign-up is picked first and sent then.                                *)
LEMMA WhoSigns ==
    ASSUME PagesType, [Next]_vars, NEW t \in Tab, NEW s
    PROVE  /\ SigningUp(t, s)' => SigningUp(t, s) \/ (Pick(t) /\ s = at[t])
           /\ Sending(t, s)' => Sending(t, s) \/ (Submits(t) /\ s = at[t])
<1> DEFINE Goal == /\ SigningUp(t, s)' => SigningUp(t, s) \/ (Pick(t) /\ s = at[t])
                   /\ Sending(t, s)' => Sending(t, s) \/ (Submits(t) /\ s = at[t])
<1> USE DEF SigningUp, Dialog, Sending, Busy
<1>1. ASSUME op'[t] = op[t], at'[t] = at[t]
      PROVE  Goal
  BY <1>1
<1>2. op \in [Tab -> Op] /\ op[t] \in Op /\ OpOK(op[t], t, at[t])
  BY DEF PagesType, OpsOK
<1>3. ASSUME NEW x \in Browser, NEW k \in Key,
             Read(x, k) \/ Land(x, k) \/ Focus(x, k)
      PROVE  Goal
  BY <1>1, <1>3 DEF Read, Land, Focus
<1>13. ASSUME NEW x \in Browser, NEW k \in Key, Open(x, k)
       PROVE  Goal
  <2>1. op' = op /\ op[x].pc = "idle" /\ x \in Tab
    BY <1>13 DEF Open
  <2>2. CASE x = t
    BY <2>1, <2>2
  <2>3. CASE x # t
    <3>1. at'[t] = at[t]
      BY <1>13, <2>3 DEF Open, PagesType, PlaceOK
    <3> QED BY <1>1, <2>1, <3>1
  <2> QED BY <2>2, <2>3
<1>4. ASSUME NEW x \in Browser, Listen(x) \/ Receive(x)
      PROVE  Goal
  <2>1. x \in Tab /\ \/ op' = op
                     \/ \E b : op' = [op EXCEPT ![x].raced = b]
    BY <1>4 DEF Listen, Receive
  <2>2. op'[t].pc = op[t].pc /\ op'[t].kind = op[t].kind /\ op'[t].shift = op[t].shift
    BY <1>2, <2>1 DEF Op
  <2>3. at' = at
    BY <1>4 DEF Listen, Receive
  <2> QED BY <2>2, <2>3
<1>5. ASSUME NEW x \in Browser, Pick(x) \/ Cancel(x)
      PROVE  Goal
  <2>1. CASE x # t
    <3>1. op'[t] = op[t] /\ at'[t] = at[t]
      BY <1>2, <1>5, <2>1 DEF Pick, Cancel
    <3> QED BY <1>1, <3>1
  <2>2. CASE x = t /\ Pick(t)
    <3>1. op'[t].pc = "picked" /\ op'[t].shift = at[t] /\ at' = at
      BY <1>2, <2>2 DEF Pick, Op
    <3> QED BY <2>2, <3>1
  <2>3. CASE x = t /\ Cancel(t)
    <3>1. op'[t].pc = "idle"
      BY <1>2, <2>3 DEF Cancel, Idle
    <3> QED BY <3>1
  <2> QED BY <1>5, <2>1, <2>2, <2>3
<1>6. ASSUME NEW x \in Browser, Submits(x)
      PROVE  Goal
  <2> USE DEF Submits
  <2>1. CASE x # t
    <3>1. op'[t] = op[t] /\ at'[t] = at[t]
      BY <1>2, <1>6, <2>1 DEF Submit, Post
    <3> QED BY <1>1, <3>1
  <2>2. CASE x = t
    <3>1. /\ op[t].pc = "picked" /\ op[t].shift = at[t] /\ op'[t].pc = "posting"
          /\ op'[t].kind = op[t].kind /\ op'[t].shift = op[t].shift /\ at' = at
      BY <1>2, <1>6, <2>2 DEF Submit, Post, OpOK, Op
    <3> QED BY <1>6, <2>2, <3>1
  <2> QED BY <2>1, <2>2
<1>7. ASSUME NEW x \in Browser, NEW y \in Shift,
             Leave(x, y) \/ \E v \in Volunteer : Toggle(x, y, v)
      PROVE  Goal
  <2>1. op'[t] = op[t] \/ op'[t].kind \in {"remove", "toggle"}
    BY <1>2, <1>7 DEF Leave, Toggle, Post, Idle
  <2>2. at' = at
    BY <1>7 DEF Leave, Toggle, Post
  <2> QED BY <1>1, <2>1, <2>2
<1>8. ASSUME NEW x \in Browser, Write(x)
      PROVE  Goal
  <2>1. op[x].pc = "posting" /\ op'[t].kind = op[t].kind /\ op'[t].shift = op[t].shift
    BY <1>2, <1>8 DEF Write, Op
  <2>2. op'[t].pc = (IF x = t THEN "written" ELSE op[t].pc) /\ at' = at
    BY <1>2, <1>8 DEF Write, Op
  <2> QED BY <2>1, <2>2
<1>9. ASSUME NEW x \in Browser, Reply(x)
      PROVE  Goal
  <2>1. x \in Tab /\ op[x].pc = "written" /\ op' = [op EXCEPT ![x] = Afterwards(x)]
        /\ at' = at
    BY <1>9 DEF Reply
  <2>2. CASE x # t
    <3>1. op'[t] = op[t]
      BY <1>2, <2>1, <2>2
    <3> QED BY <1>1, <2>1, <3>1
  <2>3. CASE x = t
    <3>1. op'[t] = Afterwards(t)
      BY <1>2, <2>1, <2>3
    <3>2. \/ op'[t].pc = "idle"
          \/ op'[t].kind = "train" /\ op[t].kind = "add"
      <4>1. CASE op[t].training = NoData
        BY <3>1, <4>1 DEF Afterwards, Idle
      <4>2. CASE op[t].training # NoData
        BY <1>2, <3>1, <4>2 DEF Afterwards, OpOK, Op
      <4> QED BY <4>1, <4>2
    <3> QED BY <2>1, <2>3, <3>2
  <2> QED BY <2>2, <2>3
<1>10. ASSUME NEW x \in Browser, Fail(x)
       PROVE  Goal
  <2>1. CASE x # t
    <3>1. op'[t] = op[t] /\ at' = at
      BY <1>2, <1>10, <2>1 DEF Fail
    <3> QED BY <1>1, <3>1
  <2>2. CASE x = t
    <3>1. /\ op[t].pc \in {"posting", "written"} /\ at' = at
          /\ op'[t].pc = "idle" \/ (op'[t].pc = "picked" /\ Dialog(t))
      BY <1>2, <1>10, <2>2 DEF Fail, Idle, Op
    <3> QED BY <3>1
  <2> QED BY <2>1, <2>2
<1>11. ASSUME UNCHANGED vars
       PROVE  Goal
  BY <1>1, <1>11 DEF vars
<1> HIDE DEF Goal
<1>12. Goal
  BY <1>3, <1>13, <1>4, <1>5, <1>6, <1>7, <1>8, <1>9, <1>10, <1>11 DEF Next, Submits
<1> QED BY <1>12 DEF Goal

(* What the histories have noted stays noted, and the tabs stay open.      *)
LEMMA HistoryStays ==
    ASSUME [Next]_vars
    PROVE  crowded \subseteq crowded' /\ hasty \subseteq hasty' /\ visits' = visits
<1> DEFINE Goal == crowded \subseteq crowded' /\ hasty \subseteq hasty' /\ visits' = visits
<1>1. ASSUME NEW t \in Browser, NEW k \in Key,
             Read(t, k) \/ Land(t, k) \/ Focus(t, k) \/ Open(t, k)
      PROVE  Goal
  BY <1>1 DEF Read, Land, Focus, Open, past
<1>2. ASSUME NEW t \in Browser, Listen(t) \/ Receive(t) \/ Pick(t) \/ Cancel(t)
      PROVE  Goal
  BY <1>2 DEF Listen, Receive, Pick, Cancel, past
<1>3. ASSUME NEW t \in Browser, NEW s \in Shift,
             Leave(t, s) \/ \E v \in Volunteer : Toggle(t, s, v)
      PROVE  Goal
  BY <1>3 DEF Leave, Toggle, Post
<1>4. ASSUME NEW t \in Browser, NEW x \in {NoData} \cup Shift, Submit(t, x)
      PROVE  Goal
  BY <1>4 DEF Submit, Post
<1>5. ASSUME NEW t \in Browser, Write(t) \/ Reply(t) \/ Fail(t)
      PROVE  Goal
  BY <1>5 DEF Write, Reply, Fail, past
<1>6. ASSUME UNCHANGED vars
      PROVE  Goal
  BY <1>6 DEF vars, past
<1> HIDE DEF Goal
<1>7. Goal
  BY <1>1, <1>2, <1>3, <1>4, <1>5, <1>6 DEF Next
<1> QED BY <1>7 DEF Goal

LEMMA PartyCount ==
    ASSUME PagesType, NEW s \in Shift
    PROVE  Party(s) \subseteq Volunteer /\ IsFiniteSet(Party(s))
<1>1. Party(s) \subseteq Volunteer
  BY Tabs DEF Party, OnShift, PagesType
<1> QED BY <1>1, PagesAssumption, FS_Subset

(* Trainings are noted when the sign-up that takes them along is sent.     *)
LEMMA NotedStep == PagesType /\ NotedInv /\ [Next]_vars => NotedInv'
<1> SUFFICES ASSUME PagesType, NotedInv, [Next]_vars, NEW t \in Tab
             PROVE  /\ op'[t].training # NoData => op'[t].training \in crowded'
                    /\ op'[t].kind = "train" => op'[t].shift \in crowded'
  BY HistoryStays DEF NotedInv, Tab
<1> DEFINE Goal == /\ op'[t].training # NoData => op'[t].training \in crowded'
                   /\ op'[t].kind = "train" => op'[t].shift \in crowded'
<1>1. /\ op \in [Tab -> Op] /\ op[t] \in Op
      /\ op[t].training # NoData => op[t].training \in crowded
      /\ op[t].kind = "train" => op[t].shift \in crowded
      /\ crowded \subseteq crowded'
  BY HistoryStays DEF PagesType, OpsOK, NotedInv
<1>2. ASSUME \/ op'[t] = op[t]
             \/ /\ op'[t].training \in {NoData, op[t].training}
                /\ op'[t].kind = op[t].kind /\ op'[t].shift = op[t].shift
             \/ op'[t].training = NoData /\ op'[t].kind # "train"
      PROVE  Goal
  BY <1>1, <1>2
<1> HIDE DEF Goal
<1>3. ASSUME NEW x \in Browser, NEW k \in Key,
             Read(x, k) \/ Land(x, k) \/ Focus(x, k) \/ Open(x, k)
      PROVE  Goal
  BY <1>2, <1>3 DEF Read, Land, Focus, Open
<1>4. ASSUME NEW x \in Browser, Receive(x) \/ Write(x)
      PROVE  Goal
  <2>1. x \in Tab /\ \/ op' = [op EXCEPT ![x].pc = "written"]
                     \/ \E b : op' = [op EXCEPT ![x].raced = b]
    BY <1>4 DEF Write, Receive
  <2>2. /\ op'[t].training = op[t].training /\ op'[t].kind = op[t].kind
        /\ op'[t].shift = op[t].shift
    BY <1>1, <2>1 DEF Op
  <2> QED BY <1>2, <2>2
<1>5. ASSUME NEW x \in Browser, Pick(x)
      PROVE  Goal
  <2>1. op[x].training = NoData \/ op[x].kind = "add"
    BY <1>5 DEF Pick, PagesType, OpsOK, OpOK
  <2>2. op'[t] = op[t] \/ (op'[t].training = op[t].training /\ op'[t].kind = "add")
    BY <1>1, <1>5 DEF Pick, Op
  <2> QED BY <1>1, <2>2 DEF Goal
<1>6. ASSUME NEW x \in Browser, Listen(x) \/ Cancel(x)
      PROVE  Goal
  BY <1>1, <1>2, <1>6 DEF Listen, Cancel, Idle
<1>7. ASSUME NEW x \in Browser, NEW y \in {NoData} \cup Shift, Submit(x, y)
      PROVE  Goal
  <2>1. CASE x # t
    BY <1>1, <1>2, <1>7, <2>1 DEF Submit, Post
  <2>2. CASE x = t
    <3>1. /\ op[t].kind = "add" /\ op'[t].kind = op[t].kind /\ op'[t].training = y
          /\ y # NoData => y \in crowded'
      BY <1>1, <1>7, <2>2 DEF Submit, Post, PagesType, OpsOK, OpOK, Op
    <3> QED BY <3>1 DEF Goal
  <2> QED BY <2>1, <2>2
<1>8. ASSUME NEW x \in Browser, NEW y \in Shift,
             Leave(x, y) \/ \E v \in Volunteer : Toggle(x, y, v)
      PROVE  Goal
  <2>1. op'[t] = op[t] \/ (op'[t].training = NoData /\ op'[t].kind \in {"remove", "toggle"})
    BY <1>1, <1>8 DEF Leave, Toggle, Post, Idle
  <2> QED BY <1>2, <2>1
<1>9. ASSUME NEW x \in Browser, Reply(x)
      PROVE  Goal
  <2>1. CASE x # t
    BY <1>1, <1>2, <1>9, <2>1 DEF Reply
  <2>2. CASE x = t
    <3>1. op'[t] = Afterwards(t)
      BY <1>1, <1>9, <2>2 DEF Reply
    <3>2. CASE op[t].training = NoData
      BY <1>2, <3>1, <3>2 DEF Afterwards, Idle
    <3>3. CASE op[t].training # NoData
      <4>1. op'[t].training = NoData /\ op'[t].shift = op[t].training
        BY <1>1, <3>1, <3>3 DEF Afterwards, Op
      <4> QED BY <1>1, <3>3, <4>1 DEF Goal
    <3> QED BY <3>2, <3>3
  <2> QED BY <2>1, <2>2
<1>10. ASSUME NEW x \in Browser, Fail(x)
       PROVE  Goal
  <2>1. op'[t] = op[t] \/ (op'[t].training = NoData /\ op'[t].kind # "train")
    BY <1>1, <1>10 DEF Fail, Idle, Op
  <2> QED BY <1>2, <2>1
<1>11. ASSUME UNCHANGED vars
       PROVE  Goal
  BY <1>2, <1>11 DEF vars
<1>12. Goal
  BY <1>3, <1>4, <1>5, <1>6, <1>7, <1>8, <1>9, <1>10, <1>11 DEF Next
<1> QED BY <1>12 DEF Goal

(* Nobody joins the party of a shift but who picks a place, or takes it    *)
(* along as a training.                                                    *)
LEMMA PartyShrinks ==
    ASSUME PagesType, NotedInv, [Next]_vars, NEW s \in Shift, s \notin crowded,
           \A t \in Tab : ~ (Pick(t) /\ s = at[t])
    PROVE  Party(s)' \subseteq Party(s)
<1>1. Tab' = Tab
  BY HistoryStays DEF Tab
<1> SUFFICES ASSUME NEW v \in Party(s)'
             PROVE  v \in Party(s)
  OBVIOUS
<1>2. CASE v \in OnShift(s)'
  <2>1. CASE v \in OnShift(s)
    BY <2>1 DEF Party
  <2>2. CASE v \notin OnShift(s)
    <3>1. PICK t \in Tab : /\ op[t].pc = "posting" /\ op[t].kind \in {"add", "train"}
                           /\ op[t].shift = s /\ UserOf[t] = v
      BY <1>2, <2>2, WhoComes
    <3>2. op[t].kind = "add"
      BY <3>1 DEF NotedInv
    <3>3. SigningUp(t, s)
      BY <3>1, <3>2, SignerIsThere DEF SigningUp, Dialog
    <3> QED BY <3>1, <3>3 DEF Party
  <2> QED BY <2>1, <2>2
<1>3. CASE v \notin OnShift(s)'
  <2>1. PICK t \in Tab : SigningUp(t, s)' /\ UserOf[t] = v
    BY <1>1, <1>3 DEF Party
  <2>2. SigningUp(t, s)
    BY <2>1, WhoSigns
  <2> QED BY <2>1, <2>2 DEF Party
<1> QED BY <1>2, <1>3

(* Who picks a place alone, on a page that is up to date, finds it free.   *)
LEMMA PickFits ==
    ASSUME PagesInv, NEW t \in Tab, Pick(t), at[t] \in Future, at[t] \notin crowded'
    PROVE  (\A s : s = at[t] => Cardinality(Party(s)') <= Slots)
<1> SUFFICES ASSUME NEW s, s = at[t]
             PROVE  Cardinality(Party(s)') <= Slots
  OBVIOUS
<1>1. s \in Shift /\ s # Mine
  BY PagesAssumption DEF Pick
<1>2. Settled(t, s) /\ \A x \in Tab \ {t} : ~ SigningUp(x, s)
  BY DEF Pick
<1>3. cache[t][s] = View(t, s)
  BY <1>2, SettledIsRight DEF Pick
<1>4. Cardinality(OnShift(s)) < Slots
  BY <1>1, <1>3 DEF Pick, Offered, View
<1>5. Party(s)' \subseteq OnShift(s) \cup {UserOf[t]}
  <2>1. Tab' = Tab /\ OnShift(s)' = OnShift(s)
    BY DEF Pick, Tab, OnShift
  <2>2. at' = at /\ \A x \in Tab : x # t => op'[x] = op[x]
    BY DEF Pick, PagesInv, PagesType, OpsOK
  <2>3. \A x \in Tab : SigningUp(x, s)' => x = t
    BY <1>2, <2>2 DEF SigningUp, Dialog
  <2> QED BY <2>1, <2>3 DEF Party
<1>6. IsFiniteSet(OnShift(s)) /\ Cardinality(OnShift(s)) \in Nat /\ Slots \in Nat
  BY <1>1, OnShiftCount, PagesAssumption
<1>7. /\ IsFiniteSet(OnShift(s) \cup {UserOf[t]})
      /\ Cardinality(OnShift(s) \cup {UserOf[t]}) <= Cardinality(OnShift(s)) + 1
      /\ Cardinality(OnShift(s) \cup {UserOf[t]}) \in Nat
  BY <1>6, FS_AddElement
<1>8. /\ Cardinality(Party(s)') <= Cardinality(OnShift(s) \cup {UserOf[t]})
      /\ Cardinality(Party(s)') \in Nat
  BY <1>5, <1>7, FS_Subset, FS_CardinalityType
<1> QED BY <1>4, <1>6, <1>7, <1>8

LEMMA RoomStep == PagesInv /\ NotedInv /\ RoomInv /\ [Next]_vars => RoomInv'
<1> SUFFICES ASSUME PagesInv, NotedInv, RoomInv, [Next]_vars,
                    NEW s \in Future, s \notin crowded'
             PROVE  Cardinality(Party(s)') <= Slots
  BY DEF RoomInv
<1>1. s \in Shift /\ s \notin crowded
  BY HistoryStays, PagesAssumption
<1>2. CASE \E t \in Tab : Pick(t) /\ s = at[t]
  BY <1>2, PickFits
<1>3. CASE \A t \in Tab : ~ (Pick(t) /\ s = at[t])
  <2>1. Party(s)' \subseteq Party(s)
    BY <1>1, <1>3, PartyShrinks DEF PagesInv
  <2>2. IsFiniteSet(Party(s)) /\ Cardinality(Party(s)) <= Slots
    BY <1>1, PartyCount DEF PagesInv, RoomInv
  <2>3. /\ Cardinality(Party(s)') <= Cardinality(Party(s))
        /\ Cardinality(Party(s)') \in Nat /\ Cardinality(Party(s)) \in Nat
        /\ Slots \in Nat
    BY <2>1, <2>2, FS_Subset, FS_CardinalityType, PagesAssumption
  <2> QED BY <2>2, <2>3
<1> QED BY <1>2, <1>3

LEMMA RoomInit ==
    ASSUME RoomAtFirst, Init
    PROVE  NotedInv /\ RoomInv
<1>0. NotedInv
  BY DEF NotedInv, Init, Idle
<1> SUFFICES ASSUME NEW s \in Future
             PROVE  Cardinality(Party(s)) <= Slots
  BY <1>0 DEF RoomInv
<1>1. visits \in Sessions /\ s \in Shift
  BY PagesAssumption DEF Init
<1>2. FirstOn[visits][s] \subseteq Volunteer
  BY <1>1, PagesAssumption
<1>3. OnShift(s) = FirstOn[visits][s]
  BY <1>1, <1>2 DEF Init, OnShift
<1>4. \A t \in Tab : ~ SigningUp(t, s)
  BY DEF Init, SigningUp, Dialog, Idle
<1>5. Party(s) = FirstOn[visits][s]
  BY <1>3, <1>4 DEF Party
<1> QED BY <1>1, <1>5 DEF RoomAtFirst

(* A shift yet to come gets no more people than places, unless somebody    *)
(* picks one while another sign-up is under way or before her page has     *)
(* heard of the last, or takes it along as a training.                     *)
THEOREM RoomKept ==
    ASSUME RoomAtFirst
    PROVE  Spec => []SlotsKept
<1>1. Init => PagesInv /\ NotedInv /\ RoomInv
  BY InvInit, RoomInit
<1>2. PagesInv /\ NotedInv /\ RoomInv /\ [Next]_vars => PagesInv' /\ NotedInv' /\ RoomInv'
  BY InvStep, NotedStep, RoomStep DEF PagesInv
<1>3. PagesInv /\ RoomInv => SlotsKept
  <2> SUFFICES ASSUME PagesInv, RoomInv, NEW s \in Future,
                      Cardinality(OnShift(s)) > Slots, s \notin crowded
               PROVE  FALSE
    BY DEF SlotsKept
  <2>1. s \in Shift
    BY PagesAssumption
  <2>2. OnShift(s) \subseteq Party(s) /\ IsFiniteSet(Party(s))
    BY <2>1, PartyCount DEF PagesInv, Party
  <2>3. /\ Cardinality(OnShift(s)) <= Cardinality(Party(s))
        /\ Cardinality(OnShift(s)) \in Nat /\ Cardinality(Party(s)) \in Nat
    BY <2>2, FS_Subset, FS_CardinalityType
  <2> QED BY <2>3, PagesAssumption DEF RoomInv
<1> QED BY <1>1, <1>2, <1>3, PTL DEF Spec

-----------------------------------------------------------------------------
LEMMA CameInit == Init => CameInv
<1> SUFFICES ASSUME Init, NEW s \in Shift, NEW v \in OnShift(s)
             PROVE  v \in FirstOn[visits][s]
  BY DEF CameInv, Came, Holds
<1> QED BY DEF Init, OnShift

(* Who holds a shift that she did not hold has asked for it: a training    *)
(* taken along is noted by its write, and until it is given up.            *)
LEMMA WhoHolds ==
    ASSUME PagesType, [Next]_vars, NEW s \in Shift, NEW v \in Volunteer,
           Holds(v, s)', ~ Holds(v, s)
    PROVE  \E t \in Tab : /\ op[t].pc = "posting" /\ op[t].kind = "add"
                          /\ op[t].shift = s /\ UserOf[t] = v
<1>1. CASE v \notin OnShift(s)
  <2>1. PICK t \in Tab : /\ Write(t)
                         /\ op[t].pc = "posting" /\ op[t].kind \in {"add", "train"}
                         /\ op[t].shift = s /\ op[t].who = v /\ UserOf[t] = v
    BY <1>1, WhoComes DEF Holds
  <2>2. op[t].kind # "train"
    BY <2>1 DEF Write, Holds
  <2> QED BY <2>1, <2>2
<1>2. CASE v \in OnShift(s)
  <2>1. <<v, s>> \in along /\ <<v, s>> \notin along'
    BY <1>2 DEF Holds
  <2>2. PICK t \in Browser : Write(t)
    <3> SUFFICES ASSUME \A t \in Browser : ~ Write(t)
                 PROVE  along' = along
      BY <2>1
    <3>1. ASSUME NEW t \in Browser, NEW k \in Key,
                 Read(t, k) \/ Land(t, k) \/ Focus(t, k) \/ Open(t, k)
          PROVE  along' = along
      BY <3>1 DEF Read, Land, Focus, Open, past
    <3>2. ASSUME NEW t \in Browser, Listen(t) \/ Receive(t) \/ Pick(t) \/ Cancel(t)
          PROVE  along' = along
      BY <3>2 DEF Listen, Receive, Pick, Cancel, past
    <3>3. ASSUME NEW t \in Browser, NEW s_1 \in Shift,
                 Leave(t, s_1) \/ \E v_1 \in Volunteer : Toggle(t, s_1, v_1)
          PROVE  along' = along
      BY <3>3 DEF Leave, Toggle, Post
    <3>4. ASSUME NEW t \in Browser, NEW x \in {NoData} \cup Shift,
                 Submit(t, x) \/ Reply(t) \/ Fail(t)
          PROVE  along' = along
      BY <3>4 DEF Submit, Post, Reply, Fail, past
    <3> QED BY <3>1, <3>2, <3>3, <3>4 DEF Next, vars, past
  <2>3. /\ t \in Tab /\ op[t] \in Op /\ op[t].pc = "posting" /\ OpOK(op[t], t, at[t])
    BY <2>2 DEF Write, PagesType, OpsOK
  <2>4. op[t].kind = "remove" /\ op[t].who = v /\ op[t].shift = s
    BY <2>1, <2>2 DEF Write
  <2>5. row'[s][v] = "off"
    BY <2>2, <2>3, <2>4 DEF Write, OpOK, PagesType, RestOK
  <2> QED BY <2>5 DEF Holds, OnShift
<1> QED BY <1>1, <1>2

LEMMA CameStep == PagesType /\ CameInv /\ [Next]_vars => CameInv'
<1> SUFFICES ASSUME PagesType, CameInv, [Next]_vars, NEW s \in Shift,
                    NEW v \in Volunteer, Holds(v, s)'
             PROVE  Came(v, s)'
  BY DEF CameInv
<1>1. Came(v, s)' <=> Came(v, s)
  BY HistoryStays DEF Came, Tab
<1>2. CASE Holds(v, s)
  BY <1>1, <1>2 DEF CameInv
<1>3. CASE ~ Holds(v, s)
  <2>1. PICK t \in Tab : /\ op[t].pc = "posting" /\ op[t].kind = "add"
                         /\ op[t].shift = s /\ UserOf[t] = v
    BY <1>3, WhoHolds
  <2>2. s \in visits[t]
    BY <2>1, SignerIsThere
  <2> QED BY <1>1, <2>1, <2>2 DEF Came
<1> QED BY <1>2, <1>3

(* Nobody plans more but who submits.                                      *)
LEMMA PlansShrink ==
    ASSUME PagesType, [Next]_vars, NEW v \in Volunteer,
           \A t \in Tab : ~ (Submits(t) /\ UserOf[t] = v)
    PROVE  Plans(v)' \subseteq Plans(v)
<1>1. Tab' = Tab
  BY HistoryStays DEF Tab
<1> SUFFICES ASSUME NEW s \in Shift, Holds(v, s)' \/ AskedFor(v, s)'
             PROVE  Holds(v, s) \/ AskedFor(v, s)
  BY DEF Plans
<1>2. CASE Holds(v, s)'
  BY <1>2, WhoHolds DEF AskedFor, Sending, Busy
<1>3. CASE AskedFor(v, s)'
  <2>1. PICK t \in Tab : UserOf[t] = v /\ Sending(t, s)'
    BY <1>1, <1>3 DEF AskedFor
  <2>2. Sending(t, s)
    BY <2>1, WhoSigns
  <2> QED BY <2>1, <2>2 DEF AskedFor
<1> QED BY <1>2, <1>3

(* Who submits alone, with a list that has been read again after her last  *)
(* change or on a page that needs none, overlaps with nothing.             *)
LEMMA SubmitApart ==
    ASSUME PagesInv, CameInv, ListWhereNeeded, NEW t \in Tab, NEW also, Submit(t, also),
           UserOf[t] \notin hasty', NEW s, s = at[t], NEW x \in Shift \ Canceled,
           Holds(UserOf[t], x)
    PROVE  <<s, x>> \notin Clash /\ <<x, s>> \notin Clash
<1>1. op[t].pc = "picked" /\ s \in Shift /\ s \in visits[t] /\ visits \in Sessions
  <2>1. op[t].pc = "picked" /\ op[t].kind = "add"
    BY DEF Submit, PagesInv, PagesType, OpsOK, OpOK
  <2> QED BY <2>1, SignerIsThere DEF PagesInv, PagesType, PlaceOK
<1> SUFFICES <<s, x>> \notin Clash
  BY <1>1, PagesAssumption
<1>2. CASE Roaming(t)
  <2>1. x \in cache[t][Mine] => ~ Overlap(x, s)
    BY <1>2 DEF Submit, MaySubmit
  <2>2. cache[t][Mine] # NoData
    BY <1>2 DEF Submit, MaySubmit
  <2>3. wait[t][Mine] = "none" /\ Mine \notin unaware[t]
    BY <2>2 DEF Submit
  <2>4. Vouched(t, Mine)
    <3>1. ~ Pending(t, Mine)
      <4> SUFFICES ASSUME NEW i \in DOMAIN inbox[t], inbox[t][i].shift = Mine
                   PROVE  FALSE
        BY DEF Pending
      <4>1. inbox[t] \in Seq(Event)
        BY DEF PagesInv, PagesType, RestOK
      <4>2. inbox[t][i] \in Event
        BY <4>1
      <4> QED BY <4>2, PagesAssumption DEF Event
    <3>2. ~ Changing(Mine)
      BY PagesAssumption DEF Changing, PagesInv, PagesType, OpsOK, OpOK
    <3> QED BY <2>3, <3>1, <3>2 DEF Vouched
  <2>5. ~ Exempt(t, Mine)
    BY <1>1 DEF Exempt, Busy
  <2>6. Mine \in Key
    BY DEF Key
  <2>7. cache[t][Mine] = View(t, Mine)
    BY <2>2, <2>3, <2>4, <2>5, <2>6 DEF PagesInv, PagesHonest, Honest
  <2>8. x \in cache[t][Mine]
    BY <2>7 DEF View, Holds
  <2> QED BY <1>1, <2>1, <2>8, PagesAssumption DEF Overlap
<1>3. CASE ~ Roaming(t)
  <2> SUFFICES ASSUME <<s, x>> \in Clash
               PROVE  FALSE
    OBVIOUS
  <2>1. /\ UserOf[t] \notin FirstOn[visits][x]
        /\ \A u \in Tab : UserOf[u] = UserOf[t] => x \notin visits[u]
    BY <1>1, <1>3 DEF ListWhereNeeded, Roaming, Tab
  <2>2. UserOf[t] \in Volunteer
    BY Tabs DEF PagesInv, PagesType
  <2> QED BY <2>1, <2>2 DEF CameInv, Came
<1> QED BY <1>2, <1>3

LEMMA ClashStep ==
    ASSUME ListWhereNeeded
    PROVE  PagesInv /\ CameInv /\ ClashInv /\ [Next]_vars => ClashInv'
<1> SUFFICES ASSUME PagesInv, CameInv, ClashInv, [Next]_vars,
                    NEW v \in Volunteer, v \notin hasty',
                    NEW s \in Plans(v)', NEW x \in Plans(v)'
             PROVE  <<s, x>> \notin Clash
  BY DEF ClashInv
<1>1. v \notin hasty /\ Tab' = Tab /\ s \in Shift \ Canceled /\ x \in Shift \ Canceled
  BY HistoryStays DEF Tab, Plans
<1>2. CASE \A t \in Tab : ~ (Submits(t) /\ UserOf[t] = v)
  <2>1. s \in Plans(v) /\ x \in Plans(v)
    BY <1>2, PlansShrink DEF PagesInv
  <2> QED BY <1>1, <2>1 DEF ClashInv
<1>3. CASE \E t \in Tab : Submits(t) /\ UserOf[t] = v
  <2>0. PICK t \in Tab : Submits(t) /\ UserOf[t] = v
    BY <1>3
  <2>1. PICK also \in {NoData} \cup Shift : Submit(t, also) /\ UserOf[t] = v
    BY <2>0 DEF Submits
  <2>2. \A u \in Tab \ {t} : UserOf[u] = v => op[u].pc = "idle"
    BY <1>1, <2>1 DEF Submit
  <2>3. \A y \in Shift : y \in Plans(v)' => y = at[t] \/ Holds(v, y)
    <3> SUFFICES ASSUME NEW y \in Shift, y \in Plans(v)', ~ Holds(v, y)
                 PROVE  y = at[t]
      OBVIOUS
    <3>1. row' = row /\ along' = along
      BY <2>1 DEF Submit, Post
    <3>2. ~ Holds(v, y)'
      BY <3>1 DEF Holds, OnShift
    <3>3. PICK u \in Tab : UserOf[u] = v /\ Sending(u, y)'
      BY <1>1, <3>2 DEF Plans, AskedFor
    <3>4. Sending(u, y) \/ (Submits(u) /\ y = at[u])
      BY <3>3, WhoSigns DEF PagesInv
    <3>5. u = t
      BY <2>2, <3>3, <3>4 DEF Sending, Busy, Submits, Submit
    <3>6. ~ Sending(t, y)
      BY <2>1 DEF Submit, Sending, Busy
    <3> QED BY <3>4, <3>5, <3>6
  <2>4. at[t] \in Shift
    <3>1. op[t].pc = "picked" /\ op[t].kind = "add"
      BY <2>1 DEF Submit, PagesInv, PagesType, OpsOK, OpOK
    <3> QED BY <3>1, SignerIsThere DEF PagesInv
  <2>5. CASE Holds(v, s) /\ Holds(v, x)
    BY <1>1, <2>5 DEF ClashInv, Plans
  <2>6. CASE ~ Holds(v, s) /\ Holds(v, x)
    BY <1>1, <2>1, <2>3, <2>6, SubmitApart
  <2>7. CASE Holds(v, s) /\ ~ Holds(v, x)
    BY <1>1, <2>1, <2>3, <2>7, SubmitApart
  <2>8. CASE ~ Holds(v, s) /\ ~ Holds(v, x)
    BY <1>1, <2>3, <2>8, PagesAssumption
  <2> QED BY <2>5, <2>6, <2>7, <2>8
<1> QED BY <1>2, <1>3

LEMMA ClashInit ==
    ASSUME ApartAtFirst, Init
    PROVE  ClashInv
<1> SUFFICES ASSUME NEW v \in Volunteer, NEW s \in Plans(v), NEW x \in Plans(v)
             PROVE  <<s, x>> \notin Clash
  BY DEF ClashInv
<1>1. visits \in Sessions /\ s \in Shift \ Canceled /\ x \in Shift \ Canceled
  BY DEF Init, Plans
<1>2. \A y \in Shift : ~ AskedFor(v, y)
  BY DEF Init, AskedFor, Sending, Busy, Idle
<1>3. v \in FirstOn[visits][s] /\ v \in FirstOn[visits][x]
  BY <1>1, <1>2 DEF Init, Plans, Holds, OnShift
<1> QED BY <1>1, <1>3 DEF ApartAtFirst

(* ShiftVolunteersDialogAdd.tsx:618: nobody comes to be on two shifts that *)
(* overlap, unless she submits two sign-ups at a time or before the list   *)
(* of her shifts has been read again after her last change.  Canceled      *)
(* shifts, and trainings taken along with another shift, do not count.     *)
THEOREM NobodyTwice ==
    ASSUME ApartAtFirst, ListWhereNeeded
    PROVE  Spec => []NoDoubleBooking
<1>1. Init => PagesInv /\ CameInv /\ ClashInv
  BY InvInit, CameInit, ClashInit
<1>2. PagesInv /\ CameInv /\ ClashInv /\ [Next]_vars => PagesInv' /\ CameInv' /\ ClashInv'
  BY InvStep, CameStep, ClashStep DEF PagesInv
<1>3. ClashInv => NoDoubleBooking
  BY DEF ClashInv, NoDoubleBooking, Plans, Holds
<1> QED BY <1>1, <1>2, <1>3, PTL DEF Spec
=============================================================================

---------------------------- MODULE DbPoolProofs ----------------------------
(***************************************************************************)
(* Theorems about DbPool, for any number of statements, pings and          *)
(* connections, and any bounds.                                            *)
(***************************************************************************)
EXTENDS DbPool, FiniteSetTheorems, SequenceTheorems, TLAPS

-----------------------------------------------------------------------------
(* What the inductive invariants say.                                      *)

(* A job has a connection to itself exactly while it runs, and a place in  *)
(* the queue to itself exactly while it waits.                             *)
Held ==
    /\ \A c, d \in Conn : holder[c] = holder[d] /\ holder[c] # None => c = d
    /\ \A c \in Conn : conn[c] = "none" => holder[c] = None
    /\ \A j \in Job : job[j] = "running" <=> \E c \in Conn : holder[c] = j

Queued ==
    /\ IsInjective(queue)
    /\ \A j \in Job : job[j] = "waiting" <=> j \in Range(queue)

PlacesInv == TypeOK /\ Held /\ Queued

(* A drain after which nothing went wrong has left nothing that can make a *)
(* ping fail.                                                              *)
Healed ==
    wedgeTicks > 0 /\ ~ hurt =>
        /\ up /\ pc # "fresh"
        /\ \A c \in Conn : conn[c] # "dead"
        /\ \A j \in Job : ~ slow[j]
        /\ pc = "ping" => job[ping] # "failed"

(* One death is one connection, or one statement that is executed again.   *)
Harmless ==
    breaks <= 1 /\ outages = 0 /\ ~ drained =>
        /\ up
        /\ \A j \in Job : job[j] # "failed"
        /\ \A c, d \in Conn : conn[c] = "dead" /\ conn[d] = "dead" => c = d
        /\ \A c \in Conn, j \in Job : ~ (conn[c] = "dead" /\ again[j])
        /\ breaks = 0 => /\ \A c \in Conn : conn[c] # "dead"
                         /\ \A j \in Job : ~ again[j]

-----------------------------------------------------------------------------
(* Queues.                                                                 *)

LEMMA Appended ==
    ASSUME NEW S, NEW q \in Seq(S), NEW e \in S
    PROVE  /\ Append(q, e) \in Seq(S)
           /\ Range(Append(q, e)) = Range(q) \cup {e}
           /\ IsInjective(q) /\ e \notin Range(q) => IsInjective(Append(q, e))
<1> DEFINE a == Append(q, e)
<1>1. /\ a \in Seq(S) /\ Len(a) = Len(q) + 1 /\ Len(q) \in Nat
      /\ \A i \in 1 .. Len(q) : a[i] = q[i]
      /\ a[Len(q) + 1] = e
  BY AppendProperties, LenProperties
<1>2. /\ Range(q) = {q[i] : i \in 1 .. Len(q)}
      /\ Range(a) = {a[i] : i \in 1 .. Len(a)}
      /\ DOMAIN q = 1 .. Len(q) /\ DOMAIN a = 1 .. Len(a)
  BY <1>1, RangeEquality, LenProperties
<1>3. 1 .. Len(a) = (1 .. Len(q)) \cup {Len(q) + 1}
  BY <1>1
<1> HIDE DEF a
<1>4. Range(a) = Range(q) \cup {e}
  BY <1>1, <1>2, <1>3
<1>5. ASSUME IsInjective(q), e \notin Range(q) PROVE IsInjective(a)
  <2> SUFFICES ASSUME NEW i \in 1 .. Len(a), NEW k \in 1 .. Len(a), a[i] = a[k]
               PROVE  i = k
    BY <1>2 DEF IsInjective
  <2>1. CASE i \in 1 .. Len(q) /\ k \in 1 .. Len(q)
    BY <2>1, <1>1, <1>2, <1>5 DEF IsInjective
  <2>2. CASE i = Len(q) + 1 /\ k \in 1 .. Len(q)
    BY <2>2, <1>1, <1>2, <1>5
  <2>3. CASE i \in 1 .. Len(q) /\ k = Len(q) + 1
    BY <2>3, <1>1, <1>2, <1>5
  <2> QED BY <2>1, <2>2, <2>3, <1>3
<1> QED BY <1>1, <1>4, <1>5 DEF a

LEMMA Shortened ==
    ASSUME NEW S, NEW q \in Seq(S), q # <<>>, IsInjective(q)
    PROVE  /\ Head(q) \in S /\ Head(q) \in Range(q)
           /\ Tail(q) \in Seq(S) /\ IsInjective(Tail(q))
           /\ Range(Tail(q)) = Range(q) \ {Head(q)}
<1> DEFINE a == Tail(q)
<1>1. /\ Head(q) \in S /\ a \in Seq(S) /\ Len(a) = Len(q) - 1
      /\ \A i \in 1 .. Len(a) : a[i] = q[i + 1]
  BY HeadTailProperties
<1>2. Len(q) \in Nat \ {0} /\ Head(q) = q[1]
  BY EmptySeq
<1>3. /\ Range(q) = {q[i] : i \in 1 .. Len(q)}
      /\ Range(a) = {a[i] : i \in 1 .. Len(a)}
      /\ DOMAIN q = 1 .. Len(q) /\ DOMAIN a = 1 .. Len(a)
  BY <1>1, RangeEquality, LenProperties
<1>4. \A i, k \in 1 .. Len(q) : q[i] = q[k] => i = k
  BY <1>3 DEF IsInjective
<1> HIDE DEF a
<1>5. IsInjective(a)
  <2> SUFFICES ASSUME NEW i \in 1 .. Len(a), NEW k \in 1 .. Len(a), a[i] = a[k]
               PROVE  i = k
    BY <1>3 DEF IsInjective
  <2>1. i + 1 \in 1 .. Len(q) /\ k + 1 \in 1 .. Len(q) /\ q[i + 1] = q[k + 1]
    BY <1>1, <1>2
  <2> QED BY <2>1, <1>4
<1>6. Range(a) \subseteq Range(q) \ {Head(q)}
  <2> SUFFICES ASSUME NEW i \in 1 .. Len(a) PROVE a[i] \in Range(q) \ {Head(q)}
    BY <1>3
  <2>1. i + 1 \in 1 .. Len(q) /\ i + 1 # 1 /\ 1 \in 1 .. Len(q) /\ a[i] = q[i + 1]
    BY <1>1, <1>2
  <2> QED BY <2>1, <1>2, <1>3, <1>4
<1>7. Range(q) \ {Head(q)} \subseteq Range(a)
  <2> SUFFICES ASSUME NEW i \in 1 .. Len(q), i # 1 PROVE q[i] \in Range(a)
    BY <1>2, <1>3
  <2>1. i - 1 \in 1 .. Len(a) /\ (i - 1) + 1 = i
    BY <1>1, <1>2
  <2> QED BY <2>1, <1>1, <1>3
<1> QED BY <1>1, <1>2, <1>3, <1>5, <1>6, <1>7 DEF a

LEMMA Joined ==
    ASSUME NEW S, NEW q \in Seq(S), NEW o \in Seq(S), IsInjective(q), IsInjective(o),
           Range(q) \cap Range(o) = {}
    PROVE  /\ q \o o \in Seq(S) /\ IsInjective(q \o o)
           /\ Range(q \o o) = Range(q) \cup Range(o)
<1> DEFINE a == q \o o
<1>1. /\ a \in Seq(S) /\ Len(a) = Len(q) + Len(o) /\ Len(q) \in Nat /\ Len(o) \in Nat
      /\ \A i \in 1 .. Len(a) : a[i] = IF i <= Len(q) THEN q[i] ELSE o[i - Len(q)]
  BY ConcatProperties, LenProperties
<1>2. Range(a) = Range(q) \cup Range(o)
  BY RangeConcatenation
<1>3. /\ Range(q) = {q[i] : i \in 1 .. Len(q)}
      /\ Range(o) = {o[i] : i \in 1 .. Len(o)}
      /\ DOMAIN q = 1 .. Len(q) /\ DOMAIN o = 1 .. Len(o) /\ DOMAIN a = 1 .. Len(a)
  BY <1>1, RangeEquality, LenProperties
<1> HIDE DEF a
<1>4. ASSUME NEW i \in 1 .. Len(a), NEW k \in 1 .. Len(a), a[i] = a[k]
      PROVE  i = k
  <2>1. CASE i <= Len(q) /\ k <= Len(q)
    BY <2>1, <1>1, <1>3, <1>4 DEF IsInjective
  <2>2. CASE i > Len(q) /\ k > Len(q)
    <3>1. /\ i - Len(q) \in 1 .. Len(o) /\ k - Len(q) \in 1 .. Len(o)
          /\ o[i - Len(q)] = o[k - Len(q)]
      BY <2>2, <1>1, <1>4
    <3>2. i - Len(q) = k - Len(q)
      BY <3>1, <1>3 DEF IsInjective
    <3> QED BY <3>2, <1>1
  <2>3. CASE i <= Len(q) /\ k > Len(q)
    <3>1. i \in 1 .. Len(q) /\ k - Len(q) \in 1 .. Len(o) /\ q[i] = o[k - Len(q)]
      BY <2>3, <1>1, <1>4
    <3> QED BY <3>1, <1>3
  <2>4. CASE i > Len(q) /\ k <= Len(q)
    <3>1. k \in 1 .. Len(q) /\ i - Len(q) \in 1 .. Len(o) /\ q[k] = o[i - Len(q)]
      BY <2>4, <1>1, <1>4
    <3> QED BY <3>1, <1>3
  <2> QED BY <1>1, <2>1, <2>2, <2>3, <2>4
<1> QED BY <1>1, <1>2, <1>3, <1>4 DEF a, IsInjective

-----------------------------------------------------------------------------
(* What the steps share.                                                   *)

LEMMA QueryPlaces ==
    ASSUME PlacesInv, NEW j \in Job, NEW l \in BOOLEAN, Query(j, l)
    PROVE  /\ job' \in [Job -> Ended \cup {"waiting", "running"}]
           /\ slow' \in [Job -> BOOLEAN] /\ again' \in [Job -> BOOLEAN]
           /\ queue' \in Seq(Job) /\ Queued'
           /\ \A i \in Job : job'[i] = "running" <=> job[i] = "running"
<1>1. /\ queue \in Seq(Job) /\ queue' = Append(queue, j)
      /\ job' = [job EXCEPT ![j] = "waiting"] /\ job \in [Job -> Ended \cup {"waiting", "running"}]
      /\ job[j] \in Ended /\ Queued
  BY DEF PlacesInv, TypeOK, Query
<1>2. j \notin Range(queue)
  BY <1>1 DEF Queued, Ended
<1>3. /\ queue' \in Seq(Job) /\ IsInjective(queue') /\ Range(queue') = Range(queue) \cup {j}
  BY <1>1, <1>2, Appended DEF Queued
<1>4. \A i \in Job : job'[i] = IF i = j THEN "waiting" ELSE job[i]
  BY <1>1
<1>5. Queued'
  BY <1>1, <1>3, <1>4 DEF Queued
<1>6. \A i \in Job : job'[i] = "running" <=> job[i] = "running"
  BY <1>1, <1>4 DEF Ended
<1> QED BY <1>1, <1>3, <1>5, <1>6 DEF PlacesInv, TypeOK, Query

(* A job that runs is sent to the end of the queue, or fails.              *)
LEMMA RetryPlaces ==
    ASSUME PlacesInv, NEW j \in Job, job[j] = "running", Retry(j)
    PROVE  /\ job' \in [Job -> Ended \cup {"waiting", "running"}]
           /\ slow' \in [Job -> BOOLEAN] /\ again' \in [Job -> BOOLEAN]
           /\ queue' \in Seq(Job) /\ Queued'
           /\ \A i \in Job : job'[i] = "running" <=> job[i] = "running" /\ i # j
<1>1. /\ queue \in Seq(Job) /\ job \in [Job -> Ended \cup {"waiting", "running"}]
      /\ slow \in [Job -> BOOLEAN] /\ again \in [Job -> BOOLEAN] /\ Queued
  BY DEF PlacesInv, TypeOK
<1>2. j \notin Range(queue)
  BY <1>1 DEF Queued
<1>3. CASE again[j]
  <2>1. /\ job' = [job EXCEPT ![j] = "failed"] /\ again' = [again EXCEPT ![j] = FALSE]
        /\ slow' = [slow EXCEPT ![j] = FALSE] /\ queue' = queue
    BY <1>3 DEF Retry
  <2>2. \A i \in Job : job'[i] = IF i = j THEN "failed" ELSE job[i]
    BY <1>1, <2>1
  <2>3. Queued'
    BY <1>1, <1>2, <2>1, <2>2 DEF Queued
  <2> QED BY <1>1, <2>1, <2>2, <2>3 DEF Ended
<1>4. CASE ~ again[j]
  <2>1. /\ job' = [job EXCEPT ![j] = "waiting"] /\ again' = [again EXCEPT ![j] = TRUE]
        /\ slow' = slow /\ queue' = Append(queue, j)
    BY <1>4 DEF Retry
  <2>2. \A i \in Job : job'[i] = IF i = j THEN "waiting" ELSE job[i]
    BY <1>1, <2>1
  <2>3. /\ queue' \in Seq(Job) /\ IsInjective(queue') /\ Range(queue') = Range(queue) \cup {j}
    BY <1>1, <1>2, <2>1, Appended DEF Queued
  <2>4. Queued'
    BY <1>1, <2>2, <2>3 DEF Queued
  <2> QED BY <1>1, <2>1, <2>2, <2>3, <2>4
<1> QED BY <1>3, <1>4

(* The first job of the queue is given a connection nobody has.            *)
LEMMA TakePlaces ==
    ASSUME PlacesInv, NEW c \in Conn, holder[c] = None, queue # <<>>,
           holder' = [holder EXCEPT ![c] = Head(queue)],
           job' = [job EXCEPT ![Head(queue)] = "running"],
           queue' = Tail(queue), conn'[c] # "none",
           \A d \in Conn \ {c} : conn'[d] = conn[d]
    PROVE  /\ job' \in [Job -> Ended \cup {"waiting", "running"}]
           /\ holder' \in [Conn -> Job \cup {None}] /\ queue' \in Seq(Job)
           /\ Held' /\ Queued'
<1> DEFINE h == Head(queue)
<1>1. /\ queue \in Seq(Job) /\ job \in [Job -> Ended \cup {"waiting", "running"}]
      /\ holder \in [Conn -> Job \cup {None}] /\ Queued /\ Held
  BY DEF PlacesInv, TypeOK
<1>2. /\ h \in Job /\ h \in Range(queue) /\ queue' \in Seq(Job) /\ IsInjective(queue')
      /\ Range(queue') = Range(queue) \ {h}
  BY <1>1, Shortened DEF Queued
<1>3. job[h] = "waiting" /\ h # None
  BY <1>1, <1>2, PoolAssumption DEF Queued, Job
<1>4. \A d \in Conn : holder[d] # h
  BY <1>1, <1>2, <1>3 DEF Held
<1>5. /\ \A i \in Job : job'[i] = IF i = h THEN "running" ELSE job[i]
      /\ \A d \in Conn : holder'[d] = IF d = c THEN h ELSE holder[d]
  BY <1>1, <1>2
<1> HIDE DEF h
<1>6. Held'
  <2>1. \A d, e \in Conn : holder'[d] = holder'[e] /\ holder'[d] # None => d = e
    BY <1>1, <1>3, <1>4, <1>5 DEF Held
  <2>2. \A d \in Conn : conn'[d] = "none" => holder'[d] = None
    BY <1>1, <1>5 DEF Held
  <2>3. \A j \in Job : job'[j] = "running" <=> \E d \in Conn : holder'[d] = j
    BY <1>1, <1>2, <1>3, <1>4, <1>5, PoolAssumption DEF Held, Job
  <2> QED BY <2>1, <2>2, <2>3 DEF Held
<1>7. Queued'
  BY <1>1, <1>2, <1>5 DEF Queued
<1> QED BY <1>1, <1>2, <1>6, <1>7 DEF h

(* A job gives back its connection, or is gone with it.                    *)
LEMMA GivePlaces ==
    ASSUME PlacesInv, NEW c \in Conn, holder[c] # None,
           holder' = [holder EXCEPT ![c] = None],
           \A d \in Conn \ {c} : conn'[d] = conn[d],
           \A i \in Job : job'[i] = "running" <=> job[i] = "running" /\ i # holder[c]
    PROVE  holder' \in [Conn -> Job \cup {None}] /\ Held'
<1>1. holder \in [Conn -> Job \cup {None}] /\ Held /\ None \notin Job
  BY PoolAssumption DEF PlacesInv, TypeOK, Job
<1>2. \A d \in Conn : holder'[d] = IF d = c THEN None ELSE holder[d]
  BY <1>1
<1>3. \A d \in Conn \ {c} : holder[d] # holder[c]
  BY <1>1 DEF Held
<1> QED BY <1>1, <1>2, <1>3 DEF Held

(* What a drain ends is over or waits again, at the end of the queue.      *)
LEMMA DrainPlaces ==
    ASSUME PlacesInv, Drain
    PROVE  /\ conn' \in [Conn -> {"none", "connecting", "live", "dead"}]
           /\ holder' \in [Conn -> Job \cup {None}]
           /\ job' \in [Job -> Ended \cup {"waiting", "running"}]
           /\ slow' \in [Job -> BOOLEAN] /\ again' \in [Job -> BOOLEAN]
           /\ queue' \in Seq(Job) /\ Held' /\ Queued'
           /\ \A c \in Conn : conn'[c] = "none"
<1> DEFINE killed == {holder[c] : c \in Conn} \ {None}
<1>1. /\ queue \in Seq(Job) /\ job \in [Job -> Ended \cup {"waiting", "running"}]
      /\ holder \in [Conn -> Job \cup {None}] /\ Queued /\ Held
      /\ slow \in [Job -> BOOLEAN] /\ again \in [Job -> BOOLEAN]
  BY DEF PlacesInv, TypeOK
<1>2. killed \subseteq Job /\ \A j \in Job : job[j] = "running" <=> j \in killed
  BY <1>1, PoolAssumption DEF Held, Job
<1>3. Cardinality(killed) \in Nat
  <2>1. IsFiniteSet({holder[c] : c \in Conn})
    <3> DEFINE T == {holder[c] : c \in Conn}
    <3>1. holder \in Surjection(Conn, T)
      BY <1>1 DEF Surjection
    <3> HIDE DEF T
    <3>2. IsFiniteSet(T)
      BY <3>1, PoolAssumption, FS_Surjection
    <3> QED BY <3>2 DEF T
  <2> QED BY <2>1, FS_Subset, FS_CardinalityType
<1>4. PICK order \in UNION {[1 .. n -> killed] : n \in 0 .. Cardinality(killed)} :
         LET lost == {order[i] : i \in DOMAIN order}
         IN  /\ Cardinality(lost) = Len(order)
             /\ \A j \in lost : ~ again[j]
             /\ queue' = queue \o order
             /\ again' = [j \in Job |-> j \in lost \/ (again[j] /\ j \notin killed)]
             /\ slow' = [j \in Job |-> slow[j] /\ j \notin killed \ lost]
             /\ job' = [j \in Job |-> IF j \in lost THEN "waiting"
                                      ELSE IF j \in killed THEN "failed"
                                      ELSE job[j]]
  BY Zenon DEF Drain
<1> DEFINE lost == {order[i] : i \in DOMAIN order}
<1>5. PICK n \in Nat : order \in [1 .. n -> killed]
  <2>1. \E n \in 0 .. Cardinality(killed) : order \in [1 .. n -> killed]
    BY <1>4, Zenon
  <2> HIDE DEF killed
  <2> QED BY <1>3, <2>1
<1>6. conn' = [c \in Conn |-> "none"] /\ holder' = [c \in Conn |-> None]
  BY DEF Drain
<1> HIDE DEF killed
<1>7. /\ order \in Seq(Job) /\ DOMAIN order = 1 .. n /\ Len(order) = n
      /\ Range(order) = lost /\ lost \subseteq killed
  BY <1>2, <1>5 DEF Range
<1>8. IsInjective(order)
  <2>1. order \in Surjection(1 .. n, lost)
    BY <1>5, <1>7 DEF Surjection
  <2>2. IsFiniteSet(1 .. n) /\ Cardinality(1 .. n) = n
    <3>1. n \in Int /\ 1 \in Int
      OBVIOUS
    <3>2. /\ IsFiniteSet(1 .. n)
          /\ Cardinality(1 .. n) = IF 1 > n THEN 0 ELSE n - 1 + 1
      BY <3>1, FS_Interval
    <3> QED BY <3>2
  <2>3. Cardinality(1 .. n) = Cardinality(lost)
    BY <1>4, <1>7, <2>2
  <2> HIDE DEF lost
  <2>4. order \in Injection(1 .. n, lost)
    BY <2>1, <2>2, <2>3, FS_SurjSameCardinalityImpliesInj
  <2> QED BY <2>4 DEF Injection
<1>9. Range(queue) \cap lost = {}
  BY <1>1, <1>2, <1>7 DEF Queued
<1>10. /\ queue' \in Seq(Job) /\ IsInjective(queue')
       /\ Range(queue') = Range(queue) \cup lost
  BY <1>1, <1>4, <1>7, <1>8, <1>9, Joined DEF Queued
<1>11. \A j \in Job : job'[j] = IF j \in lost THEN "waiting"
                                ELSE IF j \in killed THEN "failed" ELSE job[j]
  BY <1>4
<1> HIDE DEF lost
<1>12. Queued'
  BY <1>1, <1>2, <1>7, <1>10, <1>11 DEF Queued
<1>13. Held'
  BY <1>1, <1>2, <1>6, <1>7, <1>11, PoolAssumption DEF Held, Job
<1>14. /\ job' \in [Job -> Ended \cup {"waiting", "running"}]
       /\ slow' \in [Job -> BOOLEAN] /\ again' \in [Job -> BOOLEAN]
  BY <1>1, <1>4 DEF lost, Ended
<1> QED BY <1>6, <1>10, <1>12, <1>13, <1>14

-----------------------------------------------------------------------------
(* One place for every job.                                                *)

LEMMA InitPlaces == Init => PlacesInv
<1> SUFFICES ASSUME Init PROVE PlacesInv
  OBVIOUS
<1>1. <<>> \in Seq(Job) /\ Range(<<>>) = {} /\ IsInjective(<<>>)
  BY DEF Range, IsInjective
<1>2. TypeOK
  <2>1. /\ breaks \in 0 .. MaxBreaks /\ outages \in 0 .. MaxOutages /\ slows \in 0 .. MaxSlow
        /\ wedgeTicks \in 0 .. 1
    BY PoolAssumption DEF Init
  <2>2. /\ conn \in [Conn -> {"none", "connecting", "live", "dead"}]
        /\ holder \in [Conn -> Job \cup {None}] /\ queue \in Seq(Job)
        /\ job \in [Job -> Ended \cup {"waiting", "running"}]
        /\ again \in [Job -> BOOLEAN] /\ slow \in [Job -> BOOLEAN]
    BY <1>1 DEF Init, Ended
  <2> QED BY <2>1, <2>2 DEF Init, TypeOK
<1>3. Held
  BY PoolAssumption DEF Init, Held, Job
<1>4. Queued
  BY <1>1 DEF Init, Queued
<1> QED BY <1>2, <1>3, <1>4 DEF PlacesInv

(* The steps of the pool.                                                  *)
LEMMA PoolPlaces ==
    ASSUME PlacesInv, NEW c \in Conn,
           Borrow(c) \/ Connect(c) \/ Connected(c) \/ Answer(c) \/ TimeOut(c)
             \/ Reap(c) \/ Break(c)
    PROVE  PlacesInv'
<1> USE DEF PlacesInv
<1>0. /\ TypeOK /\ Held /\ Queued /\ None \notin Job
      /\ conn \in [Conn -> {"none", "connecting", "live", "dead"}]
      /\ holder \in [Conn -> Job \cup {None}]
  BY PoolAssumption DEF TypeOK, Job
<1>1. CASE Borrow(c)
  <2>1. Held' /\ Queued' /\ holder' \in [Conn -> Job \cup {None}] /\ queue' \in Seq(Job)
        /\ job' \in [Job -> Ended \cup {"waiting", "running"}]
    BY <1>0, <1>1, TakePlaces DEF Borrow, Idle
  <2> QED BY <1>0, <1>1, <2>1 DEF Borrow, TypeOK, health, counts, history
<1>2. CASE Connect(c)
  <2>1. Held' /\ Queued' /\ holder' \in [Conn -> Job \cup {None}] /\ queue' \in Seq(Job)
        /\ job' \in [Job -> Ended \cup {"waiting", "running"}]
    <3>1. holder[c] = None /\ conn'[c] = "connecting" /\ \A d \in Conn \ {c} : conn'[d] = conn[d]
      BY <1>0, <1>2 DEF Connect, Held
    <3> QED BY <1>2, <3>1, TakePlaces DEF Connect
  <2>2. conn' \in [Conn -> {"none", "connecting", "live", "dead"}]
    BY <1>0, <1>2 DEF Connect
  <2> QED BY <1>0, <1>2, <2>1, <2>2 DEF Connect, TypeOK, health, counts, history
<1>3. CASE Connected(c)
  <2>1. /\ conn' \in [Conn -> {"none", "connecting", "live", "dead"}]
        /\ \A d \in Conn : conn'[d] = IF d = c THEN "live" ELSE conn[d]
    BY <1>0, <1>3 DEF Connected
  <2>2. Held' /\ Queued'
    BY <1>0, <1>3, <2>1 DEF Connected, Held, Queued, jobs
  <2> QED BY <1>0, <1>3, <2>1, <2>2 DEF Connected, TypeOK, jobs, health, counts, history
<1>4. CASE Answer(c)
  <2> DEFINE j == holder[c]
  <2>1. j \in Job /\ j # None
    BY <1>0, <1>4 DEF Answer
  <2>2. job[j] = "running"
    BY <1>0, <2>1 DEF Held
  <2>3. /\ job \in [Job -> Ended \cup {"waiting", "running"}]
        /\ job' \in [Job -> Ended \cup {"waiting", "running"}]
        /\ slow' \in [Job -> BOOLEAN] /\ again' \in [Job -> BOOLEAN]
        /\ job' = [job EXCEPT ![j] = "ok"]
    BY <1>0, <1>4, <2>1 DEF Answer, TypeOK, Ended
  <2>4. \A i \in Job : job'[i] = IF i = j THEN "ok" ELSE job[i]
    BY <2>1, <2>3
  <2>5. Queued'
    BY <1>0, <1>4, <2>2, <2>4 DEF Answer, Queued
  <2>6. Held' /\ holder' \in [Conn -> Job \cup {None}]
    <3>1. /\ conn' = conn /\ holder' = [holder EXCEPT ![c] = None]
      BY <1>4 DEF Answer, Released
    <3>2. \A i \in Job : job'[i] = "running" <=> job[i] = "running" /\ i # j
      BY <2>4
    <3> QED BY <2>1, <3>1, <3>2, GivePlaces
  <2> QED BY <1>0, <1>4, <2>3, <2>5, <2>6
         DEF Answer, Released, TypeOK, health, counts, history
<1>5. CASE TimeOut(c)
  <2> DEFINE j == holder[c]
  <2>1. j \in Job /\ j # None
    BY <1>0, <1>5 DEF TimeOut, Unanswered
  <2>2. job[j] = "running" /\ Retry(j)
    BY <1>0, <1>5, <2>1 DEF Held, TimeOut
  <2>3. /\ job' \in [Job -> Ended \cup {"waiting", "running"}]
        /\ slow' \in [Job -> BOOLEAN] /\ again' \in [Job -> BOOLEAN]
        /\ queue' \in Seq(Job) /\ Queued'
        /\ \A i \in Job : job'[i] = "running" <=> job[i] = "running" /\ i # j
    BY <2>1, <2>2, RetryPlaces
  <2>4. /\ conn' = [conn EXCEPT ![c] = "none"] /\ holder' = [holder EXCEPT ![c] = None]
        /\ conn' \in [Conn -> {"none", "connecting", "live", "dead"}]
    BY <1>0, <1>5 DEF TimeOut, Destroyed
  <2>5. Held' /\ holder' \in [Conn -> Job \cup {None}]
    <3>1. \A d \in Conn \ {c} : conn'[d] = conn[d]
      BY <1>0, <2>4
    <3> QED BY <2>1, <2>3, <2>4, <3>1, GivePlaces
  <2> QED BY <1>0, <1>5, <2>3, <2>4, <2>5 DEF TimeOut, TypeOK, health, counts, history
<1>6. CASE Reap(c)
  <2>1. /\ holder[c] = None /\ conn' = [conn EXCEPT ![c] = "none"]
        /\ holder' = [holder EXCEPT ![c] = None]
    BY <1>6 DEF Reap, Idle, Destroyed
  <2>2. /\ conn' \in [Conn -> {"none", "connecting", "live", "dead"}] /\ holder' = holder
        /\ \A d \in Conn : conn'[d] = IF d = c THEN "none" ELSE conn[d]
    BY <1>0, <2>1
  <2>3. Held' /\ Queued'
    BY <1>0, <1>6, <2>1, <2>2 DEF Reap, Held, Queued, jobs
  <2> QED BY <1>0, <1>6, <2>2, <2>3 DEF Reap, TypeOK, jobs, health, counts, history
<1>7. CASE Break(c)
  <2>1. /\ conn' \in [Conn -> {"none", "connecting", "live", "dead"}]
        /\ \A d \in Conn : conn'[d] = IF d = c THEN "dead" ELSE conn[d]
    BY <1>0, <1>7 DEF Break
  <2>2. Held' /\ Queued'
    BY <1>0, <1>7, <2>1 DEF Break, Held, Queued, jobs
  <2> QED BY <1>0, <1>7, <2>1, <2>2, PoolAssumption DEF Break, TypeOK, jobs, health
<1> QED BY <1>1, <1>2, <1>3, <1>4, <1>5, <1>6, <1>7

(* Requests, the network, and the heartbeat.                               *)
LEMMA OtherPlaces ==
    ASSUME PlacesInv, (\E j \in Client : Issue(j)) \/ GoDown \/ ComeUp \/ Heartbeat
    PROVE  PlacesInv'
<1> USE DEF PlacesInv
<1>0. /\ TypeOK /\ Held /\ Queued /\ None \notin Job
      /\ conn \in [Conn -> {"none", "connecting", "live", "dead"}]
  BY PoolAssumption DEF TypeOK, Job
<1>1. ASSUME NEW j \in Client, Issue(j) PROVE PlacesInv'
  <2>1. PICK l \in BOOLEAN : /\ l => slows < MaxSlow
                             /\ slows' = slows + IF l THEN 1 ELSE 0
                             /\ hurt' = (hurt \/ l)
                             /\ Query(j, l)
    BY <1>1 DEF Issue
  <2>2. /\ job' \in [Job -> Ended \cup {"waiting", "running"}]
        /\ slow' \in [Job -> BOOLEAN] /\ again' \in [Job -> BOOLEAN]
        /\ queue' \in Seq(Job) /\ Queued'
        /\ \A i \in Job : job'[i] = "running" <=> job[i] = "running"
    BY <2>1, QueryPlaces DEF Job
  <2>3. Held'
    BY <1>0, <1>1, <2>2 DEF Issue, Held
  <2>4. slows' \in 0 .. MaxSlow /\ hurt' \in BOOLEAN
    BY <1>0, <2>1, PoolAssumption DEF TypeOK
  <2> QED BY <1>0, <1>1, <2>2, <2>3, <2>4 DEF Issue, TypeOK, health
<1>2. CASE GoDown
  <2>1. UNCHANGED <<pool, jobs, health, breaks, slows, drained>> /\ ~ up' /\ hurt'
    BY <1>2 DEF GoDown
  <2>2. Held' /\ Queued'
    BY <1>0, <2>1 DEF Held, Queued, pool, jobs
  <2>3. outages' \in 0 .. MaxOutages
    BY <1>0, <1>2, PoolAssumption DEF GoDown, TypeOK
  <2>4. up' \in BOOLEAN /\ hurt' \in BOOLEAN
    BY <1>2 DEF GoDown
  <2> QED BY <1>0, <2>1, <2>2, <2>3, <2>4 DEF TypeOK, pool, jobs, health
<1>3. CASE ComeUp
  <2>1. /\ conn' \in [Conn -> {"none", "connecting", "live", "dead"}]
        /\ \A d \in Conn : conn'[d] = "none" <=> conn[d] = "none"
    BY <1>0, <1>3 DEF ComeUp
  <2>2. Held' /\ Queued'
    BY <1>0, <1>3, <2>1 DEF ComeUp, Held, Queued, jobs
  <2> QED BY <1>0, <1>3, <2>1, <2>2 DEF ComeUp, TypeOK, jobs, health, counts, history
<1>4. CASE Tick
  <2>1. PICK p \in Ping : Query(p, FALSE) /\ pc' = "ping" /\ ping' = p
    BY <1>4 DEF Tick
  <2>2. /\ job' \in [Job -> Ended \cup {"waiting", "running"}]
        /\ slow' \in [Job -> BOOLEAN] /\ again' \in [Job -> BOOLEAN]
        /\ queue' \in Seq(Job) /\ Queued'
        /\ \A i \in Job : job'[i] = "running" <=> job[i] = "running"
    BY <2>1, QueryPlaces DEF Job
  <2>3. Held'
    BY <1>0, <1>4, <2>2 DEF Tick, Held
  <2>4. p # None
    BY PoolAssumption
  <2> QED BY <1>0, <1>4, <2>1, <2>2, <2>3, <2>4 DEF Tick, TypeOK, counts, history
<1>5. CASE PoolOk \/ PoolFails \/ FreshFails
  <2>1. UNCHANGED <<up, pool, jobs, counts, history>>
    BY <1>5 DEF PoolOk, PoolFails, FreshFails
  <2>2. Held' /\ Queued'
    BY <1>0, <2>1 DEF Held, Queued, pool, jobs
  <2>3. TypeOK'
    BY <1>0, <1>5, <2>1 DEF PoolOk, PoolFails, FreshFails, TypeOK, pool, jobs, counts, history
  <2> QED BY <2>2, <2>3
<1>6. CASE FreshOk
  <2>1. /\ conn' \in [Conn -> {"none", "connecting", "live", "dead"}]
        /\ holder' \in [Conn -> Job \cup {None}]
        /\ job' \in [Job -> Ended \cup {"waiting", "running"}]
        /\ slow' \in [Job -> BOOLEAN] /\ again' \in [Job -> BOOLEAN]
        /\ queue' \in Seq(Job) /\ Held' /\ Queued'
    BY <1>6, DrainPlaces DEF FreshOk
  <2>2. hurt' \in BOOLEAN /\ drained' \in BOOLEAN
    BY <1>6 DEF FreshOk
  <2> QED BY <1>0, <1>6, <2>1, <2>2 DEF FreshOk, TypeOK, counts
<1> QED BY <1>1, <1>2, <1>3, <1>4, <1>5, <1>6 DEF Heartbeat

LEMMA NextPlaces == PlacesInv /\ [Next]_vars => PlacesInv'
<1> SUFFICES ASSUME PlacesInv, [Next]_vars PROVE PlacesInv'
  OBVIOUS
<1>1. CASE UNCHANGED vars
  BY <1>1 DEF vars, pool, jobs, health, counts, history, PlacesInv, TypeOK, Held, Queued
<1> QED BY <1>1, PoolPlaces, OtherPlaces DEF Next, Pool

LEMMA PlacesHold == Spec => []PlacesInv
BY InitPlaces, NextPlaces, PTL DEF Spec

(* Every variable keeps its type, whatever dies or is drained when.        *)
THEOREM TypeCorrect == Spec => []TypeOK
<1>1. PlacesInv => TypeOK
  BY DEF PlacesInv
<1> QED BY <1>1, PlacesHold, PTL

(* However connections and statements end (lib/database.ts, the drain of   *)
(* lib/dbHealth.ts), a job that runs has one connection, one that waits    *)
(* has one place in the queue, and one that is over has neither.           *)
THEOREM NothingLost == Spec => []OnePlace
<1>1. ASSUME PlacesInv PROVE OnePlace
  <2> SUFFICES ASSUME NEW j \in Job
               PROVE  /\ Cardinality({c \in Conn : holder[c] = j}) =
                            IF job[j] = "running" THEN 1 ELSE 0
                      /\ Cardinality({i \in DOMAIN queue : queue[i] = j}) =
                            IF job[j] = "waiting" THEN 1 ELSE 0
    BY <1>1 DEF PlacesInv, OnePlace
  <2>0. j # None /\ Held /\ Queued
    BY <1>1, PoolAssumption DEF PlacesInv, Job
  <2>1. Cardinality({c \in Conn : holder[c] = j}) = IF job[j] = "running" THEN 1 ELSE 0
    <3>1. CASE job[j] = "running"
      <4>1. PICK c \in Conn : holder[c] = j
        BY <2>0, <3>1 DEF Held
      <4>2. {d \in Conn : holder[d] = j} = {c}
        BY <2>0, <4>1 DEF Held
      <4> QED BY <3>1, <4>2, FS_Singleton
    <3>2. CASE job[j] # "running"
      <4>1. {d \in Conn : holder[d] = j} = {}
        BY <2>0, <3>2 DEF Held
      <4> QED BY <3>2, <4>1, FS_EmptySet
    <3> QED BY <3>1, <3>2
  <2>2. Cardinality({i \in DOMAIN queue : queue[i] = j}) =
           IF job[j] = "waiting" THEN 1 ELSE 0
    <3>1. CASE job[j] = "waiting"
      <4>1. PICK i \in DOMAIN queue : queue[i] = j
        BY <2>0, <3>1 DEF Queued, Range
      <4>2. {k \in DOMAIN queue : queue[k] = j} = {i}
        BY <2>0, <4>1 DEF Queued, IsInjective
      <4> QED BY <3>1, <4>2, FS_Singleton
    <3>2. CASE job[j] # "waiting"
      <4>1. {k \in DOMAIN queue : queue[k] = j} = {}
        BY <2>0, <3>2 DEF Queued, Range
      <4> QED BY <3>2, <4>1, FS_EmptySet
    <3> QED BY <3>1, <3>2
  <2> QED BY <2>1, <2>2
<1> QED BY <1>1, PlacesHold, PTL

-----------------------------------------------------------------------------
(* One drain is enough.                                                    *)

(* A ping through a pool that is healed is answered in time.               *)
LEMMA NotStuck ==
    ASSUME TypeOK, NEW p \in Job, up,
           \A c \in Conn : conn[c] # "dead", \A j \in Job : ~ slow[j]
    PROVE  ~ Stuck(p)
<1>1. PICK c \in Conn : TRUE
  BY PoolAssumption
<1>2. conn[c] \in {"none", "connecting", "live"}
  BY DEF TypeOK
<1>3. holder[c] # None => ~ slow[holder[c]]
  BY DEF TypeOK
<1> QED BY <1>1, <1>2, <1>3 DEF Stuck, Prompt

LEMMA NextHealed == PlacesInv /\ Healed /\ [Next]_vars => Healed'
<1> SUFFICES ASSUME PlacesInv, Healed, [Next]_vars, (wedgeTicks > 0)', ~ hurt'
             PROVE  /\ up' /\ pc' # "fresh"
                    /\ \A c \in Conn : conn'[c] # "dead"
                    /\ \A j \in Job : ~ slow'[j]
                    /\ pc' = "ping" => job'[ping'] # "failed"
  BY DEF Healed
<1>0. TypeOK /\ Held /\ Queued /\ None \notin Job
  BY PoolAssumption DEF PlacesInv, Job
<1> DEFINE Fine == /\ up /\ pc # "fresh"
                   /\ \A c \in Conn : conn[c] # "dead"
                   /\ \A j \in Job : ~ slow[j]
                   /\ pc = "ping" => job[ping] # "failed"
<1>f. wedgeTicks > 0 /\ ~ hurt => Fine
  BY DEF Healed
<1>t. /\ conn \in [Conn -> {"none", "connecting", "live", "dead"}]
      /\ job \in [Job -> Ended \cup {"waiting", "running"}]
      /\ slow \in [Job -> BOOLEAN] /\ holder \in [Conn -> Job \cup {None}]
      /\ pc = "ping" => ping \in Job
  BY <1>0 DEF TypeOK, Job
<1>1. ASSUME NEW j \in Client, Issue(j) PROVE Fine'
  <2>1. PICK l \in BOOLEAN : hurt' = (hurt \/ l) /\ Query(j, l)
    BY <1>1 DEF Issue
  <2>2. ~ l /\ Fine /\ UNCHANGED <<up, conn, pc, ping>>
    BY <1>1, <1>f, <2>1 DEF Issue, health
  <2>3. /\ \A i \in Job : ~ slow'[i]
        /\ \A i \in Job : job'[i] = "failed" => job[i] = "failed"
    BY <1>t, <2>1, <2>2 DEF Query, Job
  <2> QED BY <1>t, <2>2, <2>3
<1>2. ASSUME NEW c \in Conn, Borrow(c) \/ Connect(c) PROVE Fine'
  <2>1. Fine /\ UNCHANGED <<up, pc, ping, slow>>
    BY <1>2, <1>f DEF Borrow, Connect, health, history
  <2>2. Head(queue) \in Job
    BY <1>0, <1>2, Shortened DEF Borrow, Connect, TypeOK, Queued
  <2>3. \A i \in Job : job'[i] = "failed" => job[i] = "failed"
    BY <1>t, <1>2, <2>2 DEF Borrow, Connect
  <2>4. \A d \in Conn : conn'[d] # "dead"
    BY <1>t, <1>2, <2>1 DEF Borrow, Connect
  <2> QED BY <1>t, <2>1, <2>3, <2>4
<1>3. ASSUME NEW c \in Conn, Connected(c) \/ Reap(c) PROVE Fine'
  <2>1. Fine /\ UNCHANGED <<up, pc, ping, jobs>>
    BY <1>3, <1>f DEF Connected, Reap, health, history
  <2>2. \A d \in Conn : conn'[d] # "dead"
    BY <1>t, <1>3, <2>1 DEF Connected, Reap, Destroyed
  <2> QED BY <1>t, <2>1, <2>2 DEF jobs
<1>4. ASSUME NEW c \in Conn, Answer(c) PROVE Fine'
  <2>1. Fine /\ UNCHANGED <<up, conn, pc, ping>> /\ holder[c] \in Job
    BY <1>t, <1>4, <1>f DEF Answer, Released, health, history
  <2>2. /\ \A i \in Job : job'[i] = "failed" => job[i] = "failed"
        /\ \A i \in Job : ~ slow'[i]
    BY <1>t, <1>4, <2>1 DEF Answer
  <2> QED BY <1>t, <2>1, <2>2
<1>5. ASSUME NEW c \in Conn, TimeOut(c) PROVE FALSE
  <2>1. Fine
    BY <1>5, <1>f DEF TimeOut, health, history
  <2> QED BY <1>5, <2>1 DEF TimeOut, Unanswered
<1>6. ASSUME NEW c \in Conn, Break(c) PROVE FALSE
  BY <1>6 DEF Break
<1>7. ~ GoDown
  BY DEF GoDown
<1>8. ~ ComeUp
  BY <1>f DEF ComeUp, health, history
<1>9. CASE Tick
  <2>1. PICK p \in Ping : Query(p, FALSE) /\ ping' = p
    BY <1>9 DEF Tick
  <2>2. Fine /\ UNCHANGED <<up, conn>> /\ pc' = "ping"
    BY <1>9, <1>f DEF Tick, history
  <2>3. job'[p] = "waiting" /\ \A i \in Job : ~ slow'[i]
    BY <1>t, <2>1, <2>2 DEF Query, Job
  <2> QED BY <2>1, <2>2, <2>3
<1>10. CASE PoolOk
  <2>1. wedgeTicks > 0 /\ ~ hurt /\ pc' = "timer" /\ UNCHANGED <<up, conn, slow>>
    BY <1>10 DEF PoolOk, pool, jobs, history
  <2> QED BY <1>f, <2>1
<1>11. ~ PoolFails
  <2> SUFFICES ASSUME PoolFails PROVE FALSE
    OBVIOUS
  <2>1. Fine /\ pc = "ping"
    BY <1>f DEF PoolFails, history
  <2>2. ~ Stuck(ping)
    BY <1>0, <1>t, <2>1, NotStuck
  <2> QED BY <2>1, <2>2 DEF PoolFails
<1>12. CASE FreshOk
  <2>1. up' /\ pc' = "timer" /\ \A j \in Job : ~ slow'[j]
    BY <1>12 DEF FreshOk
  <2>2. \A c \in Conn : conn'[c] = "none"
    BY <1>12, DrainPlaces DEF FreshOk
  <2> QED BY <2>1, <2>2
<1>13. ~ FreshFails
  BY <1>f DEF FreshFails, history
<1>14. CASE UNCHANGED vars
  BY <1>14, <1>f DEF vars, pool, jobs, health, history
<1> QED BY <1>1, <1>2, <1>3, <1>4, <1>5, <1>6, <1>7, <1>8, <1>9, <1>10, <1>11, <1>12,
           <1>13, <1>14 DEF Next, Pool, Heartbeat

(* lib/dbHealth.ts:148: a drain does not leave behind what makes the next  *)
(* one necessary.                                                          *)
THEOREM DrainHeals == Spec => OneDrainHeals
<1>1. Init => Healed
  BY DEF Init, Healed
<1>2. Spec => []Healed
  BY <1>1, NextHealed, PlacesHold, PTL DEF Spec
<1>3. ASSUME Healed, pc = "fresh", wedgeTicks > 0 PROVE hurt
  BY <1>3 DEF Healed
<1>4. Healed => [(pc = "fresh" /\ pc' # "fresh" /\ state' = "wedged" /\ wedgeTicks > 0)
                    => hurt]_vars
  BY <1>3
<1> QED BY <1>2, <1>4, PTL DEF OneDrainHeals

-----------------------------------------------------------------------------
(* One death goes unnoticed.                                               *)

LEMMA NextHarmless == PlacesInv /\ Harmless /\ [Next]_vars => Harmless'
<1> SUFFICES ASSUME PlacesInv, Harmless, [Next]_vars,
                    breaks' <= 1, outages' = 0, ~ drained'
             PROVE  /\ up'
                    /\ \A j \in Job : job'[j] # "failed"
                    /\ \A c, d \in Conn : conn'[c] = "dead" /\ conn'[d] = "dead" => c = d
                    /\ \A c \in Conn, j \in Job : ~ (conn'[c] = "dead" /\ again'[j])
                    /\ breaks' = 0 => /\ \A c \in Conn : conn'[c] # "dead"
                                      /\ \A j \in Job : ~ again'[j]
  BY DEF Harmless
<1>0. TypeOK /\ Held /\ Queued /\ None \notin Job /\ breaks \in Nat /\ outages \in Nat
  BY PoolAssumption DEF PlacesInv, Job, TypeOK
<1> DEFINE Fine == /\ up
                   /\ \A j \in Job : job[j] # "failed"
                   /\ \A c, d \in Conn : conn[c] = "dead" /\ conn[d] = "dead" => c = d
                   /\ \A c \in Conn, j \in Job : ~ (conn[c] = "dead" /\ again[j])
                   /\ breaks = 0 => /\ \A c \in Conn : conn[c] # "dead"
                                    /\ \A j \in Job : ~ again[j]
<1>f. breaks <= 1 /\ outages = 0 /\ ~ drained => Fine
  BY DEF Harmless
<1>t. /\ conn \in [Conn -> {"none", "connecting", "live", "dead"}]
      /\ job \in [Job -> Ended \cup {"waiting", "running"}]
      /\ again \in [Job -> BOOLEAN] /\ holder \in [Conn -> Job \cup {None}]
  BY <1>0 DEF TypeOK
<1>1. ASSUME NEW j \in Job, NEW l \in BOOLEAN, Query(j, l),
             UNCHANGED <<up, conn, breaks, outages, drained>>
      PROVE  Fine'
  <2>1. Fine /\ again' = again
    BY <1>1, <1>f DEF Query
  <2>2. \A i \in Job : job'[i] # "failed"
    BY <1>t, <1>1, <2>1 DEF Query
  <2> QED BY <1>1, <2>1, <2>2
<1>2. ASSUME NEW c \in Conn, Borrow(c) \/ Connect(c) PROVE Fine'
  <2>1. Fine /\ UNCHANGED <<up, again, breaks>>
    BY <1>2, <1>f DEF Borrow, Connect, counts, history
  <2>2. Head(queue) \in Job
    BY <1>0, <1>2, Shortened DEF Borrow, Connect, TypeOK, Queued
  <2>3. \A i \in Job : job'[i] # "failed"
    BY <1>t, <1>2, <2>1, <2>2 DEF Borrow, Connect
  <2>4. \A d \in Conn : conn'[d] = "dead" => conn[d] = "dead"
    BY <1>t, <1>2 DEF Borrow, Connect
  <2> QED BY <2>1, <2>3, <2>4
<1>3. ASSUME NEW c \in Conn, Connected(c) \/ Reap(c) PROVE Fine'
  <2>1. Fine /\ UNCHANGED <<up, jobs, breaks>>
    BY <1>3, <1>f DEF Connected, Reap, counts, history
  <2>2. \A d \in Conn : conn'[d] = "dead" => conn[d] = "dead"
    BY <1>t, <1>3 DEF Connected, Reap, Destroyed
  <2> QED BY <2>1, <2>2 DEF jobs
<1>4. ASSUME NEW c \in Conn, Answer(c) PROVE Fine'
  <2>1. Fine /\ UNCHANGED <<up, conn, breaks>> /\ holder[c] \in Job
    BY <1>t, <1>4, <1>f DEF Answer, Released, counts, history
  <2>2. /\ \A i \in Job : job'[i] # "failed"
        /\ \A i \in Job : again'[i] => again[i]
    BY <1>t, <1>4, <2>1 DEF Answer
  <2> QED BY <2>1, <2>2
<1>5. ASSUME NEW c \in Conn, TimeOut(c) PROVE Fine'
  <2> DEFINE j == holder[c]
  <2>1. Fine /\ UNCHANGED <<up, breaks>> /\ j \in Job
    BY <1>t, <1>5, <1>f DEF TimeOut, Unanswered, counts, history
  <2>2. conn[c] = "dead" /\ breaks # 0 /\ ~ again[j]
    BY <1>5, <2>1 DEF TimeOut, Unanswered
  <2>3. \A i \in Job : job'[i] # "failed"
    BY <1>t, <1>5, <2>1, <2>2 DEF TimeOut, Retry
  <2>4. \A d \in Conn : conn'[d] # "dead"
    BY <1>t, <1>5, <2>1, <2>2 DEF TimeOut, Destroyed
  <2> QED BY <2>1, <2>2, <2>3, <2>4
<1>6. ASSUME NEW c \in Conn, Break(c) PROVE Fine'
  <2>1. /\ breaks = 0 /\ breaks' = 1 /\ UNCHANGED <<up, jobs>>
        /\ outages = 0 /\ ~ drained
        /\ conn' = [conn EXCEPT ![c] = "dead"]
    BY <1>0, <1>6 DEF Break
  <2>2. Fine
    BY <1>f, <2>1
  <2>3. \A d \in Conn : conn'[d] = "dead" => d = c
    BY <1>t, <2>1, <2>2
  <2> QED BY <2>1, <2>2, <2>3 DEF jobs
<1>7. ~ GoDown
  BY <1>0 DEF GoDown
<1>8. ~ ComeUp
  BY <1>f DEF ComeUp, counts, history
<1>9. CASE PoolOk \/ PoolFails \/ FreshFails
  BY <1>9, <1>f DEF PoolOk, PoolFails, FreshFails, pool, jobs, counts, history
<1>10. ~ FreshOk
  BY DEF FreshOk
<1>11. CASE UNCHANGED vars
  BY <1>11, <1>f DEF vars, pool, jobs, counts, history
<1>12. ASSUME NEW j \in Client, Issue(j) PROVE Fine'
  BY <1>1, <1>12 DEF Issue, Job
<1>13. CASE Tick
  BY <1>1, <1>13 DEF Tick, Job, counts, history
<1> QED BY <1>2, <1>3, <1>4, <1>5, <1>6, <1>7, <1>8, <1>9, <1>10, <1>11, <1>12, <1>13
        DEF Next, Pool, Heartbeat

(* lib/database.ts:91: no statement of a request fails because of a single *)
(* connection that died silently.                                          *)
THEOREM DeathUnnoticed == Spec => []OneDeathUnnoticed
<1>1. Init => Harmless
  BY DEF Init, Harmless
<1>2. Spec => []Harmless
  BY <1>1, NextHarmless, PlacesHold, PTL DEF Spec
<1>3. PlacesInv /\ Harmless => OneDeathUnnoticed
  <2>1. PlacesInv => breaks \in Nat /\ outages \in Nat
    BY PoolAssumption DEF PlacesInv, TypeOK
  <2> QED BY <2>1 DEF Harmless, OneDeathUnnoticed, Job
<1> QED BY <1>2, <1>3, PlacesHold, PTL
=============================================================================

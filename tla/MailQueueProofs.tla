-------------------------- MODULE MailQueueProofs --------------------------
(***************************************************************************)
(* Theorems about MailQueue, for any number of workers, calls and rows and *)
(* any delay table, window and bound.                                      *)
(***************************************************************************)
EXTENDS MailQueue, FiniteSetTheorems, TLAPS

-----------------------------------------------------------------------------
(* Helpers: what the pure operators return.                                *)

(* The delay before the next attempt is a positive number of ticks,        *)
(* whatever attempt counter a worker brings.                               *)
LEMMA DelayType ==
    ASSUME NEW n \in Nat
    PROVE  Delay(n) \in Nat \ {0}
<1>1. Backoff \in Seq(Nat \ {0}) /\ Len(Backoff) > 0
  BY MailAssumption
<1>2. Len(Backoff) \in Nat /\ \A i \in 1 .. Len(Backoff) : Backoff[i] \in Nat \ {0}
  BY <1>1
<1>3. CASE n < 1
  BY <1>2, <1>1, <1>3 DEF Delay
<1>4. CASE ~(n < 1)
  <2>1. Smaller(n, Len(Backoff)) \in 1 .. Len(Backoff)
    BY <1>2, <1>1, <1>4 DEF Smaller
  <2> QED BY <2>1, <1>2, <1>4 DEF Delay
<1> QED BY <1>3, <1>4

(* The attempt counter stays a natural number.                             *)
LEMMA BumpType ==
    ASSUME NEW n \in Nat
    PROVE  Bump(n) \in Nat
<1>1. Len(Backoff) \in Nat
  BY MailAssumption
<1> QED BY <1>1 DEF Bump, Smaller

(* Normalising the due times keeps them integers.                          *)
LEMMA NormalisedType ==
    ASSUME NEW d \in [RowId -> Int]
    PROVE  Normalised(d) \in [RowId -> Int]
<1> DEFINE overdue == {r \in RowId : state[r] = "queued" /\ d[r] =< 0}
<1>1. IsFiniteSet(RowId)
  <2>1. 1 \in Int /\ MaxRows \in Int
    BY MailAssumption
  <2> QED BY <2>1, FS_Interval DEF RowId
<1>2. ASSUME NEW r \in RowId
      PROVE  Cardinality({s \in overdue : d[s] > d[r]}) \in Nat
  <2>1. {s \in overdue : d[s] > d[r]} \subseteq RowId
    OBVIOUS
  <2>2. IsFiniteSet({s \in overdue : d[s] > d[r]})
    BY <1>1, <2>1, FS_Subset
  <2> QED BY <2>2, FS_CardinalityType
<1>3. ASSUME NEW r \in RowId
      PROVE  (IF r \in overdue
              THEN -Cardinality({s \in overdue : d[s] > d[r]})
              ELSE d[r]) \in Int
  <2>1. CASE r \in overdue
    BY <2>1, <1>2
  <2>2. CASE r \notin overdue
    BY <2>2
  <2> QED BY <2>1, <2>2
<1>4. Normalised(d) = [r \in RowId |->
                         IF r \in overdue
                         THEN -Cardinality({s \in overdue : d[s] > d[r]})
                         ELSE d[r]]
  BY DEF Normalised
<1> HIDE DEF overdue
<1> QED BY <1>3, <1>4

-----------------------------------------------------------------------------
(* Type correctness.  RowId and the constants' types are used everywhere.  *)

LEMMA InitTypeOK == Init => TypeOK
<1> SUFFICES ASSUME Init PROVE TypeOK
  OBVIOUS
<1>1. (CHOOSE c \in Call : TRUE) \in Call
  BY MailAssumption
<1>2. /\ Day \in Nat /\ MaxFaults \in Nat /\ MaxCrashes \in Nat /\ MaxOutages \in Nat
      /\ MaxUnheard \in Nat
  BY MailAssumption
<1>3. UnheardOK
  BY <1>2 DEF Init, UnheardOK
<1> QED BY <1>1, <1>2, <1>3 DEF Init, TypeOK, RowState, CallPc, WorkerPc, Holding

(* The steps of a caller, and the flags other handlers set.                *)
LEMMA CallTypeOK ==
    ASSUME TypeOK, NEW c \in Call, EnqueueCheck(c) \/ EnqueueInsert(c)
    PROVE  TypeOK'
<1>1. CASE EnqueueCheck(c)
  BY <1>1 DEF TypeOK, UnheardOK, EnqueueCheck, table, flags, local, smtp, CallPc
<1>2. CASE EnqueueInsert(c)
  <2>1. InsertRow(c) \/ UNCHANGED table
    BY <1>2 DEF EnqueueInsert
  <2>2. /\ state' \in [RowId -> RowState]
        /\ attempts' \in [RowId -> Nat]
        /\ due' \in [RowId -> Int]
        /\ sentAge' \in [RowId -> Nat]
        /\ nextId' \in Nat \ {0}
        /\ rowCall' \in [RowId -> Call]
    BY <2>1 DEF TypeOK, InsertRow, table, RowState
  <2>3. callPc' \in [Call -> CallPc]
    BY <1>2 DEF TypeOK, EnqueueInsert, AfterFailedInsert, CallPc
  <2>4. faults' \in 0 .. MaxFaults
    BY <1>2, MailAssumption DEF TypeOK, EnqueueInsert, Fault
  <2>5. UNCHANGED <<flags, local, smtp, crashes, outages>>
    BY <1>2 DEF EnqueueInsert
  <2> QED BY <2>2, <2>3, <2>4, <2>5 DEF TypeOK, UnheardOK, flags, local, smtp
<1> QED BY <1>1, <1>2

(* A minute makes the unheard acceptances older, no more and no fewer.     *)
LEMMA AgedType ==
    ASSUME Tick, UnheardOK
    PROVE  /\ UnheardOK'
           /\ Len(unheard') = Len(unheard) /\ DOMAIN unheard' = DOMAIN unheard
           /\ \A i \in DOMAIN unheard : unheard'[i].row = unheard[i].row
<1> DEFINE E == [row : RowId, age : Nat]
<1>1. /\ Len(unheard) \in Nat /\ DOMAIN unheard = 1 .. Len(unheard)
      /\ \A i \in 1 .. Len(unheard) : unheard[i] \in E
  <2>1. unheard \in Seq(E)
    BY DEF UnheardOK
  <2> HIDE DEF E
  <2> QED BY <2>1
<1>2. /\ DOMAIN unheard' = 1 .. Len(unheard)
      /\ unheard' = [i \in 1 .. Len(unheard) |->
                        [unheard[i] EXCEPT !.age = Smaller(@ + 1, Day)]]
  BY <1>1 DEF Tick
<1>3. \A i \in 1 .. Len(unheard) :
          /\ unheard'[i] \in [row : RowId, age : Nat]
          /\ unheard'[i].row = unheard[i].row
  BY <1>1, <1>2, MailAssumption DEF Smaller
<1>4. unheard' \in [1 .. Len(unheard) -> E]
  BY <1>2, <1>3
<1> HIDE DEF E
<1>5. unheard' \in Seq(E) /\ Len(unheard') = Len(unheard)
  BY <1>1, <1>4
<1> USE DEF E
<1> QED BY <1>1, <1>2, <1>3, <1>5 DEF UnheardOK

LEMMA EnvironmentTypeOK ==
    ASSUME TypeOK,
           \/ \E a \in Rcpt : SetUnsubscribed(a) \/ SetBounced(a)
           \/ LinkDown \/ LinkUp \/ Tick
    PROVE  TypeOK'
<1>1. ASSUME NEW a \in Rcpt, SetUnsubscribed(a) \/ SetBounced(a)
      PROVE  TypeOK'
  BY <1>1 DEF TypeOK, UnheardOK, SetUnsubscribed, SetBounced, table, local, smtp
<1>2. CASE LinkDown \/ LinkUp
  <2>1. linkUp' \in BOOLEAN
    BY <1>2 DEF LinkDown, LinkUp
  <2>2. outages' \in 0 .. MaxOutages
    BY <1>2, MailAssumption DEF TypeOK, LinkDown, LinkUp
  <2>3. UNCHANGED <<table, flags, callPc, local, acked, ackAge, unheard, faults, crashes>>
    BY <1>2 DEF LinkDown, LinkUp
  <2> QED BY <2>1, <2>2, <2>3 DEF TypeOK, UnheardOK, table, flags, local
<1>3. CASE Tick
  <2>1. due' \in [RowId -> Int]
    <3> DEFINE d == [r \in RowId |->
                       IF state[r] = "queued" THEN due[r] - 1 ELSE due[r]]
    <3>1. d \in [RowId -> Int]
      BY DEF TypeOK
    <3>2. due' = Normalised(d)
      BY <1>3 DEF Tick
    <3> QED BY <3>1, <3>2, NormalisedType
  <2>2. sentAge' \in [RowId -> Nat] /\ ackAge' \in [RowId -> Nat]
    <3>1. /\ sentAge' = [r \in RowId |-> Smaller(sentAge[r] + 1, Day)]
          /\ ackAge' = [r \in RowId |-> Smaller(ackAge[r] + 1, Day)]
      BY <1>3 DEF Tick
    <3> QED BY <3>1, MailAssumption DEF TypeOK, Smaller
  <2>3. UNCHANGED <<state, attempts, nextId, rowCall, flags, callPc, local,
                    linkUp, acked, faults, crashes, outages>>
    BY <1>3 DEF Tick
  <2>4. UnheardOK'
    BY <1>3, AgedType DEF TypeOK, UnheardOK
  <2> QED BY <2>1, <2>2, <2>3, <2>4 DEF TypeOK, flags, local
<1> QED BY <1>1, <1>2, <1>3

LEMMA WorkerTypeOK ==
    ASSUME TypeOK, NEW w \in Worker, WorkerStep(w) \/ TickThrows(w) \/ Crash(w)
    PROVE  TypeOK'
<1>1. CASE CheckMinute(w) \/ CheckDay(w) \/ TickThrows(w) \/ Crash(w)
  <2>1. /\ pc' \in [Worker -> WorkerPc]
        /\ \A v \in Worker : pc'[v] \in Holding => pc[v] \in Holding
    BY <1>1 DEF TypeOK, CheckMinute, CheckDay, TickThrows, Crash, Goto,
                WorkerPc, Holding
  <2>2. again' \in [Worker -> BOOLEAN]
    BY <1>1 DEF TypeOK, CheckMinute, CheckDay, TickThrows, Crash
  <2>3. faults' \in 0 .. MaxFaults /\ crashes' \in 0 .. MaxCrashes
    BY <1>1, MailAssumption
       DEF TypeOK, CheckMinute, CheckDay, TickThrows, Crash, Fault
  <2>4. UNCHANGED <<table, flags, callPc, held, tries, smtp, outages>>
    BY <1>1 DEF CheckMinute, CheckDay, TickThrows, Crash
  <2> QED BY <2>1, <2>2, <2>3, <2>4 DEF TypeOK, UnheardOK, table, flags, smtp
<1>2. CASE Claim(w)
  <2>1. /\ state' \in [RowId -> RowState]
        /\ due' \in [RowId -> Int]
        /\ UNCHANGED <<attempts, sentAge, nextId, rowCall>>
    BY <1>2 DEF TypeOK, Claim, TakeRow, table, RowState
  <2>2. /\ pc' \in [Worker -> WorkerPc]
        /\ held' \in [Worker -> Nat]
        /\ \A v \in Worker : pc'[v] \in Holding => held'[v] \in RowId
        /\ tries' \in [Worker -> Nat]
        /\ again' \in [Worker -> BOOLEAN]
    <3>1. CASE \E r \in RowId :
                 /\ Goto(w, "check")
                 /\ held' = [held EXCEPT ![w] = r]
                 /\ tries' = [tries EXCEPT ![w] = attempts[r]]
                 /\ again' = [again EXCEPT ![w] = FALSE]
      <4>1. \A r \in RowId : r \in Nat /\ attempts[r] \in Nat
        BY MailAssumption DEF RowId, TypeOK
      <4> QED BY <3>1, <4>1 DEF TypeOK, Goto, WorkerPc, Holding
    <3>2. CASE Goto(w, "idle") /\ UNCHANGED <<held, tries, again>>
      BY <3>2 DEF TypeOK, Goto, WorkerPc, Holding
    <3> QED BY <1>2, <3>1, <3>2 DEF Claim
  <2>3. faults' \in 0 .. MaxFaults
    BY <1>2, MailAssumption DEF TypeOK, Claim, Fault
  <2>4. UNCHANGED <<flags, callPc, smtp, crashes, outages>>
    BY <1>2 DEF Claim
  <2> QED BY <2>1, <2>2, <2>3, <2>4 DEF TypeOK, UnheardOK, flags, smtp
<1>3. CASE CheckBounced(w)
  <2>1. /\ pc' \in [Worker -> WorkerPc]
        /\ \A v \in Worker : pc'[v] \in Holding => pc[v] \in Holding
    BY <1>3 DEF TypeOK, CheckBounced, Goto, WorkerPc, Holding
  <2>2. faults' \in 0 .. MaxFaults
    BY <1>3, MailAssumption DEF TypeOK, CheckBounced, Fault
  <2>3. UNCHANGED <<table, flags, callPc, held, tries, again, smtp, crashes,
                    outages>>
    BY <1>3 DEF CheckBounced
  <2> QED BY <2>1, <2>2, <2>3 DEF TypeOK, UnheardOK, table, flags, smtp
<1>4. CASE Send(w)
  <2>1. held[w] \in RowId
    BY <1>4 DEF TypeOK, Send, Holding
  <2>2. UnheardOK'
    <3>1. CASE UNCHANGED unheard
      BY <3>1 DEF TypeOK, UnheardOK
    <3>2. CASE /\ Len(unheard) < MaxUnheard
               /\ unheard' = Append(unheard, [row |-> held[w], age |-> 0])
      BY <2>1, <3>2, MailAssumption DEF TypeOK, UnheardOK
    <3> QED BY <1>4, <3>1, <3>2 DEF Send
  <2>3. /\ acked' \in [RowId -> Nat] /\ ackAge' \in [RowId -> Nat]
        /\ pc' \in [Worker -> WorkerPc]
        /\ \A v \in Worker : pc'[v] \in Holding => pc[v] \in Holding
    <3>1. \/ acked' = [acked EXCEPT ![held[w]] = @ + 1]
             /\ ackAge' = [ackAge EXCEPT ![held[w]] = 0]
          \/ UNCHANGED <<acked, ackAge>>
      BY <1>4 DEF Send
    <3>2. /\ pc[w] = "send"
          /\ \/ pc' = [pc EXCEPT ![w] = "ok"] \/ pc' = [pc EXCEPT ![w] = "dead"]
             \/ pc' = [pc EXCEPT ![w] = "fail"]
      BY <1>4 DEF Send, Goto
    <3> QED BY <3>1, <3>2, <2>1 DEF TypeOK, WorkerPc, Holding
  <2>4. UNCHANGED <<table, flags, callPc, held, tries, again, linkUp, faults,
                    crashes, outages>>
    BY <1>4 DEF Send
  <2> QED BY <2>2, <2>3, <2>4 DEF TypeOK, table, flags
<1>5. CASE Finish(w)
  <2>1. held[w] \in RowId /\ tries[w] \in Nat
    BY <1>5 DEF TypeOK, Finish, Marking, Holding
  <2>2. Delay(tries[w] + 1) \in Nat
    BY <2>1, DelayType
  <2>3. \A n \in Nat : Bump(n) \in Nat
    BY BumpType
  <2>4. Mark(w) \/ UNCHANGED table
    BY <1>5 DEF Finish
  <2>5. /\ state' \in [RowId -> RowState]
        /\ attempts' \in [RowId -> Nat]
        /\ due' \in [RowId -> Int]
        /\ sentAge' \in [RowId -> Nat]
        /\ UNCHANGED <<nextId, rowCall>>
    BY <2>1, <2>2, <2>3, <2>4
       DEF TypeOK, Mark, MarkSent, MarkDead, MarkTransientFailure, table, RowState
  <2>6. /\ pc' \in [Worker -> WorkerPc]
        /\ again' \in [Worker -> BOOLEAN]
        /\ \A v \in Worker : pc'[v] \in Holding => pc'[v] = pc[v]
    BY <1>5 DEF TypeOK, Finish, AfterFailedMark, Goto, WorkerPc, Holding
  <2>7. faults' \in 0 .. MaxFaults
    BY <1>5, MailAssumption DEF TypeOK, Finish, Fault
  <2>8. UNCHANGED <<flags, callPc, held, tries, smtp, crashes, outages>>
    BY <1>5 DEF Finish
  <2> QED BY <2>5, <2>6, <2>7, <2>8 DEF TypeOK, UnheardOK, flags, smtp
<1> QED BY <1>1, <1>2, <1>3, <1>4, <1>5 DEF WorkerStep

(* Every variable keeps its type: no statement writes a row that was never *)
(* inserted, no worker marks a row without having claimed one.             *)
THEOREM TypeCorrect == Spec => []TypeOK
<1>1. ASSUME TypeOK, [Next]_vars
      PROVE  TypeOK'
  <2>1. CASE UNCHANGED vars
    BY <1>1, <2>1 DEF TypeOK, UnheardOK, vars, table, flags, local, smtp
  <2>2. CASE Next
    BY <1>1, <2>2, CallTypeOK, EnvironmentTypeOK, WorkerTypeOK DEF Next
  <2> QED BY <1>1, <2>1, <2>2
<1> QED BY InitTypeOK, <1>1, PTL DEF Spec

-----------------------------------------------------------------------------
(* Exclusive claims and at-most-once delivery.                             *)
(*                                                                         *)
(* They hold for any number of workers when no statement is executed a     *)
(* second time, and under any faults when a single worker drains the       *)
(* queue.  Crashes never matter.  The condition is needed: with two      *)
(* workers and one lost reply TLC refutes ClaimExclusive.                  *)
Unduplicated == MaxFaults = 0 \/ \A v, w \in Worker : v = w

LEMMA InitMailInv == Init => MailInv
BY MailAssumption
   DEF Init, MailInv, FreshRows, HolderInv, ClaimExclusive, AtMostOnce,
       Holding, Marking, RowId

(* Steps that touch neither the rows nor a worker.                         *)
LEMMA FrameMailInv ==
    ASSUME TypeOK, MailInv, faults' \in Nat, faults' >= faults,
           UNCHANGED <<state, acked, nextId, pc, held, again>>
    PROVE  MailInv'
<1>1. faults \in Nat
  BY MailAssumption DEF TypeOK
<1> QED
  BY <1>1 DEF MailInv, FreshRows, HolderInv, ClaimExclusive, AtMostOnce

LEMMA FaultGrows ==
    ASSUME TypeOK, Fault \/ UNCHANGED faults
    PROVE  faults \in Nat /\ faults' \in Nat /\ faults' >= faults /\ (Fault => faults' > 0)
BY MailAssumption DEF TypeOK, Fault

(* A new row is none of the rows a worker holds.                           *)
LEMMA CallMailInv ==
    ASSUME TypeOK, MailInv, NEW c \in Call, EnqueueCheck(c) \/ EnqueueInsert(c)
    PROVE  MailInv'
<1>1. (Fault \/ UNCHANGED faults) /\ UNCHANGED <<acked, pc, held, again>>
  BY DEF EnqueueCheck, EnqueueInsert, local, smtp
<1>2. faults' \in Nat /\ faults' >= faults /\ faults \in Nat
  BY <1>1, FaultGrows
<1>3. CASE UNCHANGED table
  BY <1>1, <1>2, <1>3, FrameMailInv DEF table
<1>4. CASE InsertRow(c)
  <2>1. nextId \in RowId /\ state[nextId] = "none" /\ nextId \in Nat
    BY <1>4, MailAssumption DEF InsertRow, MailInv, FreshRows, RowId
  <2>2. /\ state' = [state EXCEPT ![nextId] = "queued"]
        /\ nextId' = nextId + 1
    BY <1>4 DEF InsertRow
  <2>3. \A w \in Worker : pc[w] \in Holding =>
            held[w] \in RowId /\ state'[held[w]] = state[held[w]]
    <3> SUFFICES ASSUME NEW w \in Worker, pc[w] \in Holding
                 PROVE  held[w] \in RowId /\ state'[held[w]] = state[held[w]]
      OBVIOUS
    <3>1. held[w] \in RowId
      BY DEF TypeOK
    <3>2. state[held[w]] # "none"
      BY DEF MailInv, HolderInv, Marked
    <3> QED BY <3>1, <3>2, <2>1, <2>2 DEF TypeOK
  <2>4. FreshRows'
    BY <2>1, <2>2, MailAssumption DEF FreshRows, MailInv, TypeOK, RowId
  <2>5. HolderInv' /\ ClaimExclusive'
    BY <1>1, <1>2, <2>3 DEF MailInv, HolderInv, ClaimExclusive
  <2>6. AtMostOnce'
    BY <1>1, <2>1, <2>2 DEF MailInv, AtMostOnce, TypeOK
  <2> QED BY <2>4, <2>5, <2>6 DEF MailInv
<1> QED BY <1>3, <1>4 DEF EnqueueCheck, EnqueueInsert

LEMMA EnvironmentMailInv ==
    ASSUME TypeOK, MailInv,
           \/ \E a \in Rcpt : SetUnsubscribed(a) \/ SetBounced(a)
           \/ LinkDown \/ LinkUp \/ Tick
    PROVE  MailInv'
<1>1. UNCHANGED <<state, acked, nextId, pc, held, again, faults>>
  BY DEF SetUnsubscribed, SetBounced, LinkDown, LinkUp, Tick, table, local, smtp
<1>2. faults \in Nat
  BY MailAssumption DEF TypeOK
<1> QED BY <1>1, <1>2, FrameMailInv

(* A worker that ends its tick, or has not claimed anything yet, keeps the *)
(* invariant: it lets go of its row.                                       *)
LEMMA ReleaseMailInv ==
    ASSUME TypeOK, MailInv, NEW w \in Worker,
           pc' \in [Worker -> WorkerPc],
           \A v \in Worker \ {w} : pc'[v] = pc[v] /\ again'[v] = again[v],
           pc'[w] \notin Holding, again'[w] = FALSE,
           faults' \in Nat, faults' >= faults,
           UNCHANGED <<state, acked, nextId, held>>
    PROVE  MailInv'
<1>1. faults \in Nat
  BY MailAssumption DEF TypeOK
<1> QED BY <1>1
        DEF MailInv, FreshRows, HolderInv, ClaimExclusive, AtMostOnce

(* The limit checks, a tick that throws and a crash.                       *)
LEMMA QuietMailInv ==
    ASSUME TypeOK, MailInv, NEW w \in Worker,
           CheckMinute(w) \/ CheckDay(w) \/ TickThrows(w) \/ Crash(w)
    PROVE  MailInv'
<1>1. /\ pc' = [pc EXCEPT ![w] = pc'[w]]
      /\ pc' \in [Worker -> WorkerPc]
      /\ pc'[w] \notin Holding
  BY DEF CheckMinute, CheckDay, TickThrows, Crash, Goto, TypeOK, WorkerPc, Holding
<1>2. \A v \in Worker \ {w} : pc'[v] = pc[v] /\ again'[v] = again[v]
  BY <1>1 DEF CheckMinute, CheckDay, TickThrows, Crash, TypeOK
<1>3. again'[w] = FALSE
  <2>1. CASE Crash(w)
    BY <2>1 DEF Crash, TypeOK
  <2>2. CASE CheckMinute(w) \/ CheckDay(w) \/ TickThrows(w)
    <3>1. pc[w] \notin Marking /\ again' = again
      BY <2>2 DEF CheckMinute, CheckDay, TickThrows, Marking
    <3> QED BY <3>1 DEF MailInv, HolderInv, TypeOK
  <2> QED BY <2>1, <2>2
<1>4. UNCHANGED <<state, acked, nextId, held>> /\ (Fault \/ UNCHANGED faults)
  BY DEF CheckMinute, CheckDay, TickThrows, Crash, table, smtp
<1> QED BY <1>1, <1>2, <1>3, <1>4, FaultGrows, ReleaseMailInv

(* A claim takes a queued row; by HolderInv nobody holds such a row, unless*)
(* a second execution is under way somewhere else.                         *)
LEMMA ClaimMailInv ==
    ASSUME TypeOK, MailInv, Unduplicated, NEW w \in Worker, Claim(w)
    PROVE  MailInv'
<1>0. (Fault \/ UNCHANGED faults) /\ UNCHANGED <<acked, nextId>>
  BY DEF Claim, TakeRow, table, smtp
<1>1. faults \in Nat /\ faults' \in Nat /\ faults' >= faults
  BY <1>0, FaultGrows
<1>2. pc[w] = "claim" /\ again[w] = FALSE
  BY DEF Claim, MailInv, HolderInv, Marking, TypeOK
<1>3. CASE DueRows = {} /\ Goto(w, "idle") /\ UNCHANGED <<table, held, tries, again>>
  BY <1>0, <1>1, <1>2, <1>3, ReleaseMailInv
     DEF Goto, table, TypeOK, WorkerPc, Holding
<1>4. ASSUME NEW r \in RowId, FirstDue(r), TakeRow(r)
      PROVE  /\ state' = [state EXCEPT ![r] = "sending"]
             /\ FreshRows'
             /\ acked[r] = 0
             /\ \A v \in Worker : pc[v] \in Holding =>
                    held[v] # r /\ state'[held[v]] = state[held[v]]
             /\ AtMostOnce'
  <2>1. state[r] = "queued" /\ state' = [state EXCEPT ![r] = "sending"]
    BY <1>4 DEF FirstDue, DueRows, TakeRow
  <2>2. acked[r] = 0
    BY <2>1 DEF MailInv, AtMostOnce
  <2>3. \A v \in Worker : ~again[v] \/ pc[v] \notin Holding
    <3>1. CASE MaxFaults = 0
      BY <3>1, <1>1 DEF MailInv, HolderInv, TypeOK
    <3>2. CASE \A u, v \in Worker : u = v
      BY <3>2, <1>2
    <3> QED BY <3>1, <3>2 DEF Unduplicated
  <2>4. \A v \in Worker : pc[v] \in Holding => held[v] # r /\ held[v] \in RowId
    BY <2>1, <2>3 DEF MailInv, HolderInv, TypeOK
  <2>5. FreshRows'
    BY <2>1, <1>0 DEF MailInv, FreshRows, TypeOK
  <2>6. AtMostOnce'
    BY <2>1, <2>2, <1>0 DEF MailInv, AtMostOnce, TypeOK
  <2> QED BY <2>1, <2>2, <2>4, <2>5, <2>6 DEF TypeOK
<1>5. ASSUME NEW r \in RowId, FirstDue(r), TakeRow(r),
             Goto(w, "check"), held' = [held EXCEPT ![w] = r],
             again' = [again EXCEPT ![w] = FALSE]
      PROVE  MailInv'
  <2>1. pc'[w] = "check" /\ held'[w] = r /\ again'[w] = FALSE
    BY <1>5 DEF Goto, TypeOK
  <2>2. \A v \in Worker \ {w} :
            pc'[v] = pc[v] /\ held'[v] = held[v] /\ again'[v] = again[v]
    BY <1>5 DEF Goto, TypeOK
  <2>3. state'[r] = "sending" /\ acked'[r] = 0
    BY <1>4, <1>5, <1>0 DEF TypeOK
  <2>4. HolderInv'
    BY <2>1, <2>2, <2>3, <1>4, <1>5, <1>0, <1>1
       DEF MailInv, HolderInv, Marking, Holding
  <2>5. ClaimExclusive'
    BY <2>1, <2>2, <2>3, <1>4, <1>5 DEF MailInv, ClaimExclusive, Holding
  <2> QED BY <2>4, <2>5, <1>4, <1>5 DEF MailInv
<1>6. ASSUME NEW r \in RowId, FirstDue(r), TakeRow(r),
             Goto(w, "idle"), UNCHANGED <<held, again>>
      PROVE  MailInv'
  <2>1. pc'[w] = "idle"
    BY <1>6 DEF Goto, TypeOK
  <2>2. \A v \in Worker \ {w} : pc'[v] = pc[v]
    BY <1>6 DEF Goto, TypeOK
  <2>3. HolderInv' /\ ClaimExclusive'
    BY <2>1, <2>2, <1>4, <1>6, <1>0, <1>1, <1>2
       DEF MailInv, HolderInv, ClaimExclusive, Holding
  <2> QED BY <2>3, <1>4, <1>6 DEF MailInv
<1> QED BY <1>3, <1>5, <1>6 DEF Claim

LEMMA CheckBouncedMailInv ==
    ASSUME TypeOK, MailInv, NEW w \in Worker, CheckBounced(w)
    PROVE  MailInv'
<1>1. faults \in Nat /\ faults' \in Nat /\ faults' >= faults
  BY FaultGrows DEF CheckBounced
<1>2. UNCHANGED <<state, acked, nextId, held, again>>
  BY DEF CheckBounced, table, smtp
<1>3. pc[w] = "check" /\ pc'[w] \in {"dead", "send"} /\ again[w] = FALSE
  BY DEF CheckBounced, Goto, TypeOK, MailInv, HolderInv, Marking
<1>4. \A v \in Worker \ {w} : pc'[v] = pc[v]
  BY DEF CheckBounced, Goto, TypeOK
<1> QED BY <1>1, <1>2, <1>3, <1>4
        DEF MailInv, FreshRows, HolderInv, ClaimExclusive, AtMostOnce, Holding, Marking

(* The server takes the mail of a row nobody else holds, for the first     *)
(* time.                                                                   *)
LEMMA SendMailInv ==
    ASSUME TypeOK, MailInv, NEW w \in Worker, Send(w)
    PROVE  MailInv'
<1>1. /\ pc[w] = "send" /\ again[w] = FALSE /\ held[w] \in RowId
      /\ state[held[w]] = "sending" /\ acked[held[w]] = 0
  BY DEF Send, TypeOK, MailInv, HolderInv, Marking, Holding
<1>2. UNCHANGED <<state, nextId, held, again, faults>> /\ faults \in Nat
  BY MailAssumption DEF Send, table, TypeOK
<1>3. \A v \in Worker \ {w} : pc'[v] = pc[v]
  BY DEF Send, Goto, TypeOK
<1>4. /\ pc'[w] \in {"ok", "dead", "fail"}
      /\ acked' = [acked EXCEPT ![held[w]] = IF pc'[w] = "ok" THEN 1 ELSE 0]
  BY <1>1 DEF Send, Goto, TypeOK
<1>5. \A v \in Worker \ {w} : pc[v] \in Holding =>
          held[v] # held[w] /\ held[v] \in RowId /\ acked'[held[v]] = acked[held[v]]
  BY <1>1, <1>4 DEF MailInv, ClaimExclusive, TypeOK, Holding
<1>6. acked'[held[w]] = IF pc'[w] = "ok" THEN 1 ELSE 0
  BY <1>1, <1>4 DEF TypeOK
<1>7. HolderInv'
  BY <1>1, <1>2, <1>3, <1>4, <1>5, <1>6 DEF MailInv, HolderInv, Holding, Marking
<1>8. ClaimExclusive'
  BY <1>1, <1>2, <1>3, <1>4 DEF MailInv, ClaimExclusive, Holding
<1>9. AtMostOnce'
  BY <1>1, <1>2, <1>4 DEF MailInv, AtMostOnce, TypeOK
<1> QED BY <1>2, <1>7, <1>8, <1>9 DEF MailInv, FreshRows

(* The three UPDATEs, executed, lost, or executed again.                   *)
LEMMA FinishMailInv ==
    ASSUME TypeOK, MailInv, NEW w \in Worker, Finish(w)
    PROVE  MailInv'
<1> DEFINE r == held[w]
<1>1. /\ pc[w] \in Marking /\ pc[w] \in Holding /\ r \in RowId
      /\ state[r] \in {"sending", Marked(pc[w])}
      /\ acked[r] = IF pc[w] = "ok" THEN 1 ELSE 0
  BY DEF Finish, Marking, Holding, TypeOK, MailInv, HolderInv
<1>2. /\ UNCHANGED <<acked, held>> /\ (Fault \/ UNCHANGED faults)
      /\ faults \in Nat /\ faults' \in Nat /\ faults' >= faults
      /\ Fault => faults' > 0
  BY FaultGrows DEF Finish, smtp
<1>3. /\ UNCHANGED nextId
      /\ state' = [state EXCEPT ![r] = Marked(pc[w])] \/ UNCHANGED state
  BY DEF Finish, Mark, MarkSent, MarkDead, MarkTransientFailure, Marked, table
<1>4. \A v \in Worker \ {w} : pc'[v] = pc[v] /\ again'[v] = again[v]
  BY DEF Finish, AfterFailedMark, Goto, TypeOK
<1>5. \A v \in Worker \ {w} : pc[v] \in Holding =>
          held[v] # r /\ held[v] \in RowId /\ state'[held[v]] = state[held[v]]
  BY <1>1, <1>3 DEF MailInv, ClaimExclusive, TypeOK
<1>6. FreshRows'
  <2>1. r < nextId
    <3>1. state[r] # "none"
      BY <1>1 DEF Marked
    <3>2. r \in Nat /\ nextId \in Nat
      BY <1>1, MailAssumption DEF RowId, TypeOK
    <3> QED BY <1>1, <3>1, <3>2 DEF MailInv, FreshRows
  <2>2. \A s \in RowId : s >= nextId => s # r
    BY <2>1, MailAssumption DEF TypeOK, RowId
  <2> QED BY <2>2, <1>3, <1>1 DEF MailInv, FreshRows, TypeOK
<1>7. AtMostOnce'
  BY <1>1, <1>2, <1>3 DEF MailInv, AtMostOnce, TypeOK, Marked, Marking
<1>8. CASE pc'[w] = "idle" /\ again'[w] = FALSE
  <2>1. HolderInv' /\ ClaimExclusive'
    BY <1>2, <1>4, <1>5, <1>8
       DEF MailInv, HolderInv, ClaimExclusive, Holding, Marking
  <2> QED BY <2>1, <1>6, <1>7 DEF MailInv
<1>9. CASE pc'[w] = pc[w] /\ again'[w] = TRUE /\ Fault
  <2>1. state'[r] \in {"sending", Marked(pc[w])}
    BY <1>1, <1>3 DEF TypeOK
  <2>2. HolderInv'
    BY <1>1, <1>2, <1>4, <1>5, <1>9, <2>1 DEF MailInv, HolderInv
  <2>3. ClaimExclusive'
    BY <1>1, <1>2, <1>4, <1>5, <1>9 DEF MailInv, ClaimExclusive
  <2> QED BY <2>2, <2>3, <1>6, <1>7 DEF MailInv
<1>10. \/ pc'[w] = "idle" /\ again'[w] = FALSE
       \/ pc'[w] = pc[w] /\ again'[w] = TRUE /\ Fault
  BY DEF Finish, AfterFailedMark, Goto, TypeOK
<1> QED BY <1>8, <1>9, <1>10

LEMMA NextMailInv ==
    ASSUME TypeOK, MailInv, Unduplicated, [Next]_vars
    PROVE  MailInv'
<1>1. CASE UNCHANGED vars
  <2>1. faults \in Nat
    BY MailAssumption DEF TypeOK
  <2> QED BY <1>1, <2>1, FrameMailInv DEF vars, table, local, smtp
<1>2. ASSUME NEW w \in Worker, WorkerStep(w)
      PROVE  MailInv'
  BY <1>2, QuietMailInv, ClaimMailInv, CheckBouncedMailInv, SendMailInv,
     FinishMailInv DEF WorkerStep
<1> QED
  BY <1>1, <1>2, CallMailInv, EnvironmentMailInv, QuietMailInv DEF Next

(* Two workers never hold the same row, and what a worker holds is out of  *)
(* the queue: the promise of claimNextDue's comment, where it is kept.     *)
THEOREM ExclusiveClaims ==
    ASSUME Unduplicated
    PROVE  Spec => []ClaimExclusive
<1>1. TypeOK /\ MailInv /\ [Next]_vars => MailInv'
  BY NextMailInv
<1>2. MailInv => ClaimExclusive
  BY DEF MailInv
<1> QED BY InitMailInv, TypeCorrect, <1>1, <1>2, PTL DEF Spec

(* The server is heard to accept no mail twice, and the recorded state     *)
(* never contradicts what was heard, whatever crashes.  A second copy goes *)
(* out only after an answer that was lost.                                 *)
THEOREM DeliveredAtMostOnce ==
    ASSUME Unduplicated
    PROVE  Spec => []AtMostOnce
<1>1. TypeOK /\ MailInv /\ [Next]_vars => MailInv'
  BY NextMailInv
<1>2. MailInv => AtMostOnce
  BY DEF MailInv
<1> QED BY InitMailInv, TypeCorrect, <1>1, <1>2, PTL DEF Spec

-----------------------------------------------------------------------------
(* A step that changes one row changes the fate and the copies of that row *)
(* only.                                                                   *)
LEMMA FateMove ==
    ASSUME NEW r \in RowId, NEW v, Fate'[r] = v,
           \A s \in RowId \ {r} : state'[s] = state[s] /\ acked'[s] = acked[s]
    PROVE  Fate' = [Fate EXCEPT ![r] = v]
<1>1. \A s \in RowId \ {r} : Fate'[s] = Fate[s]
  BY DEF Fate
<1>2. Fate = [s \in RowId |-> Fate[s]] /\ Fate' = [s \in RowId |-> Fate'[s]]
  BY DEF Fate
<1> HIDE DEF Fate
<1> QED BY <1>1, <1>2

(* The acceptances of a row whose answer was lost.                         *)
UnheardOf(r) == {i \in DOMAIN unheard : unheard[i].row = r}

LEMMA UnheardFinite ==
    ASSUME TypeOK, NEW S, S \subseteq DOMAIN unheard
    PROVE  /\ IsFiniteSet(S) /\ Cardinality(S) \in Nat
           /\ Cardinality(S) =< Len(unheard)
<1>1. DOMAIN unheard = 1 .. Len(unheard) /\ Len(unheard) \in Nat
  BY DEF TypeOK, UnheardOK
<1>2. IsFiniteSet(1 .. Len(unheard)) /\ Cardinality(1 .. Len(unheard)) = Len(unheard)
  BY <1>1, FS_Interval
<1> QED BY <1>1, <1>2, FS_Subset, FS_CardinalityType

LEMMA CopiesSame ==
    ASSUME UNCHANGED <<acked, unheard>>
    PROVE  Copies' = Copies
BY DEF Copies

LEMMA CopiesTick ==
    ASSUME TypeOK, Tick
    PROVE  Copies' = Copies
<1>1. \A r \in RowId : UnheardOf(r)' = UnheardOf(r)
  BY AgedType DEF UnheardOf, TypeOK
<1>2. UNCHANGED acked
  BY DEF Tick
<1> QED BY <1>1, <1>2 DEF Copies, UnheardOf

(* An accepted mail is one copy more, heard or not.                        *)
LEMMA CopiesHeard ==
    ASSUME TypeOK, NEW r \in RowId, UNCHANGED unheard,
           acked' = [acked EXCEPT ![r] = @ + 1]
    PROVE  Copies' = [Copies EXCEPT ![r] = @ + 1]
<1>1. \A s \in RowId : UnheardOf(s)' = UnheardOf(s) /\ Cardinality(UnheardOf(s)) \in Nat
  BY UnheardFinite DEF UnheardOf
<1>2. Copies = [s \in RowId |-> acked[s] + Cardinality(UnheardOf(s))]
  BY DEF Copies, UnheardOf
<1>3. Copies' = [s \in RowId |-> acked'[s] + Cardinality(UnheardOf(s)')]
  BY DEF Copies, UnheardOf
<1> HIDE DEF UnheardOf
<1> QED BY <1>1, <1>2, <1>3 DEF TypeOK

LEMMA CopiesUnheard ==
    ASSUME TypeOK, NEW r \in RowId, UNCHANGED acked,
           unheard' = Append(unheard, [row |-> r, age |-> 0])
    PROVE  Copies' = [Copies EXCEPT ![r] = @ + 1]
<1> DEFINE n == Len(unheard)
<1>1. /\ n \in Nat /\ DOMAIN unheard = 1 .. n /\ DOMAIN unheard' = 1 .. n + 1
      /\ \A i \in 1 .. n : unheard'[i] = unheard[i]
      /\ unheard'[n + 1].row = r
  BY DEF TypeOK, UnheardOK
<1> HIDE DEF n
<1>2. \A s \in RowId : /\ IsFiniteSet(UnheardOf(s)) /\ Cardinality(UnheardOf(s)) \in Nat
                       /\ n + 1 \notin UnheardOf(s)
  BY <1>1, UnheardFinite DEF UnheardOf
<1>3. \A s \in RowId : s # r => UnheardOf(s)' = UnheardOf(s)
  <2> SUFFICES ASSUME NEW s \in RowId, s # r
               PROVE  \A i : i \in UnheardOf(s)' <=> i \in UnheardOf(s)
    OBVIOUS
  <2>1. \A i \in 1 .. n + 1 : i = n + 1 \/ i \in 1 .. n
    BY <1>1
  <2>2. 1 .. n \subseteq 1 .. n + 1
    BY <1>1
  <2> QED BY <1>1, <2>1, <2>2 DEF UnheardOf
<1>4. UnheardOf(r)' = UnheardOf(r) \cup {n + 1}
  <2>1. \A i : i \in 1 .. n + 1 <=> i = n + 1 \/ i \in 1 .. n
    BY <1>1
  <2> QED BY <1>1, <2>1 DEF UnheardOf
<1>5. Cardinality(UnheardOf(r)') = Cardinality(UnheardOf(r)) + 1
  BY <1>2, <1>4, FS_AddElement
<1>6. Copies = [s \in RowId |-> acked[s] + Cardinality(UnheardOf(s))]
  BY DEF Copies, UnheardOf
<1>7. Copies' = [s \in RowId |-> acked'[s] + Cardinality(UnheardOf(s)')]
  BY DEF Copies, UnheardOf
<1> DEFINE U == [s \in RowId |-> Cardinality(UnheardOf(s))]
<1>8. \A s \in RowId : Cardinality(UnheardOf(s)') = IF s = r THEN U[s] + 1 ELSE U[s]
  BY <1>3, <1>5
<1>9. /\ \A s \in RowId : U[s] \in Nat
      /\ Copies = [s \in RowId |-> acked[s] + U[s]]
      /\ Copies' = [s \in RowId |-> acked[s] + IF s = r THEN U[s] + 1 ELSE U[s]]
  BY <1>2, <1>6, <1>7, <1>8
<1> HIDE DEF U
<1>10. /\ \A s \in RowId : acked[s] \in Nat
       /\ [Copies EXCEPT ![r] = @ + 1]
              = [s \in RowId |-> IF s = r THEN Copies[r] + 1 ELSE Copies[s]]
  BY <1>9 DEF TypeOK
<1>11. \A s \in RowId :
           acked[s] + (IF s = r THEN U[s] + 1 ELSE U[s])
               = IF s = r THEN Copies[r] + 1 ELSE Copies[s]
  BY <1>9, <1>10
<1> QED BY <1>9, <1>10, <1>11

(* A step that leaves the rows' fates alone, or moves one of them.         *)
LEMMA FateStep ==
    ASSUME TypeOK, MailInv, Unduplicated, [Next]_vars
    PROVE  /\ [Delivery!Next]_<<Fate, Copies>>
           /\ \A r \in RowId : state[r] \in {"sent", "dead"} => state'[r] = state[r]
<1> DEFINE Final == \A r \in RowId : state[r] \in {"sent", "dead"} => state'[r] = state[r]
<1>1. ASSUME UNCHANGED <<state, acked, unheard>>
      PROVE  Fate' = Fate /\ Copies' = Copies /\ Final
  BY <1>1, CopiesSame DEF Fate
<1>2. ASSUME NEW c \in Call, InsertRow(c), UNCHANGED <<acked, unheard>>
      PROVE  [Delivery!Next]_<<Fate, Copies>> /\ Final
  <2>1. nextId \in RowId /\ state[nextId] = "none" /\ acked[nextId] = 0
    BY <1>2, MailAssumption
       DEF InsertRow, MailInv, FreshRows, AtMostOnce, RowId
  <2>2. state' = [state EXCEPT ![nextId] = "queued"]
    BY <1>2 DEF InsertRow
  <2>3. Fate' = [Fate EXCEPT ![nextId] = "pending"] /\ Fate[nextId] = "absent"
    <3>1. Fate[nextId] = "absent" /\ Fate'[nextId] = "pending"
      BY <1>2, <2>1, <2>2 DEF Fate, TypeOK
    <3> QED BY <1>2, <2>1, <2>2, <3>1, FateMove DEF TypeOK
  <2>4. Copies' = Copies
    BY <1>2, CopiesSame
  <2> QED BY <2>1, <2>2, <2>3, <2>4 DEF TypeOK, Delivery!Next, Delivery!Submit
<1>3. ASSUME NEW w \in Worker, NEW r \in RowId, FirstDue(r), TakeRow(r),
             UNCHANGED <<acked, unheard>>
      PROVE  Fate' = Fate /\ Copies' = Copies /\ Final
  <2>1. state[r] = "queued" /\ state' = [state EXCEPT ![r] = "sending"]
    BY <1>3 DEF FirstDue, DueRows, TakeRow
  <2> QED BY <1>3, <2>1, CopiesSame DEF Fate, TypeOK
<1>4. ASSUME NEW w \in Worker, Send(w)
      PROVE  [Delivery!Next]_<<Fate, Copies>> /\ Final
  <2>1. /\ held[w] \in RowId /\ state[held[w]] = "sending" /\ acked[held[w]] = 0
        /\ UNCHANGED state
    BY <1>4 DEF Send, TypeOK, MailInv, HolderInv, Marking, Holding, table
  <2>2. CASE UNCHANGED <<acked, unheard>>
    BY <2>1, <2>2, <1>1
  <2>3. CASE acked' = [acked EXCEPT ![held[w]] = @ + 1] /\ UNCHANGED unheard
    <3>1. /\ Fate[held[w]] = "pending"
          /\ Fate' = [Fate EXCEPT ![held[w]] = "delivered"]
      <4>1. Fate[held[w]] = "pending" /\ Fate'[held[w]] = "delivered"
        BY <2>1, <2>3 DEF Fate, TypeOK
      <4> QED BY <2>1, <2>3, <4>1, FateMove DEF TypeOK
    <3>2. Copies' = [Copies EXCEPT ![held[w]] = @ + 1]
      BY <2>1, <2>3, CopiesHeard
    <3> QED BY <2>1, <3>1, <3>2 DEF Delivery!Next, Delivery!Deliver, Delivery!Copied
  <2>4. CASE /\ unheard' = Append(unheard, [row |-> held[w], age |-> 0])
             /\ UNCHANGED acked
    <3>1. Fate[held[w]] = "pending" /\ Fate' = Fate
      BY <2>1, <2>4 DEF Fate, TypeOK
    <3>2. Copies' = [Copies EXCEPT ![held[w]] = @ + 1]
      BY <2>1, <2>4, CopiesUnheard
    <3> QED BY <2>1, <3>1, <3>2
            DEF Delivery!Next, Delivery!DeliverUnheard, Delivery!Copied
  <2> QED BY <2>2, <2>3, <2>4, <1>4 DEF Send
<1>5. ASSUME NEW w \in Worker, pc[w] \in Marking, Mark(w),
             UNCHANGED <<acked, unheard>>
      PROVE  [Delivery!Next]_<<Fate, Copies>> /\ Final
  <2> DEFINE r == held[w]
  <2>1. /\ r \in RowId /\ state[r] \in {"sending", Marked(pc[w])}
        /\ acked[r] = IF pc[w] = "ok" THEN 1 ELSE 0
    BY <1>5 DEF Marking, Holding, TypeOK, MailInv, HolderInv
  <2>2. state' = [state EXCEPT ![r] = Marked(pc[w])]
    BY <1>5 DEF Mark, MarkSent, MarkDead, MarkTransientFailure, Marked
  <2>3. Final /\ Copies' = Copies
    BY <2>1, <2>2, <1>5, CopiesSame DEF TypeOK, Marked, Marking
  <2>4. CASE pc[w] = "ok"
    <3>1. Fate' = Fate
      BY <1>5, <2>1, <2>2, <2>4 DEF Fate, TypeOK, Marked
    <3> QED BY <3>1, <2>3
  <2>5. CASE pc[w] = "fail"
    <3>1. Fate' = Fate
      BY <1>5, <2>1, <2>2, <2>5 DEF Fate, TypeOK, Marked
    <3> QED BY <3>1, <2>3
  <2>6. CASE pc[w] = "dead"
    <3>1. CASE state[r] = "dead"
      <4>1. Fate' = Fate
        BY <1>5, <2>1, <2>2, <2>6, <3>1 DEF Fate, TypeOK, Marked
      <4> QED BY <4>1, <2>3
    <3>2. CASE state[r] = "sending"
      <4>1. Fate[r] = "pending" /\ Fate' = [Fate EXCEPT ![r] = "refused"]
        <5>1. Fate[r] = "pending" /\ Fate'[r] = "refused"
          BY <1>5, <2>1, <2>2, <2>6, <3>2 DEF Fate, TypeOK, Marked
        <5> QED BY <1>5, <2>1, <2>2, <5>1, FateMove DEF TypeOK
      <4> QED BY <4>1, <2>1, <2>3 DEF Delivery!Next, Delivery!Refuse
    <3> QED BY <2>1, <2>6, <3>1, <3>2 DEF Marked
  <2> QED BY <1>5, <2>4, <2>5, <2>6 DEF Marking
<1>6. CASE UNCHANGED vars
  BY <1>6, <1>1 DEF vars, table, smtp
<1>7. ASSUME NEW c \in Call, EnqueueCheck(c) \/ EnqueueInsert(c)
      PROVE  [Delivery!Next]_<<Fate, Copies>> /\ Final
  BY <1>7, <1>1, <1>2 DEF EnqueueCheck, EnqueueInsert, table, smtp
<1>8. CASE \/ \E a \in Rcpt : SetUnsubscribed(a) \/ SetBounced(a)
           \/ LinkDown \/ LinkUp \/ Tick
  <2>1. CASE Tick
    BY <2>1, CopiesTick DEF Tick, Fate
  <2>2. CASE \/ \E a \in Rcpt : SetUnsubscribed(a) \/ SetBounced(a)
             \/ LinkDown \/ LinkUp
    BY <2>2, <1>1 DEF SetUnsubscribed, SetBounced, LinkDown, LinkUp, table, smtp
  <2> QED BY <1>8, <2>1, <2>2
<1>9. ASSUME NEW w \in Worker, WorkerStep(w) \/ TickThrows(w) \/ Crash(w)
      PROVE  [Delivery!Next]_<<Fate, Copies>> /\ Final
  <2>1. CASE \/ CheckMinute(w) \/ CheckDay(w) \/ TickThrows(w) \/ Crash(w)
             \/ CheckBounced(w)
    BY <2>1, <1>1
       DEF CheckMinute, CheckDay, TickThrows, Crash, CheckBounced, table, smtp
  <2>2. CASE Claim(w)
    BY <2>2, <1>1, <1>3 DEF Claim, table, smtp
  <2>3. CASE Finish(w)
    BY <2>3, <1>1, <1>5 DEF Finish, table, smtp
  <2> QED BY <1>9, <2>1, <2>2, <2>3, <1>4 DEF WorkerStep
<1> QED BY <1>6, <1>7, <1>8, <1>9 DEF Next

(* A row recorded as sent or dead is never written again.                  *)
THEOREM SettledRowsStaySettled ==
    ASSUME Unduplicated
    PROVE  Spec => SettledIsFinal
<1>1. TypeOK /\ MailInv /\ [Next]_vars => MailInv'
  BY NextMailInv
<1>2. TypeOK /\ MailInv /\ [Next]_vars =>
        [\A r \in RowId : state[r] \in {"sent", "dead"} => state'[r] = state[r]]_vars
  BY FateStep
<1> QED BY InitMailInv, TypeCorrect, <1>1, <1>2, PTL DEF Spec, SettledIsFinal

(* The queue implements MailDelivery: every step of the queue submits,     *)
(* delivers or refuses one mail, hands over a copy of a mail whose fate is *)
(* open, or changes neither a fate nor a reader's copies.                  *)
THEOREM ImplementsMailDelivery ==
    ASSUME Unduplicated
    PROVE  Spec => DeliversMail
<1>1. TypeOK /\ MailInv /\ [Next]_vars => MailInv'
  BY NextMailInv
<1>2. TypeOK /\ MailInv /\ [Next]_vars => [Delivery!Next]_<<Fate, Copies>>
  BY FateStep
<1>3. Init => Delivery!Init
  <2> SUFFICES ASSUME Init
               PROVE  Delivery!Init
    OBVIOUS
  <2>1. \A r \in RowId : {i \in DOMAIN unheard : unheard[i].row = r} = {}
    BY DEF Init
  <2> QED BY <2>1, FS_EmptySet DEF Init, Delivery!Init, Fate, Copies
<1> QED
  BY InitMailInv, TypeCorrect, <1>1, <1>2, <1>3, PTL
     DEF Spec, DeliversMail, Delivery!Spec

-----------------------------------------------------------------------------
(* The rate limits, counted on what the relay accepted.                    *)
(*                                                                         *)
(* An accepted mail is recorded as sent no earlier than it was accepted,   *)
(* or a worker is about to record it, or it is an orphan: accepted, still  *)
(* sending, and nobody left to record it.  Every orphan was paid for by a  *)
(* crash or by a statement that failed.  What a window was heard to accept *)
(* and what workers that passed its check are still allowed to send exceed *)
(* the limit by the orphans and the other workers at most; what it accepted*)
(* unheard comes on top.                                                   *)
Orphans ==
    {r \in RowId : /\ acked[r] > 0 /\ state[r] = "sending"
                   /\ \A w \in Worker : ~(pc[w] = "ok" /\ held[w] = r)}

At(places) == {w \in Worker : pc[w] \in places}

AckedRows(window) == {r \in RowId : acked[r] > 0 /\ ackAge[r] < window}
SentRows(window)  == {r \in RowId : state[r] = "sent" /\ sentAge[r] < window}

PastMinute == {"day", "claim", "check", "send"}
PastDay    == {"claim", "check", "send"}

RecordedLater == \A r \in RowId : state[r] = "sent" => sentAge[r] =< ackAge[r]

OrphansPaid == Cardinality(Orphans) =< crashes + faults

Allowed(window, rate, past) ==
    Cardinality(AckedRows(window)) + Cardinality(At(past)) + 1
        =< rate + Cardinality(Orphans) + Cardinality(Worker)

RateInv ==
    /\ RecordedLater
    /\ OrphansPaid
    /\ Allowed(Minute, RatePerMinute, PastMinute)
    /\ Allowed(Day, RatePerDay, PastDay)

LEMMA RowsFinite ==
    ASSUME NEW S, S \subseteq RowId
    PROVE  IsFiniteSet(S) /\ Cardinality(S) \in Nat
<1>1. IsFiniteSet(RowId)
  <2>1. 1 \in Int /\ MaxRows \in Int
    BY MailAssumption
  <2> QED BY <2>1, FS_Interval DEF RowId
<1> QED BY <1>1, FS_Subset, FS_CardinalityType

LEMMA WorkersFinite ==
    ASSUME NEW S, S \subseteq Worker
    PROVE  IsFiniteSet(S) /\ Cardinality(S) \in Nat
BY WorkerAssumption, FS_Subset, FS_CardinalityType

LEMMA UnionAtMost ==
    ASSUME NEW S, NEW T, IsFiniteSet(S), IsFiniteSet(T)
    PROVE  /\ IsFiniteSet(S \cup T) /\ Cardinality(S \cup T) \in Nat
           /\ Cardinality(S \cup T) =< Cardinality(S) + Cardinality(T)
<1>1. IsFiniteSet(S \cap T)
  BY FS_Subset
<1>2. Cardinality(S) \in Nat /\ Cardinality(T) \in Nat /\ Cardinality(S \cap T) \in Nat
  BY <1>1, FS_CardinalityType
<1>3. /\ IsFiniteSet(S \cup T)
      /\ Cardinality(S \cup T) = Cardinality(S) + Cardinality(T) - Cardinality(S \cap T)
  BY FS_Union
<1>4. Cardinality(S \cup T) \in Nat
  BY <1>3, FS_CardinalityType
<1> QED BY <1>2, <1>3, <1>4

(* The sets counted here, before and after a step.                         *)
LEMMA Counted ==
    /\ Orphans \subseteq RowId /\ Orphans' \subseteq RowId
    /\ \A window : /\ AckedRows(window) \subseteq RowId
                   /\ SentRows(window) \subseteq RowId
    /\ \A places : At(places) \subseteq Worker /\ At(places)' \subseteq Worker
BY DEF Orphans, AckedRows, SentRows, At

(* A window stays within its limit when it accepts nothing new and no      *)
(* worker newly passes its check.                                          *)
LEMMA AllowedKept ==
    ASSUME NEW window, NEW rate \in Nat, NEW past,
           Allowed(window, rate, past),
           Orphans \subseteq Orphans',
           AckedRows(window)' \subseteq AckedRows(window),
           At(past)' \subseteq At(past)
    PROVE  Allowed(window, rate, past)'
<1>1. /\ Cardinality(AckedRows(window)) \in Nat
      /\ Cardinality(AckedRows(window)') \in Nat
      /\ Cardinality(AckedRows(window)') =< Cardinality(AckedRows(window))
  BY Counted, RowsFinite, FS_Subset
<1>2. /\ Cardinality(At(past)) \in Nat /\ Cardinality(At(past)') \in Nat
      /\ Cardinality(At(past)') =< Cardinality(At(past))
  BY Counted, WorkersFinite, FS_Subset
<1>3. /\ Cardinality(Orphans) \in Nat /\ Cardinality(Orphans') \in Nat
      /\ Cardinality(Orphans) =< Cardinality(Orphans')
  BY Counted, RowsFinite, FS_Subset
<1>4. Cardinality(Worker) \in Nat
  BY WorkersFinite
<1> QED BY <1>1, <1>2, <1>3, <1>4 DEF Allowed

(* A worker that sends uses up what its check allowed it.                  *)
LEMMA AllowedSend ==
    ASSUME NEW window, NEW rate \in Nat, NEW past, NEW r, NEW w,
           Allowed(window, rate, past),
           Orphans \subseteq Orphans',
           AckedRows(window)' \subseteq AckedRows(window) \cup {r},
           w \in At(past), At(past)' \subseteq At(past) \ {w}
    PROVE  Allowed(window, rate, past)'
<1>1. /\ Cardinality(AckedRows(window)) \in Nat
      /\ Cardinality(AckedRows(window)') \in Nat
      /\ Cardinality(AckedRows(window)') =< Cardinality(AckedRows(window)) + 1
  <2>1. IsFiniteSet(AckedRows(window)) /\ Cardinality(AckedRows(window)) \in Nat
    BY Counted, RowsFinite
  <2>2. /\ IsFiniteSet(AckedRows(window) \cup {r})
        /\ Cardinality(AckedRows(window) \cup {r}) \in Nat
        /\ Cardinality(AckedRows(window) \cup {r}) =< Cardinality(AckedRows(window)) + 1
    <3>1. IsFiniteSet({r}) /\ Cardinality({r}) = 1
      BY FS_Singleton
    <3> QED BY <2>1, <3>1, UnionAtMost
  <2>3. /\ IsFiniteSet(AckedRows(window)')
        /\ Cardinality(AckedRows(window)') =< Cardinality(AckedRows(window) \cup {r})
    BY <2>2, FS_Subset
  <2>4. Cardinality(AckedRows(window)') \in Nat
    BY <2>3, FS_CardinalityType
  <2> QED BY <2>1, <2>2, <2>3, <2>4
<1>2. /\ Cardinality(At(past)) \in Nat /\ Cardinality(At(past)') \in Nat
      /\ Cardinality(At(past)') =< Cardinality(At(past)) - 1
  <2>1. IsFiniteSet(At(past)) /\ Cardinality(At(past)) \in Nat
    BY Counted, WorkersFinite
  <2>2. /\ IsFiniteSet(At(past) \ {w})
        /\ Cardinality(At(past) \ {w}) = Cardinality(At(past)) - 1
    BY <2>1, FS_RemoveElement
  <2>3. /\ IsFiniteSet(At(past)')
        /\ Cardinality(At(past)') =< Cardinality(At(past) \ {w})
    BY <2>2, FS_Subset
  <2> QED BY <2>1, <2>2, <2>3, FS_CardinalityType
<1>3. /\ Cardinality(Orphans) \in Nat /\ Cardinality(Orphans') \in Nat
      /\ Cardinality(Orphans) =< Cardinality(Orphans')
  BY Counted, RowsFinite, FS_Subset
<1>4. Cardinality(Worker) \in Nat
  BY WorkersFinite
<1> QED BY <1>1, <1>2, <1>3, <1>4 DEF Allowed

(* What is accepted in a window is recorded in it, or an orphan, or in the *)
(* hands of a worker about to record it.                                   *)
LEMMA AcceptedOrAboutToBe ==
    ASSUME TypeOK, MailInv, RecordedLater, NEW window \in Nat
    PROVE  Cardinality(AckedRows(window))
               =< SentWithin(window) + Cardinality(Orphans) + Cardinality(At({"ok"}))
<1> DEFINE K == At({"ok"})
           H == {held[w] : w \in K}
<1>1. AckedRows(window) \subseteq (SentRows(window) \cup Orphans) \cup H
  <2> SUFFICES ASSUME NEW r \in RowId, acked[r] > 0, ackAge[r] < window, r \notin H
               PROVE  r \in SentRows(window) \/ r \in Orphans
    BY DEF AckedRows
  <2>1. state[r] \in {"sending", "sent"}
    BY DEF MailInv, AtMostOnce, TypeOK, RowState
  <2>2. CASE state[r] = "sending"
    BY <2>2 DEF Orphans, At
  <2>3. CASE state[r] = "sent"
    BY <2>3 DEF SentRows, RecordedLater, TypeOK
  <2> QED BY <2>1, <2>2, <2>3
<1>2. IsFiniteSet(K) /\ Cardinality(K) \in Nat
  BY Counted, WorkersFinite
<1>3. IsFiniteSet(H) /\ Cardinality(H) =< Cardinality(K) /\ Cardinality(H) \in Nat
  <2>1. [w \in K |-> held[w]] \in Surjection(K, H)
    BY DEF Surjection
  <2> QED BY <2>1, <1>2, FS_Surjection, FS_CardinalityType
<1>4. /\ IsFiniteSet(SentRows(window)) /\ Cardinality(SentRows(window)) \in Nat
      /\ IsFiniteSet(Orphans) /\ Cardinality(Orphans) \in Nat
      /\ Cardinality(AckedRows(window)) \in Nat
  BY Counted, RowsFinite
<1>5. /\ IsFiniteSet(SentRows(window) \cup Orphans)
      /\ Cardinality(SentRows(window) \cup Orphans) \in Nat
      /\ Cardinality(SentRows(window) \cup Orphans)
             =< Cardinality(SentRows(window)) + Cardinality(Orphans)
  BY <1>4, UnionAtMost
<1>6. /\ IsFiniteSet((SentRows(window) \cup Orphans) \cup H)
      /\ Cardinality((SentRows(window) \cup Orphans) \cup H) \in Nat
      /\ Cardinality((SentRows(window) \cup Orphans) \cup H)
             =< Cardinality(SentRows(window) \cup Orphans) + Cardinality(H)
  BY <1>3, <1>5, UnionAtMost
<1>7. Cardinality(AckedRows(window)) =< Cardinality((SentRows(window) \cup Orphans) \cup H)
  BY <1>1, <1>6, FS_Subset
<1>8. SentWithin(window) = Cardinality(SentRows(window))
  BY DEF SentWithin, SentRows
<1> HIDE DEF K, H
<1>9. Cardinality(AckedRows(window))
          =< SentWithin(window) + Cardinality(Orphans) + Cardinality(K)
  BY <1>2, <1>3, <1>4, <1>5, <1>6, <1>7, <1>8
<1> QED BY <1>9 DEF K

(* A worker that passes the check of a window, while nothing is accepted:  *)
(* whoever may send now is not about to record.                            *)
LEMMA AllowedCheck ==
    ASSUME TypeOK, MailInv, RecordedLater,
           NEW window \in Nat, NEW rate \in Nat, NEW past,
           SentWithin(window) < rate,
           Orphans \subseteq Orphans',
           AckedRows(window)' \subseteq AckedRows(window),
           At(past)' \cap At({"ok"}) = {}
    PROVE  Allowed(window, rate, past)'
<1>1. /\ Cardinality(AckedRows(window)) \in Nat
      /\ Cardinality(AckedRows(window)') \in Nat
      /\ Cardinality(AckedRows(window)') =< Cardinality(AckedRows(window))
      /\ SentWithin(window) \in Nat
  BY Counted, RowsFinite, FS_Subset DEF SentWithin, SentRows
<1>2. /\ IsFiniteSet(At(past)') /\ Cardinality(At(past)') \in Nat
      /\ IsFiniteSet(At({"ok"})) /\ Cardinality(At({"ok"})) \in Nat
      /\ IsFiniteSet(Worker) /\ Cardinality(Worker) \in Nat
  BY Counted, WorkersFinite
<1>3. Cardinality(At(past)') + Cardinality(At({"ok"})) =< Cardinality(Worker)
  <2>1. Cardinality(At(past)' \cup At({"ok"}))
            = Cardinality(At(past)') + Cardinality(At({"ok"})) - Cardinality({})
    BY <1>2, FS_Union
  <2>2. Cardinality(At(past)' \cup At({"ok"})) =< Cardinality(Worker)
    BY <1>2, Counted, FS_Subset
  <2>3. Cardinality(At(past)' \cup At({"ok"})) \in Nat
    BY <1>2, FS_Union, FS_CardinalityType
  <2> QED BY <2>1, <2>2, <2>3, <1>2, FS_EmptySet
<1>4. /\ Cardinality(Orphans) \in Nat /\ Cardinality(Orphans') \in Nat
      /\ Cardinality(Orphans) =< Cardinality(Orphans')
  BY Counted, RowsFinite, FS_Subset
<1>5. Cardinality(AckedRows(window))
          =< SentWithin(window) + Cardinality(Orphans) + Cardinality(At({"ok"}))
  BY AcceptedOrAboutToBe
<1> QED BY <1>1, <1>2, <1>3, <1>4, <1>5 DEF Allowed

-----------------------------------------------------------------------------
(* The rate invariant, step by step.                                       *)

(* A step that gives an accepted row nobody and takes nobody from it.      *)
LEMMA OrphansSame ==
    ASSUME UNCHANGED acked,
           \A r \in RowId : acked[r] > 0 => state'[r] = state[r],
           \A w \in Worker : pc'[w] = "ok" <=> pc[w] = "ok",
           \A w \in Worker : pc[w] = "ok" => held'[w] = held[w]
    PROVE  Orphans' = Orphans
BY DEF Orphans

LEMMA Natural ==
    ASSUME TypeOK
    PROVE  /\ faults \in Nat /\ crashes \in Nat
           /\ RatePerMinute \in Nat /\ RatePerDay \in Nat
           /\ Minute \in Nat /\ Day \in Nat /\ Minute =< Day
BY MailAssumption DEF TypeOK

(* A step that makes no orphan keeps the account of the orphans.           *)
LEMMA PaidKept ==
    ASSUME TypeOK, OrphansPaid, Orphans' \subseteq Orphans,
           faults' \in Nat, faults' >= faults, UNCHANGED crashes
    PROVE  OrphansPaid'
<1>1. /\ Cardinality(Orphans) \in Nat /\ Cardinality(Orphans') \in Nat
      /\ Cardinality(Orphans') =< Cardinality(Orphans)
  BY Counted, RowsFinite, FS_Subset
<1> QED BY <1>1, Natural DEF OrphansPaid

(* Steps of callers, of the other handlers, and of the link.               *)
LEMMA OutsideRate ==
    ASSUME TypeOK, MailInv, RateInv,
           \/ \E c \in Call : EnqueueCheck(c) \/ EnqueueInsert(c)
           \/ \E a \in Rcpt : SetUnsubscribed(a) \/ SetBounced(a)
           \/ LinkDown \/ LinkUp
    PROVE  RateInv'
<1>1. /\ UNCHANGED <<acked, ackAge, pc, held, again, crashes, sentAge>>
      /\ Fault \/ UNCHANGED faults
  BY DEF EnqueueCheck, EnqueueInsert, InsertRow, SetUnsubscribed, SetBounced,
         LinkDown, LinkUp, table, local, smtp
<1>2. faults' \in Nat /\ faults' >= faults
  BY <1>1, FaultGrows
<1>3. \A r \in RowId : acked[r] > 0 \/ state'[r] = "sent" => state'[r] = state[r]
  <2>1. CASE UNCHANGED state
    BY <2>1
  <2>2. ASSUME NEW c \in Call, InsertRow(c)
        PROVE  \A r \in RowId : acked[r] > 0 \/ state'[r] = "sent" => state'[r] = state[r]
    <3>1. nextId \in RowId /\ acked[nextId] = 0
      BY <2>2, MailAssumption DEF InsertRow, MailInv, FreshRows, AtMostOnce, RowId
    <3> QED BY <2>2, <3>1 DEF InsertRow, TypeOK
  <2> QED BY <2>1, <2>2
          DEF EnqueueCheck, EnqueueInsert, SetUnsubscribed, SetBounced,
              LinkDown, LinkUp, table
<1>4. Orphans' = Orphans
  BY <1>1, <1>3, OrphansSame
<1>5. /\ \A window : AckedRows(window)' = AckedRows(window)
      /\ \A past : At(past)' = At(past)
  BY <1>1 DEF AckedRows, At
<1>6. RecordedLater'
  BY <1>1, <1>3 DEF RateInv, RecordedLater
<1>7. OrphansPaid'
  BY <1>1, <1>2, <1>4, PaidKept DEF RateInv
<1>8. Allowed(Minute, RatePerMinute, PastMinute)' /\ Allowed(Day, RatePerDay, PastDay)'
  BY <1>4, <1>5, Natural, AllowedKept DEF RateInv
<1> QED BY <1>6, <1>7, <1>8 DEF RateInv

(* Time only takes rows out of a window, and ages a record no faster than  *)
(* the mail it records.                                                    *)
LEMMA TickRate ==
    ASSUME TypeOK, MailInv, RateInv, Tick
    PROVE  RateInv'
<1>1. UNCHANGED <<state, acked, pc, held, again, faults, crashes>>
  BY DEF Tick, local
<1>2. \A r \in RowId : sentAge'[r] = Smaller(sentAge[r] + 1, Day)
                       /\ ackAge'[r] = Smaller(ackAge[r] + 1, Day)
  BY DEF Tick
<1>3. Orphans' = Orphans
  BY <1>1, OrphansSame
<1>4. \A past : At(past)' = At(past)
  BY <1>1 DEF At
<1>5. \A window \in Nat : window =< Day => AckedRows(window)' \subseteq AckedRows(window)
  BY <1>1, <1>2, Natural DEF AckedRows, Smaller, TypeOK
<1>6. RecordedLater'
  BY <1>1, <1>2, Natural DEF RateInv, RecordedLater, Smaller, TypeOK
<1>7. OrphansPaid'
  BY <1>1, <1>3, Natural, PaidKept DEF RateInv
<1>8. AckedRows(Minute)' \subseteq AckedRows(Minute) /\ AckedRows(Day)' \subseteq AckedRows(Day)
  BY <1>5, Natural
<1>9. Allowed(Minute, RatePerMinute, PastMinute)' /\ Allowed(Day, RatePerDay, PastDay)'
  BY <1>3, <1>4, <1>8, Natural, AllowedKept DEF RateInv
<1> QED BY <1>6, <1>7, <1>9 DEF RateInv

(* The checks, a tick that throws, the claim and the bounce check: nothing *)
(* is accepted or recorded, and no worker comes to or leaves "ok".         *)
LEMMA BeforeSendRate ==
    ASSUME TypeOK, MailInv, RateInv, NEW w \in Worker,
           \/ CheckMinute(w) \/ CheckDay(w) \/ TickThrows(w) \/ Claim(w)
           \/ CheckBounced(w)
    PROVE  RateInv'
<1>1. /\ UNCHANGED <<acked, ackAge, crashes, sentAge>>
      /\ Fault \/ UNCHANGED faults
  BY DEF CheckMinute, CheckDay, TickThrows, Claim, CheckBounced, TakeRow, table, smtp
<1>2. faults' \in Nat /\ faults' >= faults
  BY <1>1, FaultGrows
<1>3. /\ pc[w] \notin Marking /\ again[w] = FALSE
      /\ pc'[w] # "ok"
      /\ \A v \in Worker \ {w} : pc'[v] = pc[v] /\ held'[v] = held[v] /\ again'[v] = again[v]
      /\ again'[w] = FALSE
  <2>1. pc[w] \notin Marking
    BY DEF CheckMinute, CheckDay, TickThrows, Claim, CheckBounced, Marking
  <2>2. again[w] = FALSE
    BY <2>1 DEF MailInv, HolderInv, TypeOK
  <2>3. pc'[w] # "ok" /\ \A v \in Worker \ {w} : pc'[v] = pc[v]
    BY DEF CheckMinute, CheckDay, TickThrows, Claim, CheckBounced, Goto, TypeOK
  <2>4. /\ \A v \in Worker \ {w} : held'[v] = held[v] /\ again'[v] = again[v]
        /\ again'[w] = FALSE
    BY <2>2 DEF CheckMinute, CheckDay, TickThrows, Claim, CheckBounced, TypeOK
  <2> QED BY <2>1, <2>2, <2>3, <2>4
<1>4. \A r \in RowId : acked[r] > 0 \/ state'[r] = "sent" => state'[r] = state[r]
  <2>1. CASE UNCHANGED state
    BY <2>1
  <2>2. ASSUME NEW r \in RowId, FirstDue(r), TakeRow(r)
        PROVE  \A s \in RowId : acked[s] > 0 \/ state'[s] = "sent" => state'[s] = state[s]
    <3>1. state[r] = "queued" /\ acked[r] = 0 /\ state' = [state EXCEPT ![r] = "sending"]
      BY <2>2 DEF FirstDue, DueRows, TakeRow, MailInv, AtMostOnce
    <3> QED BY <3>1 DEF TypeOK
  <2> QED BY <2>1, <2>2
          DEF CheckMinute, CheckDay, TickThrows, Claim, CheckBounced, table
<1>5. Orphans' = Orphans
  <2>1. \A v \in Worker : pc'[v] = "ok" <=> pc[v] = "ok"
    BY <1>3 DEF Marking
  <2>2. \A v \in Worker : pc[v] = "ok" => held'[v] = held[v]
    BY <1>3 DEF Marking
  <2> QED BY <1>1, <1>4, <2>1, <2>2, OrphansSame
<1>6. \A window : AckedRows(window)' = AckedRows(window)
  BY <1>1 DEF AckedRows
<1>7. RecordedLater'
  BY <1>1, <1>4 DEF RateInv, RecordedLater
<1>8. OrphansPaid'
  BY <1>1, <1>2, <1>5, PaidKept DEF RateInv
<1>9. Allowed(Minute, RatePerMinute, PastMinute)'
  <2>1. CASE CheckMinute(w)
    <3>1. At(PastMinute)' \cap At({"ok"}) = {}
      BY <1>3 DEF At, PastMinute, Marking
    <3>2. SentWithin(Minute) < RatePerMinute
      BY <2>1 DEF CheckMinute
    <3> QED BY <1>5, <1>6, <3>1, <3>2, Natural, AllowedCheck DEF RateInv
  <2>2. CASE CheckDay(w) \/ TickThrows(w) \/ Claim(w) \/ CheckBounced(w)
    <3>1. pc[w] \in PastMinute
      BY <2>2 DEF CheckDay, TickThrows, Claim, CheckBounced, PastMinute
    <3>2. At(PastMinute)' \subseteq At(PastMinute)
      BY <1>3, <3>1 DEF At
    <3> QED BY <1>5, <1>6, <3>2, Natural, AllowedKept DEF RateInv
  <2> QED BY <2>1, <2>2
<1>10. Allowed(Day, RatePerDay, PastDay)'
  <2>1. CASE CheckDay(w) /\ SentWithin(Day) < RatePerDay
    <3>1. At(PastDay)' \cap At({"ok"}) = {}
      BY <1>3 DEF At, PastDay, Marking
    <3> QED BY <1>5, <1>6, <2>1, <3>1, Natural, AllowedCheck DEF RateInv
  <2>2. CASE \/ CheckMinute(w) \/ TickThrows(w) \/ Claim(w) \/ CheckBounced(w)
             \/ CheckDay(w) /\ ~(SentWithin(Day) < RatePerDay)
    <3>1. pc'[w] \in PastDay => pc[w] \in PastDay
      BY <2>2 DEF CheckMinute, CheckDay, TickThrows, Claim, CheckBounced, PastDay,
                  Goto, TypeOK
    <3>2. At(PastDay)' \subseteq At(PastDay)
      BY <1>3, <3>1 DEF At
    <3> QED BY <1>5, <1>6, <3>2, Natural, AllowedKept DEF RateInv
  <2> QED BY <2>1, <2>2
<1> QED BY <1>7, <1>8, <1>9, <1>10 DEF RateInv

(* The relay takes the mail of a row it has not taken before, and the      *)
(* worker that sent it is the one to record it.                            *)
LEMMA SendRate ==
    ASSUME TypeOK, MailInv, RateInv, NEW w \in Worker, Send(w)
    PROVE  RateInv'
<1> DEFINE r == held[w]
<1>1. /\ pc[w] = "send" /\ again[w] = FALSE /\ r \in RowId
      /\ state[r] = "sending" /\ acked[r] = 0
  BY DEF Send, TypeOK, MailInv, HolderInv, Marking, Holding
<1>2. UNCHANGED <<state, sentAge, held, again, faults, crashes>>
  BY DEF Send, table
<1>3. /\ pc'[w] \in Marking
      /\ \A v \in Worker \ {w} : pc'[v] = pc[v]
      /\ \A s \in RowId \ {r} : acked'[s] = acked[s] /\ ackAge'[s] = ackAge[s]
      /\ acked'[r] > 0 => pc'[w] = "ok"
  BY <1>1 DEF Send, Goto, TypeOK, Marking
<1>4. Orphans' = Orphans
  <2>1. r \notin Orphans /\ r \notin Orphans'
    BY <1>1, <1>2, <1>3 DEF Orphans
  <2>2. ASSUME NEW s \in RowId \ {r}
        PROVE  s \in Orphans' <=> s \in Orphans
    <3>1. \A v \in Worker : (pc'[v] = "ok" /\ held'[v] = s) <=> (pc[v] = "ok" /\ held[v] = s)
      BY <1>1, <1>2, <1>3
    <3> QED BY <1>2, <1>3, <3>1 DEF Orphans
  <2> QED BY <2>1, <2>2, Counted
<1>6. \A window : AckedRows(window)' \subseteq AckedRows(window) \cup {r}
  BY <1>3 DEF AckedRows
<1>7. /\ w \in At(PastMinute) /\ At(PastMinute)' \subseteq At(PastMinute) \ {w}
      /\ w \in At(PastDay) /\ At(PastDay)' \subseteq At(PastDay) \ {w}
  BY <1>1, <1>3 DEF At, PastMinute, PastDay, Marking
<1>8. RecordedLater'
  BY <1>1, <1>2, <1>3 DEF RateInv, RecordedLater
<1>9. OrphansPaid'
  BY <1>2, <1>4, Natural, PaidKept DEF RateInv
<1>10. Allowed(Minute, RatePerMinute, PastMinute)'
  BY <1>4, <1>6, <1>7, Natural, AllowedSend DEF RateInv
<1>11. Allowed(Day, RatePerDay, PastDay)'
  BY <1>4, <1>6, <1>7, Natural, AllowedSend DEF RateInv
<1> QED BY <1>8, <1>9, <1>10, <1>11 DEF RateInv

(* A worker that lets go of its row may leave an orphan behind, and no     *)
(* other row becomes one or ceases to be one.                              *)
LEMMA OrphansGrow ==
    ASSUME TypeOK, MailInv, NEW w \in Worker, UNCHANGED <<acked, held>>,
           \A v \in Worker \ {w} : pc'[v] = pc[v],
           pc'[w] = "ok" => pc[w] = "ok",
           \A r \in RowId : (pc[w] \in Marking /\ r = held[w]) \/ state'[r] = state[r]
    PROVE  /\ Orphans \subseteq Orphans'
           /\ Orphans' \subseteq Orphans \cup {held[w]}
<1>1. \A v \in Worker : pc'[v] = "ok" => pc[v] = "ok"
  OBVIOUS
<1>2. ASSUME NEW r \in Orphans
      PROVE  r \in Orphans'
  <2>1. r \in RowId /\ acked[r] > 0 /\ state[r] = "sending"
        /\ \A v \in Worker : ~(pc[v] = "ok" /\ held[v] = r)
    BY DEF Orphans
  <2>2. ~(pc[w] \in Marking /\ r = held[w])
    BY <2>1 DEF MailInv, HolderInv, Marking, Holding
  <2> QED BY <1>1, <2>1, <2>2 DEF Orphans
<1>3. ASSUME NEW r \in Orphans', r # held[w]
      PROVE  r \in Orphans
  BY <1>3 DEF Orphans
<1> QED BY <1>2, <1>3

(* The account when one row may have become an orphan.                     *)
LEMMA PaidGrow ==
    ASSUME TypeOK, OrphansPaid, NEW r, Orphans' \subseteq Orphans \cup {r},
           \/ crashes' = crashes + 1 /\ faults' = faults
           \/ crashes' = crashes /\ faults' = faults + 1
    PROVE  OrphansPaid'
<1>1. IsFiniteSet(Orphans) /\ Cardinality(Orphans) \in Nat /\ Cardinality(Orphans') \in Nat
  BY Counted, RowsFinite
<1>2. IsFiniteSet({r}) /\ Cardinality({r}) = 1
  BY FS_Singleton
<1>3. /\ IsFiniteSet(Orphans \cup {r}) /\ Cardinality(Orphans \cup {r}) \in Nat
      /\ Cardinality(Orphans \cup {r}) =< Cardinality(Orphans) + 1
  BY <1>1, <1>2, UnionAtMost
<1>4. Cardinality(Orphans') =< Cardinality(Orphans \cup {r})
  BY <1>3, FS_Subset
<1> QED BY <1>1, <1>3, <1>4, Natural DEF OrphansPaid

LEMMA CrashRate ==
    ASSUME TypeOK, MailInv, RateInv, NEW w \in Worker, Crash(w)
    PROVE  RateInv'
<1>1. /\ UNCHANGED <<state, acked, ackAge, sentAge, held, faults>>
      /\ crashes' = crashes + 1
      /\ pc'[w] = "idle" /\ again'[w] = FALSE
      /\ \A v \in Worker \ {w} : pc'[v] = pc[v] /\ again'[v] = again[v]
  BY DEF Crash, Goto, table, smtp, TypeOK
<1>2. Orphans \subseteq Orphans' /\ Orphans' \subseteq Orphans \cup {held[w]}
  BY <1>1, OrphansGrow
<1>3. /\ \A past : "idle" \notin past => At(past)' \subseteq At(past)
      /\ \A window : AckedRows(window)' = AckedRows(window)
  BY <1>1 DEF At, AckedRows
<1>4. RecordedLater'
  BY <1>1 DEF RateInv, RecordedLater
<1>5. OrphansPaid'
  BY <1>1, <1>2, PaidGrow DEF RateInv
<1>6. /\ At(PastMinute)' \subseteq At(PastMinute)
      /\ At(PastDay)' \subseteq At(PastDay)
  BY <1>3 DEF PastMinute, PastDay
<1>7. Allowed(Minute, RatePerMinute, PastMinute)' /\ Allowed(Day, RatePerDay, PastDay)'
  BY <1>2, <1>3, <1>6, Natural, AllowedKept DEF RateInv
<1> QED BY <1>4, <1>5, <1>7 DEF RateInv

(* The UPDATE that records the outcome: executed, failed and to be         *)
(* executed again, or failed for good, which may leave an orphan.          *)
LEMMA FinishRate ==
    ASSUME TypeOK, MailInv, RateInv, NEW w \in Worker, Finish(w)
    PROVE  RateInv'
<1> DEFINE r == held[w]
<1>1. /\ pc[w] \in Marking /\ r \in RowId
      /\ acked[r] = IF pc[w] = "ok" THEN 1 ELSE 0
  BY DEF Finish, Marking, Holding, TypeOK, MailInv, HolderInv
<1>2. UNCHANGED <<acked, ackAge, held, crashes>>
  BY DEF Finish, smtp
<1>3. /\ \A v \in Worker \ {w} : pc'[v] = pc[v] /\ again'[v] = again[v]
      /\ pc'[w] \in {pc[w], "idle"}
  BY DEF Finish, AfterFailedMark, Goto, TypeOK
<1>4. \A s \in RowId \ {r} : state'[s] = state[s] /\ sentAge'[s] = sentAge[s]
  BY DEF Finish, Mark, MarkSent, MarkDead, MarkTransientFailure, table, TypeOK
<1>5. state'[r] = "sent" => sentAge'[r] =< ackAge[r]
  <2>1. CASE MarkSent(r)
    BY <1>1, <2>1 DEF MarkSent, TypeOK
  <2>2. CASE MarkDead(r) \/ MarkTransientFailure(r, tries[w])
    BY <1>1, <2>2 DEF MarkDead, MarkTransientFailure, TypeOK
  <2>3. CASE UNCHANGED table
    BY <1>1, <2>3 DEF table, RateInv, RecordedLater
  <2> QED BY <2>1, <2>2, <2>3 DEF Finish, Mark
<1>6. RecordedLater'
  BY <1>2, <1>4, <1>5 DEF RateInv, RecordedLater
<1>7. Orphans \subseteq Orphans' /\ Orphans' \subseteq Orphans \cup {r}
  BY <1>1, <1>2, <1>3, <1>4, OrphansGrow
<1>8. OrphansPaid'
  <2>1. CASE Mark(w) /\ Goto(w, "idle") /\ UNCHANGED faults
    <3>1. r \notin Orphans'
      BY <1>1, <1>2, <2>1
         DEF Orphans, Mark, MarkSent, MarkDead, MarkTransientFailure, TypeOK, Marking
    <3> QED BY <1>2, <1>7, <2>1, <3>1, Natural, PaidKept DEF RateInv
  <2>2. CASE Fault
    BY <1>2, <1>7, <2>2, PaidGrow DEF RateInv, Fault
  <2> QED BY <2>1, <2>2 DEF Finish
<1>9. /\ At(PastMinute)' \subseteq At(PastMinute)
      /\ At(PastDay)' \subseteq At(PastDay)
  BY <1>1, <1>3 DEF At, PastMinute, PastDay, Marking
<1>10. \A window : AckedRows(window)' = AckedRows(window)
  BY <1>2 DEF AckedRows
<1>11. Allowed(Minute, RatePerMinute, PastMinute)' /\ Allowed(Day, RatePerDay, PastDay)'
  BY <1>7, <1>9, <1>10, Natural, AllowedKept DEF RateInv
<1> QED BY <1>6, <1>8, <1>11 DEF RateInv

LEMMA InitRate == Init => RateInv
<1> SUFFICES ASSUME Init PROVE RateInv
  OBVIOUS
<1>1. /\ Orphans = {}
      /\ AckedRows(Minute) = {} /\ AckedRows(Day) = {}
      /\ At(PastMinute) = {} /\ At(PastDay) = {}
  BY DEF Init, Orphans, AckedRows, At, PastMinute, PastDay
<1>2. RecordedLater
  BY DEF Init, RecordedLater
<1>3. /\ Cardinality(Orphans) = 0
      /\ Cardinality(AckedRows(Minute)) = 0 /\ Cardinality(AckedRows(Day)) = 0
      /\ Cardinality(At(PastMinute)) = 0 /\ Cardinality(At(PastDay)) = 0
  BY <1>1, FS_EmptySet
<1>4. Cardinality(Worker) \in Nat /\ Cardinality(Worker) # 0
  BY WorkerAssumption, FS_EmptySet, FS_CardinalityType
<1>5. RatePerMinute \in Nat /\ RatePerDay \in Nat
  BY MailAssumption
<1>6. OrphansPaid
  BY <1>3 DEF Init, OrphansPaid
<1>7. Allowed(Minute, RatePerMinute, PastMinute) /\ Allowed(Day, RatePerDay, PastDay)
  BY <1>3, <1>4, <1>5 DEF Allowed
<1> QED BY <1>2, <1>6, <1>7 DEF RateInv

LEMMA NextRate ==
    ASSUME TypeOK, MailInv, RateInv, [Next]_vars
    PROVE  RateInv'
<1>1. CASE UNCHANGED vars
  BY <1>1 DEF vars, table, local, smtp, RateInv, RecordedLater, OrphansPaid, Allowed,
              Orphans, AckedRows, At
<1>2. ASSUME NEW w \in Worker, WorkerStep(w) \/ TickThrows(w) \/ Crash(w)
      PROVE  RateInv'
  BY <1>2, BeforeSendRate, SendRate, FinishRate, CrashRate DEF WorkerStep
<1> QED BY <1>1, <1>2, OutsideRate, TickRate DEF Next

LEMMA WithinLimit ==
    ASSUME TypeOK, OrphansPaid, NEW window, NEW rate \in Nat, NEW past,
           Allowed(window, rate, past)
    PROVE  AckedWithin(window) =< rate + Uncounted
<1> DEFINE Late == {i \in DOMAIN unheard : unheard[i].age < window}
<1>1. /\ Cardinality(AckedRows(window)) \in Nat /\ Cardinality(At(past)) \in Nat
      /\ Cardinality(Orphans) \in Nat /\ Cardinality(Worker) \in Nat
  BY Counted, RowsFinite, WorkersFinite
<1>2. Cardinality(Orphans) =< crashes + faults
  BY DEF OrphansPaid
<1>3. AckedWithin(window) = Cardinality(AckedRows(window)) + Cardinality(Late)
  BY DEF AckedWithin, AckedRows
<1>4. Cardinality(Late) \in Nat /\ Cardinality(Late) =< Len(unheard)
  BY UnheardFinite
<1>5. Len(unheard) \in Nat
  BY DEF TypeOK, UnheardOK
<1> HIDE DEF Late
<1> QED BY <1>1, <1>2, <1>3, <1>4, <1>5, Natural DEF Allowed, Uncounted

(* However many workers drain the queue, and whatever crashes and fails,   *)
(* the relay accepts no more mails within a minute or a day than the limit *)
(* and what recentSentCount cannot see: one mail for every crash, every    *)
(* statement that failed and every answer that was lost, and one in the    *)
(* hands of each other worker.                                             *)
THEOREM RateWithinLimits ==
    ASSUME Unduplicated
    PROVE  Spec => []RateRespected
<1>1. TypeOK /\ MailInv /\ [Next]_vars => MailInv'
  BY NextMailInv
<1>2. TypeOK /\ MailInv /\ RateInv /\ [Next]_vars => RateInv'
  BY NextRate
<1>3. TypeOK /\ RateInv => RateRespected
  BY WithinLimit, Natural DEF RateInv, RateRespected
<1> QED BY InitMailInv, InitRate, TypeCorrect, <1>1, <1>2, <1>3, PTL DEF Spec

-----------------------------------------------------------------------------
(* The wait of a requeued row.  As long as every statement is executed     *)
(* once, a worker's copy of the attempts is the table's; and the ranks     *)
(* that due rows have among each other never rise while time passes, which *)
(* is what keeps a minute from looking like a failure.                     *)
Later(r) == {s \in RowId : state[s] = "queued" /\ due[s] =< 0 /\ due[s] > due[r]}

Ranked    == \A r \in RowId :
    state[r] = "queued" /\ due[r] =< 0 => -due[r] =< Cardinality(Later(r))
TriesRead == \A w \in Worker : pc[w] \in Holding => tries[w] = attempts[held[w]]
FreshDue  == \A r \in RowId : r >= nextId => due[r] = 0

DelayInv == Ranked /\ TriesRead /\ FreshDue

DelayStep == \A r \in RowId :
    state'[r] = "queued" /\ due'[r] > due[r] => due'[r] = Delay(attempts'[r])

(* The counter saturates where the table ends.                             *)
LEMMA DelayOfBump ==
    ASSUME NEW n \in Nat
    PROVE  Delay(Bump(n)) = Delay(n + 1)
<1>1. Len(Backoff) \in Nat /\ Len(Backoff) > 0
  BY MailAssumption
<1> QED BY <1>1 DEF Delay, Bump, Smaller

(* Steps that leave the queue alone and give no worker a row.              *)
LEMMA FrameDelay ==
    ASSUME TypeOK, DelayInv, UNCHANGED <<state, attempts, due, nextId, held, tries>>,
           \A w \in Worker : pc'[w] \in Holding => pc[w] \in Holding
    PROVE  DelayInv' /\ DelayStep
<1>1. \A r : Later(r)' = Later(r)
  BY DEF Later
<1>2. Ranked'
  BY <1>1 DEF DelayInv, Ranked
<1>3. TriesRead' /\ FreshDue'
  BY DEF DelayInv, TriesRead, FreshDue
<1>4. DelayStep
  BY DEF DelayStep, TypeOK
<1> QED BY <1>2, <1>3, <1>4 DEF DelayInv

(* A new row is due at once, behind the others.                            *)
LEMMA InsertDelay ==
    ASSUME TypeOK, MailInv, DelayInv, NEW c \in Call, InsertRow(c),
           UNCHANGED <<pc, held, tries>>
    PROVE  DelayInv' /\ DelayStep
<1>1. nextId \in RowId /\ state[nextId] = "none" /\ due[nextId] = 0 /\ nextId \in Nat
  BY MailAssumption DEF InsertRow, MailInv, FreshRows, DelayInv, FreshDue, RowId
<1>2. /\ \A r \in RowId : due'[r] = due[r]
      /\ \A r \in RowId : state'[r] = IF r = nextId THEN "queued" ELSE state[r]
      /\ nextId' = nextId + 1 /\ attempts' = attempts
  BY <1>1 DEF InsertRow, TypeOK
<1>3. DelayStep
  BY <1>2 DEF DelayStep, TypeOK
<1>4. Ranked'
  <2> SUFFICES ASSUME NEW r \in RowId, state'[r] = "queued", due'[r] =< 0
               PROVE  -due'[r] =< Cardinality(Later(r)')
    BY DEF Ranked
  <2>1. Later(r) \subseteq Later(r)'
    BY <1>2 DEF Later
  <2>2. /\ Cardinality(Later(r)') \in Nat /\ Cardinality(Later(r)) \in Nat
        /\ Cardinality(Later(r)) =< Cardinality(Later(r)')
    <3>1. Later(r)' \subseteq RowId
      BY DEF Later
    <3> QED BY <2>1, <3>1, RowsFinite, FS_Subset
  <2>3. CASE r = nextId
    BY <1>1, <1>2, <2>2, <2>3
  <2>4. CASE r # nextId
    <3>1. -due[r] =< Cardinality(Later(r)) /\ due[r] \in Int
      BY <1>2, <2>4 DEF DelayInv, Ranked, TypeOK
    <3> QED BY <1>2, <2>2, <3>1
  <2> QED BY <2>3, <2>4
<1>5. TriesRead'
  BY <1>2 DEF DelayInv, TriesRead
<1>6. FreshDue'
  BY <1>1, <1>2 DEF DelayInv, FreshDue, RowId
<1> QED BY <1>3, <1>4, <1>5, <1>6 DEF DelayInv

(* The row that is claimed is the first, so that nobody counts it.         *)
LEMMA ClaimDelay ==
    ASSUME TypeOK, MailInv, DelayInv, NEW w \in Worker, Claim(w)
    PROVE  DelayInv' /\ DelayStep
<1>1. CASE Goto(w, "idle") /\ UNCHANGED <<table, held, tries>>
  <2>1. \A v \in Worker : pc'[v] \in Holding => pc[v] \in Holding
    BY <1>1 DEF Goto, TypeOK, Holding
  <2> QED BY <1>1, <2>1, FrameDelay DEF table
<1>2. CASE ~ (Goto(w, "idle") /\ UNCHANGED <<table, held, tries>>)
  <2>1. PICK q \in RowId :
            /\ FirstDue(q) /\ TakeRow(q)
            /\ \/ /\ Goto(w, "check")
                  /\ held' = [held EXCEPT ![w] = q]
                  /\ tries' = [tries EXCEPT ![w] = attempts[q]]
               \/ Goto(w, "idle") /\ UNCHANGED <<held, tries>>
    BY <1>2 DEF Claim
  <2>2. /\ \A r \in RowId : due'[r] = IF r = q THEN 0 ELSE due[r]
        /\ \A r \in RowId : state'[r] = IF r = q THEN "sending" ELSE state[r]
        /\ nextId' = nextId /\ attempts' = attempts
    BY <2>1 DEF TakeRow, TypeOK
  <2>3. DelayStep
    <3> SUFFICES ASSUME NEW r \in RowId, state'[r] = "queued", due'[r] > due[r]
                 PROVE  FALSE
      BY DEF DelayStep
    <3> QED BY <2>2 DEF TypeOK
  <2>4. Ranked'
    <3> SUFFICES ASSUME NEW r \in RowId, state'[r] = "queued", due'[r] =< 0
                 PROVE  -due'[r] =< Cardinality(Later(r)')
      BY DEF Ranked
    <3>1. r # q /\ due'[r] = due[r] /\ state[r] = "queued"
      BY <2>2
    <3>2. r \in DueRows
      BY <3>1 DEF DueRows
    <3>3. due[q] =< due[r] /\ due[q] \in Int /\ due[r] \in Int
      BY <2>1, <3>2 DEF FirstDue, TypeOK
    <3>4. Later(r)' = Later(r)
      BY <2>2, <3>1, <3>3 DEF Later
    <3> QED BY <3>1, <3>4 DEF DelayInv, Ranked
  <2>5. TriesRead'
    <3> SUFFICES ASSUME NEW v \in Worker, pc'[v] \in Holding
                 PROVE  tries'[v] = attempts[held'[v]]
      BY <2>2 DEF TriesRead
    <3>1. CASE v = w
      BY <2>1, <3>1 DEF Goto, TypeOK, Holding
    <3>2. CASE v # w
      BY <2>1, <3>2 DEF Goto, TypeOK, DelayInv, TriesRead
    <3> QED BY <3>1, <3>2
  <2>6. FreshDue'
    BY <2>2 DEF DelayInv, FreshDue
  <2> QED BY <2>3, <2>4, <2>5, <2>6 DEF DelayInv
<1> QED BY <1>1, <1>2

(* The three UPDATEs, executed once.                                       *)
LEMMA FinishDelay ==
    ASSUME TypeOK, MailInv, DelayInv, MaxFaults = 0, NEW w \in Worker, Finish(w)
    PROVE  DelayInv' /\ DelayStep
<1> DEFINE h == held[w]
<1>1. ~ Fault /\ faults = 0
  BY DEF Fault, TypeOK
<1>2. /\ pc[w] \in Marking /\ Mark(w) /\ Goto(w, "idle")
      /\ UNCHANGED <<held, tries>>
  BY <1>1 DEF Finish
<1>3. /\ h \in RowId /\ state[h] = "sending" /\ h < nextId
      /\ \A v \in Worker \ {w} : pc[v] \in Holding => held[v] # h
  <2>1. pc[w] \in Holding /\ ~ again[w]
    BY <1>1, <1>2 DEF Marking, Holding, MailInv, HolderInv
  <2>2. h \in RowId /\ state[h] = "sending"
    BY <2>1 DEF TypeOK, MailInv, ClaimExclusive
  <2>3. h < nextId
    BY <2>2 DEF MailInv, FreshRows, RowId, TypeOK
  <2> QED BY <2>1, <2>2, <2>3 DEF MailInv, ClaimExclusive
<1>4. tries[w] = attempts[h] /\ attempts[h] \in Nat
  BY <1>2, <1>3 DEF DelayInv, TriesRead, Marking, Holding, TypeOK
<1>5. /\ \A r \in RowId : r # h => /\ state'[r] = state[r] /\ due'[r] = due[r]
                                   /\ attempts'[r] = attempts[r]
      /\ attempts'[h] = Bump(attempts[h]) /\ nextId' = nextId
      /\ \/ state'[h] # "queued" /\ due'[h] = due[h]
         \/ state'[h] = "queued" /\ due'[h] = Delay(tries[w] + 1)
  BY <1>2, <1>3 DEF Mark, MarkSent, MarkDead, MarkTransientFailure, TypeOK
<1> HIDE DEF h
<1>6. Delay(tries[w] + 1) = Delay(attempts'[h]) /\ Delay(tries[w] + 1) \in Nat \ {0}
  BY <1>4, <1>5, DelayOfBump, DelayType
<1>7. DelayStep
  <2> SUFFICES ASSUME NEW r \in RowId, state'[r] = "queued", due'[r] > due[r]
               PROVE  due'[r] = Delay(attempts'[r])
    BY DEF DelayStep
  <2>1. CASE r = h
    BY <1>5, <1>6, <2>1
  <2>2. CASE r # h
    BY <1>5, <2>2 DEF TypeOK
  <2> QED BY <2>1, <2>2
<1>8. Ranked'
  <2> SUFFICES ASSUME NEW r \in RowId, state'[r] = "queued", due'[r] =< 0
               PROVE  -due'[r] =< Cardinality(Later(r)')
    BY DEF Ranked
  <2>1. r # h
    BY <1>5, <1>6
  <2>2. Later(r)' = Later(r)
    <3> SUFFICES ASSUME NEW s \in RowId
                 PROVE  s \in Later(r)' <=> s \in Later(r)
      BY DEF Later
    <3>1. CASE s = h
      <4>1. s \notin Later(r)
        BY <1>3, <3>1 DEF Later
      <4>2. s \notin Later(r)'
        BY <1>5, <1>6, <3>1 DEF Later
      <4> QED BY <4>1, <4>2
    <3>2. CASE s # h
      BY <1>5, <2>1, <3>2 DEF Later
    <3> QED BY <3>1, <3>2
  <2> QED BY <1>5, <2>1, <2>2 DEF DelayInv, Ranked
<1>9. TriesRead'
  <2> SUFFICES ASSUME NEW v \in Worker, pc'[v] \in Holding
               PROVE  tries'[v] = attempts'[held'[v]]
    BY DEF TriesRead
  <2>1. v # w /\ pc[v] \in Holding
    BY <1>2 DEF Goto, TypeOK, Holding
  <2>2. held[v] \in RowId /\ held[v] # h
    BY <1>3, <2>1 DEF TypeOK
  <2> QED BY <1>2, <1>5, <2>1, <2>2 DEF DelayInv, TriesRead
<1>10. FreshDue'
  BY <1>3, <1>5 DEF DelayInv, FreshDue, RowId, TypeOK
<1> QED BY <1>7, <1>8, <1>9, <1>10 DEF DelayInv

(* A minute passes: the rows keep their order, and the more rows are ahead *)
(* of a due row the more so.                                               *)
LEMMA TickDelay ==
    ASSUME TypeOK, MailInv, DelayInv, Tick
    PROVE  DelayInv' /\ DelayStep
<1> DEFINE d == [r \in RowId |-> IF state[r] = "queued" THEN due[r] - 1 ELSE due[r]]
           overdue == {r \in RowId : state[r] = "queued" /\ d[r] =< 0}
           Ahead(r) == {s \in overdue : d[s] > d[r]}
<1>1. /\ UNCHANGED <<state, attempts, nextId, pc, held, tries>>
      /\ due' = Normalised(d)
  BY DEF Tick, local
<1>2. \A r \in RowId : /\ due[r] \in Int
                       /\ d[r] = IF state[r] = "queued" THEN due[r] - 1 ELSE due[r]
  BY DEF TypeOK
<1>3. \A r \in RowId : due'[r] = IF r \in overdue THEN -Cardinality(Ahead(r)) ELSE d[r]
  BY <1>1 DEF Normalised
<1>4. \A r \in overdue : r \in RowId /\ state[r] = "queued" /\ d[r] =< 0
  OBVIOUS
<1>5. \A r \in RowId : state[r] = "queued" /\ r \notin overdue => d[r] > 0
  BY <1>2
<1>6. \A r \in RowId : Cardinality(Ahead(r)) \in Nat /\ IsFiniteSet(Ahead(r))
  BY RowsFinite
<1>7. \A r \in RowId : \A s : s \in Ahead(r) <=> s \in overdue /\ d[s] > d[r]
  OBVIOUS
<1>8. \A r, s \in RowId : s \in overdue /\ d[s] > d[r] =>
          Cardinality(Ahead(s)) < Cardinality(Ahead(r))
  <2> SUFFICES ASSUME NEW r \in RowId, NEW s \in RowId, s \in overdue, d[s] > d[r]
               PROVE  Cardinality(Ahead(s)) < Cardinality(Ahead(r))
    OBVIOUS
  <2>1. Ahead(s) \subseteq Ahead(r)
    BY <1>2
  <2>2. s \in Ahead(r) /\ s \notin Ahead(s)
    BY <1>2
  <2>3. /\ Cardinality(Ahead(s)) =< Cardinality(Ahead(r))
        /\ Cardinality(Ahead(s)) # Cardinality(Ahead(r))
    BY <1>6, <2>1, <2>2, FS_Subset
  <2> HIDE DEF Ahead
  <2> QED BY <1>6, <2>3
<1>9. \A r \in overdue : due[r] =< 0 => -due[r] =< Cardinality(Ahead(r))
  <2> SUFFICES ASSUME NEW r \in overdue, due[r] =< 0
               PROVE  -due[r] =< Cardinality(Ahead(r))
    OBVIOUS
  <2>1. -due[r] =< Cardinality(Later(r)) /\ r \in RowId /\ due[r] \in Int
    BY <1>2 DEF DelayInv, Ranked
  <2>2. Later(r) \subseteq Ahead(r)
    BY <1>2, <2>1 DEF Later
  <2>3. Cardinality(Later(r)) =< Cardinality(Ahead(r)) /\ Cardinality(Later(r)) \in Nat
    BY <1>6, <2>1, <2>2, FS_Subset, FS_CardinalityType
  <2> HIDE DEF Ahead
  <2> QED BY <1>6, <2>1, <2>3
<1> HIDE DEF Ahead, overdue, d
<1>10. DelayStep
  <2> SUFFICES ASSUME NEW r \in RowId, state'[r] = "queued", due'[r] > due[r]
               PROVE  FALSE
    BY DEF DelayStep
  <2>1. state[r] = "queued" /\ d[r] = due[r] - 1 /\ due[r] \in Int
    BY <1>1, <1>2
  <2>2. CASE r \in overdue
    <3>1. due'[r] = -Cardinality(Ahead(r)) /\ Cardinality(Ahead(r)) \in Nat /\ d[r] =< 0
      BY <1>3, <1>4, <1>6, <2>2
    <3>2. CASE due[r] =< 0
      BY <1>9, <2>1, <2>2, <3>1, <3>2
    <3>3. CASE due[r] > 0
      BY <2>1, <3>1, <3>3
    <3> QED BY <2>1, <3>2, <3>3
  <2>3. CASE r \notin overdue
    BY <1>3, <2>1, <2>3
  <2> QED BY <2>2, <2>3
<1>11. Ranked'
  <2> SUFFICES ASSUME NEW r \in RowId, state'[r] = "queued", due'[r] =< 0
               PROVE  -due'[r] =< Cardinality(Later(r)')
    BY DEF Ranked
  <2>1. r \in overdue
    <3> SUFFICES ASSUME r \notin overdue
                 PROVE  FALSE
      OBVIOUS
    <3>1. due'[r] = d[r] /\ d[r] > 0 /\ d[r] \in Int
      BY <1>1, <1>2, <1>3, <1>5
    <3> QED BY <3>1
  <2>2. Ahead(r) \subseteq Later(r)'
    <3> SUFFICES ASSUME NEW s \in Ahead(r)
                 PROVE  s \in Later(r)'
      OBVIOUS
    <3>1. s \in overdue /\ d[s] > d[r] /\ s \in RowId /\ state[s] = "queued"
      BY <1>4, <1>7
    <3>2. /\ due'[s] = -Cardinality(Ahead(s)) /\ due'[r] = -Cardinality(Ahead(r))
          /\ Cardinality(Ahead(s)) < Cardinality(Ahead(r))
      BY <1>3, <1>8, <2>1, <3>1
    <3>3. due'[s] =< 0 /\ due'[s] > due'[r]
      BY <1>6, <3>1, <3>2
    <3> QED BY <1>1, <3>1, <3>3 DEF Later
  <2>3. Later(r)' \subseteq RowId
    BY DEF Later
  <2>4. Cardinality(Ahead(r)) =< Cardinality(Later(r)') /\ Cardinality(Later(r)') \in Nat
    BY <2>2, <2>3, RowsFinite, FS_Subset
  <2>5. due'[r] = -Cardinality(Ahead(r)) /\ Cardinality(Ahead(r)) \in Nat
    BY <1>3, <1>6, <2>1
  <2> QED BY <2>4, <2>5
<1>12. TriesRead'
  BY <1>1 DEF DelayInv, TriesRead
<1>13. FreshDue'
  <2> SUFFICES ASSUME NEW r \in RowId, r >= nextId
               PROVE  due'[r] = 0
    BY <1>1 DEF FreshDue
  <2>1. state[r] = "none" /\ due[r] = 0
    BY DEF MailInv, FreshRows, DelayInv, FreshDue
  <2>2. r \notin overdue
    BY <1>4, <2>1
  <2> QED BY <1>2, <1>3, <2>1, <2>2
<1> QED BY <1>10, <1>11, <1>12, <1>13 DEF DelayInv

LEMMA InitDelay == Init => DelayInv
<1> SUFFICES ASSUME Init
             PROVE  DelayInv
  OBVIOUS
<1> QED BY DEF Init, DelayInv, Ranked, TriesRead, FreshDue, Holding

LEMMA NextDelay ==
    ASSUME MaxFaults = 0, TypeOK, MailInv, DelayInv, [Next]_vars
    PROVE  DelayInv' /\ [DelayStep]_vars
<1>1. CASE UNCHANGED vars
  <2>1. UNCHANGED <<state, attempts, due, nextId, held, tries, pc>>
    BY <1>1 DEF vars, table, local
  <2> QED BY <1>1, <2>1, FrameDelay
<1>2. ASSUME NEW c \in Call, EnqueueCheck(c) \/ EnqueueInsert(c)
      PROVE  DelayInv' /\ DelayStep
  <2>1. UNCHANGED <<pc, held, tries>>
    BY <1>2 DEF EnqueueCheck, EnqueueInsert, local
  <2>2. InsertRow(c) \/ UNCHANGED table
    BY <1>2 DEF EnqueueCheck, EnqueueInsert
  <2>3. CASE InsertRow(c)
    BY <2>1, <2>3, InsertDelay
  <2>4. CASE UNCHANGED table
    BY <2>1, <2>4, FrameDelay DEF table
  <2> QED BY <2>2, <2>3, <2>4
<1>3. ASSUME \/ \E a \in Rcpt : SetUnsubscribed(a) \/ SetBounced(a)
             \/ LinkDown \/ LinkUp
      PROVE  DelayInv' /\ DelayStep
  <2>1. UNCHANGED <<state, attempts, due, nextId, held, tries, pc>>
    BY <1>3 DEF SetUnsubscribed, SetBounced, LinkDown, LinkUp, table, local
  <2> QED BY <2>1, FrameDelay
<1>4. ASSUME NEW w \in Worker,
             \/ CheckMinute(w) \/ CheckDay(w) \/ CheckBounced(w) \/ Send(w)
             \/ TickThrows(w) \/ Crash(w)
      PROVE  DelayInv' /\ DelayStep
  <2>1. UNCHANGED <<state, attempts, due, nextId, held, tries>>
    BY <1>4 DEF CheckMinute, CheckDay, CheckBounced, Send, TickThrows, Crash, table
  <2>2. \A v \in Worker : pc'[v] \in Holding => pc[v] \in Holding
    BY <1>4 DEF CheckMinute, CheckDay, CheckBounced, Send, TickThrows, Crash, Goto,
                Holding, TypeOK
  <2> QED BY <2>1, <2>2, FrameDelay
<1>5. ASSUME NEW w \in Worker, Claim(w) \/ Finish(w)
      PROVE  DelayInv' /\ DelayStep
  BY <1>5, ClaimDelay, FinishDelay
<1> QED BY <1>1, <1>2, <1>3, <1>4, <1>5, TickDelay DEF Next, WorkerStep

(* backoff.ts: the wait of a row that is requeued is the table's entry for *)
(* the attempts the row has now, for every table and every number of       *)
(* workers that may die at any time, as long as no statement is executed a *)
(* second time: the counter would then be incremented twice and the delay  *)
(* not.                                                                    *)
THEOREM DelayFollowsAttempts ==
    ASSUME MaxFaults = 0
    PROVE  Spec => RequeueDelay
<1>1. TypeOK /\ MailInv /\ [Next]_vars => MailInv'
  BY NextMailInv DEF Unduplicated
<1>2. TypeOK /\ MailInv /\ DelayInv /\ [Next]_vars => DelayInv' /\ [DelayStep]_vars
  BY NextDelay
<1> QED BY InitMailInv, InitDelay, TypeCorrect, <1>1, <1>2, PTL
        DEF Spec, RequeueDelay, DelayStep
=============================================================================

------------------------------- MODULE DbPool -------------------------------
(***************************************************************************)
(* The pool of database connections (lib/database.ts) and the heartbeat    *)
(* that heals it (lib/dbHealth.ts).  A connection may die silently: the    *)
(* statement it is given is not answered and times out much later.  The    *)
(* heartbeat sends a statement through the pool and, when that is not      *)
(* answered in five seconds, one through a connection of its own; if that  *)
(* one is, the pool is wedged and all its connections are destroyed.       *)
(*                                                                         *)
(* There is no clock.  A time limit may pass when what it waits for cannot *)
(* happen soon (Stuck), and passes at the latest when it never happens.    *)
(* The webhook and the log are left out, and so is stopDbHealthCheck,      *)
(* which nothing calls.                                                    *)
(***************************************************************************)
EXTENDS Naturals, Sequences, FiniteSets

CONSTANTS
    Client,     \* statements of requests and workers that may run at a time
    Ping,       \* bound: pings of the heartbeat not answered yet
    Conn,       \* as many as connectionLimit allows
    None,       \* no job
    MaxBreaks,  \* bound: connections that die
    MaxOutages, \* bound: times the database cannot be reached
    MaxSlow     \* bound: statements that take longer than a ping may

ASSUME PoolAssumption ==
    /\ Client \cap Ping = {} /\ None \notin Client \cup Ping
    /\ IsFiniteSet(Conn) /\ Conn # {} /\ Ping # {}
    /\ MaxBreaks \in Nat /\ MaxOutages \in Nat /\ MaxSlow \in Nat

Job == Client \cup Ping

VARIABLES
    up,         \* the database can be reached
    conn,       \* none, connecting, live, dead
    holder,     \* the job a connection was given to
    queue,      \* jobs waiting for a connection, first come first served
    job,        \* waiting, running, or how it ended: ok, failed
    again,      \* the job is executed a second time
    slow,       \* the job takes longer than a ping may
    pc, ping,   \* the heartbeat, and its ping
    state,      \* of the heartbeat: boot, healthy, wedged, unreachable
    wedgeTicks, \* consecutiveWedgeTicks: none, or some
    breaks, outages, slows,  \* counted for the bounds
    \* history: since the last drain something went wrong that a drain does
    \* not prevent; there was a drain
    hurt, drained

pool    == <<conn, holder, queue>>
jobs    == <<job, again, slow>>
health  == <<pc, ping, state, wedgeTicks>>
counts  == <<breaks, outages, slows>>
history == <<hurt, drained>>
vars    == <<up, pool, jobs, health, counts, history>>

Ended == {"ok", "failed"}

-----------------------------------------------------------------------------
Init ==
    /\ up = TRUE
    /\ conn = [c \in Conn |-> "none"] /\ holder = [c \in Conn |-> None]
    /\ queue = <<>>
    /\ job = [j \in Job |-> "ok"]
    /\ again = [j \in Job |-> FALSE] /\ slow = [j \in Job |-> FALSE]
    /\ pc = "timer" /\ ping = None /\ state = "boot" /\ wedgeTicks = 0
    /\ breaks = 0 /\ outages = 0 /\ slows = 0
    /\ hurt = FALSE /\ drained = FALSE

Idle(c) == conn[c] \in {"live", "dead"} /\ holder[c] = None

Destroyed(c) == /\ conn' = [conn EXCEPT ![c] = "none"]
                /\ holder' = [holder EXCEPT ![c] = None]

Released(c) == holder' = [holder EXCEPT ![c] = None] /\ UNCHANGED conn

(* pool.query, for a job that has not one going.                           *)
Query(j, takesLong) ==
    /\ job[j] \in Ended
    /\ job' = [job EXCEPT ![j] = "waiting"]
    /\ slow' = [slow EXCEPT ![j] = takesLong]
    /\ UNCHANGED again
    /\ queue' = Append(queue, j)

(* Mutant: again and again.                                                *)
RetryForever(j) ==
    /\ job' = [job EXCEPT ![j] = "waiting"]
    /\ again' = [again EXCEPT ![j] = TRUE]
    /\ queue' = Append(queue, j)
    /\ UNCHANGED slow

(* Timed out or lost: executed again, once.                                *)
Retry(j) ==
    IF again[j]
    THEN /\ job' = [job EXCEPT ![j] = "failed"]
         /\ again' = [again EXCEPT ![j] = FALSE]
         /\ slow' = [slow EXCEPT ![j] = FALSE]
         /\ UNCHANGED queue
    ELSE /\ job' = [job EXCEPT ![j] = "waiting"]
         /\ again' = [again EXCEPT ![j] = TRUE]
         /\ queue' = Append(queue, j)
         /\ UNCHANGED slow

-----------------------------------------------------------------------------
(* The pool.                                                               *)

Issue(j) ==
    /\ \E takesLong \in BOOLEAN :
          /\ takesLong => slows < MaxSlow
          /\ slows' = slows + IF takesLong THEN 1 ELSE 0
          /\ hurt' = (hurt \/ takesLong)
          /\ Query(j, takesLong)
    /\ UNCHANGED <<up, conn, holder, health, breaks, outages, drained>>

(* The first of the queue takes an idle connection.                        *)
Borrow(c) ==
    /\ queue # <<>> /\ Idle(c)
    /\ holder' = [holder EXCEPT ![c] = Head(queue)]
    /\ job' = [job EXCEPT ![Head(queue)] = "running"]
    /\ queue' = Tail(queue)
    /\ UNCHANGED <<up, conn, again, slow, health, counts, history>>

(* There is none, and room for another.                                    *)
Connect(c) ==
    /\ queue # <<>> /\ conn[c] = "none" /\ \A d \in Conn : ~ Idle(d)
    /\ conn' = [conn EXCEPT ![c] = "connecting"]
    /\ holder' = [holder EXCEPT ![c] = Head(queue)]
    /\ job' = [job EXCEPT ![Head(queue)] = "running"]
    /\ queue' = Tail(queue)
    /\ UNCHANGED <<up, again, slow, health, counts, history>>

Connected(c) ==
    /\ conn[c] = "connecting" /\ up
    /\ conn' = [conn EXCEPT ![c] = "live"]
    /\ UNCHANGED <<up, holder, queue, jobs, health, counts, history>>

Answer(c) ==
    /\ conn[c] = "live" /\ holder[c] # None /\ up
    /\ job' = [job EXCEPT ![holder[c]] = "ok"]
    /\ again' = [again EXCEPT ![holder[c]] = FALSE]
    /\ slow' = [slow EXCEPT ![holder[c]] = FALSE]
    /\ Released(c)
    /\ UNCHANGED <<up, queue, health, counts, history>>

Unanswered(c) ==
    /\ holder[c] # None
    /\ conn[c] = "dead" \/ ~ up

(* Mutant: the connection goes back to the pool.                           *)
TimeOutReleases(c) ==
    /\ Unanswered(c)
    /\ Released(c) /\ Retry(holder[c])
    /\ UNCHANGED <<up, health, counts, history>>

(* ETIMEDOUT.  The connection leaves the pool.                             *)
TimeOut(c) ==
    /\ Unanswered(c)
    /\ Destroyed(c) /\ Retry(holder[c])
    /\ UNCHANGED <<up, health, counts, history>>

(* idleTimeout and maxIdle.                                                *)
Reap(c) ==
    /\ Idle(c) /\ Destroyed(c)
    /\ UNCHANGED <<up, queue, jobs, health, counts, history>>

-----------------------------------------------------------------------------
(* What happens to the network.                                            *)

Break(c) ==
    /\ conn[c] = "live" /\ breaks < MaxBreaks
    /\ conn' = [conn EXCEPT ![c] = "dead"]
    /\ breaks' = breaks + 1 /\ hurt' = TRUE
    /\ UNCHANGED <<up, holder, queue, jobs, health, outages, slows, drained>>

GoDown ==
    /\ up /\ outages < MaxOutages
    /\ up' = FALSE /\ outages' = outages + 1 /\ hurt' = TRUE
    /\ UNCHANGED <<pool, jobs, health, breaks, slows, drained>>

(* Any of the connections there were has not outlived the outage.          *)
ComeUp ==
    /\ ~ up /\ up' = TRUE
    /\ \E lost \in SUBSET {c \in Conn : conn[c] = "live"} :
          conn' = [c \in Conn |-> IF c \in lost THEN "dead" ELSE conn[c]]
    /\ UNCHANGED <<holder, queue, jobs, health, counts, history>>

-----------------------------------------------------------------------------
(* The heartbeat.                                                          *)

Tick ==
    /\ pc = "timer"
    /\ \E p \in Ping : /\ Query(p, FALSE)
                       /\ pc' = "ping" /\ ping' = p
    /\ UNCHANGED <<up, conn, holder, state, wedgeTicks, counts, history>>

PoolOk ==
    /\ pc = "ping" /\ job[ping] = "ok"
    /\ pc' = "timer" /\ ping' = None
    /\ state' = "healthy"
    /\ wedgeTicks' = IF state = "healthy" THEN wedgeTicks ELSE 0
    /\ UNCHANGED <<up, pool, jobs, counts, history>>

(* A connection that answers or will be free soon.                         *)
Prompt(c) == \/ conn[c] \in {"none", "connecting"}
             \/ conn[c] = "live" /\ (holder[c] # None => ~ slow[holder[c]])

Stuck(p) == \/ ~ up
            \/ \E c \in Conn : holder[c] = p /\ conn[c] = "dead"
            \/ job[p] = "waiting" /\ \A c \in Conn : ~ Prompt(c)

(* An error, or five seconds; the statement goes on by itself.             *)
PoolFails ==
    /\ pc = "ping"
    /\ job[ping] = "failed" \/ (job[ping] \notin Ended /\ Stuck(ping))
    /\ pc' = "fresh" /\ ping' = None
    /\ UNCHANGED <<up, pool, jobs, state, wedgeTicks, counts, history>>

(* Mutant: connections in use stay.                                        *)
DrainIdle ==
    /\ conn' = [c \in Conn |-> IF holder[c] = None THEN "none" ELSE conn[c]]
    /\ UNCHANGED <<holder, queue, jobs>>

(* Mutant: what is terminated is not told.                                 *)
DrainSilently ==
    /\ conn' = [c \in Conn |-> "none"] /\ holder' = [c \in Conn |-> None]
    /\ UNCHANGED <<queue, jobs>>

(* What is terminated fails, or is executed again if it was lost the first *)
(* time.                                                                   *)
Drain ==
    LET killed == {holder[c] : c \in Conn} \ {None}
    IN  /\ conn' = [c \in Conn |-> "none"]
        /\ holder' = [c \in Conn |-> None]
        /\ \E order \in UNION {[1 .. n -> killed] : n \in 0 .. Cardinality(killed)} :
              LET lost == {order[i] : i \in DOMAIN order}
              IN  /\ Cardinality(lost) = Len(order)
                  /\ \A j \in lost : ~ again[j]
                  /\ queue' = queue \o order
                  /\ again' = [j \in Job |-> j \in lost
                                              \/ (again[j] /\ j \notin killed)]
                  /\ slow' = [j \in Job |-> slow[j] /\ j \notin killed \ lost]
                  /\ job' = [j \in Job |-> IF j \in lost THEN "waiting"
                                           ELSE IF j \in killed THEN "failed"
                                           ELSE job[j]]

FreshOk ==
    /\ pc = "fresh" /\ up
    /\ pc' = "timer" /\ state' = "wedged"
    /\ wedgeTicks' = 1
    /\ Drain
    /\ drained' = TRUE
    /\ hurt' = \E j \in Job : slow'[j]
    /\ UNCHANGED <<up, ping, counts>>

(* Mutant: the timer is armed again only after a ping that was answered.   *)
FreshFailsForGood ==
    /\ pc = "fresh" /\ ~ up
    /\ pc' = "off" /\ state' = "unreachable"
    /\ UNCHANGED <<up, pool, jobs, ping, wedgeTicks, counts, history>>

FreshFails ==
    /\ pc = "fresh" /\ ~ up
    /\ pc' = "timer" /\ state' = "unreachable"
    /\ UNCHANGED <<up, pool, jobs, ping, wedgeTicks, counts, history>>

-----------------------------------------------------------------------------
Pool == \E c \in Conn : \/ Borrow(c) \/ Connect(c) \/ Connected(c)
                         \/ Answer(c) \/ TimeOut(c)

Heartbeat == Tick \/ PoolOk \/ PoolFails \/ FreshOk \/ FreshFails

Next == \/ \E j \in Client : Issue(j)
        \/ Pool
        \/ \E c \in Conn : Reap(c) \/ Break(c)
        \/ GoDown \/ ComeUp
        \/ Heartbeat

Spec == Init /\ [][Next]_vars

(* The pool serves its queue, connections answer or time out, and timers   *)
(* fire.  Nobody promises requests, nor a network.                         *)
Fairness ==
    /\ \A c \in Conn : /\ WF_vars(Borrow(c) \/ Connect(c)) /\ WF_vars(Connected(c))
                       /\ WF_vars(Answer(c)) /\ WF_vars(TimeOut(c))
    /\ WF_vars(Tick) /\ WF_vars(PoolOk) /\ WF_vars(PoolFails)
    /\ WF_vars(FreshOk) /\ WF_vars(FreshFails)

FairSpec == Spec /\ Fairness

-----------------------------------------------------------------------------
TypeOK ==
    /\ up \in BOOLEAN
    /\ conn \in [Conn -> {"none", "connecting", "live", "dead"}]
    /\ holder \in [Conn -> Job \cup {None}]
    /\ queue \in Seq(Job)
    /\ job \in [Job -> Ended \cup {"waiting", "running"}]
    /\ again \in [Job -> BOOLEAN] /\ slow \in [Job -> BOOLEAN]
    /\ pc \in {"timer", "ping", "fresh"}
    /\ ping \in Ping \cup {None} /\ (pc = "ping" <=> ping # None)
    /\ state \in {"boot", "healthy", "wedged", "unreachable"}
    /\ wedgeTicks \in 0 .. 1
    /\ breaks \in 0 .. MaxBreaks /\ outages \in 0 .. MaxOutages
    /\ slows \in 0 .. MaxSlow
    /\ hurt \in BOOLEAN /\ drained \in BOOLEAN

(* A job has one connection while it runs and one place in the queue while *)
(* it waits, however connections and jobs end: no connection is lost to a  *)
(* job that is over, and no job is forgotten.                              *)
OnePlace ==
    /\ TypeOK
    /\ \A j \in Job :
          /\ Cardinality({c \in Conn : holder[c] = j}) =
                IF job[j] = "running" THEN 1 ELSE 0
          /\ Cardinality({i \in DOMAIN queue : queue[i] = j}) =
                IF job[j] = "waiting" THEN 1 ELSE 0

(* dbHealth.ts:148: one drain is enough.  The next tick finds the pool     *)
(* wedged again only if another connection died, the database was away or  *)
(* statements of requests took too long since.                             *)
OneDrainHeals ==
    [][(pc = "fresh" /\ pc' # "fresh" /\ state' = "wedged" /\ wedgeTicks > 0)
           => hurt]_vars

(* database.ts:91: a single connection that died silently is no request's  *)
(* problem, as long as nothing else happens.                               *)
OneDeathUnnoticed ==
    (\E j \in Client : job[j] = "failed") => breaks > 1 \/ outages > 0 \/ drained

(* Every statement is answered, with a result or an error, even if the     *)
(* database never comes back.                                              *)
EveryStatementEnds == \A j \in Client : job[j] = "waiting" ~> job[j] \in Ended

(* If the database can be reached from some time on, the pool is found     *)
(* healthy from some time on, whatever died before.                        *)
PoolHeals == <>[]up => <>[](state = "healthy")
=============================================================================

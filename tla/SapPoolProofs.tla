--------------------------- MODULE SapPoolProofs ---------------------------
(***************************************************************************)
(* Theorems about SapPool, for any number of handlers, people, passes and  *)
(* dates, and any set of operations in play.                               *)
(***************************************************************************)
EXTENDS SapPages, FiniteSetTheorems, WellFoundedInduction, TLAPS

-----------------------------------------------------------------------------
(* Type correctness.                                                       *)

LEMMA InitTypeOK == Init => TypeOK
<1> SUFFICES ASSUME Init PROVE TypeOK
  OBVIOUS
<1>1. (CHOOSE t \in Ticket : TRUE) \in Ticket
  BY SapAssumption
<1>2. RowsOK
  BY <1>1 DEF Init, RowsOK, Status
<1>3. HandlersOK
  BY DEF Init, HandlersOK, Pc, Status
<1> QED BY <1>2, <1>3 DEF TypeOK

(* Ending and beginning a handler keep the handler's part.                 *)
LEMMA EndType ==
    ASSUME HandlersOK, NEW r \in Req, End(r)
    PROVE  HandlersOK'
BY DEF HandlersOK, End, Pc, Status

LEMMA BeginType ==
    ASSUME TypeOK, NEW r \in Req, NEW at \in Pc, NEW k \in Key \cup {Nobody},
           NEW d \in Days \cup {0}, NEW p \in Pass \cup {0}, Begin(r, at, k, d, p)
    PROVE  TypeOK'
<1>1. HandlersOK'
  BY DEF TypeOK, HandlersOK, Begin, locks
<1>2. RowsOK'
  BY DEF TypeOK, RowsOK, Begin, rows, owners
<1> QED BY <1>1, <1>2 DEF TypeOK

(* What the owner columns hold.                                            *)
LEMMA HolderType ==
    ASSUME TypeOK, NEW p \in Pass
    PROVE  Holder(p) \in Key \cup {Nobody}
BY DEF TypeOK, RowsOK, Holder, Key

LEMMA WhoType ==
    ASSUME NEW k \in Key
    PROVE  Who(k) \in Person
BY SapAssumption DEF Who, Key

(* A handler that ends without touching a table.                           *)
LEMMA QuietEndType ==
    ASSUME TypeOK, NEW r \in Req, End(r), UNCHANGED <<rows, offbook, given>>
    PROVE  TypeOK'
<1>1. HandlersOK'
  BY EndType DEF TypeOK
<1>2. RowsOK'
  BY DEF TypeOK, RowsOK, rows, owners
<1> QED BY <1>1, <1>2 DEF TypeOK

(* Handing out a pass, with the end of the handler or without one.         *)
LEMMA HandToType ==
    ASSUME TypeOK, NEW p \in Pass, NEW k \in Key, HandTo(k, p),
           UNCHANGED <<rows, offbook>>
    PROVE  RowsOK'
<1>1. given' \in [Pass -> SUBSET Person]
  BY WhoType DEF TypeOK, RowsOK, HandTo
<1> QED BY <1>1 DEF TypeOK, RowsOK, rows, owners

LEMMA BeginsType ==
    ASSUME TypeOK, NEW r \in Req, Begins(r)
    PROVE  TypeOK'
<1>1. CASE UploadBegin(r)
  <2>1. HandlersOK'
    BY <1>1 DEF TypeOK, HandlersOK, UploadBegin, Goto, locks, Pc
  <2>2. RowsOK'
    BY <1>1 DEF TypeOK, RowsOK, UploadBegin, rows, owners
  <2> QED BY <2>1, <2>2 DEF TypeOK
<1>2. CASE AssignBegin(r) \/ AssignAuto(r)
  <2>1. PICK k \in Key, d \in Days : Begin(r, "lock", k, d, 0)
    BY <1>2 DEF AssignBegin, AssignAuto, Key
  <2> QED BY <2>1, BeginType DEF Pc
<1>3. CASE IssueBegin(r) \/ EmailBegin(r)
  <2>1. PICK p \in Pass, at \in {"issue", "flip", "enqueue"} :
            Begin(r, at, Holder(p), 0, p)
    BY <1>3 DEF IssueBegin, EmailBegin
  <2> QED BY <2>1, BeginType, HolderType DEF Pc
<1>4. CASE LinkBegin(r)
  <2>1. PICK m \in Mail : Begin(r, "move", m, 0, 0)
    BY <1>4 DEF LinkBegin
  <2> QED BY <2>1, BeginType DEF Pc, Key
<1> QED BY <1>1, <1>2, <1>3, <1>4 DEF Begins

LEMMA UploadInsertType ==
    ASSUME TypeOK, NEW r \in Req, UploadInsert(r)
    PROVE  TypeOK'
<1>1. PICK t \in pages[r] :
        \/ End(r) /\ UNCHANGED <<rows, offbook, given>>
        \/ \E p \in Pass :
            /\ status' = [status EXCEPT ![p] = "available"]
            /\ ticket' = [ticket EXCEPT ![p] = t]
            /\ \/ End(r)
               \/ /\ pages' = [pages EXCEPT ![r] = @ \ {t}]
                  /\ UNCHANGED <<locks, pc, key, want, cur, was, new>>
            /\ UNCHANGED <<owners, via, superseded, offbook, given>>
  BY DEF UploadInsert
<1>2. CASE End(r) /\ UNCHANGED <<rows, offbook, given>>
  BY <1>2, QuietEndType
<1>3. ASSUME NEW p \in Pass,
             status' = [status EXCEPT ![p] = "available"],
             ticket' = [ticket EXCEPT ![p] = t],
             \/ End(r)
             \/ /\ pages' = [pages EXCEPT ![r] = @ \ {t}]
                /\ UNCHANGED <<locks, pc, key, want, cur, was, new>>,
             UNCHANGED <<owners, via, superseded, offbook, given>>
      PROVE  TypeOK'
  <2>1. t \in Ticket
    BY DEF TypeOK, HandlersOK
  <2>2. RowsOK'
    BY <1>3, <2>1 DEF TypeOK, RowsOK, Status, owners
  <2>3. HandlersOK'
    <3>1. CASE End(r)
      BY <3>1, EndType DEF TypeOK
    <3>2. CASE /\ pages' = [pages EXCEPT ![r] = @ \ {t}]
               /\ UNCHANGED <<locks, pc, key, want, cur, was, new>>
      BY <3>2 DEF TypeOK, HandlersOK, locks
    <3> QED BY <1>3, <3>1, <3>2
  <2> QED BY <2>2, <2>3 DEF TypeOK
<1> QED BY <1>1, <1>2, <1>3

(* The steps of doAssign.                                                  *)
LEMMA GetLockType ==
    ASSUME TypeOK, NEW r \in Req, GetLock(r)
    PROVE  TypeOK'
<1>1. HandlersOK'
  BY DEF TypeOK, HandlersOK, GetLock, Goto, Pc, Locked
<1>2. RowsOK'
  BY DEF TypeOK, RowsOK, GetLock, rows, owners
<1> QED BY <1>1, <1>2 DEF TypeOK

LEMMA ReadCurrentType ==
    ASSUME TypeOK, NEW r \in Req, ReadCurrent(r)
    PROVE  TypeOK'
<1>1. CASE End(r)
  BY <1>1, QuietEndType DEF ReadCurrent
<1>2. CASE ~ End(r)
  <2>1. RowsOK'
    BY DEF TypeOK, RowsOK, ReadCurrent, rows, owners
  <2>2. PICK c \in Pass \cup {0} :
          /\ cur' = [cur EXCEPT ![r] = c]
          /\ was' = [was EXCEPT ![r] = IF c = 0 THEN "absent" ELSE status[c]]
          /\ rowLock' = [p \in Pass |->
                 IF p \in Current(key[r]) THEN r ELSE rowLock[p]]
          /\ Goto(r, "reserve")
          /\ UNCHANGED <<lock, key, want, new, pages>>
    BY <1>2 DEF ReadCurrent, Current
  <2>3. (IF c = 0 THEN "absent" ELSE status[c]) \in Status
    BY DEF TypeOK, RowsOK, Status
  <2>4. rowLock' \in [Pass -> Req \cup {NoReq}]
    BY <2>2 DEF TypeOK, HandlersOK
  <2>5. HandlersOK'
    BY <2>2, <2>3, <2>4 DEF TypeOK, HandlersOK, Goto, Pc, Locked
  <2> QED BY <2>1, <2>5 DEF TypeOK
<1> QED BY <1>1, <1>2

LEMMA ReserveType ==
    ASSUME TypeOK, NEW r \in Req, Reserve(r)
    PROVE  TypeOK'
<1>1. HandlersOK'
  BY DEF TypeOK, HandlersOK, Reserve, Goto, Pc, Locked
<1>2. RowsOK'
  BY DEF TypeOK, RowsOK, Reserve, rows, owners
<1> QED BY <1>1, <1>2 DEF TypeOK

(* A transaction commits.  Its reserved pass exists, see RowLockInv.       *)
LEMMA CommitType ==
    ASSUME TypeOK, NEW r \in Req, Commit(r), new[r] # 0
    PROVE  TypeOK'
<1>1. HandlersOK'
  BY EndType DEF TypeOK, Commit
<1>2. status' \in [Pass -> Status]
  BY DEF TypeOK, RowsOK, Commit, Status
<1>3. sbId' \in [Pass -> Person \cup {Nobody}]
  BY DEF TypeOK, RowsOK, Commit
<1>4. mail' \in [Pass -> Mail \cup {Nobody}]
  BY DEF TypeOK, RowsOK, Commit
<1>5. superseded' \in [Pass -> Pass \cup {0}]
  BY DEF TypeOK, RowsOK, HandlersOK, Commit
<1>6. RowsOK'
  BY <1>2, <1>3, <1>4, <1>5 DEF TypeOK, RowsOK, Commit
<1> QED BY <1>1, <1>6 DEF TypeOK

LEMMA UnassignType ==
    ASSUME TypeOK, NEW k \in Key, Unassign(k)
    PROVE  TypeOK'
<1>1. HandlersOK'
  BY DEF TypeOK, HandlersOK, Unassign, locks, handler
<1>2. status' \in [Pass -> Status]
  BY DEF TypeOK, RowsOK, Unassign, Status
<1>3. sbId' \in [Pass -> Person \cup {Nobody}] /\ mail' \in [Pass -> Mail \cup {Nobody}]
  BY DEF TypeOK, RowsOK, Unassign
<1>4. RowsOK'
  BY <1>2, <1>3 DEF TypeOK, RowsOK, Unassign
<1> QED BY <1>1, <1>4 DEF TypeOK

(* The two flips to received.                                              *)
LEMMA FlipType ==
    ASSUME TypeOK, NEW r \in Req, cur[r] # 0,
           IssueFlip(r) \/ EmailFlip(r)
    PROVE  TypeOK'
<1>1. CASE UNCHANGED rows /\ End(r)
  BY <1>1, QuietEndType DEF IssueFlip, EmailFlip
<1>2. CASE ~ (UNCHANGED rows /\ End(r))
  <2>1. PICK how \in {"download", "email"}, at \in {"serve", "enqueue"} :
          /\ Flip(r, cur[r], how)
          /\ Goto(r, at)
          /\ UNCHANGED <<owners, superseded, ticket, locks, key, want, cur, was, new, pages>>
          /\ UNCHANGED <<offbook, given>>
    BY <1>2 DEF IssueFlip, EmailFlip
  <2>2. HandlersOK'
    BY <2>1 DEF TypeOK, HandlersOK, Goto, locks, Pc
  <2>3. RowsOK'
    BY <2>1 DEF TypeOK, RowsOK, Flip, owners, Status
  <2> QED BY <2>2, <2>3 DEF TypeOK
<1> QED BY <1>1, <1>2

(* The pass is handed over and the handler ends.                           *)
LEMMA DeliverType ==
    ASSUME TypeOK, NEW r \in Req, cur[r] # 0, key[r] \in Key,
           IssueServe(r) \/ EmailEnqueue(r)
    PROVE  TypeOK'
<1>1. cur[r] \in Pass
  BY DEF TypeOK, HandlersOK
<1>2. HandTo(key[r], cur[r]) /\ End(r) /\ UNCHANGED <<rows, offbook>>
  BY DEF IssueServe, EmailEnqueue
<1> QED BY <1>1, <1>2, HandToType, EndType DEF TypeOK

LEMMA SelfDownloadType ==
    ASSUME TypeOK, NEW p \in Pass, SelfDownload(p)
    PROVE  TypeOK'
<1>1. sbId[p] \in Key
  BY DEF TypeOK, RowsOK, SelfDownload, Key
<1>2. RowsOK'
  BY <1>1, HandToType DEF SelfDownload
<1>3. HandlersOK'
  BY DEF TypeOK, HandlersOK, SelfDownload, locks, handler
<1> QED BY <1>2, <1>3 DEF TypeOK

(* The off-book entries and their link.                                    *)
LEMMA LinkType ==
    ASSUME TypeOK, NEW r \in Req, key[r] \in Mail, LinkMove(r) \/ LinkFlag(r)
    PROVE  TypeOK'
<1>1. CASE LinkMove(r)
  <2>1. HandlersOK'
    BY <1>1 DEF TypeOK, HandlersOK, LinkMove, Goto, locks, Pc
  <2>2. sbId' \in [Pass -> Person \cup {Nobody}] /\ mail' \in [Pass -> Mail \cup {Nobody}]
    BY <1>1, SapAssumption DEF TypeOK, RowsOK, LinkMove
  <2>3. RowsOK'
    BY <1>1, <2>2 DEF TypeOK, RowsOK, LinkMove
  <2> QED BY <2>1, <2>3 DEF TypeOK
<1>2. CASE LinkFlag(r)
  <2>1. HandlersOK'
    BY <1>2, EndType DEF TypeOK, LinkFlag
  <2>2. RowsOK'
    BY <1>2 DEF TypeOK, RowsOK, LinkFlag, rows, owners
  <2> QED BY <2>1, <2>2 DEF TypeOK
<1> QED BY <1>1, <1>2

LEMMA AddOffbookType ==
    ASSUME TypeOK, NEW m \in Mail, AddOffbook(m)
    PROVE  TypeOK'
<1>1. HandlersOK'
  BY DEF TypeOK, HandlersOK, AddOffbook, locks, handler
<1>2. RowsOK'
  BY DEF TypeOK, RowsOK, AddOffbook, rows, owners
<1> QED BY <1>1, <1>2 DEF TypeOK

-----------------------------------------------------------------------------
(* The invariant of the locks, for any set of operations.                  *)

LEMMA InitSapInv == Init => SapInv
<1> SUFFICES ASSUME Init PROVE SapInv
  OBVIOUS
<1>1. OwnedOnce
  BY DEF Init, OwnedOnce
<1>2. LockInv
  BY SapAssumption DEF Init, LockInv, Locked, InTxn
<1>3. \A r \in Req : TaskOK(r) /\ TxnOK(r)
  BY DEF Init, TaskOK, TxnOK, InTxn
<1> QED BY <1>1, <1>2, <1>3 DEF SapInv

(* A step that leaves a handler and the passes it works on alone keeps     *)
(* what the handler knows.                                                 *)
LEMMA Bystander ==
    ASSUME TypeOK, SapInv, NEW s \in Req,
           /\ pc'[s] = pc[s] /\ key'[s] = key[s] /\ cur'[s] = cur[s]
           /\ was'[s] = was[s] /\ new'[s] = new[s],
           \A p \in Pass : rowLock[p] = s => rowLock'[p] = s,
           \A p \in Pass : rowLock[p] = s =>
               /\ status'[p] = status[p] /\ sbId'[p] = sbId[p] /\ mail'[p] = mail[p],
           \A p \in Pass : status[p] \in {"received", "burned"} =>
               status'[p] \in {"received", "burned"}
    PROVE  TaskOK(s)' /\ TxnOK(s)'
<1>1. cur[s] \in Pass \cup {0} /\ new[s] \in Pass \cup {0}
  BY DEF TypeOK, HandlersOK
<1>2. TaskOK(s) /\ TxnOK(s)
  BY DEF SapInv
<1>3. TaskOK(s)'
  BY <1>1, <1>2 DEF TaskOK
<1>4. TxnOK(s)'
  BY <1>1, <1>2 DEF TxnOK, Owns, Active, InTxn
<1> QED BY <1>3, <1>4

(* A handler that is idle knows nothing.                                   *)
LEMMA IdleOK ==
    ASSUME NEW r \in Req, pc'[r] = "idle"
    PROVE  TaskOK(r)' /\ TxnOK(r)'
BY DEF TaskOK, TxnOK, InTxn

(* Ending a handler keeps the lock discipline.                             *)
LEMMA EndLocks ==
    ASSUME TypeOK, SapInv, NEW r \in Req, End(r)
    PROVE  /\ LockInv'
           /\ pc'[r] = "idle"
           /\ \A s \in Req \ {r} :
               /\ pc'[s] = pc[s] /\ key'[s] = key[s] /\ cur'[s] = cur[s]
               /\ was'[s] = was[s] /\ new'[s] = new[s]
               /\ \A p \in Pass : rowLock[p] = s => rowLock'[p] = s
<1>1. pc'[r] = "idle"
  BY DEF End, TypeOK, HandlersOK
<1>2. \A s \in Req \ {r} :
        /\ pc'[s] = pc[s] /\ key'[s] = key[s] /\ cur'[s] = cur[s]
        /\ was'[s] = was[s] /\ new'[s] = new[s]
        /\ \A p \in Pass : rowLock[p] = s => rowLock'[p] = s
  BY DEF End, TypeOK, HandlersOK
<1>3. \A k \in Key : lock'[k] # r /\ \A s \in Req \ {r} : lock'[k] = s <=> lock[k] = s
  BY SapAssumption DEF End, TypeOK, HandlersOK
<1>4. \A p \in Pass : rowLock'[p] # r /\ \A s \in Req : rowLock'[p] = s => rowLock[p] = s
  BY SapAssumption DEF End, TypeOK, HandlersOK
<1>5. LockInv'
  <2>1. ASSUME NEW s \in Req, pc'[s] \in Locked
        PROVE  key'[s] \in Key /\ lock'[key'[s]] = s
    <3>1. s # r
      BY <1>1, <2>1 DEF Locked
    <3>2. pc[s] \in Locked /\ key'[s] = key[s]
      BY <1>2, <2>1, <3>1
    <3>3. key[s] \in Key /\ lock[key[s]] = s
      BY <3>2 DEF SapInv, LockInv
    <3> QED BY <1>3, <3>1, <3>2, <3>3
  <2>2. ASSUME NEW k \in Key, NEW s \in Req, lock'[k] = s
        PROVE  pc'[s] \in Locked /\ key'[s] = k
    <3>1. s # r /\ lock[k] = s
      BY <1>3, <2>2
    <3> QED BY <1>2, <3>1 DEF SapInv, LockInv
  <2>3. ASSUME NEW p \in Pass, NEW s \in Req, rowLock'[p] = s
        PROVE  pc'[s] \in InTxn
    <3>1. s # r /\ rowLock[p] = s
      BY <1>4, <2>3
    <3> QED BY <1>2, <3>1 DEF SapInv, LockInv
  <2> QED BY <2>1, <2>2, <2>3 DEF LockInv
<1> QED BY <1>1, <1>2, <1>5

(* A handler that ends without touching a row.                             *)
LEMMA QuietEndInv ==
    ASSUME TypeOK, SapInv, NEW r \in Req, End(r), UNCHANGED rows
    PROVE  SapInv'
<1>1. OwnedOnce'
  BY DEF SapInv, OwnedOnce, rows, owners
<1>2. ASSUME NEW s \in Req PROVE TaskOK(s)' /\ TxnOK(s)'
  <2>1. CASE s = r
    BY <2>1, EndLocks, IdleOK
  <2>2. CASE s # r
    BY <2>2, EndLocks, Bystander DEF rows, owners
  <2> QED BY <2>1, <2>2
<1> QED BY <1>1, <1>2, EndLocks DEF SapInv

(* A handler that moves on without touching a row or a lock.               *)
LEMMA QuietMoveInv ==
    ASSUME TypeOK, SapInv, NEW r \in Req,
           UNCHANGED <<rows, locks>>,
           pc[r] \notin Locked, pc'[r] \notin Locked,
           \A s \in Req \ {r} :
               /\ pc'[s] = pc[s] /\ key'[s] = key[s] /\ cur'[s] = cur[s]
               /\ was'[s] = was[s] /\ new'[s] = new[s],
           TaskOK(r)'
    PROVE  SapInv'
<1>1. OwnedOnce'
  BY DEF SapInv, OwnedOnce, rows, owners
<1>2. LockInv'
  BY DEF SapInv, LockInv, locks, Locked, InTxn
<1>3. ASSUME NEW s \in Req PROVE TaskOK(s)' /\ TxnOK(s)'
  <2>1. CASE s = r
    BY <2>1 DEF TxnOK, InTxn, Locked
  <2>2. CASE s # r
    BY <2>2, Bystander DEF rows, owners, locks
  <2> QED BY <2>1, <2>2
<1> QED BY <1>1, <1>2, <1>3 DEF SapInv

LEMMA BeginsInv ==
    ASSUME TypeOK, SapInv, NEW r \in Req, Begins(r)
    PROVE  SapInv'
<1>1. CASE UploadBegin(r)
  <2>1. pc[r] = "idle" /\ pc' = [pc EXCEPT ![r] = "insert"]
        /\ UNCHANGED <<rows, locks, key, cur, was, new>>
    BY <1>1 DEF UploadBegin, Goto
  <2>2. pc'[r] = "insert"
    BY <2>1 DEF TypeOK, HandlersOK
  <2>3. TaskOK(r)'
    BY <2>2 DEF TaskOK
  <2> QED BY <2>1, <2>2, <2>3, QuietMoveInv DEF Locked
<1>2. ASSUME NEW at \in {"lock", "issue", "flip", "enqueue", "move"},
             NEW k, NEW d, NEW p, Begin(r, at, k, d, p),
             at # "move" => k \in Key, at = "move" => k \in Mail,
             at \in {"issue", "flip", "enqueue"} => p \in Pass,
             at = "enqueue" => status[p] = "received"
      PROVE  SapInv'
  <2>1. /\ pc[r] = "idle" /\ pc' = [pc EXCEPT ![r] = at]
        /\ key' = [key EXCEPT ![r] = k] /\ cur' = [cur EXCEPT ![r] = p]
        /\ UNCHANGED <<rows, locks, was, new>>
    BY <1>2 DEF Begin
  <2>2. pc'[r] = at /\ key'[r] = k /\ cur'[r] = p
    BY <2>1 DEF TypeOK, HandlersOK
  <2>3. TaskOK(r)'
    BY <1>2, <2>1, <2>2 DEF TaskOK, Pass, rows
  <2>4. at \notin Locked
    BY DEF Locked
  <2>5. ASSUME NEW s \in Req \ {r}
        PROVE  /\ pc'[s] = pc[s] /\ key'[s] = key[s] /\ cur'[s] = cur[s]
               /\ was'[s] = was[s] /\ new'[s] = new[s]
    BY <2>1, <2>5 DEF TypeOK, HandlersOK
  <2> QED BY <2>1, <2>2, <2>3, <2>4, <2>5, QuietMoveInv DEF Locked
<1>3. CASE AssignBegin(r) \/ AssignAuto(r)
  <2>1. PICK k \in Key, d \in Days : Begin(r, "lock", k, d, 0)
    BY <1>3 DEF AssignBegin, AssignAuto, Key
  <2> QED BY <2>1, <1>2
<1>4. CASE IssueBegin(r) \/ EmailBegin(r)
  <2>1. PICK p \in Pass, at \in {"issue", "flip", "enqueue"} :
            /\ Active(p)
            /\ at = "enqueue" => status[p] = "received"
            /\ Begin(r, at, Holder(p), 0, p)
    BY <1>4 DEF IssueBegin, EmailBegin, Active
  <2>2. Holder(p) \in Key
    <3>1. sbId[p] # Nobody \/ mail[p] # Nobody
      BY <2>1 DEF SapInv, OwnedOnce, Active
    <3> QED BY <3>1 DEF Holder, Key, TypeOK, RowsOK
  <2> QED BY <2>1, <2>2, <1>2
<1>5. CASE LinkBegin(r)
  <2>1. PICK m \in Mail : Begin(r, "move", m, 0, 0)
    BY <1>5 DEF LinkBegin
  <2> QED BY <2>1, <1>2
<1> QED BY <1>1, <1>3, <1>4, <1>5 DEF Begins

(* The steps of doAssign.                                                  *)
LEMMA GetLockInv ==
    ASSUME TypeOK, SapInv, NEW r \in Req, GetLock(r)
    PROVE  SapInv'
<1>1. /\ pc[r] = "lock" /\ lock[key[r]] = NoReq /\ key[r] \in Key
      /\ lock' = [lock EXCEPT ![key[r]] = r] /\ pc' = [pc EXCEPT ![r] = "read"]
      /\ UNCHANGED <<rows, rowLock, key, want, cur, was, new>>
  BY DEF GetLock, Goto, SapInv, TaskOK
<1>2. OwnedOnce'
  BY <1>1 DEF SapInv, OwnedOnce, rows, owners
<1>3. ASSUME NEW s \in Req PROVE pc'[s] = IF s = r THEN "read" ELSE pc[s]
  BY <1>1 DEF TypeOK, HandlersOK
<1>4. ASSUME NEW k \in Key PROVE lock'[k] = IF k = key[r] THEN r ELSE lock[k]
  BY <1>1 DEF TypeOK, HandlersOK
<1>5. LockInv'
  <2>1. ASSUME NEW s \in Req, pc'[s] \in Locked
        PROVE  key'[s] \in Key /\ lock'[key'[s]] = s
    <3>1. CASE s = r
      BY <3>1, <1>1, <1>4
    <3>2. CASE s # r
      <4>1. key[s] \in Key /\ lock[key[s]] = s
        BY <1>3, <2>1, <3>2 DEF SapInv, LockInv
      <4> QED BY <4>1, <1>1, <1>4, SapAssumption
    <3> QED BY <3>1, <3>2
  <2>2. ASSUME NEW k \in Key, NEW s \in Req, lock'[k] = s
        PROVE  pc'[s] \in Locked /\ key'[s] = k
    BY <2>2, <1>1, <1>3, <1>4 DEF SapInv, LockInv, Locked
  <2>3. ASSUME NEW p \in Pass, NEW s \in Req, rowLock'[p] = s
        PROVE  pc'[s] \in InTxn
    BY <2>3, <1>1, <1>3 DEF SapInv, LockInv, InTxn
  <2> QED BY <2>1, <2>2, <2>3 DEF LockInv
<1>6. ASSUME NEW s \in Req PROVE TaskOK(s)' /\ TxnOK(s)'
  <2>1. CASE s = r
    BY <1>3, <2>1 DEF TaskOK, TxnOK, InTxn
  <2>2. CASE s # r
    BY <1>1, <1>3, <2>2, Bystander DEF rows, owners
  <2> QED BY <2>1, <2>2
<1> QED BY <1>2, <1>5, <1>6 DEF SapInv

LEMMA ReadCurrentInv ==
    ASSUME TypeOK, SapInv, NEW r \in Req, ReadCurrent(r)
    PROVE  SapInv'
<1>1. CASE End(r)
  BY <1>1, QuietEndInv DEF ReadCurrent
<1>2. CASE ~ End(r)
  <2>1. PICK c \in (IF Current(key[r]) = {} THEN {0} ELSE Current(key[r])) :
          /\ cur' = [cur EXCEPT ![r] = c]
          /\ was' = [was EXCEPT ![r] = IF c = 0 THEN "absent" ELSE status[c]]
          /\ rowLock' = [p \in Pass |->
                 IF p \in Current(key[r]) THEN r ELSE rowLock[p]]
          /\ pc' = [pc EXCEPT ![r] = "reserve"]
          /\ UNCHANGED <<lock, key, want, new, pages>>
    BY <1>2 DEF ReadCurrent, Goto
  <2>2. /\ pc[r] = "read" /\ UNCHANGED <<rows, offbook, given>>
        /\ \A p \in Current(key[r]) : Unlocked(r, p)
    BY DEF ReadCurrent
  <2>3. ASSUME NEW s \in Req \ {r}
        PROVE  /\ pc'[s] = pc[s] /\ cur'[s] = cur[s] /\ was'[s] = was[s]
               /\ \A p \in Pass : rowLock[p] = s => rowLock'[p] = s
    BY <2>1, <2>2, SapAssumption DEF TypeOK, HandlersOK, Unlocked
  <2>4. /\ pc'[r] = "reserve" /\ cur'[r] = c
        /\ was'[r] = IF c = 0 THEN "absent" ELSE status[c]
    BY <2>1 DEF TypeOK, HandlersOK
  <2>5. OwnedOnce'
    BY <2>2 DEF SapInv, OwnedOnce, rows, owners
  <2>6. LockInv'
    <3>1. ASSUME NEW s \in Req, pc'[s] \in Locked
          PROVE  key'[s] \in Key /\ lock'[key'[s]] = s
      BY <3>1, <2>1, <2>2, <2>3 DEF SapInv, LockInv, Locked
    <3>2. ASSUME NEW k \in Key, NEW s \in Req, lock'[k] = s
          PROVE  pc'[s] \in Locked /\ key'[s] = k
      BY <3>2, <2>1, <2>3, <2>4 DEF SapInv, LockInv, Locked
    <3>3. ASSUME NEW p \in Pass, NEW s \in Req, rowLock'[p] = s
          PROVE  pc'[s] \in InTxn
      BY <3>3, <2>1, <2>3, <2>4 DEF SapInv, LockInv, InTxn
    <3> QED BY <3>1, <3>2, <3>3 DEF LockInv
  <2>7. ASSUME NEW s \in Req PROVE TaskOK(s)' /\ TxnOK(s)'
    <3>1. CASE s = r
      <4>1. TaskOK(s)'
        BY <2>4, <3>1 DEF TaskOK
      <4>2. c # 0 => /\ c \in Pass /\ Owns(key[r], c) /\ Active(c)
                     /\ c \in Current(key[r])
        BY <2>1 DEF Current
      <4>3. c # 0 => rowLock'[c] = r
        BY <2>1, <4>2
      <4>4. TxnOK(s)'
        BY <2>1, <2>2, <2>4, <3>1, <4>2, <4>3
        DEF TxnOK, InTxn, Owns, Active, rows, owners
      <4> QED BY <4>1, <4>4
    <3>2. CASE s # r
      BY <2>1, <2>2, <2>3, <3>2, Bystander DEF rows, owners
    <3> QED BY <3>1, <3>2
  <2> QED BY <2>5, <2>6, <2>7 DEF SapInv
<1> QED BY <1>1, <1>2

LEMMA ReserveInv ==
    ASSUME TypeOK, SapInv, NEW r \in Req, Reserve(r)
    PROVE  SapInv'
<1>1. PICK n \in Pass :
        /\ FirstOf(Scan(r), n) /\ Unlocked(r, n)
        /\ new' = [new EXCEPT ![r] = n]
        /\ rowLock' = [rowLock EXCEPT ![n] = r]
  BY DEF Reserve
<1>2. /\ pc[r] = "reserve" /\ pc' = [pc EXCEPT ![r] = "commit"]
      /\ UNCHANGED <<rows, offbook, lock, key, want, cur, was, pages, given>>
  BY DEF Reserve, Goto
<1>3. status[n] = "available"
  BY <1>1 DEF FirstOf, Scan, Freeing, Free
<1>4. ASSUME NEW s \in Req \ {r}
      PROVE  /\ pc'[s] = pc[s] /\ new'[s] = new[s]
             /\ \A p \in Pass : rowLock[p] = s => rowLock'[p] = s
  BY <1>1, <1>2, SapAssumption DEF TypeOK, HandlersOK, Unlocked
<1>5. /\ pc'[r] = "commit" /\ new'[r] = n /\ rowLock'[n] = r
      /\ \A p \in Pass : p # n => rowLock'[p] = rowLock[p]
  BY <1>1, <1>2 DEF TypeOK, HandlersOK
<1>6. OwnedOnce'
  BY <1>2 DEF SapInv, OwnedOnce, rows, owners
<1>7. LockInv'
  <2>1. ASSUME NEW s \in Req, pc'[s] \in Locked
        PROVE  key'[s] \in Key /\ lock'[key'[s]] = s
    BY <2>1, <1>2, <1>4 DEF SapInv, LockInv, Locked
  <2>2. ASSUME NEW k \in Key, NEW s \in Req, lock'[k] = s
        PROVE  pc'[s] \in Locked /\ key'[s] = k
    BY <2>2, <1>2, <1>4, <1>5 DEF SapInv, LockInv, Locked
  <2>3. ASSUME NEW p \in Pass, NEW s \in Req, rowLock'[p] = s
        PROVE  pc'[s] \in InTxn
    BY <2>3, <1>2, <1>4, <1>5 DEF SapInv, LockInv, InTxn
  <2> QED BY <2>1, <2>2, <2>3 DEF LockInv
<1>8. ASSUME NEW s \in Req PROVE TaskOK(s)' /\ TxnOK(s)'
  <2>1. CASE s = r
    <3>1. TaskOK(s)'
      BY <1>5, <2>1 DEF TaskOK
    <3>2. TxnOK(r)
      BY DEF SapInv
    <3>3. cur[r] \in Pass \cup {0} /\ n # 0
      BY DEF TypeOK, HandlersOK, Pass
    <3>4. TxnOK(s)'
      BY <1>2, <1>3, <1>5, <2>1, <3>2, <3>3
      DEF TxnOK, InTxn, Owns, Active, rows, owners
    <3> QED BY <3>1, <3>4
  <2>2. CASE s # r
    BY <1>2, <1>4, <2>2, Bystander DEF rows, owners
  <2> QED BY <2>1, <2>2
<1> QED BY <1>6, <1>7, <1>8 DEF SapInv

(* What a commit writes, pass by pass.                                     *)
LEMMA CommitRows ==
    ASSUME TypeOK, SapInv, NEW r \in Req, Commit(r)
    PROVE  /\ new[r] \in Pass /\ key[r] \in Key /\ cur[r] # new[r]
           /\ status[new[r]] = "available"
           /\ sbId[new[r]] = Nobody /\ mail[new[r]] = Nobody
           /\ status'[new[r]] = "assigned"
           /\ sbId'[new[r]] = (IF key[r] \in Person THEN key[r] ELSE Nobody)
           /\ mail'[new[r]] = (IF key[r] \in Mail THEN key[r] ELSE Nobody)
           /\ cur[r] # 0 =>
                /\ cur[r] \in Pass /\ Owns(key[r], cur[r])
                /\ \/ /\ status[cur[r]] = "assigned" /\ was[r] = "assigned"
                      /\ status'[cur[r]] = "available"
                      /\ sbId'[cur[r]] = Nobody /\ mail'[cur[r]] = Nobody
                   \/ /\ status[cur[r]] = "received" /\ was[r] = "received"
                      /\ status'[cur[r]] = "burned"
                      /\ sbId'[cur[r]] = sbId[cur[r]] /\ mail'[cur[r]] = mail[cur[r]]
                      /\ superseded'[cur[r]] = new[r]
           /\ \A p \in Pass \ {cur[r], new[r]} :
                /\ status'[p] = status[p] /\ sbId'[p] = sbId[p] /\ mail'[p] = mail[p]
                /\ superseded'[p] = superseded[p]
<1>1. /\ pc[r] = "commit" /\ TxnOK(r)
      /\ cur[r] \in Pass \cup {0} /\ new[r] \in Pass \cup {0}
  BY DEF Commit, SapInv, TypeOK, HandlersOK
<1>2. new[r] \in Pass /\ status[new[r]] = "available"
  BY <1>1 DEF TxnOK
<1>3. key[r] \in Key
  BY <1>1 DEF SapInv, LockInv, Locked
<1>4. sbId[new[r]] = Nobody /\ mail[new[r]] = Nobody
  BY <1>2 DEF SapInv, OwnedOnce
<1>5. 0 \notin Pass
  BY DEF Pass
<1>6. cur[r] # 0 => /\ cur[r] \in Pass /\ Owns(key[r], cur[r])
                    /\ status[cur[r]] \in {"assigned", "received"}
                    /\ was[r] = status[cur[r]]
  BY <1>1 DEF TxnOK, InTxn, Active
<1>7. cur[r] # new[r]
  BY <1>2, <1>5, <1>6
<1>8. /\ status'[new[r]] = "assigned"
      /\ sbId'[new[r]] = (IF key[r] \in Person THEN key[r] ELSE Nobody)
      /\ mail'[new[r]] = (IF key[r] \in Mail THEN key[r] ELSE Nobody)
  BY <1>2, <1>4, <1>7 DEF Commit
<1>9. ASSUME cur[r] # 0, was[r] = "assigned"
      PROVE  /\ status'[cur[r]] = "available"
             /\ sbId'[cur[r]] = Nobody /\ mail'[cur[r]] = Nobody
  BY <1>6, <1>7, <1>9 DEF Commit
<1>10. ASSUME cur[r] # 0, was[r] = "received"
       PROVE  /\ status'[cur[r]] = "burned" /\ superseded'[cur[r]] = new[r]
              /\ sbId'[cur[r]] = sbId[cur[r]] /\ mail'[cur[r]] = mail[cur[r]]
  BY <1>6, <1>7, <1>10 DEF Commit
<1>11. ASSUME NEW p \in Pass \ {cur[r], new[r]}
       PROVE  /\ status'[p] = status[p] /\ sbId'[p] = sbId[p] /\ mail'[p] = mail[p]
              /\ superseded'[p] = superseded[p]
  BY <1>11 DEF Commit
<1> QED BY <1>2, <1>3, <1>4, <1>6, <1>7, <1>8, <1>9, <1>10, <1>11

(* A key is in one owner column only.                                      *)
LEMMA KeyColumns ==
    ASSUME NEW k \in Key
    PROVE  /\ k # Nobody
           /\ (k \in Person) # (k \in Mail)
BY SapAssumption DEF Key

LEMMA CommitInv ==
    ASSUME TypeOK, SapInv, NEW r \in Req, Commit(r)
    PROVE  SapInv'
<1>1. End(r) /\ pc[r] = "commit" /\ TxnOK(r)
  BY DEF Commit, SapInv
<1>2. OwnedOnce'
  <2>1. ASSUME NEW p \in Pass
        PROVE  IF status'[p] \in {"absent", "available"}
               THEN sbId'[p] = Nobody /\ mail'[p] = Nobody
               ELSE (sbId'[p] = Nobody) # (mail'[p] = Nobody)
    <3>1. CASE p = new[r]
      <4>1. key[r] # Nobody /\ ((key[r] \in Person) # (key[r] \in Mail))
        BY CommitRows, KeyColumns
      <4> QED BY <3>1, <4>1, CommitRows
    <3>2. CASE p = cur[r]
      <4>1. cur[r] # 0
        BY <3>2 DEF Pass
      <4>2. CASE was[r] = "assigned"
        BY <3>2, <4>1, <4>2, CommitRows
      <4>3. CASE was[r] # "assigned"
        <5>1. /\ status[p] = "received" /\ status'[p] = "burned"
              /\ sbId'[p] = sbId[p] /\ mail'[p] = mail[p]
          BY <3>2, <4>1, <4>3, CommitRows
        <5> QED BY <5>1 DEF SapInv, OwnedOnce
      <4> QED BY <4>2, <4>3
    <3>3. CASE p \notin {cur[r], new[r]}
      BY <3>3, CommitRows DEF SapInv, OwnedOnce
    <3> QED BY <3>1, <3>2, <3>3
  <2> QED BY <2>1 DEF OwnedOnce
<1>3. ASSUME NEW s \in Req PROVE TaskOK(s)' /\ TxnOK(s)'
  <2>1. CASE s = r
    BY <1>1, <2>1, EndLocks, IdleOK
  <2>2. CASE s # r
    <3>1. rowLock[new[r]] = r /\ (cur[r] # 0 => rowLock[cur[r]] = r)
      BY <1>1 DEF TxnOK, InTxn
    <3>2. \A p \in Pass : rowLock[p] = s =>
            /\ status'[p] = status[p] /\ sbId'[p] = sbId[p] /\ mail'[p] = mail[p]
      BY <2>2, <3>1, CommitRows DEF Pass
    <3>3. \A p \in Pass : status[p] \in {"received", "burned"} =>
            status'[p] \in {"received", "burned"}
      BY CommitRows DEF Pass
    <3> QED BY <1>1, <2>2, <3>2, <3>3, EndLocks, Bystander
  <2> QED BY <2>1, <2>2
<1> QED BY <1>1, <1>2, <1>3, EndLocks DEF SapInv

LEMMA UnassignInv ==
    ASSUME TypeOK, SapInv, NEW k \in Key, Unassign(k)
    PROVE  SapInv'
<1> DEFINE freed == {p \in Pass : Owns(k, p) /\ status[p] = "assigned"}
<1>1. /\ \A p \in freed : rowLock[p] = NoReq
      /\ \A p \in freed : status'[p] = "available" /\ sbId'[p] = Nobody /\ mail'[p] = Nobody
      /\ \A p \in Pass \ freed :
            status'[p] = status[p] /\ sbId'[p] = sbId[p] /\ mail'[p] = mail[p]
      /\ UNCHANGED <<locks, handler>>
  BY DEF Unassign
<1>2. \A p \in freed : status[p] = "assigned"
  OBVIOUS
<1> HIDE DEF freed
<1>3. OwnedOnce'
  BY <1>1 DEF SapInv, OwnedOnce
<1>4. LockInv'
  BY <1>1 DEF SapInv, LockInv, locks, handler
<1>5. ASSUME NEW s \in Req PROVE TaskOK(s)' /\ TxnOK(s)'
  <2>1. \A p \in Pass : rowLock[p] = s => p \notin freed
    BY <1>1, SapAssumption
  <2> QED BY <1>1, <1>2, <2>1, Bystander DEF locks, handler
<1> QED BY <1>3, <1>4, <1>5 DEF SapInv

LEMMA FlipInv ==
    ASSUME TypeOK, SapInv, NEW r \in Req, IssueFlip(r) \/ EmailFlip(r)
    PROVE  SapInv'
<1>1. CASE UNCHANGED rows /\ End(r)
  BY <1>1, QuietEndInv
<1>2. CASE ~ (UNCHANGED rows /\ End(r))
  <2>1. PICK how \in {"download", "email"}, at \in {"serve", "enqueue"} :
          /\ Flip(r, cur[r], how)
          /\ Goto(r, at)
          /\ UNCHANGED <<owners, superseded, ticket, locks, key, want, cur, was, new, pages>>
    BY <1>2 DEF IssueFlip, EmailFlip
  <2>2. pc[r] \in {"issue", "flip"}
    BY DEF IssueFlip, EmailFlip
  <2>3. cur[r] \in Pass /\ key[r] \in Key
    BY <2>2 DEF SapInv, TaskOK, TypeOK, HandlersOK
  <2>4. /\ status[cur[r]] = "assigned" /\ rowLock[cur[r]] = NoReq
        /\ status'[cur[r]] = "received"
        /\ \A p \in Pass \ {cur[r]} : status'[p] = status[p]
    BY <2>1, <2>3 DEF Flip, TypeOK, RowsOK
  <2>5. pc'[r] = at /\ \A s \in Req \ {r} : pc'[s] = pc[s]
    BY <2>1 DEF Goto, TypeOK, HandlersOK
  <2>6. OwnedOnce'
    BY <2>1, <2>4 DEF SapInv, OwnedOnce, owners
  <2>7. LockInv'
    BY <2>1, <2>2, <2>5 DEF SapInv, LockInv, locks, Locked, InTxn
  <2>8. ASSUME NEW s \in Req PROVE TaskOK(s)' /\ TxnOK(s)'
    <3>1. CASE s = r
      BY <2>1, <2>3, <2>4, <2>5, <3>1 DEF TaskOK, TxnOK, InTxn, Pass
    <3>2. CASE s # r
      <4>1. \A p \in Pass : rowLock[p] = s => p # cur[r]
        BY <2>4, SapAssumption
      <4> QED BY <2>1, <2>4, <2>5, <3>2, <4>1, Bystander DEF owners, locks
    <3> QED BY <3>1, <3>2
  <2> QED BY <2>6, <2>7, <2>8 DEF SapInv
<1> QED BY <1>1, <1>2

LEMMA UploadInsertInv ==
    ASSUME TypeOK, SapInv, NEW r \in Req, UploadInsert(r)
    PROVE  SapInv'
<1>1. CASE End(r) /\ UNCHANGED rows
  BY <1>1, QuietEndInv
<1>2. CASE ~ (End(r) /\ UNCHANGED rows)
  <2>1. PICK p \in Pass :
          /\ status[p] = "absent"
          /\ status' = [status EXCEPT ![p] = "available"]
          /\ End(r) \/ UNCHANGED <<locks, pc, key, want, cur, was, new>>
          /\ UNCHANGED owners
    BY <1>2 DEF UploadInsert
  <2>2. status'[p] = "available" /\ \A q \in Pass \ {p} : status'[q] = status[q]
    BY <2>1 DEF TypeOK, RowsOK
  <2>3. OwnedOnce'
    BY <2>1, <2>2 DEF SapInv, OwnedOnce, owners
  <2>4. ASSUME NEW s \in Req, pc'[s] = pc[s], s # r \/ ~ End(r)
        PROVE  TaskOK(s)' /\ TxnOK(s)'
    <3>1. cur[s] \in Pass \cup {0} /\ new[s] \in Pass \cup {0}
      BY DEF TypeOK, HandlersOK
    <3>2. TaskOK(s) /\ TxnOK(s)
      BY DEF SapInv
    <3>3. /\ key'[s] = key[s] /\ cur'[s] = cur[s] /\ was'[s] = was[s] /\ new'[s] = new[s]
          /\ \A q \in Pass : rowLock[q] = s => rowLock'[q] = s
      BY <2>1, <2>4, EndLocks DEF locks
    <3>4. TaskOK(s)'
      BY <2>1, <2>2, <2>4, <3>1, <3>2, <3>3 DEF TaskOK
    <3>5. TxnOK(s)'
      BY <2>1, <2>2, <2>4, <3>1, <3>2, <3>3 DEF TxnOK, Owns, Active, InTxn, owners
    <3> QED BY <3>4, <3>5
  <2>5. CASE End(r)
    <3>1. ASSUME NEW s \in Req PROVE TaskOK(s)' /\ TxnOK(s)'
      BY <2>4, <2>5, EndLocks, IdleOK
    <3> QED BY <2>3, <2>5, <3>1, EndLocks DEF SapInv
  <2>6. CASE ~ End(r)
    <3>1. UNCHANGED <<locks, pc, key>>
      BY <2>1, <2>6
    <3>2. LockInv'
      BY <3>1 DEF SapInv, LockInv, locks
    <3>3. ASSUME NEW s \in Req PROVE TaskOK(s)' /\ TxnOK(s)'
      BY <2>4, <2>6, <3>1
    <3> QED BY <2>3, <3>2, <3>3 DEF SapInv
  <2> QED BY <2>5, <2>6
<1> QED BY <1>1, <1>2

LEMMA LinkMoveInv ==
    ASSUME TypeOK, SapInv, NEW r \in Req, LinkMove(r)
    PROVE  SapInv'
<1> DEFINE moved == {p \in Pass : mail[p] = key[r] /\ sbId[p] = Nobody}
<1>1. /\ pc[r] = "move" /\ pc' = [pc EXCEPT ![r] = "flag"]
      /\ \A p \in moved : /\ rowLock[p] = NoReq
                          /\ sbId'[p] = Account[key[r]] /\ mail'[p] = Nobody
      /\ \A p \in Pass \ moved : sbId'[p] = sbId[p] /\ mail'[p] = mail[p]
      /\ UNCHANGED <<status, locks, key, cur, was, new>>
  BY DEF LinkMove, Goto
<1>2. key[r] \in Mail /\ Account[key[r]] \in Person
  BY <1>1, SapAssumption DEF SapInv, TaskOK
<1>3. key[r] # Nobody /\ Account[key[r]] # Nobody
  BY <1>2, SapAssumption
<1>4. \A p \in moved : p \in Pass /\ mail[p] # Nobody
  BY <1>3
<1> HIDE DEF moved
<1>5. pc'[r] = "flag" /\ \A s \in Req \ {r} : pc'[s] = pc[s]
  BY <1>1 DEF TypeOK, HandlersOK
<1>6. OwnedOnce'
  <2>1. ASSUME NEW p \in Pass
        PROVE  IF status'[p] \in {"absent", "available"}
               THEN sbId'[p] = Nobody /\ mail'[p] = Nobody
               ELSE (sbId'[p] = Nobody) # (mail'[p] = Nobody)
    <3>1. CASE p \in moved
      <4>1. status[p] \notin {"absent", "available"}
        BY <3>1, <1>4 DEF SapInv, OwnedOnce
      <4> QED BY <3>1, <4>1, <1>1, <1>3
    <3>2. CASE p \notin moved
      BY <3>2, <1>1 DEF SapInv, OwnedOnce
    <3> QED BY <3>1, <3>2
  <2> QED BY <2>1 DEF OwnedOnce
<1>7. LockInv'
  BY <1>1, <1>5 DEF SapInv, LockInv, locks, Locked, InTxn
<1>8. ASSUME NEW s \in Req PROVE TaskOK(s)' /\ TxnOK(s)'
  <2>1. CASE s = r
    BY <1>1, <1>2, <1>5, <2>1 DEF TaskOK, TxnOK, InTxn
  <2>2. CASE s # r
    <3>1. \A p \in Pass : rowLock[p] = s => p \notin moved
      BY <1>1, SapAssumption
    <3> QED BY <1>1, <1>5, <2>2, <3>1, Bystander DEF locks
  <2> QED BY <2>1, <2>2
<1> QED BY <1>6, <1>7, <1>8 DEF SapInv

(* Every handler step, and the steps that belong to no handler.            *)
LEMMA StepInv ==
    ASSUME TypeOK, SapInv, NEW r \in Req, Step(r)
    PROVE  SapInv'
<1>1. CASE UploadInsert(r)
  BY <1>1, UploadInsertInv
<1>2. CASE GetLock(r)
  BY <1>2, GetLockInv
<1>3. CASE ReadCurrent(r)
  BY <1>3, ReadCurrentInv
<1>4. CASE Reserve(r)
  BY <1>4, ReserveInv
<1>5. CASE Commit(r)
  BY <1>5, CommitInv
<1>6. CASE IssueFlip(r) \/ EmailFlip(r)
  BY <1>6, FlipInv
<1>7. CASE LinkMove(r)
  BY <1>7, LinkMoveInv
<1>8. CASE Busy(r) \/ NothingFree(r) \/ IssueServe(r) \/ EmailEnqueue(r) \/ LinkFlag(r)
  BY <1>8, QuietEndInv DEF Busy, NothingFree, IssueServe, EmailEnqueue, LinkFlag
<1> QED BY <1>1, <1>2, <1>3, <1>4, <1>5, <1>6, <1>7, <1>8 DEF Step

LEMMA StillInv ==
    ASSUME TypeOK, SapInv, UNCHANGED <<rows, locks, handler>>
    PROVE  SapInv'
<1>1. OwnedOnce'
  BY DEF SapInv, OwnedOnce, rows, owners
<1>2. LockInv'
  BY DEF SapInv, LockInv, locks, handler
<1>3. ASSUME NEW s \in Req PROVE TaskOK(s)' /\ TxnOK(s)'
  BY Bystander DEF rows, owners, locks, handler
<1> QED BY <1>1, <1>2, <1>3 DEF SapInv

LEMMA StepType ==
    ASSUME TypeOK, SapInv, NEW r \in Req, Step(r)
    PROVE  TypeOK'
<1>1. CASE UploadInsert(r)
  BY <1>1, UploadInsertType
<1>2. CASE GetLock(r)
  BY <1>2, GetLockType
<1>3. CASE ReadCurrent(r)
  BY <1>3, ReadCurrentType
<1>4. CASE Reserve(r)
  BY <1>4, ReserveType
<1>5. CASE Commit(r)
  BY <1>5, CommitType DEF SapInv, TxnOK, Commit
<1>6. CASE IssueFlip(r) \/ EmailFlip(r)
  BY <1>6, FlipType DEF SapInv, TaskOK, IssueFlip, EmailFlip
<1>7. CASE IssueServe(r) \/ EmailEnqueue(r)
  BY <1>7, DeliverType DEF SapInv, TaskOK, IssueServe, EmailEnqueue
<1>8. CASE LinkMove(r) \/ LinkFlag(r)
  BY <1>8, LinkType DEF SapInv, TaskOK, LinkMove, LinkFlag
<1>9. CASE Busy(r) \/ NothingFree(r)
  BY <1>9, QuietEndType DEF Busy, NothingFree
<1> QED BY <1>1, <1>2, <1>3, <1>4, <1>5, <1>6, <1>7, <1>8, <1>9 DEF Step

LEMMA NextInv == TypeOK /\ SapInv /\ [Next]_vars => TypeOK' /\ SapInv'
<1> SUFFICES ASSUME TypeOK, SapInv, [Next]_vars PROVE TypeOK' /\ SapInv'
  OBVIOUS
<1>1. ASSUME NEW r \in Req, Begins(r) PROVE TypeOK' /\ SapInv'
  BY <1>1, BeginsType, BeginsInv
<1>2. ASSUME NEW r \in Req, Step(r) PROVE TypeOK' /\ SapInv'
  BY <1>2, StepType, StepInv
<1>3. ASSUME NEW r \in Req, Fail(r) \/ DeadlockVictim(r) PROVE TypeOK' /\ SapInv'
  BY <1>3, QuietEndType, QuietEndInv DEF Fail, DeadlockVictim
<1>4. ASSUME NEW k \in Key, Unassign(k) PROVE TypeOK' /\ SapInv'
  BY <1>4, UnassignType, UnassignInv
<1>5. ASSUME NEW m \in Mail, AddOffbook(m) PROVE TypeOK' /\ SapInv'
  BY <1>5, AddOffbookType, StillInv DEF AddOffbook
<1>6. ASSUME NEW p \in Pass, SelfDownload(p) PROVE TypeOK' /\ SapInv'
  BY <1>6, SelfDownloadType, StillInv DEF SelfDownload
<1>7. CASE UNCHANGED vars
  <2>1. TypeOK'
    BY <1>7 DEF vars, rows, owners, locks, handler, TypeOK, RowsOK, HandlersOK
  <2>2. SapInv'
    BY <1>7, StillInv DEF vars
  <2> QED BY <2>1, <2>2
<1> QED BY <1>1, <1>2, <1>3, <1>4, <1>5, <1>6, <1>7 DEF Next

(* Every variable of the pool keeps its type, and the locks mean what the  *)
(* code believes of them, whatever is interleaved.                         *)
THEOREM LocksHold == Spec => [](TypeOK /\ SapInv)
<1>1. Init => TypeOK /\ SapInv
  BY InitTypeOK, InitSapInv
<1> QED BY <1>1, NextInv, PTL DEF Spec

(* Types, and OwnedOnce: the two owner columns of op_saps never contradict *)
(* each other or the status.                                               *)
THEOREM TypeCorrect == Spec => []TypeOK
BY LocksHold, PTL

THEOREM PassesOwnedOnce == Spec => []OwnedOnce
<1>1. SapInv => OwnedOnce
  BY DEF SapInv
<1> QED BY <1>1, LocksHold, PTL

-----------------------------------------------------------------------------
(* What was handed out stays locked.                                       *)

IssuedStep == \A p \in Pass :
    /\ status[p] = "received" /\ status'[p] # "received" =>
        /\ status'[p] = "burned"
        /\ \E q \in Pass : /\ superseded'[p] = q /\ status'[q] = "assigned"
                           /\ sbId'[q] = sbId[p] /\ mail'[q] = mail[p]
    /\ status[p] = "burned" =>
        status'[p] = "burned" /\ superseded'[p] = superseded[p]

LEMMA CommitIssued ==
    ASSUME TypeOK, SapInv, NEW r \in Req, Commit(r)
    PROVE  IssuedStep
<1>1. ASSUME NEW p \in Pass, status[p] = "received", status'[p] # "received"
      PROVE  /\ status'[p] = "burned"
             /\ \E q \in Pass : /\ superseded'[p] = q /\ status'[q] = "assigned"
                                /\ sbId'[q] = sbId[p] /\ mail'[q] = mail[p]
  <2>1. p = cur[r] /\ cur[r] # 0
    BY <1>1, CommitRows DEF Pass
  <2>2. status'[p] = "burned" /\ superseded'[p] = new[r] /\ Owns(key[r], p)
    BY <1>1, <2>1, CommitRows
  <2>3. (sbId[p] = Nobody) # (mail[p] = Nobody)
    BY <1>1 DEF SapInv, OwnedOnce
  <2>4. key[r] \in Key /\ key[r] # Nobody /\ ((key[r] \in Person) # (key[r] \in Mail))
    BY CommitRows, KeyColumns
  <2>5. sbId[p] = (IF key[r] \in Person THEN key[r] ELSE Nobody)
    BY <2>2, <2>3, <2>4 DEF Owns
  <2>6. mail[p] = (IF key[r] \in Mail THEN key[r] ELSE Nobody)
    BY <2>2, <2>3, <2>4 DEF Owns
  <2> QED BY <2>2, <2>5, <2>6, CommitRows
<1>2. ASSUME NEW p \in Pass, status[p] = "burned"
      PROVE  status'[p] = "burned" /\ superseded'[p] = superseded[p]
  BY <1>2, CommitRows DEF Pass
<1> QED BY <1>1, <1>2 DEF IssuedStep

LEMMA NextIssued == TypeOK /\ SapInv /\ [Next]_vars => IssuedStep
<1> SUFFICES ASSUME TypeOK, SapInv, [Next]_vars PROVE IssuedStep
  OBVIOUS
<1>1. ASSUME UNCHANGED <<status, superseded>> PROVE IssuedStep
  BY <1>1 DEF IssuedStep
<1>2. ASSUME NEW r \in Req, Begins(r) PROVE IssuedStep
  BY <1>2, <1>1 DEF Begins, UploadBegin, AssignBegin, AssignAuto, IssueBegin,
     EmailBegin, LinkBegin, Begin, rows
<1>3. ASSUME NEW r \in Req, Commit(r) PROVE IssuedStep
  BY <1>3, CommitIssued
<1>4. ASSUME NEW r \in Req, IssueFlip(r) \/ EmailFlip(r) PROVE IssuedStep
  <2>1. UNCHANGED rows \/ \E how \in {"download", "email"} :
            Flip(r, cur[r], how) /\ UNCHANGED superseded
    BY <1>4 DEF IssueFlip, EmailFlip
  <2> QED BY <2>1, <1>1 DEF rows, Flip, IssuedStep, TypeOK, RowsOK
<1>5. ASSUME NEW r \in Req, UploadInsert(r) PROVE IssuedStep
  <2>1. UNCHANGED rows \/ \E p \in Pass : /\ status[p] = "absent"
                                          /\ status' = [status EXCEPT ![p] = "available"]
                                          /\ UNCHANGED superseded
    BY <1>5 DEF UploadInsert
  <2> QED BY <2>1, <1>1 DEF rows, IssuedStep, TypeOK, RowsOK
<1>6. ASSUME NEW r \in Req,
             \/ GetLock(r) \/ Busy(r) \/ ReadCurrent(r) \/ Reserve(r) \/ NothingFree(r)
             \/ IssueServe(r) \/ EmailEnqueue(r) \/ LinkMove(r) \/ LinkFlag(r)
             \/ Fail(r) \/ DeadlockVictim(r)
      PROVE IssuedStep
  <2>1. UNCHANGED <<status, superseded>>
    BY <1>6 DEF GetLock, Busy, ReadCurrent, Reserve, NothingFree, IssueServe,
       EmailEnqueue, LinkMove, LinkFlag, Fail, DeadlockVictim, rows
  <2> QED BY <2>1, <1>1
<1>7. ASSUME NEW k \in Key, Unassign(k) PROVE IssuedStep
  BY <1>7 DEF Unassign, IssuedStep
<1>8. ASSUME \/ \E m \in Mail : AddOffbook(m)
             \/ \E p \in Pass : SelfDownload(p)
             \/ UNCHANGED vars
      PROVE  IssuedStep
  BY <1>8, <1>1 DEF AddOffbook, SelfDownload, vars, rows
<1> QED BY <1>2, <1>3, <1>4, <1>5, <1>6, <1>7, <1>8 DEF Next, Step

(* A received pass is only ever replaced, by one of the same owner, and a  *)
(* burned one stays burned: the lock of api/saps, for every set of         *)
(* operations, the off-book link included.                                 *)
THEOREM IssuedPassesStay == Spec => IssuedForGood
<1>1. TypeOK /\ SapInv /\ [Next]_vars => [IssuedStep]_vars
  BY NextIssued
<1> QED BY <1>1, LocksHold, PTL DEF Spec, IssuedForGood, IssuedStep

-----------------------------------------------------------------------------
(* No assign ends by taking a pass away.                                   *)

HandedStep == \A r \in Req :
    pc[r] \in InTxn /\ pc'[r] = "idle" /\ Current(key[r]) # {} =>
        \E p \in Pass : /\ status'[p] \in {"assigned", "received"}
                        /\ IF key[r] \in Mail THEN mail'[p] = key[r]
                                              ELSE sbId'[p] = key[r]

LEMMA NextHanded == TypeOK /\ SapInv /\ [Next]_vars => HandedStep
<1> SUFFICES ASSUME TypeOK, SapInv, [Next]_vars PROVE HandedStep
  OBVIOUS
<1>0. pc \in [Req -> Pc]
  BY DEF TypeOK, HandlersOK
<1>1. ASSUME UNCHANGED rows PROVE HandedStep
  BY <1>1 DEF HandedStep, rows, owners, Current, Owns, Active
<1>2. ASSUME \A r \in Req : pc[r] \in InTxn => pc'[r] # "idle" PROVE HandedStep
  BY <1>2 DEF HandedStep
<1>3. ASSUME NEW q \in Req, Commit(q) PROVE HandedStep
  <2>1. /\ new[q] \in Pass /\ key[q] \in Key /\ status'[new[q]] = "assigned"
        /\ sbId'[new[q]] = (IF key[q] \in Person THEN key[q] ELSE Nobody)
        /\ mail'[new[q]] = (IF key[q] \in Mail THEN key[q] ELSE Nobody)
    BY <1>3, CommitRows
  <2>2. \A r \in Req \ {q} : pc'[r] = pc[r]
    BY <1>0, <1>3 DEF Commit, End
  <2> QED BY <2>1, <2>2, KeyColumns DEF HandedStep, InTxn
<1>4. ASSUME NEW q \in Req, UploadInsert(q) \/ IssueFlip(q) \/ EmailFlip(q) \/ LinkMove(q)
      PROVE  HandedStep
  <2>1. \A r \in Req \ {q} : pc'[r] = pc[r]
    BY <1>0, <1>4 DEF UploadInsert, IssueFlip, EmailFlip, LinkMove, End, Goto
  <2>2. pc[q] \notin InTxn
    BY <1>4 DEF UploadInsert, IssueFlip, EmailFlip, LinkMove, InTxn
  <2> QED BY <2>1, <2>2, <1>2 DEF InTxn
<1>5. ASSUME NEW k \in Key, Unassign(k) PROVE HandedStep
  <2>1. UNCHANGED pc
    BY <1>5 DEF Unassign, handler
  <2> QED BY <2>1, <1>2 DEF InTxn
<1>6. ASSUME NEW q \in Req,
             \/ Begins(q) \/ GetLock(q) \/ Busy(q) \/ ReadCurrent(q) \/ Reserve(q)
             \/ NothingFree(q) \/ IssueServe(q) \/ EmailEnqueue(q) \/ LinkFlag(q)
             \/ Fail(q) \/ DeadlockVictim(q)
      PROVE  HandedStep
  <2>1. UNCHANGED rows
    BY <1>6 DEF Begins, UploadBegin, AssignBegin, AssignAuto, IssueBegin, EmailBegin,
       LinkBegin, Begin, GetLock, Busy, ReadCurrent, Reserve, NothingFree, IssueServe,
       EmailEnqueue, LinkFlag, Fail, DeadlockVictim
  <2> QED BY <2>1, <1>1
<1>7. ASSUME \/ \E m \in Mail : AddOffbook(m)
             \/ \E p \in Pass : SelfDownload(p)
             \/ UNCHANGED vars
      PROVE  HandedStep
  BY <1>7, <1>1 DEF AddOffbook, SelfDownload, vars
<1> QED BY <1>3, <1>4, <1>5, <1>6, <1>7 DEF Next, Step

(* "rolled back automatically if the new reservation fails": whatever ends *)
(* the transaction of doAssign, whoever it is for has a pass afterwards if *)
(* she had one before; for every set of operations.                        *)
THEOREM NobodyEmptyHanded == Spec => NeverEmptyHanded
<1>1. TypeOK /\ SapInv /\ [Next]_vars => [HandedStep]_vars
  BY NextHanded
<1> QED BY <1>1, LocksHold, PTL DEF Spec, NeverEmptyHanded, HandedStep

-----------------------------------------------------------------------------
(* Without the volunteers' own downloads, a pass that can return to the    *)
(* pool was handed to nobody.                                              *)

LEMMA NextUnseen ==
    ASSUME "self" \notin Ops, TypeOK, SapInv, AssignedUnseen, [Next]_vars
    PROVE  AssignedUnseen'
<1>1. ASSUME UNCHANGED <<status, given>> PROVE AssignedUnseen'
  BY <1>1 DEF AssignedUnseen
<1>2. ASSUME NEW r \in Req, Begins(r) PROVE AssignedUnseen'
  BY <1>2, <1>1 DEF Begins, UploadBegin, AssignBegin, AssignAuto, IssueBegin,
     EmailBegin, LinkBegin, Begin, rows
<1>3. ASSUME NEW r \in Req, Commit(r) PROVE AssignedUnseen'
  <2>1. UNCHANGED given
    BY <1>3 DEF Commit
  <2>2. \A p \in Pass : status'[p] \in {"absent", "available", "assigned"} =>
            status[p] \in {"absent", "available", "assigned"}
    BY <1>3, CommitRows DEF Pass
  <2> QED BY <2>1, <2>2 DEF AssignedUnseen
<1>4. ASSUME NEW r \in Req, IssueFlip(r) \/ EmailFlip(r) PROVE AssignedUnseen'
  <2>1. UNCHANGED given /\ (UNCHANGED rows \/
            status' = [status EXCEPT ![cur[r]] = "received"])
    BY <1>4 DEF IssueFlip, EmailFlip, Flip
  <2> QED BY <2>1, <1>1 DEF rows, AssignedUnseen, TypeOK, RowsOK
<1>5. ASSUME NEW r \in Req, UploadInsert(r) PROVE AssignedUnseen'
  <2>1. UNCHANGED given /\ (UNCHANGED rows \/ \E p \in Pass :
            status[p] = "absent" /\ status' = [status EXCEPT ![p] = "available"])
    BY <1>5 DEF UploadInsert
  <2> QED BY <2>1, <1>1 DEF rows, AssignedUnseen, TypeOK, RowsOK
<1>6. ASSUME NEW r \in Req, IssueServe(r) \/ EmailEnqueue(r) PROVE AssignedUnseen'
  <2>1. status[cur[r]] \in {"received", "burned"}
    BY <1>6 DEF IssueServe, EmailEnqueue, SapInv, TaskOK
  <2>2. UNCHANGED status /\ \A p \in Pass : p # cur[r] => given'[p] = given[p]
    BY <1>6 DEF IssueServe, EmailEnqueue, HandTo, rows, TypeOK, RowsOK
  <2> QED BY <2>1, <2>2 DEF AssignedUnseen
<1>7. ASSUME NEW r \in Req,
             \/ GetLock(r) \/ Busy(r) \/ ReadCurrent(r) \/ Reserve(r) \/ NothingFree(r)
             \/ LinkMove(r) \/ LinkFlag(r) \/ Fail(r) \/ DeadlockVictim(r)
      PROVE  AssignedUnseen'
  <2>1. UNCHANGED <<status, given>>
    BY <1>7 DEF GetLock, Busy, ReadCurrent, Reserve, NothingFree,
       LinkMove, LinkFlag, Fail, DeadlockVictim, rows
  <2> QED BY <2>1, <1>1
<1>8. ASSUME NEW k \in Key, Unassign(k) PROVE AssignedUnseen'
  BY <1>8 DEF Unassign, AssignedUnseen
<1>9. ASSUME \/ \E m \in Mail : AddOffbook(m)
             \/ \E p \in Pass : SelfDownload(p)
             \/ UNCHANGED vars
      PROVE  AssignedUnseen'
  BY <1>9, <1>1 DEF AddOffbook, SelfDownload, vars, rows
<1> QED BY <1>2, <1>3, <1>4, <1>5, <1>6, <1>7, <1>8, <1>9 DEF Next, Step

(* "Only an 'assigned' (not yet downloaded/emailed) SAP can be released":  *)
(* true of every operation of the SAP page.                                *)
THEOREM ReleasedUnseen ==
    ASSUME "self" \notin Ops
    PROVE  Spec => []AssignedUnseen
<1>1. Init => AssignedUnseen
  BY DEF Init, AssignedUnseen
<1>2. TypeOK /\ SapInv /\ AssignedUnseen /\ [Next]_vars => AssignedUnseen'
  BY NextUnseen
<1> QED BY <1>1, <1>2, LocksHold, PTL DEF Spec

-----------------------------------------------------------------------------
(* One active pass, and the ledger.                                        *)

(* The owner columns and the ledger's holder say the same.                 *)
LEMMA HolderOwns ==
    ASSUME TypeOK, OwnedOnce, NEW p \in Pass, Active(p), NEW k \in Key
    PROVE  /\ Owns(k, p) <=> Holder(p) = k
           /\ Holder(p) \in Key
<1>1. (sbId[p] = Nobody) # (mail[p] = Nobody)
  BY DEF OwnedOnce, Active
<1>2. sbId[p] \in Person \cup {Nobody} /\ mail[p] \in Mail \cup {Nobody}
  BY DEF TypeOK, RowsOK
<1>3. Holder(p) \in Key
  BY <1>1, <1>2 DEF Holder, Key
<1>4. CASE k \in Mail
  <2>1. k # Nobody /\ k \notin Person
    BY <1>4, SapAssumption
  <2> QED BY <1>1, <1>2, <1>3, <1>4, <2>1 DEF Owns, Holder
<1>5. CASE k \notin Mail
  <2>1. k # Nobody
    BY SapAssumption DEF Key
  <2> QED BY <1>1, <1>2, <1>3, <1>5, <2>1 DEF Owns, Holder
<1> QED BY <1>3, <1>4, <1>5

(* A step that gives nobody a pass and starts no transaction.              *)
LEMMA PoolFrame ==
    ASSUME TypeOK, PoolInv,
           \A p \in Pass : Active(p)' =>
               Active(p) /\ sbId'[p] = sbId[p] /\ mail'[p] = mail[p],
           \A r \in Req : pc'[r] \in InTxn =>
               pc[r] \in InTxn /\ key'[r] = key[r] /\ cur'[r] = cur[r],
           \A r \in Req : pc'[r] \notin {"move", "flag"}
    PROVE  PoolInv'
<1>1. OneActivePass'
  BY DEF PoolInv, OneActivePass, Holder
<1>2. TargetInv'
  <2>1. ASSUME NEW r \in Req, pc'[r] \in InTxn, NEW p \in Pass,
               Owns(key[r], p)', Active(p)'
        PROVE  p = cur'[r]
    <3>1. Owns(key[r], p) /\ Active(p)
      BY <2>1 DEF Owns
    <3>2. Current(key[r]) \subseteq {cur[r]}
      BY <2>1 DEF PoolInv, TargetInv
    <3> QED BY <2>1, <3>1, <3>2 DEF Current
  <2> QED BY <2>1 DEF TargetInv, Current
<1> QED BY <1>1, <1>2 DEF PoolInv, NoLink

(* A handler that ends or moves on, with the rows as they were.            *)
LEMMA EndPool ==
    ASSUME TypeOK, PoolInv, NEW r \in Req, End(r),
           \A p \in Pass : Active(p)' =>
               Active(p) /\ sbId'[p] = sbId[p] /\ mail'[p] = mail[p]
    PROVE  PoolInv'
<1>1. pc'[r] = "idle" /\ \A s \in Req \ {r} :
          pc'[s] = pc[s] /\ key'[s] = key[s] /\ cur'[s] = cur[s]
  BY DEF End, TypeOK, HandlersOK
<1>2. \A s \in Req : pc'[s] \in InTxn =>
          pc[s] \in InTxn /\ key'[s] = key[s] /\ cur'[s] = cur[s]
  BY <1>1 DEF InTxn
<1>3. \A s \in Req : pc'[s] \notin {"move", "flag"}
  BY <1>1 DEF PoolInv, NoLink
<1> QED BY <1>2, <1>3, PoolFrame

LEMMA MovePool ==
    ASSUME TypeOK, PoolInv, NEW r \in Req, NEW at \in Pc \ {"move", "flag"},
           pc' = [pc EXCEPT ![r] = at], at \in InTxn => pc[r] \in InTxn,
           \A s \in Req : pc'[s] \in InTxn => key'[s] = key[s] /\ cur'[s] = cur[s],
           \A p \in Pass : Active(p)' =>
               Active(p) /\ sbId'[p] = sbId[p] /\ mail'[p] = mail[p]
    PROVE  PoolInv'
<1>1. \A s \in Req : pc'[s] = IF s = r THEN at ELSE pc[s]
  BY DEF TypeOK, HandlersOK
<1>2. \A s \in Req : pc'[s] \in InTxn =>
          pc[s] \in InTxn /\ key'[s] = key[s] /\ cur'[s] = cur[s]
  BY <1>1
<1>3. \A s \in Req : pc'[s] \notin {"move", "flag"}
  BY <1>1 DEF PoolInv, NoLink
<1> QED BY <1>2, <1>3, PoolFrame

LEMMA BeginsPool ==
    ASSUME "link" \notin Ops, TypeOK, PoolInv, NEW r \in Req, Begins(r)
    PROVE  PoolInv'
<1>1. PICK at \in {"insert", "lock", "issue", "flip", "enqueue"} :
        /\ pc' = [pc EXCEPT ![r] = at]
        /\ \A s \in Req \ {r} : key'[s] = key[s] /\ cur'[s] = cur[s]
        /\ UNCHANGED rows
  BY DEF Begins, UploadBegin, AssignBegin, AssignAuto, IssueBegin, EmailBegin,
     LinkBegin, Begin, Goto, TypeOK, HandlersOK
<1>2. at \in Pc \ {"move", "flag"} /\ at \notin InTxn
  BY DEF Pc, InTxn
<1>3. \A s \in Req : pc'[s] \in InTxn => key'[s] = key[s] /\ cur'[s] = cur[s]
  BY <1>1, <1>2 DEF TypeOK, HandlersOK
<1> QED BY <1>1, <1>2, <1>3, MovePool DEF rows, owners, Active

(* The transaction learns the active pass of its target, and there is no   *)
(* other.                                                                  *)
LEMMA ReadCurrentPool ==
    ASSUME TypeOK, SapInv, PoolInv, NEW r \in Req, ReadCurrent(r)
    PROVE  PoolInv'
<1>1. UNCHANGED <<status, sbId, mail>>
  BY DEF ReadCurrent, rows, owners
<1>2. CASE End(r)
  BY <1>1, <1>2, EndPool DEF Active
<1>3. CASE ~ End(r)
  <2>1. PICK c \in (IF Current(key[r]) = {} THEN {0} ELSE Current(key[r])) :
          /\ cur' = [cur EXCEPT ![r] = c]
          /\ pc' = [pc EXCEPT ![r] = "reserve"]
          /\ UNCHANGED key
    BY <1>3 DEF ReadCurrent, Goto
  <2>2. key[r] \in Key
    BY DEF ReadCurrent, SapInv, LockInv, Locked
  <2>3. Current(key[r]) \subseteq {c}
    <3>1. ASSUME NEW p \in Current(key[r]) PROVE p = c
      <4>1. c \in Current(key[r])
        BY <2>1, <3>1
      <4>2. Holder(p) = key[r] /\ Holder(c) = key[r]
        BY <2>2, <3>1, <4>1, HolderOwns DEF Current, SapInv
      <4> QED BY <3>1, <4>1, <4>2 DEF PoolInv, OneActivePass, Current
    <3> QED BY <3>1
  <2>4. OneActivePass'
    BY <1>1 DEF PoolInv, OneActivePass, Active, Holder
  <2>5. \A s \in Req : /\ pc'[s] = IF s = r THEN "reserve" ELSE pc[s]
                       /\ cur'[s] = IF s = r THEN c ELSE cur[s]
    BY <2>1 DEF TypeOK, HandlersOK
  <2>6. \A k : Current(k)' = Current(k)
    BY <1>1 DEF Current, Owns, Active
  <2>7. TargetInv'
    BY <2>1, <2>3, <2>5, <2>6 DEF PoolInv, TargetInv
  <2>8. NoLink'
    BY <2>5 DEF PoolInv, NoLink
  <2> QED BY <2>4, <2>7, <2>8 DEF PoolInv
<1> QED BY <1>2, <1>3

(* A commit swaps the active pass of its own target, and the other         *)
(* transactions work for other targets.                                    *)
LEMMA CommitPool ==
    ASSUME TypeOK, SapInv, PoolInv, NEW r \in Req, Commit(r)
    PROVE  PoolInv'
<1>1. End(r) /\ pc[r] = "commit" /\ key[r] \in Key /\ lock[key[r]] = r
  BY DEF Commit, SapInv, LockInv, Locked
<1>2. pc'[r] = "idle" /\ \A s \in Req \ {r} :
          pc'[s] = pc[s] /\ key'[s] = key[s] /\ cur'[s] = cur[s]
  BY <1>1 DEF End, TypeOK, HandlersOK
<1>3. ASSUME NEW p \in Pass, p = new[r] PROVE Holder(p)' = key[r]
  <2>1. key[r] # Nobody /\ ((key[r] \in Person) # (key[r] \in Mail))
    BY <1>1, KeyColumns
  <2> QED BY <1>3, <2>1, CommitRows DEF Holder
<1>4. ASSUME NEW p \in Pass, Active(p)', p # new[r]
      PROVE  /\ Active(p) /\ sbId'[p] = sbId[p] /\ mail'[p] = mail[p]
             /\ p # cur[r]
  <2>1. p # cur[r]
    BY <1>4, CommitRows DEF Active, Pass
  <2> QED BY <1>4, <2>1, CommitRows DEF Active
<1>5. ASSUME NEW p \in Pass, Active(p)', p # new[r]
      PROVE  Holder(p)' # key[r]
  <2>1. p \notin Current(key[r])
    BY <1>1, <1>4, <1>5 DEF PoolInv, TargetInv, InTxn
  <2>2. Active(p) /\ Holder(p)' = Holder(p)
    BY <1>4, <1>5 DEF Holder
  <2>3. ~ Owns(key[r], p)
    BY <2>1, <2>2 DEF Current
  <2> QED BY <1>1, <2>2, <2>3, HolderOwns DEF SapInv
<1>6. OneActivePass'
  <2>1. ASSUME NEW p \in Pass, NEW q \in Pass, Active(p)', Active(q)',
               Holder(p)' = Holder(q)', p # q
        PROVE  FALSE
    <3>1. CASE p = new[r] \/ q = new[r]
      BY <2>1, <3>1, <1>3, <1>5
    <3>2. CASE p # new[r] /\ q # new[r]
      BY <2>1, <3>2, <1>4 DEF PoolInv, OneActivePass, Holder
    <3> QED BY <3>1, <3>2
  <2> QED BY <2>1 DEF OneActivePass
<1>7. TargetInv'
  <2>1. ASSUME NEW s \in Req, pc'[s] \in InTxn, NEW p \in Pass,
               Owns(key[s], p)', Active(p)'
        PROVE  p = cur'[s]
    <3>1. /\ s # r /\ pc[s] \in InTxn
          /\ key'[s] = key[s] /\ cur'[s] = cur[s]
      BY <1>2, <2>1 DEF InTxn
    <3>2. key[s] \in Key /\ lock[key[s]] = s
      BY <3>1 DEF SapInv, LockInv, Locked, InTxn
    <3>3. key[s] # key[r]
      BY <1>1, <3>1, <3>2
    <3>4. p # new[r]
      <4>1. SUFFICES ASSUME p = new[r] PROVE FALSE
        OBVIOUS
      <4>2. /\ sbId'[p] = (IF key[r] \in Person THEN key[r] ELSE Nobody)
            /\ mail'[p] = (IF key[r] \in Mail THEN key[r] ELSE Nobody)
        BY <4>1, CommitRows
      <4>3. key[s] # Nobody
        BY <3>2, KeyColumns
      <4> QED BY <2>1, <3>1, <3>3, <4>2, <4>3 DEF Owns
    <3>5. Owns(key[s], p) /\ Active(p)
      BY <1>4, <2>1, <3>1, <3>4 DEF Owns
    <3>6. Current(key[s]) \subseteq {cur[s]}
      BY <3>1 DEF PoolInv, TargetInv
    <3> QED BY <3>1, <3>5, <3>6 DEF Current
  <2> QED BY <2>1 DEF TargetInv, Current
<1>8. NoLink'
  BY <1>2 DEF PoolInv, NoLink
<1> QED BY <1>6, <1>7, <1>8 DEF PoolInv

LEMMA NextPool ==
    ASSUME "link" \notin Ops
    PROVE  TypeOK /\ SapInv /\ PoolInv /\ [Next]_vars => PoolInv'
<1> SUFFICES ASSUME TypeOK, SapInv, PoolInv, [Next]_vars PROVE PoolInv'
  OBVIOUS
<1>1. ASSUME NEW r \in Req, Begins(r) PROVE PoolInv'
  BY <1>1, BeginsPool
<1>2. ASSUME NEW r \in Req, Commit(r) PROVE PoolInv'
  BY <1>2, CommitPool
<1>3. ASSUME NEW r \in Req, ReadCurrent(r) PROVE PoolInv'
  BY <1>3, ReadCurrentPool
<1>4. ASSUME NEW r \in Req, GetLock(r) \/ Reserve(r) PROVE PoolInv'
  <2>1. PICK at \in {"read", "commit"} :
          /\ pc' = [pc EXCEPT ![r] = at] /\ (at = "commit" => pc[r] = "reserve")
          /\ UNCHANGED <<rows, key, cur>>
    BY <1>4 DEF GetLock, Reserve, Goto
  <2>2. at \in Pc \ {"move", "flag"} /\ (at \in InTxn => pc[r] \in InTxn)
    BY <2>1 DEF Pc, Locked, InTxn
  <2> QED BY <2>1, <2>2, MovePool DEF rows, owners, Active
<1>5. ASSUME NEW r \in Req,
             \/ Busy(r) \/ NothingFree(r) \/ IssueServe(r) \/ EmailEnqueue(r)
             \/ LinkFlag(r) \/ Fail(r) \/ DeadlockVictim(r)
      PROVE  PoolInv'
  <2>1. End(r) /\ UNCHANGED rows
    BY <1>5 DEF Busy, NothingFree, IssueServe, EmailEnqueue, LinkFlag, Fail,
       DeadlockVictim
  <2> QED BY <2>1, EndPool DEF rows, owners, Active
<1>6. ASSUME NEW r \in Req, IssueFlip(r) \/ EmailFlip(r) PROVE PoolInv'
  <2>1. CASE End(r) /\ UNCHANGED rows
    BY <2>1, EndPool DEF rows, owners, Active
  <2>2. CASE ~ (End(r) /\ UNCHANGED rows)
    <3>1. PICK at \in {"serve", "enqueue"}, how \in {"download", "email"} :
            /\ pc' = [pc EXCEPT ![r] = at]
            /\ Flip(r, cur[r], how) /\ UNCHANGED <<owners, key, cur>>
      BY <1>6, <2>2 DEF IssueFlip, EmailFlip, Goto
    <3>2. at \in Pc \ {"move", "flag"} /\ at \notin InTxn
      BY DEF Pc, InTxn
    <3>3. \A p \in Pass : Active(p)' => Active(p)
      BY <3>1 DEF Flip, Active, TypeOK, RowsOK
    <3> QED BY <3>1, <3>2, <3>3, MovePool DEF owners
  <2> QED BY <2>1, <2>2
<1>7. ASSUME NEW r \in Req, UploadInsert(r) PROVE PoolInv'
  <2>1. /\ UNCHANGED owners
        /\ UNCHANGED status \/ \E p \in Pass : status' = [status EXCEPT ![p] = "available"]
    BY <1>7 DEF UploadInsert, rows
  <2>2. \A p \in Pass : Active(p)' =>
            Active(p) /\ sbId'[p] = sbId[p] /\ mail'[p] = mail[p]
    BY <2>1 DEF owners, Active, TypeOK, RowsOK
  <2>3. CASE End(r)
    BY <2>2, <2>3, EndPool
  <2>4. CASE ~ End(r)
    <3>1. UNCHANGED <<pc, key, cur>>
      BY <1>7, <2>4 DEF UploadInsert
    <3> QED BY <2>2, <3>1, PoolFrame DEF PoolInv, NoLink
  <2> QED BY <2>3, <2>4
<1>8. ASSUME NEW k \in Key, Unassign(k) PROVE PoolInv'
  <2>1. \A p \in Pass : Active(p)' =>
            Active(p) /\ sbId'[p] = sbId[p] /\ mail'[p] = mail[p]
    BY <1>8 DEF Unassign, Active
  <2> QED BY <1>8, <2>1, PoolFrame DEF Unassign, handler, PoolInv, NoLink
<1>9. ASSUME \/ \E m \in Mail : AddOffbook(m)
             \/ \E p \in Pass : SelfDownload(p)
             \/ UNCHANGED vars
      PROVE  PoolInv'
  <2>1. UNCHANGED <<rows, handler>>
    BY <1>9 DEF AddOffbook, SelfDownload, vars
  <2> QED BY <2>1, PoolFrame DEF rows, owners, handler, Active, PoolInv, NoLink
<1>10. ASSUME NEW r \in Req, LinkMove(r) PROVE PoolInv'
  BY <1>10 DEF LinkMove, PoolInv, NoLink
<1> QED BY <1>1, <1>2, <1>3, <1>4, <1>5, <1>6, <1>7, <1>8, <1>9, <1>10
        DEF Next, Step

LEMMA PoolHolds ==
    ASSUME "link" \notin Ops
    PROVE  Spec => [](TypeOK /\ SapInv /\ PoolInv)
<1>1. Init => TypeOK /\ SapInv /\ PoolInv
  <2>1. Init => PoolInv
    BY DEF Init, PoolInv, NoLink, TargetInv, OneActivePass, Active, InTxn
  <2> QED BY <2>1, InitTypeOK, InitSapInv
<1>2. TypeOK /\ SapInv /\ PoolInv /\ [Next]_vars => (TypeOK /\ SapInv /\ PoolInv)'
  BY NextInv, NextPool
<1> QED BY <1>1, <1>2, PTL DEF Spec

(* "One active SAP per person": the named lock of saps/assign keeps it for *)
(* every operation except the off-book link, which does not take it.       *)
THEOREM OneActivePassEach ==
    ASSUME "link" \notin Ops
    PROVE  Spec => []OneActivePass
<1>1. PoolInv => OneActivePass
  BY DEF PoolInv
<1> QED BY <1>1, PoolHolds, PTL

-----------------------------------------------------------------------------
(* The ledger.                                                             *)

(* A row that keeps its owner columns keeps its holder.                    *)
LEMMA LedgerStill ==
    ASSUME UNCHANGED <<status, sbId, mail>>
    PROVE  UNCHANGED <<status, [p \in Pass |-> Holder(p)]>>
BY DEF Holder

(* A commit gives a first pass, exchanges one, or replaces one.            *)
LEMMA CommitLedger ==
    ASSUME TypeOK, SapInv, PoolInv, NEW r \in Req, Commit(r)
    PROVE  Ledger!Next
<1> DEFINE n == new[r]
           c == cur[r]
           held == [p \in Pass |-> Holder(p)]
<1>1. n \in Pass /\ key[r] \in Key /\ c # n /\ status[n] = "available"
  BY CommitRows
<1>2. ASSUME NEW p \in Pass \ {n, c}
      PROVE  status'[p] = status[p] /\ held'[p] = held[p]
  BY <1>2, CommitRows DEF Holder
<1>3. status'[n] = "assigned" /\ held'[n] = key[r]
  <2>1. key[r] # Nobody /\ ((key[r] \in Person) # (key[r] \in Mail))
    BY <1>1, KeyColumns
  <2>2. \A p \in Pass : p = n => status'[p] = "assigned" /\ Holder(p)' = key[r]
    BY <2>1, CommitRows DEF Holder
  <2>3. held' = [p \in Pass |-> Holder(p)']
    OBVIOUS
  <2> QED BY <1>1, <2>2, <2>3
<1>4. TypeOK'
  BY CommitType, <1>1 DEF Pass
<1>5. CASE c = 0
  <2>1. status' = [status EXCEPT ![n] = "assigned"]
    BY <1>1, <1>2, <1>3, <1>4, <1>5 DEF TypeOK, RowsOK, Pass
  <2>2. held' = [held EXCEPT ![n] = key[r]]
    <3>1. c \notin Pass
      BY <1>5 DEF Pass
    <3>2. \A p \in Pass : held'[p] = IF p = n THEN key[r] ELSE held[p]
      BY <1>2, <1>3, <3>1
    <3> QED BY <1>1, <3>2
  <2>3. \A q \in Pass : ~ (Active(q) /\ held[q] = key[r])
    <3>1. ASSUME NEW q \in Pass, Active(q), Holder(q) = key[r] PROVE FALSE
      <4>1. Owns(key[r], q)
        BY <1>1, <3>1, HolderOwns DEF SapInv
      <4>2. Current(key[r]) \subseteq {c} /\ c = 0
        BY <1>5 DEF Commit, PoolInv, TargetInv, InTxn
      <4> QED BY <3>1, <4>1, <4>2 DEF Current, Pass
    <3> QED BY <3>1
  <2>4. Ledger!Give(n, key[r])
    BY <1>1, <2>1, <2>2, <2>3 DEF Ledger!Give, Ledger!Active, Active
  <2> QED BY <1>1, <2>4 DEF Ledger!Next
<1>6. CASE c # 0
  <2>1. c \in Pass /\ Owns(key[r], c) /\ Active(c)
    BY <1>6, CommitRows DEF Active
  <2>2. held[c] = key[r]
    BY <1>1, <2>1, HolderOwns DEF SapInv
  <2>3. CASE was[r] = "assigned"
    <3>1. status[c] = "assigned" /\ status'[c] = "available" /\ held'[c] = Nobody
      BY <1>6, <2>1, <2>3, CommitRows DEF Holder
    <3>2. status' = [status EXCEPT ![n] = "assigned", ![c] = "available"]
      BY <1>1, <1>2, <1>3, <1>4, <2>1, <3>1 DEF TypeOK, RowsOK
    <3>3. held' = [held EXCEPT ![n] = held[c], ![c] = Nobody]
      BY <1>1, <1>2, <1>3, <2>1, <2>2, <3>1
    <3>4. Ledger!Swap(n, c)
      BY <1>1, <3>1, <3>2, <3>3 DEF Ledger!Swap
    <3> QED BY <1>1, <2>1, <3>4 DEF Ledger!Next
  <2>4. CASE was[r] # "assigned"
    <3>1. /\ status[c] = "received" /\ status'[c] = "burned"
          /\ sbId'[c] = sbId[c] /\ mail'[c] = mail[c]
      BY <1>6, <2>4, CommitRows
    <3>2. held'[c] = held[c]
      BY <2>1, <3>1 DEF Holder
    <3>3. status' = [status EXCEPT ![n] = "assigned", ![c] = "burned"]
      BY <1>1, <1>2, <1>3, <1>4, <2>1, <3>1 DEF TypeOK, RowsOK
    <3>4. held' = [held EXCEPT ![n] = held[c]]
      BY <1>1, <1>2, <1>3, <2>1, <2>2, <3>2
    <3>5. Ledger!Reissue(n, c)
      BY <1>1, <3>1, <3>3, <3>4 DEF Ledger!Reissue
    <3> QED BY <1>1, <2>1, <3>5 DEF Ledger!Next
  <2> QED BY <2>3, <2>4
<1> QED BY <1>5, <1>6

(* What an unassign frees is one pass, or the code would free two.         *)
LEMMA UnassignLedger ==
    ASSUME TypeOK, SapInv, PoolInv, NEW k \in Key, Unassign(k)
    PROVE  Ledger!Next
<1> DEFINE freed == {p \in Pass : Owns(k, p) /\ status[p] = "assigned"}
           held == [p \in Pass |-> Holder(p)]
<1>1. PICK p \in freed : TRUE
  BY DEF Unassign
<1>2. ASSUME NEW q \in freed PROVE q = p
  <2>1. Active(p) /\ Active(q)
    BY <1>1, <1>2 DEF Active
  <2>2. Holder(p) = k /\ Holder(q) = k
    BY <1>1, <1>2, <2>1, HolderOwns DEF SapInv
  <2> QED BY <1>1, <1>2, <2>1, <2>2 DEF PoolInv, OneActivePass
<1>3. freed = {p} /\ p \in Pass /\ status[p] = "assigned"
  BY <1>1, <1>2
<1>4. /\ status' = [q \in Pass |-> IF q \in freed THEN "available" ELSE status[q]]
      /\ sbId' = [q \in Pass |-> IF q \in freed THEN Nobody ELSE sbId[q]]
      /\ mail' = [q \in Pass |-> IF q \in freed THEN Nobody ELSE mail[q]]
  BY DEF Unassign
<1> HIDE DEF freed
<1>5. status' = [status EXCEPT ![p] = "available"]
  BY <1>3, <1>4 DEF TypeOK, RowsOK
<1>6. \A q \in Pass : Holder(q)' = IF q = p THEN Nobody ELSE Holder(q)
  BY <1>3, <1>4 DEF Holder
<1>7. held' = [held EXCEPT ![p] = Nobody]
  BY <1>3, <1>6
<1>8. Ledger!Release(p)
  BY <1>3, <1>5, <1>7 DEF Ledger!Release
<1> QED BY <1>3, <1>8 DEF Ledger!Next

LEMMA NextLedger ==
    TypeOK /\ SapInv /\ PoolInv /\ [Next]_vars =>
        [Ledger!Next]_<<status, [p \in Pass |-> Holder(p)]>>
<1> SUFFICES ASSUME TypeOK, SapInv, PoolInv, [Next]_vars
             PROVE  [Ledger!Next]_<<status, [p \in Pass |-> Holder(p)]>>
  OBVIOUS
<1>1. ASSUME UNCHANGED rows
      PROVE  UNCHANGED <<status, [p \in Pass |-> Holder(p)]>>
  BY <1>1, LedgerStill DEF rows, owners
<1>2. ASSUME NEW r \in Req, Begins(r) PROVE UNCHANGED rows
  BY <1>2 DEF Begins, UploadBegin, AssignBegin, AssignAuto, IssueBegin,
     EmailBegin, LinkBegin, Begin
<1>3. ASSUME NEW r \in Req, Commit(r) PROVE Ledger!Next
  BY <1>3, CommitLedger
<1>4. ASSUME NEW r \in Req, IssueFlip(r) \/ EmailFlip(r)
      PROVE  Ledger!Next \/ UNCHANGED rows
  <2>1. CASE UNCHANGED rows
    BY <2>1
  <2>2. CASE ~ UNCHANGED rows
    <3>1. PICK how \in {"download", "email"} :
            Flip(r, cur[r], how) /\ UNCHANGED owners
      BY <1>4, <2>2 DEF IssueFlip, EmailFlip
    <3>2. cur[r] \in Pass
      BY <1>4 DEF IssueFlip, EmailFlip, SapInv, TaskOK, TypeOK, HandlersOK
    <3>3. Ledger!Receive(cur[r])
      BY <3>1 DEF Ledger!Receive, Flip, owners, Holder
    <3> QED BY <3>2, <3>3 DEF Ledger!Next
  <2> QED BY <2>1, <2>2
<1>5. ASSUME NEW r \in Req, UploadInsert(r)
      PROVE  Ledger!Next \/ UNCHANGED rows
  <2>1. CASE UNCHANGED rows
    BY <2>1
  <2>2. CASE ~ UNCHANGED rows
    <3>1. PICK p \in Pass : /\ status[p] = "absent"
                            /\ status' = [status EXCEPT ![p] = "available"]
                            /\ UNCHANGED owners
      BY <1>5, <2>2 DEF UploadInsert
    <3>2. Ledger!Stock(p)
      BY <3>1 DEF Ledger!Stock, owners, Holder
    <3> QED BY <3>1, <3>2 DEF Ledger!Next
  <2> QED BY <2>1, <2>2
<1>6. ASSUME NEW r \in Req,
             \/ GetLock(r) \/ Busy(r) \/ ReadCurrent(r) \/ Reserve(r) \/ NothingFree(r)
             \/ IssueServe(r) \/ EmailEnqueue(r) \/ LinkFlag(r)
             \/ Fail(r) \/ DeadlockVictim(r)
      PROVE  UNCHANGED rows
  BY <1>6 DEF GetLock, Busy, ReadCurrent, Reserve, NothingFree, IssueServe,
     EmailEnqueue, LinkFlag, Fail, DeadlockVictim
<1>7. ASSUME NEW r \in Req, LinkMove(r) PROVE FALSE
  BY <1>7 DEF LinkMove, PoolInv, NoLink
<1>8. ASSUME NEW k \in Key, Unassign(k) PROVE Ledger!Next
  BY <1>8, UnassignLedger
<1>9. ASSUME \/ \E m \in Mail : AddOffbook(m)
             \/ \E p \in Pass : SelfDownload(p)
             \/ UNCHANGED vars
      PROVE  UNCHANGED rows
  BY <1>9 DEF AddOffbook, SelfDownload, vars
<1> QED BY <1>1, <1>2, <1>3, <1>4, <1>5, <1>6, <1>7, <1>8, <1>9
        DEF Next, Step

(* The handlers of the SAP page, with their awaits, locks, transactions,   *)
(* deadlocks and failures, do what the ledger says in single steps.        *)
THEOREM ImplementsPassLedger ==
    ASSUME "link" \notin Ops
    PROVE  Spec => KeepsLedger
<1>1. Init => Ledger!Init
  BY DEF Init, Ledger!Init, Holder
<1> QED BY <1>1, NextLedger, PoolHolds, PTL DEF Spec, KeepsLedger, Ledger!Spec

-----------------------------------------------------------------------------
(* The rules of SapRules, for whatever a volunteer may have done.  Only    *)
(* what the fold of ModeBurnYear makes of a list is left to TLC.           *)

LEMMA DayNames ==
    DayName = {"EarlyThur", "EarlyFri", "EarlyMan", "PreSun", "PreMon", "PreTue",
               "PreWed", "PreThur", "PreFri", "PreSat", "OpenSun", "Mon", "Tue", "Wed"}
BY DEF DayName, EventDays, ToSet

LEMMA DayNosType ==
    ASSUME NEW day \in DayName
    PROVE  DateNo(day) \in 1 .. 14
<1>1. EventDays \in [1 .. 14 -> DayName] /\ DOMAIN EventDays = 1 .. 14
  BY DEF EventDays, DayName, ToSet
<1>2. \E i \in DOMAIN EventDays : EventDays[i] = day
  BY DEF DayName, ToSet
<1> QED BY <1>1, <1>2 DEF DateNo

LEMMA DayNameFinite == IsFiniteSet(DayName)
<1>1. DayName = {"EarlyThur"} \cup {"EarlyFri"} \cup {"EarlyMan"} \cup {"PreSun"}
                \cup {"PreMon"} \cup {"PreTue"} \cup {"PreWed"} \cup {"PreThur"}
                \cup {"PreFri"} \cup {"PreSat"} \cup {"OpenSun"} \cup {"Mon"} \cup {"Tue"}
                \cup {"Wed"}
  BY DayNames
<1> QED BY <1>1, FS_Singleton, FS_Union

(* Each arrival asks for days of its own: no day serves two entries.       *)
LEMMA DaysApart ==
    ASSUME NEW arrival
    PROVE  /\ RequiredDays(arrival) \subseteq SUBSET DayName
           /\ \A A, B \in RequiredDays(arrival) : A = B \/ A \cap B = {}
<1>1. RequiredDays(arrival) \in
          {WholeWeek, WholeWeek \ {{"PreMon"}}, WholeWeek \ {{"PreMon"}, {"PreTue"}},
           {{"PreThur"}, {"PreFri"}, {"PreSat", "OpenSun"}},
           {{"PreFri"}, {"PreSat", "OpenSun"}}, {{"PreSat", "OpenSun"}}, {{"OpenSun"}}, {}}
  BY DEF RequiredDays, DAY_REQS
<1>2. /\ WholeWeek \subseteq SUBSET DayName
      /\ \A A, B \in WholeWeek : A = B \/ A \cap B = {}
  BY DayNames DEF WholeWeek
<1>3. \A S \in {{{"PreThur"}, {"PreFri"}, {"PreSat", "OpenSun"}},
                {{"PreFri"}, {"PreSat", "OpenSun"}}, {{"PreSat", "OpenSun"}},
                {{"OpenSun"}}, {}} :
          /\ S \subseteq SUBSET DayName
          /\ \A A, B \in S : A = B \/ A \cap B = {}
  BY DayNames
<1> QED BY <1>1, <1>2, <1>3

(* Who has met what her arrival asks for has worked on as many different   *)
(* days: a day of each entry but the one that a Monday or Tuesday makes up *)
(* for.                                                                    *)
LEMMA DaysAlwaysCovered ==
    ASSUME NEW days \in SUBSET DayName
    PROVE  DaysCovered(days)
<1> SUFFICES ASSUME NEW arrival \in DayName, NEW worked \in SUBSET days,
                    Unmet(arrival, worked) = {}
             PROVE  \E late \in SUBSET RequiredDays(arrival) :
                        /\ Cardinality(late) =< IF worked \cap SUBSTITUTE_DAYS = {}
                                                THEN 0 ELSE 1
                        /\ \A Q \in SUBSET (RequiredDays(arrival) \ late) :
                              Cardinality((UNION Q) \cap worked) >= Cardinality(Q)
  BY DEF DaysCovered
<1> DEFINE left == {d \in RequiredDays(arrival) : d \cap worked = {}}
<1>1. /\ left \in SUBSET RequiredDays(arrival)
      /\ Cardinality(left) =< IF worked \cap SUBSTITUTE_DAYS = {} THEN 0 ELSE 1
  BY FS_EmptySet DEF Unmet
<1>2. ASSUME NEW Q \in SUBSET (RequiredDays(arrival) \ left)
      PROVE  Cardinality((UNION Q) \cap worked) >= Cardinality(Q)
  <2> DEFINE T == (UNION Q) \cap worked
             f == [A \in Q |-> CHOOSE d \in A : d \in worked]
  <2>1. ASSUME NEW A \in Q
        PROVE  f[A] \in A /\ f[A] \in T
    <3>1. A \cap worked # {}
      OBVIOUS
    <3>2. PICK d \in A : d \in worked
      BY <3>1
    <3>3. f[A] \in A /\ f[A] \in worked
      BY <3>2
    <3> QED BY <3>3
  <2>2. \A A, B \in Q : f[A] = f[B] => A = B
    BY <2>1, DaysApart
  <2>3. f \in Injection(Q, T)
    <3>1. f \in [Q -> T]
      BY <2>1
    <3> HIDE DEF f
    <3> QED BY <2>2, <3>1 DEF Injection, IsInjective
  <2>4. T \in SUBSET DayName
    <3>1. worked \subseteq DayName
      OBVIOUS
    <3> QED BY <3>1
  <2>5. IsFiniteSet(T) /\ Cardinality(T) \in Nat
    BY <2>4, DayNameFinite, FS_Subset, FS_CardinalityType
  <2>6. Cardinality(Q) <= Cardinality(T) /\ IsFiniteSet(Q)
    BY <2>3, <2>5, FS_Injection
  <2> QED BY <2>5, <2>6, FS_CardinalityType
<1> QED BY <1>1, <1>2

(* Another shift takes nothing away.                                       *)
LEMMA MoreIsAlwaysNoLess ==
    ASSUME NEW days \in SUBSET DayName
    PROVE  MoreIsNoLess(days)
<1> SUFFICES ASSUME NEW arrival \in DayName, NEW worked \in SUBSET days, NEW day \in days,
                    Unmet(arrival, worked) = {}
             PROVE  Unmet(arrival, worked \cup {day}) = {}
  BY DEF MoreIsNoLess
<1> DEFINE left(done) == {d \in RequiredDays(arrival) : d \cap done = {}}
<1>1. left(worked \cup {day}) \subseteq left(worked)
  OBVIOUS
<1>2. CASE left(worked) = {}
  BY <1>1, <1>2 DEF Unmet
<1>3. CASE left(worked) # {}
  <2>1. Cardinality(left(worked)) = 1 /\ worked \cap SUBSTITUTE_DAYS # {}
    BY <1>3 DEF Unmet
  <2>2. IsFiniteSet(left(worked))
    <3>1. left(worked) \in SUBSET (SUBSET DayName)
      BY DaysApart
    <3> QED BY <3>1, DayNameFinite, FS_SUBSET, FS_Subset
  <2>3. left(worked \cup {day}) \in {{}, left(worked)}
    BY <1>1, <2>1, <2>2, FS_Singleton
  <2> QED BY <2>1, <2>3 DEF Unmet
<1> QED BY <1>2, <1>3

(* The least and the greatest of a set of day numbers.                     *)
LEMMA LeastDay ==
    ASSUME NEW S, S \subseteq Nat, S # {}
    PROVE  Min(S) \in S
<1>1. PICK x \in S : \A y \in S : ~ (<<y, x>> \in OpToRel(<, Nat))
  BY NatLessThanWellFounded, WFMin
<1>2. \A y \in S : x <= y
  <2>1. \A y \in S : x \in Nat /\ y \in Nat
    OBVIOUS
  <2>2. \A y \in S : ~ (y < x)
    BY <1>1, <2>1, Zenon DEF OpToRel
  <2> QED BY <2>1, <2>2
<1> QED BY <1>2 DEF Min

LEMMA LatestDay ==
    ASSUME NEW S, S \subseteq Nat, S # {}, NEW n \in Int, \A y \in S : y <= n
    PROVE  Max(S) \in S
<1> DEFINE R == {n - y : y \in S}
<1>1. R \subseteq Nat /\ R # {}
  <2>1. \A y \in S : n - y \in Nat
    OBVIOUS
  <2> QED BY <2>1
<1>2. PICK d \in R : \A e \in R : d <= e
  <2>1. PICK x \in R : \A y \in R : ~ (<<y, x>> \in OpToRel(<, Nat))
    BY <1>1, NatLessThanWellFounded, WFMin
  <2>2. \A y \in R : x \in Nat /\ y \in Nat
    BY <1>1
  <2> HIDE DEF R
  <2>3. \A y \in R : ~ (y < x)
    BY <2>1, <2>2, Zenon DEF OpToRel
  <2>4. \A y \in R : x <= y
    BY <2>2, <2>3
  <2> QED BY <2>4
<1>3. PICK x \in S : d = n - x
  OBVIOUS
<1>4. \A y \in S : x >= y
  BY <1>2, <1>3
<1> QED BY <1>4 DEF Max

LEMMA AlwaysSameStory ==
    ASSUME NEW x \in Applicant, NEW pool \in SUBSET Days, NEW pass \in Days \cup {NoDate},
           NEW chosen \in BOOLEAN
    PROVE  SameStory(x, pool, pass, chosen)
<1> DEFINE people == PeoplePage(x, pool, pass, chosen)
           info   == InfoPage(x, pass)
           target == AutoTargetDay(x)
           fit    == {d \in pool : d =< target}
<1>1. /\ x.staff \in BOOLEAN /\ x.external \in BOOLEAN /\ x.worked \in SUBSET DayName
      /\ RequirementsMet(x) \in BOOLEAN /\ IsPreOpenShift(x) \in BOOLEAN
  BY RulesAssumption DEF RequirementsMet, IsPreOpenShift
<1>2. FirstShift(x) = NoDate \/ FirstShift(x) \in 1 .. 14
  <2>1. {DateNo(d) : d \in x.worked} \subseteq 1 .. 14
    BY <1>1, DayNosType
  <2>2. x.worked # {} => {DateNo(d) : d \in x.worked} # {}
    OBVIOUS
  <2> QED BY <2>1, <2>2, LeastDay DEF FirstShift
<1>3. /\ FirstShift(x) # NoDate => target = FirstShift(x) - 1 /\ target \in 0 .. 13
      /\ FirstShift(x) = NoDate => target = NoDate
  BY <1>2 DEF AutoTargetDay, NoDate
<1>4. Days \subseteq Nat
  BY SapAssumption DEF Days
<1>5. target # NoDate => PickAutoSap(target, pool) =< target
  <2>1. SUFFICES ASSUME target # NoDate PROVE PickAutoSap(target, pool) =< target
    OBVIOUS
  <2>2. target \in Nat
    BY <1>3, <2>1
  <2>3. CASE fit = {}
    BY <2>2, <2>3 DEF PickAutoSap, NoDate
  <2>4. CASE fit # {}
    <3>1. fit \subseteq Nat
      BY <1>4
    <3> HIDE DEF target
    <3>2. target \in Int /\ \A y \in fit : y <= target
      BY <2>2
    <3> HIDE DEF fit
    <3>3. Max(fit) \in fit
      BY <2>4, <3>1, <3>2, LatestDay
    <3> USE DEF fit, target
    <3> QED BY <2>1, <2>4, <3>3 DEF PickAutoSap
  <2> QED BY <2>3, <2>4
<1>6. (info.bypass = "sap_issued") = (people.pass # NoDate)
  BY <1>1 DEF InfoPage, PeoplePage
<1>7. people.pass # NoDate => info.earned = people.pass
  BY DEF InfoPage, PeoplePage
<1>8. ASSUME people.pass = NoDate, FirstShift(x) # NoDate,
             people.standing \in {"missing", "complete"}
      PROVE  /\ (info.earned # NoDate) = (people.standing = "complete")
             /\ info.earned # NoDate => people.auto =< info.earned
  <2>1. pass = NoDate /\ target \in 0 .. 13 /\ target # NoDate
    BY <1>3, <1>8 DEF PeoplePage, NoDate
  <2>2. info.earned = IF RequirementsMet(x) THEN target ELSE NoDate
    BY <2>1 DEF InfoPage
  <2>3. people.standing = "complete" <=> RequirementsMet(x)
    BY <1>1, <1>8 DEF PeoplePage, Standing
  <2>4. people.auto =< target
    BY <1>5, <2>1 DEF PeoplePage, NoDate
  <2> QED BY <2>1, <2>2, <2>3, <2>4
<1>9. people.auto # NoDate /\ ~ x.staff => ~ AutoRefused(x)
  BY <1>1 DEF PeoplePage, NeedsNone, AutoRefused
<1> QED BY <1>6, <1>7, <1>8, <1>9 DEF SameStory

(* "both pages MUST evaluate eligibility through evaluateSapEligibility    *)
(* below, never with their own rules" (lib/sapStatus.ts): the list of      *)
(* people and the volunteer's page tell the same of what she has earned    *)
(* with the same pass in hand, whoever she is, and find the same pass      *)
(* where Plain says so, whatever the handlers are at.  The year of the     *)
(* dates, which ModeBurnYear folds a list into, is a condition that        *)
(* concerns neither.                                                       *)
THEOREM PagesTellTheSame ==
    ASSUME YearOfMost(DateLists)
    PROVE  Spec => []PagesAgree
<1>1. RulesSound
  BY RulesAssumption, DaysAlwaysCovered, MoreIsAlwaysNoLess, AlwaysSameStory DEF RulesSound
<1>2. ASSUME TypeOK, OwnedOnce, NEW k \in Person, Plain(k)
      PROVE  ListedPass(k) = InfoPass(k)
  <2>1. \A p, q \in Pass : sbId[p] = k /\ sbId[q] = k => p = q
    <3> DEFINE S == {p \in Pass : sbId[p] = k}
    <3>1. IsFiniteSet(Pass)
      BY SapAssumption, FS_Interval DEF Pass
    <3>2. IsFiniteSet(S) /\ Cardinality(S) \in Nat
      BY <3>1, FS_Subset, FS_CardinalityType
    <3>3. Cardinality(S) \in {0, 1}
      BY <1>2, <3>2 DEF Plain
    <3>4. S = {} \/ \E p : S = {p}
      BY <3>2, <3>3, FS_EmptySet, FS_Singleton
    <3> QED BY <3>4
  <2>2. k # Nobody
    BY SapAssumption
  <2>3. \A p \in Pass : sbId[p] = k => Active(p)
    BY <1>2, <2>2 DEF Plain, OwnedOnce, Active, TypeOK, RowsOK, Status
  <2>4. \A p \in Pass : p =< p
    BY SapAssumption DEF Pass
  <2>5. \A p \in Pass : sbId[p] = k => EventDate[ticket[p]] = DateOf(p) /\ DateOf(p) # 0
    BY <1>2, SapAssumption DEF Plain, DateOf, TypeOK, RowsOK
  <2>6. CASE \E p \in Pass : sbId[p] = k
    <3>1. PICK p \in Pass : sbId[p] = k
      BY <2>6
    <3>2. Dated(k) = {p}
      BY <2>1, <2>5, <3>1 DEF Dated
    <3>3. InfoPass(k) = {EventDate[ticket[p]]}
      BY <2>4, <3>2 DEF InfoPass
    <3>4. ListedPass(k) = {DateOf(p)}
      BY <2>1, <2>3, <3>1 DEF ListedPass
    <3> QED BY <2>5, <3>1, <3>3, <3>4
  <2>7. CASE ~ \E p \in Pass : sbId[p] = k
    <3>1. Dated(k) = {} /\ ListedPass(k) = {}
      BY <2>7 DEF Dated, ListedPass
    <3>2. Former[k] = 0
      BY <1>2, <2>7 DEF Plain
    <3> QED BY <3>1, <3>2 DEF InfoPass
  <2> QED BY <2>6, <2>7
<1>3. TypeOK /\ OwnedOnce => PagesAgree
  BY <1>1, <1>2 DEF PagesAgree
<1> QED BY <1>3, TypeCorrect, PassesOwnedOnce, PTL

=============================================================================

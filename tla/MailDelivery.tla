---------------------------- MODULE MailDelivery ----------------------------
(***************************************************************************)
(* What the mail layer promises the rest of the program (the header of     *)
(* migrations/002_op_email_queue.sql): a mail that was enqueued is handed  *)
(* to the mail server or refused for good, and afterwards nothing more     *)
(* happens to it.  Its reader may have got copies before, one for each     *)
(* time the mail server took it and the answer was lost.                   *)
(***************************************************************************)
EXTENDS Naturals

CONSTANT Mail
VARIABLES fate, copies

Init ==
    /\ fate = [m \in Mail |-> "absent"]
    /\ copies = [m \in Mail |-> 0]

Copied(m) == copies' = [copies EXCEPT ![m] = @ + 1]

Submit(m) ==
    /\ fate[m] = "absent" /\ fate' = [fate EXCEPT ![m] = "pending"]
    /\ UNCHANGED copies

Deliver(m) ==
    fate[m] = "pending" /\ fate' = [fate EXCEPT ![m] = "delivered"] /\ Copied(m)

DeliverUnheard(m) == fate[m] = "pending" /\ Copied(m) /\ UNCHANGED fate

Refuse(m) ==
    /\ fate[m] = "pending" /\ fate' = [fate EXCEPT ![m] = "refused"]
    /\ UNCHANGED copies

Next == \E m \in Mail : Submit(m) \/ Deliver(m) \/ DeliverUnheard(m) \/ Refuse(m)

Spec == Init /\ [][Next]_<<fate, copies>>

(* Every pending mail is settled, as long as the relay comes back.         *)
Settling == \A m \in Mail : WF_<<fate, copies>>(Deliver(m) \/ Refuse(m))
=============================================================================

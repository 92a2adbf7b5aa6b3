----------------------------- MODULE PassLedger -----------------------------
(***************************************************************************)
(* What SAP management promises its operators (the lifecycle comment of    *)
(* migrations/008_sap_management.sql and the comments of                   *)
(* api/saps/assign): every operation on a pass is one indivisible entry in *)
(* a ledger, and nobody is ever entered for two active passes.             *)
(***************************************************************************)
CONSTANTS Pass, Owner, Nobody
VARIABLES stage, holder

Init ==
    /\ stage = [p \in Pass |-> "absent"]
    /\ holder = [p \in Pass |-> Nobody]

Active(p) == stage[p] \in {"assigned", "received"}

Stock(p) ==
    /\ stage[p] = "absent"
    /\ stage' = [stage EXCEPT ![p] = "available"]
    /\ UNCHANGED holder

(* A first pass goes to someone who holds none.                            *)
Give(p, h) ==
    /\ stage[p] = "available"
    /\ \A q \in Pass : ~ (Active(q) /\ holder[q] = h)
    /\ stage' = [stage EXCEPT ![p] = "assigned"]
    /\ holder' = [holder EXCEPT ![p] = h]

(* A pass not handed out yet is exchanged for another one.                 *)
Swap(p, q) ==
    /\ stage[p] = "available" /\ stage[q] = "assigned"
    /\ stage' = [stage EXCEPT ![p] = "assigned", ![q] = "available"]
    /\ holder' = [holder EXCEPT ![p] = holder[q], ![q] = Nobody]

(* A pass handed out is replaced, and never valid again.                   *)
Reissue(p, q) ==
    /\ stage[p] = "available" /\ stage[q] = "received"
    /\ stage' = [stage EXCEPT ![p] = "assigned", ![q] = "burned"]
    /\ holder' = [holder EXCEPT ![p] = holder[q]]

Release(p) ==
    /\ stage[p] = "assigned"
    /\ stage' = [stage EXCEPT ![p] = "available"]
    /\ holder' = [holder EXCEPT ![p] = Nobody]

Receive(p) ==
    /\ stage[p] = "assigned"
    /\ stage' = [stage EXCEPT ![p] = "received"]
    /\ UNCHANGED holder

Next ==
    \/ \E p \in Pass : Stock(p) \/ Release(p) \/ Receive(p)
    \/ \E p \in Pass, h \in Owner : Give(p, h)
    \/ \E p, q \in Pass : Swap(p, q) \/ Reissue(p, q)

Spec == Init /\ [][Next]_<<stage, holder>>
=============================================================================

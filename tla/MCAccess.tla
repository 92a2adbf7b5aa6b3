------------------------------ MODULE MCAccess ------------------------------
(* Few people and accounts for TLC.                                        *)
EXTENDS Access, TLC

CONSTANTS p, q, e1, e2, f, r1, r2

(* p has two addresses, q has one.                                         *)
Owners == (e1 :> p) @@ (e2 :> p) @@ (f :> q)

(* Two super admins: q has linked her account, the other one, an account   *)
(* of p's from before Okta, is found by its address.                       *)
Accounts == (1 :> [okta |-> q, mail |-> f]) @@ (2 :> [okta |-> NoOne, mail |-> e1])
Supers   == {<<1, SuperAdmin>>, <<2, SuperAdmin>>}

(* An account of p's that was never imported has her other address, and    *)
(* both have had it before.                                                *)
Before == {[mail |-> e2, id |-> 2, since |-> 1, current |-> FALSE],
           [mail |-> e2, id |-> 3, since |-> 2, current |-> FALSE],
           [mail |-> e1, id |-> 3, since |-> 3, current |-> FALSE],
           [mail |-> e1, id |-> 2, since |-> 1, current |-> TRUE]}

Listed == {<<e2, Admin>>}

Handlers == Permutations(Req)
=============================================================================

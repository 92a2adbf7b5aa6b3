----------------------------- MODULE MCSapPool -----------------------------
(* Small pools for TLC: which people, passes and dates there are.          *)
EXTENDS SapPool, TLC

CONSTANTS a, b, m, t1, t2, t3, r1, r2

NoMail  == [x \in {} |-> a]
ToA     == [x \in {m} |-> a]

TwoDates   == (t1 :> 1) @@ (t2 :> 2)
OneDate    == (t1 :> 1) @@ (t2 :> 1)

(* a starts early and may take a pass of either date, b needs none.        *)
AutoDays == (a :> 2) @@ (b :> 0)
AutoA    == (a :> 2)

Handlers == Permutations(Req)
=============================================================================

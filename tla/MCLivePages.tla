---------------------------- MODULE MCLivePages ----------------------------
(* Browsers of two volunteers, two shifts that overlap, a third with a     *)
(* training that overlaps it, and a canceled shift.                        *)
EXTENDS LivePages, TLC

CONSTANTS a, b, t1, t2, t3, s1, s2, s3, class, off

Users == (t1 :> a) @@ (t2 :> b) @@ (t3 :> a)

(* Two volunteers look at one shift; one goes from one shift to another,   *)
(* or between her account and the shift with the training; or one is at    *)
(* her account, and she herself or somebody else at a shift.               *)
Days == {(t1 :> {s1}) @@ (t2 :> {s1}), (t1 :> {s2}) @@ (t2 :> {s2}),
         t1 :> {s1, s2}, t1 :> {s3, Mine},
         (t1 :> {Mine}) @@ (t3 :> {s2}), (t1 :> {Mine}) @@ (t2 :> {s2})}

Pair == UNION {{<<x[1], x[2]>>, <<x[2], x[1]>>} :
                  x \in {<<s1, s2>>, <<s1, off>>, <<s3, class>>, <<s2, class>>}}

Before == [s \in {s1, s2, s3, class, off} |-> IF s = s3 THEN {class} ELSE {}]

(* s1 and s3 are yet to come and empty; s2 has begun, and both are on it   *)
(* when one looks at her account and the other at the shift.  Who goes     *)
(* from s1 to s2 was on the shift that is canceled.                        *)
First == [d \in Days |-> [s \in {s1, s2, s3, class, off} |->
             CASE s = s2 /\ t2 \in DOMAIN d /\ Mine \in d[t1] -> {a, b}
               [] s = off /\ d[t1] = {s1, s2} -> {a}
               [] OTHER -> {}]]

(* The conditions of the theorems hold here.                               *)
ASSUME ConditionsHold == RoomAtFirst /\ ApartAtFirst /\ ListWhereNeeded
=============================================================================

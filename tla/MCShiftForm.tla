---------------------------- MODULE MCShiftForm ----------------------------
(* Small tables of shifts for TLC.                                         *)
EXTENDS ShiftForm, TLC

CONSTANTS A, B, p, q, r1, r2

OneTime == 1 :> [type |-> A, slot |-> 1]
OneRow  == 1 :> [time |-> 1, position |-> p]

Forms == Permutations(Req)
=============================================================================

---------------------------- MODULE MCShiftNudge ----------------------------
(* Small rosters for TLC: who is on which shift, and who leads it.         *)
EXTENDS ShiftNudge, TLC

CONSTANTS a, b, r1, r2

(* a leads shift 1; nobody leads shift 2.                                  *)
OneLead  == {<<a, 1>>}
TwoOnOne == {<<a, 1>>, <<b, 1>>, <<b, 2>>}
=============================================================================

--------------------------- MODULE MCShiftSignup ---------------------------
(* Small rosters for TLC: which shifts there are and on which days.        *)
EXTENDS ShiftSignup, TLC

CONSTANTS a, b, s1, s2, r1, r2

(* s1 starts on the first day of the event, so that its day before is not  *)
(* in op_dates, s2 on the day of the gates.                                *)
TwoDays == (s1 :> 2) @@ (s2 :> 4)

Symmetric == Permutations(Req) \cup Permutations(Volunteer)
=============================================================================

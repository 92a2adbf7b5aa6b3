----------------------------- MODULE MCCalendar -----------------------------
(* Few volunteers and one shift for TLC.                                   *)
EXTENDS Calendar, TLC

CONSTANTS v1, v2, s1, r1, r2

(* The day of the shift is not in op_dates: no arrival date is set.        *)
Days == s1 :> 0
=============================================================================

------------------------------ MODULE MCDbPool ------------------------------
(* A small pool for TLC.                                                   *)
EXTENDS DbPool, TLC

CONSTANTS s1, p1, p2, c1, c2
=============================================================================

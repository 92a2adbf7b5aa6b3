---------------------------- MODULE MCMailQueue ----------------------------
(* Small instances of MailQueue for TLC.                                   *)
EXTENDS MailQueue, TLC

CONSTANTS w1, w2, c1, c2, c3, a1, a2

OneWorker  == {w1}
TwoWorkers == {w1, w2}
OneCall    == {c1}
TwoCalls   == {c1, c2}
ThreeCalls == {c1, c2, c3}
OneAddress == {a1}

ToOne == [c \in Call |-> a1]

(* A delay table with the shape of the real one: growing, then capped.     *)
ShortBackoff == <<1, 2>>

WorkerSymmetry == Permutations(Worker)
=============================================================================

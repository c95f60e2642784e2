---------------------------- MODULE MCWorkers ----------------------------
(* Two processes over the same user data: one starts the worker twice, the *)
(* other once; a task is confirmed on it.                                  *)
EXTENDS BrowserWorkers, TLC

CONSTANTS p1, p2, start1, start2, start3, task1

MCBy == [c \in {start1, start2, start3} |-> IF c = start3 THEN p2 ELSE p1]

\* The two starts of p1 are alike.
StartSymmetry == Permutations({start1, start2})
==========================================================================

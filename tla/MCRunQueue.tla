----------------------------- MODULE MCRunQueue -----------------------------
(* Four tasks: every order, every length and a double enqueue at each.     *)
EXTENDS RunQueue

CONSTANTS t1, t2, t3, t4
MCTasks == {t1, t2, t3, t4}
=============================================================================

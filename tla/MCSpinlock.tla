----------------------------- MODULE MCSpinlock -----------------------------
(* Two CPUs, a process that migrates between them, a lock outside          *)
(* ptable.lock and one inside it.                                          *)
EXTENDS Spinlock, TLC

CONSTANTS c1, c2, p1

MCCPUs == {c1, c2}
MCProcs == {p1}
MCLocks == {1, 2, 3}
=============================================================================

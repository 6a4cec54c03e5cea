----------------------------- MODULE MCScheduler ----------------------------
(* Two CPUs, init and two more slots.                                      *)
EXTENDS Scheduler

CONSTANTS c1, c2, ch
MCCPUs == {c1, c2}
MCChans == {ch}
MCSlots == 1..3
MCKillPids == {0, 2, 3}
=============================================================================

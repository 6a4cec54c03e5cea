--------------------------- MODULE MCSchedulerLive --------------------------
(* One CPU, init and two more slots: three programs that may all spin.     *)
EXTENDS Scheduler

CONSTANTS c1, ch
MCCPUs == {c1}
MCChans == {ch}
MCSlots == 1..3
MCKillPids == {0, 2, 3}
=============================================================================

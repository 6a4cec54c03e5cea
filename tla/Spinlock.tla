------------------------------ MODULE Spinlock ------------------------------
(***************************************************************************)
(* kernel/task/spinlock.c together with the hand-over of a held lock in    *)
(* kernel/task/scheduler.c (scheduler, switch_to_scheduler) and the        *)
(* interrupt entry and exit around trap().                                 *)
(*                                                                         *)
(* A thread is a process or the scheduler loop of a CPU (named by the CPU  *)
(* itself).  An interrupt runs on the stack of the thread it interrupts:   *)
(* frame 2 of that thread, above frame 1, with the interrupt flag off.     *)
(* Every access to memory that another CPU can see is a step of its own.   *)
(***************************************************************************)
EXTENDS Naturals, FiniteSets

CONSTANTS CPUs,     \* the processors, cpus[] in the code
          Procs,    \* processes that may run on any of them
          Locks,    \* the spinlocks, numbered in the order they nest
          PTable,   \* ptable.lock; runnable_queue.lock nests inside it
          nullptr

ASSUME SpinlockAssumption ==
    /\ CPUs \cap Procs = {}
    /\ nullptr \notin CPUs
    /\ nullptr \notin Locks
    /\ Locks \subseteq Nat
    /\ IsFiniteSet(Locks)
    /\ PTable \in Locks

Threads == CPUs \cup Procs

VARIABLES
    locked,    \* lk->locked
    lkcpu,     \* lk->cpu
    ncli,      \* cpu->ncli
    intena,    \* cpu->interrupts_enabled
    iflag,     \* the IF bit of the CPU's eflags
    cur,       \* the thread whose stack the CPU runs on
    frame,     \* per thread, the point its two frames have reached
    trapped,   \* the thread runs an interrupt handler (frame 2)
    saved,     \* switch_to_scheduler's local interrupts_enabled
    held,      \* the locks a thread is responsible for
    below,     \* those held by the code its handler interrupted
    panic      \* some ASSERT has failed

vars == <<locked, lkcpu, ncli, intena, iflag, cur, frame, trapped, saved,
          held, below, panic>>

PCs == {"loop", "idle", "back", "cli", "check", "spin", "own", "unlock",
        "pop", "switched", "forkret"}
(* lk and eflags are locals of acquire, release and pushcli; ret is where  *)
(* they return to.                                                         *)
Frame == [pc : PCs, lk : Locks \cup {nullptr}, eflags : BOOLEAN,
          ret : {"idle", "back"}]
Fresh(at) == [pc |-> at, lk |-> nullptr, eflags |-> FALSE, ret |-> "idle"]

TypeOK ==
    /\ locked \in [Locks -> {0, 1}]
    /\ lkcpu \in [Locks -> CPUs \cup {nullptr}]
    /\ ncli \in [CPUs -> Nat]
    /\ intena \in [CPUs -> BOOLEAN]
    /\ iflag \in [CPUs -> BOOLEAN]
    /\ cur \in [CPUs -> Threads]
    /\ frame \in [Threads -> [1..2 -> Frame]]
    /\ trapped \in [Threads -> BOOLEAN]
    /\ saved \in [Threads -> BOOLEAN]
    /\ held \in [Threads -> SUBSET Locks]
    /\ below \in [Threads -> SUBSET Locks]
    /\ panic \in BOOLEAN

(***************************************************************************)
(* CPUs enter scheduler() with interrupts off; processes wait to run       *)
(* forkret for the first time.                                             *)
(***************************************************************************)
Init ==
    /\ locked = [l \in Locks |-> 0]
    /\ lkcpu = [l \in Locks |-> nullptr]
    /\ ncli = [c \in CPUs |-> 0]
    /\ intena = [c \in CPUs |-> FALSE]
    /\ iflag = [c \in CPUs |-> FALSE]
    /\ cur = [c \in CPUs |-> c]
    /\ frame = [t \in Threads |->
                  [i \in 1..2 |-> Fresh(IF i = 2 THEN "idle"
                                        ELSE IF t \in CPUs THEN "loop"
                                        ELSE "forkret")]]
    /\ trapped = [t \in Threads |-> FALSE]
    /\ saved = [t \in Threads |-> FALSE]
    /\ held = [t \in Threads |-> {}]
    /\ below = [t \in Threads |-> {}]
    /\ panic = FALSE

Level(t) == IF trapped[t] THEN 2 ELSE 1
Top(t) == frame[t][Level(t)]
SetTop(t, f) == frame' = [frame EXCEPT ![t][Level(t)] = f]
Goto(t, at) == SetTop(t, [Top(t) EXCEPT !.pc = at])
IsScheduler(t) == t \in CPUs /\ ~trapped[t]

(* holding(lk) evaluated on CPU c. *)
Holding(c, l) == locked[l] = 1 /\ lkcpu[l] = c

-----------------------------------------------------------------------------
(* acquire(), one action per visible access.                               *)

(* pushcli: read_eflags(), then an interrupt may still arrive.  Locks are  *)
(* taken in order; a handler knows nothing of those taken below it.        *)
ReadEflags(c, l) ==
    LET t == cur[c] IN
    /\ Top(t).pc \in {"idle", "back"}
    /\ \A h \in held[t] \ below[t] : h < l
    /\ IsScheduler(t) /\ held[t] = {} => l = PTable
    /\ SetTop(t, [pc |-> "cli", lk |-> l, eflags |-> iflag[c], ret |-> Top(t).pc])
    /\ UNCHANGED <<locked, lkcpu, ncli, intena, iflag, cur, trapped, saved,
                   held, below, panic>>

(* Mutant of Pushcli: counts, but leaves interrupts on. *)
PushcliNoCli(c) ==
    LET t == cur[c] IN
    /\ Top(t).pc = "cli"
    /\ iflag' = iflag
    /\ intena' = [intena EXCEPT ![c] =
                     IF ncli[c] = 0 THEN Top(t).eflags ELSE @]
    /\ ncli' = [ncli EXCEPT ![c] = @ + 1]
    /\ SetTop(t, [Top(t) EXCEPT !.pc = "check", !.eflags = FALSE])
    /\ UNCHANGED <<locked, lkcpu, cur, trapped, saved, held, below, panic>>

(* pushcli: cli() and the nesting count; nothing interrupts after cli(). *)
Pushcli(c) ==
    LET t == cur[c] IN
    /\ Top(t).pc = "cli"
    /\ iflag' = [iflag EXCEPT ![c] = FALSE]
    /\ intena' = [intena EXCEPT ![c] =
                     IF ncli[c] = 0 THEN Top(t).eflags ELSE @]
    /\ ncli' = [ncli EXCEPT ![c] = @ + 1]
    /\ SetTop(t, [Top(t) EXCEPT !.pc = "check", !.eflags = FALSE])
    /\ UNCHANGED <<locked, lkcpu, cur, trapped, saved, held, below, panic>>

(* ASSERT(!holding(lk)) *)
AcquireCheck(c) ==
    LET t == cur[c] IN
    /\ Top(t).pc = "check"
    /\ panic' = (panic \/ Holding(c, Top(t).lk))
    /\ Goto(t, "spin")
    /\ UNCHANGED <<locked, lkcpu, ncli, intena, iflag, cur, trapped, saved,
                   held, below>>

(* Mutant of Xchg: plain store, the old value ignored. *)
XchgNoTest(c) ==
    LET t == cur[c]
        l == Top(t).lk IN
    /\ Top(t).pc = "spin"
    /\ locked' = [locked EXCEPT ![l] = 1]
    /\ held' = [held EXCEPT ![t] = @ \cup {l}]
    /\ Goto(t, "own")
    /\ UNCHANGED <<lkcpu, ncli, intena, iflag, cur, trapped, saved, below,
                   panic>>

(* The xchg that finds 0; one that finds 1 changes nothing. *)
Xchg(c) ==
    LET t == cur[c]
        l == Top(t).lk IN
    /\ Top(t).pc = "spin"
    /\ locked[l] = 0
    /\ locked' = [locked EXCEPT ![l] = 1]
    /\ held' = [held EXCEPT ![t] = @ \cup {l}]
    /\ Goto(t, "own")
    /\ UNCHANGED <<lkcpu, ncli, intena, iflag, cur, trapped, saved, below,
                   panic>>

(* Mutant of SetOwner: records the thread, not the CPU. *)
SetOwnerThread(c) ==
    LET t == cur[c] IN
    /\ Top(t).pc = "own"
    /\ lkcpu' = [lkcpu EXCEPT ![Top(t).lk] = t]
    /\ SetTop(t, Fresh(Top(t).ret))
    /\ UNCHANGED <<locked, ncli, intena, iflag, cur, trapped, saved, held,
                   below, panic>>

(* lk->cpu = current_cpu() *)
SetOwner(c) ==
    LET t == cur[c] IN
    /\ Top(t).pc = "own"
    /\ lkcpu' = [lkcpu EXCEPT ![Top(t).lk] = c]
    /\ SetTop(t, Fresh(Top(t).ret))
    /\ UNCHANGED <<locked, ncli, intena, iflag, cur, trapped, saved, held,
                   below, panic>>

-----------------------------------------------------------------------------
(* release()                                                               *)

(* Mutant of ReleaseCheck: lk->cpu is not cleared. *)
ReleaseKeepsOwner(c, l) ==
    LET t == cur[c] IN
    /\ Top(t).pc \in {"idle", "back"}
    /\ l \in held[t] \ below[t]
    /\ panic' = (panic \/ ~Holding(c, l))
    /\ lkcpu' = lkcpu
    /\ SetTop(t, [Top(t) EXCEPT !.pc = "unlock", !.lk = l, !.ret = Top(t).pc])
    /\ UNCHANGED <<locked, ncli, intena, iflag, cur, trapped, saved, held,
                   below>>

(* ASSERT(holding(lk)); lk->cpu = nullptr.  Locks need not be released in  *)
(* the order they were taken: sleep() takes ptable.lock and drops lk.      *)
ReleaseCheck(c, l) ==
    LET t == cur[c] IN
    /\ Top(t).pc \in {"idle", "back"}
    /\ l \in held[t] \ below[t]
    /\ panic' = (panic \/ ~Holding(c, l))
    /\ lkcpu' = [lkcpu EXCEPT ![l] = nullptr]
    /\ SetTop(t, [Top(t) EXCEPT !.pc = "unlock", !.lk = l, !.ret = Top(t).pc])
    /\ UNCHANGED <<locked, ncli, intena, iflag, cur, trapped, saved, held,
                   below>>

(* Mutant of Unlock: lk->locked is not cleared. *)
UnlockForgets(c) ==
    LET t == cur[c]
        l == Top(t).lk IN
    /\ Top(t).pc = "unlock"
    /\ locked' = locked
    /\ held' = [held EXCEPT ![t] = @ \ {l}]
    /\ SetTop(t, [Top(t) EXCEPT !.pc = "pop", !.lk = nullptr])
    /\ UNCHANGED <<lkcpu, ncli, intena, iflag, cur, trapped, saved, below,
                   panic>>

Unlock(c) ==
    LET t == cur[c]
        l == Top(t).lk IN
    /\ Top(t).pc = "unlock"
    /\ locked' = [locked EXCEPT ![l] = 0]
    /\ held' = [held EXCEPT ![t] = @ \ {l}]
    /\ SetTop(t, [Top(t) EXCEPT !.pc = "pop", !.lk = nullptr])
    /\ UNCHANGED <<lkcpu, ncli, intena, iflag, cur, trapped, saved, below,
                   panic>>

(* popcli; the scheduler loop then returns to its sti(). *)
Popcli(c) ==
    LET t == cur[c] IN
    /\ Top(t).pc = "pop"
    /\ panic' = (panic \/ iflag[c] \/ ncli[c] = 0)
    /\ ncli' = [ncli EXCEPT ![c] = IF @ = 0 THEN 0 ELSE @ - 1]
    /\ iflag' = [iflag EXCEPT ![c] = IF ncli'[c] = 0 /\ intena[c] THEN TRUE ELSE @]
    /\ SetTop(t, Fresh(IF IsScheduler(t) /\ held[t] = {} THEN "loop" ELSE Top(t).ret))
    /\ UNCHANGED <<locked, lkcpu, intena, cur, trapped, saved, held, below>>

-----------------------------------------------------------------------------
(* Interrupts: the gate clears IF, iret restores it.                       *)

Interrupt(c) ==
    LET t == cur[c] IN
    /\ iflag[c]
    /\ ~trapped[t]
    /\ iflag' = [iflag EXCEPT ![c] = FALSE]
    /\ trapped' = [trapped EXCEPT ![t] = TRUE]
    /\ below' = [below EXCEPT ![t] = held[t]]
    /\ UNCHANGED <<locked, lkcpu, ncli, intena, cur, frame, saved, held,
                   panic>>

Iret(c) ==
    LET t == cur[c] IN
    /\ trapped[t]
    /\ Top(t).pc = "idle"
    /\ held[t] = below[t]
    /\ iflag' = [iflag EXCEPT ![c] = TRUE]
    /\ trapped' = [trapped EXCEPT ![t] = FALSE]
    /\ below' = [below EXCEPT ![t] = {}]
    /\ frame' = [frame EXCEPT ![t][2] = Fresh("idle")]
    /\ UNCHANGED <<locked, lkcpu, ncli, intena, cur, saved, held, panic>>

-----------------------------------------------------------------------------
(* Context switches hand ptable.lock from one thread to the other.         *)

(* The sti() at the top of the scheduler loop. *)
SchedulerSti(c) ==
    /\ cur[c] = c
    /\ ~trapped[c]
    /\ Top(c).pc = "loop"
    /\ iflag' = [iflag EXCEPT ![c] = TRUE]
    /\ Goto(c, "idle")
    /\ UNCHANGED <<locked, lkcpu, ncli, intena, cur, trapped, saved, held,
                   below, panic>>

(* switch_to_scheduler(), up to the switch. *)
SwitchToScheduler(c) ==
    LET p == cur[c] IN
    /\ p \in Procs
    /\ Top(p).pc = "idle"
    /\ held[p] \ below[p] = {PTable}
    /\ panic' = (panic \/ ~Holding(c, PTable) \/ iflag[c] \/ ncli[c] # 1)
    /\ saved' = [saved EXCEPT ![p] = intena[c]]
    /\ cur' = [cur EXCEPT ![c] = c]
    /\ held' = [held EXCEPT ![p] = {}, ![c] = {PTable}]
    /\ frame' = [frame EXCEPT ![p][Level(p)] = [Top(p) EXCEPT !.pc = "switched"],
                              ![c][1] = Fresh("back")]
    /\ UNCHANGED <<locked, lkcpu, ncli, intena, iflag, trapped, below>>

Parked(p) == p \in Procs /\ \A c \in CPUs : cur[c] # p

(* Mutant of SwitchToProcess: interrupts_enabled is not restored. *)
SwitchNoRestore(c, p) ==
    /\ cur[c] = c
    /\ ~trapped[c]
    /\ Top(c).pc = "idle"
    /\ held[c] = {PTable}
    /\ Parked(p)
    /\ cur' = [cur EXCEPT ![c] = p]
    /\ held' = [held EXCEPT ![c] = {}, ![p] = {PTable}]
    /\ intena' = [intena EXCEPT ![c] = @]
    /\ saved' = [saved EXCEPT ![p] = FALSE]
    /\ Goto(p, "idle")
    /\ UNCHANGED <<locked, lkcpu, ncli, iflag, trapped, below, panic>>

(* The scheduler's switch_context() into a process: forkret goes straight  *)
(* to its release, switch_to_scheduler first restores interrupts_enabled.  *)
SwitchToProcess(c, p) ==
    /\ cur[c] = c
    /\ ~trapped[c]
    /\ Top(c).pc = "idle"
    /\ held[c] = {PTable}
    /\ Parked(p)
    /\ cur' = [cur EXCEPT ![c] = p]
    /\ held' = [held EXCEPT ![c] = {}, ![p] = {PTable}]
    /\ intena' = [intena EXCEPT ![c] = IF Top(p).pc = "switched" THEN saved[p] ELSE @]
    /\ saved' = [saved EXCEPT ![p] = FALSE]
    /\ Goto(p, "idle")
    /\ UNCHANGED <<locked, lkcpu, ncli, iflag, trapped, below, panic>>

-----------------------------------------------------------------------------
(* Steps a CPU cannot put off: it is inside acquire, release or a switch. *)
Progress(c) ==
    \/ Pushcli(c)
    \/ AcquireCheck(c)
    \/ Xchg(c)
    \/ SetOwner(c)
    \/ \E l \in Locks : ReleaseCheck(c, l)
    \/ Unlock(c)
    \/ Popcli(c)

Next ==
    \E c \in CPUs :
        \/ Progress(c)
        \/ \E l \in Locks : ReadEflags(c, l)
        \/ Interrupt(c)
        \/ Iret(c)
        \/ SchedulerSti(c)
        \/ SwitchToScheduler(c)
        \/ \E p \in Procs : SwitchToProcess(c, p)

Spec == Init /\ [][Next]_vars

(* A CPU always executes its next instruction, a critical section of       *)
(* ptable.lock takes inner locks only finitely often, and a CPU that spins *)
(* is not beaten to the lock for ever (the xchg loop itself is not fair:   *)
(* this is an assumption about the bus).                                   *)
FairSpec ==
    /\ Spec
    /\ \A c \in CPUs : /\ WF_vars(Progress(c))
                      /\ SF_vars(ReleaseCheck(c, PTable))
                      /\ SF_vars(Xchg(c))

-----------------------------------------------------------------------------
(* No two threads are ever between the xchg of acquire() and the store of  *)
(* release() on the same lock, whichever CPUs they run on and through the  *)
(* hand-over of ptable.lock at a context switch.                           *)
MutualExclusion ==
    \A t, u \in Threads : t # u => held[t] \cap held[u] = {}

(* The ASSERTs of acquire, release, popcli and switch_to_scheduler never   *)
(* fail: holding() is true on a CPU exactly when the thread running there  *)
(* holds the lock, although lk->cpu is written after the xchg and cleared  *)
(* before the unlock, and ncli is 1 at a switch.                           *)
NoPanic == ~panic

(* Interrupts follow the thread, not the CPU.  When a process is outside   *)
(* every critical section interrupts are off inside a trap and on outside  *)
(* one, even if it was switched out in the handler and resumed on another  *)
(* CPU: pushcli nesting and the interrupts_enabled saved by                *)
(* switch_to_scheduler put them back.                                      *)
InterruptStateFollowsThread ==
    \A c \in CPUs : LET p == cur[c] IN
        (p \in Procs /\ Top(p).pc = "idle" /\ held[p] = {})
            => (iflag[c] <=> ~trapped[p])

(* A CPU never spins on a lock held by the code its handler interrupted:   *)
(* acquire() turned interrupts off, so the interrupted frame holds none.   *)
NoSelfDeadlock ==
    \A c \in CPUs : LET t == cur[c] IN
        Top(t).pc = "spin" => Top(t).lk \notin held[t]

(* ptable.lock, which every scheduling decision takes, is released again   *)
(* by whoever holds it.                                                    *)
PTableReleased == locked[PTable] = 1 ~> locked[PTable] = 0
=============================================================================

----------------------------- MODULE Scheduler ------------------------------
(***************************************************************************)
(* kernel/task/scheduler.c, alloc_proc and fork of kernel/task/proc.c and  *)
(* the scheduling half of trap() in kernel/x86/trap.c.                     *)
(*                                                                         *)
(* A critical section of ptable.lock is one step, except where it crosses  *)
(* a context switch: there the lock stays with the CPU (ptlock) and the    *)
(* two sides are two steps.  What the code does without the lock (a failed *)
(* fork, the parent field, killed, the test of runnable_queue.size) is a   *)
(* step of its own.  initproc is slot 1, the first slot alloc_proc finds.  *)
(***************************************************************************)
EXTENDS Naturals, Sequences, FiniteSets, FiniteSetsExt, TaskQueue

CONSTANTS CPUs,
          Chans,       \* sleep channels of devices, pipes, locks ...
          NPROC,       \* slots of ptable
          MaxPid,      \* bound on nextpid: forks stop there
          KillPids,    \* arguments of kill()
          TIME_SLICE_TICKS,
          nullptr

Slots == 1..NPROC
initproc == 1

ASSUME SchedulerAssumption ==
    /\ NPROC \in Nat \ {0}
    /\ MaxPid \in Nat \ {0}
    /\ TIME_SLICE_TICKS \in Nat \ {0}
    /\ Tasks = Slots
    /\ nullptr \notin Slots \cup CPUs \cup Chans
    /\ Slots \cap Chans = {}
    /\ KillPids \subseteq Nat

VARIABLES
    ptlock,                              \* the CPU that holds ptable.lock
    state, pid, parent, killed, chan,    \* fields of ptable.proc[]
    pc,                                  \* where the process is in the kernel
    np,                                  \* fork's local np
    yielding,                            \* trap() or sys_yield is about to call yield()
    nextpid,
    proc,                                \* cpu->proc
    at,                                  \* where the CPU is: scheduler() or a process
    slice,                               \* cpu->time_slice_ticks
    panic

procVars == <<state, pid, parent, killed, chan, nextpid>>
cpuVars == <<proc, at, slice>>
vars == <<ptlock, procVars, pc, np, yielding, cpuVars, rq, panic>>

States == {"UNUSED", "EMBRYO", "SLEEPING", "RUNNABLE", "RUNNING", "ZOMBIE"}
PCs == {"user", "sys", "embryo", "publish", "waiting", "asleep",
        "exit", "forkret", "gone"}

TypeOK ==
    /\ ptlock \in CPUs \cup {nullptr}
    /\ state \in [Slots -> States]
    /\ pid \in [Slots -> 0..MaxPid]
    /\ parent \in [Slots -> Slots \cup {nullptr}]
    /\ killed \in [Slots -> BOOLEAN]
    /\ chan \in [Slots -> Slots \cup Chans \cup {nullptr}]
    /\ pc \in [Slots -> PCs]
    /\ np \in [Slots -> Slots \cup {nullptr}]
    /\ yielding \in [Slots -> BOOLEAN]
    /\ nextpid \in 1..(MaxPid + 1)
    /\ proc \in [CPUs -> Slots \cup {nullptr}]
    /\ at \in [CPUs -> {"loop", "proc", "back"}]
    /\ slice \in [CPUs -> 0..TIME_SLICE_TICKS]
    /\ rq \in Queue
    /\ panic \in BOOLEAN

(* After user_init: initproc is RUNNABLE and queued. *)
Init ==
    /\ ptlock = nullptr
    /\ state = [s \in Slots |-> IF s = initproc THEN "RUNNABLE" ELSE "UNUSED"]
    /\ pid = [s \in Slots |-> IF s = initproc THEN 1 ELSE 0]
    /\ parent = [s \in Slots |-> nullptr]
    /\ killed = [s \in Slots |-> FALSE]
    /\ chan = [s \in Slots |-> nullptr]
    /\ pc = [s \in Slots |-> IF s = initproc THEN "forkret" ELSE "gone"]
    /\ np = [s \in Slots |-> nullptr]
    /\ yielding = [s \in Slots |-> FALSE]
    /\ nextpid = 2
    /\ proc = [c \in CPUs |-> nullptr]
    /\ at = [c \in CPUs |-> "loop"]
    /\ slice = [c \in CPUs |-> 0]
    /\ rq = Enqueue(EmptyQueue, initproc)
    /\ panic = FALSE

-----------------------------------------------------------------------------
(* CPU c executes process p, outside ptable.lock, at the given point. *)
Runs(c, p, where) ==
    /\ at[c] = "proc"
    /\ proc[c] = p
    /\ ptlock # c
    /\ pc[p] = where
    /\ ~yielding[p]

LockFree == ptlock = nullptr
Goto(p, where) == pc' = [pc EXCEPT ![p] = where]

(* Where a process goes when it leaves the kernel: exit() if killed. *)
LeaveKernel(p) == IF killed[p] THEN "exit" ELSE "user"

(* switch_to_scheduler: the CPU keeps the lock and continues scheduler(). *)
SwitchToScheduler(c) ==
    /\ ptlock' = c
    /\ at' = [at EXCEPT ![c] = "back"]

(* wakeup_locked on a set of channels.  The code appends the sleepers in   *)
(* table order; the model allows any order.  `bad' is a failed ASSERT of   *)
(* the caller, beside that of each enqueue_task.                           *)
Sleepers(chans) == {s \in Slots : state[s] = "SLEEPING" /\ chan[s] \in chans}
Orders(S) ==
    {f \in UNION {[1..n -> S] : n \in 0..NPROC} :
        /\ \A i, j \in DOMAIN f : f[i] = f[j] => i = j
        /\ \A s \in S : \E i \in DOMAIN f : f[i] = s}
MakeRunnable(S) == [s \in Slots |-> IF s \in S THEN "RUNNABLE" ELSE state[s]]
EnqueueWoken(S, bad) ==
    /\ \E order \in Orders(S) : rq' = EnqueueAll(rq, order)
    /\ panic' = (panic \/ bad \/ \E s \in S : ~NextIsNull(rq, s))

-----------------------------------------------------------------------------
(* scheduler(): take the lock, dequeue a process, run it with the lock.    *)
Dispatch(c) ==
    LET p == Head(rq.order) IN
    /\ at[c] = "loop"
    /\ LockFree
    /\ rq.order # <<>>
    /\ ptlock' = c
    /\ rq' = Dequeue(rq)
    /\ proc' = [proc EXCEPT ![c] = p]
    /\ state' = [state EXCEPT ![p] = "RUNNING"]
    /\ slice' = [slice EXCEPT ![c] = TIME_SLICE_TICKS]
    /\ at' = [at EXCEPT ![c] = "proc"]
    /\ UNCHANGED <<pid, parent, killed, chan, nextpid, pc, np, yielding, panic>>

(* Mutant of Back: no test of RUNNABLE. *)
BackAlwaysEnqueues(c) ==
    LET p == proc[c] IN
    /\ at[c] = "back"
    /\ rq' = Enqueue(rq, p)
    /\ panic' = (panic \/ (state[p] = "RUNNABLE" /\ ~NextIsNull(rq, p)))
    /\ proc' = [proc EXCEPT ![c] = nullptr]
    /\ at' = [at EXCEPT ![c] = "loop"]
    /\ ptlock' = nullptr
    /\ UNCHANGED <<procVars, pc, np, yielding, slice>>

(* Mutant of Back: cpu->proc is not reset. *)
BackKeepsProc(c) ==
    LET p == proc[c] IN
    /\ at[c] = "back"
    /\ rq' = IF state[p] = "RUNNABLE" THEN Enqueue(rq, p) ELSE rq
    /\ panic' = (panic \/ (state[p] = "RUNNABLE" /\ ~NextIsNull(rq, p)))
    /\ proc' = proc
    /\ at' = [at EXCEPT ![c] = "loop"]
    /\ ptlock' = nullptr
    /\ UNCHANGED <<procVars, pc, np, yielding, slice>>

(* scheduler(): back from the process, which is enqueued if it is RUNNABLE *)
(* (yield() has enqueued it already).                                      *)
Back(c) ==
    LET p == proc[c] IN
    /\ at[c] = "back"
    /\ rq' = IF state[p] = "RUNNABLE" THEN Enqueue(rq, p) ELSE rq
    /\ panic' = (panic \/ (state[p] = "RUNNABLE" /\ ~NextIsNull(rq, p)))
    /\ proc' = [proc EXCEPT ![c] = nullptr]
    /\ at' = [at EXCEPT ![c] = "loop"]
    /\ ptlock' = nullptr
    /\ UNCHANGED <<procVars, pc, np, yielding, slice>>

(* The resumed process drops the lock: forkret, the end of yield(), the    *)
(* end of sleep() on a channel.                                            *)
Resume(c) ==
    LET p == proc[c] IN
    /\ at[c] = "proc"
    /\ ptlock = c
    /\ yielding[p] \/ pc[p] \in {"forkret", "asleep"}
    /\ ptlock' = nullptr
    /\ yielding' = [yielding EXCEPT ![p] = FALSE]
    /\ chan' = [chan EXCEPT ![p] =
                   IF ~yielding[p] /\ pc[p] = "asleep" THEN nullptr ELSE @]
    /\ Goto(p, CASE yielding[p] /\ pc[p] = "user" -> LeaveKernel(p)
                 [] yielding[p] /\ pc[p] # "user" -> pc[p]
                 [] ~yielding[p] /\ pc[p] = "forkret" -> "user"
                 [] ~yielding[p] /\ pc[p] = "asleep" -> "sys")
    /\ UNCHANGED <<state, pid, parent, killed, nextpid, np, cpuVars, rq, panic>>

-----------------------------------------------------------------------------
(* syscall_handler: a killed process exits on the way in and out. *)
EnterSyscall(c, p) ==
    /\ Runs(c, p, "user")
    /\ Goto(p, IF killed[p] THEN "exit" ELSE "sys")
    /\ UNCHANGED <<ptlock, procVars, np, yielding, cpuVars, rq, panic>>

ReturnToUser(c, p) ==
    /\ Runs(c, p, "sys")
    /\ Goto(p, LeaveKernel(p))
    /\ UNCHANGED <<ptlock, procVars, np, yielding, cpuVars, rq, panic>>

(* exception_handler / page_fault_handler in user mode: killed = 1, and    *)
(* trap() then calls exit().                                               *)
Exception(c, p) ==
    /\ Runs(c, p, "user")
    /\ p # initproc
    /\ killed' = [killed EXCEPT ![p] = TRUE]
    /\ Goto(p, "exit")
    /\ UNCHANGED <<ptlock, state, pid, parent, chan, nextpid, np, yielding,
                   cpuVars, rq, panic>>

(* Mutant of Timer: no test of time_slice_ticks > 0. *)
TimerUnderflows(c) ==
    LET p == proc[c]
        left == slice[c] - 1
        dies == killed[p] /\ pc[p] = "user"
        preempted == ~dies /\ SizeAboveOne(rq) /\ left = 0 IN
    /\ at[c] = "proc"
    /\ ptlock # c
    /\ ~yielding[p]
    /\ slice' = [slice EXCEPT ![c] = IF preempted THEN TIME_SLICE_TICKS ELSE left]
    /\ yielding' = [yielding EXCEPT ![p] = preempted]
    /\ Goto(p, IF dies THEN "exit" ELSE pc[p])
    /\ UNCHANGED <<ptlock, procVars, np, proc, at, rq, panic>>

(* Mutant of Timer: the slice does not run down. *)
TimerNeverExpires(c) ==
    LET p == proc[c]
        left == slice[c]
        dies == killed[p] /\ pc[p] = "user"
        preempted == ~dies /\ SizeAboveOne(rq) /\ left = 0 IN
    /\ at[c] = "proc"
    /\ ptlock # c
    /\ ~yielding[p]
    /\ slice' = [slice EXCEPT ![c] = IF preempted THEN TIME_SLICE_TICKS ELSE left]
    /\ yielding' = [yielding EXCEPT ![p] = preempted]
    /\ Goto(p, IF dies THEN "exit" ELSE pc[p])
    /\ UNCHANGED <<ptlock, procVars, np, proc, at, rq, panic>>

(* Mutant of Timer: no preemption, no test of killed. *)
TimerReturnsEarly(c) ==
    LET p == proc[c]
        left == IF slice[c] > 0 THEN slice[c] - 1 ELSE 0
        dies == FALSE
        preempted == FALSE IN
    /\ at[c] = "proc"
    /\ ptlock # c
    /\ ~yielding[p]
    /\ slice' = [slice EXCEPT ![c] = IF preempted THEN TIME_SLICE_TICKS ELSE left]
    /\ yielding' = [yielding EXCEPT ![p] = preempted]
    /\ Goto(p, IF dies THEN "exit" ELSE pc[p])
    /\ UNCHANGED <<ptlock, procVars, np, proc, at, rq, panic>>

(* trap() for a timer interrupt.  runnable_queue.size is read without      *)
(* ptable.lock; yield() takes it afterwards.                               *)
Timer(c) ==
    LET p == proc[c]
        left == IF slice[c] > 0 THEN slice[c] - 1 ELSE 0
        dies == killed[p] /\ pc[p] = "user"
        preempted == ~dies /\ SizeAboveOne(rq) /\ left = 0 IN
    /\ at[c] = "proc"
    /\ ptlock # c
    /\ ~yielding[p]
    /\ slice' = [slice EXCEPT ![c] = IF preempted THEN TIME_SLICE_TICKS ELSE left]
    /\ yielding' = [yielding EXCEPT ![p] = preempted]
    /\ Goto(p, IF dies THEN "exit" ELSE pc[p])
    /\ UNCHANGED <<ptlock, procVars, np, proc, at, rq, panic>>

SysYield(c, p) ==
    /\ Runs(c, p, "sys")
    /\ yielding' = [yielding EXCEPT ![p] = TRUE]
    /\ UNCHANGED <<ptlock, procVars, pc, np, cpuVars, rq, panic>>

(* yield(), up to the switch. *)
Yield(c) ==
    LET p == proc[c] IN
    /\ at[c] = "proc"
    /\ yielding[p]
    /\ LockFree
    /\ state' = [state EXCEPT ![p] = "RUNNABLE"]
    /\ rq' = Enqueue(rq, p)
    /\ panic' = (panic \/ ~NextIsNull(rq, p))
    /\ SwitchToScheduler(c)
    /\ UNCHANGED <<pid, parent, killed, chan, nextpid, pc, np, yielding, proc, slice>>

-----------------------------------------------------------------------------
(* fork(): alloc_proc takes the first UNUSED slot. *)
AllocProc(c, p) ==
    LET unused == {s \in Slots : state[s] = "UNUSED"}
        s == Min(unused) IN
    /\ Runs(c, p, "sys")
    /\ LockFree
    /\ nextpid <= MaxPid
    /\ unused # {}
    /\ state' = [state EXCEPT ![s] = "EMBRYO"]
    /\ pid' = [pid EXCEPT ![s] = nextpid]
    /\ nextpid' = nextpid + 1
    /\ np' = [np EXCEPT ![p] = s]
    /\ Goto(p, "embryo")
    /\ UNCHANGED <<ptlock, parent, killed, chan, yielding, cpuVars, rq, panic>>

(* No kernel stack, page directory or vm_area: the slot goes back without  *)
(* the lock, its pid and killed left as they are.                          *)
ForkFails(c, p) ==
    /\ Runs(c, p, "embryo")
    /\ state' = [state EXCEPT ![np[p]] = "UNUSED"]
    /\ np' = [np EXCEPT ![p] = nullptr]
    /\ Goto(p, "sys")
    /\ UNCHANGED <<ptlock, pid, parent, killed, chan, nextpid, yielding,
                   cpuVars, rq, panic>>

ForkCopies(c, p) ==
    /\ Runs(c, p, "embryo")
    /\ parent' = [parent EXCEPT ![np[p]] = p]
    /\ pc' = [pc EXCEPT ![p] = "publish", ![np[p]] = "forkret"]
    /\ UNCHANGED <<ptlock, state, pid, killed, chan, nextpid, np, yielding,
                   cpuVars, rq, panic>>

ForkPublishes(c, p) ==
    LET s == np[p] IN
    /\ Runs(c, p, "publish")
    /\ LockFree
    /\ state' = [state EXCEPT ![s] = "RUNNABLE"]
    /\ rq' = Enqueue(rq, s)
    /\ panic' = (panic \/ ~NextIsNull(rq, s))
    /\ np' = [np EXCEPT ![p] = nullptr]
    /\ Goto(p, "sys")
    /\ UNCHANGED <<ptlock, pid, parent, killed, chan, nextpid, yielding, cpuVars>>

-----------------------------------------------------------------------------
Children(p) == {s \in Slots : parent[s] = p}
Zombies(p) == {s \in Children(p) : state[s] = "ZOMBIE"}

(* One pass of wait()'s loop, holding ptable.lock: reap the first zombie,  *)
(* or return -1, or go to sleep on the caller's own slot.                  *)
Reap(c, p) ==
    LET z == Min(Zombies(p)) IN
    /\ Zombies(p) # {}
    /\ state' = [state EXCEPT ![z] = "UNUSED"]
    /\ pid' = [pid EXCEPT ![z] = 0]
    /\ parent' = [parent EXCEPT ![z] = nullptr]
    /\ killed' = [killed EXCEPT ![z] = FALSE]
    /\ chan' = [chan EXCEPT ![p] = nullptr]
    /\ Goto(p, "sys")
    /\ ptlock' = nullptr
    /\ UNCHANGED <<nextpid, np, yielding, cpuVars, rq, panic>>

WaitReturnsError(c, p) ==
    /\ Zombies(p) = {}
    /\ Children(p) = {} \/ killed[p]
    /\ chan' = [chan EXCEPT ![p] = nullptr]
    /\ Goto(p, "sys")
    /\ ptlock' = nullptr
    /\ UNCHANGED <<state, pid, parent, killed, nextpid, np, yielding, cpuVars,
                   rq, panic>>

WaitSleeps(c, p) ==
    /\ Zombies(p) = {}
    /\ Children(p) # {}
    /\ ~killed[p]
    /\ chan' = [chan EXCEPT ![p] = p]
    /\ state' = [state EXCEPT ![p] = "SLEEPING"]
    /\ Goto(p, "waiting")
    /\ SwitchToScheduler(c)
    /\ UNCHANGED <<pid, parent, killed, nextpid, np, yielding, proc, slice, rq, panic>>

Wait(c, p) ==
    /\ \/ Runs(c, p, "sys") /\ LockFree
       \/ at[c] = "proc" /\ proc[c] = p /\ ptlock = c /\ ~yielding[p] /\ pc[p] = "waiting"
    /\ Reap(c, p) \/ WaitReturnsError(c, p) \/ WaitSleeps(c, p)

(* exit() by a system call; init never makes it (it would panic). *)
SysExit(c, p) ==
    /\ Runs(c, p, "sys")
    /\ p # initproc
    /\ Goto(p, "exit")
    /\ UNCHANGED <<ptlock, procVars, np, yielding, cpuVars, rq, panic>>

(* Mutant of Exit: only init is woken. *)
ExitNoWakeup(c, p) ==
    LET woken == Sleepers({initproc} \cup
                          (IF Zombies(p) # {} THEN {initproc} ELSE {})) IN
    /\ Runs(c, p, "exit")
    /\ LockFree
    /\ parent' = [s \in Slots |-> IF parent[s] = p THEN initproc ELSE parent[s]]
    /\ state' = [MakeRunnable(woken) EXCEPT ![p] = "ZOMBIE"]
    /\ EnqueueWoken(woken, p = initproc)
    /\ Goto(p, "gone")
    /\ SwitchToScheduler(c)
    /\ UNCHANGED <<pid, killed, chan, nextpid, np, yielding, proc, slice>>

(* Mutant of Exit: children are not handed to init. *)
ExitKeepsChildren(c, p) ==
    LET woken == Sleepers({parent[p]} \cup
                          (IF Zombies(p) # {} THEN {initproc} ELSE {})) IN
    /\ Runs(c, p, "exit")
    /\ LockFree
    /\ parent' = parent
    /\ state' = [MakeRunnable(woken) EXCEPT ![p] = "ZOMBIE"]
    /\ EnqueueWoken(woken, p = initproc)
    /\ Goto(p, "gone")
    /\ SwitchToScheduler(c)
    /\ UNCHANGED <<pid, killed, chan, nextpid, np, yielding, proc, slice>>

(* exit(): wake the parent, hand the children to init and wake it if one   *)
(* of them is a zombie, become a zombie, switch.                           *)
Exit(c, p) ==
    LET woken == Sleepers({parent[p]} \cup
                          (IF Zombies(p) # {} THEN {initproc} ELSE {})) IN
    /\ Runs(c, p, "exit")
    /\ LockFree
    /\ parent' = [s \in Slots |-> IF parent[s] = p THEN initproc ELSE parent[s]]
    /\ state' = [MakeRunnable(woken) EXCEPT ![p] = "ZOMBIE"]
    /\ EnqueueWoken(woken, p = initproc)
    /\ Goto(p, "gone")
    /\ SwitchToScheduler(c)
    /\ UNCHANGED <<pid, killed, chan, nextpid, np, yielding, proc, slice>>

(* Mutant of Kill: enqueues whatever the state is. *)
KillEnqueues(c, p, k) ==
    LET found == {s \in Slots : pid[s] = k}
        s == Min(found)
        woken == {s} IN
    /\ Runs(c, p, "sys")
    /\ LockFree
    /\ found # {}
    /\ killed' = [killed EXCEPT ![s] = TRUE]
    /\ state' = MakeRunnable(woken)
    /\ EnqueueWoken(woken, FALSE)
    /\ UNCHANGED <<ptlock, pid, parent, chan, nextpid, pc, np, yielding,
                   cpuVars>>

(* kill(): the first slot with that pid, whatever its state. *)
Kill(c, p, k) ==
    LET found == {s \in Slots : pid[s] = k}
        s == Min(found)
        woken == {s} \cap {w \in Slots : state[w] = "SLEEPING"} IN
    /\ Runs(c, p, "sys")
    /\ LockFree
    /\ found # {}
    /\ killed' = [killed EXCEPT ![s] = TRUE]
    /\ state' = MakeRunnable(woken)
    /\ EnqueueWoken(woken, FALSE)
    /\ UNCHANGED <<ptlock, pid, parent, chan, nextpid, pc, np, yielding,
                   cpuVars>>

-----------------------------------------------------------------------------
(* sleep(chan, lk) for a lock other than ptable.lock. *)
Sleep(c, p, ch) ==
    /\ Runs(c, p, "sys")
    /\ LockFree
    /\ chan' = [chan EXCEPT ![p] = ch]
    /\ state' = [state EXCEPT ![p] = "SLEEPING"]
    /\ Goto(p, "asleep")
    /\ SwitchToScheduler(c)
    /\ UNCHANGED <<pid, parent, killed, nextpid, np, yielding, proc, slice, rq, panic>>

(* wakeup(chan), from a process or an interrupt handler. *)
Wakeup(ch) ==
    /\ LockFree
    /\ Sleepers({ch}) # {}
    /\ state' = MakeRunnable(Sleepers({ch}))
    /\ EnqueueWoken(Sleepers({ch}), FALSE)
    /\ UNCHANGED <<ptlock, pid, parent, killed, chan, nextpid, pc, np,
                   yielding, cpuVars>>

-----------------------------------------------------------------------------
(* Kernel code that runs to its end once started. *)
KernelStep(c) ==
    \/ Dispatch(c)
    \/ Back(c)
    \/ Resume(c)
    \/ Yield(c)
    \/ \E p \in Slots :
          \/ ForkFails(c, p)
          \/ ForkCopies(c, p)
          \/ ForkPublishes(c, p)
          \/ Exit(c, p)
          \/ pc[p] = "waiting" /\ Wait(c, p)

(* What a program chooses to do. *)
UserStep(c, p) ==
    \/ EnterSyscall(c, p)
    \/ ReturnToUser(c, p)
    \/ Exception(c, p)
    \/ SysYield(c, p)
    \/ AllocProc(c, p)
    \/ Wait(c, p)
    \/ SysExit(c, p)
    \/ \E k \in KillPids : Kill(c, p, k)
    \/ \E ch \in Chans : Sleep(c, p, ch)

Next ==
    \/ \E c \in CPUs : KernelStep(c) \/ Timer(c)
    \/ \E c \in CPUs, p \in Slots : UserStep(c, p)
    \/ \E ch \in Chans : Wakeup(ch)

Spec == Init /\ [][Next]_vars

(* CPUs execute kernel code to its end, a CPU that spins on ptable.lock is *)
(* served in the end, timer interrupts keep coming, and a process that is  *)
(* given slices over and over gets through exit(); programs may spin in    *)
(* user mode for ever.                                                     *)
FairSpec ==
    /\ Spec
    /\ \A c \in CPUs : SF_vars(KernelStep(c)) /\ WF_vars(Timer(c))
    /\ \A p \in Slots : SF_vars(\E c \in CPUs : Exit(c, p))

-----------------------------------------------------------------------------
(* Outside the critical sections of ptable.lock the run queue holds every  *)
(* RUNNABLE process exactly once and nothing else, through fork, yield,    *)
(* preemption, wakeup, kill and the second enqueue in scheduler().         *)
RunQueueExact ==
    LockFree =>
        /\ Elements(rq) = {s \in Slots : state[s] = "RUNNABLE"}
        /\ \A i, j \in 1..Len(rq.order) : rq.order[i] = rq.order[j] => i = j

(* A process runs on at most one CPU, and exactly the RUNNING processes    *)
(* are some CPU's cpu->proc: no process is run twice, none is left RUNNING *)
(* with no CPU.                                                            *)
OneCpuPerProcess ==
    /\ \A c, d \in CPUs : proc[c] = proc[d] /\ proc[c] # nullptr => c = d
    /\ LockFree => \A s \in Slots :
          state[s] = "RUNNING" <=> \E c \in CPUs : proc[c] = s

(* No exit is lost on a parent asleep in wait(): when the lock is free no  *)
(* process sleeps there with a zombie child or with killed set, although   *)
(* children are handed to init and kill() may come at any point.           *)
WaitMissesNothing ==
    LockFree => \A p \in Slots :
        state[p] = "SLEEPING" /\ pc[p] = "waiting" => Zombies(p) = {} /\ ~killed[p]

(* Every process but init has a parent that can still reap it: exit()      *)
(* reparents before it becomes a zombie, so no zombie is beyond wait().    *)
ParentCanReap ==
    LockFree => \A s \in Slots \ {initproc} :
        state[s] \in {"SLEEPING", "RUNNABLE", "RUNNING", "ZOMBIE"} =>
            /\ parent[s] \in Slots
            /\ state[parent[s]] \notin {"UNUSED", "EMBRYO", "ZOMBIE"}

(* enqueue_task's ASSERT holds at every call and init never exits.         *)
NoPanic == ~panic

(* Round robin once the counter has run ahead of the queue: a RUNNABLE     *)
(* process gets a CPU although every running program may spin for ever in  *)
(* user mode, because trap() preempts whenever size > 1.                   *)
RoundRobin ==
    \A p \in Slots :
        (state[p] = "RUNNABLE" /\ rq.ahead > 0) ~> state[p] = "RUNNING"

(* Under the same condition kill() is final: a killed process that runs in *)
(* user mode becomes a zombie even if it never makes a system call and is  *)
(* preempted on its way through exit().                                    *)
KilledProcessDies ==
    \A p \in Slots :
        (state[p] = "RUNNING" /\ pc[p] = "user" /\ killed[p] /\ rq.ahead > 0)
            ~> state[p] = "ZOMBIE"

(* What the preempt test of usertests.c relies on (two children spin, the  *)
(* third must still run): every RUNNABLE process is run.  trap() tests     *)
(* size > 1 where one waiting process makes size 1.                        *)
RunnableEventuallyRuns ==
    \A p \in Slots : state[p] = "RUNNABLE" ~> state[p] = "RUNNING"
=============================================================================

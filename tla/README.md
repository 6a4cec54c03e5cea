# A TLA+ model of the AegrOS kernel

AegrOS is a 32-bit x86 SMP kernel descended from xv6.  This directory holds TLA+
modules for the parts of it where interleavings matter, TLC configurations that
check them on small instances, and proofs, checked by TLAPS, that the safety
properties of locks, run queue, scheduler, pipes, buffer cache, file system and
memory hold for every instance.

## Inventory

The kernel is built with `-DDEBUG` (ASSERTs are live), boots up to 8 CPUs and is
preemptible in kernel mode whenever a CPU holds no spinlock.

| Part | State | Operations | Interacts through | What is hard |
|---|---|---|---|---|
| spinlocks (`task/spinlock.c`) | `locked`, `cpu` per lock; `ncli`, `interrupts_enabled` per CPU | acquire, release, holding, pushcli, popcli | everything; `ptable.lock` is handed over in `switch_context` | races between CPUs, interrupts inside pushcli, per-CPU state of a migrating thread |
| run queue (`task/scheduler.c`) | `head`, `tail`, `size`, `proc.next` | enqueue_task, dequeue_task | scheduler, fork, wakeup, kill, yield | the double enqueue after yield, a counter that drifts |
| processes (`task/scheduler.c`, `task/proc.c`, `x86/trap.c`) | `ptable`, `nextpid`, `cpu->proc`, `time_slice_ticks` | scheduler, yield, timer, fork, wait, exit, kill, sleep, wakeup | sleep channels, `killed`, `parent` | lost wakeups, kill at any point, orphaned zombies, starvation |
| sleep locks (`task/sleeplock.c`) | `locked`, `pid` | acquiresleep, releasesleep | buffers, inodes | wakeup against sleep |
| pipes (`syscalls/pipe.c`, `fs/file.c`) | ring, `nread`, `nwrite`, `readopen`, `writeopen` | read, write, close | sleep and wakeup, file references | blocking both ways, kill, close against use, wrap of u32 |
| buffer cache (`fs/bio.c`) | MRU list, `refcnt`, `B_VALID`, `B_DIRTY`, sleep lock | bread, bwrite, brelse | ext2 above, disk below | lock dropped inside bget, recycling, running out |
| disk queue (`drivers/ide.c`, `drivers/ahci.c`) | `idequeue` | iderw, ideintr | interrupt wakes the process | order, errors, early wakeups |
| file table, inode cache, ext2, file system calls (`fs/`, `syscalls/sysfile.c`) | references, inode locks, bitmaps, link counts | open, read, write, link, unlink, iput | buffer cache, processes | lock order, freeing the last reference, crash between two writes |
| memory (`memory/`, `syscalls/exec.c`, `task/proc.c`) | free pages, page directories, `brk`, areas, cr3 and TLB, the kernel heap list | allocate, map, copy, free; fork, exec, sbrk, mmap, exit, wait; kmalloc, kfree | the scheduler loads directories, `ptable.lock` | running out half way, freeing what a CPU still uses, a heap without a lock, kernel mappings in many directories |
| console, keyboard, UART (`drivers/`) | input ring, termios | interrupt, read, write | sleep and wakeup | ring limits, timeouts |
| network (`net/`, `drivers/e1000.c`) | descriptor rings, ARP cache | send, receive, ARP, DHCP | interrupt handler | full tables, partial frames |
| FPU (`x86/fpu.c`) | save area per process, TS flag | #NM, save on switch | scheduler | whose registers are loaded |

`PROJECT.json` lists every component with its status, the hazards at their
lines, and the correspondence of definitions and source lines.

## Plan

1. *(done)* Spinlock, with proofs: everything else assumes it.
2. *(done)* TaskQueue, RunQueue and Scheduler, which extends TaskQueue; RunQueue
   implements TaskQueue.
3. *(done)* ByteStream and Pipe, which implements it.
4. *(done)* BufferCache: bio.c, sleep locks and the disk queue together.
5. *(done)* Ext2 and FileSystem, which extends it: inode cache, bitmaps, links,
   the file table and the file system calls, with crashes.
6. *(done)* AddressSpace: pages, page directories and the calls that build and
   free them.
7. Kmalloc: the unlocked free list, the growth of the kernel heap and its
   propagation to page directories.
8. Console (input ring), E1000 and ARP, FPU switching.

The proofs cover the modules of steps 1 to 6.

## Modules

### Spinlock

A thread is a process or the scheduler loop of a CPU.  `acquire` is the steps
`ReadEflags`, `Pushcli`, `AcquireCheck`, `Xchg`, `SetOwner`; `release` is
`ReleaseCheck`, `Unlock`, `Popcli`: each has at most one access that another CPU
can observe.  An interrupt (`Interrupt`, `Iret`) pushes a second frame on the
stack of the running thread with IF off; handlers do not nest, since all gates
but the system call are interrupt gates (`trap_vectors_init`).  System calls
leave IF on and are not distinguished from user code.  `SwitchToScheduler` and
`SwitchToProcess` are the two directions of `switch_context`: the lock moves
from one thread to the other, `ncli` stays with the CPU and `interrupts_enabled`
is saved in a local of `switch_to_scheduler`.  Locks are numbered in the order
in which they nest (`runnable_queue.lock` inside `ptable.lock`, pipe, tick and
device locks outside); a thread takes any lock above those it holds and releases
them in any order, as `sleep()` does.  `held` is a ghost variable: the locks
between their xchg and their unlock.  The scheduler loop takes only
`ptable.lock` first, as `scheduler()` does.

### TaskQueue and RunQueue

`RunQueue` is `struct process_queue`: `head`, `tail`, `next`, `size`.  The
caller's rule is the ASSERT `task->next == nullptr`, which the tail of the queue
meets too.  `TaskQueue` is what the scheduler relies on: a sequence without
repetitions and a counter; `ahead` is how far `size` exceeds the length.
Because only `size > 1` is ever tested, `ahead` saturates.  The list is stated
without walking it: `Listed` is the sequence of tasks that starts at `head` and
whose links are those of `next`.

### Scheduler

`ptable.proc[]` with `state`, `pid`, `parent`, `killed`, `chan`; per CPU `proc`,
`time_slice_ticks` and the point of `scheduler()`.  A critical section of
`ptable.lock` is one step, which Spinlock's `MutualExclusion` justifies; where
it crosses a context switch the lock stays with the CPU (`ptlock`) and the two
halves are two steps (`Dispatch` and `Resume`, `Yield`/`Sleep`/`WaitSleeps`/
`Exit` and `Back`).  Accesses without the lock are steps of their own: the
failure paths of fork, `parent`, `killed` set by an exception, the test of
`runnable_queue.size` in `trap()`.  `Timer` is `trap()` for a timer interrupt,
in user mode or in the kernel.  `exit()` closes files and frees memory before it
takes `ptable.lock`; that part belongs to other modules.  Programs make any
system call at any time, but init never exits and nobody kills pid 1, either of
which panics by design.

### ByteStream and Pipe

`Pipe` has `p->lock` explicitly and one action per branch of `pipe_read` and
`pipe_write`.  `kill()` takes only `ptable.lock`, so `Kill` is possible at every
point, between the test of `killed` and the sleep too.  `sleep()` releases
`p->lock` and becomes SLEEPING in one step because it holds `ptable.lock`.
A writer that finds itself killed returns without `wakeup(&p->nread)`;
`LeftBehind` is what it leaves, the one exception that `NoLostWakeup` makes.
`ByteStream` is a bounded FIFO with two ends.

### BufferCache

`bget` is the atomic scan under `bcache.lock` (`BgetHit`, `BgetRecycle`,
`BgetPanics`) followed by `acquiresleep` as a separate step; `brelse` is
`Releasesleep` and then `Brelse`.  The list is a sequence from most to least
recently used.  The disk is AHCI (polled; an error panics) or IDE (a queue, an
interrupt, errors that are swallowed), chosen at boot.  A process holds several
buffers and takes them in one order, as `ext2.c` does (an indirect block before
a bitmap, a bitmap before the inode table).  A panic halts the machine.  The
panics over the controller itself (none found, not ready: ide.c:160, ide.c:249)
are left out: the controller that was found at boot stays and is ready.

### Ext2 and FileSystem

`Ext2` holds the disk (`ibitmap`, `bbitmap`, `dinode`, `dents`) and the inode
cache (`icache`), and the changes that `iget`, `ilock`, `iupdate` and `balloc`
make to them.  `FileSystem` adds the open files (`ftable`), descriptors
(`ofile`), working directories (`cwd`) and, per process, where it is in its call
and the inodes it holds (`proc`).  A step ends where the code writes the disk or
may wait for an inode lock while it holds another; `bwrite` is synchronous
(BufferCache's `CleanMeansOnDisk`), so the order of steps is the order on the
disk.  `namex` is one step per path element; `create` is the lookup, `ialloc`'s
two writes, the inode, the parent's count, the block and the two entries of a
new directory, and the entry in the parent; `unlink` and `link` likewise;
`iput` is the test (`IputLock`), the bitmap (`Ifree`), the block (`Bfree`), the
inode (`IfreeUpdate`) and the reference (`IputDrop`).  `Crash` can come between
any two: memory is lost, the disk stays, and the machine boots with init alone.
There is no recovery pass, so what the invariants say of the disk is all that
the next boot can rely on: entries never name a free or untyped inode and a
block has one owner, while blocks and inodes may leak.  A machine boots with one
of `Images`, of which `ImagesAssumption` says that they are `Consistent`, as
mke2fs and earlier boots leave them; TLC evaluates it on the images of the run.

File contents, offsets, indirect blocks and block groups are left out, as are
`devtab_load`, which `open_file` calls first, and `devtab_add_entry`, by which
`mknod` opens and rewrites `/etc/devtab` while it holds the lock of the new
inode (sysfile.c:527, devtab.c:26).  `iput` writes the inode it frees twice, with
the old type in `itrunc` (ext2.c:614) and then with type 0 (ext2.c:359);
`IfreeUpdate` is both at once.

### AddressSpace

`free` and `mem` are the physical pages and their contents as directory or table
entries; `ptable` holds stack, directory, `brk` and the framebuffer area of each
slot; `k` the locals of its system call; `cr3` and `tlb` what its CPU has
loaded.  `fork` is `Fork` (alloc_proc), `InitProc`, `SetupDir`, `SetupKmap`,
then `Copyuvm` and `Mappages` per page, `CloneVmas`, `ForkDone`; `exec` uses the
same `SetupDir` and `SetupKmap`, then `Allocvm` and `Mappages` per page,
`ExecStack`, `ExecCommit`, `ExecActivate`, `ExecFreeOld`.  Each takes at most
one page, so memory may run out before every one, and `Fails` and `UndoAllocvm`
are the error paths.  A program is taken to have touched all of its pages when
it makes a call, so `tlb` holds as much as it ever could.  A zombie keeps
`ptable.lock` until `scheduler()` has left its stack and directory
(`SchedulerResumes`).

Assumed of the machine: the kernel heap begins on a 4 MB boundary (the memory
map of the emulator the Makefile starts does that) and has room for the
`vm_area`s of all processes, the framebuffer is smaller than what one page table
maps, and the memory is no larger than the user space below `FB_MMAP_BASE` (256
MB in the Makefile's machine, against 0x50000000): no process can grow up to the
framebuffer, but it may ask to, see below.  (A framebuffer of exactly one table
would not do: the loop of `unmap_vm_range` runs one page past the area, vm.c:628,
into the table after it.)  Outside these bounds
the code has defects that the hazards or this list record: with an unaligned
`KHEAP_START`, `replicate_kernel_range` overwrites the directory entry of a
table that was just allocated, which is lost (vm.c:367); a framebuffer in two
tables whose second allocation fails leaves entries behind that make the next
`mmap` panic (sysproc.c:274); `kzalloc` clears memory at address 0 when
`kmalloc` fails (kmalloc.c:112); `sbrk(-brk)` frees every page and reports
failure (proc.c:304), which `SbrkShrink` leaves out; with more memory, an sbrk
that gets as far as a mapped framebuffer panics in `mappages` (vm.c:178).
`munmap` does not flush the TLB; the framebuffer's pages belong to nobody else,
so `TlbHoldsOnlyMapped` speaks of memory pages only.

Inside the bounds there is one defect.  `allocvm` begins any request below
KERNBASE (vm.c:526), so the size asked for (`end` in `SbrkGrow`) is separate
from the size reached (`a`).  A request past `FB_MMAP_BASE` runs out of memory,
and its undo, `deallocvm(pgdir, newsz, oldsz)` (vm.c:537, vm.c:543), goes over
the whole range asked for: it also clears the entries of a framebuffer that the
process has mapped there (vm.c:576-581), while its `vm_area` stays.  After
`mmap` and `sbrk(0x50000000)` the framebuffer is gone from the page tables, and
the next `mmap` finds the area, takes it for mapped and returns its dead address
(sysproc.c:239-243).  TLC finds the state when asked for the invariant that a
process with the area has it mapped.  What holds is `FramebufferStays`: an area
is mapped in full by mmap and fork, and loses an entry to nothing else but such
an sbrk.  `BrkIsWhatIsMapped` says of the framebuffer only that nothing else is
mapped beyond `brk`.

## Runs

| Run | Bounds | Shows |
|---|---|---|
| spinlock | 2 CPUs, 1 process, 3 locks (one outside, one inside `ptable.lock`) | exclusion; no ASSERT fails; interrupts follow the thread; no spinning on one's own lock; `ptable.lock` is released |
| runqueue | 4 tasks, counter up to its bound | the list is well formed and implements TaskQueue |
| scheduler | 2 CPUs, 3 slots, 4 pids, kill of 0, 2, 3 | the queue holds exactly the RUNNABLE processes; one CPU per process; `wait` misses no exit; every zombie has a parent that can reap it; no ASSERT fails |
| sched_live | 1 CPU, 3 slots | round robin and death of killed processes among spinning programs |
| sched_preempt | 2 CPUs, 3 pids | *violated*: one queued process starves behind two spinning ones |
| pipe | 2 writers, 1 reader, ring of 2, counters modulo 4, requests of 1 and 3 bytes | FIFO, no lost wakeup, no use after free, a read of 0 bytes means end of file, close releases the peers |
| pipe_lost | the same | *violated*: a reader sleeps on a full pipe after the writer was killed |
| buffercache | 2 processes, 2 buffers, 3 blocks, 1 failed block | one copy per block, no recycling in use, write-through, no lost wakeup, no leak, requests complete |
| buffer_error | the same | *violated*: a buffer is B_VALID though nothing was read |
| filesystem | 2 processes, 3 calls, 1 crash, 3 inodes, 2 blocks, 2 files, 2 descriptors, 3 disk images | entries name live inodes and counts cover them; a block has one owner; the cache agrees with the disk; references and locks are exact; an open inode is kept; no check panics |
| fs_deadlock | the same without crash, 2 calls | *violated*: `creat` and `unlink` of one path wait for each other's inode lock |
| memory | 3 slots, 19 pages, 2 entries per table, 10 user tables below the framebuffer, sbrk by 2 and 20 pages, 4 allocating calls | every page is free or has one holder; no CPU uses a freed directory or stack; all pages below `brk` are mapped, and beyond it at most the framebuffer; a framebuffer area is mapped until a failed sbrk past its address; the TLB holds nothing that was freed; no panic |

Why the bounds are enough to reach the interesting cases: two CPUs give every
race of pushcli, holding and the hand-over; one process suffices for migration
(it resumes on the other CPU), and the proofs remove this bound altogether.
Three slots give init, a parent and a child, hence reparenting, and enough
processes to have both CPUs busy and one waiting; slot reuse happens because
pids run further than slots.  Requests of three bytes exceed the ring of two, so
writers block half way and the counters pass their wrap.  With three blocks and
two buffers every miss recycles, and two processes with two buffers each run the
cache out.

Three file system calls are enough for two processes to race and for one of
them to have left an open file, a name or a working directory behind; the
images save the calls that would build them.  The calls use the paths `/a`,
`/b`, `a`, `b` and `a/b`: none goes through `..` of a removed directory or links
onto `.` and `..`, where the code has further defects.  `ext2.c:747` drops an
inode whose lock the caller holds.  And a removed working directory keeps naming
its parent after the parent is gone: with the calls `chdir /a/b`, `unlink /a/b`,
`unlink /a` and `chdir ..`, in this order, the last one enters a free inode, and
the `iput` of the exit that follows panics in `ext2fs_ifree` ("inode already
free"); TLC finds this violation of `NoPanic` when it is given these calls and
an image with the two directories.  19 pages hold init, one child and five
more, so every allocation of fork, exec, sbrk and mmap is the last one in some
behaviour.  Page 20 is `FB_MMAP_BASE`: an sbrk of 20 pages asks for more than
lies below the framebuffer and fails at whichever allocation finds no page.

The `filesystem`, `fs_deadlock` and `memory` runs do not check deadlock: their
behaviours end when the bound on calls is reached.  `fs_deadlock` states the
deadlock as an invariant instead, and the cycle it finds is also among the
states of `filesystem`: the invariants hold there all the same.

The `pipe` run does not check deadlock: when all descriptors are closed and all
processes killed the model has nothing left to do.

### Fairness

* Spinlock: a CPU executes its next instruction (weak fairness of the steps of
  acquire and release).  A critical section of `ptable.lock` ends (strong
  fairness of its release: the code in it takes inner locks only finitely
  often) and a spinning CPU gets the lock in the end (strong fairness of the
  xchg).  The last is an assumption on the hardware: the xchg loop has no queue.
* Scheduler: kernel code runs to its end, the local timer keeps interrupting
  (`lapic` is periodic), a process that gets slice after slice gets through
  `exit()`.  Nothing is assumed of programs, which may spin.
* Pipe: a process inside a call continues and gets `p->lock` in the end.
  Nobody has to read, write or close.
* BufferCache: the drive answers, a runnable process runs.
* FileSystem and AddressSpace state safety only and assume no fairness.

`RoundRobin` and `KilledProcessDies` are stated for `ahead > 0`, the state the
machine is in after the first yield: before it, `sched_preempt` shows that they
fail.

## Proofs

Every safety property of a passing run is also a theorem, for every value of the
constants that meets the module's assumptions:

| Module | Theorem | States |
|---|---|---|
| SpinlockProofs | `TypeCorrect`, `Exclusion`, `AssertsHold`, `InterruptsFollow`, `NeverSpinsOnOwnLock` | `TypeOK`, `MutualExclusion`, `NoPanic`, `InterruptStateFollowsThread`, `NoSelfDeadlock` |
| RunQueueProofs | `ListStaysWellFormed`, `ListImplementsQueue` | `ListWellFormed`, the refinement `ImplementsTaskQueue` |
| SchedulerProofs | `TypeCorrect`, `QueueIsRunnable`, `NeverRunTwice`, `NoExitLost`, `NobodyOrphaned`, `AssertHolds` | `TypeOK`, `RunQueueExact`, `OneCpuPerProcess`, `WaitMissesNothing`, `ParentCanReap`, `NoPanic` |
| PipeProofs | `TypeCorrect`, `PageNotUsedAfterFree`, `WakeupsNotLost`, `ZeroMeansEof`, `PipeIsByteStream` | `TypeOK`, `NoUseAfterFree`, `NoLostWakeup`, the action property `ShortReadMeansEof`, the refinement `ImplementsByteStream` |
| BufferCacheProofs | `TypeCorrect`, `NoSecondCopy`, `NotRecycledInUse`, `WriteThrough`, `WakeupsNotLost`, `PanicMeansAllInUse` | `TypeOK`, `OneCopyPerBlock`, `BufferKeepsBlock`, `CleanMeansOnDisk`, `NoLostWakeup`, `NoBufferLeak` |
| FileSystemProofs | `TypeCorrect`, `ReferencesExact`, `RInvariant` | `TypeOK`, `RefsExact`, the inductive invariant itself |
| FileSystemDiskProofs | `EntriesLive`, `BlocksOnce`, `CacheAndDisk`, `OpenKept`, `NeverPanics`, `DInvariant` | `EntriesNameLiveInodes`, `BlocksOwnedOnce`, `CacheMatchesDisk`, `OpenInodeKept`, `NoPanic`, the inductive invariant itself; all for calls without `..` |
| AddressSpaceProofs | `TypeCorrect`, `NoPageLost`, `LiveMemory`, `MappedIsBrk`, `FramebufferKept`, `TlbIsFlushed`, `NeverPanics` | `TypeOK`, `PagesAccountedFor`, `RunsOnLiveMemory`, `BrkIsWhatIsMapped`, the action property `FramebufferStays`, `TlbHoldsOnlyMapped`, `NoPanic` |

Each module states one inductive invariant `IInv`, proves it of `Init` and, one
lemma per action or group of actions, of `Next`, and derives the theorems from
it.  TLC has checked every `IInv` as an invariant of an instance before it was
proved.  Five of the modules begin with the lemma `SmallestExists`: a non-empty
set of naturals has a least element, which is what the kernel's linear searches
and the `CHOOSE`s for them return.

### Spinlock

`SpinlockProofs` proves, for any sets of CPUs and processes and any finite set
of locks: `TypeOK`, `MutualExclusion`, `NoPanic`, `InterruptStateFollowsThread`
and `NoSelfDeadlock`.  Assumptions (`SpinlockAssumption`): CPUs and processes
are disjoint, locks are finitely many naturals, `ptable.lock` is one of them and
`nullptr` is neither a CPU nor a lock.

None of these is inductive alone; even `TypeOK` needs to know that the frame of
a thread about to xchg names a lock.  The invariant `IInv` says:

* `Placed`: no two CPUs run the same thread, a scheduler thread runs only on its
  own CPU.
* `Running`: for the thread a CPU runs, `ncli` is the number of locks it holds,
  plus one between pushcli and xchg and between unlock and popcli; IF is on only
  with `ncli = 0`; `interrupts_enabled` is the thread's own whenever `ncli > 0`,
  except in the scheduler on its way back from a process.
* `FramesOK`: the frame below a handler is at a point where IF can be on, so it
  holds no lock; its saved eflags are on.
* `OffOK`: a thread no CPU runs holds nothing, and is at a switch or at forkret
  with the right saved `interrupts_enabled`.
* `LocksOK`, `OwnersOK`: a held lock has `locked = 1`, and `lk->cpu` names a CPU
  exactly when its thread holds the lock outside the two windows in acquire and
  release.

One lemma per action shows that it preserves `IInv`; `LocalStep` covers what is
common to the steps that move only the running thread.  TLC has checked `IInv`
as an invariant of the `spinlock` instance.

### RunQueue

`IInv` says that some sequence of distinct tasks is the list: it starts at
`head`, follows `next`, ends at `tail` and null, tasks outside it have a null
`next`, and `size` is at least its length.  `head` and `next` determine such a
sequence (lemma `ListUnique`), so the list after a step can be given: the same
one, the one with the task appended, or its tail.  The refinement follows, step
by step; enqueueing the tail again, which the ASSERT lets through, is the step
of TaskQueue that only raises `ahead`.  Assumed: finitely many tasks, and
`MaxAhead` at least 2, the value from which `size > 1` no longer changes.

### Scheduler

`LockOK` follows `ptable.lock` over the context switch: a CPU that is back from
a process holds it.  `QueueOK` adds that this process, if it is RUNNABLE, is the
last of the queue, which is why the second enqueue in `scheduler()` is harmless.
`RunningOK` ties RUNNING to `cpu->proc`; `ForkOK` follows a fork over its
unlocked part, during which nobody else refers to the EMBRYO; `SlotsOK` and
`WaitOK` say where a sleeping or dead process is, and that a parent asleep in
`wait()` has no zombie child.  `FamilyOK` (init's slot is never reused, nobody is
its own parent) is separate because the others do not need it everywhere.

`NobodyOrphaned` and `AssertHolds` have the hypothesis `1 \notin KillPids`.  It
is needed: `kill(1)` makes init exit, and `exit()` panics by design.  Under it
`InitInv` (init lives and is not killed, every process has a living parent, no
panic) is inductive.  The other theorems hold also when pid 1 is killed; TLC has
checked `IInv` with and without it.

### Pipe

`LockOK` and `PlacesOK` say which process is inside `p->lock` and where it can
be; `EndsOK` that only the last descriptor of an end closes it and the page is
freed with both ends closed; `RingOK` that at most `PIPESIZE` bytes are in the
ring.  `SleepOK` is the heart: a process asleep has a reason, or somebody who
holds the lock has changed it and will call `wakeup()` before letting go.  The
counters are taken modulo `Wrap`, for which the proofs need what C's u32 gives:
`Wrap` is a multiple of `PIPESIZE` (2^32 and 512) and larger.  Without it the
ring index jumps when the counter wraps.  For the refinement the bytes in the
ring, read from `nread` on, are the sequence of `ByteStream`.

### BufferCache

`MruOK`: the list links every buffer once, and of the buffers that carry a block
number the one in use or valid comes first, so `bget`'s scan from the head finds
it; this is what makes a second copy impossible.  `CallsOK`, `CountsOK` and
`OwnersOK` tie `refcnt` and the sleep lock to the calls that hold the buffer;
`FlagsOK` ties B_DIRTY to a transfer under way; `QueueOK` and `SleepOK` the
drive's queue and the sleepers.  `MoveToFront` is `brelse`'s list surgery; that
it is a permutation which keeps the order of the rest is lemma `OldPlaceFacts`.
Assumed: finitely many processes, since `refcnt` counts them.

### FileSystem

`RInv` says of every point of every call which inodes the process has references
to and which of them it has locked (`Fits`, `LocksAt`, `Shape`; inside `iput`
the point is the one it returns to), and so what every local of the call is
there.  `LocksOK` says that an inode's lock is held by exactly the process whose
point asks for it; `RefsOK` that a slot's count is the number of places
(`Users`) that hold it: five locals and the working directory of each process,
and the open files; `FilesOK` the same of the open file table and the
descriptors; `SlotsOK` that no inode is cached twice; `OwnsOK` that a process
which has exited holds nothing.  Counting is split into the places of the
process that steps and the others (`UsersSplit`), so that one lemma per action
has to account only for its own process: a reference is moved between two
places, taken by `iget`, or dropped by `iput`.  `fork`, which takes references
for another process, and `file_close`, `dup` and `open`, which change a file's
count, have lemmas of their own (`ForkFds`, `SetFd`, `FileStep`).

The theorems hold for any finite set of processes, any finite set of inodes with
a slot for each (`iget` panics without), any calls and paths, including those
through `.` and `..`, and any number of calls and crashes.  TLC has checked
`RInv` with such calls on an instance of 2 840 625 states.

### FileSystem: the disk

`FileSystemDiskProofs` adds to `RInv` what the calls do with the disk.  None of
the five properties is inductive, nor are they together: each depends on where
every process is in its call.  `DInv` has ten parts, which TLC has checked on an
instance of 1 604 480 states:

* `KeptOK`: a place that holds an inode keeps it marked as used.  The exception
  is the argument of an `iput` that has passed its test (a place is `Firm`
  otherwise).
* `FreeOK`: at the start of the freeing the inode is in no other firm place;
  once its bit is cleared another process may allocate it, and then it is blank
  until the first one is done with it.
* `FreshOK`: an inode between `ialloc`'s two writes and `create`'s is blank,
  belongs to one process, and is in no place of another.
* `CallsOK`: what a call has found out under locks it holds is still so: its
  directory is a directory, the entry that `unlink` is about to clear still names
  the inode, a new directory has the entries written so far.
* `ValidOK`: a filled slot matches the disk, but for a block that was allocated
  under the lock and is not yet written, and but for an inode being freed.
* `CountOK`: the link count on the disk is at least the number of entries plus
  what calls under way owe (`Owed`): `create` and `link` count before they enter,
  `unlink` clears the entry before it counts.  This order is what makes a crash
  leave too high a count and never too low a one.
* `BlocksOK`: a block has one owner, on the disk or in the cache.
* `DirsOK`, `SelfOK`: what a name leads to is in use, a directory has at most one
  name and that is in its parent, and it has its `.` unless it is being built.
* `WritesOK`: a process inside `file_write` has the inode it locked open.

Most actions are `Normal`: the process touches only slots and inodes it has, so
whatever the others rely on stays, and one set of lemmas (`NormalKept`,
`OthersFresh`, `OthersFree`, `OthersCall`, `NormalValid`, `RestKept`) says so for
all of them.  A `Quiet` step writes nothing; steps that write a link count
(`NlinkBy`) or an entry (`EntryBy`) have a lemma each about the sum of entries
and debts.  The freeing (`Frees`) and the allocation (`Allocs`) of an inode
change the bitmap and are proved part by part.  For a crash, `DiskFit` shows that
the disk alone is consistent at every moment, and `BootAlways` that a boot from
such a disk satisfies `DInv`; `ImagesAssumption` says the same of the disk that
the machine is first given.

The theorems have the hypothesis `NoDotDot`, that no path contains `..`.  The
calls of the `filesystem` run meet it.  It is needed: through `..` the code
reaches a freed inode, as described under Runs.  Everything else is general:
any finite sets of processes, inodes and names, any blocks, any other calls and
any number of crashes.

### AddressSpace

`Sane` says that the free list and the holdings (kernel pages, stacks, pages in
hand, directories, their tables and the pages they map) partition memory, and
that every directory's entries are empty, tables of its own or the heap table it
shares with the kernel.  It is
stated of arbitrary stacks, hands, directories and memory, so that lemmas without
states can say what each change does to it: a page becomes a stack, a directory,
a table or a page in hand; `mappages` moves a page from the hand into an entry;
entries are cleared; a directory is freed with all it holds, or changes hands.
`Agree` says that a change is invisible from a directory, which gives the frame
condition for all other processes.

Per slot, `FrameAt` gives the locals of a call at each of its points, `ForkAt`
the child under construction, `SlotAt` stack and directory, `LayoutAt` how far
the page tables are filled (in the middle of sbrk further than `brk`), `Cr3At`
that the CPU runs on the slot's directory or, in exec, on the old one that the
call still holds, and `TlbAt` that the TLB lags behind only between the freeing
and the flush of sbrk and exec.  One lemma per action then puts a memory lemma
and the frame condition together.  What it proves of the step is `StepGood`, the
invariant and, for every slot, `FbKept`: an entry of the framebuffer goes only
with an sbrk that fails.  For that `LayoutAt` says of the framebuffer's range no
more than that it holds nothing else.

A request may pass `FB_MMAP_BASE`; that no process does is no guard but a
counting argument (`PagesFit`): the addresses a directory maps up to its top have
pages of their own, none of which is the kernel's directory, so the top stays
below the number of pages, which is at most `FB_MMAP_BASE`.  Hence `mappages`
never meets an entry of the framebuffer.  TLC has checked the invariant on the
`memory` instance and on one with three entries per table, a framebuffer of two
pages and three allocating calls.

### Only model-checked

* Liveness (`PTableReleased`, `RoundRobin`, `KilledProcessDies`,
  `CloseReleasesPeers`, `IoCompletes`): fairness is out of this prover's reach.
* The file system calls with `..` in a path: the five theorems about the disk
  exclude them, because the code has the defect described under Runs.
* The four runs that expect a violation, which are counterexamples.

## Not modelled

Compiler and memory ordering (`__sync_synchronize` and the xchg make x86
sequentially consistent here), debugging aids, formatting, device programming,
boot.  `sleep()` called before there is a process (it returns at once).  User
programs, the window manager and doom appear only as processes that make
arbitrary calls.  Doom alone, a third-party game, and the other user programs
are most of the repository's lines.  The components still to come are listed under Plan.

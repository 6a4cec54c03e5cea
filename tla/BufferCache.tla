---------------------------- MODULE BufferCache -----------------------------
(***************************************************************************)
(* The buffer cache (kernel/fs/bio.c) on the sleep locks of                *)
(* kernel/task/sleeplock.c and the disk queue of kernel/drivers/ide.c.     *)
(*                                                                         *)
(* A critical section of bcache.lock, of a sleep lock's own spinlock or of *)
(* idelock is one step.  There is one device, so a block number names a    *)
(* block; its contents are one of two values, which a write flips.  The    *)
(* file system holds several buffers at a time and always takes them in    *)
(* the same order (indirect blocks, descriptors, bitmaps), here that of    *)
(* the block numbers.                                                      *)
(***************************************************************************)
EXTENDS Naturals, Sequences, FiniteSets

CONSTANTS Procs,
          NBUF,
          NBLOCK,    \* blocks of the disk
          MaxHeld,   \* buffers a process holds at a time
          MaxFailed, \* bound on the blocks that stay failed at a time
          nullptr

Bufs == 1..NBUF
Blocks == 0..(NBLOCK - 1)

ASSUME BufferCacheAssumption ==
    /\ NBUF \in Nat \ {0}
    /\ NBLOCK \in Nat \ {0}
    /\ MaxHeld \in Nat \ {0}
    /\ MaxFailed \in Nat
    /\ IsFiniteSet(Procs)
    /\ nullptr \notin Procs

VARIABLES
    mru,                          \* bcache.head, from head.next to head.prev
    blockno, refcnt, valid, dirty,
    data,
    owner,                        \* the holder of b->lock (lk->locked and lk->pid)
    idequeue,
    disk,
    failed,                       \* blocks whose last transfer the drive failed
    ahci,                         \* ahci_port_ready()
    pc,
    op,                           \* the buffer and block of the call in progress
    held,                         \* the buffers and blocks bread() has returned
    asleep,                       \* SLEEPING on op's sleep lock or on op's buffer
    panic

bufVars == <<blockno, refcnt, valid, dirty, data, owner>>
diskVars == <<idequeue, disk, failed, ahci>>
procVars == <<pc, op, held, asleep>>
vars == <<mru, bufVars, diskVars, procVars, panic>>

Refs == Bufs \X Blocks
None == <<>>

TypeOK ==
    /\ mru \in [Bufs -> Bufs]
    /\ blockno \in [Bufs -> Blocks]
    /\ refcnt \in [Bufs -> Nat]
    /\ valid \in [Bufs -> BOOLEAN]
    /\ dirty \in [Bufs -> BOOLEAN]
    /\ data \in [Bufs -> BOOLEAN]
    /\ owner \in [Bufs -> Procs \cup {nullptr}]
    /\ idequeue \in Seq(Bufs)
    /\ disk \in [Blocks -> BOOLEAN]
    /\ failed \in SUBSET Blocks
    /\ ahci \in BOOLEAN
    /\ pc \in [Procs -> {"run", "lock", "io", "iowait", "put"}]
    /\ op \in [Procs -> Refs \cup {None}]
    /\ held \in [Procs -> SUBSET Refs]
    /\ asleep \in [Procs -> BOOLEAN]
    /\ panic \in BOOLEAN

(* buffer_cache_init: every buffer is pushed to the front; being in the    *)
(* bss, they all claim to be block 0.                                      *)
Init ==
    /\ mru = [i \in Bufs |-> NBUF + 1 - i]
    /\ blockno = [b \in Bufs |-> 0]
    /\ refcnt = [b \in Bufs |-> 0]
    /\ valid = [b \in Bufs |-> FALSE]
    /\ dirty = [b \in Bufs |-> FALSE]
    /\ data = [b \in Bufs |-> FALSE]
    /\ owner = [b \in Bufs |-> nullptr]
    /\ idequeue = <<>>
    /\ disk = [k \in Blocks |-> TRUE]
    /\ failed = {}
    /\ ahci \in BOOLEAN
    /\ pc = [p \in Procs |-> "run"]
    /\ op = [p \in Procs |-> None]
    /\ held = [p \in Procs |-> {}]
    /\ asleep = [p \in Procs |-> FALSE]
    /\ panic = FALSE

-----------------------------------------------------------------------------
Begin(p, where, ref) ==
    /\ pc' = [pc EXCEPT ![p] = where]
    /\ op' = [op EXCEPT ![p] = ref]

(* The call returns with its buffer held, or without it. *)
ReturnHeld(p) ==
    /\ Begin(p, "run", None)
    /\ held' = [held EXCEPT ![p] = @ \cup {op[p]}]
Drop(p, ref) == held' = [held EXCEPT ![p] = @ \ {ref}]

Copies(k) == {i \in Bufs : blockno[mru[i]] = k}
Unused == {i \in Bufs : refcnt[mru[i]] = 0 /\ ~dirty[mru[i]]}
MostRecent(S) == mru[CHOOSE i \in S : \A j \in S : i <= j]
LeastRecent(S) == mru[CHOOSE i \in S : \A j \in S : i >= j]

(* bread(): what its caller may ask for. *)
MayRead(p, k) ==
    /\ ~panic
    /\ pc[p] = "run"
    /\ Cardinality(held[p]) < MaxHeld
    /\ \A ref \in held[p] : ref[2] < k

(* Mutant of BgetHit: refcnt is not incremented. *)
BgetHitNoCount(p, k) ==
    LET b == MostRecent(Copies(k)) IN
    /\ MayRead(p, k)
    /\ Copies(k) # {}
    /\ refcnt' = refcnt
    /\ Begin(p, "lock", <<b, k>>)
    /\ UNCHANGED <<mru, blockno, valid, dirty, data, owner, diskVars, held, asleep, panic>>

(* bget: the block is cached, in the first buffer that claims it. *)
BgetHit(p, k) ==
    LET b == MostRecent(Copies(k)) IN
    /\ MayRead(p, k)
    /\ Copies(k) # {}
    /\ refcnt' = [refcnt EXCEPT ![b] = @ + 1]
    /\ Begin(p, "lock", <<b, k>>)
    /\ UNCHANGED <<mru, blockno, valid, dirty, data, owner, diskVars, held, asleep, panic>>

(* Mutant of BgetRecycle: the cache is not searched. *)
BgetNoLookup(p, k) ==
    LET b == LeastRecent(Unused) IN
    /\ MayRead(p, k)
    /\ Unused # {}
    /\ blockno' = [blockno EXCEPT ![b] = k]
    /\ valid' = [valid EXCEPT ![b] = FALSE]
    /\ dirty' = [dirty EXCEPT ![b] = FALSE]
    /\ refcnt' = [refcnt EXCEPT ![b] = 1]
    /\ Begin(p, "lock", <<b, k>>)
    /\ UNCHANGED <<mru, data, owner, diskVars, held, asleep, panic>>

(* Mutant of BgetRecycle: B_VALID survives. *)
BgetKeepsFlags(p, k) ==
    LET b == LeastRecent(Unused) IN
    /\ MayRead(p, k)
    /\ Copies(k) = {}
    /\ Unused # {}
    /\ blockno' = [blockno EXCEPT ![b] = k]
    /\ valid' = valid
    /\ dirty' = [dirty EXCEPT ![b] = FALSE]
    /\ refcnt' = [refcnt EXCEPT ![b] = 1]
    /\ Begin(p, "lock", <<b, k>>)
    /\ UNCHANGED <<mru, data, owner, diskVars, held, asleep, panic>>

(* bget: recycle the least recently used buffer nobody refers to. *)
BgetRecycle(p, k) ==
    LET b == LeastRecent(Unused) IN
    /\ MayRead(p, k)
    /\ Copies(k) = {}
    /\ Unused # {}
    /\ blockno' = [blockno EXCEPT ![b] = k]
    /\ valid' = [valid EXCEPT ![b] = FALSE]
    /\ dirty' = [dirty EXCEPT ![b] = FALSE]
    /\ refcnt' = [refcnt EXCEPT ![b] = 1]
    /\ Begin(p, "lock", <<b, k>>)
    /\ UNCHANGED <<mru, data, owner, diskVars, held, asleep, panic>>

(* panic("bget: no buffers") stops the machine. *)
BgetPanics(p, k) ==
    /\ MayRead(p, k)
    /\ Copies(k) = {}
    /\ Unused = {}
    /\ panic' = TRUE
    /\ UNCHANGED <<mru, bufVars, diskVars, procVars>>

Halted == panic /\ UNCHANGED vars

-----------------------------------------------------------------------------
(* acquiresleep: take the lock, then bread() reads the block if it must;   *)
(* or sleep on the lock.                                                   *)
Acquiresleep(p) ==
    LET b == op[p][1] IN
    /\ pc[p] = "lock"
    /\ ~asleep[p]
    /\ owner[b] = nullptr
    /\ owner' = [owner EXCEPT ![b] = p]
    /\ IF valid[b] THEN ReturnHeld(p)
       ELSE Begin(p, "io", op[p]) /\ UNCHANGED held
    /\ UNCHANGED <<mru, blockno, refcnt, valid, dirty, data, diskVars, asleep, panic>>

AcquireSleeps(p) ==
    /\ pc[p] = "lock"
    /\ ~asleep[p]
    /\ owner[op[p][1]] # nullptr
    /\ asleep' = [asleep EXCEPT ![p] = TRUE]
    /\ UNCHANGED <<mru, bufVars, diskVars, pc, op, held, panic>>

(* wakeup() of the processes at a point of the code with buffer b. *)
Wakeup(b, where) ==
    asleep' = [p \in Procs |-> asleep[p] /\ ~(pc[p] = where /\ op[p][1] = b)]

(* The caller changes the contents and calls bwrite. *)
Bwrite(p, ref) ==
    /\ pc[p] = "run"
    /\ ref \in held[p]
    /\ data' = [data EXCEPT ![ref[1]] = ~@]
    /\ dirty' = [dirty EXCEPT ![ref[1]] = TRUE]
    /\ Begin(p, "io", ref)
    /\ Drop(p, ref)
    /\ UNCHANGED <<mru, blockno, refcnt, valid, owner, diskVars, asleep, panic>>

(* Mutant of Releasesleep: no wakeup of the waiters. *)
ReleasesleepQuietly(p, ref) ==
    /\ pc[p] = "run"
    /\ ref \in held[p]
    /\ owner' = [owner EXCEPT ![ref[1]] = nullptr]
    /\ Begin(p, "put", ref)
    /\ Drop(p, ref)
    /\ UNCHANGED <<mru, blockno, refcnt, valid, dirty, data, diskVars, asleep, panic>>

(* brelse: releasesleep, then bcache.lock is taken to drop the reference.  *)
Releasesleep(p, ref) ==
    /\ pc[p] = "run"
    /\ ref \in held[p]
    /\ owner' = [owner EXCEPT ![ref[1]] = nullptr]
    /\ Wakeup(ref[1], "lock")
    /\ Begin(p, "put", ref)
    /\ Drop(p, ref)
    /\ UNCHANGED <<mru, blockno, refcnt, valid, dirty, data, diskVars, panic>>

(* brelse: b is unlinked and linked in again behind bcache.head. *)
MoveToFront(b) ==
    LET at == CHOOSE i \in Bufs : mru[i] = b IN
    [i \in Bufs |-> IF i = 1 THEN b ELSE IF i <= at THEN mru[i - 1] ELSE mru[i]]

(* Mutant of Brelse: linked at the front, not unlinked. *)
BrelseLinksTwice(p) ==
    LET b == op[p][1] IN
    /\ pc[p] = "put"
    /\ refcnt' = [refcnt EXCEPT ![b] = @ - 1]
    /\ mru' = IF refcnt[b] = 1 THEN <<b>> \o mru ELSE mru
    /\ Begin(p, "run", None)
    /\ UNCHANGED <<blockno, valid, dirty, data, owner, diskVars, held, asleep, panic>>

(* Mutant of Brelse: refcnt is not decremented. *)
BrelseKeepsCount(p) ==
    LET b == op[p][1] IN
    /\ pc[p] = "put"
    /\ refcnt' = refcnt
    /\ mru' = IF refcnt[b] = 1 THEN MoveToFront(b) ELSE mru
    /\ Begin(p, "run", None)
    /\ UNCHANGED <<blockno, valid, dirty, data, owner, diskVars, held, asleep, panic>>

Brelse(p) ==
    LET b == op[p][1] IN
    /\ pc[p] = "put"
    /\ refcnt' = [refcnt EXCEPT ![b] = @ - 1]
    /\ mru' = IF refcnt[b] = 1 THEN MoveToFront(b) ELSE mru
    /\ Begin(p, "run", None)
    /\ UNCHANGED <<blockno, valid, dirty, data, owner, diskVars, held, asleep, panic>>

-----------------------------------------------------------------------------
(* What a transfer does: a write stores the buffer, a read loads it; one   *)
(* the drive fails does neither.  Either way the flags say it is done.     *)
Transfer(b, ok) ==
    LET k == blockno[b] IN
    /\ disk' = [disk EXCEPT ![k] = IF dirty[b] /\ ok THEN data[b] ELSE @]
    /\ data' = [data EXCEPT ![b] = IF ~dirty[b] /\ ok THEN disk[k] ELSE @]
    /\ failed' = IF ok THEN failed \ {k} ELSE failed \cup {k}
    /\ valid' = [valid EXCEPT ![b] = TRUE]
    /\ dirty' = [dirty EXCEPT ![b] = FALSE]

(* iderw on AHCI: the transfer is polled; an error panics. *)
AhciRw(p) ==
    /\ ahci
    /\ pc[p] = "io"
    /\ Transfer(op[p][1], TRUE)
    /\ ReturnHeld(p)
    /\ UNCHANGED <<mru, blockno, refcnt, owner, idequeue, ahci, asleep, panic>>

AhciPanics(p) ==
    /\ ahci
    /\ pc[p] = "io"
    /\ panic' = TRUE
    /\ UNCHANGED <<mru, bufVars, diskVars, procVars>>

(* iderw on IDE: queue the buffer and sleep on it. *)
Iderw(p) ==
    /\ ~ahci
    /\ pc[p] = "io"
    /\ idequeue' = Append(idequeue, op[p][1])
    /\ pc' = [pc EXCEPT ![p] = "iowait"]
    /\ asleep' = [asleep EXCEPT ![p] = TRUE]
    /\ UNCHANGED <<mru, bufVars, disk, failed, ahci, op, held, panic>>

(* Mutant of Ideintr: no wakeup of the process. *)
IdeintrQuietly(ok) ==
    LET b == Head(idequeue) IN
    /\ idequeue # <<>>
    /\ ok \/ Cardinality(failed \cup {blockno[b]}) <= MaxFailed
    /\ idequeue' = Tail(idequeue)
    /\ Transfer(b, ok)
    /\ UNCHANGED <<mru, blockno, refcnt, owner, ahci, pc, op, held, asleep, panic>>

(* The interrupt of the active request, the head of the queue. *)
Ideintr(ok) ==
    LET b == Head(idequeue) IN
    /\ idequeue # <<>>
    /\ ok \/ Cardinality(failed \cup {blockno[b]}) <= MaxFailed
    /\ idequeue' = Tail(idequeue)
    /\ Transfer(b, ok)
    /\ Wakeup(b, "iowait")
    /\ UNCHANGED <<mru, blockno, refcnt, owner, ahci, pc, op, held, panic>>

(* iderw's loop, each time the process is woken. *)
IoDone(p) ==
    LET b == op[p][1] IN
    /\ pc[p] = "iowait"
    /\ ~asleep[p]
    /\ IF valid[b] /\ ~dirty[b]
       THEN ReturnHeld(p) /\ UNCHANGED asleep
       ELSE asleep' = [asleep EXCEPT ![p] = TRUE] /\ UNCHANGED <<pc, op, held>>
    /\ UNCHANGED <<mru, bufVars, diskVars, panic>>

(* kill() makes a sleeper RUNNABLE wherever it sleeps. *)
Kill(p) ==
    /\ asleep[p]
    /\ asleep' = [asleep EXCEPT ![p] = FALSE]
    /\ UNCHANGED <<mru, bufVars, diskVars, pc, op, held, panic>>

-----------------------------------------------------------------------------
(* The rest of a call that has begun. *)
Continue(p) ==
    /\ ~panic
    /\ \/ Acquiresleep(p)
       \/ AcquireSleeps(p)
       \/ AhciRw(p)
       \/ Iderw(p)
       \/ IoDone(p)
       \/ Brelse(p)

DiskStep == ~panic /\ \E ok \in BOOLEAN : Ideintr(ok)

Next ==
    \/ \E p \in Procs, k \in Blocks : BgetHit(p, k) \/ BgetRecycle(p, k) \/ BgetPanics(p, k)
    \/ ~panic /\ \E p \in Procs : \E ref \in held[p] : Bwrite(p, ref) \/ Releasesleep(p, ref)
    \/ \E p \in Procs : Continue(p)
    \/ ~panic /\ \E p \in Procs : AhciPanics(p) \/ Kill(p)
    \/ DiskStep
    \/ Halted

Spec == Init /\ [][Next]_vars

(* The drive answers every request it is given, and a process that can run *)
(* does.                                                                   *)
FairSpec ==
    /\ Spec
    /\ WF_vars(DiskStep)
    /\ \A p \in Procs : WF_vars(Continue(p))

-----------------------------------------------------------------------------
Uses(p) == held[p] \cup ({op[p]} \ {None})

(* A block is never cached twice: of two buffers that claim the same block *)
(* at most one is in use or valid, although all buffers start out as       *)
(* block 0 and a lookup stops at the first match.                          *)
OneCopyPerBlock ==
    \A b, c \in Bufs :
        (blockno[b] = blockno[c] /\ (refcnt[b] > 0 \/ valid[b]) /\ (refcnt[c] > 0 \/ valid[c]))
            => b = c

(* A buffer is not recycled under a process: between bget's release of     *)
(* bcache.lock and brelse, over every sleep, it stays the block that was   *)
(* asked for, because refcnt counts exactly the processes that use it; and *)
(* whoever passes it to bwrite, brelse or iderw holds its lock, which      *)
(* their ASSERTs demand.                                                   *)
BufferKeepsBlock ==
    /\ \A p \in Procs : \A ref \in Uses(p) : blockno[ref[1]] = ref[2]
    /\ \A b \in Bufs : refcnt[b] = Cardinality({p \in Procs : \E ref \in Uses(p) : ref[1] = b})
    /\ \A p \in Procs :
          /\ \A ref \in held[p] : owner[ref[1]] = p
          /\ pc[p] = "io" => owner[op[p][1]] = p /\ (dirty[op[p][1]] \/ ~valid[op[p][1]])

(* Write-through: a valid, clean buffer holds what the disk holds, and a   *)
(* buffer is dirty only inside bwrite.  So brelse may forget it and the    *)
(* next bread finds the last write.  Transfers the drive failed are the    *)
(* exception: ideintr marks them done all the same.                        *)
CleanMeansOnDisk ==
    \A b \in Bufs :
        /\ valid[b] /\ ~dirty[b] /\ blockno[b] \notin failed => data[b] = disk[blockno[b]]
        /\ dirty[b] => \E p \in Procs : owner[b] = p /\ pc[p] \in {"io", "iowait"} /\ op[p][1] = b

(* "B_VALID: the buffer data has been read from the disk."  ideintr sets   *)
(* the flag also when ide_wait reports an error and nothing was read.      *)
ValidMeansRead ==
    \A b \in Bufs : valid[b] /\ ~dirty[b] => data[b] = disk[blockno[b]]

(* No lost wakeup: a process sleeps on a sleep lock only while another     *)
(* holds it, and on a buffer only while its request is in the queue.       *)
NoLostWakeup ==
    \A p \in Procs : asleep[p] =>
        CASE pc[p] = "lock" -> owner[op[p][1]] \notin {nullptr, p}
          [] pc[p] = "iowait" -> \E i \in DOMAIN idequeue : idequeue[i] = op[p][1]
          [] OTHER -> FALSE

(* bget panics only if the processes together use all NBUF buffers: no     *)
(* reference is ever leaked.                                               *)
NoBufferLeak ==
    Unused = {} => NBUF <= Cardinality(UNION {Uses(p) : p \in Procs})

(* Every request is answered: iderw returns, also when kill() woke the     *)
(* process early and with other requests ahead in the queue.               *)
IoCompletes ==
    \A p \in Procs : pc[p] = "iowait" ~> (pc[p] = "run" \/ panic)
=============================================================================

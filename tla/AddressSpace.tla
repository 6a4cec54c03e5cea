---------------------------- MODULE AddressSpace ----------------------------
(***************************************************************************)
(* Physical pages and the address spaces built from them: kalloc_page and  *)
(* kfree_page (kernel/memory/paging.c), page directories and tables        *)
(* (vm.c), and the calls that build, change and free an address space on   *)
(* several CPUs at once: fork, exec, sbrk, mmap and munmap of the          *)
(* framebuffer, exit and wait.  Addresses and sizes count pages.           *)
(*                                                                         *)
(* One kalloc_page is one step, so every allocation may fail and another   *)
(* CPU may take the last page between two of them.  The kfree_page calls   *)
(* of one deallocvm or freevm are one step: in between, another CPU can    *)
(* only allocate, which it can as well do before or after.  Free pages are *)
(* interchangeable, so the least one stands for the head of the free list. *)
(*                                                                         *)
(* The kernel heap is already large enough for every vm_area (32 KB of it  *)
(* hold those of all NPROC processes), so no kzalloc fails and none grows  *)
(* the heap; KHEAP_START is a multiple of what one page table maps.        *)
(***************************************************************************)
EXTENDS Integers

CONSTANTS NPROC,        \* slots of ptable
          NPAGES,       \* physical pages
          NPTENTRIES,   \* entries of a page table
          UserTables,   \* page tables below FB_MMAP_BASE
          FbPages,      \* pages of the framebuffer, fewer than one table maps
          Images,       \* sizes of the programs exec may load
          Deltas,       \* pages by which sbrk grows or shrinks
          MaxCalls,     \* bound on the allocating system calls of a behaviour
          DEV,          \* a PTE that maps a page of the framebuffer
          data, junk    \* a page that holds no entries; a freed page

ASSUME AddressSpaceAssumption ==
    /\ {NPROC, NPAGES, NPTENTRIES, UserTables, FbPages} \subseteq Nat \ {0}
    /\ MaxCalls \in Nat
    /\ FbPages < NPTENTRIES
    /\ Images \subseteq 1..((UserTables + 1) * NPTENTRIES - 3)
    /\ Deltas \subseteq Nat \ {0}
    /\ NPAGES >= 8
    /\ NPAGES <= UserTables * NPTENTRIES    \* no process grows to FB_MMAP_BASE
    /\ DEV \notin 0..NPAGES

VARIABLES free,      \* pages on kmem.freelist
          mem,       \* contents of every page, as directory or table entries
          ptable,    \* slots of the process table
          ptlock,    \* holder of ptable.lock between steps, 0 if none
          k,         \* the kernel's locals in each process's system call
          cr3,       \* directory loaded while the process is on a CPU
          tlb,       \* pages its CPU may reach without a page walk
          panic, calls

vars == <<free, mem, ptable, ptlock, k, cr3, tlb, panic, calls>>

Pages == 1..NPAGES
Slots == 1..NPROC
initproc == 1

FB_MMAP_BASE == UserTables * NPTENTRIES
KERNBASE == (UserTables + 1) * NPTENTRIES
FbRange == FB_MMAP_BASE..(FB_MMAP_BASE + FbPages - 1)
DirectPde == UserTables + 1    \* kmap: the direct map of physical memory
HeapPde == UserTables + 2      \* KHEAP_START
Pdes == 0..HeapPde
Ptes == 0..(NPTENTRIES - 1)
PDX(va) == va \div NPTENTRIES
PTX(va) == va % NPTENTRIES

(* Page 1 is kpgdir, 2 its table for the direct map, 3 for the heap. *)
kpgdir == 1
KernelPages == 1..3

EmptyDir == [i \in Pdes |-> 0]
EmptyTab == [i \in Ptes |-> 0]
User == [pc |-> "user", call |-> "none", np |-> 0, d |-> 0, a |-> 0, end |-> 0, mem |-> 0]
UNUSED == [state |-> "UNUSED", pgdir |-> 0, kstack |-> 0, brk |-> 0,
           fb |-> FALSE, parent |-> 0]

Contents == [Pdes -> Pages \cup {0}] \cup [Ptes -> Pages \cup {0, DEV}] \cup {data, junk}

TypeOK ==
    /\ free \subseteq Pages
    /\ mem \in [Pages -> Contents]
    /\ ptable \in [Slots -> [state : {"UNUSED", "EMBRYO", "RUNNING", "ZOMBIE"},
                             pgdir : Pages \cup {0}, kstack : Pages \cup {0},
                             brk : 0..FB_MMAP_BASE, fb : BOOLEAN, parent : Slots \cup {0}]]
    /\ ptlock \in Slots \cup {0}
    /\ k \in [Slots -> [pc : {"user", "init_proc", "setup", "setup_kmap", "copyuvm",
                              "mappages", "allocvm", "forked", "activate", "freeold",
                              "exiting"},
                        call : {"none", "fork", "exec", "exec_stack", "sbrk"},
                        np : Slots \cup {0}, d : Pages \cup {0}, a : 0..FB_MMAP_BASE,
                        end : 0..KERNBASE, mem : Pages \cup {0}]]
    /\ cr3 \in [Slots -> Pages]
    /\ tlb \in [Slots -> SUBSET Pages]
    /\ panic \in BOOLEAN /\ calls \in 0..MaxCalls

(* user_init: init has a kernel stack, a directory, its own table of the   *)
(* direct map, and one page of initcode.                                   *)
Init ==
    /\ free = 9..NPAGES
    /\ mem = [pg \in Pages |->
         CASE pg = 1 -> [EmptyDir EXCEPT ![DirectPde] = 2, ![HeapPde] = 3]
           [] pg = 5 -> [EmptyDir EXCEPT ![0] = 7, ![DirectPde] = 6, ![HeapPde] = 3]
           [] pg = 7 -> [EmptyTab EXCEPT ![0] = 8]
           [] pg \in 9..NPAGES -> junk
           [] OTHER -> data]
    /\ ptable = [s \in Slots |->
         IF s = initproc
         THEN [state |-> "RUNNING", pgdir |-> 5, kstack |-> 4, brk |-> 1,
               fb |-> FALSE, parent |-> 0]
         ELSE UNUSED]
    /\ ptlock = 0
    /\ k = [s \in Slots |-> User]
    /\ cr3 = [s \in Slots |-> IF s = initproc THEN 5 ELSE kpgdir]
    /\ tlb = [s \in Slots |-> {}]
    /\ panic = FALSE
    /\ calls = 0
-----------------------------------------------------------------------------
(* Page directories and tables (vm.c) *)

(* walkpgdir without alloc, and the entry it finds; 0 if none is present. *)
Pte(m, d, va) == IF m[d][PDX(va)] = 0 THEN 0 ELSE m[m[d][PDX(va)]][PTX(va)]

(* The memory pages that d maps from lo up to hi. *)
Mapped(m, d, lo, hi) == {Pte(m, d, va) : va \in lo..(hi - 1)} \ {0, DEV}

(* *pte = entry, for the entries of d from lo up to hi. *)
SetPtes(m, d, lo, hi, entry) ==
    [pg \in Pages |->
        IF pg \in {m[d][PDX(va)] : va \in lo..(hi - 1)}
        THEN [i \in Ptes |->
                IF \E va \in lo..(hi - 1) : m[d][PDX(va)] = pg /\ PTX(va) = i
                THEN entry ELSE m[pg][i]]
        ELSE m[pg]]

Kfree(m, pgs) == [pg \in Pages |-> IF pg \in pgs THEN junk ELSE m[pg]]

(* deallocvm: frees the pages, keeps the tables, drops device entries. *)
Deallocvm(m, d, oldsz, newsz) ==
    Kfree(SetPtes(m, d, newsz, oldsz, 0), Mapped(m, d, newsz, oldsz))

(* Mutant of FreevmPages: the test that spares the kernel's tables is gone. *)
FreevmHeapToo(d) ==
    {d} \cup Mapped(mem, d, 0, KERNBASE) \cup ({mem[d][i] : i \in Pdes} \ {0})

(* freevm: the pages below KERNBASE, the tables that are neither kpgdir's  *)
(* nor of the heap, and the directory.                                     *)
FreevmPages(d) ==
    {d} \cup Mapped(mem, d, 0, KERNBASE)
        \cup ({mem[d][i] : i \in {j \in Pdes : mem[d][j] # mem[kpgdir][j] /\ j < HeapPde}} \ {0})

Freevm(d, more) ==
    LET pgs == FreevmPages(d) \cup more
    IN /\ mem' = Kfree(mem, pgs)
       /\ free' = free \cup pgs

(* unmap_vm_range without freeing: its loop runs while a <= end. *)
Unmapped(m, d) == SetPtes(m, d, FB_MMAP_BASE, FB_MMAP_BASE + FbPages + 1, 0)

(* Mutant of ProcFreeVmas: the entries of the framebuffer stay. *)
ProcFreeVmasKeepsPtes(m, p) == m

(* proc_free_vmas and sys_munmap: a device area is unmapped, then freed. *)
ProcFreeVmas(m, p) ==
    IF ptable[p].fb THEN Unmapped(m, ptable[p].pgdir) ELSE m

(* kalloc_page *)
CanAlloc == free # {}
Page == CHOOSE pg \in free : \A q \in free : pg <= q
-----------------------------------------------------------------------------
(* System calls *)

At(p, pc) == ~panic /\ ptable[p].state = "RUNNING" /\ k[p].pc = pc
Goto(p, pc) == k' = [k EXCEPT ![p].pc = pc]

Return(p) == k' = [k EXCEPT ![p] = User]

(* A system call begins, after the program has used all of its memory: its *)
(* TLB holds what is mapped now besides what it held before.  MaxCalls     *)
(* bounds the calls that allocate; what gives memory back (munmap, exit,   *)
(* wait, a shrinking sbrk) is bounded by them.                             *)
Enter(p, frame) ==
    /\ At(p, "user")
    /\ tlb' = [tlb EXCEPT ![p] = @ \cup Mapped(mem, cr3[p], 0, FB_MMAP_BASE)]
    /\ k' = [k EXCEPT ![p] = frame]

Call(p, frame) ==
    /\ Enter(p, frame)
    /\ calls < MaxCalls
    /\ calls' = calls + 1

(* alloc_proc, called by fork; it gives up if no slot is UNUSED. *)
Fork(p) ==
    LET unused == {s \in Slots : ptable[s].state = "UNUSED"}
        np == CHOOSE s \in unused : \A t \in unused : s <= t
    IN /\ ptlock = 0
       /\ unused # {}
       /\ Call(p, [User EXCEPT !.pc = "init_proc", !.call = "fork", !.np = np])
       /\ ptable' = [ptable EXCEPT ![np].state = "EMBRYO"]
       /\ UNCHANGED <<free, mem, ptlock, cr3, panic>>

(* init_proc: the kernel stack. *)
InitProc(p) ==
    /\ At(p, "init_proc")
    /\ IF CanAlloc
       THEN /\ free' = free \ {Page}
            /\ mem' = [mem EXCEPT ![Page] = data]
            /\ ptable' = [ptable EXCEPT ![k[p].np].kstack = Page]
            /\ Goto(p, "setup")
       ELSE /\ ptable' = [ptable EXCEPT ![k[p].np].state = "UNUSED"]
            /\ Return(p)
            /\ UNCHANGED <<free, mem>>
    /\ UNCHANGED <<ptlock, cr3, tlb, panic, calls>>

(* exec: the program is chosen and its header is good. *)
Exec(p) ==
    /\ \E sz \in Images :
         Call(p, [User EXCEPT !.pc = "setup", !.call = "exec", !.end = sz])
    /\ UNCHANGED <<free, mem, ptable, ptlock, cr3, panic>>

(* What a call does when copyuvm, setup_kernel_page_directory or allocvm   *)
(* fails: the pages `more' are freed, with the new directory d if it has   *)
(* one, and fork gives its slot and its kernel stack back.                 *)
Fails(p, more) ==
    LET f == k[p]
        np == f.np
        stack == IF f.call = "fork" THEN {ptable[np].kstack} ELSE {}
    IN /\ IF f.call # "sbrk" /\ f.d # 0
          THEN Freevm(f.d, more \cup stack)
          ELSE /\ mem' = Kfree(mem, more \cup stack)
               /\ free' = free \cup more \cup stack
       /\ ptable' = IF f.call = "fork"
                    THEN [ptable EXCEPT ![np].kstack = 0, ![np].state = "UNUSED",
                                        ![np].pgdir = 0]
                    ELSE ptable
       /\ Return(p)

(* setup_kernel_page_directory: the directory itself. *)
SetupDir(p) ==
    /\ At(p, "setup")
    /\ IF CanAlloc
       THEN /\ free' = free \ {Page}
            /\ mem' = [mem EXCEPT ![Page] = EmptyDir]
            /\ k' = [k EXCEPT ![p].d = Page, ![p].pc = "setup_kmap"]
            /\ UNCHANGED ptable
       ELSE Fails(p, {})
    /\ UNCHANGED <<ptlock, cr3, tlb, panic, calls>>

(* ... its tables of the direct map, and the heap's tables by              *)
(* replicate_kernel_range.                                                 *)
SetupKmap(p) ==
    /\ At(p, "setup_kmap")
    /\ IF CanAlloc
       THEN /\ free' = free \ {Page}
            /\ mem' = [mem EXCEPT ![Page] = data,
                                  ![k[p].d] = [EmptyDir EXCEPT ![DirectPde] = Page,
                                                  ![HeapPde] = mem[kpgdir][HeapPde]]]
            /\ Goto(p, IF k[p].call = "fork" THEN "copyuvm" ELSE "allocvm")
            /\ UNCHANGED ptable
       ELSE Fails(p, {})
    /\ UNCHANGED <<ptlock, cr3, tlb, panic, calls>>

(* copyuvm: the next page of the parent needs a page of its own. *)
Copyuvm(p) ==
    /\ At(p, "copyuvm")
    /\ k[p].a < ptable[p].brk
    /\ IF Pte(mem, ptable[p].pgdir, k[p].a) = 0
       THEN panic' = TRUE /\ UNCHANGED <<free, mem, ptable, k>>
       ELSE /\ UNCHANGED panic
            /\ IF CanAlloc
               THEN /\ free' = free \ {Page}
                    /\ mem' = [mem EXCEPT ![Page] = data]
                    /\ k' = [k EXCEPT ![p].mem = Page, ![p].pc = "mappages"]
                    /\ UNCHANGED ptable
               ELSE Fails(p, {})
    /\ UNCHANGED <<ptlock, cr3, tlb, calls>>

(* What mappages does with the page in hand: it finds the table of va in   *)
(* directory d, or takes a page for it, and sets the entry.  A present     *)
(* entry is a panic.                                                       *)
HasTable(d, va) == mem[d][PDX(va)] # 0
Remap(d, va) == Pte(mem, d, va) # 0
WithTable(m, d, va, t) == [m EXCEPT ![t] = EmptyTab, ![d][PDX(va)] = t]

(* Mutant of UndoAllocvm: the page in hand is freed, the others stay. *)
UndoAllocvmKeeps(p, pg) ==
    /\ mem' = Kfree(mem, pg)
    /\ free' = free \cup pg
    /\ Return(p)
    /\ UNCHANGED ptable

(* allocvm fails in sbrk: deallocvm goes over all that was asked for, what *)
(* it had added and, if the request passed FB_MMAP_BASE, the framebuffer's *)
(* entries.  The area of the framebuffer stays.                            *)
UndoAllocvm(p, pg) ==
    LET d == ptable[p].pgdir
    IN /\ mem' = Kfree(Deallocvm(mem, d, k[p].end, ptable[p].brk), pg)
       /\ free' = free \cup pg \cup Mapped(mem, d, ptable[p].brk, k[p].end)
       /\ Return(p)
       /\ UNCHANGED ptable

(* The directory a call is filling. *)
Dir(p) == IF k[p].call = "sbrk" THEN ptable[p].pgdir ELSE k[p].d

(* mappages, called by copyuvm and allocvm with the page in hand, and      *)
(* their error paths.                                                      *)
Mappages(p) ==
    LET d == Dir(p)
        va == k[p].a
    IN /\ At(p, "mappages")
       /\ panic' = Remap(d, va)
       /\ IF HasTable(d, va) \/ CanAlloc
          THEN LET m == IF HasTable(d, va) THEN mem ELSE WithTable(mem, d, va, Page)
               IN /\ mem' = SetPtes(m, d, va, va + 1, k[p].mem)
                  /\ free' = IF HasTable(d, va) THEN free ELSE free \ {Page}
                  /\ k' = [k EXCEPT ![p].a = va + 1, ![p].mem = 0, ![p].pc =
                              IF k[p].call = "fork" THEN "copyuvm" ELSE "allocvm"]
                  /\ UNCHANGED ptable
          ELSE IF k[p].call = "sbrk" THEN UndoAllocvm(p, {k[p].mem})
                                     ELSE Fails(p, {k[p].mem})
       /\ UNCHANGED <<ptlock, cr3, tlb, calls>>

(* allocvm: the next page, for sbrk, for exec's program and for its stack. *)
Allocvm(p) ==
    /\ At(p, "allocvm")
    /\ k[p].a < k[p].end
    /\ IF CanAlloc
       THEN /\ free' = free \ {Page}
            /\ mem' = [mem EXCEPT ![Page] = data]
            /\ k' = [k EXCEPT ![p].mem = Page, ![p].pc = "mappages"]
            /\ UNCHANGED ptable
       ELSE IF k[p].call = "sbrk" THEN UndoAllocvm(p, {}) ELSE Fails(p, {})
    /\ UNCHANGED <<ptlock, cr3, tlb, panic, calls>>

(* Mutant of CloneVmas: the area is copied, its mapping is not. *)
CloneVmasAreaOnly(p) ==
    LET np == k[p].np
    IN /\ At(p, "copyuvm")
       /\ k[p].a = ptable[p].brk
       /\ ptable' = [ptable EXCEPT ![np].pgdir = k[p].d, ![np].brk = ptable[p].brk,
                                   ![np].fb = ptable[p].fb]
       /\ Goto(p, "forked")
       /\ UNCHANGED <<free, mem, ptlock, cr3, tlb, panic, calls>>

(* fork, copyuvm done: the child gets the directory, and proc_clone_vmas   *)
(* maps the framebuffer into it if the parent has it; on failure the slot  *)
(* keeps a pointer to the directory that freevm has freed.                 *)
CloneVmas(p) ==
    LET d == k[p].d
        np == k[p].np
        child == [ptable[np] EXCEPT !.pgdir = d, !.brk = ptable[p].brk, !.fb = ptable[p].fb]
    IN /\ At(p, "copyuvm")
       /\ k[p].a = ptable[p].brk
       /\ IF ptable[p].fb /\ ~CanAlloc
          THEN /\ Freevm(d, {ptable[np].kstack})
               /\ ptable' = [ptable EXCEPT ![np] = [child EXCEPT !.kstack = 0, !.fb = FALSE,
                                                                 !.state = "UNUSED"]]
               /\ Return(p)
          ELSE /\ IF ptable[p].fb
                  THEN /\ mem' = SetPtes(WithTable(mem, d, FB_MMAP_BASE, Page), d,
                                         FB_MMAP_BASE, FB_MMAP_BASE + FbPages, DEV)
                       /\ free' = free \ {Page}
                  ELSE UNCHANGED <<mem, free>>
               /\ ptable' = [ptable EXCEPT ![np] = child]
               /\ Goto(p, "forked")
       /\ UNCHANGED <<ptlock, cr3, tlb, panic, calls>>

(* fork, the end: the child is runnable, and scheduler() activates it. *)
ForkDone(p) ==
    LET np == k[p].np
    IN /\ At(p, "forked")
       /\ ptlock = 0
       /\ ptable' = [ptable EXCEPT ![np].state = "RUNNING", ![np].parent = p]
       /\ cr3' = [cr3 EXCEPT ![np] = ptable[np].pgdir]
       /\ Return(p)
       /\ UNCHANGED <<free, mem, ptlock, tlb, panic, calls>>

(* exec, the program is loaded: two more pages for the stack.  loaduvm     *)
(* fails if the disk cannot be read.                                       *)
ExecStack(p) ==
    /\ At(p, "allocvm")
    /\ k[p].call = "exec"
    /\ k[p].a = k[p].end
    /\ \/ /\ k' = [k EXCEPT ![p].end = @ + 2, ![p].call = "exec_stack"]
          /\ UNCHANGED <<free, mem, ptable>>
       \/ Fails(p, {})
    /\ UNCHANGED <<ptlock, cr3, tlb, panic, calls>>

(* exec commits: the areas of the old image go, the new directory is in,   *)
(* and the old one waits to be freed.  copyout of the arguments may fail.  *)
ExecCommit(p) ==
    /\ At(p, "allocvm")
    /\ k[p].call = "exec_stack"
    /\ k[p].a = k[p].end
    /\ \/ /\ mem' = ProcFreeVmas(mem, p)
          /\ ptable' = [ptable EXCEPT ![p].pgdir = k[p].d, ![p].brk = k[p].end,
                                      ![p].fb = FALSE]
          /\ k' = [k EXCEPT ![p].d = ptable[p].pgdir, ![p].pc = "activate"]
          /\ UNCHANGED free
       \/ Fails(p, {})
    /\ UNCHANGED <<ptlock, cr3, tlb, panic, calls>>

(* activate_process: lcr3, which also empties the TLB. *)
Lcr3(p, d) ==
    /\ cr3' = [cr3 EXCEPT ![p] = d]
    /\ tlb' = [tlb EXCEPT ![p] = {}]

ExecActivate(p) ==
    /\ At(p, "activate")
    /\ Lcr3(p, ptable[p].pgdir)
    /\ Goto(p, "freeold")
    /\ UNCHANGED <<free, mem, ptable, ptlock, panic, calls>>

ExecFreeOld(p) ==
    /\ At(p, "freeold")
    /\ Freevm(k[p].d, {})
    /\ Return(p)
    /\ UNCHANGED <<ptable, ptlock, cr3, tlb, panic, calls>>

(* resize_proc: it grows page by page or shrinks at once.  allocvm refuses *)
(* what reaches KERNBASE; anything less it begins, whether or not there is *)
(* that much memory and whatever is mapped on the way.                     *)
SbrkGrow(p, n) ==
    /\ ptable[p].brk + n < KERNBASE
    /\ Call(p, [User EXCEPT !.pc = "allocvm", !.call = "sbrk",
                            !.a = ptable[p].brk, !.end = ptable[p].brk + n])
    /\ UNCHANGED <<free, mem, ptable, ptlock, cr3, panic>>

SbrkShrink(p, n) ==
    LET d == ptable[p].pgdir
        sz == ptable[p].brk - n
    IN /\ sz > 0
       /\ Enter(p, [User EXCEPT !.pc = "allocvm", !.call = "sbrk", !.a = sz, !.end = sz])
       /\ mem' = Deallocvm(mem, d, ptable[p].brk, sz)
       /\ free' = free \cup Mapped(mem, d, sz, ptable[p].brk)
       /\ UNCHANGED <<ptable, ptlock, cr3, panic, calls>>

(* Mutant of SbrkDone: the new size takes effect, the TLB is not flushed. *)
SbrkDoneNoFlush(p) ==
    /\ At(p, "allocvm")
    /\ k[p].call = "sbrk"
    /\ k[p].a = k[p].end
    /\ ptable' = [ptable EXCEPT ![p].brk = k[p].end]
    /\ Return(p)
    /\ UNCHANGED <<free, mem, ptlock, cr3, tlb, panic, calls>>

(* resize_proc, the end: the new size, and activate_process. *)
SbrkDone(p) ==
    /\ At(p, "allocvm")
    /\ k[p].call = "sbrk"
    /\ k[p].a = k[p].end
    /\ ptable' = [ptable EXCEPT ![p].brk = k[p].end]
    /\ Lcr3(p, ptable[p].pgdir)
    /\ Return(p)
    /\ UNCHANGED <<free, mem, ptlock, panic, calls>>

(* mmap_framebuffer: an area that exists is returned; otherwise the        *)
(* framebuffer is mapped, which may need a page table.                     *)
Mmap(p) ==
    LET d == ptable[p].pgdir
        has == HasTable(d, FB_MMAP_BASE)
        m == IF has THEN mem ELSE WithTable(mem, d, FB_MMAP_BASE, Page)
    IN /\ Call(p, User)
       /\ ~ptable[p].fb
       /\ has \/ CanAlloc
       /\ panic' = \E va \in FbRange : Remap(d, va)
       /\ mem' = SetPtes(m, d, FB_MMAP_BASE, FB_MMAP_BASE + FbPages, DEV)
       /\ free' = IF has THEN free ELSE free \ {Page}
       /\ ptable' = [ptable EXCEPT ![p].fb = TRUE]
       /\ UNCHANGED <<ptlock, cr3>>

Munmap(p) ==
    /\ ptable[p].fb
    /\ Enter(p, User)
    /\ mem' = ProcFreeVmas(mem, p)
    /\ ptable' = [ptable EXCEPT ![p].fb = FALSE]
    /\ UNCHANGED <<free, ptlock, cr3, panic, calls>>

(* exit: the areas go, then, under ptable.lock, the children go to init    *)
(* and the process is a zombie that still runs on its stack and directory. *)
Exit(p) ==
    /\ p # initproc
    /\ Enter(p, [User EXCEPT !.pc = "exiting"])
    /\ mem' = ProcFreeVmas(mem, p)
    /\ ptable' = [ptable EXCEPT ![p].fb = FALSE]
    /\ UNCHANGED <<free, ptlock, cr3, panic, calls>>

ExitZombie(p) ==
    /\ At(p, "exiting")
    /\ ptlock = 0
    /\ ptlock' = p
    /\ ptable' = [s \in Slots |->
         IF s = p THEN [ptable[s] EXCEPT !.state = "ZOMBIE"]
         ELSE IF ptable[s].parent = p THEN [ptable[s] EXCEPT !.parent = initproc]
         ELSE ptable[s]]
    /\ UNCHANGED <<free, mem, k, cr3, tlb, panic, calls>>

(* scheduler(), after the zombie's last switch: the kernel's directory is  *)
(* loaded, then ptable.lock released.                                      *)
SchedulerResumes(p) ==
    /\ ~panic
    /\ ptlock = p
    /\ ptlock' = 0
    /\ Lcr3(p, kpgdir)
    /\ Return(p)
    /\ UNCHANGED <<free, mem, ptable, panic, calls>>

(* Mutant of Wait: the zombie is reaped without ptable.lock. *)
WaitUnlocked(p, c) ==
    /\ ptable[c].parent = p /\ ptable[c].state = "ZOMBIE"
    /\ Enter(p, User)
    /\ Freevm(ptable[c].pgdir, {ptable[c].kstack})
    /\ ptable' = [ptable EXCEPT ![c] = UNUSED]
    /\ UNCHANGED <<ptlock, cr3, panic, calls>>

(* wait, when child c is a zombie: its stack, directory and slot are freed *)
(* under ptable.lock.                                                      *)
Wait(p, c) ==
    /\ ptlock = 0
    /\ ptable[c].parent = p /\ ptable[c].state = "ZOMBIE"
    /\ Enter(p, User)
    /\ Freevm(ptable[c].pgdir, {ptable[c].kstack})
    /\ ptable' = [ptable EXCEPT ![c] = UNUSED]
    /\ UNCHANGED <<ptlock, cr3, panic, calls>>

(* A timer interrupt takes the CPU from the process and scheduler() gives  *)
(* it back: activate_process loads the directory it has by then, which is  *)
(* another one only in the middle of exec.                                 *)
Preempt(p) ==
    /\ ~panic
    /\ ptable[p].state = "RUNNING"
    /\ ptlock = 0
    /\ cr3[p] # ptable[p].pgdir
    /\ Lcr3(p, ptable[p].pgdir)
    /\ UNCHANGED <<free, mem, ptable, ptlock, k, panic, calls>>

Step(p) ==
    \/ Fork(p) \/ InitProc(p) \/ Copyuvm(p) \/ CloneVmas(p) \/ ForkDone(p)
    \/ SetupDir(p) \/ SetupKmap(p) \/ Mappages(p) \/ Allocvm(p)
    \/ Exec(p) \/ ExecStack(p) \/ ExecCommit(p) \/ ExecActivate(p) \/ ExecFreeOld(p)
    \/ \E n \in Deltas : SbrkGrow(p, n) \/ SbrkShrink(p, n)
    \/ SbrkDone(p)
    \/ Mmap(p) \/ Munmap(p)
    \/ Exit(p) \/ ExitZombie(p) \/ SchedulerResumes(p)
    \/ \E c \in Slots : Wait(p, c)
    \/ Preempt(p)

Next == \E p \in Slots : Step(p)

Spec == Init /\ [][Next]_vars
-----------------------------------------------------------------------------
(* Properties *)

(* Everything that holds a page: the kernel, a slot its stack and, once it *)
(* runs, its directory, a call the directory it builds or frees and the    *)
(* page in hand, a directory its tables and their pages.  A holding is the *)
(* kind of use, the user with its entry, and the page.                     *)
Alive == {s \in Slots : ptable[s].state \in {"RUNNING", "ZOMBIE"}}
Stacks == {<<"stack", <<s, 0>>, ptable[s].kstack>> : s \in {t \in Slots : ptable[t].kstack # 0}}
Hands == {<<"hand", <<s, 0>>, k[s].mem>> : s \in {t \in Slots : k[t].mem # 0}}
CallDirs == {<<"call", <<s, 0>>, k[s].d>> : s \in {t \in Alive : k[t].d # 0}}
SlotDirs == {<<"slot", <<s, 0>>, ptable[s].pgdir>> : s \in Alive}

TablesOf(m, d) ==
    {<<"table", <<d, i>>, m[d][i]>> : i \in {j \in Pdes : m[d][j] \notin {0, m[kpgdir][j]}}}
PagesOf(m, d) ==
    {<<"page", <<d, va>>, Pte(m, d, va)>> :
        va \in {w \in 0..(KERNBASE - 1) : Pte(m, d, w) \notin {0, DEV}}}

Held(stacks, hands, dirs, m) ==
    {<<"kernel", <<0, 0>>, pg>> : pg \in KernelPages} \cup stacks \cup hands \cup dirs
    \cup UNION {TablesOf(m, d[3]) \cup PagesOf(m, d[3]) : d \in dirs}

Holdings == Held(Stacks, Hands, CallDirs \cup SlotDirs, mem)

(* Every physical page is on the free list or has exactly one holder, and  *)
(* none is lost, shared or freed twice, whichever allocation of whichever  *)
(* call failed: the clean-up paths of fork, copyuvm, exec, allocvm, freevm *)
(* and wait together.                                                      *)
PagesAccountedFor ==
    /\ {h[3] : h \in Holdings} = Pages \ free
    /\ \A g, h \in Holdings : g[3] = h[3] => g = h

(* No CPU has a freed page in cr3 or runs on a freed kernel stack: exec    *)
(* loads the new directory before it frees the old one, and wait cannot    *)
(* reap a zombie that has not left its stack and directory.                *)
RunsOnLiveMemory ==
    \A s \in Slots :
        /\ cr3[s] \notin free
        /\ cr3[s] # kpgdir => ptable[s].kstack \in Pages \ free

(* The pages of a process in user mode are those below brk, all of them    *)
(* and no other, after calls that failed too, and beyond brk it maps       *)
(* nothing but the framebuffer, and that only while it has the area: what  *)
(* copyuvm's and mappages' panics rely on.  That the area is mapped is not *)
(* so: see FramebufferStays.                                               *)
BrkIsWhatIsMapped ==
    \A s \in Slots : ptable[s].state = "RUNNING" /\ k[s].pc = "user" =>
        \A va \in 0..(KERNBASE - 1) :
            LET pte == Pte(mem, ptable[s].pgdir, va)
            IN IF va < ptable[s].brk THEN pte \in Pages
               ELSE pte # 0 => pte = DEV /\ ptable[s].fb /\ va \in FbRange

(* The part of its framebuffer area that a process does not map. *)
FbMissing(s) ==
    {va \in FbRange : /\ ptable[s].state = "RUNNING" /\ ptable[s].fb
                      /\ Pte(mem, ptable[s].pgdir, va) # DEV}

(* A process that has the framebuffer's area has it mapped from mmap or    *)
(* fork on, whatever it and others do, and loses an entry in one way only: *)
(* its sbrk asked for memory beyond that address and found too little, and *)
(* deallocvm dropped the entry with the rest.                              *)
FramebufferStays ==
    [][\A s \in Slots : \A va \in FbMissing(s)' \ FbMissing(s) :
          k[s].call = "sbrk" /\ va < k[s].end /\ k'[s] = User]_vars

(* A program reaches only pages its directory maps: whatever sbrk and exec *)
(* unmapped and freed is out of the TLB when the call returns.             *)
TlbHoldsOnlyMapped ==
    \A s \in Slots : ptable[s].state = "RUNNING" /\ k[s].pc = "user" =>
        tlb[s] \subseteq Mapped(mem, ptable[s].pgdir, 0, FB_MMAP_BASE)

(* mappages meets no present entry ("remap") and copyuvm no missing one. *)
NoPanic == ~panic
=============================================================================

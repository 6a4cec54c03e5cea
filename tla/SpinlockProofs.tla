--------------------------- MODULE SpinlockProofs ---------------------------
(***************************************************************************)
(* For any number of CPUs, processes and locks: the spinlocks exclude each *)
(* other, no ASSERT of spinlock.c or switch_to_scheduler fails, a handler  *)
(* never spins on a lock of the code it interrupted, and the interrupt     *)
(* flag follows the thread.                                                *)
(*                                                                         *)
(* The inductive invariant describes a CPU by the thread it runs and the   *)
(* top frame of that thread (Ok), a thread that no CPU runs (OffOK), the   *)
(* frame below a handler (FramesOK), and ties lk->locked and lk->cpu to    *)
(* the locks threads hold (LocksOK, OwnersOK).                             *)
(***************************************************************************)
EXTENDS Spinlock, TLAPS, FiniteSetTheorems

Locking == {"cli", "check", "spin", "own", "unlock"}
Calling == Locking \cup {"pop"}

(* The scheduler between its return from a process and the release of     *)
(* ptable.lock: cpu->interrupts_enabled is still that of the process.      *)
InBack(f) == f.pc = "back" \/ (f.pc \in Calling /\ f.ret = "back")

(* lk->cpu does not name the holder yet, or no longer does. *)
Mid(f, l) == f.pc \in {"own", "unlock"} /\ f.lk = l

Nesting(f, locks) == Cardinality(locks) + IF f.pc \in {"check", "spin", "pop"} THEN 1 ELSE 0

(* A CPU whose thread t has top frame f and holds the set `locks', whose   *)
(* ncli is n, IF is i and interrupts_enabled is e; tr: t is in a handler.  *)
Ok(t, tr, f, locks, n, i, e) ==
    /\ f.pc \notin {"switched", "forkret"}
    /\ f.pc = "loop" => locks = {}
    /\ f.pc = "back" \/ (f.pc = "cli" /\ f.ret = "back") => locks # {}
    /\ InBack(f) => t \in CPUs /\ ~tr
    /\ n = Nesting(f, locks)
    /\ i => f.pc \in {"idle", "cli", "loop"} /\ n = 0
    /\ f.pc \in Locking => f.lk \in Locks
    /\ f.pc \in {"own", "unlock"} => f.lk \in locks
    /\ f.pc \in {"cli", "check", "spin"} => f.lk \notin locks
    /\ f.pc \in {"idle", "cli"} /\ n = 0 => (i <=> ~tr)
    /\ f.pc = "cli" /\ n = 0 => (f.eflags <=> i)
    /\ n > 0 /\ ~InBack(f) => (e <=> ~tr)

Running(c) ==
    Ok(cur[c], trapped[cur[c]], Top(cur[c]), held[cur[c]], ncli[c], iflag[c], intena[c])

Placed ==
    /\ \A c, d \in CPUs : cur[c] = cur[d] => c = d
    /\ \A c \in CPUs : cur[c] \in CPUs => cur[c] = c

FramesOK ==
    \A t \in Threads :
        /\ below[t] = {}
        /\ ~trapped[t] => frame[t][2] = Fresh("idle")
        /\ trapped[t] => frame[t][1].pc \in {"idle", "cli", "loop"}
        /\ trapped[t] /\ frame[t][1].pc = "cli" =>
              /\ frame[t][1].lk \in Locks
              /\ frame[t][1].eflags
              /\ frame[t][1].ret = "idle"

OffOK ==
    \A t \in Threads : (\A c \in CPUs : cur[c] # t) =>
        /\ held[t] = {}
        /\ t \in CPUs => ~trapped[t] /\ Top(t).pc = "idle"
        /\ t \in Procs => \/ Top(t).pc = "switched" /\ (saved[t] <=> ~trapped[t])
                          \/ Top(t).pc = "forkret" /\ ~trapped[t]

LocksOK ==
    /\ MutualExclusion
    /\ \A t \in Threads : \A l \in held[t] : locked[l] = 1

OwnersOK ==
    \A c \in CPUs : \A l \in Locks :
        lkcpu[l] = c <=> l \in held[cur[c]] /\ ~Mid(Top(cur[c]), l)

IInv ==
    /\ TypeOK
    /\ Placed
    /\ FramesOK
    /\ OffOK
    /\ \A c \in CPUs : Running(c)
    /\ LocksOK
    /\ OwnersOK
    /\ NoPanic

-----------------------------------------------------------------------------
(* What a store to the top frame of a thread changes. *)
LEMMA TopUpdate ==
    ASSUME TypeOK, NEW t \in Threads, NEW g \in Frame,
           SetTop(t, g),
           trapped' = trapped
    PROVE  /\ frame' \in [Threads -> [1..2 -> Frame]]
           /\ Top(t)' = g
           /\ \A u \in Threads \ {t} : frame'[u] = frame[u] /\ Top(u)' = Top(u)
           /\ ~trapped[t] => frame'[t][2] = frame[t][2]
           /\ trapped[t] => frame'[t][1] = frame[t][1]
  BY DEF TypeOK, SetTop, Top, Level

(* The top frame of a thread is a frame. *)
LEMMA TopType ==
    ASSUME TypeOK, NEW t \in Threads
    PROVE  Top(t) \in Frame
  BY DEF TypeOK, Top, Level

(* So is a new one. *)
LEMMA FreshType ==
    ASSUME NEW at \in PCs
    PROVE  Fresh(at) \in Frame
  BY DEF Fresh, Frame

-----------------------------------------------------------------------------
(* Counting sets of locks. *)
LEMMA LockSets ==
    ASSUME NEW S \in SUBSET Locks
    PROVE  /\ Cardinality(S) \in Nat
           /\ Cardinality(S) = 0 <=> S = {}
           /\ \A l \in Locks \ S : Cardinality(S \cup {l}) = Cardinality(S) + 1
           /\ \A l \in S : Cardinality(S \ {l}) = Cardinality(S) - 1
           /\ S = {PTable} => Cardinality(S) = 1
<1>1. IsFiniteSet(S)
  BY FS_Subset, SpinlockAssumption
<1>q. QED
  BY <1>1, FS_CardinalityType, FS_EmptySet, FS_AddElement, FS_RemoveElement,
     FS_Singleton

(* The invariant holds at boot. *)
LEMMA InitInv == Init => IInv
<1> SUFFICES ASSUME Init PROVE IInv
  OBVIOUS
<1> USE SpinlockAssumption DEF Init, Threads
<1>1. TypeOK
  BY DEF TypeOK, Frame, Fresh, PCs
<1>2. \A t \in Threads : Top(t) = Fresh(IF t \in CPUs THEN "loop" ELSE "forkret")
  BY DEF Top, Level
<1>3. Placed /\ FramesOK /\ OffOK
  BY <1>2 DEF Placed, FramesOK, OffOK, Fresh
<1>4. \A c \in CPUs : Running(c)
  BY <1>2, FS_EmptySet DEF Running, Ok, InBack, Nesting, Fresh, Locking, Calling
<1>5. LocksOK /\ OwnersOK /\ NoPanic
  BY DEF LocksOK, MutualExclusion, OwnersOK, NoPanic
<1>q. QED
  BY <1>1, <1>3, <1>4, <1>5 DEF IInv

(* A step of CPU c that only moves the top frame of its thread to g leaves *)
(* the other CPUs and threads as they are.                                 *)
LEMMA LocalStep ==
    ASSUME IInv, NEW c \in CPUs, NEW g \in Frame,
           SetTop(cur[c], g),
           cur' = cur, trapped' = trapped, below' = below, saved' = saved,
           \A d \in CPUs \ {c} :
               ncli'[d] = ncli[d] /\ iflag'[d] = iflag[d] /\ intena'[d] = intena[d],
           \A u \in Threads \ {cur[c]} : held'[u] = held[u],
           Ok(cur[c], trapped[cur[c]], g, held'[cur[c]], ncli'[c], iflag'[c], intena'[c])
    PROVE  /\ frame' \in [Threads -> [1..2 -> Frame]]
           /\ Top(cur[c])' = g
           /\ \A d \in CPUs \ {c} : cur[d] # cur[c] /\ Top(cur[d])' = Top(cur[d])
           /\ Placed' /\ FramesOK' /\ OffOK'
           /\ (\A d \in CPUs : Running(d))'
<1> TypeOK /\ Placed /\ FramesOK /\ OffOK /\ \A d \in CPUs : Running(d)
  BY DEF IInv
<1> cur \in [CPUs -> Threads]
  BY DEF TypeOK
<1>1. /\ frame' \in [Threads -> [1..2 -> Frame]]
      /\ Top(cur[c])' = g
      /\ \A u \in Threads \ {cur[c]} : frame'[u] = frame[u] /\ Top(u)' = Top(u)
      /\ ~trapped[cur[c]] => frame'[cur[c]][2] = frame[cur[c]][2]
      /\ trapped[cur[c]] => frame'[cur[c]][1] = frame[cur[c]][1]
  BY TopUpdate
<1>2. Placed'
  BY DEF Placed
<1>3. \A d \in CPUs \ {c} : cur[d] # cur[c] /\ Top(cur[d])' = Top(cur[d])
  BY <1>1 DEF Placed
<1>4. FramesOK'
  BY <1>1 DEF FramesOK
<1>5. OffOK'
  BY <1>1 DEF OffOK
<1>6. ASSUME NEW d \in CPUs PROVE Running(d)'
  <2>1. CASE d = c
    BY <1>1, <2>1 DEF Running
  <2>2. CASE d # c
    BY <1>3, <2>2 DEF Running
  <2>q. QED
    BY <2>1, <2>2
<1>q. QED
  BY <1>1, <1>2, <1>3, <1>4, <1>5, <1>6

(* The facts about the running thread that the steps below use. *)
LEMMA RunningFacts ==
    ASSUME IInv, NEW c \in CPUs
    PROVE  /\ cur[c] \in Threads
           /\ Top(cur[c]) \in Frame
           /\ held[cur[c]] \in SUBSET Locks
           /\ below[cur[c]] = {}
           /\ trapped[cur[c]] \in BOOLEAN
           /\ ncli[c] \in Nat /\ iflag[c] \in BOOLEAN /\ intena[c] \in BOOLEAN
           /\ Ok(cur[c], trapped[cur[c]], Top(cur[c]), held[cur[c]], ncli[c], iflag[c], intena[c])
  BY TopType DEF IInv, TypeOK, FramesOK, Running

(* lk->cpu is untouched by a step outside "own" and "unlock". *)
LEMMA OwnersKept ==
    ASSUME IInv, NEW c \in CPUs,
           cur' = cur, lkcpu' = lkcpu, held' = held,
           \A d \in CPUs \ {c} : Top(cur[d])' = Top(cur[d]),
           Top(cur[c]).pc \notin {"own", "unlock"},
           Top(cur[c])'.pc \notin {"own", "unlock"}
    PROVE  OwnersOK'
<1>1. ASSUME NEW d \in CPUs, NEW l \in Locks
      PROVE  Mid(Top(cur[d]), l)' <=> Mid(Top(cur[d]), l)
  BY DEF Mid
<1>q. QED
  BY <1>1 DEF IInv, OwnersOK

-----------------------------------------------------------------------------
(* acquire() *)
LEMMA ReadEflagsStep ==
    ASSUME IInv, NEW c \in CPUs, NEW l \in Locks, ReadEflags(c, l)
    PROVE  IInv'
<1> DEFINE t == cur[c]
           f == Top(t)
           g == [pc |-> "cli", lk |-> l, eflags |-> iflag[c], ret |-> f.pc]
<1>0. /\ t \in Threads /\ f \in Frame /\ held[t] \in SUBSET Locks /\ below[t] = {}
      /\ trapped[t] \in BOOLEAN /\ ncli[c] \in Nat /\ iflag[c] \in BOOLEAN
      /\ Ok(t, trapped[t], f, held[t], ncli[c], iflag[c], intena[c])
  BY RunningFacts
<1>1. g \in Frame
  BY <1>0 DEF ReadEflags, Frame, PCs
<1>2. l \notin held[t]
  BY <1>0, SpinlockAssumption DEF ReadEflags
<1>3. Ok(t, trapped[t], g, held[t], ncli[c], iflag[c], intena[c])
  BY <1>0, <1>2, LockSets DEF ReadEflags, Ok, InBack, Nesting, Locking, Calling
<1>4. /\ frame' \in [Threads -> [1..2 -> Frame]]
      /\ Top(t)' = g
      /\ \A d \in CPUs \ {c} : cur[d] # cur[c] /\ Top(cur[d])' = Top(cur[d])
      /\ Placed' /\ FramesOK' /\ OffOK' /\ (\A d \in CPUs : Running(d))'
  BY <1>1, <1>3, LocalStep DEF ReadEflags
<1>5. TypeOK'
  BY <1>4 DEF ReadEflags, IInv, TypeOK
<1>6. LocksOK' /\ NoPanic'
  BY DEF ReadEflags, IInv, LocksOK, MutualExclusion, NoPanic
<1>7. OwnersOK'
  BY <1>4, OwnersKept DEF ReadEflags
<1>q. QED
  BY <1>4, <1>5, <1>6, <1>7 DEF IInv

(* pushcli has turned interrupts off and counts. *)
LEMMA PushcliStep ==
    ASSUME IInv, NEW c \in CPUs, Pushcli(c)
    PROVE  IInv'
<1> DEFINE t == cur[c]
           f == Top(t)
           g == [f EXCEPT !.pc = "check", !.eflags = FALSE]
<1>0. /\ t \in Threads /\ f \in Frame /\ held[t] \in SUBSET Locks
      /\ trapped[t] \in BOOLEAN /\ ncli[c] \in Nat /\ iflag[c] \in BOOLEAN
      /\ intena[c] \in BOOLEAN
      /\ Ok(t, trapped[t], f, held[t], ncli[c], iflag[c], intena[c])
  BY RunningFacts
<1>1. g \in Frame
  BY <1>0 DEF Frame, PCs
<1>2. f.pc = "cli" /\ g.pc = "check"
  BY <1>0 DEF Pushcli, Frame
<1>3. /\ ncli'[c] = ncli[c] + 1
      /\ iflag'[c] = FALSE
      /\ intena'[c] = IF ncli[c] = 0 THEN f.eflags ELSE intena[c]
  BY DEF Pushcli, IInv, TypeOK
<1>4. Ok(t, trapped[t], g, held'[t], ncli'[c], iflag'[c], intena'[c])
  <2>1. held'[t] = held[t]
    BY DEF Pushcli
  <2>2. Cardinality(held[t]) \in Nat
    BY <1>0, LockSets
  <2>q. QED
    BY <1>0, <1>3, <2>1, <2>2 DEF Pushcli, Ok, InBack, Nesting, Locking, Calling, Frame
<1>5. /\ frame' \in [Threads -> [1..2 -> Frame]]
      /\ Top(t)' = g
      /\ \A d \in CPUs \ {c} : cur[d] # cur[c] /\ Top(cur[d])' = Top(cur[d])
      /\ Placed' /\ FramesOK' /\ OffOK' /\ (\A d \in CPUs : Running(d))'
  <2>1. \A d \in CPUs \ {c} :
            ncli'[d] = ncli[d] /\ iflag'[d] = iflag[d] /\ intena'[d] = intena[d]
    BY DEF Pushcli, IInv, TypeOK
  <2>q. QED
    BY <1>1, <1>4, <2>1, LocalStep DEF Pushcli
<1>6. TypeOK'
  BY <1>0, <1>5 DEF Pushcli, IInv, TypeOK, Frame
<1>7. LocksOK' /\ NoPanic'
  BY DEF Pushcli, IInv, LocksOK, MutualExclusion, NoPanic
<1>8. OwnersOK'
  BY <1>2, <1>5, OwnersKept DEF Pushcli
<1>q. QED
  BY <1>5, <1>6, <1>7, <1>8 DEF IInv

(* ASSERT(!holding(lk)): lk->cpu = c would mean that the thread holds lk. *)
LEMMA AcquireCheckStep ==
    ASSUME IInv, NEW c \in CPUs, AcquireCheck(c)
    PROVE  IInv'
<1> DEFINE t == cur[c]
           f == Top(t)
           g == [f EXCEPT !.pc = "spin"]
<1>0. /\ t \in Threads /\ f \in Frame /\ held[t] \in SUBSET Locks
      /\ Ok(t, trapped[t], f, held[t], ncli[c], iflag[c], intena[c])
  BY RunningFacts
<1>1. g \in Frame /\ f.pc = "check" /\ g.pc = "spin" /\ SetTop(t, g)
  BY <1>0 DEF AcquireCheck, Goto, Frame, PCs
<1>2. Ok(t, trapped[t], g, held[t], ncli[c], iflag[c], intena[c])
  BY <1>0, <1>1 DEF Ok, InBack, Nesting, Locking, Calling, Frame
<1>3. /\ frame' \in [Threads -> [1..2 -> Frame]]
      /\ Top(t)' = g
      /\ \A d \in CPUs \ {c} : cur[d] # cur[c] /\ Top(cur[d])' = Top(cur[d])
      /\ Placed' /\ FramesOK' /\ OffOK' /\ (\A d \in CPUs : Running(d))'
  BY <1>1, <1>2, LocalStep DEF AcquireCheck
<1>4. ~Holding(c, f.lk)
  <2>1. f.lk \in Locks /\ f.lk \notin held[t]
    BY <1>0, <1>1 DEF Ok, Locking
  <2>q. QED
    BY <2>1 DEF Holding, IInv, OwnersOK
<1>5. NoPanic'
  BY <1>4 DEF AcquireCheck, IInv, NoPanic
<1>6. TypeOK'
  BY <1>3, <1>5 DEF AcquireCheck, IInv, TypeOK, NoPanic
<1>7. LocksOK'
  BY DEF AcquireCheck, IInv, LocksOK, MutualExclusion
<1>8. OwnersOK'
  BY <1>1, <1>3, OwnersKept DEF AcquireCheck
<1>q. QED
  BY <1>3, <1>5, <1>6, <1>7, <1>8 DEF IInv

(* The xchg that finds 0: nobody held the lock and lk->cpu names nobody. *)
LEMMA XchgStep ==
    ASSUME IInv, NEW c \in CPUs, Xchg(c)
    PROVE  IInv'
<1> DEFINE t == cur[c]
           f == Top(t)
           g == [f EXCEPT !.pc = "own"]
           l == f.lk
<1>0. /\ t \in Threads /\ f \in Frame /\ held[t] \in SUBSET Locks
      /\ Ok(t, trapped[t], f, held[t], ncli[c], iflag[c], intena[c])
  BY RunningFacts
<1>1. g \in Frame /\ f.pc = "spin" /\ g.pc = "own" /\ g.lk = l /\ SetTop(t, g)
  BY <1>0 DEF Xchg, Goto, Frame, PCs
<1>2. l \in Locks /\ l \notin held[t] /\ locked[l] = 0
  BY <1>0, <1>1 DEF Xchg, Ok, Locking
<1>3. held'[t] = held[t] \cup {l} /\ \A u \in Threads \ {t} : held'[u] = held[u]
  BY <1>0 DEF Xchg, IInv, TypeOK
<1>4. Ok(t, trapped[t], g, held'[t], ncli[c], iflag[c], intena[c])
  <2>1. Cardinality(held[t] \cup {l}) = Cardinality(held[t]) + 1
    BY <1>0, <1>2, LockSets
  <2>2. Nesting(g, held'[t]) = Nesting(f, held[t])
    BY <1>0, <1>1, <1>3, <2>1, LockSets DEF Nesting
  <2>q. QED
    BY <1>0, <1>1, <1>2, <1>3, <2>2 DEF Ok, InBack, Locking, Calling, Frame
<1>5. /\ frame' \in [Threads -> [1..2 -> Frame]]
      /\ Top(t)' = g
      /\ \A d \in CPUs \ {c} : cur[d] # cur[c] /\ Top(cur[d])' = Top(cur[d])
      /\ Placed' /\ FramesOK' /\ OffOK' /\ (\A d \in CPUs : Running(d))'
  BY <1>1, <1>3, <1>4, LocalStep DEF Xchg
<1>6. TypeOK' /\ NoPanic'
  BY <1>0, <1>2, <1>5 DEF Xchg, IInv, TypeOK, NoPanic
<1>7. \A u \in Threads : l \notin held[u]
  BY <1>2 DEF IInv, LocksOK
<1>8. LocksOK'
  <2>1. \A u \in Threads : \A m \in held'[u] : locked'[m] = 1
    BY <1>0, <1>2, <1>3 DEF Xchg, IInv, TypeOK, LocksOK
  <2>2. MutualExclusion'
    BY <1>0, <1>3, <1>7 DEF IInv, LocksOK, MutualExclusion
  <2>q. QED
    BY <2>1, <2>2 DEF LocksOK
<1>9. OwnersOK'
  <2> SUFFICES ASSUME NEW d \in CPUs, NEW m \in Locks
               PROVE  lkcpu[m] = d <=> m \in held'[cur[d]] /\ ~Mid(Top(cur[d])', m)
    BY DEF Xchg, OwnersOK, Mid
  <2>1. lkcpu[m] = d <=> m \in held[cur[d]] /\ ~Mid(Top(cur[d]), m)
    BY DEF IInv, OwnersOK
  <2>2. cur[d] \in Threads
    BY DEF IInv, TypeOK
  <2>3. CASE d = c
    BY <1>1, <1>3, <1>5, <1>7, <2>1, <2>2, <2>3 DEF Mid
  <2>4. CASE d # c
    BY <1>3, <1>5, <2>1, <2>2, <2>4
  <2>q. QED
    BY <2>3, <2>4
<1>q. QED
  BY <1>5, <1>6, <1>8, <1>9 DEF IInv

(* lk->cpu = current_cpu() *)
LEMMA SetOwnerStep ==
    ASSUME IInv, NEW c \in CPUs, SetOwner(c)
    PROVE  IInv'
<1> DEFINE t == cur[c]
           f == Top(t)
           g == Fresh(f.ret)
           l == f.lk
<1>0. /\ t \in Threads /\ f \in Frame /\ held[t] \in SUBSET Locks
      /\ Ok(t, trapped[t], f, held[t], ncli[c], iflag[c], intena[c])
  BY RunningFacts
<1>1. g \in Frame /\ f.pc = "own" /\ g.pc = f.ret /\ f.ret \in {"idle", "back"} /\ SetTop(t, g)
  BY <1>0 DEF SetOwner, Fresh, Frame, PCs
<1>2. l \in Locks /\ l \in held[t]
  BY <1>0, <1>1 DEF Ok, Locking
<1>3. Ok(t, trapped[t], g, held[t], ncli[c], iflag[c], intena[c])
  <2>1. Cardinality(held[t]) \in Nat /\ Cardinality(held[t]) # 0
    BY <1>0, <1>2, LockSets
  <2>q. QED
    BY <1>0, <1>1, <1>2, <2>1 DEF Ok, Nesting, InBack, Locking, Calling, Frame
<1>4. /\ frame' \in [Threads -> [1..2 -> Frame]]
      /\ Top(t)' = g
      /\ \A d \in CPUs \ {c} : cur[d] # cur[c] /\ Top(cur[d])' = Top(cur[d])
      /\ Placed' /\ FramesOK' /\ OffOK' /\ (\A d \in CPUs : Running(d))'
  BY <1>1, <1>3, LocalStep DEF SetOwner
<1>5. TypeOK' /\ NoPanic' /\ LocksOK'
  BY <1>4, <1>2 DEF SetOwner, IInv, TypeOK, NoPanic, LocksOK, MutualExclusion
<1>6. OwnersOK'
  <2> SUFFICES ASSUME NEW d \in CPUs, NEW m \in Locks
               PROVE  lkcpu'[m] = d <=> m \in held[cur[d]] /\ ~Mid(Top(cur[d])', m)
    BY DEF SetOwner, OwnersOK, Mid
  <2>1. lkcpu[m] = d <=> m \in held[cur[d]] /\ ~Mid(Top(cur[d]), m)
    BY DEF IInv, OwnersOK
  <2>2. lkcpu'[m] = IF m = l THEN c ELSE lkcpu[m]
    BY DEF SetOwner, IInv, TypeOK
  <2>3. cur[d] \in Threads
    BY DEF IInv, TypeOK
  <2>4. CASE d = c
    BY <1>1, <1>2, <1>4, <2>1, <2>2, <2>4 DEF Mid
  <2>5. CASE d # c
    BY <1>0, <1>2, <1>4, <2>1, <2>2, <2>3, <2>5 DEF IInv, LocksOK, MutualExclusion
  <2>q. QED
    BY <2>4, <2>5
<1>q. QED
  BY <1>4, <1>5, <1>6 DEF IInv

-----------------------------------------------------------------------------
(* release().  ASSERT(holding(lk)): the thread holds lk and is past "own". *)
LEMMA ReleaseCheckStep ==
    ASSUME IInv, NEW c \in CPUs, NEW l \in Locks, ReleaseCheck(c, l)
    PROVE  IInv'
<1> DEFINE t == cur[c]
           f == Top(t)
           g == [f EXCEPT !.pc = "unlock", !.lk = l, !.ret = f.pc]
<1>0. /\ t \in Threads /\ f \in Frame /\ held[t] \in SUBSET Locks
      /\ ncli[c] \in Nat
      /\ Ok(t, trapped[t], f, held[t], ncli[c], iflag[c], intena[c])
  BY RunningFacts
<1>1. /\ f.pc \in {"idle", "back"} /\ l \in held[t]
      /\ g \in Frame /\ g.pc = "unlock" /\ g.lk = l /\ g.ret = f.pc
      /\ SetTop(t, g)
  BY <1>0 DEF ReleaseCheck, Frame, PCs
<1>2. Ok(t, trapped[t], g, held[t], ncli[c], iflag[c], intena[c])
  <2>1. Cardinality(held[t]) \in Nat /\ Cardinality(held[t]) # 0
    BY <1>0, <1>1, LockSets
  <2>q. QED
    BY <1>0, <1>1, <2>1 DEF Ok, Nesting, InBack, Locking, Calling
<1>3. /\ frame' \in [Threads -> [1..2 -> Frame]]
      /\ Top(t)' = g
      /\ \A d \in CPUs \ {c} : cur[d] # cur[c] /\ Top(cur[d])' = Top(cur[d])
      /\ Placed' /\ FramesOK' /\ OffOK' /\ (\A d \in CPUs : Running(d))'
  BY <1>1, <1>2, LocalStep DEF ReleaseCheck
<1>4. Holding(c, l)
  <2>1. locked[l] = 1
    BY <1>0, <1>1 DEF IInv, LocksOK
  <2>2. lkcpu[l] = c
    BY <1>0, <1>1 DEF IInv, OwnersOK, Mid
  <2>q. QED
    BY <2>1, <2>2 DEF Holding
<1>5. NoPanic'
  BY <1>4 DEF ReleaseCheck, IInv, NoPanic
<1>6. TypeOK' /\ LocksOK'
  BY <1>3, <1>5 DEF ReleaseCheck, IInv, TypeOK, NoPanic, LocksOK, MutualExclusion
<1>7. OwnersOK'
  <2> SUFFICES ASSUME NEW d \in CPUs, NEW m \in Locks
               PROVE  lkcpu'[m] = d <=> m \in held[cur[d]] /\ ~Mid(Top(cur[d])', m)
    BY DEF ReleaseCheck, OwnersOK, Mid
  <2>1. lkcpu[m] = d <=> m \in held[cur[d]] /\ ~Mid(Top(cur[d]), m)
    BY DEF IInv, OwnersOK
  <2>2. lkcpu'[m] = IF m = l THEN nullptr ELSE lkcpu[m]
    BY DEF ReleaseCheck, IInv, TypeOK
  <2>3. cur[d] \in Threads /\ nullptr # d
    BY SpinlockAssumption DEF IInv, TypeOK
  <2>4. CASE d = c
    BY <1>1, <1>3, <2>1, <2>2, <2>3, <2>4 DEF Mid
  <2>5. CASE d # c
    BY <1>0, <1>1, <1>3, <2>1, <2>2, <2>3, <2>5 DEF IInv, LocksOK, MutualExclusion
  <2>q. QED
    BY <2>4, <2>5
<1>q. QED
  BY <1>3, <1>5, <1>6, <1>7 DEF IInv

(* lk->locked = 0 *)
LEMMA UnlockStep ==
    ASSUME IInv, NEW c \in CPUs, Unlock(c)
    PROVE  IInv'
<1> DEFINE t == cur[c]
           f == Top(t)
           g == [f EXCEPT !.pc = "pop", !.lk = nullptr]
           l == f.lk
<1>0. /\ t \in Threads /\ f \in Frame /\ held[t] \in SUBSET Locks
      /\ Ok(t, trapped[t], f, held[t], ncli[c], iflag[c], intena[c])
  BY RunningFacts
<1>1. g \in Frame /\ f.pc = "unlock" /\ g.pc = "pop" /\ g.ret = f.ret /\ SetTop(t, g)
  BY <1>0 DEF Unlock, Frame, PCs
<1>2. l \in Locks /\ l \in held[t]
  BY <1>0, <1>1 DEF Ok, Locking
<1>3. held'[t] = held[t] \ {l} /\ \A u \in Threads \ {t} : held'[u] = held[u]
  BY <1>0 DEF Unlock, IInv, TypeOK
<1>4. Ok(t, trapped[t], g, held'[t], ncli[c], iflag[c], intena[c])
  <2>1. Cardinality(held[t] \ {l}) = Cardinality(held[t]) - 1
    BY <1>0, <1>2, LockSets
  <2>2. Cardinality(held[t]) \in Nat
    BY <1>0, LockSets
  <2>3. Nesting(g, held'[t]) = Nesting(f, held[t])
    BY <1>1, <1>3, <2>1, <2>2 DEF Nesting
  <2>q. QED
    BY <1>0, <1>1, <1>3, <2>3 DEF Ok, InBack, Locking, Calling
<1>5. /\ frame' \in [Threads -> [1..2 -> Frame]]
      /\ Top(t)' = g
      /\ \A d \in CPUs \ {c} : cur[d] # cur[c] /\ Top(cur[d])' = Top(cur[d])
      /\ Placed' /\ FramesOK' /\ OffOK' /\ (\A d \in CPUs : Running(d))'
  BY <1>1, <1>3, <1>4, LocalStep DEF Unlock
<1>6. TypeOK' /\ NoPanic'
  BY <1>0, <1>2, <1>5 DEF Unlock, IInv, TypeOK, NoPanic
<1>7. \A u \in Threads \ {t} : l \notin held[u]
  BY <1>0, <1>2 DEF IInv, LocksOK, MutualExclusion
<1>8. LocksOK'
  <2>1. \A u \in Threads : \A m \in held'[u] : locked'[m] = 1
    BY <1>0, <1>2, <1>3, <1>7 DEF Unlock, IInv, TypeOK, LocksOK
  <2>2. MutualExclusion'
    BY <1>0, <1>3 DEF IInv, LocksOK, MutualExclusion
  <2>q. QED
    BY <2>1, <2>2 DEF LocksOK
<1>9. OwnersOK'
  <2> SUFFICES ASSUME NEW d \in CPUs, NEW m \in Locks
               PROVE  lkcpu[m] = d <=> m \in held'[cur[d]] /\ ~Mid(Top(cur[d])', m)
    BY DEF Unlock, OwnersOK, Mid
  <2>1. lkcpu[m] = d <=> m \in held[cur[d]] /\ ~Mid(Top(cur[d]), m)
    BY DEF IInv, OwnersOK
  <2>2. cur[d] \in Threads
    BY DEF IInv, TypeOK
  <2>3. CASE d = c
    BY <1>1, <1>3, <1>5, <2>1, <2>2, <2>3 DEF Mid
  <2>4. CASE d # c
    BY <1>3, <1>5, <2>1, <2>2, <2>4
  <2>q. QED
    BY <2>3, <2>4
<1>q. QED
  BY <1>5, <1>6, <1>8, <1>9 DEF IInv

(* popcli: ncli counts the pop itself, so it is at least 1, and interrupts *)
(* are off.                                                                *)
LEMMA PopcliStep ==
    ASSUME IInv, NEW c \in CPUs, Popcli(c)
    PROVE  IInv'
<1> DEFINE t == cur[c]
           f == Top(t)
           loops == IsScheduler(t) /\ held[t] = {}
           g == Fresh(IF loops THEN "loop" ELSE f.ret)
<1>0. /\ t \in Threads /\ f \in Frame /\ held[t] \in SUBSET Locks
      /\ trapped[t] \in BOOLEAN
      /\ ncli[c] \in Nat /\ iflag[c] \in BOOLEAN /\ intena[c] \in BOOLEAN
      /\ Ok(t, trapped[t], f, held[t], ncli[c], iflag[c], intena[c])
  BY RunningFacts
<1>1. /\ f.pc = "pop" /\ SetTop(t, g) /\ f.ret \in {"idle", "back"}
      /\ g.pc = IF loops THEN "loop" ELSE f.ret
  BY <1>0 DEF Popcli, Fresh, Frame
<1>2. g \in Frame
  BY <1>1, FreshType DEF PCs
<1>3. /\ Cardinality(held[t]) \in Nat
      /\ ncli[c] = Cardinality(held[t]) + 1
      /\ Cardinality(held[t]) = 0 <=> held[t] = {}
      /\ ~iflag[c]
  BY <1>0, <1>1, LockSets DEF Ok, Nesting
<1>n. ncli' = [ncli EXCEPT ![c] = Cardinality(held[t])]
  <2> DEFINE k == IF ncli[c] = 0 THEN 0 ELSE ncli[c] - 1
  <2>1. ncli' = [ncli EXCEPT ![c] = k]
    BY DEF Popcli
  <2>2. k = Cardinality(held[t])
    BY <1>3
  <2>q. QED
    BY <2>1, <2>2
<1>4. /\ ncli'[c] = Cardinality(held[t])
      /\ iflag'[c] <=> (held[t] = {} /\ intena[c])
      /\ iflag'[c] \in BOOLEAN
  <2>1. ncli'[c] = Cardinality(held[t])
    BY <1>3, <1>n DEF IInv, TypeOK
  <2>2. iflag'[c] = IF ncli'[c] = 0 /\ intena[c] THEN TRUE ELSE iflag[c]
    BY DEF Popcli, IInv, TypeOK
  <2>q. QED
    BY <1>0, <1>3, <2>1, <2>2
<1>5. Ok(t, trapped[t], g, held[t], ncli'[c], iflag'[c], intena[c])
  <2>1. f.ret = "back" => IsScheduler(t)
    BY <1>0, <1>1 DEF Ok, InBack, Calling, IsScheduler
  <2>2. f.ret = "idle" => (intena[c] <=> ~trapped[t])
    BY <1>0, <1>1, <1>3 DEF Ok, InBack, Calling
  <2>3. IsScheduler(t) <=> t \in CPUs /\ ~trapped[t]
    BY DEF IsScheduler
  <2>4. CASE loops
    BY <1>0, <1>1, <1>3, <1>4, <2>4 DEF Ok, Nesting, InBack, Locking, Calling
  <2>5. CASE ~loops /\ f.ret = "idle"
    BY <1>0, <1>1, <1>3, <1>4, <2>2, <2>5 DEF Ok, Nesting, InBack, Locking, Calling
  <2>6. CASE ~loops /\ f.ret = "back"
    BY <1>0, <1>1, <1>3, <1>4, <2>1, <2>3, <2>6 DEF Ok, Nesting, InBack, Locking, Calling
  <2>q. QED
    BY <1>1, <2>4, <2>5, <2>6
<1>6. /\ frame' \in [Threads -> [1..2 -> Frame]]
      /\ Top(t)' = g
      /\ \A d \in CPUs \ {c} : cur[d] # cur[c] /\ Top(cur[d])' = Top(cur[d])
      /\ Placed' /\ FramesOK' /\ OffOK' /\ (\A d \in CPUs : Running(d))'
  <2>1. \A d \in CPUs \ {c} :
            ncli'[d] = ncli[d] /\ iflag'[d] = iflag[d] /\ intena'[d] = intena[d]
    BY DEF Popcli, IInv, TypeOK
  <2>q. QED
    BY <1>1, <1>2, <1>5, <2>1, LocalStep DEF Popcli
<1>7. NoPanic'
  <2>1. panic' = (panic \/ iflag[c] \/ ncli[c] = 0)
    BY DEF Popcli
  <2>2. ncli[c] # 0
    BY <1>3
  <2>q. QED
    BY <1>3, <2>1, <2>2 DEF IInv, NoPanic
<1>8. TypeOK'
  <2>1. ncli' \in [CPUs -> Nat]
    BY <1>3, <1>n DEF IInv, TypeOK
  <2>2. iflag' \in [CPUs -> BOOLEAN]
    BY DEF Popcli, IInv, TypeOK
  <2>3. panic' \in BOOLEAN
    BY DEF Popcli
  <2>q. QED
    BY <1>6, <2>1, <2>2, <2>3 DEF Popcli, IInv, TypeOK
<1>9. LocksOK'
  BY DEF Popcli, IInv, LocksOK, MutualExclusion
<1>10. OwnersOK'
  BY <1>1, <1>6, OwnersKept DEF Popcli
<1>q. QED
  BY <1>6, <1>7, <1>8, <1>9, <1>10 DEF IInv

-----------------------------------------------------------------------------
(* Interrupts.  IF is set only with ncli = 0, so the interrupted code      *)
(* holds no lock.                                                          *)
LEMMA InterruptStep ==
    ASSUME IInv, NEW c \in CPUs, Interrupt(c)
    PROVE  IInv'
<1> DEFINE t == cur[c]
           f == Top(t)
<1>0. /\ t \in Threads /\ f \in Frame /\ held[t] \in SUBSET Locks
      /\ ncli[c] \in Nat /\ iflag[c] \in BOOLEAN
      /\ Ok(t, trapped[t], f, held[t], ncli[c], iflag[c], intena[c])
  BY RunningFacts
<1>1. /\ f.pc \in {"idle", "cli", "loop"} /\ ncli[c] = 0 /\ held[t] = {}
      /\ f.pc = "cli" => f.lk \in Locks /\ f.eflags /\ f.ret = "idle"
  <2>1. f.pc \in {"idle", "cli", "loop"} /\ ncli[c] = 0
    BY <1>0 DEF Interrupt, Ok
  <2>2. Cardinality(held[t]) \in Nat /\ (Cardinality(held[t]) = 0 <=> held[t] = {})
    BY <1>0, LockSets
  <2>3. ncli[c] = Cardinality(held[t]) + 0
    BY <1>0, <2>1 DEF Ok, Nesting
  <2>4. held[t] = {}
    BY <2>1, <2>2, <2>3
  <2>q. QED
    BY <1>0, <2>1, <2>4 DEF Interrupt, Ok, Locking, Frame
<1>2. /\ f = frame[t][1]
      /\ Top(t)' = Fresh("idle")
      /\ \A u \in Threads \ {t} : trapped'[u] = trapped[u] /\ Top(u)' = Top(u)
      /\ trapped'[t] = TRUE
      /\ below' = [below EXCEPT ![t] = {}]
  BY <1>0, <1>1 DEF Interrupt, IInv, TypeOK, FramesOK, Top, Level
<1>3. TypeOK' /\ Placed' /\ LocksOK' /\ NoPanic'
  BY <1>0 DEF Interrupt, IInv, TypeOK, Placed, LocksOK, MutualExclusion, NoPanic
<1>4. FramesOK'
  BY <1>1, <1>2 DEF Interrupt, IInv, TypeOK, FramesOK
<1>5. OffOK'
  BY <1>2, ZenonT(60) DEF Interrupt, IInv, OffOK
<1>6. ASSUME NEW d \in CPUs PROVE Running(d)'
  <2>1. CASE d = c
    <3>1. iflag'[c] = FALSE
      BY DEF Interrupt, IInv, TypeOK
    <3>2. Ok(t, TRUE, Fresh("idle"), {}, 0, FALSE, intena[c])
      BY FS_EmptySet DEF Ok, Nesting, InBack, Locking, Calling, Fresh
    <3>q. QED
      BY <1>1, <1>2, <2>1, <3>1, <3>2 DEF Interrupt, Running
  <2>2. CASE d # c
    <3>1. cur[d] # t /\ cur[d] \in Threads /\ Running(d)
      BY <2>2 DEF IInv, TypeOK, Placed
    <3>2. iflag'[d] = iflag[d]
      BY <2>2 DEF Interrupt, IInv, TypeOK
    <3>3. trapped'[cur[d]] = trapped[cur[d]] /\ Top(cur[d])' = Top(cur[d]) /\ cur' = cur
      BY <1>2, <3>1 DEF Interrupt
    <3>q. QED
      BY <3>1, <3>2, <3>3 DEF Interrupt, Running
  <2>q. QED
    BY <2>1, <2>2
<1>7. OwnersOK'
  <2>1. \A d \in CPUs \ {c} : Top(cur[d])' = Top(cur[d])
    BY <1>2 DEF Interrupt, IInv, TypeOK, Placed
  <2>2. Top(cur[c]).pc \notin {"own", "unlock"} /\ Top(cur[c])'.pc \notin {"own", "unlock"}
    BY <1>1, <1>2 DEF Fresh
  <2>q. QED
    BY <2>1, <2>2, OwnersKept DEF Interrupt
<1>q. QED
  BY <1>3, <1>4, <1>5, <1>6, <1>7 DEF IInv

(* An interrupt handler returns to the thread it interrupted. *)
LEMMA IretStep ==
    ASSUME IInv, NEW c \in CPUs, Iret(c)
    PROVE  IInv'
<1> DEFINE t == cur[c]
           f == Top(t)
           g == frame[t][1]
<1>0. /\ t \in Threads /\ f \in Frame /\ below[t] = {}
      /\ ncli[c] \in Nat
      /\ Ok(t, trapped[t], f, held[t], ncli[c], iflag[c], intena[c])
  BY RunningFacts
<1>1. held[t] = {} /\ ncli[c] = 0 /\ f.pc = "idle" /\ trapped[t]
  <2>1. held[t] = {} /\ f.pc = "idle" /\ trapped[t]
    BY <1>0 DEF Iret
  <2>2. Cardinality(held[t]) = 0
    BY <2>1, FS_EmptySet
  <2>3. ncli[c] = Cardinality(held[t]) + 0
    BY <1>0, <2>1 DEF Ok, Nesting
  <2>q. QED
    BY <2>1, <2>2, <2>3
<1>2. /\ g \in Frame /\ g.pc \in {"idle", "cli", "loop"}
      /\ g.pc = "cli" => g.lk \in Locks /\ g.eflags /\ g.ret = "idle"
  BY <1>0, <1>1 DEF IInv, TypeOK, FramesOK
<1>3. /\ Top(t)' = g
      /\ \A u \in Threads \ {t} : trapped'[u] = trapped[u] /\ Top(u)' = Top(u)
      /\ trapped'[t] = FALSE
      /\ frame'[t][1] = g /\ frame'[t][2] = Fresh("idle")
      /\ \A u \in Threads \ {t} : frame'[u] = frame[u]
      /\ below' = [below EXCEPT ![t] = {}]
  BY <1>0 DEF Iret, IInv, TypeOK, Top, Level
<1>4. TypeOK'
  <2>1. frame' \in [Threads -> [1..2 -> Frame]]
    BY <1>0, FreshType DEF Iret, IInv, TypeOK, PCs
  <2>q. QED
    BY <1>0, <2>1 DEF Iret, IInv, TypeOK
<1>5. Placed' /\ LocksOK' /\ NoPanic'
  BY DEF Iret, IInv, Placed, LocksOK, MutualExclusion, NoPanic
<1>6. FramesOK'
  BY <1>0, <1>3 DEF IInv, TypeOK, FramesOK
<1>7. OffOK'
  <2> SUFFICES ASSUME NEW u \in Threads, \A d \in CPUs : cur[d] # u
               PROVE  /\ held[u] = {}
                      /\ u \in CPUs => ~trapped'[u] /\ Top(u)'.pc = "idle"
                      /\ u \in Procs => \/ Top(u)'.pc = "switched" /\ (saved[u] <=> ~trapped'[u])
                                        \/ Top(u)'.pc = "forkret" /\ ~trapped'[u]
    BY DEF Iret, OffOK
  <2>1. u # t
    OBVIOUS
  <2>q. QED
    BY <1>3, <2>1 DEF IInv, OffOK
<1>8. ASSUME NEW d \in CPUs PROVE Running(d)'
  <2>1. CASE d = c
    <3>1. iflag'[c] = TRUE
      BY DEF Iret, IInv, TypeOK
    <3>2. Ok(t, FALSE, g, {}, 0, TRUE, intena[c])
      BY <1>2, FS_EmptySet DEF Ok, Nesting, InBack, Locking, Calling, Frame
    <3>q. QED
      BY <1>1, <1>3, <2>1, <3>1, <3>2 DEF Iret, Running
  <2>2. CASE d # c
    <3>1. cur[d] # t /\ cur[d] \in Threads /\ Running(d)
      BY <2>2 DEF IInv, TypeOK, Placed
    <3>2. iflag'[d] = iflag[d]
      BY <2>2 DEF Iret, IInv, TypeOK
    <3>3. trapped'[cur[d]] = trapped[cur[d]] /\ Top(cur[d])' = Top(cur[d]) /\ cur' = cur
      BY <1>3, <3>1 DEF Iret
    <3>q. QED
      BY <3>1, <3>2, <3>3 DEF Iret, Running
  <2>q. QED
    BY <2>1, <2>2
<1>9. OwnersOK'
  <2>1. \A d \in CPUs \ {c} : Top(cur[d])' = Top(cur[d])
    BY <1>3 DEF Iret, IInv, TypeOK, Placed
  <2>2. Top(cur[c]).pc \notin {"own", "unlock"} /\ Top(cur[c])'.pc \notin {"own", "unlock"}
    BY <1>1, <1>2, <1>3
  <2>q. QED
    BY <2>1, <2>2, OwnersKept DEF Iret
<1>q. QED
  BY <1>4, <1>5, <1>6, <1>7, <1>8, <1>9 DEF IInv

-----------------------------------------------------------------------------
(* The scheduler loop and the two context switches. *)
LEMMA SchedulerStiStep ==
    ASSUME IInv, NEW c \in CPUs, SchedulerSti(c)
    PROVE  IInv'
<1> DEFINE f == Top(c)
           g == [f EXCEPT !.pc = "idle"]
<1>0. /\ cur[c] = c /\ ~trapped[c]
      /\ c \in Threads /\ f \in Frame /\ held[c] \in SUBSET Locks
      /\ Ok(c, FALSE, f, held[c], ncli[c], iflag[c], intena[c])
  <2>1. cur[c] = c /\ trapped[c] = FALSE
    BY DEF SchedulerSti, IInv, TypeOK, Threads
  <2>q. QED
    BY <2>1, RunningFacts
<1>1. g \in Frame /\ f.pc = "loop" /\ g.pc = "idle" /\ SetTop(c, g)
  BY <1>0 DEF SchedulerSti, Goto, Frame, PCs
<1>2. held[c] = {} /\ ncli[c] = 0
  <2>1. held[c] = {}
    BY <1>0, <1>1 DEF Ok
  <2>2. ncli[c] = Cardinality(held[c]) + 0
    BY <1>0, <1>1 DEF Ok, Nesting
  <2>q. QED
    BY <2>1, <2>2, FS_EmptySet
<1>3. iflag'[c] = TRUE
  BY DEF SchedulerSti, IInv, TypeOK
<1>4. Ok(c, FALSE, g, {}, 0, TRUE, intena[c])
  BY <1>1, FS_EmptySet DEF Ok, Nesting, InBack, Locking, Calling
<1>5. /\ frame' \in [Threads -> [1..2 -> Frame]]
      /\ Top(cur[c])' = g
      /\ \A d \in CPUs \ {c} : cur[d] # cur[c] /\ Top(cur[d])' = Top(cur[d])
      /\ Placed' /\ FramesOK' /\ OffOK' /\ (\A d \in CPUs : Running(d))'
  <2>1. \A d \in CPUs \ {c} :
            ncli'[d] = ncli[d] /\ iflag'[d] = iflag[d] /\ intena'[d] = intena[d]
    BY DEF SchedulerSti, IInv, TypeOK
  <2>2. Ok(cur[c], trapped[cur[c]], g, held'[cur[c]], ncli'[c], iflag'[c], intena'[c])
    <3>1. trapped[c] = FALSE
      BY <1>0 DEF IInv, TypeOK
    <3>q. QED
      BY <1>0, <1>2, <1>3, <1>4, <3>1 DEF SchedulerSti
  <2>q. QED
    BY <1>0, <1>1, <2>1, <2>2, LocalStep DEF SchedulerSti
<1>6. TypeOK' /\ LocksOK' /\ NoPanic'
  BY <1>5 DEF SchedulerSti, IInv, TypeOK, LocksOK, MutualExclusion, NoPanic
<1>7. OwnersOK'
  BY <1>0, <1>1, <1>5, OwnersKept DEF SchedulerSti
<1>q. QED
  BY <1>5, <1>6, <1>7 DEF IInv

(* ptable.lock moves from the process to the scheduler thread of its CPU;  *)
(* no CPU ran that thread, so it held nothing.                             *)
LEMMA SwitchToSchedulerStep ==
    ASSUME IInv, NEW c \in CPUs, NEW p \in Procs, p = cur[c], SwitchToScheduler(c)
    PROVE  IInv'
<1> DEFINE f == Top(p)
           g == [f EXCEPT !.pc = "switched"]
<1>0. /\ p \in Threads /\ f \in Frame /\ held[p] \in SUBSET Locks /\ below[p] = {}
      /\ trapped[p] \in BOOLEAN
      /\ ncli[c] \in Nat /\ iflag[c] \in BOOLEAN /\ intena[c] \in BOOLEAN
      /\ Ok(p, trapped[p], f, held[p], ncli[c], iflag[c], intena[c])
  BY RunningFacts
<1>1. /\ p \in Procs /\ f.pc = "idle" /\ held[p] = {PTable} /\ p # c
      /\ g \in Frame /\ g.pc = "switched" /\ c \in Threads /\ PTable \in Locks
  BY <1>0, SpinlockAssumption DEF SwitchToScheduler, Frame, PCs, Threads
<1>2. ncli[c] = 1 /\ ~iflag[c] /\ (intena[c] <=> ~trapped[p])
  <2>1. ncli[c] = 1 + 0
    BY <1>0, <1>1, LockSets DEF Ok, Nesting
  <2>q. QED
    BY <1>0, <1>1, <2>1 DEF Ok, InBack, Calling, Locking
<1>3. \A d \in CPUs : cur[d] # c
  BY <1>1, SpinlockAssumption DEF IInv, Placed
<1>4. held[c] = {} /\ trapped[c] = FALSE
  BY <1>1, <1>3 DEF IInv, OffOK, TypeOK
<1>5. /\ cur' = [cur EXCEPT ![c] = c]
      /\ held' = [held EXCEPT ![p] = {}, ![c] = {PTable}]
      /\ saved' = [saved EXCEPT ![p] = intena[c]]
      /\ trapped' = trapped /\ below' = below /\ locked' = locked /\ lkcpu' = lkcpu
      /\ ncli' = ncli /\ iflag' = iflag /\ intena' = intena
  BY DEF SwitchToScheduler
<1>6. /\ cur'[c] = c /\ \A d \in CPUs \ {c} : cur'[d] = cur[d] /\ cur[d] # p /\ cur[d] # c
      /\ held'[p] = {} /\ held'[c] = {PTable}
      /\ \A u \in Threads \ {p, c} : held'[u] = held[u]
      /\ saved'[p] = intena[c] /\ \A u \in Threads \ {p} : saved'[u] = saved[u]
  BY <1>0, <1>1, <1>3, <1>5 DEF IInv, TypeOK, Placed
<1>7. /\ frame' \in [Threads -> [1..2 -> Frame]]
      /\ \A u \in Threads \ {p, c} : frame'[u] = frame[u]
      /\ frame'[c][1] = Fresh("back") /\ frame'[c][2] = frame[c][2]
      /\ trapped[p] => frame'[p][2] = g /\ frame'[p][1] = frame[p][1]
      /\ ~trapped[p] => frame'[p][1] = g /\ frame'[p][2] = frame[p][2]
  <2>1. frame' = [frame EXCEPT ![p] = [frame[p] EXCEPT ![Level(p)] = g],
                               ![c] = [frame[c] EXCEPT ![1] = Fresh("back")]]
    BY <1>0, <1>1 DEF SwitchToScheduler, IInv, TypeOK
  <2>2. Level(p) = IF trapped[p] THEN 2 ELSE 1
    BY DEF Level
  <2>3. Fresh("back") \in Frame
    BY FreshType DEF PCs
  <2>4. frame \in [Threads -> [1..2 -> Frame]]
    BY DEF IInv, TypeOK
  <2>q. QED
    BY <1>0, <1>1, <2>1, <2>2, <2>3, <2>4
<1>8. /\ Top(p)' = g /\ Top(c)' = Fresh("back")
      /\ \A u \in Threads \ {p, c} : Top(u)' = Top(u)
  BY <1>0, <1>1, <1>4, <1>5, <1>7 DEF Top, Level
<1>9. Placed'
  BY <1>1, <1>6 DEF IInv, Placed
<1>10. FramesOK'
  BY <1>1, <1>4, <1>5, <1>7 DEF IInv, FramesOK
<1>11. OffOK'
  <2> SUFFICES ASSUME NEW u \in Threads, \A d \in CPUs : cur'[d] # u
               PROVE  /\ held'[u] = {}
                      /\ u \in CPUs => ~trapped[u] /\ Top(u)'.pc = "idle"
                      /\ u \in Procs => \/ Top(u)'.pc = "switched" /\ (saved'[u] <=> ~trapped[u])
                                        \/ Top(u)'.pc = "forkret" /\ ~trapped[u]
    BY <1>5 DEF OffOK
  <2>1. u # c
    BY <1>6
  <2>2. CASE u = p
    BY <1>1, <1>2, <1>6, <1>8, <2>2, SpinlockAssumption
  <2>3. CASE u # p
    <3>1. \A d \in CPUs : cur[d] # u
      BY <1>6, <2>3
    <3>q. QED
      BY <1>6, <1>8, <2>1, <2>3, <3>1 DEF IInv, OffOK
  <2>q. QED
    BY <2>2, <2>3
<1>12. ASSUME NEW d \in CPUs PROVE Running(d)'
  <2>1. CASE d = c
    <3>1. Ok(c, FALSE, Fresh("back"), {PTable}, 1, FALSE, intena[c])
      BY <1>1, LockSets DEF Ok, Nesting, InBack, Locking, Calling, Fresh
    <3>2. iflag[c] = FALSE
      BY <1>0, <1>2
    <3>3. Top(cur[d])' = Fresh("back")
      BY <1>4, <1>5, <1>6, <1>7, <2>1 DEF Top, Level
    <3>4. /\ cur'[d] = c /\ trapped'[cur'[d]] = FALSE /\ held'[cur'[d]] = {PTable}
          /\ ncli'[d] = 1 /\ iflag'[d] = FALSE /\ intena'[d] = intena[c]
      BY <1>2, <1>4, <1>5, <1>6, <2>1, <3>2
    <3>q. QED
      BY <3>1, <3>3, <3>4 DEF Running
  <2>2. CASE d # c
    <3>1. cur'[d] = cur[d] /\ cur[d] \in Threads \ {p, c} /\ Running(d)
      BY <1>6, <2>2 DEF IInv, TypeOK
    <3>2. held'[cur[d]] = held[cur[d]] /\ frame'[cur[d]] = frame[cur[d]]
      BY <1>6, <1>7, <3>1
    <3>3. Top(cur[d])' = Top(cur[d])
      BY <1>5, <3>1, <3>2 DEF Top, Level
    <3>q. QED
      BY <1>5, <3>1, <3>2, <3>3 DEF Running
  <2>q. QED
    BY <2>1, <2>2
<1>13. LocksOK'
  <2>1. MutualExclusion'
    <3> SUFFICES ASSUME NEW u \in Threads, NEW v \in Threads, u # v
                 PROVE  held'[u] \cap held'[v] = {}
      BY DEF MutualExclusion
    <3>1. \/ /\ held[u] \cap held[v] = {}
             /\ held[u] \cap held[p] = {}
             /\ held[v] \cap held[p] = {}
          \/ u = p
          \/ v = p
      BY <1>0 DEF IInv, LocksOK, MutualExclusion
    <3>q. QED
      BY <1>1, <1>6, <3>1
  <2>2. \A u \in Threads : \A l \in held'[u] : locked[l] = 1
    BY <1>0, <1>1, <1>6 DEF IInv, LocksOK
  <2>q. QED
    BY <1>5, <2>1, <2>2 DEF LocksOK
<1>14. OwnersOK'
  <2> SUFFICES ASSUME NEW d \in CPUs, NEW l \in Locks
               PROVE  lkcpu[l] = d <=> l \in held'[cur'[d]] /\ ~Mid(Top(cur[d])', l)
    BY <1>5 DEF OwnersOK, Mid
  <2>1. lkcpu[l] = d <=> l \in held[cur[d]] /\ ~Mid(Top(cur[d]), l)
    BY DEF IInv, OwnersOK
  <2>2. CASE d = c
    BY <1>1, <1>6, <1>8, <2>1, <2>2 DEF Mid, Fresh
  <2>3. CASE d # c
    <3>1. cur'[d] = cur[d] /\ cur[d] \in Threads \ {p, c}
      BY <1>6, <2>3 DEF IInv, TypeOK
    <3>q. QED
      BY <1>6, <1>8, <2>1, <3>1
  <2>q. QED
    BY <2>2, <2>3
<1>15. NoPanic'
  <2>1. locked[PTable] = 1 /\ lkcpu[PTable] = c
    BY <1>0, <1>1 DEF IInv, LocksOK, OwnersOK, Mid
  <2>2. Holding(c, PTable)
    BY <2>1 DEF Holding
  <2>q. QED
    BY <1>2, <2>2 DEF SwitchToScheduler, IInv, NoPanic
<1>16. TypeOK'
  <2>1. panic' \in BOOLEAN
    BY DEF SwitchToScheduler
  <2>2. cur' \in [CPUs -> Threads]
    BY <1>1, <1>5 DEF IInv, TypeOK
  <2>3. held' \in [Threads -> SUBSET Locks] /\ saved' \in [Threads -> BOOLEAN]
    BY <1>0, <1>1, <1>5 DEF IInv, TypeOK
  <2>q. QED
    BY <1>5, <1>7, <2>1, <2>2, <2>3 DEF IInv, TypeOK
<1>q. QED
  BY <1>9, <1>10, <1>11, <1>12, <1>13, <1>14, <1>15, <1>16 DEF IInv

(* ptable.lock moves to a process that no CPU runs; interrupts_enabled     *)
(* becomes what that process saved, or is already right in forkret.        *)
LEMMA SwitchToProcessStep ==
    ASSUME IInv, NEW c \in CPUs, NEW p \in Procs, SwitchToProcess(c, p)
    PROVE  IInv'
<1> DEFINE f == Top(c)
           h == Top(p)
           g == [h EXCEPT !.pc = "idle"]
<1>0. /\ cur[c] = c /\ trapped[c] = FALSE /\ f.pc = "idle" /\ held[c] = {PTable}
      /\ \A d \in CPUs : cur[d] # p
      /\ c \in Threads /\ p \in Threads /\ p # c /\ PTable \in Locks
  BY SpinlockAssumption DEF SwitchToProcess, Parked, IInv, TypeOK, Threads
<1>1. /\ h \in Frame /\ g \in Frame /\ g.pc = "idle"
      /\ trapped[p] \in BOOLEAN /\ saved[p] \in BOOLEAN
      /\ ncli[c] \in Nat /\ iflag[c] \in BOOLEAN /\ intena[c] \in BOOLEAN
      /\ Ok(c, FALSE, f, {PTable}, ncli[c], iflag[c], intena[c])
  <2>1. h \in Frame
    BY <1>0, TopType DEF IInv
  <2>2. g \in Frame /\ g.pc = "idle"
    BY <2>1 DEF Frame, PCs
  <2>3. trapped[p] \in BOOLEAN /\ saved[p] \in BOOLEAN
    BY <1>0 DEF IInv, TypeOK
  <2>4. Ok(c, FALSE, f, {PTable}, ncli[c], iflag[c], intena[c])
    BY <1>0, RunningFacts
  <2>q. QED
    BY <2>1, <2>2, <2>3, <2>4, RunningFacts
<1>2. ncli[c] = 1 /\ iflag[c] = FALSE /\ intena[c] = TRUE
  <2>1. ncli[c] = 1 + 0
    BY <1>0, <1>1, LockSets DEF Ok, Nesting
  <2>q. QED
    BY <1>0, <1>1, <2>1 DEF Ok, InBack, Calling, Locking
<1>3. /\ held[p] = {}
      /\ \/ h.pc = "switched" /\ (saved[p] <=> ~trapped[p])
         \/ h.pc = "forkret" /\ ~trapped[p]
  BY <1>0 DEF IInv, OffOK
<1>4. /\ cur' = [cur EXCEPT ![c] = p]
      /\ held' = [held EXCEPT ![c] = {}, ![p] = {PTable}]
      /\ saved' = [saved EXCEPT ![p] = FALSE]
      /\ intena' = [intena EXCEPT ![c] = ~trapped[p]]
      /\ trapped' = trapped /\ below' = below /\ locked' = locked /\ lkcpu' = lkcpu
      /\ ncli' = ncli /\ iflag' = iflag /\ panic' = panic
      /\ SetTop(p, g)
  <2>1. intena' = [intena EXCEPT ![c] = IF h.pc = "switched" THEN saved[p] ELSE intena[c]]
    BY DEF SwitchToProcess
  <2>2. (IF h.pc = "switched" THEN saved[p] ELSE intena[c]) = ~trapped[p]
    BY <1>1, <1>2, <1>3
  <2>q. QED
    BY <2>1, <2>2 DEF SwitchToProcess, Goto
<1>5. /\ cur'[c] = p /\ \A d \in CPUs \ {c} : cur'[d] = cur[d] /\ cur[d] # p /\ cur[d] # c
      /\ held'[p] = {PTable} /\ held'[c] = {}
      /\ \A u \in Threads \ {p, c} : held'[u] = held[u]
      /\ saved'[p] = FALSE /\ \A u \in Threads \ {p} : saved'[u] = saved[u]
      /\ intena'[c] = ~trapped[p] /\ \A d \in CPUs \ {c} : intena'[d] = intena[d]
  BY <1>0, <1>1, <1>4 DEF IInv, TypeOK, Placed
<1>6. /\ frame' \in [Threads -> [1..2 -> Frame]]
      /\ Top(p)' = g
      /\ \A u \in Threads \ {p} : frame'[u] = frame[u] /\ Top(u)' = Top(u)
      /\ ~trapped[p] => frame'[p][2] = frame[p][2]
      /\ trapped[p] => frame'[p][1] = frame[p][1]
  BY <1>0, <1>1, <1>4, TopUpdate DEF IInv
<1>7. Placed'
  BY <1>0, <1>5, SpinlockAssumption DEF IInv, Placed
<1>8. FramesOK'
  BY <1>4, <1>6 DEF IInv, FramesOK
<1>9. OffOK'
  <2> SUFFICES ASSUME NEW u \in Threads, \A d \in CPUs : cur'[d] # u
               PROVE  /\ held'[u] = {}
                      /\ u \in CPUs => ~trapped[u] /\ Top(u)'.pc = "idle"
                      /\ u \in Procs => \/ Top(u)'.pc = "switched" /\ (saved'[u] <=> ~trapped[u])
                                        \/ Top(u)'.pc = "forkret" /\ ~trapped[u]
    BY <1>4 DEF OffOK
  <2>1. u # p
    BY <1>5
  <2>2. CASE u = c
    BY <1>0, <1>5, <1>6, <2>2, SpinlockAssumption
  <2>3. CASE u # c
    <3>1. \A d \in CPUs : cur[d] # u
      BY <1>0, <1>5, <2>3
    <3>q. QED
      BY <1>5, <1>6, <2>1, <2>3, <3>1 DEF IInv, OffOK
  <2>q. QED
    BY <2>2, <2>3
<1>10. ASSUME NEW d \in CPUs PROVE Running(d)'
  <2>1. CASE d = c
    <3>1. Ok(p, trapped[p], g, {PTable}, 1, FALSE, ~trapped[p])
      BY <1>0, <1>1, LockSets DEF Ok, Nesting, InBack, Locking, Calling
    <3>2. Top(cur[d])' = g
      BY <1>4, <1>5, <1>6, <2>1 DEF Top, Level
    <3>3. /\ cur'[d] = p /\ trapped'[cur'[d]] = trapped[p] /\ held'[cur'[d]] = {PTable}
          /\ ncli'[d] = 1 /\ iflag'[d] = FALSE
      BY <1>2, <1>4, <1>5, <2>1
    <3>4. intena'[d] = ~trapped[p]
      BY <1>5, <2>1
    <3>q. QED
      BY <3>1, <3>2, <3>3, <3>4 DEF Running
  <2>2. CASE d # c
    <3>1. cur'[d] = cur[d] /\ cur[d] \in Threads \ {p, c} /\ Running(d)
      BY <1>5, <2>2 DEF IInv, TypeOK
    <3>2. held'[cur[d]] = held[cur[d]] /\ frame'[cur[d]] = frame[cur[d]] /\ intena'[d] = intena[d]
      BY <1>5, <1>6, <2>2, <3>1
    <3>3. Top(cur[d])' = Top(cur[d])
      BY <1>4, <3>1, <3>2 DEF Top, Level
    <3>q. QED
      BY <1>4, <3>1, <3>2, <3>3 DEF Running
  <2>q. QED
    BY <2>1, <2>2
<1>11. LocksOK'
  <2>1. MutualExclusion'
    <3> SUFFICES ASSUME NEW u \in Threads, NEW v \in Threads, u # v
                 PROVE  held'[u] \cap held'[v] = {}
      BY DEF MutualExclusion
    <3>1. \/ /\ held[u] \cap held[v] = {}
             /\ held[u] \cap held[c] = {}
             /\ held[v] \cap held[c] = {}
          \/ u = c
          \/ v = c
      BY <1>0 DEF IInv, LocksOK, MutualExclusion
    <3>q. QED
      BY <1>0, <1>5, <3>1
  <2>2. \A u \in Threads : \A l \in held'[u] : locked[l] = 1
    BY <1>0, <1>5 DEF IInv, LocksOK
  <2>q. QED
    BY <1>4, <2>1, <2>2 DEF LocksOK
<1>12. OwnersOK'
  <2> SUFFICES ASSUME NEW d \in CPUs, NEW l \in Locks
               PROVE  lkcpu[l] = d <=> l \in held'[cur'[d]] /\ ~Mid(Top(cur[d])', l)
    BY <1>4 DEF OwnersOK, Mid
  <2>1. lkcpu[l] = d <=> l \in held[cur[d]] /\ ~Mid(Top(cur[d]), l)
    BY DEF IInv, OwnersOK
  <2>2. CASE d = c
    <3>1. Top(cur[d])' = g
      BY <1>4, <1>5, <1>6, <2>2 DEF Top, Level
    <3>q. QED
      BY <1>0, <1>1, <1>5, <2>1, <2>2, <3>1 DEF Mid
  <2>3. CASE d # c
    <3>1. cur'[d] = cur[d] /\ cur[d] \in Threads \ {p, c}
      BY <1>5, <2>3 DEF IInv, TypeOK
    <3>2. Top(cur[d])' = Top(cur[d])
      BY <1>4, <1>6, <3>1 DEF Top, Level
    <3>q. QED
      BY <1>5, <2>1, <3>1, <3>2
  <2>q. QED
    BY <2>2, <2>3
<1>13. TypeOK' /\ NoPanic'
  BY <1>0, <1>1, <1>4, <1>6 DEF IInv, TypeOK, NoPanic
<1>q. QED
  BY <1>7, <1>8, <1>9, <1>10, <1>11, <1>12, <1>13 DEF IInv

-----------------------------------------------------------------------------
(* Every step of the specification preserves the invariant. *)
LEMMA NextInv == IInv /\ [Next]_vars => IInv'
<1> SUFFICES ASSUME IInv, [Next]_vars PROVE IInv'
  OBVIOUS
<1>1. ASSUME NEW c \in CPUs, Progress(c) PROVE IInv'
  BY <1>1, PushcliStep, AcquireCheckStep, XchgStep, SetOwnerStep, ReleaseCheckStep,
     UnlockStep, PopcliStep DEF Progress
<1>2. ASSUME NEW c \in CPUs, SwitchToScheduler(c) PROVE IInv'
  <2>1. cur[c] \in Procs
    BY <1>2 DEF SwitchToScheduler
  <2>q. QED
    BY <1>2, <2>1, SwitchToSchedulerStep
<1>3. CASE Next
  BY <1>1, <1>2, <1>3, ReadEflagsStep, InterruptStep, IretStep, SchedulerStiStep,
     SwitchToProcessStep DEF Next
<1>4. CASE UNCHANGED vars
  <2>1. /\ TypeOK' /\ Placed' /\ LocksOK' /\ NoPanic'
    BY <1>4 DEF vars, IInv, TypeOK, Placed, LocksOK, MutualExclusion, NoPanic
  <2>2. FramesOK' /\ OffOK'
    BY <1>4 DEF vars, IInv, FramesOK, OffOK, Top, Level
  <2>3. (\A c \in CPUs : Running(c))' /\ OwnersOK'
    BY <1>4 DEF vars, IInv, Running, OwnersOK, Top, Level, Mid
  <2>q. QED
    BY <2>1, <2>2, <2>3 DEF IInv
<1>q. QED
  BY <1>3, <1>4

(* The invariant holds in every reachable state. *)
THEOREM Invariance == Spec => []IInv
  BY InitInv, NextInv, PTL DEF Spec

(* Type correctness.  It is not inductive by itself: the xchg stores into  *)
(* locked[lk] for the lk of the frame, which the invariant says is a lock. *)
THEOREM TypeCorrect == Spec => []TypeOK
<1>1. IInv => TypeOK
  BY DEF IInv
<1>q. QED
  BY <1>1, Invariance, PTL

(* acquire() and release() exclude, for any number of CPUs, processes and  *)
(* locks and across the hand-over of ptable.lock in a context switch.      *)
THEOREM Exclusion == Spec => []MutualExclusion
<1>1. IInv => MutualExclusion
  BY DEF IInv, LocksOK
<1>q. QED
  BY <1>1, Invariance, PTL

(* No ASSERT of acquire, release, popcli or switch_to_scheduler fails. *)
THEOREM AssertsHold == Spec => []NoPanic
<1>1. IInv => NoPanic
  BY DEF IInv
<1>q. QED
  BY <1>1, Invariance, PTL

(* Outside critical sections a process has interrupts off in a handler and *)
(* on outside one, on whichever CPU it runs.                               *)
THEOREM InterruptsFollow == Spec => []InterruptStateFollowsThread
<1>1. IInv => InterruptStateFollowsThread
  <2> SUFFICES ASSUME IInv, NEW c \in CPUs, Top(cur[c]).pc = "idle", held[cur[c]] = {}
               PROVE  iflag[c] <=> ~trapped[cur[c]]
    BY DEF InterruptStateFollowsThread
  <2>1. Ok(cur[c], trapped[cur[c]], Top(cur[c]), {}, ncli[c], iflag[c], intena[c])
    BY RunningFacts
  <2>2. ncli[c] = 0 + 0
    BY <2>1, FS_EmptySet DEF Ok, Nesting
  <2>q. QED
    BY <2>1, <2>2 DEF Ok
<1>q. QED
  BY <1>1, Invariance, PTL

(* A handler never spins on a lock of the code it interrupted, nor a       *)
(* thread on a lock it already holds.                                      *)
THEOREM NeverSpinsOnOwnLock == Spec => []NoSelfDeadlock
<1>1. IInv => NoSelfDeadlock
  <2> SUFFICES ASSUME IInv, NEW c \in CPUs, Top(cur[c]).pc = "spin"
               PROVE  Top(cur[c]).lk \notin held[cur[c]]
    BY DEF NoSelfDeadlock
  <2>q. QED
    BY RunningFacts DEF Ok
<1>q. QED
  BY <1>1, Invariance, PTL
=============================================================================

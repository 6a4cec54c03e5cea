-------------------------- MODULE SchedulerProofs ---------------------------
(***************************************************************************)
(* For any number of CPUs, slots and channels: the run queue holds every   *)
(* RUNNABLE process once, a process runs on one CPU, no exit is lost on a  *)
(* parent in wait(), every process has a parent that can reap it, and the  *)
(* ASSERT of enqueue_task holds at every call.                             *)
(*                                                                         *)
(* The inductive invariant follows ptable.lock over the context switch: a  *)
(* CPU that is back from a process holds the lock, and that process, if it *)
(* is RUNNABLE, is the last of the queue (LockOK, QueueOK), which makes    *)
(* the second enqueue harmless.  It follows a fork over its unlocked part: *)
(* the slot of np is an EMBRYO no other process refers to (ForkOK).        *)
(***************************************************************************)
EXTENDS Scheduler, Integers, TLAPS, SequenceTheorems, WellFoundedInduction

(* Any nonempty set of natural numbers has a least element. *)
LEMMA SmallestExists ==
    ASSUME NEW S \in SUBSET Nat, S # {}
    PROVE  \E x \in S : \A y \in S : x <= y
<1> DEFINE R == OpToRel(<, Nat)
<1>1. IsWellFoundedOn(R, Nat)
  BY NatLessThanWellFounded
<1>2. PICK x \in S : \A y \in S : ~ (<<y, x>> \in R)
  <2> HIDE DEF R
  <2>q. QED
    BY <1>1, WFMin
<1>3. \A y \in S : ~ (y < x)
  BY <1>2 DEF OpToRel
<1>q. QED
  BY <1>3

LockOK ==
    /\ \A c \in CPUs :
          /\ at[c] = "loop" <=> proc[c] = nullptr
          /\ at[c] = "back" => ptlock = c /\ state[proc[c]] \in {"SLEEPING", "RUNNABLE", "ZOMBIE"}
          /\ ptlock = c => at[c] # "loop"
    /\ \A c, d \in CPUs : proc[c] = proc[d] /\ proc[c] # nullptr => c = d

RunningOK ==
    \A s \in Slots : state[s] = "RUNNING" <=> \E c \in CPUs : at[c] = "proc" /\ proc[c] = s

Distinct(q) == \A i, j \in 1..Len(q) : q[i] = q[j] => i = j
Runnable == {s \in Slots : state[s] = "RUNNABLE"}

QueueOK ==
    /\ Elements(rq) = Runnable
    /\ Distinct(rq.order)
    /\ \A c \in CPUs : at[c] = "back" /\ state[proc[c]] = "RUNNABLE" => IsLast(rq, proc[c])

ForkOK ==
    /\ \A p \in Slots :
          /\ np[p] # nullptr <=> pc[p] \in {"embryo", "publish"}
          /\ np[p] # nullptr => state[np[p]] = "EMBRYO"
          /\ pc[p] = "publish" => parent[np[p]] = p
    /\ \A p, q \in Slots : np[p] = np[q] /\ np[p] # nullptr => p = q

SlotsOK ==
    \A s \in Slots :
        /\ state[s] \in {"UNUSED", "EMBRYO", "ZOMBIE"} => pc[s] \in {"gone", "forkret"}
        /\ state[s] = "SLEEPING" => pc[s] \in {"waiting", "asleep"}

WaitOK ==
    \A s \in Slots : state[s] = "SLEEPING" /\ pc[s] = "waiting" =>
        /\ chan[s] = s
        /\ ~killed[s]
        /\ \A z \in Slots : parent[z] = s => state[z] # "ZOMBIE"

IInv ==
    /\ TypeOK
    /\ LockOK
    /\ RunningOK
    /\ QueueOK
    /\ ForkOK
    /\ SlotsOK
    /\ WaitOK

(* The slot of init is never allocated again, and nobody is its own child. *)
FamilyOK ==
    /\ parent[initproc] = nullptr
    /\ state[initproc] \notin {"UNUSED", "EMBRYO"}
    /\ \A s \in Slots : parent[s] # s

(* While nobody kills init: it lives, and inherits. *)
Alive(s) == state[s] \notin {"UNUSED", "EMBRYO", "ZOMBIE"}

InitOK ==
    /\ pid[initproc] = 1 /\ nextpid > 1
    /\ ~killed[initproc]
    /\ pc[initproc] # "exit"
    /\ Alive(initproc)

ParentOK ==
    \A s \in Slots \ {initproc} : state[s] \notin {"UNUSED", "EMBRYO"} =>
        parent[s] \in Slots /\ Alive(parent[s])

InitInv == InitOK /\ ParentOK /\ ~panic

-----------------------------------------------------------------------------
(* The slot that alloc_proc, wait() or kill() finds first. *)
LEMMA FirstSlot ==
    ASSUME NEW S \in SUBSET Slots, S # {}
    PROVE  Min(S) \in S
<1>1. \E x \in S : \A y \in S : x <= y
  BY SmallestExists DEF Slots
<1>q. QED
  BY <1>1 DEF Min

-----------------------------------------------------------------------------
(* What the operations of the queue do to its elements and their order.    *)
LEMMA NewOrder ==
    ASSUME NEW q \in Queue, NEW o \in Seq(Tasks)
    PROVE  [q EXCEPT !.order = o] \in Queue /\ [q EXCEPT !.order = o].order = o
  BY DEF Queue

(* enqueue_task of a task that is not queued adds it, as the last, and     *)
(* its next is null.                                                       *)
LEMMA EnqueueNew ==
    ASSUME NEW q \in Queue, NEW t \in Tasks, t \notin Elements(q), Distinct(q.order)
    PROVE  /\ Enqueue(q, t) \in Queue
           /\ Elements(Enqueue(q, t)) = Elements(q) \cup {t}
           /\ Distinct(Enqueue(q, t).order)
           /\ IsLast(Enqueue(q, t), t)
           /\ NextIsNull(q, t)
<1>1. PICK o \in Seq(Tasks) : o = q.order
  BY DEF Queue
<1>2. \A i \in 1..Len(o) : o[i] # t
  BY <1>1 DEF Elements
<1>3. ~IsLast(q, t)
  BY <1>1, <1>2 DEF IsLast
<1>4. PICK e \in Queue : e = Enqueue(q, t) /\ e.order = Append(o, t)
  <2>1. Append(o, t) \in Seq(Tasks) /\ Enqueue(q, t) = [q EXCEPT !.order = Append(o, t)]
    BY <1>1, <1>3 DEF Enqueue
  <2>q. QED
    BY <2>1, NewOrder
<1>5. /\ Append(o, t) \in Seq(Tasks) /\ Len(Append(o, t)) = Len(o) + 1 /\ Len(o) \in Nat
      /\ Append(o, t)[Len(o) + 1] = t
      /\ \A i \in 1..Len(o) : Append(o, t)[i] = o[i]
  OBVIOUS
<1>6. Distinct(e.order)
  BY <1>1, <1>2, <1>4, <1>5 DEF Distinct
<1>7. Elements(e) = Elements(q) \cup {t}
  <2>1. \A i \in 1..(Len(o) + 1) : i \in 1..Len(o) \/ i = Len(o) + 1
    BY <1>5
  <2>2. Len(o) + 1 \in 1..(Len(o) + 1) /\ 1..Len(o) \subseteq 1..(Len(o) + 1)
    BY <1>5
  <2>q. QED
    BY <1>1, <1>4, <1>5, <2>1, <2>2 DEF Elements
<1>8. IsLast(e, t)
  BY <1>4, <1>5 DEF IsLast
<1>q. QED
  BY <1>4, <1>6, <1>7, <1>8 DEF NextIsNull

(* The second enqueue of the task that is last already. *)
LEMMA EnqueueAgain ==
    ASSUME NEW q \in Queue, NEW t \in Tasks, IsLast(q, t)
    PROVE  /\ Enqueue(q, t) \in Queue
           /\ Enqueue(q, t).order = q.order
           /\ NextIsNull(q, t)
  BY MaxAheadAssumption DEF Enqueue, Queue, NextIsNull

(* dequeue_task removes the first and nothing else. *)
LEMMA DequeueFirst ==
    ASSUME NEW q \in Queue, q.order # <<>>, Distinct(q.order)
    PROVE  /\ Dequeue(q) \in Queue
           /\ Head(q.order) \in Elements(q)
           /\ Elements(Dequeue(q)) = Elements(q) \ {Head(q.order)}
           /\ Distinct(Dequeue(q).order)
<1>1. PICK o \in Seq(Tasks) : o = q.order /\ o # <<>>
  BY DEF Queue
<1>2. PICK e \in Queue : e = Dequeue(q) /\ e.order = Tail(o)
  <2>1. Tail(o) \in Seq(Tasks) /\ Dequeue(q) = [q EXCEPT !.order = Tail(o)]
    BY <1>1 DEF Dequeue
  <2>q. QED
    BY <2>1, NewOrder
<1>3. /\ Len(o) \in Nat \ {0} /\ Head(o) = o[1]
      /\ Len(Tail(o)) = Len(o) - 1
      /\ \A i \in 1..(Len(o) - 1) : Tail(o)[i] = o[i + 1]
  BY <1>1
<1>4. \A i, j \in 1..Len(o) : o[i] = o[j] => i = j
  BY <1>1 DEF Distinct
<1>5. Distinct(e.order)
  <2>1. ASSUME NEW i \in 1..(Len(o) - 1), NEW j \in 1..(Len(o) - 1), Tail(o)[i] = Tail(o)[j]
        PROVE  i = j
    <3>1. i + 1 \in 1..Len(o) /\ j + 1 \in 1..Len(o) /\ o[i + 1] = o[j + 1]
      BY <1>3, <2>1
    <3>2. i + 1 = j + 1
      BY <1>4, <3>1
    <3>q. QED
      BY <3>2
  <2>2. Len(e.order) = Len(o) - 1 /\ \A i \in 1..(Len(o) - 1) : e.order[i] = Tail(o)[i]
    BY <1>2, <1>3
  <2>3. \A i, j \in 1..Len(e.order) : e.order[i] = e.order[j] => i = j
    BY <2>1, <2>2
  <2>q. QED
    BY <2>3 DEF Distinct
<1>6. Elements(e) = Elements(q) \ {Head(o)}
  <2>1. ASSUME NEW i \in 1..(Len(o) - 1)
        PROVE  i + 1 \in 1..Len(o) /\ o[i + 1] # Head(o) /\ Tail(o)[i] = o[i + 1]
    <3>1. i + 1 \in 1..Len(o) /\ 1 \in 1..Len(o) /\ i + 1 # 1
      BY <1>3
    <3>q. QED
      BY <1>3, <1>4, <3>1
  <2>2. ASSUME NEW i \in 1..Len(o), o[i] # Head(o)
        PROVE  i - 1 \in 1..(Len(o) - 1) /\ Tail(o)[i - 1] = o[i]
    <3>1. i # 1
      BY <1>3, <2>2
    <3>2. i - 1 \in 1..(Len(o) - 1) /\ (i - 1) + 1 = i
      BY <1>3, <3>1
    <3>q. QED
      BY <1>3, <3>2
  <2>3. Elements(e) = {Tail(o)[i] : i \in 1..(Len(o) - 1)} /\ Elements(q) = {o[i] : i \in 1..Len(o)}
    BY <1>1, <1>2, <1>3 DEF Elements
  <2>4. ASSUME NEW x \in Elements(e) PROVE x \in Elements(q) \ {Head(o)}
    BY <2>1, <2>3
  <2>5. ASSUME NEW x \in Elements(q) \ {Head(o)} PROVE x \in Elements(e)
    BY <2>2, <2>3
  <2>q. QED
    BY <2>4, <2>5
<1>7. Head(o) \in Elements(q)
  BY <1>1, <1>3 DEF Elements
<1>q. QED
  BY <1>1, <1>2, <1>5, <1>6, <1>7

(* wakeup_locked appends the sleepers, in whatever order. *)
LEMMA EnqueueSleepers ==
    ASSUME NEW q \in Queue, NEW S \in SUBSET Slots, NEW o \in Orders(S),
           S \cap Elements(q) = {}, Distinct(q.order)
    PROVE  /\ EnqueueAll(q, o) \in Queue
           /\ Elements(EnqueueAll(q, o)) = Elements(q) \cup S
           /\ Distinct(EnqueueAll(q, o).order)
           /\ \A s \in S : NextIsNull(q, s)
<1> Tasks = Slots /\ NPROC \in Nat
  BY SchedulerAssumption
<1>1. PICK r \in Seq(Slots) : r = q.order
  BY DEF Queue
<1>2. PICK n \in 0..NPROC : o \in [1..n -> S]
  BY DEF Orders
<1>3. /\ \A i, j \in 1..n : o[i] = o[j] => i = j
      /\ \A s \in S : \E i \in 1..n : o[i] = s
      /\ o \in Seq(Slots) /\ Len(o) = n
  <2>1. DOMAIN o = 1..n
    BY <1>2
  <2>2. o \in Seq(Slots) /\ Len(o) = n
    <3>1. o \in [1..n -> Slots] /\ n \in Nat
      BY <1>2
    <3>2. o \in Seq(Slots)
      BY <3>1, IsASeq
    <3>q. QED
      BY <2>1, <3>1, <3>2, LenProperties
  <2>q. QED
    BY <2>1, <2>2 DEF Orders
<1>4. PICK e \in Queue : e = EnqueueAll(q, o) /\ e.order = r \o o
  <2>1. r \o o \in Seq(Tasks)
    BY <1>1, <1>3
  <2>q. QED
    BY <1>1, <2>1, NewOrder DEF EnqueueAll
<1>5. /\ Len(r) \in Nat /\ Len(r \o o) = Len(r) + n
      /\ \A i \in 1..(Len(r) + n) : (r \o o)[i] = IF i <= Len(r) THEN r[i] ELSE o[i - Len(r)]
  <2>1. Len(r) \in Nat /\ n \in Nat /\ Len(o) = n
    BY <1>1, <1>3
  <2>2. /\ Len(r \o o) = Len(r) + Len(o)
        /\ \A i \in 1..(Len(r) + Len(o)) : (r \o o)[i] = IF i <= Len(r) THEN r[i] ELSE o[i - Len(r)]
    <3>1. r \in Seq(Slots) /\ o \in Seq(Slots)
      BY <1>3
    <3> HIDE DEF Slots
    <3>q. QED
      BY <3>1, ConcatProperties
  <2>q. QED
    BY <2>1, <2>2
<1>6. /\ \A i \in 1..Len(r) : r[i] \in Elements(q)
      /\ \A i, j \in 1..Len(r) : r[i] = r[j] => i = j
      /\ \A i \in 1..n : o[i] \in S
  BY <1>1, <1>2 DEF Elements, Distinct
<1>7. Distinct(e.order)
  <2>1. ASSUME NEW i \in 1..(Len(r) + n), NEW j \in 1..(Len(r) + n), (r \o o)[i] = (r \o o)[j]
        PROVE  i = j
    <3>1. CASE i <= Len(r) /\ j <= Len(r)
      <4>1. i \in 1..Len(r) /\ j \in 1..Len(r)
        BY <1>5, <3>1
      <4>q. QED
        BY <1>5, <1>6, <2>1, <3>1, <4>1
    <3>2. CASE i <= Len(r) /\ j > Len(r)
      <4>1. i \in 1..Len(r) /\ j - Len(r) \in 1..n /\ ~(j <= Len(r))
        BY <1>5, <3>2
      <4>2. r[i] = o[j - Len(r)]
        BY <1>5, <2>1, <3>2, <4>1
      <4>q. QED
        BY <1>6, <4>1, <4>2
    <3>3. CASE i > Len(r) /\ j <= Len(r)
      <4>1. j \in 1..Len(r) /\ i - Len(r) \in 1..n /\ ~(i <= Len(r))
        BY <1>5, <3>3
      <4>2. r[j] = o[i - Len(r)]
        BY <1>5, <2>1, <3>3, <4>1
      <4>q. QED
        BY <1>6, <4>1, <4>2
    <3>4. CASE i > Len(r) /\ j > Len(r)
      <4>1. i - Len(r) \in 1..n /\ j - Len(r) \in 1..n /\ ~(i <= Len(r)) /\ ~(j <= Len(r))
        BY <1>5, <3>4
      <4>2. o[i - Len(r)] = o[j - Len(r)]
        BY <1>5, <2>1, <4>1
      <4>3. i - Len(r) = j - Len(r)
        BY <1>3, <4>1, <4>2
      <4>q. QED
        BY <1>5, <4>3
    <3>q. QED
      BY <1>5, <3>1, <3>2, <3>3, <3>4
  <2>q. QED
    BY <1>4, <1>5, <2>1 DEF Distinct
<1>8. Elements(e) = Elements(q) \cup S
  <2>1. Elements(e) = {(r \o o)[i] : i \in 1..(Len(r) + n)} /\ Elements(q) = {r[i] : i \in 1..Len(r)}
    BY <1>1, <1>4, <1>5 DEF Elements
  <2>2. ASSUME NEW i \in 1..(Len(r) + n) PROVE (r \o o)[i] \in Elements(q) \cup S
    <3>1. CASE i <= Len(r)
      <4>1. i \in 1..Len(r)
        BY <1>5, <3>1
      <4>q. QED
        BY <1>5, <1>6, <3>1, <4>1
    <3>2. CASE i > Len(r)
      <4>1. i - Len(r) \in 1..n /\ ~(i <= Len(r))
        BY <1>5, <3>2
      <4>q. QED
        BY <1>5, <1>6, <4>1
    <3>q. QED
      BY <1>5, <3>1, <3>2
  <2>3. ASSUME NEW i \in 1..Len(r) PROVE r[i] \in Elements(e)
    <3>1. i \in 1..(Len(r) + n) /\ i <= Len(r)
      BY <1>5
    <3>q. QED
      BY <1>5, <2>1, <3>1
  <2>4. ASSUME NEW s \in S PROVE s \in Elements(e)
    <3>1. PICK i \in 1..n : o[i] = s
      BY <1>3
    <3>2. Len(r) + i \in 1..(Len(r) + n) /\ ~(Len(r) + i <= Len(r)) /\ (Len(r) + i) - Len(r) = i
      BY <1>5
    <3>q. QED
      BY <1>5, <2>1, <3>1, <3>2
  <2>q. QED
    BY <2>1, <2>2, <2>3, <2>4
<1>q. QED
  BY <1>4, <1>7, <1>8 DEF NextIsNull

-----------------------------------------------------------------------------
(* A CPU outside scheduler() runs a RUNNING process; while the lock is     *)
(* free, or held by a CPU that runs a process, no CPU is back from one.    *)
LEMMA OnCpu ==
    ASSUME IInv, NEW c \in CPUs, at[c] = "proc"
    PROVE  proc[c] \in Slots /\ state[proc[c]] = "RUNNING"
<1>1. proc[c] # nullptr
  BY DEF IInv, LockOK
<1>2. proc[c] \in Slots
  BY <1>1 DEF IInv, TypeOK
<1>q. QED
  BY <1>2 DEF IInv, RunningOK

(* While nobody, or a process, holds ptable.lock, no CPU is on its way     *)
(* back to scheduler().                                                    *)
LEMMA NoneBack ==
    ASSUME IInv, ptlock = nullptr \/ \E c \in CPUs : ptlock = c /\ at[c] = "proc"
    PROVE  \A d \in CPUs : at[d] # "back"
<1>1. nullptr \notin CPUs
  BY SchedulerAssumption
<1>q. QED
  BY <1>1 DEF IInv, LockOK

(* The parts of the invariant a step leaves alone. *)
LEMMA LockKept ==
    ASSUME IInv, ptlock' = ptlock, proc' = proc, at' = at,
           \A c \in CPUs : at[c] = "back" => state'[proc[c]] = state[proc[c]]
    PROVE  LockOK'
  BY DEF IInv, LockOK

(* ptable.lock may be dropped when no CPU is on its way back. *)
LEMMA LockDropped ==
    ASSUME IInv, ptlock' = nullptr, proc' = proc, at' = at, \A c \in CPUs : at[c] # "back"
    PROVE  LockOK'
<1>1. nullptr \notin CPUs
  BY SchedulerAssumption
<1>q. QED
  BY <1>1 DEF IInv, LockOK

(* The CPUs run the RUNNING processes, if neither changes. *)
LEMMA RunningKept ==
    ASSUME IInv, proc' = proc, at' = at,
           \A s \in Slots : state'[s] = "RUNNING" <=> state[s] = "RUNNING"
    PROVE  RunningOK'
  BY DEF IInv, RunningOK

(* The queue holds the RUNNABLE processes, if neither changes. *)
LEMMA QueueKept ==
    ASSUME IInv, proc' = proc, at' = at, rq' = rq,
           \A s \in Slots : state'[s] = "RUNNABLE" <=> state[s] = "RUNNABLE"
    PROVE  QueueOK'
<1>1. Runnable' = Runnable
  BY DEF Runnable
<1>2. ASSUME NEW c \in CPUs, at[c] = "back"
      PROVE  state'[proc[c]] = "RUNNABLE" <=> state[proc[c]] = "RUNNABLE"
  <2>1. proc[c] \in Slots
    BY <1>2 DEF IInv, TypeOK, LockOK
  <2>q. QED
    BY <2>1
<1>q. QED
  BY <1>1, <1>2 DEF IInv, QueueOK

(* A fork under way keeps its child when nobody touches it. *)
LEMMA ForkKept ==
    ASSUME IInv, np' = np,
           \A s \in Slots : state[s] = "EMBRYO" => state'[s] = "EMBRYO",
           \A s \in Slots : pc'[s] \in {"embryo", "publish"} <=> pc[s] \in {"embryo", "publish"},
           \A s \in Slots : pc'[s] = "publish" => pc[s] = "publish" /\ parent'[np[s]] = parent[np[s]]
    PROVE  ForkOK'
<1>1. \A s \in Slots : np[s] # nullptr => np[s] \in Slots
  BY DEF IInv, TypeOK
<1>q. QED
  BY <1>1 DEF IInv, ForkOK

-----------------------------------------------------------------------------
(* A running process moves on without touching the table: system calls,    *)
(* interrupts, and the ends of sleep(), yield() and wait().                *)
LEMMA LocalStep ==
    ASSUME IInv, NEW p \in Slots, state[p] = "RUNNING", NEW where \in PCs,
           state' = state, parent' = parent, np' = np, proc' = proc, at' = at, rq' = rq,
           pc' = [pc EXCEPT ![p] = where],
           {where, pc[p]} \cap {"embryo", "publish"} # {} => where = pc[p],
           \A s \in Slots \ {p} : chan'[s] = chan[s] /\ killed'[s] = killed[s]
    PROVE  RunningOK' /\ QueueOK' /\ ForkOK' /\ SlotsOK' /\ WaitOK'
<1> /\ ptlock \in CPUs \cup {nullptr}
    /\ state \in [Slots -> States] /\ pid \in [Slots -> 0..MaxPid]
    /\ parent \in [Slots -> Slots \cup {nullptr}]
    /\ killed \in [Slots -> BOOLEAN] /\ chan \in [Slots -> Slots \cup Chans \cup {nullptr}]
    /\ pc \in [Slots -> PCs] /\ np \in [Slots -> Slots \cup {nullptr}]
    /\ proc \in [CPUs -> Slots \cup {nullptr}] /\ at \in [CPUs -> {"loop", "proc", "back"}]
    /\ nullptr \notin Slots /\ nullptr \notin CPUs
  BY SchedulerAssumption DEF IInv, TypeOK
<1>1. \A s \in Slots : /\ s # p => pc'[s] = pc[s]
                       /\ pc'[s] \in {"embryo", "publish"} <=> pc[s] \in {"embryo", "publish"}
                       /\ pc'[s] = "publish" => pc[s] = "publish"
  OBVIOUS
<1>2. RunningOK'
  BY RunningKept
<1>3. QueueOK'
  BY QueueKept
<1>4. ForkOK'
  BY <1>1, ForkKept
<1>5. SlotsOK'
  BY <1>1 DEF IInv, SlotsOK
<1>6. WaitOK'
  BY <1>1 DEF IInv, WaitOK
<1>q. QED
  BY <1>2, <1>3, <1>4, <1>5, <1>6

(* A process comes back from switch_context. *)
LEMMA ResumeInv ==
    ASSUME IInv, NEW c \in CPUs, Resume(c)
    PROVE  IInv'
<1> /\ ptlock \in CPUs \cup {nullptr}
    /\ state \in [Slots -> States] /\ pid \in [Slots -> 0..MaxPid]
    /\ parent \in [Slots -> Slots \cup {nullptr}]
    /\ killed \in [Slots -> BOOLEAN] /\ chan \in [Slots -> Slots \cup Chans \cup {nullptr}]
    /\ pc \in [Slots -> PCs] /\ np \in [Slots -> Slots \cup {nullptr}]
    /\ proc \in [CPUs -> Slots \cup {nullptr}] /\ at \in [CPUs -> {"loop", "proc", "back"}]
    /\ nullptr \notin Slots /\ nullptr \notin CPUs
  BY SchedulerAssumption DEF IInv, TypeOK
<1>1. PICK p \in Slots : p = proc[c] /\ state[p] = "RUNNING"
  BY OnCpu DEF Resume
<1>2. PICK where \in PCs : /\ pc' = [pc EXCEPT ![p] = where]
                           /\ {where, pc[p]} \cap {"embryo", "publish"} # {} => where = pc[p]
  <2>1. CASE yielding[p] /\ pc[p] = "user"
    BY <1>1, <2>1 DEF Resume, Goto, LeaveKernel, PCs
  <2>2. CASE yielding[p] /\ pc[p] # "user"
    <3>1. pc' = [pc EXCEPT ![p] = pc[p]]
      BY <1>1, <2>2 DEF Resume, Goto
    <3>2. pc[p] \in PCs
      OBVIOUS
    <3>q. QED
      BY <3>1, <3>2
  <2>3. CASE ~yielding[p] /\ pc[p] = "forkret"
    BY <1>1, <2>3 DEF Resume, Goto, PCs
  <2>4. CASE ~yielding[p] /\ pc[p] = "asleep"
    BY <1>1, <2>4 DEF Resume, Goto, PCs
  <2>5. yielding[p] \/ pc[p] \in {"forkret", "asleep"}
    BY <1>1 DEF Resume
  <2>q. QED
    BY <2>1, <2>2, <2>3, <2>4, <2>5
<1>3. /\ ptlock' = nullptr /\ at[c] = "proc" /\ ptlock = c
      /\ state' = state /\ parent' = parent /\ killed' = killed
      /\ np' = np /\ proc' = proc /\ at' = at /\ rq' = rq /\ pid' = pid
      /\ nextpid' = nextpid /\ slice' = slice /\ panic' = panic
      /\ yielding' = [yielding EXCEPT ![p] = FALSE]
      /\ \A s \in Slots \ {p} : chan'[s] = chan[s]
  BY <1>1 DEF Resume, cpuVars
<1>4. chan' \in [Slots -> Slots \cup Chans \cup {nullptr}]
  BY <1>1 DEF Resume
<1>5. TypeOK'
  BY <1>2, <1>3, <1>4 DEF IInv, TypeOK
<1>6. LockOK'
  BY <1>3, NoneBack, LockDropped
<1>q. QED
  BY <1>1, <1>2, <1>3, <1>5, <1>6, LocalStep DEF IInv

(* The same for a step that leaves ptable.lock alone. *)
LEMMA UnlockedStep ==
    ASSUME IInv, NEW c \in CPUs, at[c] = "proc", NEW where \in PCs,
           pc' = [pc EXCEPT ![proc[c]] = where],
           {where, pc[proc[c]]} \cap {"embryo", "publish"} # {} => where = pc[proc[c]],
           \A s \in Slots \ {proc[c]} : killed'[s] = killed[s],
           killed' \in [Slots -> BOOLEAN], yielding' \in [Slots -> BOOLEAN],
           slice' \in [CPUs -> 0..TIME_SLICE_TICKS],
           ptlock' = ptlock, state' = state, pid' = pid, parent' = parent, chan' = chan,
           nextpid' = nextpid, np' = np, proc' = proc, at' = at, rq' = rq, panic' = panic
    PROVE  IInv'
<1>1. PICK p \in Slots : p = proc[c] /\ state[p] = "RUNNING"
  BY OnCpu
<1>2. TypeOK'
  BY <1>1 DEF IInv, TypeOK
<1>3. LockOK'
  BY LockKept
<1>4. RunningOK' /\ QueueOK' /\ ForkOK' /\ SlotsOK' /\ WaitOK'
  BY <1>1, LocalStep
<1>q. QED
  BY <1>2, <1>3, <1>4 DEF IInv

(* Entry to and return from the kernel. *)
LEMMA SyscallInv ==
    ASSUME IInv, NEW c \in CPUs, NEW p \in Slots,
           EnterSyscall(c, p) \/ ReturnToUser(c, p) \/ Exception(c, p) \/ SysExit(c, p)
    PROVE  IInv'
<1> /\ ptlock \in CPUs \cup {nullptr}
    /\ state \in [Slots -> States] /\ pid \in [Slots -> 0..MaxPid]
    /\ parent \in [Slots -> Slots \cup {nullptr}]
    /\ killed \in [Slots -> BOOLEAN] /\ chan \in [Slots -> Slots \cup Chans \cup {nullptr}]
    /\ pc \in [Slots -> PCs] /\ np \in [Slots -> Slots \cup {nullptr}]
    /\ proc \in [CPUs -> Slots \cup {nullptr}] /\ at \in [CPUs -> {"loop", "proc", "back"}]
    /\ nullptr \notin Slots /\ nullptr \notin CPUs
  BY SchedulerAssumption DEF IInv, TypeOK
<1>1. /\ at[c] = "proc" /\ proc[c] = p /\ pc[p] \in {"user", "sys"}
      /\ ptlock' = ptlock /\ state' = state /\ pid' = pid /\ parent' = parent /\ chan' = chan
      /\ nextpid' = nextpid /\ np' = np /\ yielding' = yielding /\ proc' = proc /\ at' = at
      /\ slice' = slice /\ rq' = rq /\ panic' = panic
  BY DEF EnterSyscall, ReturnToUser, Exception, SysExit, Runs, procVars, cpuVars
<1>2. PICK where \in {"user", "sys", "exit"} : pc' = [pc EXCEPT ![p] = where]
  BY DEF EnterSyscall, ReturnToUser, Exception, SysExit, Goto, LeaveKernel
<1>3. killed' = killed \/ killed' = [killed EXCEPT ![p] = TRUE]
  BY DEF EnterSyscall, ReturnToUser, Exception, SysExit, procVars
<1>4. /\ \A s \in Slots \ {p} : killed'[s] = killed[s]
      /\ killed' \in [Slots -> BOOLEAN]
  BY <1>3
<1>5. yielding' \in [Slots -> BOOLEAN] /\ slice' \in [CPUs -> 0..TIME_SLICE_TICKS]
  BY <1>1 DEF IInv, TypeOK
<1>6. where \in PCs /\ {where, pc[p]} \cap {"embryo", "publish"} = {}
  BY <1>1, <1>2 DEF PCs
<1>q. QED
  BY <1>1, <1>2, <1>4, <1>5, <1>6, UnlockedStep

(* sys_yield puts the process at the end of the queue. *)
LEMMA SysYieldInv ==
    ASSUME IInv, NEW c \in CPUs, NEW p \in Slots, SysYield(c, p)
    PROVE  IInv'
<1> /\ ptlock \in CPUs \cup {nullptr}
    /\ state \in [Slots -> States] /\ pid \in [Slots -> 0..MaxPid]
    /\ parent \in [Slots -> Slots \cup {nullptr}]
    /\ killed \in [Slots -> BOOLEAN] /\ chan \in [Slots -> Slots \cup Chans \cup {nullptr}]
    /\ pc \in [Slots -> PCs] /\ np \in [Slots -> Slots \cup {nullptr}]
    /\ proc \in [CPUs -> Slots \cup {nullptr}] /\ at \in [CPUs -> {"loop", "proc", "back"}]
    /\ nullptr \notin Slots /\ nullptr \notin CPUs
  BY SchedulerAssumption DEF IInv, TypeOK
<1>1. /\ at[c] = "proc" /\ proc[c] = p
      /\ ptlock' = ptlock /\ state' = state /\ pid' = pid /\ parent' = parent /\ chan' = chan
      /\ nextpid' = nextpid /\ np' = np /\ proc' = proc /\ at' = at /\ killed' = killed
      /\ slice' = slice /\ rq' = rq /\ panic' = panic /\ pc' = pc
  BY DEF SysYield, Runs, procVars, cpuVars
<1>2. pc' = [pc EXCEPT ![p] = pc[p]] /\ pc[p] \in PCs
  BY <1>1
<1>3. yielding' \in [Slots -> BOOLEAN]
  BY DEF SysYield, IInv, TypeOK
<1>4. slice' \in [CPUs -> 0..TIME_SLICE_TICKS]
  BY <1>1 DEF IInv, TypeOK
<1>q. QED
  BY <1>1, <1>2, <1>3, <1>4, UnlockedStep

(* The timer interrupt may set `yielding', or send a killed process to     *)
(* exit().                                                                 *)
LEMMA TimerInv ==
    ASSUME IInv, NEW c \in CPUs, Timer(c)
    PROVE  IInv'
<1> /\ ptlock \in CPUs \cup {nullptr}
    /\ state \in [Slots -> States] /\ pid \in [Slots -> 0..MaxPid]
    /\ parent \in [Slots -> Slots \cup {nullptr}]
    /\ killed \in [Slots -> BOOLEAN] /\ chan \in [Slots -> Slots \cup Chans \cup {nullptr}]
    /\ pc \in [Slots -> PCs] /\ np \in [Slots -> Slots \cup {nullptr}]
    /\ proc \in [CPUs -> Slots \cup {nullptr}] /\ at \in [CPUs -> {"loop", "proc", "back"}]
    /\ nullptr \notin Slots /\ nullptr \notin CPUs
  BY SchedulerAssumption DEF IInv, TypeOK
<1>1. /\ at[c] = "proc"
      /\ ptlock' = ptlock /\ state' = state /\ pid' = pid /\ parent' = parent /\ chan' = chan
      /\ nextpid' = nextpid /\ np' = np /\ proc' = proc /\ at' = at /\ killed' = killed
      /\ rq' = rq /\ panic' = panic
  BY DEF Timer, procVars
<1>2. PICK p \in Slots : p = proc[c]
  BY <1>1, OnCpu
<1>3. PICK where \in PCs : /\ pc' = [pc EXCEPT ![p] = where]
                           /\ where = pc[p] \/ (pc[p] = "user" /\ where = "exit")
  <2>1. CASE killed[p] /\ pc[p] = "user"
    BY <1>2, <2>1 DEF Timer, Goto, PCs
  <2>2. CASE ~(killed[p] /\ pc[p] = "user")
    <3>1. pc' = [pc EXCEPT ![p] = pc[p]]
      BY <1>2, <2>2 DEF Timer, Goto
    <3>q. QED
      BY <3>1
  <2>q. QED
    BY <2>1, <2>2
<1>4. yielding' \in [Slots -> BOOLEAN]
  BY <1>2 DEF Timer, IInv, TypeOK
<1>5. slice' \in [CPUs -> 0..TIME_SLICE_TICKS]
  <2>1. slice \in [CPUs -> 0..TIME_SLICE_TICKS] /\ TIME_SLICE_TICKS \in Nat
    BY SchedulerAssumption DEF IInv, TypeOK
  <2> DEFINE left == IF slice[c] > 0 THEN slice[c] - 1 ELSE 0
  <2>2. left \in 0..TIME_SLICE_TICKS
    BY <2>1
  <2>3. slice' = [slice EXCEPT ![c] = left] \/ slice' = [slice EXCEPT ![c] = TIME_SLICE_TICKS]
    BY <1>2 DEF Timer
  <2> HIDE DEF left
  <2>4. PICK n \in 0..TIME_SLICE_TICKS : slice' = [slice EXCEPT ![c] = n]
    BY <2>1, <2>2, <2>3
  <2>q. QED
    BY <2>1, <2>4
<1>6. {where, pc[p]} \cap {"embryo", "publish"} # {} => where = pc[p]
  BY <1>3
<1>q. QED
  BY <1>1, <1>2, <1>3, <1>4, <1>5, <1>6, UnlockedStep

-----------------------------------------------------------------------------
(* scheduler() takes the first process of the queue and keeps the lock. *)
LEMMA DispatchInv ==
    ASSUME IInv, NEW c \in CPUs, Dispatch(c)
    PROVE  IInv'
<1> /\ ptlock \in CPUs \cup {nullptr}
    /\ state \in [Slots -> States] /\ pid \in [Slots -> 0..MaxPid]
    /\ parent \in [Slots -> Slots \cup {nullptr}]
    /\ killed \in [Slots -> BOOLEAN] /\ chan \in [Slots -> Slots \cup Chans \cup {nullptr}]
    /\ pc \in [Slots -> PCs] /\ np \in [Slots -> Slots \cup {nullptr}]
    /\ proc \in [CPUs -> Slots \cup {nullptr}] /\ at \in [CPUs -> {"loop", "proc", "back"}]
    /\ nullptr \notin Slots /\ nullptr \notin CPUs
  BY SchedulerAssumption DEF IInv, TypeOK
<1>1. rq \in Queue /\ Tasks = Slots /\ Distinct(rq.order) /\ rq.order # <<>>
  BY SchedulerAssumption DEF IInv, TypeOK, QueueOK, Dispatch
<1>2. PICK p \in Slots : p = Head(rq.order) /\ state[p] = "RUNNABLE" /\ p \in Elements(rq)
  BY <1>1, DequeueFirst DEF IInv, QueueOK, Runnable
<1>3. /\ at[c] = "loop" /\ ptlock = nullptr /\ ptlock' = c
      /\ rq' = Dequeue(rq)
      /\ proc' = [proc EXCEPT ![c] = p]
      /\ state' = [state EXCEPT ![p] = "RUNNING"]
      /\ slice' = [slice EXCEPT ![c] = TIME_SLICE_TICKS]
      /\ at' = [at EXCEPT ![c] = "proc"]
      /\ pid' = pid /\ parent' = parent /\ killed' = killed /\ chan' = chan
      /\ nextpid' = nextpid /\ pc' = pc /\ np' = np /\ yielding' = yielding /\ panic' = panic
  BY <1>2 DEF Dispatch, LockFree
<1>4. \A d \in CPUs : at[d] # "back"
  BY <1>3, NoneBack
<1>5. \A d \in CPUs : at[d] = "proc" => proc[d] \in Slots /\ state[proc[d]] = "RUNNING"
  BY OnCpu
<1>6. rq' \in Queue /\ Elements(rq') = Elements(rq) \ {p} /\ Distinct(rq'.order)
  BY <1>1, <1>2, <1>3, DequeueFirst
<1>7. TypeOK'
  <2>1. slice' \in [CPUs -> 0..TIME_SLICE_TICKS]
    BY <1>3, SchedulerAssumption DEF IInv, TypeOK
  <2>2. state' \in [Slots -> States]
    BY <1>3 DEF States
  <2>q. QED
    BY <1>3, <1>6, <2>1, <2>2 DEF IInv, TypeOK
<1>8. LockOK'
  <2>1. \A d \in CPUs : d # c => proc'[d] = proc[d] /\ at'[d] = at[d] /\ proc[d] # p
    BY <1>2, <1>3, <1>4, <1>5 DEF IInv, LockOK
  <2>2. proc'[c] = p /\ at'[c] = "proc"
    BY <1>3
  <2>q. QED
    BY <1>3, <1>4, <2>1, <2>2 DEF IInv, LockOK
<1>9. RunningOK'
  <2>1. ASSUME NEW s \in Slots, s # p
        PROVE  state'[s] = "RUNNING" <=> \E d \in CPUs : at'[d] = "proc" /\ proc'[d] = s
    <3>1. state'[s] = state[s]
      BY <1>3, <2>1
    <3>2. \A d \in CPUs : (at'[d] = "proc" /\ proc'[d] = s) <=> (at[d] = "proc" /\ proc[d] = s)
      BY <1>3, <2>1
    <3>q. QED
      BY <3>1, <3>2 DEF IInv, RunningOK
  <2>2. state'[p] = "RUNNING" /\ at'[c] = "proc" /\ proc'[c] = p
    BY <1>3
  <2>q. QED
    BY <2>1, <2>2 DEF RunningOK
<1>10. QueueOK'
  <2>1. Runnable' = Runnable \ {p}
    BY <1>2, <1>3 DEF Runnable
  <2>2. \A d \in CPUs : at'[d] # "back"
    BY <1>3, <1>4
  <2>q. QED
    BY <1>6, <2>1, <2>2 DEF IInv, QueueOK
<1>11. ForkOK'
  BY <1>2, <1>3, ForkKept
<1>12. SlotsOK'
  BY <1>2, <1>3 DEF IInv, SlotsOK
<1>13. WaitOK'
  BY <1>2, <1>3 DEF IInv, WaitOK
<1>q. QED
  BY <1>7, <1>8, <1>9, <1>10, <1>11, <1>12, <1>13 DEF IInv

(* Back in scheduler(): the second enqueue meets the last of the queue. *)
LEMMA BackInv ==
    ASSUME IInv, NEW c \in CPUs, Back(c)
    PROVE  IInv' /\ (panic' => panic)
<1> /\ ptlock \in CPUs \cup {nullptr}
    /\ state \in [Slots -> States] /\ pid \in [Slots -> 0..MaxPid]
    /\ parent \in [Slots -> Slots \cup {nullptr}]
    /\ killed \in [Slots -> BOOLEAN] /\ chan \in [Slots -> Slots \cup Chans \cup {nullptr}]
    /\ pc \in [Slots -> PCs] /\ np \in [Slots -> Slots \cup {nullptr}]
    /\ proc \in [CPUs -> Slots \cup {nullptr}] /\ at \in [CPUs -> {"loop", "proc", "back"}]
    /\ nullptr \notin Slots /\ nullptr \notin CPUs
  BY SchedulerAssumption DEF IInv, TypeOK
<1>1. at[c] = "back" /\ ptlock = c
  BY DEF IInv, LockOK, Back
<1>2. PICK p \in Slots : p = proc[c] /\ state[p] # "RUNNING"
  BY <1>1 DEF IInv, LockOK
<1>3. /\ ptlock' = nullptr
      /\ rq' = IF state[p] = "RUNNABLE" THEN Enqueue(rq, p) ELSE rq
      /\ proc' = [proc EXCEPT ![c] = nullptr]
      /\ at' = [at EXCEPT ![c] = "loop"]
      /\ panic' = (panic \/ (state[p] = "RUNNABLE" /\ ~NextIsNull(rq, p)))
      /\ state' = state /\ pid' = pid /\ parent' = parent /\ killed' = killed /\ chan' = chan
      /\ nextpid' = nextpid /\ pc' = pc /\ np' = np /\ yielding' = yielding /\ slice' = slice
  BY <1>2 DEF Back, procVars
<1>4. \A d \in CPUs \ {c} : at[d] # "back"
  BY <1>1 DEF IInv, LockOK
<1>5. rq' \in Queue /\ rq'.order = rq.order /\ (panic' => panic)
  <2>1. CASE state[p] = "RUNNABLE"
    <3>1. IsLast(rq, p) /\ rq \in Queue /\ p \in Tasks
      BY <1>1, <1>2, <2>1, SchedulerAssumption DEF IInv, QueueOK, TypeOK
    <3>2. Enqueue(rq, p) \in Queue /\ Enqueue(rq, p).order = rq.order /\ NextIsNull(rq, p)
      BY <3>1, EnqueueAgain
    <3>q. QED
      BY <1>3, <2>1, <3>2
  <2>2. CASE state[p] # "RUNNABLE"
    BY <1>3, <2>2 DEF IInv, TypeOK
  <2>q. QED
    BY <2>1, <2>2
<1>6. TypeOK'
  <2>1. panic' \in BOOLEAN
    BY <1>3 DEF IInv, TypeOK
  <2>q. QED
    BY <1>3, <1>5, <2>1 DEF IInv, TypeOK
<1>7. LockOK'
  <2>1. \A d \in CPUs \ {c} : proc'[d] = proc[d] /\ at'[d] = at[d]
    BY <1>3
  <2>2. proc'[c] = nullptr /\ at'[c] = "loop"
    BY <1>3
  <2>q. QED
    BY <1>3, <1>4, <2>1, <2>2 DEF IInv, LockOK
<1>8. RunningOK'
  <2>1. \A d \in CPUs : at'[d] = "proc" <=> at[d] = "proc"
    BY <1>1, <1>3
  <2>2. \A d \in CPUs : at[d] = "proc" => proc'[d] = proc[d]
    BY <1>1, <1>3
  <2>q. QED
    BY <1>3, <2>1, <2>2 DEF IInv, RunningOK
<1>9. QueueOK'
  <2>1. Elements(rq') = Elements(rq) /\ Distinct(rq'.order)
    BY <1>5 DEF IInv, QueueOK, Elements
  <2>2. \A d \in CPUs : at'[d] # "back"
    BY <1>3, <1>4
  <2>3. Runnable' = Runnable
    BY <1>3 DEF Runnable
  <2>q. QED
    BY <2>1, <2>2, <2>3 DEF IInv, QueueOK
<1>10. ForkOK'
  BY <1>3, ForkKept
<1>11. SlotsOK' /\ WaitOK'
  BY <1>3 DEF IInv, SlotsOK, WaitOK
<1>q. QED
  BY <1>5, <1>6, <1>7, <1>8, <1>9, <1>10, <1>11 DEF IInv

-----------------------------------------------------------------------------
(* A process gives up its CPU, which keeps the lock. *)
LEMMA SwitchAway ==
    ASSUME IInv, NEW c \in CPUs, NEW p \in Slots, at[c] = "proc", proc[c] = p,
           \A d \in CPUs : at[d] # "back",
           ptlock' = c, at' = [at EXCEPT ![c] = "back"], proc' = proc,
           state'[p] \in {"SLEEPING", "RUNNABLE", "ZOMBIE"},
           \A s \in Slots \ {p} : state'[s] = "RUNNING" <=> state[s] = "RUNNING"
    PROVE  LockOK' /\ RunningOK'
<1> /\ ptlock \in CPUs \cup {nullptr}
    /\ state \in [Slots -> States] /\ pid \in [Slots -> 0..MaxPid]
    /\ parent \in [Slots -> Slots \cup {nullptr}]
    /\ killed \in [Slots -> BOOLEAN] /\ chan \in [Slots -> Slots \cup Chans \cup {nullptr}]
    /\ pc \in [Slots -> PCs] /\ np \in [Slots -> Slots \cup {nullptr}]
    /\ proc \in [CPUs -> Slots \cup {nullptr}] /\ at \in [CPUs -> {"loop", "proc", "back"}]
    /\ nullptr \notin Slots /\ nullptr \notin CPUs
  BY SchedulerAssumption DEF IInv, TypeOK
<1>1. at'[c] = "back" /\ \A d \in CPUs \ {c} : at'[d] = at[d]
  OBVIOUS
<1>2. LockOK'
  BY <1>1 DEF IInv, LockOK
<1>3. \A d \in CPUs \ {c} : proc[d] # p
  BY DEF IInv, LockOK
<1>4. ASSUME NEW s \in Slots
      PROVE  state'[s] = "RUNNING" <=> \E d \in CPUs : at'[d] = "proc" /\ proc'[d] = s
  <2>1. CASE s = p
    BY <1>1, <1>3, <2>1
  <2>2. CASE s # p
    BY <1>1, <2>2 DEF IInv, RunningOK
  <2>q. QED
    BY <2>1, <2>2
<1>q. QED
  BY <1>2, <1>4 DEF RunningOK

(* yield() enqueues the process that still runs. *)
LEMMA YieldInv ==
    ASSUME IInv, NEW c \in CPUs, Yield(c)
    PROVE  IInv' /\ (panic' => panic)
<1> /\ ptlock \in CPUs \cup {nullptr}
    /\ state \in [Slots -> States] /\ pid \in [Slots -> 0..MaxPid]
    /\ parent \in [Slots -> Slots \cup {nullptr}]
    /\ killed \in [Slots -> BOOLEAN] /\ chan \in [Slots -> Slots \cup Chans \cup {nullptr}]
    /\ pc \in [Slots -> PCs] /\ np \in [Slots -> Slots \cup {nullptr}]
    /\ proc \in [CPUs -> Slots \cup {nullptr}] /\ at \in [CPUs -> {"loop", "proc", "back"}]
    /\ nullptr \notin Slots /\ nullptr \notin CPUs
  BY SchedulerAssumption DEF IInv, TypeOK
<1>1. PICK p \in Slots : p = proc[c] /\ state[p] = "RUNNING"
  BY OnCpu DEF Yield
<1>2. /\ at[c] = "proc" /\ ptlock = nullptr /\ ptlock' = c /\ at' = [at EXCEPT ![c] = "back"]
      /\ state' = [state EXCEPT ![p] = "RUNNABLE"]
      /\ rq' = Enqueue(rq, p) /\ panic' = (panic \/ ~NextIsNull(rq, p))
      /\ pid' = pid /\ parent' = parent /\ killed' = killed /\ chan' = chan
      /\ nextpid' = nextpid /\ pc' = pc /\ np' = np /\ yielding' = yielding
      /\ proc' = proc /\ slice' = slice
  BY <1>1 DEF Yield, LockFree, SwitchToScheduler
<1>3. \A d \in CPUs : at[d] # "back"
  BY <1>2, NoneBack
<1>4. rq \in Queue /\ p \in Tasks /\ p \notin Elements(rq) /\ Distinct(rq.order)
  BY <1>1, SchedulerAssumption DEF IInv, TypeOK, QueueOK, Runnable
<1>5. /\ rq' \in Queue /\ Elements(rq') = Elements(rq) \cup {p} /\ Distinct(rq'.order)
      /\ IsLast(rq', p) /\ NextIsNull(rq, p)
  BY <1>2, <1>4, EnqueueNew
<1>6. panic' = panic
  BY <1>2, <1>5 DEF IInv, TypeOK
<1>7. TypeOK'
  <2>1. state' \in [Slots -> States]
    BY <1>2 DEF States
  <2>q. QED
    BY <1>2, <1>5, <1>6, <2>1 DEF IInv, TypeOK
<1>8. LockOK' /\ RunningOK'
  BY <1>1, <1>2, <1>3, SwitchAway
<1>9. QueueOK'
  <2>1. Runnable' = Runnable \cup {p}
    BY <1>2 DEF Runnable
  <2>2. \A d \in CPUs : at'[d] = "back" => proc'[d] = p
    BY <1>1, <1>2, <1>3
  <2>q. QED
    BY <1>5, <2>1, <2>2 DEF IInv, QueueOK
<1>10. ForkOK'
  BY <1>1, <1>2, ForkKept
<1>11. SlotsOK'
  BY <1>1, <1>2 DEF IInv, SlotsOK
<1>12. WaitOK'
  BY <1>1, <1>2 DEF IInv, WaitOK
<1>q. QED
  BY <1>6, <1>7, <1>8, <1>9, <1>10, <1>11, <1>12 DEF IInv

(* sleep(), also from wait(). *)
LEMMA GoToSleep ==
    ASSUME IInv, NEW c \in CPUs, NEW p \in Slots, at[c] = "proc", proc[c] = p,
           ptlock \in {nullptr, c}, pc[p] \notin {"embryo", "publish"},
           NEW ch \in Slots \cup Chans, NEW where \in {"waiting", "asleep"},
           where = "waiting" => ch = p /\ ~killed[p] /\ Zombies(p) = {},
           chan' = [chan EXCEPT ![p] = ch], state' = [state EXCEPT ![p] = "SLEEPING"],
           pc' = [pc EXCEPT ![p] = where], SwitchToScheduler(c),
           UNCHANGED <<pid, parent, killed, nextpid, np, yielding, proc, slice, rq, panic>>
    PROVE  IInv'
<1> /\ ptlock \in CPUs \cup {nullptr}
    /\ state \in [Slots -> States] /\ pid \in [Slots -> 0..MaxPid]
    /\ parent \in [Slots -> Slots \cup {nullptr}]
    /\ killed \in [Slots -> BOOLEAN] /\ chan \in [Slots -> Slots \cup Chans \cup {nullptr}]
    /\ pc \in [Slots -> PCs] /\ np \in [Slots -> Slots \cup {nullptr}]
    /\ proc \in [CPUs -> Slots \cup {nullptr}] /\ at \in [CPUs -> {"loop", "proc", "back"}]
    /\ nullptr \notin Slots /\ nullptr \notin CPUs
  BY SchedulerAssumption DEF IInv, TypeOK
<1>1. /\ ptlock' = c /\ at' = [at EXCEPT ![c] = "back"] /\ pid' = pid /\ parent' = parent
      /\ killed' = killed /\ nextpid' = nextpid /\ np' = np /\ yielding' = yielding
      /\ proc' = proc /\ slice' = slice /\ rq' = rq /\ panic' = panic
  BY DEF SwitchToScheduler
<1>2. state[p] = "RUNNING"
  BY OnCpu
<1>3. \A d \in CPUs : at[d] # "back"
  BY NoneBack
<1>4. TypeOK'
  <2>1. state' \in [Slots -> States] /\ pc' \in [Slots -> PCs]
    BY DEF States, PCs
  <2>q. QED
    BY <1>1, <2>1 DEF IInv, TypeOK
<1>5. LockOK' /\ RunningOK'
  BY <1>1, <1>3, SwitchAway
<1>6. QueueOK'
  <2>1. Runnable' = Runnable
    BY <1>2 DEF Runnable
  <2>2. \A d \in CPUs : at'[d] = "back" => proc'[d] = p
    BY <1>1, <1>3
  <2>3. state'[p] # "RUNNABLE"
    OBVIOUS
  <2>q. QED
    BY <1>1, <2>1, <2>2, <2>3 DEF IInv, QueueOK
<1>7. ForkOK'
  BY <1>1, <1>2, ForkKept
<1>8. SlotsOK'
  BY DEF IInv, SlotsOK
<1>9. WaitOK'
  <2>1. \A z \in Slots : state'[z] = "ZOMBIE" => state[z] = "ZOMBIE"
    OBVIOUS
  <2>2. where = "waiting" => \A z \in Slots : parent[z] = p => state[z] # "ZOMBIE"
    BY DEF Zombies, Children
  <2>q. QED
    BY <1>1, <2>1, <2>2 DEF IInv, WaitOK
<1>q. QED
  BY <1>4, <1>5, <1>6, <1>7, <1>8, <1>9 DEF IInv

(* sleep() gives up the CPU. *)
LEMMA SleepInv ==
    ASSUME IInv, NEW c \in CPUs, NEW p \in Slots, NEW ch \in Chans, Sleep(c, p, ch)
    PROVE  IInv'
<1>1. /\ at[c] = "proc" /\ proc[c] = p /\ ptlock = nullptr /\ pc[p] = "sys"
      /\ chan' = [chan EXCEPT ![p] = ch] /\ state' = [state EXCEPT ![p] = "SLEEPING"]
      /\ pc' = [pc EXCEPT ![p] = "asleep"] /\ SwitchToScheduler(c)
      /\ UNCHANGED <<pid, parent, killed, nextpid, np, yielding, proc, slice, rq, panic>>
  BY DEF Sleep, Runs, LockFree, Goto
<1>q. QED
  BY <1>1, GoToSleep

-----------------------------------------------------------------------------
(* alloc_proc: an UNUSED slot becomes an EMBRYO only its parent refers to. *)
LEMMA AllocProcInv ==
    ASSUME IInv, NEW c \in CPUs, NEW p \in Slots, AllocProc(c, p)
    PROVE  IInv'
<1> /\ ptlock \in CPUs \cup {nullptr}
    /\ state \in [Slots -> States] /\ pid \in [Slots -> 0..MaxPid]
    /\ parent \in [Slots -> Slots \cup {nullptr}]
    /\ killed \in [Slots -> BOOLEAN] /\ chan \in [Slots -> Slots \cup Chans \cup {nullptr}]
    /\ pc \in [Slots -> PCs] /\ np \in [Slots -> Slots \cup {nullptr}]
    /\ proc \in [CPUs -> Slots \cup {nullptr}] /\ at \in [CPUs -> {"loop", "proc", "back"}]
    /\ nullptr \notin Slots /\ nullptr \notin CPUs
  BY SchedulerAssumption DEF IInv, TypeOK
<1> DEFINE unused == {t \in Slots : state[t] = "UNUSED"}
<1>1. PICK s \in Slots : s = Min(unused) /\ state[s] = "UNUSED"
  <2>1. unused # {} /\ unused \in SUBSET Slots
    BY DEF AllocProc
  <2>2. Min(unused) \in unused
    BY <2>1, FirstSlot
  <2>q. QED
    BY <2>2
<1>2. /\ at[c] = "proc" /\ proc[c] = p /\ pc[p] = "sys" /\ nextpid <= MaxPid
      /\ state' = [state EXCEPT ![s] = "EMBRYO"]
      /\ pid' = [pid EXCEPT ![s] = nextpid] /\ nextpid' = nextpid + 1
      /\ np' = [np EXCEPT ![p] = s] /\ pc' = [pc EXCEPT ![p] = "embryo"]
      /\ ptlock' = ptlock /\ parent' = parent /\ killed' = killed /\ chan' = chan
      /\ yielding' = yielding /\ proc' = proc /\ at' = at /\ slice' = slice
      /\ rq' = rq /\ panic' = panic
  BY <1>1 DEF AllocProc, Runs, Goto, cpuVars
<1>3. state[p] = "RUNNING" /\ p # s
  BY <1>1, <1>2, OnCpu
<1>4. TypeOK'
  <2>1. pid' \in [Slots -> 0..MaxPid] /\ nextpid' \in 1..(MaxPid + 1)
    BY <1>2, SchedulerAssumption DEF IInv, TypeOK
  <2>2. state' \in [Slots -> States] /\ pc' \in [Slots -> PCs]
    BY <1>2 DEF States, PCs
  <2>q. QED
    BY <1>2, <2>1, <2>2 DEF IInv, TypeOK
<1>5. LockOK'
  <2>1. ASSUME NEW d \in CPUs, at[d] = "back" PROVE state'[proc[d]] = state[proc[d]]
    BY <1>1, <1>2, <2>1 DEF IInv, LockOK
  <2>q. QED
    BY <1>2, <2>1, LockKept
<1>6. RunningOK' /\ QueueOK'
  BY <1>1, <1>2, RunningKept, QueueKept
<1>7. ForkOK'
  <2>1. \A q \in Slots : np[q] # s
    BY <1>1 DEF IInv, ForkOK
  <2>2. \A q \in Slots \ {p} : np'[q] = np[q] /\ pc'[q] = pc[q]
    BY <1>2
  <2>3. np'[p] = s /\ pc'[p] = "embryo" /\ state'[s] = "EMBRYO"
    BY <1>2
  <2>4. \A t \in Slots : state[t] = "EMBRYO" => state'[t] = "EMBRYO"
    BY <1>1, <1>2
  <2>5. \A q \in Slots : np[q] # nullptr => np[q] \in Slots
    OBVIOUS
  <2>q. QED
    BY <1>2, <2>1, <2>2, <2>3, <2>4, <2>5 DEF IInv, ForkOK
<1>8. SlotsOK'
  BY <1>1, <1>2, <1>3 DEF IInv, SlotsOK
<1>9. WaitOK'
  BY <1>1, <1>2, <1>3 DEF IInv, WaitOK
<1>q. QED
  BY <1>4, <1>5, <1>6, <1>7, <1>8, <1>9 DEF IInv

(* What a process in fork() knows of its child. *)
LEMMA InFork ==
    ASSUME IInv, NEW c \in CPUs, NEW p \in Slots, at[c] = "proc", proc[c] = p,
           pc[p] \in {"embryo", "publish"}
    PROVE  /\ np[p] \in Slots /\ np[p] # p
           /\ state[p] = "RUNNING" /\ state[np[p]] = "EMBRYO" /\ pc[np[p]] \in {"gone", "forkret"}
           /\ pc[p] = "publish" => parent[np[p]] = p
           /\ \A q \in Slots \ {p} : np[q] # np[p]
           /\ \A q \in Slots : pc[q] \in {"embryo", "publish"} => np[q] # p
<1>1. state[p] = "RUNNING"
  BY OnCpu
<1>2. np[p] # nullptr /\ np[p] \in Slots
  BY DEF IInv, TypeOK, ForkOK
<1>3. state[np[p]] = "EMBRYO" /\ (pc[p] = "publish" => parent[np[p]] = p)
  BY <1>2 DEF IInv, ForkOK
<1>4. \A q \in Slots : pc[q] \in {"embryo", "publish"} => state[np[q]] = "EMBRYO"
  BY DEF IInv, ForkOK
<1>5. \A q \in Slots \ {p} : np[q] # np[p]
  BY <1>2 DEF IInv, ForkOK
<1>q. QED
  BY <1>1, <1>2, <1>3, <1>4, <1>5 DEF IInv, SlotsOK

(* A failed fork gives the slot back without the lock. *)
LEMMA ForkFailsInv ==
    ASSUME IInv, NEW c \in CPUs, NEW p \in Slots, ForkFails(c, p)
    PROVE  IInv'
<1> /\ ptlock \in CPUs \cup {nullptr}
    /\ state \in [Slots -> States] /\ pid \in [Slots -> 0..MaxPid]
    /\ parent \in [Slots -> Slots \cup {nullptr}]
    /\ killed \in [Slots -> BOOLEAN] /\ chan \in [Slots -> Slots \cup Chans \cup {nullptr}]
    /\ pc \in [Slots -> PCs] /\ np \in [Slots -> Slots \cup {nullptr}]
    /\ proc \in [CPUs -> Slots \cup {nullptr}] /\ at \in [CPUs -> {"loop", "proc", "back"}]
    /\ nullptr \notin Slots /\ nullptr \notin CPUs
  BY SchedulerAssumption DEF IInv, TypeOK
<1>1. at[c] = "proc" /\ proc[c] = p /\ pc[p] = "embryo"
  BY DEF ForkFails, Runs
<1>2. PICK s \in Slots : /\ s = np[p] /\ s # p
                         /\ state[p] = "RUNNING" /\ state[s] = "EMBRYO"
                         /\ pc[s] \in {"gone", "forkret"}
                         /\ \A q \in Slots \ {p} : np[q] # s
  BY <1>1, InFork
<1>3. /\ state' = [state EXCEPT ![s] = "UNUSED"] /\ np' = [np EXCEPT ![p] = nullptr]
      /\ pc' = [pc EXCEPT ![p] = "sys"]
      /\ ptlock' = ptlock /\ pid' = pid /\ parent' = parent /\ killed' = killed /\ chan' = chan
      /\ nextpid' = nextpid /\ yielding' = yielding /\ proc' = proc /\ at' = at
      /\ slice' = slice /\ rq' = rq /\ panic' = panic
  BY <1>2 DEF ForkFails, Goto, cpuVars
<1>4. TypeOK'
  <2>1. state' \in [Slots -> States] /\ pc' \in [Slots -> PCs]
    BY <1>3 DEF States, PCs
  <2>q. QED
    BY <1>3, <2>1 DEF IInv, TypeOK
<1>5. LockOK'
  <2>1. ASSUME NEW d \in CPUs, at[d] = "back" PROVE state'[proc[d]] = state[proc[d]]
    BY <1>2, <1>3, <2>1 DEF IInv, LockOK
  <2>q. QED
    BY <1>3, <2>1, LockKept
<1>6. RunningOK' /\ QueueOK'
  BY <1>2, <1>3, RunningKept, QueueKept
<1>7. ForkOK'
  <2>1. np'[p] = nullptr /\ pc'[p] = "sys"
    BY <1>3
  <2>2. \A q \in Slots \ {p} : np'[q] = np[q] /\ pc'[q] = pc[q]
    BY <1>3
  <2>3. \A q \in Slots \ {p} : np[q] # nullptr => state'[np[q]] = "EMBRYO"
    BY <1>2, <1>3 DEF IInv, ForkOK
  <2>q. QED
    BY <1>3, <2>1, <2>2, <2>3 DEF IInv, ForkOK
<1>8. SlotsOK'
  BY <1>2, <1>3 DEF IInv, SlotsOK
<1>9. WaitOK'
  BY <1>2, <1>3 DEF IInv, WaitOK
<1>q. QED
  BY <1>4, <1>5, <1>6, <1>7, <1>8, <1>9 DEF IInv

(* fork() has copied the process and sets the parent of the child. *)
LEMMA ForkCopiesInv ==
    ASSUME IInv, NEW c \in CPUs, NEW p \in Slots, ForkCopies(c, p)
    PROVE  IInv'
<1> /\ ptlock \in CPUs \cup {nullptr}
    /\ state \in [Slots -> States] /\ pid \in [Slots -> 0..MaxPid]
    /\ parent \in [Slots -> Slots \cup {nullptr}]
    /\ killed \in [Slots -> BOOLEAN] /\ chan \in [Slots -> Slots \cup Chans \cup {nullptr}]
    /\ pc \in [Slots -> PCs] /\ np \in [Slots -> Slots \cup {nullptr}]
    /\ proc \in [CPUs -> Slots \cup {nullptr}] /\ at \in [CPUs -> {"loop", "proc", "back"}]
    /\ nullptr \notin Slots /\ nullptr \notin CPUs
  BY SchedulerAssumption DEF IInv, TypeOK
<1>1. at[c] = "proc" /\ proc[c] = p /\ pc[p] = "embryo"
  BY DEF ForkCopies, Runs
<1>2. PICK s \in Slots : /\ s = np[p] /\ s # p
                         /\ state[p] = "RUNNING" /\ state[s] = "EMBRYO"
                         /\ pc[s] \in {"gone", "forkret"}
                         /\ \A q \in Slots \ {p} : np[q] # s
  BY <1>1, InFork
<1>3. /\ parent' = [parent EXCEPT ![s] = p]
      /\ pc' = [pc EXCEPT ![p] = "publish", ![s] = "forkret"]
      /\ ptlock' = ptlock /\ state' = state /\ pid' = pid /\ killed' = killed /\ chan' = chan
      /\ nextpid' = nextpid /\ np' = np /\ yielding' = yielding /\ proc' = proc /\ at' = at
      /\ slice' = slice /\ rq' = rq /\ panic' = panic
  BY <1>2 DEF ForkCopies, cpuVars
<1>4. /\ pc'[p] = "publish" /\ pc'[s] = "forkret"
      /\ \A q \in Slots \ {p, s} : pc'[q] = pc[q]
      /\ parent'[s] = p /\ \A t \in Slots \ {s} : parent'[t] = parent[t]
  BY <1>2, <1>3
<1>5. TypeOK'
  <2>1. pc' \in [Slots -> PCs]
    BY <1>3 DEF PCs
  <2>q. QED
    BY <1>3, <2>1 DEF IInv, TypeOK
<1>6. LockOK' /\ RunningOK' /\ QueueOK'
  BY <1>3, LockKept, RunningKept, QueueKept
<1>7. ForkOK'
  <2>1. ASSUME NEW q \in Slots \ {p}
        PROVE  /\ np[q] # nullptr <=> pc'[q] \in {"embryo", "publish"}
               /\ np[q] # nullptr => state[np[q]] = "EMBRYO"
               /\ pc'[q] = "publish" => parent'[np[q]] = q
    <3>1. CASE q = s
      BY <1>2, <1>4, <3>1 DEF IInv, ForkOK
    <3>2. CASE q # s
      BY <1>2, <1>4, <3>2 DEF IInv, ForkOK
    <3>q. QED
      BY <3>1, <3>2
  <2>2. np[p] # nullptr /\ pc'[p] = "publish" /\ state[np[p]] = "EMBRYO" /\ parent'[np[p]] = p
    BY <1>2, <1>4
  <2>q. QED
    BY <1>3, <2>1, <2>2 DEF IInv, ForkOK
<1>8. SlotsOK'
  BY <1>2, <1>3, <1>4 DEF IInv, SlotsOK
<1>9. WaitOK'
  BY <1>2, <1>3, <1>4 DEF IInv, WaitOK
<1>q. QED
  BY <1>5, <1>6, <1>7, <1>8, <1>9 DEF IInv

(* The child becomes RUNNABLE and is queued, under the lock. *)
LEMMA ForkPublishesInv ==
    ASSUME IInv, NEW c \in CPUs, NEW p \in Slots, ForkPublishes(c, p)
    PROVE  IInv' /\ (panic' => panic)
<1> /\ ptlock \in CPUs \cup {nullptr}
    /\ state \in [Slots -> States] /\ pid \in [Slots -> 0..MaxPid]
    /\ parent \in [Slots -> Slots \cup {nullptr}]
    /\ killed \in [Slots -> BOOLEAN] /\ chan \in [Slots -> Slots \cup Chans \cup {nullptr}]
    /\ pc \in [Slots -> PCs] /\ np \in [Slots -> Slots \cup {nullptr}]
    /\ proc \in [CPUs -> Slots \cup {nullptr}] /\ at \in [CPUs -> {"loop", "proc", "back"}]
    /\ nullptr \notin Slots /\ nullptr \notin CPUs
  BY SchedulerAssumption DEF IInv, TypeOK
<1>1. at[c] = "proc" /\ proc[c] = p /\ pc[p] = "publish" /\ ptlock = nullptr
  BY DEF ForkPublishes, Runs, LockFree
<1>2. PICK s \in Slots : /\ s = np[p] /\ s # p
                         /\ state[p] = "RUNNING" /\ state[s] = "EMBRYO"
                         /\ \A q \in Slots \ {p} : np[q] # s
  BY <1>1, InFork
<1>3. /\ state' = [state EXCEPT ![s] = "RUNNABLE"] /\ np' = [np EXCEPT ![p] = nullptr]
      /\ rq' = Enqueue(rq, s) /\ panic' = (panic \/ ~NextIsNull(rq, s))
      /\ pc' = [pc EXCEPT ![p] = "sys"]
      /\ ptlock' = ptlock /\ pid' = pid /\ parent' = parent /\ killed' = killed /\ chan' = chan
      /\ nextpid' = nextpid /\ yielding' = yielding /\ proc' = proc /\ at' = at /\ slice' = slice
  BY <1>2 DEF ForkPublishes, Goto, cpuVars
<1>4. \A d \in CPUs : at[d] # "back"
  BY <1>1, NoneBack
<1>5. rq \in Queue /\ s \in Tasks /\ s \notin Elements(rq) /\ Distinct(rq.order)
  BY <1>2, SchedulerAssumption DEF IInv, TypeOK, QueueOK, Runnable
<1>6. /\ rq' \in Queue /\ Elements(rq') = Elements(rq) \cup {s} /\ Distinct(rq'.order)
      /\ NextIsNull(rq, s)
  BY <1>3, <1>5, EnqueueNew
<1>7. panic' = panic
  BY <1>3, <1>6 DEF IInv, TypeOK
<1>8. TypeOK'
  <2>1. state' \in [Slots -> States] /\ pc' \in [Slots -> PCs]
    BY <1>3 DEF States, PCs
  <2>q. QED
    BY <1>3, <1>6, <1>7, <2>1 DEF IInv, TypeOK
<1>9. LockOK' /\ RunningOK'
  BY <1>2, <1>3, <1>4, LockKept, RunningKept
<1>10. QueueOK'
  <2>1. Runnable' = Runnable \cup {s}
    BY <1>3 DEF Runnable
  <2>q. QED
    BY <1>3, <1>4, <1>6, <2>1 DEF IInv, QueueOK
<1>11. ForkOK'
  <2>1. np'[p] = nullptr /\ pc'[p] = "sys"
    BY <1>3
  <2>2. \A q \in Slots \ {p} : np'[q] = np[q] /\ pc'[q] = pc[q]
    BY <1>3
  <2>3. \A q \in Slots \ {p} : np[q] # nullptr => state'[np[q]] = "EMBRYO"
    BY <1>2, <1>3 DEF IInv, ForkOK
  <2>q. QED
    BY <1>3, <2>1, <2>2, <2>3 DEF IInv, ForkOK
<1>12. SlotsOK'
  BY <1>2, <1>3 DEF IInv, SlotsOK
<1>13. WaitOK'
  BY <1>2, <1>3 DEF IInv, WaitOK
<1>q. QED
  BY <1>7, <1>8, <1>9, <1>10, <1>11, <1>12, <1>13 DEF IInv

-----------------------------------------------------------------------------
(* wait() runs with the lock, just taken or kept over the switch. *)
LEMMA ReapInv ==
    ASSUME IInv, NEW c \in CPUs, NEW p \in Slots, at[c] = "proc", proc[c] = p,
           ptlock \in {nullptr, c}, pc[p] \notin {"embryo", "publish"}, Reap(c, p)
    PROVE  IInv'
<1> /\ ptlock \in CPUs \cup {nullptr}
    /\ state \in [Slots -> States] /\ pid \in [Slots -> 0..MaxPid]
    /\ parent \in [Slots -> Slots \cup {nullptr}]
    /\ killed \in [Slots -> BOOLEAN] /\ chan \in [Slots -> Slots \cup Chans \cup {nullptr}]
    /\ pc \in [Slots -> PCs] /\ np \in [Slots -> Slots \cup {nullptr}]
    /\ proc \in [CPUs -> Slots \cup {nullptr}] /\ at \in [CPUs -> {"loop", "proc", "back"}]
    /\ nullptr \notin Slots /\ nullptr \notin CPUs
  BY SchedulerAssumption DEF IInv, TypeOK
<1>1. PICK z \in Slots : z = Min(Zombies(p)) /\ state[z] = "ZOMBIE" /\ parent[z] = p
  <2>1. Zombies(p) # {} /\ Zombies(p) \in SUBSET Slots
    BY DEF Reap, Zombies, Children
  <2>2. Min(Zombies(p)) \in Zombies(p)
    BY <2>1, FirstSlot
  <2>q. QED
    BY <2>2 DEF Zombies, Children
<1>2. /\ state' = [state EXCEPT ![z] = "UNUSED"] /\ pid' = [pid EXCEPT ![z] = 0]
      /\ parent' = [parent EXCEPT ![z] = nullptr] /\ killed' = [killed EXCEPT ![z] = FALSE]
      /\ chan' = [chan EXCEPT ![p] = nullptr] /\ pc' = [pc EXCEPT ![p] = "sys"]
      /\ ptlock' = nullptr /\ nextpid' = nextpid /\ np' = np /\ yielding' = yielding
      /\ proc' = proc /\ at' = at /\ slice' = slice /\ rq' = rq /\ panic' = panic
  BY <1>1 DEF Reap, Goto, cpuVars
<1>3. \A d \in CPUs : at[d] # "back"
  BY NoneBack
<1>4. state[p] = "RUNNING" /\ p # z
  BY <1>1, OnCpu
<1>5. TypeOK'
  <2>1. state' \in [Slots -> States] /\ pc' \in [Slots -> PCs]
    BY <1>2 DEF States, PCs
  <2>2. pid' \in [Slots -> 0..MaxPid]
    BY <1>2, SchedulerAssumption
  <2>q. QED
    BY <1>2, <2>1, <2>2 DEF IInv, TypeOK
<1>6. LockOK'
  BY <1>2, <1>3, LockDropped
<1>7. RunningOK' /\ QueueOK'
  BY <1>1, <1>2, RunningKept, QueueKept
<1>8. ForkOK'
  <2>1. \A s \in Slots : pc[s] = "publish" => np[s] # z
    BY <1>1 DEF IInv, ForkOK
  <2>2. \A s \in Slots : pc'[s] = "publish" => pc[s] = "publish" /\ parent'[np[s]] = parent[np[s]]
    BY <1>2, <2>1
  <2>q. QED
    BY <1>1, <1>2, <2>2, ForkKept
<1>9. SlotsOK'
  BY <1>1, <1>2, <1>4 DEF IInv, SlotsOK
<1>10. WaitOK'
  BY <1>1, <1>2, <1>4 DEF IInv, WaitOK
<1>q. QED
  BY <1>5, <1>6, <1>7, <1>8, <1>9, <1>10 DEF IInv

(* wait() reaps, sleeps or fails. *)
LEMMA WaitInv ==
    ASSUME IInv, NEW c \in CPUs, NEW p \in Slots, Wait(c, p)
    PROVE  IInv'
<1> /\ ptlock \in CPUs \cup {nullptr}
    /\ state \in [Slots -> States] /\ pid \in [Slots -> 0..MaxPid]
    /\ parent \in [Slots -> Slots \cup {nullptr}]
    /\ killed \in [Slots -> BOOLEAN] /\ chan \in [Slots -> Slots \cup Chans \cup {nullptr}]
    /\ pc \in [Slots -> PCs] /\ np \in [Slots -> Slots \cup {nullptr}]
    /\ proc \in [CPUs -> Slots \cup {nullptr}] /\ at \in [CPUs -> {"loop", "proc", "back"}]
    /\ nullptr \notin Slots /\ nullptr \notin CPUs
  BY SchedulerAssumption DEF IInv, TypeOK
<1>1. /\ at[c] = "proc" /\ proc[c] = p /\ ptlock \in {nullptr, c}
      /\ pc[p] \notin {"embryo", "publish"}
  BY DEF Wait, Runs, LockFree
<1>2. CASE Reap(c, p)
  BY <1>1, <1>2, ReapInv
<1>3. CASE WaitReturnsError(c, p)
  <2>1. /\ chan' = [chan EXCEPT ![p] = nullptr] /\ pc' = [pc EXCEPT ![p] = "sys"]
        /\ ptlock' = nullptr /\ state' = state /\ pid' = pid /\ parent' = parent
        /\ killed' = killed /\ nextpid' = nextpid /\ np' = np /\ yielding' = yielding
        /\ proc' = proc /\ at' = at /\ slice' = slice /\ rq' = rq /\ panic' = panic
    BY <1>3 DEF WaitReturnsError, Goto, cpuVars
  <2>2. state[p] = "RUNNING" /\ \A d \in CPUs : at[d] # "back"
    BY <1>1, OnCpu, NoneBack
  <2>3. TypeOK'
    <3>1. pc' \in [Slots -> PCs]
      BY <2>1 DEF PCs
    <3>q. QED
      BY <2>1, <3>1 DEF IInv, TypeOK
  <2>4. LockOK'
    BY <2>1, <2>2, LockDropped
  <2>5. "sys" \in PCs /\ {"sys", pc[p]} \cap {"embryo", "publish"} = {}
    BY <1>1 DEF PCs
  <2>6. \A s \in Slots \ {p} : chan'[s] = chan[s] /\ killed'[s] = killed[s]
    BY <2>1
  <2>7. RunningOK' /\ QueueOK' /\ ForkOK' /\ SlotsOK' /\ WaitOK'
    BY <2>1, <2>2, <2>5, <2>6, LocalStep
  <2>q. QED
    BY <2>3, <2>4, <2>7 DEF IInv
<1>4. CASE WaitSleeps(c, p)
  <2>1. /\ Zombies(p) = {} /\ ~killed[p]
        /\ chan' = [chan EXCEPT ![p] = p] /\ state' = [state EXCEPT ![p] = "SLEEPING"]
        /\ pc' = [pc EXCEPT ![p] = "waiting"] /\ SwitchToScheduler(c)
        /\ UNCHANGED <<pid, parent, killed, nextpid, np, yielding, proc, slice, rq, panic>>
    BY <1>4 DEF WaitSleeps, Goto
  <2>q. QED
    BY <1>1, <2>1, GoToSleep
<1>q. QED
  BY <1>2, <1>3, <1>4 DEF Wait

-----------------------------------------------------------------------------
(* The sleepers S become RUNNABLE and join the queue. *)
LEMMA Woken ==
    ASSUME IInv, NEW S \in SUBSET Slots, \A s \in S : state[s] = "SLEEPING",
           NEW bad \in BOOLEAN, EnqueueWoken(S, bad)
    PROVE  /\ rq' \in Queue /\ Elements(rq') = Elements(rq) \cup S /\ Distinct(rq'.order)
           /\ panic' \in BOOLEAN /\ (panic' => panic \/ bad)
<1>1. rq \in Queue /\ S \cap Elements(rq) = {} /\ Distinct(rq.order)
  BY DEF IInv, TypeOK, QueueOK, Runnable
<1>2. PICK o \in Orders(S) : rq' = EnqueueAll(rq, o)
  BY DEF EnqueueWoken
<1>3. /\ rq' \in Queue /\ Elements(rq') = Elements(rq) \cup S /\ Distinct(rq'.order)
      /\ \A s \in S : NextIsNull(rq, s)
  BY <1>1, <1>2, EnqueueSleepers
<1>4. panic' \in BOOLEAN /\ (panic' => panic \/ bad)
  BY <1>3 DEF EnqueueWoken
<1>q. QED
  BY <1>3, <1>4

(* wakeup() and kill(), which also sets killed. *)
LEMMA WakeStep ==
    ASSUME IInv, NEW S \in SUBSET Slots, \A s \in S : state[s] = "SLEEPING",
           ptlock = nullptr, state' = MakeRunnable(S), EnqueueWoken(S, FALSE),
           killed' \in [Slots -> BOOLEAN],
           \A s \in Slots : state[s] = "SLEEPING" /\ s \notin S => killed'[s] = killed[s],
           ptlock' = ptlock, pid' = pid, parent' = parent, chan' = chan, nextpid' = nextpid,
           pc' = pc, np' = np, yielding' = yielding, proc' = proc, at' = at, slice' = slice
    PROVE  IInv' /\ (panic' => panic)
<1> /\ ptlock \in CPUs \cup {nullptr}
    /\ state \in [Slots -> States] /\ pid \in [Slots -> 0..MaxPid]
    /\ parent \in [Slots -> Slots \cup {nullptr}]
    /\ killed \in [Slots -> BOOLEAN] /\ chan \in [Slots -> Slots \cup Chans \cup {nullptr}]
    /\ pc \in [Slots -> PCs] /\ np \in [Slots -> Slots \cup {nullptr}]
    /\ proc \in [CPUs -> Slots \cup {nullptr}] /\ at \in [CPUs -> {"loop", "proc", "back"}]
    /\ nullptr \notin Slots /\ nullptr \notin CPUs
  BY SchedulerAssumption DEF IInv, TypeOK
<1>1. /\ rq' \in Queue /\ Elements(rq') = Elements(rq) \cup S /\ Distinct(rq'.order)
      /\ panic' \in BOOLEAN /\ (panic' => panic)
  BY Woken
<1>2. \A s \in Slots : state'[s] = IF s \in S THEN "RUNNABLE" ELSE state[s]
  BY DEF MakeRunnable
<1>3. \A d \in CPUs : at[d] # "back"
  BY NoneBack
<1>4. TypeOK'
  <2>1. state' \in [Slots -> States]
    BY DEF MakeRunnable, States
  <2>q. QED
    BY <1>1, <2>1 DEF IInv, TypeOK
<1>5. LockOK' /\ RunningOK'
  BY <1>2, <1>3, LockKept, RunningKept
<1>6. QueueOK'
  <2>1. Runnable' = Runnable \cup S
    BY <1>2 DEF Runnable
  <2>q. QED
    BY <1>1, <1>3, <2>1 DEF IInv, QueueOK
<1>7. ForkOK'
  BY <1>2, ForkKept
<1>8. SlotsOK'
  BY <1>2 DEF IInv, SlotsOK
<1>9. WaitOK'
  BY <1>2 DEF IInv, WaitOK
<1>q. QED
  BY <1>1, <1>4, <1>5, <1>6, <1>7, <1>8, <1>9 DEF IInv

(* wakeup() makes the sleepers of a channel RUNNABLE and fails no ASSERT. *)
LEMMA WakeupInv ==
    ASSUME IInv, NEW ch \in Chans, Wakeup(ch)
    PROVE  IInv' /\ (panic' => panic)
<1> DEFINE S == Sleepers({ch})
<1>1. S \in SUBSET Slots /\ \A s \in S : state[s] = "SLEEPING"
  BY DEF Sleepers
<1>2. /\ ptlock = nullptr /\ state' = MakeRunnable(S) /\ EnqueueWoken(S, FALSE)
      /\ killed' = killed /\ ptlock' = ptlock /\ pid' = pid /\ parent' = parent
      /\ chan' = chan /\ nextpid' = nextpid /\ pc' = pc /\ np' = np /\ yielding' = yielding
      /\ proc' = proc /\ at' = at /\ slice' = slice
  BY DEF Wakeup, LockFree, cpuVars
<1>3. killed' \in [Slots -> BOOLEAN]
  BY <1>2 DEF IInv, TypeOK
<1> HIDE DEF S
<1>q. QED
  BY <1>1, <1>2, <1>3, WakeStep

(* kill() marks a process, wakes it if it sleeps and fails no ASSERT. *)
LEMMA KillInv ==
    ASSUME IInv, NEW c \in CPUs, NEW p \in Slots, NEW k \in KillPids, Kill(c, p, k)
    PROVE  IInv' /\ (panic' => panic)
<1> DEFINE found == {t \in Slots : pid[t] = k}
<1>1. PICK s \in Slots : s = Min(found)
  <2>1. found # {} /\ found \in SUBSET Slots
    BY DEF Kill
  <2>q. QED
    BY <2>1, FirstSlot
<1> DEFINE S == {s} \cap {w \in Slots : state[w] = "SLEEPING"}
<1>2. S \in SUBSET Slots /\ \A w \in S : state[w] = "SLEEPING"
  OBVIOUS
<1>3. /\ ptlock = nullptr /\ state' = MakeRunnable(S) /\ EnqueueWoken(S, FALSE)
      /\ killed' = [killed EXCEPT ![s] = TRUE]
      /\ ptlock' = ptlock /\ pid' = pid /\ parent' = parent
      /\ chan' = chan /\ nextpid' = nextpid /\ pc' = pc /\ np' = np /\ yielding' = yielding
      /\ proc' = proc /\ at' = at /\ slice' = slice
  BY <1>1 DEF Kill, LockFree, cpuVars
<1>4. killed' \in [Slots -> BOOLEAN]
  BY <1>3 DEF IInv, TypeOK
<1>5. \A w \in Slots : state[w] = "SLEEPING" /\ w \notin S => killed'[w] = killed[w]
  BY <1>3 DEF IInv, TypeOK
<1> HIDE DEF S
<1>q. QED
  BY <1>2, <1>3, <1>4, <1>5, WakeStep

(* exit(): whoever may wait for a zombie is woken.  A zombie child of the  *)
(* process goes to init, and the process itself to its parent.             *)
LEMMA ExitInv ==
    ASSUME IInv, FamilyOK, NEW c \in CPUs, NEW p \in Slots, Exit(c, p)
    PROVE  IInv' /\ (panic' => panic \/ p = initproc)
<1> /\ ptlock \in CPUs \cup {nullptr}
    /\ state \in [Slots -> States] /\ pid \in [Slots -> 0..MaxPid]
    /\ parent \in [Slots -> Slots \cup {nullptr}]
    /\ killed \in [Slots -> BOOLEAN] /\ chan \in [Slots -> Slots \cup Chans \cup {nullptr}]
    /\ pc \in [Slots -> PCs] /\ np \in [Slots -> Slots \cup {nullptr}]
    /\ proc \in [CPUs -> Slots \cup {nullptr}] /\ at \in [CPUs -> {"loop", "proc", "back"}]
    /\ nullptr \notin Slots /\ nullptr \notin CPUs
  BY SchedulerAssumption DEF IInv, TypeOK
<1> DEFINE S == Sleepers({parent[p]} \cup (IF Zombies(p) # {} THEN {initproc} ELSE {}))
<1>1. S \in SUBSET Slots /\ \A s \in S : state[s] = "SLEEPING"
  BY DEF Sleepers
<1>2. /\ at[c] = "proc" /\ proc[c] = p /\ pc[p] = "exit" /\ ptlock = nullptr
      /\ parent' = [s \in Slots |-> IF parent[s] = p THEN initproc ELSE parent[s]]
      /\ state' = [MakeRunnable(S) EXCEPT ![p] = "ZOMBIE"]
      /\ EnqueueWoken(S, p = initproc)
      /\ pc' = [pc EXCEPT ![p] = "gone"]
      /\ ptlock' = c /\ at' = [at EXCEPT ![c] = "back"]
      /\ pid' = pid /\ killed' = killed /\ chan' = chan /\ nextpid' = nextpid /\ np' = np
      /\ yielding' = yielding /\ proc' = proc /\ slice' = slice
  BY DEF Exit, Runs, LockFree, Goto, SwitchToScheduler
<1>3. \A s \in Slots : /\ state[s] = "SLEEPING" /\ chan[s] = parent[p] => s \in S
                       /\ state[s] = "SLEEPING" /\ chan[s] = initproc /\ Zombies(p) # {} => s \in S
  BY DEF Sleepers
<1> HIDE DEF S
<1>4. state[p] = "RUNNING" /\ p \notin S /\ \A d \in CPUs : at[d] # "back"
  BY <1>1, <1>2, OnCpu, NoneBack
<1>5. /\ rq' \in Queue /\ Elements(rq') = Elements(rq) \cup S /\ Distinct(rq'.order)
      /\ panic' \in BOOLEAN /\ (panic' => panic \/ p = initproc)
  <2>1. (p = initproc) \in BOOLEAN
    OBVIOUS
  <2>q. QED
    BY <1>1, <1>2, <2>1, Woken
<1>6. /\ state'[p] = "ZOMBIE"
      /\ \A s \in Slots \ {p} : state'[s] = IF s \in S THEN "RUNNABLE" ELSE state[s]
  BY <1>2 DEF MakeRunnable
<1>7. TypeOK'
  <2>1. state' \in [Slots -> States] /\ pc' \in [Slots -> PCs]
    BY <1>2 DEF MakeRunnable, States, PCs
  <2>2. parent' \in [Slots -> Slots \cup {nullptr}]
    BY <1>2, SchedulerAssumption DEF initproc, Slots
  <2>q. QED
    BY <1>2, <1>5, <2>1, <2>2 DEF IInv, TypeOK
<1>8. LockOK' /\ RunningOK'
  <2>1. \A s \in Slots \ {p} : state'[s] = "RUNNING" <=> state[s] = "RUNNING"
    BY <1>1, <1>6
  <2>q. QED
    BY <1>2, <1>4, <1>6, <2>1, SwitchAway
<1>9. QueueOK'
  <2>1. Runnable' = Runnable \cup S
    BY <1>1, <1>4, <1>6 DEF Runnable
  <2>2. \A d \in CPUs : at'[d] = "back" => proc'[d] = p
    BY <1>2, <1>4
  <2>q. QED
    BY <1>5, <1>6, <2>1, <2>2 DEF IInv, QueueOK
<1>10. ForkOK'
  <2>1. \A s \in Slots : state[s] = "EMBRYO" => state'[s] = "EMBRYO"
    BY <1>1, <1>4, <1>6
  <2>2. ASSUME NEW s \in Slots, pc'[s] = "publish"
        PROVE  pc[s] = "publish" /\ parent'[np[s]] = parent[np[s]]
    <3>1. s # p /\ pc[s] = "publish"
      BY <1>2, <2>2
    <3>2. np[s] \in Slots /\ parent[np[s]] = s
      BY <3>1 DEF IInv, ForkOK
    <3>q. QED
      BY <1>2, <3>1, <3>2
  <2>q. QED
    BY <1>2, <2>1, <2>2, ForkKept
<1>11. SlotsOK'
  BY <1>1, <1>2, <1>6 DEF IInv, SlotsOK
<1>12. WaitOK'
  <2> SUFFICES ASSUME NEW s \in Slots, state'[s] = "SLEEPING", pc'[s] = "waiting"
               PROVE  /\ chan[s] = s /\ ~killed[s]
                      /\ \A z \in Slots : parent'[z] = s => state'[z] # "ZOMBIE"
    BY <1>2 DEF WaitOK
  <2>1. s # p /\ s \notin S /\ state[s] = "SLEEPING" /\ pc[s] = "waiting"
    BY <1>2, <1>6
  <2>2. /\ chan[s] = s /\ ~killed[s]
        /\ \A z \in Slots : parent[z] = s => state[z] # "ZOMBIE"
    BY <2>1 DEF IInv, WaitOK
  <2>3. ASSUME NEW z \in Slots, parent'[z] = s, state'[z] = "ZOMBIE" PROVE FALSE
    <3>1. CASE z = p
      <4>1. parent[p] # p
        BY DEF FamilyOK
      <4>2. parent[p] = s
        BY <1>2, <2>3, <3>1, <4>1
      <4>q. QED
        BY <1>3, <2>1, <2>2, <4>2
    <3>2. CASE z # p /\ parent[z] = p
      <4>1. state[z] = "ZOMBIE" /\ s = initproc
        BY <1>2, <1>6, <2>3, <3>2
      <4>2. z \in Zombies(p)
        BY <3>2, <4>1 DEF Zombies, Children
      <4>q. QED
        BY <1>3, <2>1, <2>2, <4>1, <4>2
    <3>3. CASE z # p /\ parent[z] # p
      <4>1. state[z] = "ZOMBIE" /\ parent[z] = s
        BY <1>2, <1>6, <2>3, <3>3
      <4>q. QED
        BY <2>2, <4>1
    <3>q. QED
      BY <3>1, <3>2, <3>3
  <2>q. QED
    BY <2>2, <2>3
<1>q. QED
  BY <1>5, <1>7, <1>8, <1>9, <1>10, <1>11, <1>12 DEF IInv

(* Who is whose parent. *)
LEMMA FamilyInv ==
    ASSUME IInv, FamilyOK, [Next]_vars
    PROVE  FamilyOK'
<1> /\ ptlock \in CPUs \cup {nullptr}
    /\ state \in [Slots -> States] /\ pid \in [Slots -> 0..MaxPid]
    /\ parent \in [Slots -> Slots \cup {nullptr}]
    /\ killed \in [Slots -> BOOLEAN] /\ chan \in [Slots -> Slots \cup Chans \cup {nullptr}]
    /\ pc \in [Slots -> PCs] /\ np \in [Slots -> Slots \cup {nullptr}]
    /\ proc \in [CPUs -> Slots \cup {nullptr}] /\ at \in [CPUs -> {"loop", "proc", "back"}]
    /\ nullptr \notin Slots /\ nullptr \notin CPUs
  BY SchedulerAssumption DEF IInv, TypeOK
<1> initproc \in Slots
  BY SchedulerAssumption DEF initproc, Slots
<1>1. ASSUME parent' = parent,
             state[initproc] \notin {"UNUSED", "EMBRYO"} => state'[initproc] \notin {"UNUSED", "EMBRYO"}
      PROVE  FamilyOK'
  BY <1>1 DEF FamilyOK
<1>2. ASSUME NEW c \in CPUs, Dispatch(c) \/ Back(c) \/ Resume(c) \/ Yield(c) \/ Timer(c)
      PROVE  FamilyOK'
  <2>1. parent' = parent
    BY <1>2 DEF Dispatch, Back, Resume, Yield, Timer, procVars
  <2>2. state' = state \/ \E s : state' = [state EXCEPT ![s] = "RUNNING"]
                       \/ state' = [state EXCEPT ![s] = "RUNNABLE"]
    BY <1>2 DEF Dispatch, Back, Resume, Yield, Timer, procVars
  <2>q. QED
    BY <1>1, <2>1, <2>2
<1>3. ASSUME NEW c \in CPUs, NEW p \in Slots, ForkFails(c, p)
      PROVE  FamilyOK'
  <2>1. at[c] = "proc" /\ proc[c] = p /\ pc[p] = "embryo"
    BY <1>3 DEF ForkFails, Runs
  <2>2. state[np[p]] = "EMBRYO"
    BY <2>1, InFork
  <2>q. QED
    BY <1>1, <1>3, <2>2 DEF ForkFails, FamilyOK
<1>4. ASSUME NEW c \in CPUs, NEW p \in Slots, ForkCopies(c, p)
      PROVE  FamilyOK'
  <2>1. at[c] = "proc" /\ proc[c] = p /\ pc[p] = "embryo"
    BY <1>4 DEF ForkCopies, Runs
  <2>2. state[np[p]] = "EMBRYO" /\ np[p] # p /\ np[p] \in Slots
    BY <2>1, InFork
  <2>3. parent' = [parent EXCEPT ![np[p]] = p] /\ state' = state
    BY <1>4 DEF ForkCopies
  <2>q. QED
    BY <2>2, <2>3 DEF FamilyOK
<1>5. ASSUME NEW c \in CPUs, NEW p \in Slots, ForkPublishes(c, p)
      PROVE  FamilyOK'
  <2>1. parent' = parent /\ state' = [state EXCEPT ![np[p]] = "RUNNABLE"]
    BY <1>5 DEF ForkPublishes
  <2>q. QED
    BY <1>1, <2>1
<1>6. ASSUME NEW c \in CPUs, NEW p \in Slots, Exit(c, p)
      PROVE  FamilyOK'
  <2>1. parent' = [s \in Slots |-> IF parent[s] = p THEN initproc ELSE parent[s]]
    BY <1>6 DEF Exit
  <2>2. \A s \in Slots : state'[s] \in {state[s], "RUNNABLE", "ZOMBIE"}
    BY <1>6 DEF Exit, MakeRunnable
  <2>3. parent'[initproc] = nullptr /\ \A s \in Slots : parent'[s] # s
    BY <2>1 DEF FamilyOK
  <2>q. QED
    BY <2>2, <2>3 DEF FamilyOK
<1>7. ASSUME NEW c \in CPUs, NEW p \in Slots, Wait(c, p)
      PROVE  FamilyOK'
  <2>1. CASE Reap(c, p)
    <3>1. PICK z \in Slots : z = Min(Zombies(p)) /\ parent[z] = p
      <4>1. Zombies(p) # {} /\ Zombies(p) \in SUBSET Slots
        BY <2>1 DEF Reap, Zombies, Children
      <4>2. Min(Zombies(p)) \in Zombies(p)
        BY <4>1, FirstSlot
      <4>q. QED
        BY <4>2 DEF Zombies, Children
    <3>2. /\ parent' = [parent EXCEPT ![z] = nullptr]
          /\ state' = [state EXCEPT ![z] = "UNUSED"]
      BY <2>1, <3>1 DEF Reap
    <3>q. QED
      BY <3>1, <3>2 DEF FamilyOK
  <2>2. CASE WaitReturnsError(c, p)
    BY <1>1, <2>2 DEF WaitReturnsError
  <2>3. CASE WaitSleeps(c, p)
    BY <1>1, <2>3 DEF WaitSleeps
  <2>q. QED
    BY <1>7, <2>1, <2>2, <2>3 DEF Wait
<1>8. ASSUME NEW c \in CPUs, NEW p \in Slots,
             EnterSyscall(c, p) \/ ReturnToUser(c, p) \/ Exception(c, p)
               \/ SysYield(c, p) \/ SysExit(c, p)
      PROVE  FamilyOK'
  BY <1>1, <1>8 DEF EnterSyscall, ReturnToUser, Exception, SysYield, SysExit, procVars
<1>9. ASSUME NEW c \in CPUs, NEW p \in Slots, AllocProc(c, p)
      PROVE  FamilyOK'
  <2> DEFINE unused == {t \in Slots : state[t] = "UNUSED"}
  <2>1. unused # {} /\ unused \in SUBSET Slots
    BY <1>9 DEF AllocProc
  <2>2. Min(unused) \in unused
    BY <2>1, FirstSlot
  <2>3. parent' = parent /\ state' = [state EXCEPT ![Min(unused)] = "EMBRYO"]
    BY <1>9 DEF AllocProc
  <2>4. Min(unused) # initproc
    BY <2>2 DEF FamilyOK
  <2>q. QED
    BY <1>1, <2>3, <2>4
<1>10. ASSUME NEW c \in CPUs, NEW p \in Slots, NEW k \in KillPids, Kill(c, p, k)
       PROVE  FamilyOK'
  <2>1. parent' = parent /\ \A s \in Slots : state'[s] \in {state[s], "RUNNABLE"}
    BY <1>10 DEF Kill, MakeRunnable
  <2>q. QED
    BY <1>1, <2>1
<1>11. ASSUME NEW c \in CPUs, NEW p \in Slots, NEW ch \in Chans, Sleep(c, p, ch)
       PROVE  FamilyOK'
  BY <1>1, <1>11 DEF Sleep
<1>12. ASSUME NEW ch \in Chans, Wakeup(ch)
       PROVE  FamilyOK'
  <2>1. parent' = parent /\ \A s \in Slots : state'[s] \in {state[s], "RUNNABLE"}
    BY <1>12 DEF Wakeup, MakeRunnable
  <2>q. QED
    BY <1>1, <2>1
<1>13. ASSUME UNCHANGED vars PROVE FamilyOK'
  BY <1>1, <1>13 DEF vars, procVars
<1>q. QED
  BY <1>2, <1>3, <1>4, <1>5, <1>6, <1>7, <1>8, <1>9, <1>10, <1>11, <1>12, <1>13
     DEF Next, KernelStep, UserStep

-----------------------------------------------------------------------------
(* The invariants hold at boot. *)
LEMMA StartOK == Init => IInv /\ FamilyOK
<1> SUFFICES ASSUME Init PROVE IInv /\ FamilyOK
  OBVIOUS
<1> initproc \in Slots /\ initproc \in Tasks /\ nullptr \notin Slots /\ nullptr \notin CPUs
  BY SchedulerAssumption DEF initproc, Slots
<1> /\ ptlock = nullptr
    /\ state = [s \in Slots |-> IF s = initproc THEN "RUNNABLE" ELSE "UNUSED"]
    /\ parent = [s \in Slots |-> nullptr]
    /\ pc = [s \in Slots |-> IF s = initproc THEN "forkret" ELSE "gone"]
    /\ np = [s \in Slots |-> nullptr]
    /\ proc = [c \in CPUs |-> nullptr] /\ at = [c \in CPUs |-> "loop"]
  BY DEF Init
<1>1. EmptyQueue \in Queue /\ Elements(EmptyQueue) = {} /\ Distinct(EmptyQueue.order)
  <2>1. EmptyQueue.order = <<>> /\ Len(<<>>) = 0 /\ EmptyQueue.ahead = 0 /\ <<>> \in Seq(Tasks)
    BY DEF EmptyQueue
  <2>2. EmptyQueue \in Queue
    BY <2>1, MaxAheadAssumption DEF EmptyQueue, Queue
  <2>q. QED
    BY <2>1, <2>2 DEF Elements, Distinct
<1>2. rq \in Queue /\ Elements(rq) = {initproc} /\ Distinct(rq.order)
  BY <1>1, EnqueueNew DEF Init
<1>3. TypeOK
  <2>1. /\ pid \in [Slots -> 0..MaxPid] /\ nextpid \in 1..(MaxPid + 1)
        /\ slice \in [CPUs -> 0..TIME_SLICE_TICKS]
    BY SchedulerAssumption DEF Init
  <2>2. /\ killed \in [Slots -> BOOLEAN] /\ yielding \in [Slots -> BOOLEAN] /\ panic \in BOOLEAN
        /\ chan \in [Slots -> Slots \cup Chans \cup {nullptr}]
    BY DEF Init
  <2>3. state \in [Slots -> States] /\ pc \in [Slots -> PCs]
    BY DEF States, PCs
  <2>q. QED
    BY <1>2, <2>1, <2>2, <2>3 DEF TypeOK
<1>4. LockOK /\ RunningOK
  BY DEF LockOK, RunningOK
<1>5. QueueOK
  <2>1. Runnable = {initproc}
    BY DEF Runnable
  <2>q. QED
    BY <1>2, <2>1 DEF QueueOK
<1>6. ForkOK /\ SlotsOK /\ WaitOK
  BY DEF ForkOK, SlotsOK, WaitOK
<1>7. FamilyOK
  BY DEF FamilyOK
<1>q. QED
  BY <1>3, <1>4, <1>5, <1>6, <1>7 DEF IInv

(* Every step preserves the invariant. *)
LEMMA NextInv ==
    ASSUME IInv, FamilyOK, [Next]_vars
    PROVE  IInv'
<1>1. ASSUME NEW c \in CPUs, KernelStep(c) \/ Timer(c)
      PROVE  IInv'
  BY <1>1, DispatchInv, BackInv, ResumeInv, YieldInv, ForkFailsInv, ForkCopiesInv,
     ForkPublishesInv, ExitInv, WaitInv, TimerInv DEF KernelStep
<1>2. ASSUME NEW c \in CPUs, NEW p \in Slots, UserStep(c, p)
      PROVE  IInv'
  BY <1>2, SyscallInv, SysYieldInv, AllocProcInv, WaitInv, KillInv, SleepInv DEF UserStep
<1>3. ASSUME NEW ch \in Chans, Wakeup(ch)
      PROVE  IInv'
  BY <1>3, WakeupInv
<1>4. ASSUME UNCHANGED vars PROVE IInv'
  <2>1. /\ ptlock' = ptlock /\ state' = state /\ pid' = pid /\ parent' = parent
        /\ killed' = killed /\ chan' = chan /\ nextpid' = nextpid /\ pc' = pc /\ np' = np
        /\ yielding' = yielding /\ proc' = proc /\ at' = at /\ slice' = slice
        /\ rq' = rq /\ panic' = panic
    BY <1>4 DEF vars, procVars, cpuVars
  <2>2. TypeOK'
    BY <2>1 DEF IInv, TypeOK
  <2>3. LockOK' /\ RunningOK' /\ QueueOK' /\ ForkOK'
    BY <2>1, LockKept, RunningKept, QueueKept, ForkKept
  <2>4. SlotsOK' /\ WaitOK'
    BY <2>1 DEF IInv, SlotsOK, WaitOK
  <2>q. QED
    BY <2>2, <2>3, <2>4 DEF IInv
<1>q. QED
  BY <1>1, <1>2, <1>3, <1>4 DEF Next

(* The invariants hold in every reachable state. *)
LEMMA Invariant == Spec => [](IInv /\ FamilyOK)
<1>1. IInv /\ FamilyOK /\ [Next]_vars => (IInv /\ FamilyOK)'
  BY NextInv, FamilyInv
<1>q. QED
  BY <1>1, StartOK, PTL DEF Spec

-----------------------------------------------------------------------------
(* Every variable keeps its type, for any numbers of CPUs, slots and       *)
(* channels: time slices do not underflow, the counter beside the queue    *)
(* stays in its range.                                                     *)
THEOREM TypeCorrect == Spec => []TypeOK
<1>1. IInv => TypeOK
  BY DEF IInv
<1>q. QED
  BY <1>1, Invariant, PTL

(* Outside ptable.lock the run queue holds every RUNNABLE process exactly  *)
(* once: yield() and scheduler() may both enqueue, a process may be woken  *)
(* by wakeup() and kill() at once, and neither doubles or drops it.        *)
THEOREM QueueIsRunnable == Spec => []RunQueueExact
<1>1. IInv => RunQueueExact
  BY DEF IInv, QueueOK, Runnable, Distinct, RunQueueExact
<1>q. QED
  BY <1>1, Invariant, PTL

(* A process runs on at most one CPU, and the RUNNING processes are those  *)
(* of the CPUs.                                                            *)
THEOREM NeverRunTwice == Spec => []OneCpuPerProcess
<1>1. IInv => OneCpuPerProcess
  <2> SUFFICES ASSUME IInv PROVE OneCpuPerProcess
    OBVIOUS
  <2>1. \A c, d \in CPUs : proc[c] = proc[d] /\ proc[c] # nullptr => c = d
    BY DEF IInv, LockOK
  <2>2. ASSUME LockFree, NEW s \in Slots
        PROVE  state[s] = "RUNNING" <=> \E c \in CPUs : proc[c] = s
    <3>1. \A c \in CPUs : at[c] # "back" /\ at[c] \in {"loop", "proc", "back"}
      BY <2>2, NoneBack DEF LockFree, IInv, TypeOK
    <3>2. \A c \in CPUs : proc[c] = s => at[c] = "proc"
      BY <3>1, SchedulerAssumption DEF IInv, LockOK
    <3>q. QED
      BY <3>2 DEF IInv, RunningOK
  <2>q. QED
    BY <2>1, <2>2 DEF OneCpuPerProcess
<1>q. QED
  BY <1>1, Invariant, PTL

(* No process sleeps in wait() over a zombie child or over a kill().       *)
THEOREM NoExitLost == Spec => []WaitMissesNothing
<1>1. IInv => WaitMissesNothing
  BY DEF IInv, WaitOK, WaitMissesNothing, Zombies, Children
<1>q. QED
  BY <1>1, Invariant, PTL

-----------------------------------------------------------------------------
(* The rest holds while nobody kills init, whose exit() panics. *)
LEMMA ParentKept ==
    ASSUME InitInv, parent' = parent,
           \A s \in Slots : state'[s] \notin {"UNUSED", "EMBRYO"} => state[s] \notin {"UNUSED", "EMBRYO"},
           \A s \in Slots : Alive(s) => Alive(s)'
    PROVE  ParentOK'
  BY DEF InitInv, ParentOK

(* Steps of a running process that neither creates nor ends one. *)
LEMMA InitQuiet ==
    ASSUME IInv, InitInv, NEW p \in Slots, NEW where, pc' = [pc EXCEPT ![p] = where],
           where = "exit" => p # initproc,
           pid' = pid, parent' = parent, nextpid' = nextpid, panic' = panic,
           killed'[initproc] = killed[initproc],
           \A s \in Slots : \/ state'[s] = state[s]
                            \/ Alive(s) /\ state'[s] \in {"RUNNING", "RUNNABLE", "SLEEPING"}
    PROVE  InitInv'
<1> initproc \in Slots /\ pc \in [Slots -> PCs]
  BY SchedulerAssumption DEF initproc, Slots, IInv, TypeOK
<1>1. \A s \in Slots : Alive(s) => Alive(s)'
  BY DEF Alive
<1>2. ParentOK'
  BY <1>1, ParentKept DEF Alive
<1>3. InitOK'
  BY <1>1 DEF InitInv, InitOK
<1>q. QED
  BY <1>2, <1>3 DEF InitInv

(* While nobody kills pid 1, init stays and inherits every orphan. *)
LEMMA InitNext ==
    ASSUME 1 \notin KillPids, IInv, FamilyOK, InitInv, [Next]_vars
    PROVE  InitInv'
<1> /\ ptlock \in CPUs \cup {nullptr}
    /\ state \in [Slots -> States] /\ pid \in [Slots -> 0..MaxPid]
    /\ parent \in [Slots -> Slots \cup {nullptr}]
    /\ killed \in [Slots -> BOOLEAN] /\ chan \in [Slots -> Slots \cup Chans \cup {nullptr}]
    /\ pc \in [Slots -> PCs] /\ np \in [Slots -> Slots \cup {nullptr}]
    /\ proc \in [CPUs -> Slots \cup {nullptr}] /\ at \in [CPUs -> {"loop", "proc", "back"}]
    /\ nullptr \notin Slots /\ nullptr \notin CPUs
  BY SchedulerAssumption DEF IInv, TypeOK
<1> initproc \in Slots
  BY SchedulerAssumption DEF initproc, Slots
<1> USE DEF InitInv, InitOK
<1>1. ASSUME NEW c \in CPUs, Dispatch(c) PROVE InitInv'
  <2>1. rq \in Queue /\ Tasks = Slots /\ Distinct(rq.order) /\ rq.order # <<>>
    BY <1>1, SchedulerAssumption DEF IInv, TypeOK, QueueOK, Dispatch
  <2>2. PICK p \in Slots : p = Head(rq.order) /\ state[p] = "RUNNABLE"
    BY <2>1, DequeueFirst DEF IInv, QueueOK, Runnable
  <2>3. /\ state' = [state EXCEPT ![p] = "RUNNING"]
        /\ pid' = pid /\ parent' = parent /\ killed' = killed /\ nextpid' = nextpid
        /\ pc' = [pc EXCEPT ![initproc] = pc[initproc]] /\ panic' = panic
    BY <1>1, <2>2 DEF Dispatch
  <2>4. \A s \in Slots : \/ state'[s] = state[s]
                         \/ Alive(s) /\ state'[s] \in {"RUNNING", "RUNNABLE", "SLEEPING"}
    BY <2>2, <2>3 DEF Alive
  <2>q. QED
    BY <2>3, <2>4, InitQuiet
<1>2. ASSUME NEW c \in CPUs, Back(c) PROVE InitInv'
  <2>1. ~panic'
    BY <1>2, BackInv
  <2>2. /\ state' = state /\ pid' = pid /\ parent' = parent /\ killed' = killed
        /\ nextpid' = nextpid /\ pc' = [pc EXCEPT ![initproc] = pc[initproc]]
    BY <1>2 DEF Back, procVars
  <2>3. panic' = panic
    BY <1>2, <2>1, BackInv DEF IInv, TypeOK
  <2>q. QED
    BY <2>2, <2>3, InitQuiet
<1>3. ASSUME NEW c \in CPUs, Resume(c) PROVE InitInv'
  <2>1. PICK p \in Slots : p = proc[c] /\ pc[p] \in PCs
    BY <1>3, OnCpu DEF Resume
  <2>2. /\ state' = state /\ pid' = pid /\ parent' = parent /\ killed' = killed
        /\ nextpid' = nextpid /\ panic' = panic
    BY <1>3 DEF Resume
  <2>3. PICK where \in PCs : pc' = [pc EXCEPT ![p] = where] /\ (where = "exit" => p # initproc)
    <3>1. CASE yielding[p] /\ pc[p] = "user"
      BY <1>3, <2>1, <3>1 DEF Resume, Goto, LeaveKernel, PCs
    <3>2. CASE yielding[p] /\ pc[p] # "user"
      <4>1. pc' = [pc EXCEPT ![p] = pc[p]]
        BY <1>3, <2>1, <3>2 DEF Resume, Goto
      <4>q. QED
        BY <2>1, <4>1
    <3>3. CASE ~yielding[p] /\ pc[p] = "forkret"
      <4>1. pc' = [pc EXCEPT ![p] = "user"]
        BY <1>3, <2>1, <3>3 DEF Resume, Goto
      <4>q. QED
        BY <4>1 DEF PCs
    <3>4. CASE ~yielding[p] /\ pc[p] = "asleep"
      <4>1. pc' = [pc EXCEPT ![p] = "sys"]
        BY <1>3, <2>1, <3>4 DEF Resume, Goto
      <4>q. QED
        BY <4>1 DEF PCs
    <3>5. yielding[p] \/ pc[p] \in {"forkret", "asleep"}
      BY <1>3, <2>1 DEF Resume
    <3>q. QED
      BY <3>1, <3>2, <3>3, <3>4, <3>5
  <2>q. QED
    BY <2>2, <2>3, InitQuiet
<1>4. ASSUME NEW c \in CPUs, Yield(c) PROVE InitInv'
  <2>1. PICK p \in Slots : p = proc[c] /\ state[p] = "RUNNING"
    BY <1>4, OnCpu DEF Yield
  <2>2. /\ state' = [state EXCEPT ![p] = "RUNNABLE"]
        /\ pid' = pid /\ parent' = parent /\ killed' = killed /\ nextpid' = nextpid
        /\ pc' = [pc EXCEPT ![initproc] = pc[initproc]]
    BY <1>4, <2>1 DEF Yield
  <2>3. panic' = panic
    BY <1>4, YieldInv DEF IInv, TypeOK
  <2>4. \A s \in Slots : \/ state'[s] = state[s]
                         \/ Alive(s) /\ state'[s] \in {"RUNNING", "RUNNABLE", "SLEEPING"}
    BY <2>1, <2>2 DEF Alive
  <2>q. QED
    BY <2>2, <2>3, <2>4, InitQuiet
<1>5. ASSUME NEW c \in CPUs, Timer(c) PROVE InitInv'
  <2>1. PICK p \in Slots : p = proc[c]
    BY <1>5, OnCpu DEF Timer
  <2>2. /\ state' = state /\ pid' = pid /\ parent' = parent /\ killed' = killed
        /\ nextpid' = nextpid /\ panic' = panic
    BY <1>5 DEF Timer, procVars
  <2>3. PICK where : pc' = [pc EXCEPT ![p] = where] /\ (where = "exit" => p # initproc)
    <3>1. CASE killed[p] /\ pc[p] = "user"
      BY <1>5, <2>1, <3>1 DEF Timer, Goto
    <3>2. CASE ~(killed[p] /\ pc[p] = "user")
      <4>1. pc' = [pc EXCEPT ![p] = pc[p]]
        BY <1>5, <2>1, <3>2 DEF Timer, Goto
      <4>q. QED
        BY <4>1
    <3>q. QED
      BY <3>1, <3>2
  <2>q. QED
    BY <2>2, <2>3, InitQuiet
<1>6. ASSUME NEW c \in CPUs, NEW p \in Slots,
             EnterSyscall(c, p) \/ ReturnToUser(c, p) \/ Exception(c, p) \/ SysExit(c, p)
      PROVE  InitInv'
  <2>1. /\ state' = state /\ pid' = pid /\ parent' = parent /\ nextpid' = nextpid /\ panic' = panic
    BY <1>6 DEF EnterSyscall, ReturnToUser, Exception, SysExit, procVars
  <2>2. PICK where : pc' = [pc EXCEPT ![p] = where] /\ (where = "exit" => p # initproc)
    BY <1>6 DEF EnterSyscall, ReturnToUser, Exception, SysExit, Goto, LeaveKernel
  <2>3. killed'[initproc] = killed[initproc]
    BY <1>6 DEF EnterSyscall, ReturnToUser, Exception, SysExit, procVars
  <2>q. QED
    BY <2>1, <2>2, <2>3, InitQuiet
<1>7. ASSUME NEW c \in CPUs, NEW p \in Slots, SysYield(c, p) PROVE InitInv'
  <2>1. /\ state' = state /\ pid' = pid /\ parent' = parent /\ killed' = killed
        /\ nextpid' = nextpid /\ panic' = panic /\ pc' = [pc EXCEPT ![initproc] = pc[initproc]]
    BY <1>7 DEF SysYield, procVars
  <2>q. QED
    BY <2>1, InitQuiet
<1>8. ASSUME NEW c \in CPUs, NEW p \in Slots, NEW ch \in Chans, Sleep(c, p, ch) PROVE InitInv'
  <2>1. state[p] = "RUNNING"
    BY <1>8, OnCpu DEF Sleep, Runs
  <2>2. /\ state' = [state EXCEPT ![p] = "SLEEPING"] /\ pc' = [pc EXCEPT ![p] = "asleep"]
        /\ pid' = pid /\ parent' = parent /\ killed' = killed /\ nextpid' = nextpid
        /\ panic' = panic
    BY <1>8 DEF Sleep, Goto
  <2>3. \A s \in Slots : \/ state'[s] = state[s]
                         \/ Alive(s) /\ state'[s] \in {"RUNNING", "RUNNABLE", "SLEEPING"}
    BY <2>1, <2>2 DEF Alive
  <2>q. QED
    BY <2>2, <2>3, InitQuiet
<1>9. ASSUME NEW ch \in Chans, Wakeup(ch) PROVE InitInv'
  <2>1. \A s \in Slots : \/ state'[s] = state[s]
                         \/ Alive(s) /\ state'[s] \in {"RUNNING", "RUNNABLE", "SLEEPING"}
    BY <1>9 DEF Wakeup, MakeRunnable, Sleepers, Alive
  <2>2. /\ pid' = pid /\ parent' = parent /\ killed' = killed /\ nextpid' = nextpid
        /\ pc' = [pc EXCEPT ![initproc] = pc[initproc]]
    BY <1>9 DEF Wakeup
  <2>3. panic' = panic
    BY <1>9, WakeupInv DEF IInv, TypeOK
  <2>q. QED
    BY <2>1, <2>2, <2>3, InitQuiet
<1>10. ASSUME NEW c \in CPUs, NEW p \in Slots, NEW k \in KillPids, Kill(c, p, k) PROVE InitInv'
  <2> DEFINE found == {t \in Slots : pid[t] = k}
  <2>1. PICK s \in Slots : s = Min(found) /\ s # initproc
    <3>1. found # {} /\ found \in SUBSET Slots
      BY <1>10 DEF Kill
    <3>2. Min(found) \in found
      BY <3>1, FirstSlot
    <3>q. QED
      BY <3>2
  <2>2. killed'[initproc] = killed[initproc]
    BY <1>10, <2>1 DEF Kill
  <2>3. \A t \in Slots : \/ state'[t] = state[t]
                         \/ Alive(t) /\ state'[t] \in {"RUNNING", "RUNNABLE", "SLEEPING"}
    BY <1>10 DEF Kill, MakeRunnable, Alive
  <2>4. /\ pid' = pid /\ parent' = parent /\ nextpid' = nextpid
        /\ pc' = [pc EXCEPT ![initproc] = pc[initproc]]
    BY <1>10 DEF Kill
  <2>5. panic' = panic
    BY <1>10, KillInv DEF IInv, TypeOK
  <2>q. QED
    BY <2>2, <2>3, <2>4, <2>5, InitQuiet
<1>11. ASSUME NEW c \in CPUs, NEW p \in Slots, AllocProc(c, p) PROVE InitInv'
  <2> DEFINE unused == {t \in Slots : state[t] = "UNUSED"}
  <2>1. PICK s \in Slots : s = Min(unused) /\ state[s] = "UNUSED"
    <3>1. unused # {} /\ unused \in SUBSET Slots
      BY <1>11 DEF AllocProc
    <3>2. Min(unused) \in unused
      BY <3>1, FirstSlot
    <3>q. QED
      BY <3>2
  <2>2. /\ state' = [state EXCEPT ![s] = "EMBRYO"] /\ pid' = [pid EXCEPT ![s] = nextpid]
        /\ nextpid' = nextpid + 1 /\ pc' = [pc EXCEPT ![p] = "embryo"]
        /\ parent' = parent /\ killed' = killed /\ panic' = panic
    BY <1>11, <2>1 DEF AllocProc, Goto
  <2>3. s # initproc
    BY <2>1 DEF Alive
  <2>4. ParentOK'
    BY <2>1, <2>2, ParentKept DEF Alive
  <2>5. nextpid' > 1
    BY <2>2 DEF IInv, TypeOK
  <2>q. QED
    BY <2>2, <2>3, <2>4, <2>5 DEF Alive
<1>12. ASSUME NEW c \in CPUs, NEW p \in Slots,
              ForkFails(c, p) \/ ForkCopies(c, p) \/ ForkPublishes(c, p)
       PROVE  InitInv'
  <2>1. at[c] = "proc" /\ proc[c] = p /\ pc[p] \in {"embryo", "publish"}
    BY <1>12 DEF ForkFails, ForkCopies, ForkPublishes, Runs
  <2>2. PICK s \in Slots : /\ s = np[p] /\ s # p /\ s # initproc /\ state[s] = "EMBRYO"
                           /\ state[p] = "RUNNING" /\ (pc[p] = "publish" => parent[s] = p)
    BY <2>1, InFork DEF FamilyOK
  <2>3. CASE ForkFails(c, p)
    <3>1. /\ state' = [state EXCEPT ![s] = "UNUSED"] /\ pc' = [pc EXCEPT ![p] = "sys"]
          /\ pid' = pid /\ parent' = parent /\ killed' = killed /\ nextpid' = nextpid
          /\ panic' = panic
      BY <2>2, <2>3 DEF ForkFails, Goto
    <3>2. ParentOK'
      BY <2>2, <3>1, ParentKept DEF Alive
    <3>q. QED
      BY <2>2, <3>1, <3>2 DEF Alive
  <2>4. CASE ForkCopies(c, p)
    <3>1. /\ parent' = [parent EXCEPT ![s] = p]
          /\ pc' = [pc EXCEPT ![p] = "publish", ![s] = "forkret"]
          /\ pid' = pid /\ state' = state /\ killed' = killed /\ nextpid' = nextpid
          /\ panic' = panic
      BY <2>2, <2>4 DEF ForkCopies
    <3>2. ParentOK'
      BY <2>2, <3>1 DEF ParentOK, Alive
    <3>3. pc'[initproc] # "exit"
      BY <2>2, <3>1
    <3>q. QED
      BY <2>2, <3>1, <3>2, <3>3 DEF Alive
  <2>5. CASE ForkPublishes(c, p)
    <3>1. /\ state' = [state EXCEPT ![s] = "RUNNABLE"] /\ pc' = [pc EXCEPT ![p] = "sys"]
          /\ pid' = pid /\ parent' = parent /\ killed' = killed /\ nextpid' = nextpid
      BY <2>2, <2>5 DEF ForkPublishes, Goto
    <3>2. ~panic'
      BY <2>5, ForkPublishesInv
    <3>3. parent[s] = p
      BY <2>2, <2>5 DEF ForkPublishes, Runs
    <3>4. ParentOK'
      BY <2>2, <3>1, <3>3 DEF ParentOK, Alive
    <3>q. QED
      BY <2>2, <3>1, <3>2, <3>4 DEF Alive
  <2>q. QED
    BY <1>12, <2>3, <2>4, <2>5
<1>13. ASSUME NEW c \in CPUs, NEW p \in Slots, Wait(c, p) PROVE InitInv'
  <2>1. state[p] = "RUNNING"
    BY <1>13, OnCpu DEF Wait, Runs
  <2>2. CASE Reap(c, p)
    <3>1. PICK z \in Slots : z = Min(Zombies(p)) /\ state[z] = "ZOMBIE" /\ z # initproc
      <4>1. Zombies(p) # {} /\ Zombies(p) \in SUBSET Slots
        BY <2>2 DEF Reap, Zombies, Children
      <4>2. Min(Zombies(p)) \in Zombies(p)
        BY <4>1, FirstSlot
      <4>q. QED
        BY <4>2 DEF Zombies, Children, Alive
    <3>2. /\ state' = [state EXCEPT ![z] = "UNUSED"] /\ pid' = [pid EXCEPT ![z] = 0]
          /\ parent' = [parent EXCEPT ![z] = nullptr] /\ killed' = [killed EXCEPT ![z] = FALSE]
          /\ pc' = [pc EXCEPT ![p] = "sys"] /\ nextpid' = nextpid /\ panic' = panic
      BY <2>2, <3>1 DEF Reap, Goto
    <3>3. ParentOK'
      BY <3>1, <3>2 DEF ParentOK, Alive
    <3>q. QED
      BY <3>1, <3>2, <3>3 DEF Alive
  <2>3. CASE WaitReturnsError(c, p)
    <3>1. /\ state' = state /\ pid' = pid /\ parent' = parent /\ killed' = killed
          /\ nextpid' = nextpid /\ panic' = panic /\ pc' = [pc EXCEPT ![p] = "sys"]
      BY <2>3 DEF WaitReturnsError, Goto
    <3>q. QED
      BY <3>1, InitQuiet
  <2>4. CASE WaitSleeps(c, p)
    <3>1. /\ state' = [state EXCEPT ![p] = "SLEEPING"] /\ pc' = [pc EXCEPT ![p] = "waiting"]
          /\ pid' = pid /\ parent' = parent /\ killed' = killed /\ nextpid' = nextpid
          /\ panic' = panic
      BY <2>4 DEF WaitSleeps, Goto
    <3>2. \A s \in Slots : \/ state'[s] = state[s]
                           \/ Alive(s) /\ state'[s] \in {"RUNNING", "RUNNABLE", "SLEEPING"}
      BY <2>1, <3>1 DEF Alive
    <3>q. QED
      BY <3>1, <3>2, InitQuiet
  <2>q. QED
    BY <1>13, <2>2, <2>3, <2>4 DEF Wait
<1>14. ASSUME NEW c \in CPUs, NEW p \in Slots, Exit(c, p) PROVE InitInv'
  <2>1. p # initproc
    BY <1>14 DEF Exit, Runs
  <2>2. ~panic'
    BY <1>14, <2>1, ExitInv
  <2>3. /\ parent' = [s \in Slots |-> IF parent[s] = p THEN initproc ELSE parent[s]]
        /\ pid' = pid /\ killed' = killed /\ nextpid' = nextpid
        /\ pc' = [pc EXCEPT ![p] = "gone"]
    BY <1>14 DEF Exit, Goto
  <2>4. \A s \in Slots \ {p} : state'[s] = state[s] \/ (Alive(s) /\ state'[s] = "RUNNABLE")
    BY <1>14 DEF Exit, MakeRunnable, Sleepers, Alive
  <2>5. state[p] = "RUNNING"
    BY <1>14, OnCpu DEF Exit, Runs
  <2>6. \A s \in Slots \ {p} : Alive(s) => Alive(s)'
    BY <2>4 DEF Alive
  <2>7. \A s \in Slots : state'[s] \notin {"UNUSED", "EMBRYO"} => state[s] \notin {"UNUSED", "EMBRYO"}
    BY <2>4, <2>5 DEF Alive
  <2>8. ParentOK'
    <3> SUFFICES ASSUME NEW s \in Slots \ {initproc}, state'[s] \notin {"UNUSED", "EMBRYO"}
                 PROVE  parent'[s] \in Slots /\ Alive(parent[s])'
      BY DEF ParentOK
    <3>1. parent[s] \in Slots /\ Alive(parent[s])
      BY <2>7 DEF ParentOK
    <3>2. CASE parent[s] = p
      <4>1. parent'[s] = initproc
        BY <2>3, <3>2
      <4>2. Alive(initproc)'
        BY <2>1, <2>6
      <4>q. QED
        BY <4>1, <4>2 DEF Alive
    <3>3. CASE parent[s] # p
      <4>1. parent'[s] = parent[s]
        BY <2>3, <3>3
      <4>q. QED
        BY <2>6, <3>1, <3>3, <4>1 DEF Alive
    <3>q. QED
      BY <3>2, <3>3
  <2>q. QED
    BY <2>1, <2>2, <2>3, <2>6, <2>8
<1>15. ASSUME UNCHANGED vars PROVE InitInv'
  <2>1. /\ state' = state /\ pid' = pid /\ parent' = parent /\ killed' = killed
        /\ nextpid' = nextpid /\ panic' = panic /\ pc' = [pc EXCEPT ![initproc] = pc[initproc]]
    BY <1>15 DEF vars, procVars
  <2>q. QED
    BY <2>1, InitQuiet
<1>q. QED
  BY <1>1, <1>2, <1>3, <1>4, <1>5, <1>6, <1>7, <1>8, <1>9, <1>10, <1>11, <1>12, <1>13,
     <1>14, <1>15 DEF Next, KernelStep, UserStep

(* So init is there in every reachable state. *)
LEMMA InitInvariant == ASSUME 1 \notin KillPids PROVE Spec => []InitInv
<1>1. Init => InitInv
  <2> SUFFICES ASSUME Init PROVE InitInv
    OBVIOUS
  <2>1. initproc \in Slots
    BY SchedulerAssumption DEF initproc, Slots
  <2>q. QED
    BY <2>1 DEF Init, InitInv, InitOK, ParentOK, Alive
<1>2. InitInv /\ (IInv /\ FamilyOK) /\ [Next]_vars => InitInv'
  BY InitNext
<1>q. QED
  BY <1>1, <1>2, Invariant, PTL DEF Spec

(* Every process but init has a parent that lives, so every zombie can be  *)
(* reaped, also after its parent has exited.                               *)
THEOREM NobodyOrphaned == ASSUME 1 \notin KillPids PROVE Spec => []ParentCanReap
<1>1. InitInv => ParentCanReap
  BY DEF InitInv, ParentOK, Alive, ParentCanReap
<1>q. QED
  BY <1>1, InitInvariant, PTL

(* enqueue_task's ASSERT(task->next == nullptr) holds at each of its six   *)
(* calls, and init does not exit.                                          *)
THEOREM AssertHolds == ASSUME 1 \notin KillPids PROVE Spec => []NoPanic
<1>1. InitInv => NoPanic
  BY DEF InitInv, NoPanic
<1>q. QED
  BY <1>1, InitInvariant, PTL
=============================================================================

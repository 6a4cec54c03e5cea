-------------------------- MODULE BufferCacheProofs -------------------------
(***************************************************************************)
(* For any number of processes, buffers and blocks: a block has one buffer *)
(* in use, a buffer is not recycled under a process, refcnt counts exactly *)
(* the processes that use it, a clean buffer is what the disk holds, and   *)
(* no wakeup of a sleep lock or of the drive is lost.                      *)
(*                                                                         *)
(* The inductive invariant: bcache.head links every buffer once, and the   *)
(* buffer of a block that is in use comes before the others that claim the *)
(* block (MruOK); a call refers to a buffer its process does not hold yet  *)
(* (CallsOK); b->lock belongs to whoever holds the buffer or transfers it  *)
(* (OwnersOK); the queue of the drive holds each buffer under transfer     *)
(* once (QueueOK).                                                         *)
(***************************************************************************)
EXTENDS BufferCache, Integers, TLAPS, FiniteSetTheorems, SequenceTheorems,
        WellFoundedInduction

(* Any nonempty set of natural numbers has a least element. *)
LEMMA SmallestExists ==
    ASSUME NEW S \in SUBSET Nat, S # {}
    PROVE  \E x \in S : \A y \in S : x <= y
<1> DEFINE R == OpToRel(<, Nat)
<1>1. IsWellFoundedOn(R, Nat)
  BY NatLessThanWellFounded
<1>2. PICK x \in S : \A y \in S : ~ (<<y, x>> \in R)
  <2> HIDE DEF R
  <2>q. QED
    BY <1>1, WFMin
<1>3. \A y \in S : ~ (y < x)
  BY <1>2 DEF OpToRel
<1>q. QED
  BY <1>3

Live(b) == refcnt[b] > 0 \/ valid[b]
Users(b) == {p \in Procs : \E ref \in Uses(p) : ref[1] = b}

MruOK ==
    /\ \A i, j \in Bufs : mru[i] = mru[j] => i = j
    /\ \A b \in Bufs : \E i \in Bufs : mru[i] = b
    /\ \A i, j \in Bufs : blockno[mru[i]] = blockno[mru[j]] /\ Live(mru[i]) => i <= j

CallsOK ==
    \A p \in Procs :
        /\ pc[p] = "run" <=> op[p] = None
        /\ op[p] \notin held[p]
        /\ \A ref \in Uses(p) : blockno[ref[1]] = ref[2]

CountsOK == \A b \in Bufs : refcnt[b] = Cardinality(Users(b))

Transferring(p, b) == pc[p] \in {"io", "iowait"} /\ op[p][1] = b

OwnersOK ==
    \A p \in Procs, b \in Bufs :
        owner[b] = p <=> (\E ref \in held[p] : ref[1] = b) \/ Transferring(p, b)

FlagsOK ==
    /\ \A p \in Procs : pc[p] = "io" => dirty[op[p][1]] \/ ~valid[op[p][1]]
    /\ \A b \in Bufs :
          /\ valid[b] /\ ~dirty[b] /\ blockno[b] \notin failed => data[b] = disk[blockno[b]]
          /\ dirty[b] => \E p \in Procs : Transferring(p, b)

Queued(b) == \E j \in 1..Len(idequeue) : idequeue[j] = b

QueueOK ==
    /\ \A j, k \in 1..Len(idequeue) : idequeue[j] = idequeue[k] => j = k
    /\ \A b \in Bufs : Queued(b) => \E p \in Procs : pc[p] = "iowait" /\ op[p][1] = b
    /\ \A p \in Procs : pc[p] = "iowait" =>
          (Queued(op[p][1]) <=> dirty[op[p][1]] \/ ~valid[op[p][1]])

SleepOK ==
    \A p \in Procs : asleep[p] =>
        \/ pc[p] = "lock" /\ owner[op[p][1]] # nullptr
        \/ pc[p] = "iowait" /\ Queued(op[p][1])

IInv ==
    /\ TypeOK
    /\ MruOK
    /\ CallsOK
    /\ CountsOK
    /\ OwnersOK
    /\ FlagsOK
    /\ QueueOK
    /\ SleepOK

-----------------------------------------------------------------------------
(* A set of natural numbers has a smallest element, a set of buffers also  *)
(* a largest: what bget's two searches of the list find.                   *)
LEMMA MostRecentFound ==
    ASSUME NEW S \in SUBSET Bufs, S # {}
    PROVE  \E i \in S : MostRecent(S) = mru[i] /\ \A j \in S : i <= j
<1>1. \E i \in S : \A j \in S : i <= j
  BY SmallestExists DEF Bufs
<1>q. QED
  BY <1>1 DEF MostRecent

(* The buffer that bget recycles is one of those it looks for. *)
LEMMA LeastRecentFound ==
    ASSUME NEW S \in SUBSET Bufs, S # {}
    PROVE  \E i \in S : LeastRecent(S) = mru[i]
<1> NBUF \in Nat
  BY BufferCacheAssumption
<1> DEFINE T == {NBUF - i : i \in S}
<1>1. T \in SUBSET Nat /\ T # {}
  <2>1. \A i \in S : NBUF - i \in Nat
    BY DEF Bufs
  <2>q. QED
    BY <2>1
<1>2. PICK x \in T : \A y \in T : x <= y
  <2> HIDE DEF T
  <2>q. QED
    BY <1>1, SmallestExists
<1>3. PICK i \in S : x = NBUF - i
  BY <1>2
<1>4. \A j \in S : NBUF - j \in T
  OBVIOUS
<1>5. \A j \in S : NBUF - i <= NBUF - j
  BY <1>2, <1>3, <1>4
<1>6. \A j \in S : i >= j
  BY <1>5 DEF Bufs
<1>q. QED
  BY <1>6 DEF LeastRecent

-----------------------------------------------------------------------------
(* What a process knows of the buffer of its call, and of one it holds.    *)
LEMMA UsersFinite ==
    \A b : Users(b) \in SUBSET Procs /\ IsFiniteSet(Users(b)) /\ Cardinality(Users(b)) \in Nat
  BY BufferCacheAssumption, FS_Subset, FS_CardinalityType DEF Users

(* A buffer that a process uses is counted and keeps the process's block. *)
LEMMA UseFacts ==
    ASSUME IInv, NEW p \in Procs, NEW ref \in Uses(p)
    PROVE  /\ ref \in Refs /\ ref[1] \in Bufs /\ ref[2] \in Blocks
           /\ ref = <<ref[1], ref[2]>>
           /\ blockno[ref[1]] = ref[2]
           /\ p \in Users(ref[1])
           /\ refcnt[ref[1]] \in Nat \ {0}
<1>1. ref \in Refs
  BY DEF IInv, TypeOK, Uses
<1>2. p \in Users(ref[1])
  BY DEF Users
<1>3. Cardinality(Users(ref[1])) # 0
  BY <1>2, UsersFinite, FS_EmptySet
<1>4. refcnt[ref[1]] \in Nat \ {0}
  BY <1>1, <1>3 DEF IInv, CountsOK, TypeOK, Refs
<1>q. QED
  BY <1>1, <1>2, <1>4 DEF IInv, CallsOK, Refs

(* A process inside a call has a buffer. *)
LEMMA OpFacts ==
    ASSUME IInv, NEW p \in Procs, pc[p] # "run"
    PROVE  op[p] \in Uses(p) /\ op[p] # None
  BY DEF IInv, CallsOK, Uses

(* A process refers to a buffer only once. *)
LEMMA UsedOnce ==
    ASSUME IInv, NEW p \in Procs, NEW r \in Uses(p), NEW s \in Uses(p), r[1] = s[1]
    PROVE  r = s
  BY UseFacts

(* Two processes do not transfer one buffer, nor does one transfer what    *)
(* another holds.                                                          *)
LEMMA OneTransfer ==
    ASSUME IInv, NEW p \in Procs, NEW q \in Procs, NEW b \in Bufs,
           Transferring(p, b), Transferring(q, b)
    PROVE  p = q
  BY DEF IInv, OwnersOK

(* The counts and the blocks stand while nobody's uses change. *)
LEMMA UsesKept ==
    ASSUME IInv, refcnt' = refcnt,
           \A p \in Procs : Uses(p)' = Uses(p)
    PROVE  CountsOK' /\ \A b : Users(b)' = Users(b)
<1>1. \A b : Users(b)' = Users(b)
  BY DEF Users
<1>q. QED
  BY <1>1 DEF IInv, CountsOK

(* The invariant holds after binit. *)
LEMMA InitInv == Init => IInv
<1> SUFFICES ASSUME Init PROVE IInv
  OBVIOUS
<1> USE BufferCacheAssumption DEF Init
<1>1. TypeOK
  <2>1. mru \in [Bufs -> Bufs]
    BY DEF Bufs
  <2>2. blockno \in [Bufs -> Blocks] /\ refcnt \in [Bufs -> Nat]
    BY DEF Blocks
  <2>3. valid \in [Bufs -> BOOLEAN] /\ dirty \in [Bufs -> BOOLEAN] /\ data \in [Bufs -> BOOLEAN]
    OBVIOUS
  <2>4. idequeue \in Seq(Bufs) /\ disk \in [Blocks -> BOOLEAN]
    BY EmptySeq
  <2>5. owner \in [Bufs -> Procs \cup {nullptr}] /\ failed \in SUBSET Blocks
    OBVIOUS
  <2>6. /\ pc \in [Procs -> {"run", "lock", "io", "iowait", "put"}]
        /\ op \in [Procs -> Refs \cup {None}]
        /\ held \in [Procs -> SUBSET Refs]
        /\ asleep \in [Procs -> BOOLEAN]
    OBVIOUS
  <2>q. QED
    BY <2>1, <2>2, <2>3, <2>4, <2>5, <2>6 DEF TypeOK
<1>2. \A p \in Procs : Uses(p) = {}
  BY DEF Uses
<1>3. \A b \in Bufs : Users(b) = {}
  BY <1>2 DEF Users
<1>4. CountsOK
  BY <1>3, FS_EmptySet DEF CountsOK
<1>5. MruOK
  BY DEF MruOK, Live, Bufs
<1>6. CallsOK /\ OwnersOK
  BY <1>2 DEF CallsOK, OwnersOK, Transferring
<1>7. FlagsOK /\ SleepOK
  BY DEF FlagsOK, SleepOK
<1>8. QueueOK
  BY DEF QueueOK, Queued
<1>q. QED
  BY <1>1, <1>4, <1>5, <1>6, <1>7, <1>8 DEF IInv

-----------------------------------------------------------------------------
(* The list stays right when it and the block numbers do not change and    *)
(* no buffer comes into use.                                               *)
LEMMA MruKept ==
    ASSUME IInv, mru' = mru, blockno' = blockno,
           \A b \in Bufs : Live(b)' => Live(b)
    PROVE  MruOK'
  BY DEF IInv, MruOK, TypeOK

(* The same queue has the same buffers in it. *)
LEMMA QueuedKept ==
    ASSUME idequeue' = idequeue
    PROVE  \A b : Queued(b)' <=> Queued(b)
  BY DEF Queued

(* The buffers of the calls in progress and of bread()'s results. *)
LEMMA Places ==
    ASSUME IInv, NEW p \in Procs
    PROVE  /\ pc[p] # "run" =>
                /\ op[p] \in Refs /\ op[p][1] \in Bufs /\ op[p][2] \in Blocks
                /\ op[p] \notin held[p]
                /\ \A ref \in held[p] : ref[1] # op[p][1]
                /\ refcnt[op[p][1]] \in Nat \ {0}
           /\ \A ref \in held[p] :
                /\ ref \in Refs /\ ref[1] \in Bufs /\ ref[2] \in Blocks
                /\ refcnt[ref[1]] \in Nat \ {0}
                /\ \A r \in held[p] : r[1] = ref[1] => r = ref
<1>1. \A ref \in held[p] : ref \in Uses(p)
  BY DEF Uses
<1>2. pc[p] # "run" => op[p] \in Uses(p)
  BY OpFacts
<1>3. op[p] \notin held[p]
  BY DEF IInv, CallsOK
<1>q. QED
  BY <1>1, <1>2, <1>3, UseFacts, UsedOnce

(* acquiresleep finds the lock taken and sleeps. *)
LEMMA AcquireSleepsInv ==
    ASSUME IInv, NEW p \in Procs, AcquireSleeps(p)
    PROVE  IInv'
<1> USE DEF AcquireSleeps, bufVars, diskVars
<1>1. TypeOK'
  BY DEF IInv, TypeOK
<1>2. MruOK'
  BY MruKept DEF Live
<1>3. CountsOK'
  BY UsesKept DEF Uses
<1>4. CallsOK' /\ OwnersOK' /\ FlagsOK'
  BY DEF IInv, CallsOK, OwnersOK, FlagsOK, Transferring, Uses
<1>5. QueueOK'
  BY QueuedKept DEF IInv, QueueOK
<1>6. SleepOK'
  BY QueuedKept DEF IInv, SleepOK, TypeOK
<1>q. QED
  BY <1>1, <1>2, <1>3, <1>4, <1>5, <1>6 DEF IInv

(* kill() only wakes. *)
LEMMA KillInv ==
    ASSUME IInv, NEW p \in Procs, Kill(p)
    PROVE  IInv'
<1> USE DEF Kill, bufVars, diskVars
<1>1. TypeOK'
  BY DEF IInv, TypeOK
<1>2. MruOK'
  BY MruKept DEF Live
<1>3. CountsOK'
  BY UsesKept DEF Uses
<1>4. CallsOK' /\ OwnersOK' /\ FlagsOK'
  BY DEF IInv, CallsOK, OwnersOK, FlagsOK, Transferring, Uses
<1>5. QueueOK'
  BY QueuedKept DEF IInv, QueueOK
<1>6. SleepOK'
  BY QueuedKept DEF IInv, SleepOK, TypeOK
<1>q. QED
  BY <1>1, <1>2, <1>3, <1>4, <1>5, <1>6 DEF IInv

(* A panic, or nothing: the rest of the state stands. *)
LEMMA UnchangedInv ==
    ASSUME IInv, panic' \in BOOLEAN, UNCHANGED <<mru, bufVars, diskVars, procVars>>
    PROVE  IInv'
<1> USE DEF bufVars, diskVars, procVars
<1>1. TypeOK'
  BY DEF IInv, TypeOK
<1>2. MruOK'
  BY MruKept DEF Live
<1>3. CountsOK'
  BY UsesKept DEF Uses
<1>4. CallsOK' /\ OwnersOK' /\ FlagsOK'
  BY DEF IInv, CallsOK, OwnersOK, FlagsOK, Transferring, Uses
<1>5. QueueOK' /\ SleepOK'
  BY DEF IInv, QueueOK, SleepOK, Queued
<1>q. QED
  BY <1>1, <1>2, <1>3, <1>4, <1>5 DEF IInv

(* acquiresleep takes the lock; bread returns a valid buffer at once. *)
LEMMA AcquiresleepInv ==
    ASSUME IInv, NEW p \in Procs, Acquiresleep(p)
    PROVE  IInv'
<1> DEFINE b == op[p][1]
<1> USE BufferCacheAssumption DEF Acquiresleep, diskVars
<1>1. /\ b \in Bufs /\ op[p] \in Refs /\ op[p] \notin held[p]
      /\ \A ref \in held[p] : ref[1] # b
      /\ owner' = [owner EXCEPT ![b] = p]
      /\ owner[b] = nullptr /\ ~asleep[p] /\ pc[p] = "lock"
  BY Places
<1>2. \/ /\ valid[b]
         /\ pc' = [pc EXCEPT ![p] = "run"]
         /\ op' = [op EXCEPT ![p] = None]
         /\ held' = [held EXCEPT ![p] = @ \cup {op[p]}]
      \/ /\ ~valid[b]
         /\ pc' = [pc EXCEPT ![p] = "io"]
         /\ op' = op
         /\ held' = held
  <2>1. op' = [op EXCEPT ![p] = op[p]] => op' = op
    BY DEF IInv, TypeOK
  <2>q. QED
    BY <2>1 DEF ReturnHeld, Begin
<1> HIDE DEF Acquiresleep, b
<1>3. /\ mru' = mru /\ blockno' = blockno /\ refcnt' = refcnt /\ valid' = valid
      /\ dirty' = dirty /\ data' = data /\ asleep' = asleep /\ panic' = panic
      /\ idequeue' = idequeue /\ disk' = disk /\ failed' = failed /\ ahci' = ahci
  BY DEF Acquiresleep
<1> pc \in [Procs -> {"run", "lock", "io", "iowait", "put"}] /\ op \in [Procs -> Refs \cup {None}]
    /\ held \in [Procs -> SUBSET Refs] /\ owner \in [Bufs -> Procs \cup {nullptr}]
  BY DEF IInv, TypeOK
<1>4. TypeOK'
  <2>1. /\ pc' \in [Procs -> {"run", "lock", "io", "iowait", "put"}]
        /\ op' \in [Procs -> Refs \cup {None}]
        /\ held' \in [Procs -> SUBSET Refs]
    BY <1>1, <1>2
  <2>2. owner' \in [Bufs -> Procs \cup {nullptr}]
    BY <1>1
  <2>q. QED
    BY <1>3, <2>1, <2>2 DEF IInv, TypeOK
<1>5. \A q \in Procs : Uses(q)' = Uses(q)
  BY <1>1, <1>2 DEF Uses, None, Refs
<1>6. MruOK'
  BY <1>3, MruKept DEF Live
<1>7. CountsOK'
  BY <1>3, <1>5, UsesKept
<1>8. CallsOK'
  BY <1>1, <1>2, <1>3, <1>5 DEF IInv, CallsOK, TypeOK, None, Refs
<1>9. OwnersOK'
  BY <1>1, <1>2 DEF IInv, OwnersOK, Transferring, b
<1>10. FlagsOK'
  BY <1>1, <1>2, <1>3 DEF IInv, FlagsOK, Transferring, b
<1>11. QueueOK' /\ SleepOK'
  BY <1>1, <1>2, <1>3, QueuedKept DEF IInv, QueueOK, SleepOK, b
<1>q. QED
  BY <1>4, <1>6, <1>7, <1>8, <1>9, <1>10, <1>11 DEF IInv

(* A buffer goes from bread()'s results to the next call and back: the     *)
(* process uses the same buffers all the time.                             *)
LEMMA TakeHeld ==
    ASSUME IInv, NEW p \in Procs, NEW ref \in held[p], NEW where \in {"io", "put"},
           pc[p] = "run", Begin(p, where, ref), Drop(p, ref)
    PROVE  /\ pc' = [pc EXCEPT ![p] = where]
           /\ op' = [op EXCEPT ![p] = ref]
           /\ held' = [held EXCEPT ![p] = @ \ {ref}]
           /\ pc' \in [Procs -> {"run", "lock", "io", "iowait", "put"}]
           /\ op' \in [Procs -> Refs \cup {None}]
           /\ held' \in [Procs -> SUBSET Refs]
           /\ \A q \in Procs : Uses(q)' = Uses(q)
           /\ blockno' = blockno => CallsOK'
<1> pc \in [Procs -> {"run", "lock", "io", "iowait", "put"}] /\ op \in [Procs -> Refs \cup {None}]
    /\ held \in [Procs -> SUBSET Refs]
  BY DEF IInv, TypeOK
<1>1. /\ pc' = [pc EXCEPT ![p] = where]
      /\ op' = [op EXCEPT ![p] = ref]
      /\ held' = [held EXCEPT ![p] = @ \ {ref}]
  BY DEF Begin, Drop
<1>2. ref \in Refs /\ ref # None /\ op[p] = None
  BY DEF IInv, CallsOK, None, Refs
<1>3. \A q \in Procs : Uses(q)' = Uses(q)
  BY <1>1, <1>2 DEF Uses
<1>4. blockno' = blockno => CallsOK'
  BY <1>1, <1>2, <1>3 DEF IInv, CallsOK
<1>q. QED
  BY <1>1, <1>2, <1>3, <1>4

(* A call that returns a locked buffer to its caller. *)
LEMMA GiveHeld ==
    ASSUME IInv, NEW p \in Procs, pc[p] # "run", ReturnHeld(p)
    PROVE  /\ pc' = [pc EXCEPT ![p] = "run"]
           /\ op' = [op EXCEPT ![p] = None]
           /\ held' = [held EXCEPT ![p] = @ \cup {op[p]}]
           /\ pc' \in [Procs -> {"run", "lock", "io", "iowait", "put"}]
           /\ op' \in [Procs -> Refs \cup {None}]
           /\ held' \in [Procs -> SUBSET Refs]
           /\ \A q \in Procs : Uses(q)' = Uses(q)
           /\ blockno' = blockno => CallsOK'
<1> pc \in [Procs -> {"run", "lock", "io", "iowait", "put"}] /\ op \in [Procs -> Refs \cup {None}]
    /\ held \in [Procs -> SUBSET Refs]
  BY DEF IInv, TypeOK
<1>1. /\ pc' = [pc EXCEPT ![p] = "run"]
      /\ op' = [op EXCEPT ![p] = None]
      /\ held' = [held EXCEPT ![p] = @ \cup {op[p]}]
  BY DEF Begin, ReturnHeld
<1>2. op[p] \in Refs /\ op[p] # None /\ None \notin Refs
  BY DEF IInv, CallsOK, None, Refs
<1>3. \A q \in Procs : Uses(q)' = Uses(q)
  BY <1>1, <1>2 DEF Uses
<1>4. blockno' = blockno => CallsOK'
  BY <1>1, <1>2, <1>3 DEF IInv, CallsOK
<1>q. QED
  BY <1>1, <1>2, <1>3, <1>4

(* bwrite on a buffer the process holds. *)
LEMMA BwriteInv ==
    ASSUME IInv, NEW p \in Procs, NEW ref \in held[p], Bwrite(p, ref)
    PROVE  IInv'
<1> DEFINE b == ref[1]
<1> /\ pc \in [Procs -> {"run", "lock", "io", "iowait", "put"}]
    /\ op \in [Procs -> Refs \cup {None}]
    /\ held \in [Procs -> SUBSET Refs]
    /\ owner \in [Bufs -> Procs \cup {nullptr}]
    /\ valid \in [Bufs -> BOOLEAN] /\ dirty \in [Bufs -> BOOLEAN]
    /\ data \in [Bufs -> BOOLEAN] /\ asleep \in [Procs -> BOOLEAN]
  BY DEF IInv, TypeOK
<1>1. /\ b \in Bufs /\ ref \in Refs /\ pc[p] = "run"
      /\ \A r \in held[p] : r[1] = b => r = ref
  BY Places DEF Bwrite
<1>2. /\ pc' = [pc EXCEPT ![p] = "io"]
      /\ op' = [op EXCEPT ![p] = ref]
      /\ held' = [held EXCEPT ![p] = @ \ {ref}]
      /\ pc' \in [Procs -> {"run", "lock", "io", "iowait", "put"}]
      /\ op' \in [Procs -> Refs \cup {None}]
      /\ held' \in [Procs -> SUBSET Refs]
      /\ \A q \in Procs : Uses(q)' = Uses(q)
      /\ CallsOK'
  BY TakeHeld DEF Bwrite
<1>3. /\ mru' = mru /\ blockno' = blockno /\ refcnt' = refcnt /\ valid' = valid
      /\ owner' = owner /\ asleep' = asleep /\ panic' = panic
      /\ idequeue' = idequeue /\ disk' = disk /\ failed' = failed /\ ahci' = ahci
      /\ data' = [data EXCEPT ![b] = ~@]
      /\ dirty' = [dirty EXCEPT ![b] = TRUE]
  BY DEF Bwrite, diskVars
<1> HIDE DEF b
<1>4. TypeOK'
  <2>1. data' \in [Bufs -> BOOLEAN] /\ dirty' \in [Bufs -> BOOLEAN]
    BY <1>1, <1>3
  <2>q. QED
    BY <1>2, <1>3, <2>1 DEF IInv, TypeOK
<1>5. MruOK'
  BY <1>3, MruKept DEF Live
<1>6. CountsOK'
  BY <1>2, <1>3, UsesKept
<1>7. OwnersOK'
  BY <1>1, <1>2, <1>3 DEF IInv, OwnersOK, Transferring, b
<1>8. owner[b] = p
  BY <1>1 DEF IInv, OwnersOK, b
<1>9. \A q \in Procs : Transferring(q, b) => FALSE
  <2>1. ASSUME NEW q \in Procs, Transferring(q, b) PROVE FALSE
    <3>1. q = p
      BY <1>1, <1>8, <2>1 DEF IInv, OwnersOK
    <3>q. QED
      BY <1>1, <2>1, <3>1 DEF Transferring
  <2>q. QED
    BY <2>1
<1>10. FlagsOK'
  <2>1. Transferring(p, b)' /\ \A q \in Procs, c \in Bufs : Transferring(q, c) => Transferring(q, c)'
    BY <1>1, <1>2 DEF Transferring, b
  <2>2. \A c \in Bufs : dirty'[c] => \E q \in Procs : Transferring(q, c)'
    BY <1>1, <1>3, <2>1 DEF IInv, FlagsOK
  <2>3. ASSUME NEW q \in Procs, pc'[q] = "io" PROVE dirty'[op'[q][1]] \/ ~valid'[op'[q][1]]
    <3>1. CASE q = p
      BY <1>1, <1>2, <1>3, <3>1 DEF b
    <3>2. CASE q # p
      <4>1. pc[q] = "io" /\ op'[q] = op[q] /\ op[q][1] \in Bufs
        BY <1>2, <2>3, <3>2, Places
      <4>q. QED
        BY <1>1, <1>3, <4>1 DEF IInv, FlagsOK
    <3>q. QED
      BY <3>1, <3>2
  <2>q. QED
    BY <1>1, <1>3, <2>2, <2>3 DEF IInv, FlagsOK
<1>11. QueueOK'
  <2>1. \A q \in Procs : pc[q] = "iowait" => op[q][1] # b
    BY <1>9 DEF Transferring
  <2>2. \A q \in Procs : pc'[q] = "iowait" <=> pc[q] = "iowait"
    BY <1>1, <1>2
  <2>3. \A q \in Procs : pc[q] = "iowait" => op'[q] = op[q] /\ op[q][1] \in Bufs
    BY <1>1, <1>2, Places
  <2>q. QED
    BY <1>1, <1>3, <2>1, <2>2, <2>3, QueuedKept DEF IInv, QueueOK
<1>12. SleepOK'
  BY <1>1, <1>2, <1>3, QueuedKept DEF IInv, SleepOK
<1>q. QED
  BY <1>2, <1>4, <1>5, <1>6, <1>7, <1>10, <1>11, <1>12 DEF IInv

(* brelse gives up the lock and wakes who waits for it. *)
LEMMA ReleasesleepInv ==
    ASSUME IInv, NEW p \in Procs, NEW ref \in held[p], Releasesleep(p, ref)
    PROVE  IInv'
<1> DEFINE b == ref[1]
<1> /\ pc \in [Procs -> {"run", "lock", "io", "iowait", "put"}]
    /\ op \in [Procs -> Refs \cup {None}]
    /\ held \in [Procs -> SUBSET Refs]
    /\ owner \in [Bufs -> Procs \cup {nullptr}]
    /\ valid \in [Bufs -> BOOLEAN] /\ dirty \in [Bufs -> BOOLEAN]
    /\ data \in [Bufs -> BOOLEAN] /\ asleep \in [Procs -> BOOLEAN]
  BY DEF IInv, TypeOK
<1>1. /\ b \in Bufs /\ ref \in Refs /\ pc[p] = "run"
      /\ \A r \in held[p] : r[1] = b => r = ref
  BY Places DEF Releasesleep
<1>2. /\ pc' = [pc EXCEPT ![p] = "put"]
      /\ op' = [op EXCEPT ![p] = ref]
      /\ held' = [held EXCEPT ![p] = @ \ {ref}]
      /\ pc' \in [Procs -> {"run", "lock", "io", "iowait", "put"}]
      /\ op' \in [Procs -> Refs \cup {None}]
      /\ held' \in [Procs -> SUBSET Refs]
      /\ \A q \in Procs : Uses(q)' = Uses(q)
      /\ CallsOK'
  BY TakeHeld DEF Releasesleep
<1>3. /\ mru' = mru /\ blockno' = blockno /\ refcnt' = refcnt /\ valid' = valid
      /\ data' = data /\ dirty' = dirty /\ panic' = panic
      /\ idequeue' = idequeue /\ disk' = disk /\ failed' = failed /\ ahci' = ahci
      /\ owner' = [owner EXCEPT ![b] = nullptr]
      /\ asleep' = [q \in Procs |-> asleep[q] /\ ~(pc[q] = "lock" /\ op[q][1] = b)]
  BY DEF Releasesleep, Wakeup, diskVars
<1> HIDE DEF b
<1>4. TypeOK'
  <2>1. owner' \in [Bufs -> Procs \cup {nullptr}] /\ asleep' \in [Procs -> BOOLEAN]
    BY <1>1, <1>3
  <2>q. QED
    BY <1>2, <1>3, <2>1 DEF IInv, TypeOK
<1>5. MruOK'
  BY <1>3, MruKept DEF Live
<1>6. CountsOK'
  BY <1>2, <1>3, UsesKept
<1>7. owner[b] = p
  BY <1>1 DEF IInv, OwnersOK, b
<1>8. OwnersOK'
  <2>1. ASSUME NEW q \in Procs, NEW c \in Bufs, c # b
        PROVE  owner'[c] = q <=> (\E r \in held'[q] : r[1] = c) \/ Transferring(q, c)'
    BY <1>1, <1>2, <1>3, <2>1 DEF IInv, OwnersOK, Transferring, b
  <2>2. ASSUME NEW q \in Procs
        PROVE  /\ owner'[b] # q
               /\ ~ \E r \in held'[q] : r[1] = b
               /\ ~ Transferring(q, b)'
    <3>1. owner'[b] # q
      BY <1>1, <1>3, BufferCacheAssumption
    <3>2. CASE q = p
      BY <1>1, <1>2, <3>1, <3>2 DEF Transferring
    <3>3. CASE q # p
      BY <1>1, <1>2, <1>7, <3>1, <3>3 DEF Transferring, IInv, OwnersOK
    <3>q. QED
      BY <3>2, <3>3
  <2>q. QED
    BY <2>1, <2>2 DEF OwnersOK
<1>9. FlagsOK'
  BY <1>1, <1>2, <1>3 DEF IInv, FlagsOK, Transferring
<1>10. QueueOK'
  BY <1>1, <1>2, <1>3, QueuedKept DEF IInv, QueueOK
<1>11. SleepOK'
  BY <1>1, <1>2, <1>3, QueuedKept, Places DEF IInv, SleepOK
<1>q. QED
  BY <1>2, <1>4, <1>5, <1>6, <1>8, <1>9, <1>10, <1>11 DEF IInv

(* iderw's loop: done, or the process was woken early and sleeps again. *)
LEMMA IoDoneInv ==
    ASSUME IInv, NEW p \in Procs, IoDone(p)
    PROVE  IInv'
<1> DEFINE b == op[p][1]
<1> /\ pc \in [Procs -> {"run", "lock", "io", "iowait", "put"}]
    /\ op \in [Procs -> Refs \cup {None}]
    /\ held \in [Procs -> SUBSET Refs]
    /\ owner \in [Bufs -> Procs \cup {nullptr}]
    /\ valid \in [Bufs -> BOOLEAN] /\ dirty \in [Bufs -> BOOLEAN]
    /\ data \in [Bufs -> BOOLEAN] /\ asleep \in [Procs -> BOOLEAN]
  BY DEF IInv, TypeOK
<1>1. /\ b \in Bufs /\ op[p] \in Refs /\ op[p] \notin held[p]
      /\ pc[p] = "iowait" /\ ~asleep[p]
      /\ Transferring(p, b)
  BY Places DEF IoDone, Transferring
<1>2. /\ mru' = mru /\ blockno' = blockno /\ refcnt' = refcnt /\ valid' = valid
      /\ data' = data /\ dirty' = dirty /\ panic' = panic /\ owner' = owner
      /\ idequeue' = idequeue /\ disk' = disk /\ failed' = failed /\ ahci' = ahci
  BY DEF IoDone, bufVars, diskVars
<1>3. MruOK'
  BY <1>2, MruKept DEF Live
<1>4. CASE valid[b] /\ ~dirty[b]
  <2>1. asleep' = asleep /\ ReturnHeld(p)
    BY <1>4 DEF IoDone
  <2>2. /\ pc' = [pc EXCEPT ![p] = "run"]
        /\ op' = [op EXCEPT ![p] = None]
        /\ held' = [held EXCEPT ![p] = @ \cup {op[p]}]
        /\ pc' \in [Procs -> {"run", "lock", "io", "iowait", "put"}]
        /\ op' \in [Procs -> Refs \cup {None}]
        /\ held' \in [Procs -> SUBSET Refs]
        /\ \A q \in Procs : Uses(q)' = Uses(q)
        /\ CallsOK'
    BY <1>1, <1>2, <2>1, GiveHeld
  <2> HIDE DEF b
  <2>3. TypeOK'
    BY <1>2, <2>1, <2>2 DEF IInv, TypeOK
  <2>4. CountsOK'
    BY <1>2, <2>2, UsesKept
  <2>5. OwnersOK'
    BY <1>1, <1>2, <2>2 DEF IInv, OwnersOK, Transferring, b
  <2>6. \A q \in Procs : Transferring(q, b) => q = p
    BY <1>1, OneTransfer
  <2>7. FlagsOK'
    <3>1. \A q \in Procs, c \in Bufs : c # b /\ Transferring(q, c) => Transferring(q, c)'
      BY <1>1, <2>2 DEF Transferring, b
    <3>2. \A q \in Procs : pc'[q] = "io" => pc[q] = "io" /\ op'[q] = op[q]
      BY <1>1, <2>2
    <3>q. QED
      BY <1>1, <1>2, <1>4, <3>1, <3>2 DEF IInv, FlagsOK
  <2>8. ~ Queued(b)
    BY <1>1, <1>4 DEF IInv, QueueOK, b
  <2>9. QueueOK'
    <3>1. \A q \in Procs : pc'[q] = "iowait" => pc[q] = "iowait" /\ op'[q] = op[q]
      BY <1>1, <2>2
    <3>2. \A q \in Procs : pc[q] = "iowait" /\ op[q][1] # b => pc'[q] = "iowait" /\ op'[q] = op[q]
      BY <1>1, <2>2 DEF b
    <3>q. QED
      BY <1>1, <1>2, <2>8, <3>1, <3>2, QueuedKept DEF IInv, QueueOK
  <2>10. SleepOK'
    BY <1>1, <1>2, <2>1, <2>2, QueuedKept DEF IInv, SleepOK
  <2>q. QED
    BY <1>3, <2>2, <2>3, <2>4, <2>5, <2>7, <2>9, <2>10 DEF IInv
<1>5. CASE ~(valid[b] /\ ~dirty[b])
  <2>1. asleep' = [asleep EXCEPT ![p] = TRUE] /\ pc' = pc /\ op' = op /\ held' = held
    BY <1>5 DEF IoDone
  <2>2. Queued(b)
    BY <1>1, <1>5 DEF IInv, QueueOK
  <2>3. TypeOK'
    BY <1>2, <2>1 DEF IInv, TypeOK
  <2>4. CountsOK'
    BY <1>2, <2>1, UsesKept DEF Uses
  <2>5. CallsOK' /\ OwnersOK' /\ FlagsOK'
    BY <1>2, <2>1 DEF IInv, CallsOK, OwnersOK, FlagsOK, Transferring, Uses
  <2>6. QueueOK' /\ SleepOK'
    BY <1>1, <1>2, <2>1, <2>2, QueuedKept DEF IInv, QueueOK, SleepOK
  <2>q. QED
    BY <1>3, <2>3, <2>4, <2>5, <2>6 DEF IInv
<1>q. QED
  BY <1>4, <1>5

(* What Append and Tail do to the drive's queue. *)
LEMMA QueueAppended ==
    ASSUME idequeue \in Seq(Bufs), NEW b \in Bufs, idequeue' = Append(idequeue, b),
           \A j, k \in 1..Len(idequeue) : idequeue[j] = idequeue[k] => j = k,
           ~ Queued(b)
    PROVE  /\ idequeue' \in Seq(Bufs)
           /\ \A c : Queued(c)' <=> Queued(c) \/ c = b
           /\ \A j, k \in 1..Len(idequeue') : idequeue'[j] = idequeue'[k] => j = k
<1>1. /\ idequeue' \in Seq(Bufs)
      /\ Len(idequeue) \in Nat
      /\ Len(idequeue') = Len(idequeue) + 1
      /\ \A j \in 1..Len(idequeue) : idequeue'[j] = idequeue[j]
      /\ idequeue'[Len(idequeue) + 1] = b
  BY AppendProperties, LenProperties
<1>q. QED
  BY <1>1 DEF Queued

(* ideintr takes the first buffer off the queue, and no other. *)
LEMMA QueueTail ==
    ASSUME idequeue \in Seq(Bufs), idequeue # <<>>, idequeue' = Tail(idequeue),
           \A j, k \in 1..Len(idequeue) : idequeue[j] = idequeue[k] => j = k
    PROVE  /\ idequeue' \in Seq(Bufs)
           /\ Head(idequeue) \in Bufs /\ Queued(Head(idequeue))
           /\ \A c : Queued(c)' <=> Queued(c) /\ c # Head(idequeue)
           /\ \A j, k \in 1..Len(idequeue') : idequeue'[j] = idequeue'[k] => j = k
<1>1. /\ Len(idequeue) \in Nat \ {0}
      /\ Head(idequeue) = idequeue[1]
      /\ Head(idequeue) \in Bufs
      /\ idequeue' \in Seq(Bufs)
      /\ Len(idequeue') = Len(idequeue) - 1
      /\ \A j \in 1..Len(idequeue') : idequeue'[j] = idequeue[j + 1]
  BY HeadTailProperties, EmptySeq
<1>2. Queued(Head(idequeue))
  BY <1>1 DEF Queued
<1>3. ASSUME NEW c PROVE Queued(c)' <=> Queued(c) /\ c # Head(idequeue)
  <2>1. ASSUME NEW j \in 1..Len(idequeue), idequeue[j] = c, c # Head(idequeue)
        PROVE  j - 1 \in 1..Len(idequeue') /\ idequeue'[j - 1] = c
    BY <1>1, <2>1
  <2>2. ASSUME NEW j \in 1..Len(idequeue'), idequeue'[j] = c
        PROVE  j + 1 \in 1..Len(idequeue) /\ idequeue[j + 1] = c /\ c # Head(idequeue)
    BY <1>1, <2>2
  <2>q. QED
    BY <2>1, <2>2 DEF Queued
<1>4. \A j, k \in 1..Len(idequeue') : idequeue'[j] = idequeue'[k] => j = k
  BY <1>1
<1>q. QED
  BY <1>1, <1>2, <1>3, <1>4

(* iderw queues the buffer, which is not in the queue yet. *)
LEMMA IderwInv ==
    ASSUME IInv, NEW p \in Procs, Iderw(p)
    PROVE  IInv'
<1> DEFINE b == op[p][1]
<1> /\ pc \in [Procs -> {"run", "lock", "io", "iowait", "put"}]
    /\ op \in [Procs -> Refs \cup {None}]
    /\ held \in [Procs -> SUBSET Refs]
    /\ owner \in [Bufs -> Procs \cup {nullptr}]
    /\ valid \in [Bufs -> BOOLEAN] /\ dirty \in [Bufs -> BOOLEAN]
    /\ data \in [Bufs -> BOOLEAN] /\ asleep \in [Procs -> BOOLEAN]
  BY DEF IInv, TypeOK
<1>1. b \in Bufs /\ pc[p] = "io" /\ Transferring(p, b)
  BY Places DEF Iderw, Transferring
<1>2. /\ mru' = mru /\ blockno' = blockno /\ refcnt' = refcnt /\ valid' = valid
      /\ data' = data /\ dirty' = dirty /\ panic' = panic /\ owner' = owner
      /\ disk' = disk /\ failed' = failed /\ ahci' = ahci
      /\ op' = op /\ held' = held
      /\ idequeue' = Append(idequeue, b)
      /\ pc' = [pc EXCEPT ![p] = "iowait"]
      /\ asleep' = [asleep EXCEPT ![p] = TRUE]
  BY DEF Iderw, bufVars
<1>3. ~ Queued(b)
  BY <1>1, OneTransfer DEF IInv, QueueOK, Transferring
<1> HIDE DEF b
<1>4. /\ idequeue' \in Seq(Bufs)
      /\ \A c : Queued(c)' <=> Queued(c) \/ c = b
      /\ \A j, k \in 1..Len(idequeue') : idequeue'[j] = idequeue'[k] => j = k
  BY <1>1, <1>2, <1>3, QueueAppended DEF IInv, TypeOK, QueueOK
<1>5. TypeOK'
  BY <1>2, <1>4 DEF IInv, TypeOK
<1>6. MruOK'
  BY <1>2, MruKept DEF Live
<1>7. CountsOK'
  BY <1>2, UsesKept DEF Uses
<1>8. \A q \in Procs, c \in Bufs : Transferring(q, c)' <=> Transferring(q, c)
  BY <1>1, <1>2 DEF Transferring
<1>9. CallsOK' /\ OwnersOK'
  BY <1>1, <1>2, <1>8 DEF IInv, CallsOK, OwnersOK, Uses
<1>10. FlagsOK'
  BY <1>1, <1>2, <1>8 DEF IInv, FlagsOK
<1>11. QueueOK'
  <2>1. \A c \in Bufs : Queued(c)' => \E q \in Procs : pc'[q] = "iowait" /\ op'[q][1] = c
    BY <1>1, <1>2, <1>4 DEF IInv, QueueOK, b
  <2>2. dirty[b] \/ ~valid[b]
    BY <1>1 DEF IInv, FlagsOK, b
  <2>3. \A q \in Procs : q # p /\ pc[q] = "iowait" => op[q][1] # b
    BY <1>1, OneTransfer DEF Transferring
  <2>4. ASSUME NEW q \in Procs, pc'[q] = "iowait"
        PROVE  (Queued(op[q][1]) <=> dirty[op[q][1]] \/ ~valid[op[q][1]])'
    BY <2>4, <1>1, <1>2, <1>4, <2>2, <2>3 DEF IInv, QueueOK, b
  <2>q. QED
    BY <1>4, <2>1, <2>4 DEF QueueOK
<1>12. SleepOK'
  BY <1>1, <1>2, <1>4 DEF IInv, SleepOK, b
<1>q. QED
  BY <1>5, <1>6, <1>7, <1>9, <1>10, <1>11, <1>12 DEF IInv

-----------------------------------------------------------------------------
(* A block has one live buffer. *)
LEMMA OneLiveCopy ==
    ASSUME IInv, NEW b \in Bufs, NEW c \in Bufs, blockno[b] = blockno[c], Live(b), Live(c)
    PROVE  b = c
<1>1. PICK i \in Bufs, j \in Bufs : mru[i] = b /\ mru[j] = c
  BY DEF IInv, MruOK
<1>2. i <= j /\ j <= i
  BY <1>1 DEF IInv, MruOK
<1>3. i = j
  BY <1>2, BufferCacheAssumption DEF Bufs
<1>q. QED
  BY <1>1, <1>3

(* After a transfer the buffer and the disk agree, unless the drive failed *)
(* it; no other buffer of that block is affected.                          *)
LEMMA TransferDone ==
    ASSUME IInv, NEW q \in Procs, NEW b \in Bufs, NEW ok \in BOOLEAN,
           Transferring(q, b), Transfer(b, ok), blockno' = blockno, refcnt' = refcnt
    PROVE  /\ disk' \in [Blocks -> BOOLEAN] /\ failed' \in SUBSET Blocks
           /\ data' \in [Bufs -> BOOLEAN]
           /\ valid' \in [Bufs -> BOOLEAN] /\ dirty' \in [Bufs -> BOOLEAN]
           /\ valid'[b] /\ ~dirty'[b]
           /\ \A c \in Bufs \ {b} : valid'[c] = valid[c] /\ dirty'[c] = dirty[c]
           /\ \A c \in Bufs : Live(c)' => Live(c)
           /\ \A c \in Bufs : valid'[c] /\ ~dirty'[c] /\ blockno'[c] \notin failed'
                 => data'[c] = disk'[blockno'[c]]
<1> DEFINE k == blockno[b]
<1> /\ blockno \in [Bufs -> Blocks] /\ disk \in [Blocks -> BOOLEAN] /\ failed \in SUBSET Blocks
    /\ valid \in [Bufs -> BOOLEAN] /\ dirty \in [Bufs -> BOOLEAN] /\ data \in [Bufs -> BOOLEAN]
  BY DEF IInv, TypeOK
<1>1. k \in Blocks
  OBVIOUS
<1>2. /\ disk' = [disk EXCEPT ![k] = IF dirty[b] /\ ok THEN data[b] ELSE @]
      /\ data' = [data EXCEPT ![b] = IF ~dirty[b] /\ ok THEN disk[k] ELSE @]
      /\ failed' = IF ok THEN failed \ {k} ELSE failed \cup {k}
      /\ valid' = [valid EXCEPT ![b] = TRUE]
      /\ dirty' = [dirty EXCEPT ![b] = FALSE]
  BY DEF Transfer
<1>3. refcnt[b] \in Nat \ {0}
  BY Places DEF Transferring
<1>4. Live(b)
  BY <1>3 DEF Live
<1>5. \A c \in Bufs : blockno[c] = k /\ valid[c] => c = b
  BY <1>4, OneLiveCopy DEF Live
<1> HIDE DEF k
<1>6. disk' \in [Blocks -> BOOLEAN] /\ data' \in [Bufs -> BOOLEAN]
  BY <1>1, <1>2
<1>7. failed' \in SUBSET Blocks /\ valid' \in [Bufs -> BOOLEAN] /\ dirty' \in [Bufs -> BOOLEAN]
  BY <1>1, <1>2
<1>8. \A c \in Bufs \ {b} : valid'[c] = valid[c] /\ dirty'[c] = dirty[c] /\ data'[c] = data[c]
  BY <1>2
<1>9. valid'[b] /\ ~dirty'[b]
  BY <1>2
<1>10. \A c \in Bufs : Live(c)' => Live(c)
  BY <1>3, <1>8 DEF Live
<1>11. ASSUME NEW c \in Bufs, valid'[c], ~dirty'[c], blockno'[c] \notin failed'
       PROVE  data'[c] = disk'[blockno'[c]]
  <2>1. CASE c = b
    <3>1. ok /\ blockno'[c] = k
      BY <1>1, <1>2, <1>11, <2>1 DEF k
    <3>2. CASE dirty[b]
      BY <1>1, <1>2, <2>1, <3>1, <3>2
    <3>3. CASE ~dirty[b]
      BY <1>1, <1>2, <2>1, <3>1, <3>3
    <3>q. QED
      BY <3>2, <3>3
  <2>2. CASE c # b
    <3>1. valid[c] /\ ~dirty[c] /\ data'[c] = data[c]
      BY <1>8, <1>11, <2>2
    <3>2. blockno[c] # k
      BY <1>5, <2>2, <3>1
    <3>3. blockno[c] \notin failed /\ disk'[blockno[c]] = disk[blockno[c]]
      BY <1>1, <1>2, <1>11, <3>2
    <3>q. QED
      BY <3>1, <3>3 DEF IInv, FlagsOK
  <2>q. QED
    BY <2>1, <2>2
<1>q. QED
  BY <1>6, <1>7, <1>8, <1>9, <1>10, <1>11

(* iderw on AHCI: the transfer is done when it returns. *)
LEMMA AhciRwInv ==
    ASSUME IInv, NEW p \in Procs, AhciRw(p)
    PROVE  IInv'
<1> DEFINE b == op[p][1]
<1> /\ pc \in [Procs -> {"run", "lock", "io", "iowait", "put"}]
    /\ op \in [Procs -> Refs \cup {None}]
    /\ held \in [Procs -> SUBSET Refs]
    /\ owner \in [Bufs -> Procs \cup {nullptr}]
    /\ valid \in [Bufs -> BOOLEAN] /\ dirty \in [Bufs -> BOOLEAN]
    /\ data \in [Bufs -> BOOLEAN] /\ asleep \in [Procs -> BOOLEAN]
  BY DEF IInv, TypeOK
<1>1. /\ b \in Bufs /\ op[p] \in Refs /\ op[p] \notin held[p]
      /\ pc[p] = "io" /\ Transferring(p, b)
  BY Places DEF AhciRw, Transferring
<1>2. /\ mru' = mru /\ blockno' = blockno /\ refcnt' = refcnt /\ panic' = panic
      /\ owner' = owner /\ idequeue' = idequeue /\ ahci' = ahci /\ asleep' = asleep
      /\ Transfer(b, TRUE)
  BY DEF AhciRw
<1>3. /\ disk' \in [Blocks -> BOOLEAN] /\ failed' \in SUBSET Blocks
      /\ data' \in [Bufs -> BOOLEAN]
      /\ valid' \in [Bufs -> BOOLEAN] /\ dirty' \in [Bufs -> BOOLEAN]
      /\ valid'[b] /\ ~dirty'[b]
      /\ \A c \in Bufs \ {b} : valid'[c] = valid[c] /\ dirty'[c] = dirty[c]
      /\ \A c \in Bufs : Live(c)' => Live(c)
      /\ \A c \in Bufs : valid'[c] /\ ~dirty'[c] /\ blockno'[c] \notin failed'
            => data'[c] = disk'[blockno'[c]]
  BY <1>1, <1>2, TransferDone
<1>4. /\ pc' = [pc EXCEPT ![p] = "run"]
      /\ op' = [op EXCEPT ![p] = None]
      /\ held' = [held EXCEPT ![p] = @ \cup {op[p]}]
      /\ pc' \in [Procs -> {"run", "lock", "io", "iowait", "put"}]
      /\ op' \in [Procs -> Refs \cup {None}]
      /\ held' \in [Procs -> SUBSET Refs]
      /\ \A q \in Procs : Uses(q)' = Uses(q)
      /\ CallsOK'
  BY <1>1, <1>2, GiveHeld DEF AhciRw
<1> HIDE DEF b
<1>5. TypeOK'
  BY <1>2, <1>3, <1>4 DEF IInv, TypeOK
<1>6. MruOK'
  BY <1>2, <1>3, MruKept
<1>7. CountsOK'
  BY <1>2, <1>4, UsesKept
<1>8. OwnersOK'
  BY <1>1, <1>2, <1>4 DEF IInv, OwnersOK, Transferring, b
<1>9. \A q \in Procs : Transferring(q, b) => q = p
  BY <1>1, OneTransfer
<1>10. FlagsOK'
  <2>1. \A q \in Procs, c \in Bufs : c # b /\ Transferring(q, c) => Transferring(q, c)'
    BY <1>1, <1>4 DEF Transferring, b
  <2>2. \A c \in Bufs : dirty'[c] => c # b /\ dirty[c]
    BY <1>3
  <2>3. \A q \in Procs : pc'[q] = "io" =>
            pc[q] = "io" /\ op'[q] = op[q] /\ op[q][1] \in Bufs \ {b}
    BY <1>1, <1>4, <1>9, Places DEF Transferring
  <2>4. \A q \in Procs : pc'[q] = "io" => dirty'[op'[q][1]] \/ ~valid'[op'[q][1]]
    BY <1>3, <2>3 DEF IInv, FlagsOK
  <2>5. \A c \in Bufs : dirty'[c] => \E q \in Procs : Transferring(q, c)'
    BY <2>1, <2>2 DEF IInv, FlagsOK
  <2>q. QED
    BY <1>3, <2>4, <2>5 DEF FlagsOK
<1>11. QueueOK'
  <2>1. \A q \in Procs : /\ pc'[q] = "iowait" <=> pc[q] = "iowait"
                         /\ pc[q] = "iowait" => op'[q] = op[q] /\ op[q][1] \in Bufs \ {b}
    BY <1>1, <1>4, <1>9, Places DEF Transferring
  <2>q. QED
    BY <1>2, <1>3, <2>1, QueuedKept DEF IInv, QueueOK
<1>12. SleepOK'
  BY <1>1, <1>2, <1>4, QueuedKept DEF IInv, SleepOK
<1>q. QED
  BY <1>4, <1>5, <1>6, <1>7, <1>8, <1>10, <1>11, <1>12 DEF IInv

(* The drive's interrupt completes the head of the queue and wakes its     *)
(* process.                                                                *)
LEMMA IdeintrInv ==
    ASSUME IInv, NEW ok \in BOOLEAN, Ideintr(ok)
    PROVE  IInv'
<1> DEFINE b == Head(idequeue)
<1> /\ pc \in [Procs -> {"run", "lock", "io", "iowait", "put"}]
    /\ op \in [Procs -> Refs \cup {None}]
    /\ held \in [Procs -> SUBSET Refs]
    /\ owner \in [Bufs -> Procs \cup {nullptr}]
    /\ valid \in [Bufs -> BOOLEAN] /\ dirty \in [Bufs -> BOOLEAN]
    /\ data \in [Bufs -> BOOLEAN] /\ asleep \in [Procs -> BOOLEAN]
  BY DEF IInv, TypeOK
<1>1. /\ mru' = mru /\ blockno' = blockno /\ refcnt' = refcnt /\ panic' = panic
      /\ owner' = owner /\ ahci' = ahci /\ pc' = pc /\ op' = op /\ held' = held
      /\ Transfer(b, ok) /\ idequeue # <<>> /\ idequeue' = Tail(idequeue)
      /\ asleep' = [q \in Procs |-> asleep[q] /\ ~(pc[q] = "iowait" /\ op[q][1] = b)]
  BY DEF Ideintr, Wakeup
<1>2. /\ idequeue' \in Seq(Bufs) /\ b \in Bufs /\ Queued(b)
      /\ \A c : Queued(c)' <=> Queued(c) /\ c # b
      /\ \A j, k \in 1..Len(idequeue') : idequeue'[j] = idequeue'[k] => j = k
  BY <1>1, QueueTail DEF IInv, TypeOK, QueueOK
<1> HIDE DEF b
<1>3. PICK p \in Procs : pc[p] = "iowait" /\ op[p][1] = b
  BY <1>2 DEF IInv, QueueOK
<1>4. Transferring(p, b) /\ \A q \in Procs : Transferring(q, b) => q = p
  BY <1>2, <1>3, OneTransfer DEF Transferring
<1>5. /\ disk' \in [Blocks -> BOOLEAN] /\ failed' \in SUBSET Blocks
      /\ data' \in [Bufs -> BOOLEAN]
      /\ valid' \in [Bufs -> BOOLEAN] /\ dirty' \in [Bufs -> BOOLEAN]
      /\ valid'[b] /\ ~dirty'[b]
      /\ \A c \in Bufs \ {b} : valid'[c] = valid[c] /\ dirty'[c] = dirty[c]
      /\ \A c \in Bufs : Live(c)' => Live(c)
      /\ \A c \in Bufs : valid'[c] /\ ~dirty'[c] /\ blockno'[c] \notin failed'
            => data'[c] = disk'[blockno'[c]]
  BY <1>1, <1>2, <1>4, TransferDone
<1>6. TypeOK'
  <2>1. asleep' \in [Procs -> BOOLEAN]
    BY <1>1
  <2>q. QED
    BY <1>1, <1>2, <1>5, <2>1 DEF IInv, TypeOK
<1>7. MruOK'
  BY <1>1, <1>5, MruKept
<1>8. CountsOK'
  BY <1>1, UsesKept DEF Uses
<1>9. CallsOK' /\ OwnersOK'
  BY <1>1 DEF IInv, CallsOK, OwnersOK, Uses, Transferring
<1>10. FlagsOK'
  <2>1. \A q \in Procs, c \in Bufs : Transferring(q, c)' <=> Transferring(q, c)
    BY <1>1 DEF Transferring
  <2>2. \A c \in Bufs : dirty'[c] => \E q \in Procs : Transferring(q, c)'
    BY <1>5, <2>1 DEF IInv, FlagsOK
  <2>3. \A q \in Procs : pc[q] = "io" => op[q][1] \in Bufs \ {b}
    BY <1>2, <1>3, <1>4, Places DEF Transferring
  <2>4. \A q \in Procs : pc'[q] = "io" => dirty'[op'[q][1]] \/ ~valid'[op'[q][1]]
    BY <1>1, <1>5, <2>3 DEF IInv, FlagsOK
  <2>q. QED
    BY <1>5, <2>2, <2>4 DEF FlagsOK
<1>11. QueueOK'
  <2>1. \A q \in Procs : pc[q] = "iowait" => op[q][1] \in Bufs
    BY Places
  <2>2. ASSUME NEW q \in Procs, pc'[q] = "iowait"
        PROVE  (Queued(op[q][1]) <=> dirty[op[q][1]] \/ ~valid[op[q][1]])'
    BY <1>1, <1>2, <1>5, <2>1, <2>2 DEF IInv, QueueOK
  <2>q. QED
    BY <1>1, <1>2, <2>2 DEF IInv, QueueOK
<1>12. SleepOK'
  BY <1>1, <1>2 DEF IInv, SleepOK
<1>q. QED
  BY <1>6, <1>7, <1>8, <1>9, <1>10, <1>11, <1>12 DEF IInv

-----------------------------------------------------------------------------
(* bget makes the process a user of one more buffer. *)
LEMMA NewUse ==
    ASSUME IInv, NEW p \in Procs, NEW b \in Bufs, NEW k \in Blocks,
           pc[p] = "run", p \notin Users(b), Begin(p, "lock", <<b, k>>), held' = held
    PROVE  /\ pc' = [pc EXCEPT ![p] = "lock"]
           /\ op' = [op EXCEPT ![p] = <<b, k>>]
           /\ pc' \in [Procs -> {"run", "lock", "io", "iowait", "put"}]
           /\ op' \in [Procs -> Refs \cup {None}]
           /\ op'[p] \notin held'[p]
           /\ Uses(p)' = Uses(p) \cup {<<b, k>>}
           /\ \A q \in Procs \ {p} : Uses(q)' = Uses(q)
           /\ Cardinality(Users(b)') = Cardinality(Users(b)) + 1
           /\ \A c \in Bufs \ {b} : Users(c)' = Users(c)
           /\ \A q \in Procs, c \in Bufs : Transferring(q, c)' <=> Transferring(q, c)
<1> pc \in [Procs -> {"run", "lock", "io", "iowait", "put"}] /\ op \in [Procs -> Refs \cup {None}]
    /\ held \in [Procs -> SUBSET Refs]
  BY DEF IInv, TypeOK
<1>1. pc' = [pc EXCEPT ![p] = "lock"] /\ op' = [op EXCEPT ![p] = <<b, k>>]
  BY DEF Begin
<1>2. <<b, k>> \in Refs /\ <<b, k>> # None /\ op[p] = None
  BY DEF IInv, CallsOK, None, Refs
<1>3. <<b, k>> \notin held[p]
  BY DEF Users, Uses
<1>4. Uses(p)' = Uses(p) \cup {<<b, k>>} /\ \A q \in Procs \ {p} : Uses(q)' = Uses(q)
  BY <1>1, <1>2 DEF Uses
<1>5. Users(b)' = Users(b) \cup {p} /\ \A c \in Bufs \ {b} : Users(c)' = Users(c)
  BY <1>4 DEF Users
<1>6. Cardinality(Users(b)') = Cardinality(Users(b)) + 1
  BY <1>5, UsersFinite, FS_AddElement
<1>7. \A q \in Procs, c \in Bufs : Transferring(q, c)' <=> Transferring(q, c)
  BY <1>1 DEF Transferring
<1>q. QED
  BY <1>1, <1>2, <1>3, <1>4, <1>5, <1>6, <1>7

(* The block is cached: its live buffer comes first in the list, so bget   *)
(* finds that one if there is one.                                         *)
LEMMA BgetHitInv ==
    ASSUME IInv, NEW p \in Procs, NEW k \in Blocks, BgetHit(p, k)
    PROVE  IInv'
<1> /\ pc \in [Procs -> {"run", "lock", "io", "iowait", "put"}]
    /\ op \in [Procs -> Refs \cup {None}]
    /\ held \in [Procs -> SUBSET Refs]
    /\ mru \in [Bufs -> Bufs] /\ blockno \in [Bufs -> Blocks] /\ refcnt \in [Bufs -> Nat]
    /\ valid \in [Bufs -> BOOLEAN] /\ dirty \in [Bufs -> BOOLEAN]
    /\ asleep \in [Procs -> BOOLEAN]
  BY DEF IInv, TypeOK
<1>1. PICK b \in Bufs, i0 \in Bufs :
          /\ b = MostRecent(Copies(k)) /\ b = mru[i0] /\ blockno[b] = k
          /\ \A j \in Bufs : blockno[mru[j]] = k => i0 <= j
  <2>1. Copies(k) \in SUBSET Bufs /\ Copies(k) # {}
    BY DEF BgetHit, Copies
  <2>2. PICK i \in Copies(k) : MostRecent(Copies(k)) = mru[i] /\ \A j \in Copies(k) : i <= j
    BY <2>1, MostRecentFound
  <2>q. QED
    BY <2>2 DEF Copies
<1>2. /\ pc[p] = "run" /\ \A ref \in held[p] : ref[2] < k
      /\ refcnt' = [refcnt EXCEPT ![b] = @ + 1]
      /\ Begin(p, "lock", <<b, k>>) /\ held' = held
      /\ mru' = mru /\ blockno' = blockno /\ valid' = valid /\ dirty' = dirty
      /\ data' = data /\ owner' = owner /\ asleep' = asleep /\ panic' = panic
      /\ idequeue' = idequeue /\ disk' = disk /\ failed' = failed /\ ahci' = ahci
  BY <1>1 DEF BgetHit, MayRead, diskVars
<1>3. b \in Bufs
  OBVIOUS
<1>4. p \notin Users(b)
  <2>1. \A ref \in Uses(p) : ref[2] # k /\ blockno[ref[1]] = ref[2]
    BY <1>2 DEF Uses, IInv, CallsOK, Blocks, Refs
  <2>q. QED
    BY <1>1, <2>1 DEF Users
<1>5. /\ pc' = [pc EXCEPT ![p] = "lock"]
      /\ op' = [op EXCEPT ![p] = <<b, k>>]
      /\ pc' \in [Procs -> {"run", "lock", "io", "iowait", "put"}]
      /\ op' \in [Procs -> Refs \cup {None}]
      /\ op'[p] \notin held'[p]
      /\ Uses(p)' = Uses(p) \cup {<<b, k>>}
      /\ \A q \in Procs \ {p} : Uses(q)' = Uses(q)
      /\ Cardinality(Users(b)') = Cardinality(Users(b)) + 1
      /\ \A c \in Bufs \ {b} : Users(c)' = Users(c)
      /\ \A q \in Procs, c \in Bufs : Transferring(q, c)' <=> Transferring(q, c)
  BY <1>2, <1>3, <1>4, NewUse
<1>6. TypeOK'
  BY <1>2, <1>3, <1>5 DEF IInv, TypeOK
<1>7. MruOK'
  <2>1. \A c \in Bufs : Live(c)' => Live(c) \/ c = b
    BY <1>2, <1>3 DEF Live
  <2>q. QED
    BY <1>1, <1>2, <1>3, <2>1 DEF IInv, MruOK
<1>8. CallsOK'
  <2>1. ASSUME NEW q \in Procs PROVE \A ref \in Uses(q)' : blockno'[ref[1]] = ref[2]
    BY <1>1, <1>2, <1>5 DEF IInv, CallsOK
  <2>q. QED
    BY <1>2, <1>5, <2>1 DEF IInv, CallsOK, None
<1>9. CountsOK'
  BY <1>2, <1>3, <1>5 DEF IInv, CountsOK
<1>10. OwnersOK'
  BY <1>2, <1>5 DEF IInv, OwnersOK
<1>11. FlagsOK'
  BY <1>2, <1>5 DEF IInv, FlagsOK
<1>12. QueueOK' /\ SleepOK'
  BY <1>2, <1>5, QueuedKept DEF IInv, QueueOK, SleepOK
<1>q. QED
  BY <1>6, <1>7, <1>8, <1>9, <1>10, <1>11, <1>12 DEF IInv

(* The block is not cached: a buffer without users becomes its only copy.  *)
LEMMA BgetRecycleInv ==
    ASSUME IInv, NEW p \in Procs, NEW k \in Blocks, BgetRecycle(p, k)
    PROVE  IInv'
<1> /\ pc \in [Procs -> {"run", "lock", "io", "iowait", "put"}]
    /\ op \in [Procs -> Refs \cup {None}]
    /\ held \in [Procs -> SUBSET Refs]
    /\ mru \in [Bufs -> Bufs] /\ blockno \in [Bufs -> Blocks] /\ refcnt \in [Bufs -> Nat]
    /\ valid \in [Bufs -> BOOLEAN] /\ dirty \in [Bufs -> BOOLEAN]
    /\ asleep \in [Procs -> BOOLEAN]
  BY DEF IInv, TypeOK
<1>1. PICK b \in Bufs : b = LeastRecent(Unused) /\ refcnt[b] = 0 /\ ~dirty[b]
  <2>1. Unused \in SUBSET Bufs /\ Unused # {}
    BY DEF BgetRecycle, Unused
  <2>2. PICK i \in Unused : LeastRecent(Unused) = mru[i]
    BY <2>1, LeastRecentFound
  <2>q. QED
    BY <2>2 DEF Unused
<1>2. /\ pc[p] = "run" /\ \A j \in Bufs : blockno[mru[j]] # k
      /\ blockno' = [blockno EXCEPT ![b] = k]
      /\ valid' = [valid EXCEPT ![b] = FALSE]
      /\ dirty' = [dirty EXCEPT ![b] = FALSE]
      /\ refcnt' = [refcnt EXCEPT ![b] = 1]
      /\ Begin(p, "lock", <<b, k>>) /\ held' = held
      /\ mru' = mru /\ data' = data /\ owner' = owner /\ asleep' = asleep /\ panic' = panic
      /\ idequeue' = idequeue /\ disk' = disk /\ failed' = failed /\ ahci' = ahci
  BY <1>1 DEF BgetRecycle, MayRead, diskVars, Copies
<1>3. Users(b) = {} /\ Cardinality(Users(b)) = 0
  <2>1. Cardinality(Users(b)) = 0
    BY <1>1 DEF IInv, CountsOK
  <2>q. QED
    BY <2>1, UsersFinite, FS_EmptySet
<1>4. \A q \in Procs : \A ref \in Uses(q) : ref[1] # b
  BY <1>3 DEF Users
<1>5. /\ pc' = [pc EXCEPT ![p] = "lock"]
      /\ op' = [op EXCEPT ![p] = <<b, k>>]
      /\ pc' \in [Procs -> {"run", "lock", "io", "iowait", "put"}]
      /\ op' \in [Procs -> Refs \cup {None}]
      /\ op'[p] \notin held'[p]
      /\ Uses(p)' = Uses(p) \cup {<<b, k>>}
      /\ \A q \in Procs \ {p} : Uses(q)' = Uses(q)
      /\ Cardinality(Users(b)') = Cardinality(Users(b)) + 1
      /\ \A c \in Bufs \ {b} : Users(c)' = Users(c)
      /\ \A q \in Procs, c \in Bufs : Transferring(q, c)' <=> Transferring(q, c)
  BY <1>1, <1>2, <1>3, NewUse
<1>6. TypeOK'
  <2>1. blockno' \in [Bufs -> Blocks] /\ refcnt' \in [Bufs -> Nat]
    BY <1>1, <1>2
  <2>2. valid' \in [Bufs -> BOOLEAN] /\ dirty' \in [Bufs -> BOOLEAN]
    BY <1>1, <1>2
  <2>q. QED
    BY <1>2, <1>5, <2>1, <2>2 DEF IInv, TypeOK
<1>7. MruOK'
  <2>1. \A c \in Bufs \ {b} : blockno'[c] = blockno[c] /\ blockno[c] # k /\ (Live(c)' <=> Live(c))
    <3>1. \A c \in Bufs : blockno[c] # k
      BY <1>2 DEF IInv, MruOK
    <3>q. QED
      BY <1>1, <1>2, <3>1 DEF Live
  <2>2. blockno'[b] = k
    BY <1>1, <1>2
  <2>3. ASSUME NEW i \in Bufs, NEW j \in Bufs,
               blockno'[mru[i]] = blockno'[mru[j]], Live(mru[i])'
        PROVE  i <= j
    <3>1. CASE mru[i] = b \/ mru[j] = b
      <4>1. mru[i] = mru[j]
        BY <2>1, <2>2, <2>3, <3>1
      <4>2. i = j
        BY <4>1 DEF IInv, MruOK
      <4>q. QED
        BY <4>2 DEF Bufs
    <3>2. CASE mru[i] # b /\ mru[j] # b
      <4>1. Live(mru[i])' <=> Live(mru[i])
        BY <1>1, <1>2, <3>2 DEF Live
      <4>q. QED
        BY <2>1, <2>3, <3>2, <4>1 DEF IInv, MruOK
    <3>q. QED
      BY <3>1, <3>2
  <2>4. \A i, j \in Bufs : blockno'[mru'[i]] = blockno'[mru'[j]] /\ Live(mru[i])' => i <= j
    BY <1>2, <2>3
  <2>q. QED
    BY <1>2, <2>4 DEF IInv, MruOK
<1>8. CallsOK'
  <2>1. ASSUME NEW q \in Procs, NEW ref \in Uses(q)' PROVE blockno'[ref[1]] = ref[2]
    <3>1. CASE ref = <<b, k>>
      BY <1>1, <1>2, <3>1
    <3>2. CASE ref \in Uses(q)
      <4>1. ref[1] # b /\ ref[1] \in Bufs /\ blockno[ref[1]] = ref[2]
        BY <1>4, <3>2, UseFacts
      <4>q. QED
        BY <1>2, <4>1
    <3>q. QED
      BY <1>5, <3>1, <3>2
  <2>q. QED
    BY <1>2, <1>5, <2>1 DEF IInv, CallsOK, None
<1>9. CountsOK'
  BY <1>1, <1>2, <1>3, <1>5 DEF IInv, CountsOK
<1>10. OwnersOK'
  BY <1>2, <1>5 DEF IInv, OwnersOK
<1>11. \A q \in Procs : pc[q] # "run" => op[q][1] \in Bufs \ {b}
  BY <1>4, OpFacts, Places
<1>12. FlagsOK'
  <2>1. \A q \in Procs : pc'[q] = "io" => pc[q] = "io" /\ op'[q] = op[q]
    BY <1>2, <1>5
  <2>2. \A q \in Procs : pc'[q] = "io" => dirty'[op'[q][1]] \/ ~valid'[op'[q][1]]
    BY <1>2, <1>11, <2>1 DEF IInv, FlagsOK
  <2>q. QED
    BY <1>1, <1>2, <1>5, <2>2 DEF IInv, FlagsOK
<1>13. QueueOK'
  <2>1. \A q \in Procs : /\ pc'[q] = "iowait" <=> pc[q] = "iowait"
                         /\ pc[q] = "iowait" => op'[q] = op[q]
    BY <1>2, <1>5
  <2>2. \A q \in Procs : pc[q] = "iowait" =>
            valid'[op[q][1]] = valid[op[q][1]] /\ dirty'[op[q][1]] = dirty[op[q][1]]
    BY <1>2, <1>11
  <2>3. ASSUME NEW q \in Procs, pc'[q] = "iowait"
        PROVE  (Queued(op[q][1]) <=> dirty[op[q][1]] \/ ~valid[op[q][1]])'
    <3>1. pc[q] = "iowait" /\ op'[q] = op[q]
      BY <2>1, <2>3
    <3>2. Queued(op[q][1]) <=> dirty[op[q][1]] \/ ~valid[op[q][1]]
      BY <3>1 DEF IInv, QueueOK
    <3>3. Queued(op[q][1])' <=> Queued(op[q][1])
      BY <1>2, <3>1 DEF Queued
    <3>q. QED
      BY <2>2, <3>1, <3>2, <3>3
  <2>4. ASSUME NEW c \in Bufs, Queued(c)'
        PROVE  \E q \in Procs : pc'[q] = "iowait" /\ op'[q][1] = c
    <3>1. Queued(c)
      BY <1>2, <2>4 DEF Queued
    <3>2. PICK q \in Procs : pc[q] = "iowait" /\ op[q][1] = c
      BY <3>1 DEF IInv, QueueOK
    <3>q. QED
      BY <2>1, <3>2
  <2>5. \A i, j \in 1..Len(idequeue') : idequeue'[i] = idequeue'[j] => i = j
    BY <1>2 DEF IInv, QueueOK
  <2>q. QED
    BY <2>3, <2>4, <2>5 DEF QueueOK
<1>14. SleepOK'
  BY <1>2, <1>5, QueuedKept DEF IInv, SleepOK
<1>q. QED
  BY <1>6, <1>7, <1>8, <1>9, <1>10, <1>12, <1>13, <1>14 DEF IInv

-----------------------------------------------------------------------------
(* Where the buffer at place i was before the one at place `at' moved to   *)
(* the front.                                                              *)
OldPlace(i, at) == IF i = 1 THEN at ELSE IF i <= at THEN i - 1 ELSE i

(* Where the buffers were before one of them moved to the front: a         *)
(* bijection that keeps the order of the others.                           *)
LEMMA OldPlaceFacts ==
    ASSUME NEW n \in Nat, NEW at \in 1..n, NEW i \in 1..n, NEW j \in 1..n
    PROVE  /\ OldPlace(i, at) \in 1..n
           /\ OldPlace(i, at) = OldPlace(j, at) => i = j
           /\ i # 1 /\ j # 1 /\ OldPlace(i, at) <= OldPlace(j, at) => i <= j
<1>1. PICK x \in Int : x = OldPlace(i, at)
  BY DEF OldPlace
<1>2. PICK y \in Int : y = OldPlace(j, at)
  BY DEF OldPlace
<1>3. \/ i = 1 /\ x = at
      \/ i # 1 /\ i <= at /\ x = i - 1
      \/ i # 1 /\ i > at /\ x = i
  BY <1>1 DEF OldPlace
<1>4. \/ j = 1 /\ y = at
      \/ j # 1 /\ j <= at /\ y = j - 1
      \/ j # 1 /\ j > at /\ y = j
  BY <1>2 DEF OldPlace
<1>5. x \in 1..n /\ (x = y => i = j) /\ (i # 1 /\ j # 1 /\ x <= y => i <= j)
  BY <1>3, <1>4
<1>q. QED
  BY <1>1, <1>2, <1>5

(* The list after b moved to the front: still every buffer once, the       *)
(* others in the order they had.                                           *)
LEMMA MovedToFront ==
    ASSUME IInv, NEW b \in Bufs, mru' = MoveToFront(b)
    PROVE  /\ mru' \in [Bufs -> Bufs]
           /\ \A i, j \in Bufs : mru'[i] = mru'[j] => i = j
           /\ \A c \in Bufs : \E i \in Bufs : mru'[i] = c
           /\ mru'[1] = b /\ 1 \in Bufs
           /\ \A i, j \in Bufs : mru'[i] # b /\ mru'[j] # b =>
                 \E m, n \in Bufs : /\ mru[m] = mru'[i] /\ mru[n] = mru'[j]
                                    /\ m <= n => i <= j
<1> NBUF \in Nat \ {0} /\ 1 \in Bufs
  BY BufferCacheAssumption DEF Bufs
<1> mru \in [Bufs -> Bufs] /\ (\A i, j \in Bufs : mru[i] = mru[j] => i = j)
    /\ (\A c \in Bufs : \E i \in Bufs : mru[i] = c)
  BY DEF IInv, TypeOK, MruOK
<1>1. PICK at \in Bufs : at = (CHOOSE i \in Bufs : mru[i] = b) /\ mru[at] = b
  OBVIOUS
<1>2. mru' = [i \in Bufs |-> IF i = 1 THEN b ELSE IF i <= at THEN mru[i - 1] ELSE mru[i]]
  BY <1>1 DEF MoveToFront
<1> DEFINE old(i) == OldPlace(i, at)
<1>3. \A i \in Bufs : old(i) \in Bufs /\ mru'[i] = mru[old(i)]
  BY <1>1, <1>2, OldPlaceFacts DEF Bufs, OldPlace
<1>4. \A i, j \in Bufs : old(i) = old(j) => i = j
  BY OldPlaceFacts DEF Bufs
<1>5. \A m \in Bufs : \E i \in Bufs : old(i) = m
  <2>1. ASSUME NEW m \in Bufs PROVE \E i \in Bufs : old(i) = m
    <3>1. CASE m = at
      BY <3>1 DEF OldPlace
    <3>2. CASE m < at
      <4>1. m + 1 \in Bufs /\ old(m + 1) = m
        BY <3>2 DEF Bufs, OldPlace
      <4>q. QED
        BY <4>1
    <3>3. CASE m > at
      <4>1. old(m) = m
        BY <3>3 DEF Bufs, OldPlace
      <4>q. QED
        BY <4>1
    <3>q. QED
      BY <3>1, <3>2, <3>3 DEF Bufs
  <2>q. QED
    BY <2>1
<1>6. \A i, j \in Bufs : i # 1 /\ j # 1 /\ old(i) <= old(j) => i <= j
  BY OldPlaceFacts DEF Bufs
<1>7. mru'[1] = b
  BY <1>2
<1> HIDE DEF old
<1>8. mru' \in [Bufs -> Bufs]
  BY <1>2, <1>3
<1>9. \A i, j \in Bufs : mru'[i] = mru'[j] => i = j
  BY <1>3, <1>4
<1>10. ASSUME NEW c \in Bufs PROVE \E i \in Bufs : mru'[i] = c
  <2>1. PICK m \in Bufs : mru[m] = c
    OBVIOUS
  <2>2. PICK i \in Bufs : old(i) = m
    BY <1>5
  <2>q. QED
    BY <1>3, <2>1, <2>2
<1>11. ASSUME NEW i \in Bufs, NEW j \in Bufs, mru'[i] # b, mru'[j] # b
       PROVE  \E m, n \in Bufs : mru[m] = mru'[i] /\ mru[n] = mru'[j] /\ (m <= n => i <= j)
  BY <1>3, <1>6, <1>7, <1>11, SMTT(60)
<1>q. QED
  BY <1>7, <1>8, <1>9, <1>10, <1>11

(* brelse drops the reference; the last one moves the buffer to the front. *)
LEMMA BrelseInv ==
    ASSUME IInv, NEW p \in Procs, Brelse(p)
    PROVE  IInv'
<1> /\ pc \in [Procs -> {"run", "lock", "io", "iowait", "put"}]
    /\ op \in [Procs -> Refs \cup {None}]
    /\ held \in [Procs -> SUBSET Refs]
    /\ mru \in [Bufs -> Bufs] /\ blockno \in [Bufs -> Blocks] /\ refcnt \in [Bufs -> Nat]
    /\ valid \in [Bufs -> BOOLEAN] /\ dirty \in [Bufs -> BOOLEAN]
    /\ asleep \in [Procs -> BOOLEAN]
  BY DEF IInv, TypeOK
<1>1. PICK b \in Bufs : /\ b = op[p][1] /\ refcnt[b] \in Nat \ {0}
                        /\ \A ref \in held[p] : ref[1] # b
  BY Places DEF Brelse
<1>2. /\ pc[p] = "put"
      /\ refcnt' = [refcnt EXCEPT ![b] = @ - 1]
      /\ mru' = IF refcnt[b] = 1 THEN MoveToFront(b) ELSE mru
      /\ pc' = [pc EXCEPT ![p] = "run"] /\ op' = [op EXCEPT ![p] = None]
      /\ held' = held /\ blockno' = blockno /\ valid' = valid /\ dirty' = dirty
      /\ data' = data /\ owner' = owner /\ asleep' = asleep /\ panic' = panic
      /\ idequeue' = idequeue /\ disk' = disk /\ failed' = failed /\ ahci' = ahci
  BY <1>1 DEF Brelse, Begin, diskVars
<1>3. op[p] # None /\ op[p] \notin held[p]
  BY <1>2 DEF IInv, CallsOK
<1>4. Uses(p)' = Uses(p) \ {op[p]} /\ \A q \in Procs \ {p} : Uses(q)' = Uses(q)
  BY <1>2, <1>3 DEF Uses
<1>5. Users(b)' = Users(b) \ {p} /\ p \in Users(b)
  <2>1. p \notin Users(b)'
    BY <1>1, <1>2 DEF Users, Uses
  <2>2. p \in Users(b)
    BY <1>1, <1>3 DEF Users, Uses
  <2>q. QED
    BY <1>4, <2>1, <2>2 DEF Users
<1>6. \A c \in Bufs \ {b} : Users(c)' = Users(c)
  BY <1>1, <1>4 DEF Users
<1>7. Cardinality(Users(b)') = Cardinality(Users(b)) - 1
  BY <1>5, UsersFinite, FS_RemoveElement, ZenonT(60)
<1>8. CountsOK'
  BY <1>1, <1>2, <1>6, <1>7 DEF IInv, CountsOK
<1>9. CallsOK'
  <2>1. None \notin Refs
    BY DEF Refs, None
  <2>q. QED
    BY <1>2, <1>4, <2>1 DEF IInv, CallsOK
<1>10. \A c \in Bufs : Live(c)' => Live(c)
  BY <1>1, <1>2 DEF Live
<1>11. MruOK' /\ mru' \in [Bufs -> Bufs]
  <2>1. CASE refcnt[b] # 1
    BY <1>2, <1>10, <2>1, MruKept
  <2>2. CASE refcnt[b] = 1
    <3>1. /\ mru' \in [Bufs -> Bufs]
          /\ \A i, j \in Bufs : mru'[i] = mru'[j] => i = j
          /\ \A c \in Bufs : \E i \in Bufs : mru'[i] = c
          /\ mru'[1] = b /\ 1 \in Bufs
          /\ \A i, j \in Bufs : mru'[i] # b /\ mru'[j] # b =>
                \E m, n \in Bufs : /\ mru[m] = mru'[i] /\ mru[n] = mru'[j]
                                   /\ m <= n => i <= j
      BY <1>2, <2>2, MovedToFront
    <3>2. ASSUME NEW i \in Bufs, NEW j \in Bufs,
                 blockno'[mru'[i]] = blockno'[mru'[j]], Live(mru[i])'
          PROVE  i <= j
      <4>1. PICK c \in Bufs, d \in Bufs : c = mru'[i] /\ d = mru'[j]
        BY <3>1
      <4>2. Live(c) /\ blockno[c] = blockno[d]
        BY <1>1, <1>2, <3>2, <4>1 DEF Live
      <4>3. CASE c = b
        <5>1. mru'[i] = mru'[1] /\ 1 \in Bufs
          BY <3>1, <4>1, <4>3
        <5>2. i = 1
          BY <3>1, <5>1
        <5>q. QED
          BY <5>2 DEF Bufs
      <4>4. CASE c # b /\ d = b
        <5>1. Live(b)
          BY <1>1 DEF Live
        <5>q. QED
          BY <4>2, <4>4, <5>1, OneLiveCopy
      <4>5. CASE c # b /\ d # b
        <5>1. PICK m \in Bufs, n \in Bufs : mru[m] = c /\ mru[n] = d /\ (m <= n => i <= j)
          BY <3>1, <4>1, <4>5
        <5>2. m <= n
          BY <4>2, <5>1 DEF IInv, MruOK
        <5>q. QED
          BY <5>1, <5>2
      <4>q. QED
        BY <4>3, <4>4, <4>5
    <3>q. QED
      BY <3>1, <3>2 DEF MruOK
  <2>q. QED
    BY <2>1, <2>2
<1>12. TypeOK'
  <2>1. refcnt' \in [Bufs -> Nat]
    BY <1>1, <1>2
  <2>q. QED
    BY <1>2, <1>11, <2>1 DEF IInv, TypeOK
<1>13. \A q \in Procs, c \in Bufs : Transferring(q, c)' <=> Transferring(q, c)
  BY <1>2 DEF Transferring
<1>14. OwnersOK'
  BY <1>2, <1>13 DEF IInv, OwnersOK
<1>15. FlagsOK'
  BY <1>2, <1>13 DEF IInv, FlagsOK
<1>16. QueueOK' /\ SleepOK'
  BY <1>2, QueuedKept DEF IInv, QueueOK, SleepOK
<1>q. QED
  BY <1>8, <1>9, <1>11, <1>12, <1>14, <1>15, <1>16 DEF IInv

-----------------------------------------------------------------------------
(* Every step preserves the invariant. *)
LEMMA NextInv == IInv /\ [Next]_vars => IInv'
<1> SUFFICES ASSUME IInv, [Next]_vars PROVE IInv'
  OBVIOUS
<1>1. CASE UNCHANGED vars
  BY <1>1, UnchangedInv DEF vars, IInv, TypeOK
<1>2. ASSUME NEW p \in Procs, NEW k \in Blocks,
             BgetHit(p, k) \/ BgetRecycle(p, k) \/ BgetPanics(p, k)
      PROVE  IInv'
  <2>1. CASE BgetPanics(p, k)
    BY <2>1, UnchangedInv DEF BgetPanics
  <2>q. QED
    BY <1>2, <2>1, BgetHitInv, BgetRecycleInv
<1>3. ASSUME NEW p \in Procs, NEW ref \in held[p], Bwrite(p, ref) \/ Releasesleep(p, ref)
      PROVE  IInv'
  BY <1>3, BwriteInv, ReleasesleepInv
<1>4. ASSUME NEW p \in Procs, Continue(p)
      PROVE  IInv'
  BY <1>4, AcquiresleepInv, AcquireSleepsInv, AhciRwInv, IderwInv, IoDoneInv, BrelseInv
     DEF Continue
<1>5. ASSUME NEW p \in Procs, AhciPanics(p) \/ Kill(p)
      PROVE  IInv'
  <2>1. CASE AhciPanics(p)
    BY <2>1, UnchangedInv DEF AhciPanics
  <2>q. QED
    BY <1>5, <2>1, KillInv
<1>6. CASE DiskStep
  BY <1>6, IdeintrInv DEF DiskStep
<1>7. CASE Halted
  BY <1>1, <1>7 DEF Halted
<1>q. QED
  BY <1>1, <1>2, <1>3, <1>4, <1>5, <1>6, <1>7 DEF Next

(* The invariant holds in every reachable state. *)
LEMMA Invariant == Spec => []IInv
  BY InitInv, NextInv, PTL DEF Spec

(* bget, brelse, bwrite and iderw keep the types: in particular            *)
(* bcache.head links each of the NBUF buffers and refcnt is never below 0. *)
THEOREM TypeCorrect == Spec => []TypeOK
  BY Invariant, PTL DEF IInv

(* Two buffers that are in use or valid never hold the same block,         *)
(* although every buffer starts out as block 0.                            *)
THEOREM NoSecondCopy == Spec => []OneCopyPerBlock
<1>1. IInv => OneCopyPerBlock
  BY OneLiveCopy DEF OneCopyPerBlock, Live
<1>q. QED
  BY <1>1, Invariant, PTL

(* refcnt counts exactly the processes that use a buffer; while they do it *)
(* stays the block they asked for; bwrite, brelse and iderw are called by  *)
(* the holder of its lock.                                                 *)
THEOREM NotRecycledInUse == Spec => []BufferKeepsBlock
<1>1. IInv => BufferKeepsBlock
  <2> SUFFICES ASSUME IInv PROVE BufferKeepsBlock
    OBVIOUS
  <2>1. \A p \in Procs : \A ref \in Uses(p) : blockno[ref[1]] = ref[2]
    BY DEF IInv, CallsOK
  <2>2. \A b \in Bufs :
           refcnt[b] = Cardinality({p \in Procs : \E ref \in Uses(p) : ref[1] = b})
    BY DEF IInv, CountsOK, Users
  <2>3. ASSUME NEW p \in Procs
        PROVE  /\ \A ref \in held[p] : owner[ref[1]] = p
               /\ pc[p] = "io" => owner[op[p][1]] = p /\ (dirty[op[p][1]] \/ ~valid[op[p][1]])
    BY Places DEF IInv, OwnersOK, FlagsOK, Transferring
  <2>q. QED
    BY <2>1, <2>2, <2>3 DEF BufferKeepsBlock
<1>q. QED
  BY <1>1, Invariant, PTL

(* A valid, clean buffer holds what the disk holds, unless the drive       *)
(* failed its last transfer, and only bwrite's caller has a dirty one.     *)
THEOREM WriteThrough == Spec => []CleanMeansOnDisk
<1>1. IInv => CleanMeansOnDisk
  BY DEF IInv, FlagsOK, OwnersOK, Transferring, CleanMeansOnDisk
<1>q. QED
  BY <1>1, Invariant, PTL

(* A process sleeps on a sleep lock only while another holds it, and on a  *)
(* buffer only while its request is in the queue of the drive.             *)
THEOREM WakeupsNotLost == Spec => []NoLostWakeup
<1>1. IInv => NoLostWakeup
  <2> SUFFICES ASSUME IInv, NEW p \in Procs, asleep[p]
               PROVE  \/ pc[p] = "lock" /\ owner[op[p][1]] \notin {nullptr, p}
                      \/ /\ pc[p] = "iowait"
                         /\ \E i \in DOMAIN idequeue : idequeue[i] = op[p][1]
    BY DEF NoLostWakeup
  <2>1. CASE pc[p] = "lock"
    BY <2>1, Places DEF IInv, SleepOK, OwnersOK, Transferring
  <2>2. CASE pc[p] = "iowait"
    BY <2>2, LenProperties, ZenonT(60) DEF IInv, SleepOK, TypeOK, Queued
  <2>q. QED
    BY <2>1, <2>2 DEF IInv, SleepOK
<1>q. QED
  BY <1>1, Invariant, PTL

(* bget panics only if the processes together use all NBUF buffers.        *)
THEOREM PanicMeansAllInUse == Spec => []NoBufferLeak
<1>1. IInv => NoBufferLeak
  <2> SUFFICES ASSUME IInv, Unused = {}
               PROVE  NBUF <= Cardinality(UNION {Uses(p) : p \in Procs})
    BY DEF NoBufferLeak
  <2> DEFINE U == UNION {Uses(p) : p \in Procs}
             f == [b \in Bufs |-> <<b, blockno[b]>>]
  <2>1. ASSUME NEW b \in Bufs PROVE <<b, blockno[b]>> \in U
    <3>1. PICK i \in Bufs : mru[i] = b
      BY DEF IInv, MruOK
    <3>2. refcnt[b] # 0 \/ dirty[b]
      BY <3>1 DEF Unused
    <3>3. PICK q \in Procs : \E ref \in Uses(q) : ref[1] = b
      <4>1. CASE dirty[b]
        BY <4>1, OpFacts DEF IInv, FlagsOK, Transferring
      <4>2. CASE refcnt[b] # 0
        <5>1. Cardinality(Users(b)) # 0
          BY <4>2 DEF IInv, CountsOK
        <5>2. Users(b) # {}
          BY <5>1, FS_EmptySet
        <5>q. QED
          BY <5>2 DEF Users
      <4>q. QED
        BY <3>2, <4>1, <4>2
    <3>4. <<b, blockno[b]>> \in Uses(q)
      BY <3>3, UseFacts
    <3>q. QED
      BY <3>4
  <2>2. f \in Injection(Bufs, U)
    <3>1. f \in [Bufs -> U]
      BY <2>1
    <3>2. \A b, c \in Bufs : f[b] = f[c] => b = c
      OBVIOUS
    <3> HIDE DEF f, U
    <3>q. QED
      BY <3>1, <3>2 DEF Injection, IsInjective
  <2>3. IsFiniteSet(U)
    <3>1. U \subseteq Bufs \X Blocks
      BY UseFacts DEF Refs
    <3>2. IsFiniteSet(Bufs) /\ IsFiniteSet(Blocks)
      BY FS_Interval, BufferCacheAssumption DEF Bufs, Blocks
    <3>3. IsFiniteSet(Bufs \X Blocks)
      BY <3>2, FS_Product
    <3>q. QED
      BY <3>1, <3>3, FS_Subset
  <2>4. Cardinality(Bufs) = NBUF
    BY FS_Interval, BufferCacheAssumption DEF Bufs
  <2> HIDE DEF U, f
  <2>5. Cardinality(Bufs) <= Cardinality(U)
    BY <2>2, <2>3, FS_Injection
  <2>q. QED
    BY <2>4, <2>5 DEF U
<1>q. QED
  BY <1>1, Invariant, PTL
=============================================================================

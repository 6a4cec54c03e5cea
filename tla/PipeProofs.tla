----------------------------- MODULE PipeProofs -----------------------------
(***************************************************************************)
(* For any number of readers and writers, any pipe size and any width of   *)
(* the counters that is a multiple of it: a pipe is a bounded FIFO of      *)
(* bytes (ByteStream), its page is not used after it is freed, nobody      *)
(* sleeps through the event he waits for, and a read of 0 bytes means end  *)
(* of file.                                                                *)
(*                                                                         *)
(* The inductive invariant says who is inside p->lock (LockOK), what a     *)
(* process at each point of the code owns (PlacesOK), who keeps an end     *)
(* open (EndsOK), that the ring holds at most PIPESIZE bytes (RingOK), and *)
(* what a process in sleep() may count on while another has the lock       *)
(* (SleepOK).                                                              *)
(***************************************************************************)
EXTENDS Pipe, Integers, TLAPS, SequenceTheorems

SameEnd(p, q) == p \in Writers <=> q \in Writers
Open(p) == IF p \in Writers THEN writeopen ELSE readopen

LockOK ==
    \A p \in Procs : pc[p] \in {"loop", "copy", "sleep"} <=> lock = p

PlacesOK ==
    \A p \in Procs :
        /\ pc[p] \in {"idle", "close"} => i[p] = 0
        /\ pc[p] \notin {"idle", "close"} => p \in fds
        /\ pc[p] = "copy" => p \in Readers /\ (i[p] = 0 => ~Empty \/ ~writeopen)
        /\ asleep[p] # nullptr =>
              pc[p] = "enter" /\ asleep[p] = IF p \in Writers THEN "nwrite" ELSE "nread"

(* The process in pipe_close is the only one of its end, and its end is    *)
(* closed by nobody else.                                                  *)
EndsOK ==
    /\ \A p \in Procs : p \in fds \/ pc[p] = "close" => Open(p)
    /\ \A p, q \in Procs : pc[p] = "close" /\ SameEnd(p, q) =>
          q \notin fds /\ (pc[q] = "close" => q = p)
    /\ freed => ~readopen /\ ~writeopen

RingOK == Count <= PIPESIZE

(* Whoever changes what a sleeper waits for still holds the lock and wakes *)
(* it before it lets go.                                                   *)
SleepOK ==
    \A p \in Procs :
        /\ pc[p] = "sleep" => IF p \in Writers THEN Full /\ readopen ELSE Empty /\ writeopen
        /\ asleep[p] = "nwrite" => readopen /\ (Full \/ \E r \in Readers : pc[r] = "copy")
        /\ asleep[p] = "nread" =>
              writeopen /\ (Empty \/ LeftBehind(p) \/ \E w \in Writers : pc[w] = "loop")

IInv ==
    /\ TypeOK
    /\ LockOK
    /\ PlacesOK
    /\ EndsOK
    /\ RingOK
    /\ SleepOK

-----------------------------------------------------------------------------
(* Arithmetic modulo the ring size and modulo the width of the counters.   *)
LEMMA ModRange ==
    ASSUME NEW m \in Nat \ {0}, NEW a \in Nat
    PROVE  /\ a % m \in 0..m-1
           /\ \E q \in Nat : a = m * q + (a % m)
<1>1. a \div m \in Nat /\ a = m * (a \div m) + (a % m) /\ a % m \in 0..m-1
  OBVIOUS
<1>q. QED
  BY <1>1

(* The remainder of a number written as quotient and remainder. *)
LEMMA ModUnique ==
    ASSUME NEW m \in Nat \ {0}, NEW q \in Nat, NEW r \in 0..m-1
    PROVE  (m * q + r) % m = r
  OBVIOUS

(* A multiple of the modulus does not matter. *)
LEMMA ModTimes ==
    ASSUME NEW m \in Nat \ {0}, NEW a \in Nat, NEW k \in Nat
    PROVE  (a + m * k) % m = a % m
<1>1. PICK q \in Nat, r \in 0..m-1 : a = m * q + r
  BY ModRange
<1>2. a % m = r
  BY <1>1, ModUnique
<1>3. m * (q + k) = m * q + m * k /\ q + k \in Nat
  OBVIOUS
<1>4. a + m * k = m * (q + k) + r
  BY <1>1, <1>3
<1>5. (m * (q + k) + r) % m = r
  BY <1>3, ModUnique
<1>q. QED
  BY <1>2, <1>4, <1>5

(* A sum of two residues is reduced by at most one subtraction. *)
LEMMA ModOnce ==
    ASSUME NEW m \in Nat \ {0}, NEW a \in 0..(2 * m - 1)
    PROVE  a % m = IF a < m THEN a ELSE a - m
<1>1. CASE a < m
  BY <1>1, ModUnique
<1>2. CASE a >= m
  <2>1. a - m \in 0..m-1 /\ a = m * 1 + (a - m)
    BY <1>2
  <2>q. QED
    BY <1>2, <2>1, ModUnique
<1>q. QED
  BY <1>1, <1>2

(* Numbers less than the modulus apart have different residues. *)
LEMMA ModApart ==
    ASSUME NEW m \in Nat \ {0}, NEW a \in Nat, NEW d \in 1..m-1
    PROVE  (a + d) % m # a % m
<1>1. PICK q \in Nat, r \in 0..m-1 : a = m * q + r
  BY ModRange
<1>2. a % m = r
  BY <1>1, ModUnique
<1>3. CASE r + d < m
  <2>1. a + d = m * q + (r + d) /\ r + d \in 0..m-1
    BY <1>1, <1>3
  <2>2. (m * q + (r + d)) % m = r + d
    BY <2>1, ModUnique
  <2>q. QED
    BY <1>2, <2>1, <2>2
<1>4. CASE r + d >= m
  <2>1. m * (q + 1) = m * q + m /\ q + 1 \in Nat
    OBVIOUS
  <2>2. a + d = m * (q + 1) + (r + d - m) /\ r + d - m \in 0..m-1
    BY <1>1, <1>4, <2>1
  <2>3. (m * (q + 1) + (r + d - m)) % m = r + d - m
    BY <2>1, <2>2, ModUnique
  <2>q. QED
    BY <1>2, <2>2, <2>3
<1>q. QED
  BY <1>3, <1>4

-----------------------------------------------------------------------------
(* The distance of two counters without the remainder, and what it says of *)
(* an empty and of a full ring.                                            *)
LEMMA Distance ==
    ASSUME NEW r \in 0..Wrap-1, NEW w \in 0..Wrap-1
    PROVE  /\ (w + Wrap - r) % Wrap = IF r <= w THEN w - r ELSE w + Wrap - r
           /\ w = (r + PIPESIZE) % Wrap <=> (w + Wrap - r) % Wrap = PIPESIZE
<1> DEFINE up == w + Wrap - r
           full == r + PIPESIZE
<1>1. Wrap \in Nat \ {0} /\ PIPESIZE \in 1..Wrap-1
  BY PipeAssumption
<1>2. up \in 0..(2 * Wrap - 1) /\ full \in 0..(2 * Wrap - 1)
  BY <1>1
<1>3. /\ up % Wrap = IF up < Wrap THEN up ELSE up - Wrap
      /\ full % Wrap = IF full < Wrap THEN full ELSE full - Wrap
  <2> HIDE DEF up, full
  <2>q. QED
    BY <1>1, <1>2, ModOnce
<1>q. QED
  BY <1>1, <1>3

(* The number of bytes in the ring, although nread and nwrite wrap. *)
LEMMA CountFacts ==
    ASSUME nread \in 0..Wrap-1, nwrite \in 0..Wrap-1
    PROVE  /\ Count = IF nread <= nwrite THEN nwrite - nread ELSE nwrite + Wrap - nread
           /\ Count \in 0..Wrap-1
           /\ Empty <=> Count = 0
           /\ Full <=> Count = PIPESIZE
<1>1. Count = IF nread <= nwrite THEN nwrite - nread ELSE nwrite + Wrap - nread
  BY Distance DEF Count
<1>2. Full <=> Count = PIPESIZE
  BY Distance DEF Count, Full
<1>q. QED
  BY <1>1, <1>2, PipeAssumption DEF Empty

(* A counter steps by one, or back to 0. *)
LEMMA StepCounter ==
    ASSUME NEW x \in 0..Wrap-1
    PROVE  /\ (x + 1) % Wrap \in 0..Wrap-1
           /\ (x + 1) % Wrap = IF x + 1 = Wrap THEN 0 ELSE x + 1
<1>1. Wrap \in Nat \ {0, 1} /\ x + 1 \in 0..(2 * Wrap - 1)
  BY PipeAssumption
<1>q. QED
  BY <1>1, ModOnce, SMTT(60)

(* The slot of a byte does not depend on how often the counters wrapped.   *)
LEMMA SlotOfWrapped ==
    ASSUME NEW x \in Nat
    PROVE  (x + Wrap) % PIPESIZE = x % PIPESIZE
<1>1. PICK q \in Nat : Wrap = PIPESIZE * q + (Wrap % PIPESIZE)
  BY PipeAssumption, ModRange
<1>2. Wrap = PIPESIZE * q
  BY <1>1, PipeAssumption
<1>q. QED
  BY <1>2, PipeAssumption, ModTimes

(* One byte more, in a slot none of the others uses. *)
LEMMA PutSlot ==
    ASSUME nread \in 0..Wrap-1, nwrite \in 0..Wrap-1, RingOK, ~Full,
           nread' = nread, nwrite' = (nwrite + 1) % Wrap
    PROVE  /\ nwrite' \in 0..Wrap-1
           /\ nwrite % PIPESIZE \in 0..PIPESIZE-1
           /\ Count \in 0..PIPESIZE-1
           /\ Count' = Count + 1
           /\ nwrite % PIPESIZE = (nread + Count) % PIPESIZE
           /\ \A k \in 1..Count : (nread + k - 1) % PIPESIZE # nwrite % PIPESIZE
<1> PIPESIZE \in Nat \ {0} /\ Wrap \in Nat /\ Wrap > PIPESIZE
  BY PipeAssumption
<1>1. /\ nwrite' \in 0..Wrap-1
      /\ nwrite' = IF nwrite + 1 = Wrap THEN 0 ELSE nwrite + 1
  BY StepCounter
<1>2. /\ Count = IF nread <= nwrite THEN nwrite - nread ELSE nwrite + Wrap - nread
      /\ Count \in 0..PIPESIZE-1
  BY CountFacts DEF RingOK
<1>3. Count' = IF nread' <= nwrite' THEN nwrite' - nread' ELSE nwrite' + Wrap - nread'
  BY <1>1, Distance DEF Count
<1>4. Count' = Count + 1
  BY <1>1, <1>2, <1>3
<1>5. nwrite % PIPESIZE = (nread + Count) % PIPESIZE
  <2>1. nread + Count = nwrite \/ nread + Count = nwrite + Wrap
    BY <1>2
  <2>2. nwrite \in Nat
    OBVIOUS
  <2>3. (nwrite + Wrap) % PIPESIZE = nwrite % PIPESIZE
    BY <2>2, SlotOfWrapped
  <2>q. QED
    BY <2>1, <2>3
<1>6. ASSUME NEW k \in 1..Count PROVE (nread + k - 1) % PIPESIZE # nwrite % PIPESIZE
  <2>1. nread + k - 1 \in Nat /\ Count - k + 1 \in 1..PIPESIZE-1
    BY <1>2
  <2>2. nread + Count = (nread + k - 1) + (Count - k + 1)
    BY <1>2
  <2>q. QED
    BY <1>5, <2>1, <2>2, ModApart
<1>7. nwrite % PIPESIZE \in 0..PIPESIZE-1
  BY ModRange
<1>q. QED
  BY <1>1, <1>2, <1>4, <1>5, <1>6, <1>7

(* One byte less; the others keep their slots. *)
LEMMA GetSlot ==
    ASSUME nread \in 0..Wrap-1, nwrite \in 0..Wrap-1, ~Empty,
           nwrite' = nwrite, nread' = (nread + 1) % Wrap
    PROVE  /\ nread' \in 0..Wrap-1
           /\ Count \in Nat \ {0}
           /\ Count' = Count - 1
           /\ \A k \in Nat : (nread' + k) % PIPESIZE = (nread + 1 + k) % PIPESIZE
<1> PIPESIZE \in Nat \ {0} /\ Wrap \in Nat /\ Wrap > PIPESIZE
  BY PipeAssumption
<1>1. /\ nread' \in 0..Wrap-1
      /\ nread' = IF nread + 1 = Wrap THEN 0 ELSE nread + 1
  BY StepCounter
<1>2. /\ Count = IF nread <= nwrite THEN nwrite - nread ELSE nwrite + Wrap - nread
      /\ Count \in Nat \ {0}
  BY CountFacts
<1>3. Count' = IF nread' <= nwrite' THEN nwrite' - nread' ELSE nwrite' + Wrap - nread'
  BY <1>1, Distance DEF Count
<1>4. Count' = Count - 1
  BY <1>1, <1>2, <1>3 DEF Empty
<1>5. ASSUME NEW k \in Nat PROVE (nread' + k) % PIPESIZE = (nread + 1 + k) % PIPESIZE
  <2>1. nread + 1 + k = nread' + k \/ nread + 1 + k = (nread' + k) + Wrap
    BY <1>1
  <2>2. nread' + k \in Nat
    BY <1>1
  <2>3. ((nread' + k) + Wrap) % PIPESIZE = (nread' + k) % PIPESIZE
    BY <2>2, SlotOfWrapped
  <2>q. QED
    BY <2>1, <2>3
<1>q. QED
  BY <1>1, <1>2, <1>4, <1>5

-----------------------------------------------------------------------------
(* The invariant holds in a new pipe. *)
LEMMA InitInv == Init => IInv
<1> SUFFICES ASSUME Init PROVE IInv
  OBVIOUS
<1> USE PipeAssumption DEF Init
<1>1. nread \in 0..Wrap-1 /\ nwrite \in 0..Wrap-1
  OBVIOUS
<1>2. TypeOK
  <2>1. /\ pc \in [Procs -> PCs]
        /\ n \in [Procs -> Counts \cup {0}]
        /\ i \in [Procs -> Nat]
        /\ \A p \in Procs : i[p] <= n[p]
    BY DEF PCs
  <2>2. asleep \in [Procs -> {"nread", "nwrite", nullptr}] /\ killed \in [Procs -> BOOLEAN]
    OBVIOUS
  <2>q. QED
    BY <1>1, <2>1, <2>2 DEF TypeOK
<1>3. LockOK /\ PlacesOK /\ EndsOK
  BY DEF LockOK, PlacesOK, EndsOK, Open, SameEnd
<1>4. Count = 0
  BY <1>1, CountFacts
<1>5. RingOK
  BY <1>4 DEF RingOK
<1>6. SleepOK
  BY DEF SleepOK
<1>q. QED
  BY <1>2, <1>3, <1>5, <1>6 DEF IInv

(* The bytes a process has left to move are a natural number. *)
LEMMA CountsAreNat ==
    ASSUME TypeOK
    PROVE  n \in [Procs -> Nat]
<1>1. Counts \cup {0} \subseteq Nat
  BY PipeAssumption
<1>2. n \in [Procs -> Counts \cup {0}]
  BY DEF TypeOK
<1>q. QED
  BY <1>1, <1>2, Zenon

(* A step that leaves the counters alone leaves the ring alone. *)
LEMMA RingKept ==
    ASSUME RingOK, nread' = nread, nwrite' = nwrite
    PROVE  RingOK' /\ (Empty' <=> Empty) /\ (Full' <=> Full) /\ Count' = Count
  BY DEF RingOK, Empty, Full, Count

(* A process starts a call. *)
LEMMA CallInv ==
    ASSUME IInv, NEW p \in Procs, NEW count \in Counts, Call(p, count)
    PROVE  IInv'
<1> USE PipeAssumption DEF IInv, Call, Goto, pipeVars
<1>1. RingOK' /\ (Empty' <=> Empty) /\ (Full' <=> Full)
  BY RingKept
<1>2. TypeOK'
  BY DEF TypeOK, PlacesOK, PCs
<1>3. LockOK'
  BY DEF LockOK, TypeOK
<1>4. PlacesOK'
  BY <1>1 DEF PlacesOK, TypeOK
<1>5. EndsOK'
  BY DEF EndsOK, PlacesOK, Open, SameEnd, TypeOK, Procs
<1>6. SleepOK'
  BY <1>1 DEF SleepOK, PlacesOK, LockOK, EndsOK, Open, LeftBehind, TypeOK, Procs
<1>q. QED
  BY <1>1, <1>2, <1>3, <1>4, <1>5, <1>6

(* It gets the lock. *)
LEMMA AcquireInv ==
    ASSUME IInv, NEW p \in Procs, Acquire(p)
    PROVE  IInv'
<1> USE PipeAssumption DEF IInv, Acquire, Goto, pipeVars
<1>1. RingOK' /\ (Empty' <=> Empty) /\ (Full' <=> Full)
  BY RingKept
<1>2. TypeOK'
  BY DEF TypeOK, PlacesOK, PCs
<1>3. LockOK'
  BY DEF LockOK, TypeOK
<1>4. PlacesOK'
  BY <1>1 DEF PlacesOK, TypeOK
<1>5. EndsOK'
  BY DEF EndsOK, PlacesOK, Open, SameEnd, TypeOK, Procs
<1>6. SleepOK'
  BY <1>1 DEF SleepOK, PlacesOK, LockOK, EndsOK, Open, LeftBehind, TypeOK, Procs
<1>q. QED
  BY <1>1, <1>2, <1>3, <1>4, <1>5, <1>6

(* It goes to sleep on its channel. *)
LEMMA SleepInv ==
    ASSUME IInv, NEW p \in Procs, Sleep(p)
    PROVE  IInv'
<1> USE PipeAssumption DEF IInv, Sleep, Goto, pipeVars
<1>1. RingOK' /\ (Empty' <=> Empty) /\ (Full' <=> Full)
  BY RingKept
<1>2. TypeOK'
  BY DEF TypeOK, PlacesOK, PCs
<1>3. LockOK'
  BY DEF LockOK, TypeOK
<1>4. PlacesOK'
  BY <1>1 DEF PlacesOK, TypeOK
<1>5. EndsOK'
  BY DEF EndsOK, PlacesOK, Open, SameEnd, TypeOK, Procs
<1>6. SleepOK'
  BY <1>1 DEF SleepOK, PlacesOK, LockOK, EndsOK, Open, LeftBehind, TypeOK, Procs
<1>q. QED
  BY <1>1, <1>2, <1>3, <1>4, <1>5, <1>6

(* pipe_write returns -1. *)
LEMMA WriteFailsInv ==
    ASSUME IInv, NEW p \in Procs, WriteFails(p)
    PROVE  IInv'
<1> USE PipeAssumption DEF IInv, WriteFails, Return, Goto, pipeVars
<1>1. RingOK' /\ (Empty' <=> Empty) /\ (Full' <=> Full)
  BY RingKept
<1>2. TypeOK'
  BY DEF TypeOK, PlacesOK, PCs
<1>3. LockOK'
  BY DEF LockOK, TypeOK
<1>4. PlacesOK'
  BY <1>1 DEF PlacesOK, TypeOK
<1>5. EndsOK'
  BY DEF EndsOK, PlacesOK, Open, SameEnd, TypeOK, Procs
<1>6. SleepOK'
  BY <1>1 DEF SleepOK, PlacesOK, LockOK, EndsOK, Open, LeftBehind, TypeOK, Procs
<1>q. QED
  BY <1>1, <1>2, <1>3, <1>4, <1>5, <1>6

(* It wakes the readers before it sleeps. *)
LEMMA WriteBlocksInv ==
    ASSUME IInv, NEW p \in Procs, WriteBlocks(p)
    PROVE  IInv'
<1> USE PipeAssumption DEF IInv, WriteBlocks, Wakeup, Goto, pipeVars
<1>1. RingOK' /\ (Empty' <=> Empty) /\ (Full' <=> Full)
  BY RingKept
<1>2. TypeOK'
  BY DEF TypeOK, PlacesOK, PCs
<1>3. LockOK'
  BY DEF LockOK, TypeOK
<1>4. PlacesOK'
  BY <1>1 DEF PlacesOK, TypeOK
<1>5. EndsOK'
  BY DEF EndsOK, PlacesOK, Open, SameEnd, TypeOK, Procs
<1>6. SleepOK'
  BY <1>1 DEF SleepOK, PlacesOK, LockOK, EndsOK, Open, LeftBehind, TypeOK, Procs
<1>q. QED
  BY <1>1, <1>2, <1>3, <1>4, <1>5, <1>6

(* It wakes the readers before it returns. *)
LEMMA WriteReturnsInv ==
    ASSUME IInv, NEW p \in Procs, WriteReturns(p)
    PROVE  IInv'
<1> USE PipeAssumption DEF IInv, WriteReturns, Wakeup, Return, Goto, pipeVars
<1>1. RingOK' /\ (Empty' <=> Empty) /\ (Full' <=> Full)
  BY RingKept
<1>2. TypeOK'
  BY DEF TypeOK, PlacesOK, PCs
<1>3. LockOK'
  BY DEF LockOK, TypeOK
<1>4. PlacesOK'
  BY <1>1 DEF PlacesOK, TypeOK
<1>5. EndsOK'
  BY DEF EndsOK, PlacesOK, Open, SameEnd, TypeOK, Procs
<1>6. SleepOK'
  BY <1>1 DEF SleepOK, PlacesOK, LockOK, EndsOK, Open, LeftBehind, TypeOK, Procs
<1>q. QED
  BY <1>1, <1>2, <1>3, <1>4, <1>5, <1>6

(* pipe_read returns -1. *)
LEMMA ReadFailsInv ==
    ASSUME IInv, NEW p \in Procs, ReadFails(p)
    PROVE  IInv'
<1> USE PipeAssumption DEF IInv, ReadFails, Return, Goto, pipeVars
<1>1. RingOK' /\ (Empty' <=> Empty) /\ (Full' <=> Full)
  BY RingKept
<1>2. TypeOK'
  BY DEF TypeOK, PlacesOK, PCs
<1>3. LockOK'
  BY DEF LockOK, TypeOK
<1>4. PlacesOK'
  BY <1>1 DEF PlacesOK, TypeOK
<1>5. EndsOK'
  BY DEF EndsOK, PlacesOK, Open, SameEnd, TypeOK, Procs
<1>6. SleepOK'
  BY <1>1 DEF SleepOK, PlacesOK, LockOK, EndsOK, Open, LeftBehind, TypeOK, Procs
<1>q. QED
  BY <1>1, <1>2, <1>3, <1>4, <1>5, <1>6

(* An empty ring. *)
LEMMA ReadBlocksInv ==
    ASSUME IInv, NEW p \in Procs, ReadBlocks(p)
    PROVE  IInv'
<1> USE PipeAssumption DEF IInv, ReadBlocks, Goto, pipeVars
<1>1. RingOK' /\ (Empty' <=> Empty) /\ (Full' <=> Full)
  BY RingKept
<1>2. TypeOK'
  BY DEF TypeOK, PlacesOK, PCs
<1>3. LockOK'
  BY DEF LockOK, TypeOK
<1>4. PlacesOK'
  BY <1>1 DEF PlacesOK, TypeOK
<1>5. EndsOK'
  BY DEF EndsOK, PlacesOK, Open, SameEnd, TypeOK, Procs
<1>6. SleepOK'
  BY <1>1 DEF SleepOK, PlacesOK, LockOK, EndsOK, Open, LeftBehind, TypeOK, Procs
<1>q. QED
  BY <1>1, <1>2, <1>3, <1>4, <1>5, <1>6

(* There is something to read, or nobody left to write. *)
LEMMA ReadReadyInv ==
    ASSUME IInv, NEW p \in Procs, ReadReady(p)
    PROVE  IInv'
<1> USE PipeAssumption DEF IInv, ReadReady, Goto, pipeVars
<1>1. RingOK' /\ (Empty' <=> Empty) /\ (Full' <=> Full)
  BY RingKept
<1>2. TypeOK'
  BY DEF TypeOK, PlacesOK, PCs
<1>3. LockOK'
  BY DEF LockOK, TypeOK
<1>4. PlacesOK'
  BY <1>1 DEF PlacesOK, TypeOK
<1>5. EndsOK'
  BY DEF EndsOK, PlacesOK, Open, SameEnd, TypeOK, Procs
<1>6. SleepOK'
  BY <1>1 DEF SleepOK, PlacesOK, LockOK, EndsOK, Open, LeftBehind, TypeOK, Procs
<1>q. QED
  BY <1>1, <1>2, <1>3, <1>4, <1>5, <1>6

(* It wakes the writers before it returns. *)
LEMMA ReadReturnsInv ==
    ASSUME IInv, NEW p \in Procs, ReadReturns(p)
    PROVE  IInv'
<1> USE PipeAssumption DEF IInv, ReadReturns, Wakeup, Return, Goto, pipeVars
<1>1. RingOK' /\ (Empty' <=> Empty) /\ (Full' <=> Full)
  BY RingKept
<1>2. TypeOK'
  BY DEF TypeOK, PlacesOK, PCs
<1>3. LockOK'
  BY DEF LockOK, TypeOK
<1>4. PlacesOK'
  BY <1>1 DEF PlacesOK, TypeOK
<1>5. EndsOK'
  BY DEF EndsOK, PlacesOK, Open, SameEnd, TypeOK, Procs
<1>6. SleepOK'
  BY <1>1 DEF SleepOK, PlacesOK, LockOK, EndsOK, Open, LeftBehind, TypeOK, Procs
<1>q. QED
  BY <1>1, <1>2, <1>3, <1>4, <1>5, <1>6

(* A process closes its descriptor. *)
LEMMA CloseInv ==
    ASSUME IInv, NEW p \in Procs, Close(p)
    PROVE  IInv'
<1> USE PipeAssumption DEF IInv, Close, Goto, pipeVars
<1>1. RingOK' /\ (Empty' <=> Empty) /\ (Full' <=> Full)
  BY RingKept
<1>2. TypeOK'
  BY DEF TypeOK, PlacesOK, PCs
<1>3. LockOK'
  BY DEF LockOK, TypeOK
<1>4. PlacesOK'
  BY <1>1 DEF PlacesOK, TypeOK
<1>5. EndsOK'
  BY DEF EndsOK, PlacesOK, Open, SameEnd, TypeOK, Procs
<1>6. SleepOK'
  BY <1>1 DEF SleepOK, PlacesOK, LockOK, EndsOK, Open, LeftBehind, TypeOK, Procs
<1>q. QED
  BY <1>1, <1>2, <1>3, <1>4, <1>5, <1>6

(* The last one of an end wakes the other end. *)
LEMMA PipeCloseInv ==
    ASSUME IInv, NEW p \in Procs, PipeClose(p)
    PROVE  IInv'
<1> USE PipeAssumption DEF IInv, PipeClose, Wakeup, Goto, pipeVars
<1>1. RingOK' /\ (Empty' <=> Empty) /\ (Full' <=> Full)
  BY RingKept
<1>2. TypeOK'
  BY DEF TypeOK, PlacesOK, PCs
<1>3. LockOK'
  BY DEF LockOK, TypeOK
<1>4. PlacesOK'
  BY <1>1 DEF PlacesOK, TypeOK
<1>5. EndsOK'
  BY DEF EndsOK, PlacesOK, Open, SameEnd, TypeOK, Procs
<1>6. SleepOK'
  BY <1>1 DEF SleepOK, PlacesOK, LockOK, EndsOK, Open, LeftBehind, TypeOK, Procs
<1>q. QED
  BY <1>1, <1>2, <1>3, <1>4, <1>5, <1>6

(* kill() only wakes. *)
LEMMA KillInv ==
    ASSUME IInv, NEW p \in Procs, Kill(p)
    PROVE  IInv'
<1> USE PipeAssumption DEF IInv, Kill, Goto, pipeVars
<1>1. RingOK' /\ (Empty' <=> Empty) /\ (Full' <=> Full)
  BY RingKept
<1>2. TypeOK'
  BY DEF TypeOK, PlacesOK, PCs
<1>3. LockOK'
  BY DEF LockOK, TypeOK
<1>4. PlacesOK'
  BY <1>1 DEF PlacesOK, TypeOK
<1>5. EndsOK'
  BY DEF EndsOK, PlacesOK, Open, SameEnd, TypeOK, Procs
<1>6. SleepOK'
  BY <1>1 DEF SleepOK, PlacesOK, LockOK, EndsOK, Open, LeftBehind, TypeOK, Procs
<1>q. QED
  BY <1>1, <1>2, <1>3, <1>4, <1>5, <1>6

(* A byte goes in: no writer sleeps now, and this one will wake the readers. *)
LEMMA PutByteInv ==
    ASSUME IInv, NEW p \in Procs, NEW b \in Bytes, PutByte(p, b)
    PROVE  IInv'
<1> USE PipeAssumption DEF IInv, PutByte
<1>1. nread \in 0..Wrap-1 /\ nwrite \in 0..Wrap-1
  BY DEF TypeOK
<1>2. /\ nwrite' \in 0..Wrap-1
      /\ nwrite % PIPESIZE \in 0..PIPESIZE-1
      /\ Count \in 0..PIPESIZE-1
      /\ Count' = Count + 1
  BY <1>1, PutSlot
<1>3. TypeOK'
  <2>1. data' \in [0..PIPESIZE-1 -> Bytes]
    BY <1>2 DEF TypeOK
  <2>2. i' \in [Procs -> Nat] /\ \A q \in Procs : i'[q] <= n'[q]
    <3>1. n \in [Procs -> Nat]
      BY CountsAreNat
    <3>2. i \in [Procs -> Nat] /\ \A q \in Procs : i[q] <= n[q]
      BY DEF TypeOK
    <3>q. QED
      BY <3>1, <3>2
  <2>q. QED
    BY <1>2, <2>1, <2>2 DEF TypeOK
<1>4. \A q \in Procs : pc[q] \in {"loop", "copy", "sleep"} => q = p
  BY DEF LockOK
<1>5. LockOK' /\ EndsOK'
  BY DEF LockOK, EndsOK, Open
<1>6. PlacesOK'
  BY <1>4 DEF PlacesOK, TypeOK
<1>7. RingOK'
  BY <1>2 DEF RingOK
<1>8. SleepOK'
  BY <1>4 DEF SleepOK, Procs
<1>q. QED
  BY <1>3, <1>5, <1>6, <1>7, <1>8

(* A byte goes out: this reader will wake the writers, and a reader asleep *)
(* on bytes that were left behind is another one.                          *)
LEMMA GetByteInv ==
    ASSUME IInv, NEW p \in Procs, GetByte(p)
    PROVE  IInv'
<1> USE PipeAssumption DEF IInv, GetByte
<1>1. nread \in 0..Wrap-1 /\ nwrite \in 0..Wrap-1
  BY DEF TypeOK
<1>2. /\ nread' \in 0..Wrap-1
      /\ Count \in Nat \ {0}
      /\ Count' = Count - 1
  BY <1>1, GetSlot
<1>3. TypeOK'
  <2>1. i' \in [Procs -> Nat] /\ \A q \in Procs : i'[q] <= n'[q]
    <3>1. n \in [Procs -> Nat]
      BY CountsAreNat
    <3>2. i \in [Procs -> Nat] /\ \A q \in Procs : i[q] <= n[q]
      BY DEF TypeOK
    <3>q. QED
      BY <3>1, <3>2
  <2>q. QED
    BY <1>2, <2>1 DEF TypeOK
<1>4. /\ p \in Readers
      /\ \A q \in Procs : pc[q] \in {"loop", "copy", "sleep"} => q = p
  BY DEF LockOK, PlacesOK
<1>5. LockOK' /\ EndsOK'
  BY DEF LockOK, EndsOK, Open
<1>6. PlacesOK'
  BY <1>4 DEF PlacesOK, TypeOK
<1>7. RingOK'
  BY <1>2 DEF RingOK
<1>8. SleepOK'
  <2>1. \A q \in Procs : asleep[q] # nullptr => q # p
    BY DEF PlacesOK
  <2>2. \A q \in Procs : asleep[q] = "nread" => writeopen /\ LeftBehind(q)'
    BY <1>4, <2>1 DEF SleepOK, LeftBehind, Procs
  <2>q. QED
    BY <1>4, <2>2 DEF SleepOK, Procs
<1>q. QED
  BY <1>3, <1>5, <1>6, <1>7, <1>8

-----------------------------------------------------------------------------
(* Every step preserves the invariant. *)
LEMMA NextInv == IInv /\ [Next]_vars => IInv'
<1> SUFFICES ASSUME IInv, [Next]_vars PROVE IInv'
  OBVIOUS
<1>1. CASE UNCHANGED vars
  <2> USE <1>1 DEF vars, pipeVars, IInv
  <2>1. RingOK' /\ (Empty' <=> Empty) /\ (Full' <=> Full)
    BY RingKept
  <2>2. TypeOK' /\ LockOK' /\ EndsOK'
    BY DEF TypeOK, LockOK, EndsOK, Open
  <2>3. PlacesOK' /\ SleepOK'
    BY <2>1 DEF PlacesOK, SleepOK, LeftBehind
  <2>q. QED
    BY <2>1, <2>2, <2>3
<1>2. ASSUME NEW p \in Procs, NEW count \in (IF p \in Writers THEN WriteCounts ELSE ReadCounts),
             Call(p, count)
      PROVE  IInv'
  BY <1>2, CallInv DEF Counts
<1>3. ASSUME NEW p \in Procs, Continue(p)
      PROVE  IInv'
  BY <1>3, SleepInv, PutByteInv, WriteFailsInv, WriteBlocksInv, WriteReturnsInv,
     ReadFailsInv, ReadBlocksInv, ReadReadyInv, GetByteInv, ReadReturnsInv DEF Continue
<1>4. ASSUME NEW p \in Procs, Acquire(p) \/ Close(p) \/ PipeClose(p) \/ Kill(p)
      PROVE  IInv'
  BY <1>4, AcquireInv, CloseInv, PipeCloseInv, KillInv
<1>q. QED
  BY <1>1, <1>2, <1>3, <1>4 DEF Next

(* The invariant holds in every reachable state. *)
LEMMA Invariant == Spec => []IInv
  BY InitInv, NextInv, PTL DEF Spec

(* pipe_read, pipe_write, pipe_close and kill() keep the types; in         *)
(* particular no call moves more bytes than it was asked to.               *)
THEOREM TypeCorrect == Spec => []TypeOK
  BY Invariant, PTL DEF IInv

(* pipe_close frees the page when no process can use it any more: the last *)
(* close of each end comes after every pipe_read and pipe_write on it.     *)
THEOREM PageNotUsedAfterFree == Spec => []NoUseAfterFree
<1>1. IInv => NoUseAfterFree
  BY DEF IInv, TypeOK, PlacesOK, EndsOK, Open, NoUseAfterFree, Procs, PCs
<1>q. QED
  BY <1>1, Invariant, PTL

(* While p->lock is free, a writer sleeps only on a full ring with readers *)
(* and a reader only on an empty one with writers, or on what a killed     *)
(* writer left behind: no wakeup of pipe.c is missed.                      *)
THEOREM WakeupsNotLost == Spec => []NoLostWakeup
<1>1. IInv => NoLostWakeup
  BY PipeAssumption DEF IInv, LockOK, SleepOK, NoLostWakeup, Procs
<1>q. QED
  BY <1>1, Invariant, PTL

(* pipe_read returns 0 for a non-empty request only when all bytes have    *)
(* been read and the write end is closed.                                  *)
THEOREM ZeroMeansEof == Spec => ShortReadMeansEof
<1> DEFINE Eof == \A p \in Readers :
               pc[p] = "copy" /\ pc'[p] = "idle" /\ n[p] > 0 /\ i[p] = 0 => Empty /\ ~writeopen
<1>1. IInv /\ [Next]_vars => [Eof]_vars
  <2> SUFFICES ASSUME IInv, Next, NEW r \in Readers,
                      pc[r] = "copy", pc'[r] = "idle", n[r] > 0, i[r] = 0
               PROVE  Empty /\ ~writeopen
    OBVIOUS
  <2>1. r \in Procs /\ pc \in [Procs -> PCs]
    BY DEF IInv, TypeOK, Procs
  <2>2. PICK p \in Procs :
          \/ \E count \in (IF p \in Writers THEN WriteCounts ELSE ReadCounts) : Call(p, count)
          \/ Acquire(p) \/ Continue(p) \/ Close(p) \/ PipeClose(p) \/ Kill(p)
    BY DEF Next
  <2>3. p = r
    BY <2>1, <2>2 DEF Call, Acquire, Continue, Sleep, PutByte, WriteFails, WriteBlocks,
       WriteReturns, ReadFails, ReadBlocks, ReadReady, GetByte, ReadReturns, Return,
       Close, PipeClose, Kill, Goto
  <2>4. ReadReturns(r)
    BY <2>1, <2>2, <2>3 DEF Call, Acquire, Continue, Sleep, PutByte, WriteFails,
       WriteBlocks, WriteReturns, ReadFails, ReadBlocks, ReadReady, GetByte,
       Close, PipeClose, Kill
  <2>5. Empty
    BY <2>4 DEF ReadReturns
  <2>q. QED
    BY <2>1, <2>5 DEF IInv, PlacesOK
<1>q. QED
  BY <1>1, Invariant, PTL DEF Spec, ShortReadMeansEof

-----------------------------------------------------------------------------
(* The bytes in the ring, oldest first: what ByteStream's stream stands    *)
(* for.                                                                    *)
RingBytes == [k \in 1..Count |-> data[(nread + k - 1) % PIPESIZE]]

(* The bytes in the ring are a sequence of Count bytes. *)
LEMMA RingBytesSeq ==
    ASSUME IInv
    PROVE  RingBytes \in Seq(Bytes) /\ Len(RingBytes) = Count /\ Count \in Nat
<1> PIPESIZE \in Nat \ {0} /\ Wrap \in Nat
  BY PipeAssumption
<1>1. nread \in 0..Wrap-1 /\ nwrite \in 0..Wrap-1 /\ data \in [0..PIPESIZE-1 -> Bytes]
  BY DEF IInv, TypeOK
<1>2. Count \in Nat
  BY <1>1, CountFacts
<1>3. ASSUME NEW k \in 1..Count PROVE data[(nread + k - 1) % PIPESIZE] \in Bytes
  <2>1. nread + k - 1 \in Nat
    BY <1>1, <1>2
  <2>2. (nread + k - 1) % PIPESIZE \in 0..PIPESIZE-1
    BY <2>1, ModRange
  <2>q. QED
    BY <1>1, <2>2
<1>4. RingBytes \in [1..Count -> Bytes]
  BY <1>3 DEF RingBytes
<1>q. QED
  BY <1>2, <1>4

(* A byte is put at the end of the stream. *)
LEMMA PutAppends ==
    ASSUME IInv, NEW p \in Procs, NEW b \in Bytes, PutByte(p, b)
    PROVE  /\ Len(RingBytes) < PIPESIZE
           /\ RingBytes' = Append(RingBytes, b)
<1> PIPESIZE \in Nat \ {0} /\ Wrap \in Nat
  BY PipeAssumption
<1>1. nread \in 0..Wrap-1 /\ nwrite \in 0..Wrap-1 /\ data \in [0..PIPESIZE-1 -> Bytes]
  BY DEF IInv, TypeOK
<1>2. /\ nread' = nread
      /\ data' = [data EXCEPT ![nwrite % PIPESIZE] = b]
  BY DEF PutByte
<1>3. /\ nwrite % PIPESIZE \in 0..PIPESIZE-1
      /\ Count \in 0..PIPESIZE-1
      /\ Count' = Count + 1
      /\ nwrite % PIPESIZE = (nread + Count) % PIPESIZE
      /\ \A k \in 1..Count : (nread + k - 1) % PIPESIZE # nwrite % PIPESIZE
  BY <1>1, PutSlot DEF IInv, PutByte
<1>4. RingBytes \in Seq(Bytes) /\ Len(RingBytes) = Count
  BY RingBytesSeq
<1>5. ASSUME NEW k \in 1..Count PROVE RingBytes'[k] = RingBytes[k]
  <2>1. (nread + k - 1) % PIPESIZE \in 0..PIPESIZE-1
    <3>1. nread + k - 1 \in Nat
      BY <1>1, <1>3
    <3>q. QED
      BY <3>1, ModRange
  <2>2. data'[(nread + k - 1) % PIPESIZE] = data[(nread + k - 1) % PIPESIZE]
    BY <1>1, <1>2, <1>3, <2>1
  <2>3. k \in 1..Count'
    BY <1>3
  <2>q. QED
    BY <1>2, <2>2, <2>3 DEF RingBytes
<1>6. RingBytes'[Count + 1] = b
  <2>1. nread + (Count + 1) - 1 = nread + Count /\ Count + 1 \in 1..Count'
    BY <1>1, <1>3
  <2>2. data'[(nread + Count) % PIPESIZE] = b
    BY <1>1, <1>2, <1>3
  <2>q. QED
    BY <1>2, <2>1, <2>2 DEF RingBytes
<1>7. /\ Append(RingBytes, b) \in [1..Count+1 -> Bytes]
      /\ \A k \in 1..Count : Append(RingBytes, b)[k] = RingBytes[k]
      /\ Append(RingBytes, b)[Count + 1] = b
  <2>1. Append(RingBytes, b) \in Seq(Bytes) /\ Len(Append(RingBytes, b)) = Count + 1
    BY <1>4, AppendProperties
  <2>2. Append(RingBytes, b) \in [1..Count+1 -> Bytes]
    BY <2>1, LenProperties
  <2>q. QED
    BY <1>4, <2>2, AppendProperties
<1>8. RingBytes' = [k \in 1..Count+1 |-> RingBytes'[k]]
  BY <1>3 DEF RingBytes
<1>9. ASSUME NEW k \in 1..Count+1 PROVE RingBytes'[k] = Append(RingBytes, b)[k]
  BY <1>3, <1>5, <1>6, <1>7
<1>q. QED
  BY <1>3, <1>4, <1>7, <1>8, <1>9

(* The byte that is read is the oldest one. *)
LEMMA GetTakesHead ==
    ASSUME IInv, NEW p \in Procs, GetByte(p)
    PROVE  /\ RingBytes # <<>>
           /\ RingBytes' = Tail(RingBytes)
<1> PIPESIZE \in Nat \ {0} /\ Wrap \in Nat
  BY PipeAssumption
<1>1. nread \in 0..Wrap-1 /\ nwrite \in 0..Wrap-1 /\ data' = data
  BY DEF IInv, TypeOK, GetByte
<1>2. /\ nread' \in 0..Wrap-1
      /\ Count \in Nat \ {0}
      /\ Count' = Count - 1
      /\ \A k \in Nat : (nread' + k) % PIPESIZE = (nread + 1 + k) % PIPESIZE
  BY <1>1, GetSlot DEF GetByte
<1>3. RingBytes \in Seq(Bytes) /\ Len(RingBytes) = Count
  BY RingBytesSeq
<1>4. RingBytes # <<>>
  BY <1>2, <1>3, EmptySeq
<1>5. /\ Tail(RingBytes) \in [1..Count-1 -> Bytes]
      /\ \A k \in 1..Count-1 : Tail(RingBytes)[k] = RingBytes[k + 1]
  BY <1>2, <1>3, <1>4, HeadTailProperties, LenProperties
<1>6. ASSUME NEW k \in 1..Count-1 PROVE RingBytes'[k] = RingBytes[k + 1]
  <2>1. /\ k - 1 \in Nat /\ k \in 1..Count' /\ k + 1 \in 1..Count
        /\ nread' + (k - 1) = nread' + k - 1
        /\ nread + 1 + (k - 1) = nread + (k + 1) - 1
    BY <1>1, <1>2
  <2>2. (nread' + k - 1) % PIPESIZE = (nread + (k + 1) - 1) % PIPESIZE
    BY <1>2, <2>1
  <2>q. QED
    BY <1>1, <2>1, <2>2 DEF RingBytes
<1>7. RingBytes' = [k \in 1..Count-1 |-> RingBytes'[k]]
  BY <1>2 DEF RingBytes
<1>q. QED
  BY <1>4, <1>5, <1>6, <1>7

(* The other steps leave the ring as it is. *)
LEMMA RingBytesKept ==
    ASSUME data' = data, nread' = nread, nwrite' = nwrite
    PROVE  RingBytes' = RingBytes
  BY DEF RingBytes, Count

(* A pipe is a bounded FIFO: whatever the interleaving of readers and      *)
(* writers and however often the ring and the u32 counters wrap, a byte    *)
(* read is the oldest one written and not yet read.                        *)
THEOREM PipeIsByteStream == Spec => ImplementsByteStream
<1>1. Init => Stream!Init
  <2> SUFFICES ASSUME Init PROVE Stream!Init
    OBVIOUS
  <2>1. IInv /\ Count = 0
    BY InitInv, CountFacts DEF IInv, TypeOK, Init, Empty
  <2>2. RingBytes = <<>>
    BY <2>1, RingBytesSeq, EmptySeq
  <2>q. QED
    BY <2>2 DEF Init, Stream!Init, RingBytes
<1>2. IInv /\ [Next]_vars => [Stream!Next]_<<RingBytes, readopen, writeopen>>
  <2> SUFFICES ASSUME IInv, [Next]_vars
               PROVE  Stream!Next \/ UNCHANGED <<RingBytes, readopen, writeopen>>
    OBVIOUS
  <2>1. ASSUME NEW p \in Procs, NEW b \in Bytes, PutByte(p, b) PROVE Stream!Put
    <3>1. writeopen /\ UNCHANGED <<readopen, writeopen>>
      BY <2>1 DEF IInv, PlacesOK, EndsOK, Open, PutByte
    <3>q. QED
      BY <2>1, <3>1, PutAppends DEF Stream!Put, RingBytes
  <2>2. ASSUME NEW p \in Procs, GetByte(p) PROVE Stream!Get
    <3>1. readopen /\ UNCHANGED <<readopen, writeopen>>
      BY <2>2, PipeAssumption DEF IInv, PlacesOK, EndsOK, Open, GetByte
    <3>q. QED
      BY <2>2, <3>1, GetTakesHead DEF Stream!Get, RingBytes
  <2>3. ASSUME NEW p \in Procs, PipeClose(p) PROVE Stream!CloseRead \/ Stream!CloseWrite
    <3>1. RingBytes' = RingBytes
      BY <2>3, RingBytesKept DEF PipeClose
    <3>2. CASE p \in Writers
      <4>1. writeopen /\ writeopen' = FALSE /\ readopen' = readopen
        BY <2>3, <3>2, PipeAssumption DEF IInv, TypeOK, EndsOK, Open, PipeClose
      <4>q. QED
        BY <3>1, <4>1 DEF Stream!CloseWrite, RingBytes
    <3>3. CASE p \in Readers
      <4>1. readopen /\ readopen' = FALSE /\ writeopen' = writeopen
        BY <2>3, <3>3, PipeAssumption DEF IInv, TypeOK, EndsOK, Open, PipeClose
      <4>q. QED
        BY <3>1, <4>1 DEF Stream!CloseRead, RingBytes
    <3>q. QED
      BY <3>2, <3>3 DEF Procs
  <2>4. CASE UNCHANGED pipeVars
    BY <2>4, RingBytesKept DEF pipeVars
  <2>5. \/ UNCHANGED pipeVars
        \/ \E p \in Procs, b \in Bytes : PutByte(p, b)
        \/ \E p \in Procs : GetByte(p) \/ PipeClose(p)
    BY DEF Next, Continue, Call, Acquire, Sleep, WriteFails, WriteBlocks, WriteReturns,
       ReadFails, ReadBlocks, ReadReady, ReadReturns, Close, Kill, vars
  <2>q. QED
    BY <2>1, <2>2, <2>3, <2>4, <2>5 DEF Stream!Next
<1>q. QED
  BY <1>1, <1>2, Invariant, PTL DEF Spec, ImplementsByteStream, Stream!Spec, RingBytes
=============================================================================

--------------------------- MODULE RunQueueProofs ---------------------------
(***************************************************************************)
(* For any set of tasks: the linked list of struct process_queue stays a   *)
(* list, and each operation on it is the one TaskQueue promises, which is  *)
(* what the proofs about the scheduler start from.                         *)
(*                                                                         *)
(* That the list is well formed is inductive with the types.  Head and     *)
(* next determine the list, so that the list after a step can be given     *)
(* explicitly: the old one, that with the task appended, or its tail.      *)
(***************************************************************************)
EXTENDS RunQueue, TLAPS, FiniteSetTheorems, SequenceTheorems, WellFoundedInduction

(* Any nonempty set of natural numbers has a least element. *)
LEMMA SmallestExists ==
    ASSUME NEW S \in SUBSET Nat, S # {}
    PROVE  \E x \in S : \A y \in S : x <= y
<1> DEFINE R == OpToRel(<, Nat)
<1>1. IsWellFoundedOn(R, Nat)
  BY NatLessThanWellFounded
<1>2. PICK x \in S : \A y \in S : ~ (<<y, x>> \in R)
  <2> HIDE DEF R
  <2>q. QED
    BY <1>1, WFMin
<1>3. \A y \in S : ~ (y < x)
  BY <1>2 DEF OpToRel
<1>q. QED
  BY <1>3

WellFormed(o, h, tl, nx, n) ==
    /\ IsList(o, h, nx)
    /\ tl = IF o = <<>> THEN nullptr ELSE o[Len(o)]
    /\ \A t \in Tasks : (\A i \in 1..Len(o) : o[i] # t) => nx[t] = nullptr
    /\ n >= Len(o)

IInv == TypeOK /\ \E o \in Lists : WellFormed(o, head, tail, next, size)

-----------------------------------------------------------------------------
(* The lists are the sequences of distinct tasks. *)
LEMMA ListsAreSeqs ==
    ASSUME NEW o \in Lists
    PROVE  o \in Seq(Tasks) /\ Len(o) \in Nat /\ o \in [1..Len(o) -> Tasks]
<1>1. PICK n \in Nat : o \in [1..n -> Tasks]
  <2>1. Cardinality(Tasks) \in Nat
    BY RunQueueAssumption, FS_CardinalityType
  <2>q. QED
    BY <2>1 DEF Lists
<1>2. o \in Seq(Tasks)
  BY <1>1, IsASeq
<1>3. Len(o) = n
  BY <1>1, <1>2, LenProperties
<1>q. QED
  BY <1>1, <1>2, <1>3

(* A sequence of tasks without repetition is a candidate for the list. *)
LEMMA SeqsAreLists ==
    ASSUME NEW o \in Seq(Tasks), \A i, j \in 1..Len(o) : o[i] = o[j] => i = j
    PROVE  o \in Lists
<1>1. o \in [1..Len(o) -> Tasks] /\ Len(o) \in Nat
  BY LenProperties
<1>2. o \in Injection(1..Len(o), Tasks)
  BY <1>1 DEF Injection, IsInjective
<1>3. Cardinality(1..Len(o)) = Len(o)
  <2>1. PICK n \in Nat : n = Len(o)
    BY <1>1
  <2>2. Cardinality(1..n) = n
    BY FS_Interval
  <2>q. QED
    BY <2>1, <2>2
<1>4. Cardinality(1..Len(o)) <= Cardinality(Tasks) /\ Cardinality(Tasks) \in Nat
  BY <1>2, RunQueueAssumption, FS_Injection, FS_CardinalityType
<1>5. Len(o) \in 0..Cardinality(Tasks)
  BY <1>1, <1>3, <1>4
<1>q. QED
  BY <1>1, <1>5 DEF Lists

(* head and next determine the list: two lists agree at each place, or     *)
(* there is a first place where they differ, and one does not end before   *)
(* the other.                                                              *)
LEMMA ListUnique ==
    ASSUME NEW h, NEW nx, NEW o \in Lists, NEW r \in Lists, IsList(o, h, nx), IsList(r, h, nx)
    PROVE  o = r
<1> /\ Len(o) \in Nat /\ o \in [1..Len(o) -> Tasks] /\ o \in Seq(Tasks)
    /\ Len(r) \in Nat /\ r \in [1..Len(r) -> Tasks] /\ r \in Seq(Tasks)
    /\ nullptr \notin Tasks
  BY ListsAreSeqs, RunQueueAssumption
<1>1. /\ \A i \in 1..Len(o) : nx[o[i]] = IF i = Len(o) THEN nullptr ELSE o[i + 1]
      /\ \A i \in 1..Len(r) : nx[r[i]] = IF i = Len(r) THEN nullptr ELSE r[i + 1]
      /\ h = (IF o = <<>> THEN nullptr ELSE o[1]) /\ h = (IF r = <<>> THEN nullptr ELSE r[1])
  BY DEF IsList
<1>2. (o = <<>> <=> Len(o) = 0) /\ (r = <<>> <=> Len(r) = 0)
  BY EmptySeq
<1>3. \A i \in 1..Len(o) : i \in 1..Len(r) => o[i] = r[i]
  <2> DEFINE D == {i \in Nat : i \in 1..Len(o) /\ i \in 1..Len(r) /\ o[i] # r[i]}
  <2>1. ASSUME D # {} PROVE FALSE
    <3>1. D \in SUBSET Nat
      OBVIOUS
    <3>2. PICK i \in D : \A j \in D : i <= j
      <4> HIDE DEF D
      <4>q. QED
        BY <2>1, <3>1, SmallestExists
    <3>3. CASE i = 1
      <4>1. Len(o) # 0 /\ Len(r) # 0
        OBVIOUS
      <4>2. o[1] = r[1]
        BY <1>1, <1>2, <4>1
      <4>q. QED
        BY <3>3, <4>2
    <3>4. CASE i # 1
      <4>1. /\ i - 1 \in 1..Len(o) /\ i - 1 \in 1..Len(r) /\ i - 1 \in Nat /\ (i - 1) + 1 = i
            /\ i - 1 # Len(o) /\ i - 1 # Len(r) /\ ~(i <= i - 1)
        BY <3>4
      <4>2. i - 1 \notin D
        BY <3>2, <4>1
      <4>3. o[i - 1] = r[i - 1]
        BY <4>1, <4>2
      <4>4. nx[o[i - 1]] = o[i] /\ nx[r[i - 1]] = r[i]
        BY <1>1, <4>1
      <4>q. QED
        BY <4>3, <4>4
    <3>q. QED
      BY <3>3, <3>4
  <2>q. QED
    BY <2>1
<1>4. ASSUME Len(o) < Len(r) PROVE FALSE
  <2>1. CASE Len(o) = 0
    <3>1. r[1] \in Tasks
      BY <1>4, <2>1
    <3>q. QED
      BY <1>1, <1>2, <1>4, <2>1, <3>1
  <2>2. CASE Len(o) # 0
    <3>1. /\ Len(o) \in 1..Len(o) /\ Len(o) \in 1..Len(r) /\ Len(o) + 1 \in 1..Len(r)
          /\ Len(o) # Len(r)
      <4>1. PICK m \in Nat, n \in Nat : m = Len(o) /\ n = Len(r)
        OBVIOUS
      <4>2. m < n /\ m # 0
        BY <1>4, <2>2, <4>1
      <4>3. m \in 1..m /\ m \in 1..n /\ m + 1 \in 1..n /\ m # n
        BY <4>2
      <4>q. QED
        BY <4>1, <4>3
    <3>2. nx[o[Len(o)]] = nullptr /\ nx[r[Len(o)]] = r[Len(o) + 1] /\ r[Len(o) + 1] \in Tasks
      BY <1>1, <3>1
    <3>3. o[Len(o)] = r[Len(o)]
      BY <1>3, <3>1
    <3>q. QED
      BY <3>2, <3>3
  <2>q. QED
    BY <2>1, <2>2
<1>5. ASSUME Len(r) < Len(o) PROVE FALSE
  <2>1. CASE Len(r) = 0
    <3>1. o[1] \in Tasks
      BY <1>5, <2>1
    <3>q. QED
      BY <1>1, <1>2, <1>5, <2>1, <3>1
  <2>2. CASE Len(r) # 0
    <3>1. /\ Len(r) \in 1..Len(r) /\ Len(r) \in 1..Len(o) /\ Len(r) + 1 \in 1..Len(o)
          /\ Len(r) # Len(o)
      <4>1. PICK m \in Nat, n \in Nat : m = Len(r) /\ n = Len(o)
        OBVIOUS
      <4>2. m < n /\ m # 0
        BY <1>5, <2>2, <4>1
      <4>3. m \in 1..m /\ m \in 1..n /\ m + 1 \in 1..n /\ m # n
        BY <4>2
      <4>q. QED
        BY <4>1, <4>3
    <3>2. nx[r[Len(r)]] = nullptr /\ nx[o[Len(r)]] = o[Len(r) + 1] /\ o[Len(r) + 1] \in Tasks
      BY <1>1, <3>1
    <3>3. o[Len(r)] = r[Len(r)]
      BY <1>3, <3>1
    <3>q. QED
      BY <3>2, <3>3
  <2>q. QED
    BY <2>1, <2>2
<1>6. Len(o) = Len(r)
  <2>1. PICK m \in Nat, n \in Nat : m = Len(o) /\ n = Len(r)
    OBVIOUS
  <2>2. ~(m < n) /\ ~(n < m)
    BY <1>4, <1>5, <2>1
  <2>3. m = n
    BY <2>2
  <2>q. QED
    BY <2>1, <2>3
<1>q. QED
  BY <1>3, <1>6

(* The list that starts at h is the only one, so CHOOSE returns it. *)
LEMMA TheList ==
    ASSUME NEW h, NEW nx, NEW o \in Lists, IsList(o, h, nx)
    PROVE  (CHOOSE r \in Lists : IsList(r, h, nx)) = o
  BY ListUnique

-----------------------------------------------------------------------------
(* The list after enqueue_task: unchanged if the task is the last already, *)
(* else with the task behind the others.                                   *)
LEMMA EnqueueList ==
    ASSUME TypeOK, NEW task \in Tasks, EnqueueTask(task),
           NEW o \in Lists, WellFormed(o, head, tail, next, size)
    PROVE  /\ TypeOK'
           /\ \/ /\ o # <<>> /\ o[Len(o)] = task
                 /\ WellFormed(o, head', tail', next', size')
              \/ /\ \A i \in 1..Len(o) : o[i] # task
                 /\ Append(o, task) \in Lists
                 /\ WellFormed(Append(o, task), head', tail', next', size')
<1> o \in Seq(Tasks) /\ nullptr \notin Tasks /\ MaxSize \in Nat
  BY ListsAreSeqs, RunQueueAssumption
<1>0. PICK m \in Nat : m = Len(o)
  BY ListsAreSeqs
<1> /\ \A i \in 1..m : o[i] \in Tasks
  BY <1>0
<1>1. /\ head \in Tasks \cup {nullptr} /\ tail \in Tasks \cup {nullptr}
      /\ next \in [Tasks -> Tasks \cup {nullptr}] /\ size \in 0..MaxSize
  BY DEF TypeOK
<1>2. /\ \A i, j \in 1..m : o[i] = o[j] => i = j
      /\ head = IF o = <<>> THEN nullptr ELSE o[1]
      /\ \A i \in 1..m : next[o[i]] = IF i = m THEN nullptr ELSE o[i + 1]
      /\ tail = IF o = <<>> THEN nullptr ELSE o[m]
      /\ \A t \in Tasks : (\A i \in 1..m : o[i] # t) => next[t] = nullptr
      /\ size >= m
  BY <1>0 DEF WellFormed, IsList
<1>3. /\ size < MaxSize /\ next[task] = nullptr
      /\ head' = IF head = nullptr THEN task ELSE head
      /\ next' = [t \in Tasks |-> IF t = task THEN nullptr
                                  ELSE IF t = tail THEN task ELSE next[t]]
      /\ tail' = task /\ size' = size + 1
  BY DEF EnqueueTask
<1>4. TypeOK'
  <2>1. size' \in 0..MaxSize
    BY <1>1, <1>3
  <2>q. QED
    BY <1>1, <1>3, <2>1 DEF TypeOK
<1>5. o = <<>> <=> m = 0
  BY <1>0, EmptySeq
<1>6. size' >= m /\ size' >= m + 1
  BY <1>1, <1>2, <1>3
<1>7. ASSUME NEW k \in 1..m, o[k] = task
      PROVE  o # <<>> /\ o[m] = task /\ WellFormed(o, head', tail', next', size')
  <2>1. k = m /\ o # <<>>
    <3>1. k # m => k + 1 \in 1..m
      OBVIOUS
    <3>2. k # m => next[o[k]] \in Tasks
      BY <1>2, <3>1
    <3>q. QED
      BY <1>3, <1>5, <1>7, <3>2
  <2>2. tail = task /\ head # nullptr
    BY <1>2, <1>7, <2>1
  <2>3. next' = next
    BY <1>1, <1>3, <2>2
  <2>4. head' = head /\ tail' = tail
    BY <1>3, <2>2
  <2>5. IsList(o, head', next')
    BY <1>0, <1>2, <2>3, <2>4 DEF IsList
  <2>q. QED
    BY <1>0, <1>2, <1>6, <1>7, <2>1, <2>3, <2>4, <2>5 DEF WellFormed
<1>8. ASSUME \A i \in 1..m : o[i] # task
      PROVE  /\ Append(o, task) \in Lists
             /\ WellFormed(Append(o, task), head', tail', next', size')
  <2>1. PICK a \in Seq(Tasks) : a = Append(o, task)
    <3>1. Append(o, task) \in Seq(Tasks)
      OBVIOUS
    <3>q. QED
      BY <3>1
  <2>2. /\ Len(a) = m + 1 /\ a[m + 1] = task /\ a # <<>>
        /\ \A i \in 1..m : a[i] = o[i] /\ a[i] # task /\ a[i] \in Tasks
    BY <1>0, <1>8, <2>1
  <2>3. \A i \in 1..(m + 1) : i \in 1..m \/ i = m + 1
    OBVIOUS
  <2>4. \A i, j \in 1..Len(a) : a[i] = a[j] => i = j
    BY <1>2, <2>2, <2>3
  <2>5. a \in Lists
    BY <2>4, SeqsAreLists
  <2>6. head' = a[1]
    <3>1. CASE m = 0
      BY <1>2, <1>3, <1>5, <2>2, <3>1
    <3>2. CASE m # 0
      <4>1. 1 \in 1..m
        BY <3>2
      <4>2. head = o[1] /\ o[1] \in Tasks
        BY <1>2, <1>5, <3>2, <4>1
      <4>q. QED
        BY <1>3, <2>2, <4>1, <4>2
    <3>q. QED
      BY <3>1, <3>2
  <2>7. ASSUME NEW i \in 1..(m + 1)
        PROVE  next'[a[i]] = IF i = m + 1 THEN nullptr ELSE a[i + 1]
    <3>1. CASE i = m + 1
      BY <1>3, <2>2, <3>1
    <3>2. CASE i = m /\ m # 0
      <4>1. tail = a[i] /\ a[i] # task /\ a[i] \in Tasks
        BY <1>2, <1>5, <2>2, <3>2
      <4>q. QED
        BY <1>3, <2>2, <3>2, <4>1
    <3>3. CASE i \in 1..m /\ i # m
      <4>1. i + 1 \in 1..m /\ i + 1 # m + 1 /\ m \in 1..m /\ m # 0
        BY <3>3
      <4>2. tail = o[m] /\ o[i] # o[m]
        BY <1>2, <1>5, <3>3, <4>1
      <4>3. next'[a[i]] = next[o[i]]
        BY <1>3, <2>2, <3>3, <4>2
      <4>4. next[o[i]] = o[i + 1]
        BY <1>2, <3>3
      <4>q. QED
        BY <2>2, <3>3, <4>1, <4>3, <4>4
    <3>q. QED
      BY <2>3, <3>1, <3>2, <3>3
  <2>8. ASSUME NEW t \in Tasks, \A i \in 1..(m + 1) : a[i] # t
        PROVE  next'[t] = nullptr
    <3>1. t # task
      BY <2>2, <2>8
    <3>2. \A i \in 1..m : o[i] # t
      <4>1. \A i \in 1..m : i \in 1..(m + 1)
        OBVIOUS
      <4>q. QED
        BY <2>2, <2>8, <4>1
    <3>3. next[t] = nullptr
      BY <1>2, <3>2
    <3>4. t # tail
      <4>1. m # 0 => m \in 1..m
        OBVIOUS
      <4>q. QED
        BY <1>2, <1>5, <3>2, <4>1
    <3>q. QED
      BY <1>3, <3>1, <3>3, <3>4
  <2>9. IsList(a, head', next')
    BY <2>2, <2>4, <2>6, <2>7 DEF IsList
  <2>10. size' >= Len(a)
    BY <1>6, <2>2
  <2>q. QED
    BY <1>3, <2>1, <2>2, <2>5, <2>8, <2>9, <2>10 DEF WellFormed
<1>q. QED
  BY <1>0, <1>4, <1>7, <1>8

(* The list after dequeue_task: without its first task. *)
LEMMA DequeueList ==
    ASSUME TypeOK, DequeueTask, NEW o \in Lists, WellFormed(o, head, tail, next, size)
    PROVE  /\ TypeOK' /\ o # <<>> /\ Tail(o) \in Lists
           /\ size \in Nat \ {0} /\ size' = size - 1
           /\ WellFormed(Tail(o), head', tail', next', size')
<1> /\ Len(o) \in Nat /\ o \in [1..Len(o) -> Tasks] /\ o \in Seq(Tasks)
    /\ nullptr \notin Tasks /\ MaxSize \in Nat
  BY ListsAreSeqs, RunQueueAssumption
<1>1. /\ head \in Tasks \cup {nullptr} /\ tail \in Tasks \cup {nullptr}
      /\ next \in [Tasks -> Tasks \cup {nullptr}] /\ size \in 0..MaxSize
  BY DEF TypeOK
<1>2. /\ \A i, j \in 1..Len(o) : o[i] = o[j] => i = j
      /\ head = IF o = <<>> THEN nullptr ELSE o[1]
      /\ \A i \in 1..Len(o) : next[o[i]] = IF i = Len(o) THEN nullptr ELSE o[i + 1]
      /\ tail = IF o = <<>> THEN nullptr ELSE o[Len(o)]
      /\ \A t \in Tasks : (\A i \in 1..Len(o) : o[i] # t) => next[t] = nullptr
      /\ size >= Len(o)
  BY DEF WellFormed, IsList
<1>3. /\ head # nullptr /\ head' = next[head]
      /\ tail' = IF next[head] = nullptr THEN nullptr ELSE tail
      /\ next' = [next EXCEPT ![head] = nullptr]
      /\ size' = IF size - 1 < 0 THEN 0 ELSE size - 1
  BY DEF DequeueTask
<1>4. o # <<>> /\ Len(o) # 0 /\ head = o[1]
  BY <1>2, <1>3, EmptySeq
<1>5. PICK m \in Nat : Len(o) = m + 1
  <2>1. Len(o) - 1 \in Nat /\ Len(o) = (Len(o) - 1) + 1
    BY <1>4
  <2>q. QED
    BY <2>1
<1>6. size \in Nat \ {0} /\ size' = size - 1 /\ size' \in 0..MaxSize /\ size' >= m
  BY <1>1, <1>2, <1>3, <1>5
<1>7. PICK a \in Seq(Tasks) : /\ a = Tail(o) /\ Len(a) = m
                              /\ \A i \in 1..m : a[i] = o[i + 1]
  <2>1. Tail(o) \in Seq(Tasks) /\ Len(Tail(o)) = Len(o) - 1
    BY <1>4
  <2>2. \A i \in 1..(Len(o) - 1) : Tail(o)[i] = o[i + 1]
    BY <1>4
  <2>3. Len(o) - 1 = m
    BY <1>5
  <2>q. QED
    BY <2>1, <2>2, <2>3
<1>8. \A i \in 1..m : i + 1 \in 1..Len(o) /\ i + 1 # 1 /\ (i + 1 = Len(o) <=> i = m)
  BY <1>5
<1>9. 1 \in 1..Len(o) /\ (1 = Len(o) <=> m = 0)
  BY <1>5
<1>10. TypeOK'
  BY <1>1, <1>3, <1>4, <1>6, <1>9 DEF TypeOK
<1>11. \A i, j \in 1..m : a[i] = a[j] => i = j
  <2>1. ASSUME NEW i \in 1..m, NEW j \in 1..m, a[i] = a[j] PROVE i = j
    <3>1. o[i + 1] = o[j + 1]
      BY <1>7, <2>1
    <3>2. i + 1 = j + 1
      BY <1>2, <1>8, <3>1
    <3>q. QED
      BY <3>2
  <2>q. QED
    BY <2>1
<1>12. a \in Lists
  BY <1>7, <1>11, SeqsAreLists
<1>13. a = <<>> <=> m = 0
  BY <1>7, EmptySeq
<1>14. head' = IF a = <<>> THEN nullptr ELSE a[1]
  <2>1. m # 0 => 1 \in 1..m
    OBVIOUS
  <2>q. QED
    BY <1>2, <1>3, <1>4, <1>7, <1>9, <1>13, <2>1
<1>15. \A i \in 1..m : a[i] # head
  BY <1>2, <1>4, <1>7, <1>8, <1>9
<1>16. ASSUME NEW i \in 1..m
       PROVE  next'[a[i]] = IF i = m THEN nullptr ELSE a[i + 1]
  <2>1. a[i] = o[i + 1] /\ a[i] \in Tasks
    BY <1>7, <1>8
  <2>2. next'[a[i]] = next[o[i + 1]]
    BY <1>1, <1>3, <1>15, <2>1
  <2>3. i # m => i + 1 \in 1..m
    OBVIOUS
  <2>q. QED
    BY <1>2, <1>7, <1>8, <2>2, <2>3
<1>17. tail' = IF a = <<>> THEN nullptr ELSE a[m]
  <2>1. next[head] = nullptr <=> m = 0
    <3>1. m # 0 => 1 + 1 \in 1..Len(o)
      BY <1>5
    <3>2. m # 0 => o[1 + 1] \in Tasks
      BY <3>1
    <3>q. QED
      BY <1>2, <1>4, <1>9, <3>2
  <2>2. m # 0 => m \in 1..m
    OBVIOUS
  <2>q. QED
    BY <1>2, <1>3, <1>4, <1>5, <1>7, <1>13, <2>1, <2>2
<1>18. ASSUME NEW t \in Tasks, \A i \in 1..m : a[i] # t PROVE next'[t] = nullptr
  <2>1. CASE t = head
    BY <1>1, <1>3, <2>1
  <2>2. CASE t # head
    <3>1. \A i \in 1..Len(o) : i = 1 \/ (i - 1 \in 1..m /\ (i - 1) + 1 = i)
      BY <1>5
    <3>2. \A i \in 1..Len(o) : o[i] # t
      BY <1>4, <1>7, <1>18, <2>2, <3>1, SMTT(60)
    <3>3. next[t] = nullptr
      BY <1>2, <3>2
    <3>q. QED
      BY <1>1, <1>3, <2>2, <3>3
  <2>q. QED
    BY <2>1, <2>2
<1>19. IsList(a, head', next')
  BY <1>7, <1>11, <1>14, <1>16 DEF IsList
<1>20. WellFormed(a, head', tail', next', size')
  BY <1>6, <1>7, <1>17, <1>18, <1>19 DEF WellFormed
<1>q. QED
  BY <1>4, <1>6, <1>7, <1>10, <1>12, <1>20

-----------------------------------------------------------------------------
(* The empty list starts at the null pointer. *)
LEMMA EmptyList ==
    /\ <<>> \in Lists /\ <<>> \in Seq(Tasks) /\ Len(<<>>) = 0
    /\ \A nx : IsList(<<>>, nullptr, nx)
<1>1. <<>> \in Seq(Tasks) /\ Len(<<>>) = 0
  OBVIOUS
<1>2. <<>> \in Lists
  <2>1. PICK e \in Seq(Tasks) : e = <<>> /\ Len(e) = 0
    BY <1>1
  <2>2. \A i, j \in 1..Len(e) : e[i] = e[j] => i = j
    BY <2>1
  <2>q. QED
    BY <2>1, <2>2, SeqsAreLists
<1>q. QED
  BY <1>1, <1>2 DEF IsList

(* The invariant holds in the empty queue. *)
LEMMA StartOK == Init => IInv
<1> SUFFICES ASSUME Init PROVE IInv
  OBVIOUS
<1>1. TypeOK
  BY RunQueueAssumption DEF Init, TypeOK
<1>2. WellFormed(<<>>, head, tail, next, size)
  BY EmptyList DEF Init, WellFormed
<1>q. QED
  BY <1>1, <1>2, EmptyList DEF IInv

(* Every step preserves the invariant. *)
LEMMA NextInv ==
    ASSUME IInv, [Next]_vars
    PROVE  IInv'
<1>1. PICK o \in Lists : WellFormed(o, head, tail, next, size)
  BY DEF IInv
<1>2. TypeOK
  BY DEF IInv
<1>3. ASSUME NEW task \in Tasks, EnqueueTask(task) PROVE IInv'
  <2>1. TypeOK' /\ \E r \in Lists : WellFormed(r, head', tail', next', size')
    BY <1>1, <1>2, <1>3, EnqueueList
  <2>q. QED
    BY <2>1 DEF IInv
<1>4. ASSUME DequeueTask PROVE IInv'
  <2>1. TypeOK' /\ \E r \in Lists : WellFormed(r, head', tail', next', size')
    BY <1>1, <1>2, <1>4, DequeueList
  <2>q. QED
    BY <2>1 DEF IInv
<1>5. ASSUME UNCHANGED vars PROVE IInv'
  BY <1>1, <1>2, <1>5 DEF vars, IInv, TypeOK
<1>q. QED
  BY <1>3, <1>4, <1>5 DEF Next

(* The invariant holds in every reachable state. *)
LEMMA Invariant == Spec => []IInv
  BY StartOK, NextInv, PTL DEF Spec

(* For any number of tasks the list is never cyclic, tail is its last      *)
(* task, tasks outside it have a null next, and size counts at least them. *)
THEOREM ListStaysWellFormed == Spec => []ListWellFormed
<1>1. IInv => ListWellFormed
  BY DEF IInv, WellFormed, ListWellFormed
<1>q. QED
  BY <1>1, Invariant, PTL

-----------------------------------------------------------------------------
(* The counter beside the list, saturated. *)
Ahead(n, m) == IF n - m > MaxAhead THEN MaxAhead ELSE n - m
QueueOf(o, n) == [order |-> o, ahead |-> Ahead(n, Len(o))]

(* enqueue_task appends to the abstract queue. *)
LEMMA EnqueueRefines ==
    ASSUME IInv, NEW task \in Tasks, EnqueueTask(task)
    PROVE  Abstract!QueueNext
<1>1. PICK o \in Lists : WellFormed(o, head, tail, next, size)
  BY DEF IInv
<1>2. TypeOK
  BY DEF IInv
<1>3. /\ o \in Seq(Tasks) /\ size \in Nat /\ size' = size + 1 /\ size >= Len(o) /\ Len(o) \in Nat
  BY <1>1, <1>2, ListsAreSeqs, RunQueueAssumption DEF TypeOK, EnqueueTask, WellFormed
<1>4. Listed = o
  BY <1>1, TheList DEF WellFormed, Listed
<1> DEFINE q == QueueOf(o, size)
<1>5. [order |-> Listed, ahead |-> IF Drift > MaxAhead THEN MaxAhead ELSE Drift] = q
  BY <1>4 DEF Drift, QueueOf, Ahead
<1>6. CASE /\ o # <<>> /\ o[Len(o)] = task
           /\ WellFormed(o, head', tail', next', size')
  <2>1. Listed' = o
    BY <1>6, TheList DEF WellFormed, Listed
  <2>2. [order |-> Listed, ahead |-> IF Drift > MaxAhead THEN MaxAhead ELSE Drift]'
          = QueueOf(o, size + 1)
    BY <1>3, <2>1 DEF Drift, QueueOf, Ahead
  <2>3. Abstract!IsLast(q, task) /\ Abstract!NextIsNull(q, task)
    BY <1>6 DEF Abstract!IsLast, Abstract!NextIsNull, QueueOf
  <2>4. Ahead(size + 1, Len(o)) =
          IF Ahead(size, Len(o)) = MaxAhead THEN Ahead(size, Len(o)) ELSE Ahead(size, Len(o)) + 1
    BY <1>3, RunQueueAssumption DEF Ahead
  <2>5. Abstract!Enqueue(q, task) = QueueOf(o, size + 1)
    BY <2>3, <2>4 DEF Abstract!Enqueue, QueueOf
  <2> HIDE DEF q
  <2>q. QED
    BY <1>5, <2>2, <2>3, <2>5 DEF Abstract!QueueNext
<1>7. CASE /\ \A i \in 1..Len(o) : o[i] # task
           /\ Append(o, task) \in Lists
           /\ WellFormed(Append(o, task), head', tail', next', size')
  <2>1. Listed' = Append(o, task)
    BY <1>7, TheList DEF WellFormed, Listed
  <2>2. Len(Append(o, task)) = Len(o) + 1
    BY <1>3
  <2>3. [order |-> Listed, ahead |-> IF Drift > MaxAhead THEN MaxAhead ELSE Drift]'
          = QueueOf(Append(o, task), size + 1)
    BY <1>3, <2>1 DEF Drift, QueueOf, Ahead
  <2>4. task \notin Abstract!Elements(q) /\ ~Abstract!IsLast(q, task)
    <3>1. o # <<>> => Len(o) \in 1..Len(o)
      BY <1>3, EmptySeq
    <3>q. QED
      BY <1>7, <3>1 DEF Abstract!Elements, Abstract!IsLast, QueueOf
  <2>5. Ahead(size + 1, Len(o) + 1) = Ahead(size, Len(o))
    BY <1>3 DEF Ahead
  <2>6. Abstract!Enqueue(q, task) = QueueOf(Append(o, task), size + 1)
    BY <2>2, <2>4, <2>5 DEF Abstract!Enqueue, QueueOf
  <2>7. Abstract!NextIsNull(q, task)
    BY <2>4 DEF Abstract!NextIsNull
  <2> HIDE DEF q
  <2>q. QED
    BY <1>5, <2>3, <2>6, <2>7 DEF Abstract!QueueNext
<1>q. QED
  BY <1>1, <1>2, <1>6, <1>7, EnqueueList

(* dequeue_task takes the first of the abstract queue. *)
LEMMA DequeueRefines ==
    ASSUME IInv, DequeueTask
    PROVE  Abstract!QueueNext
<1>1. PICK o \in Lists : WellFormed(o, head, tail, next, size)
  BY DEF IInv
<1>2. /\ o # <<>> /\ Tail(o) \in Lists /\ size \in Nat \ {0} /\ size' = size - 1
      /\ WellFormed(Tail(o), head', tail', next', size')
  BY <1>1, DequeueList DEF IInv
<1>3. o \in Seq(Tasks) /\ Len(o) \in Nat /\ Len(Tail(o)) = Len(o) - 1
  BY <1>2, ListsAreSeqs
<1>4. Listed = o
  BY <1>1, TheList DEF WellFormed, Listed
<1>5. Listed' = Tail(o)
  BY <1>2, TheList DEF WellFormed, Listed
<1> DEFINE q == QueueOf(o, size)
<1>6. [order |-> Listed, ahead |-> IF Drift > MaxAhead THEN MaxAhead ELSE Drift] = q
  BY <1>4 DEF Drift, QueueOf, Ahead
<1>7. [order |-> Listed, ahead |-> IF Drift > MaxAhead THEN MaxAhead ELSE Drift]'
        = QueueOf(Tail(o), size - 1)
  BY <1>2, <1>5 DEF Drift, QueueOf, Ahead
<1>8. Ahead(size - 1, Len(o) - 1) = Ahead(size, Len(o))
  BY <1>2, <1>3 DEF Ahead
<1>9. Abstract!Dequeue(q) = QueueOf(Tail(o), size - 1) /\ q.order # <<>>
  BY <1>2, <1>3, <1>8, SMTT(60) DEF Abstract!Dequeue, QueueOf
<1> HIDE DEF q
<1>q. QED
  BY <1>6, <1>7, <1>9 DEF Abstract!QueueNext

(* The linked list implements the FIFO the scheduler is proved about: each *)
(* enqueue_task and dequeue_task is the operation of TaskQueue.            *)
THEOREM ListImplementsQueue == Spec => ImplementsTaskQueue
<1>1. Init => Abstract!QueueInit
  <2> SUFFICES ASSUME Init PROVE Abstract!QueueInit
    OBVIOUS
  <2>1. Listed = <<>>
    BY EmptyList, TheList DEF Init, Listed
  <2>2. Drift = 0
    <3>1. size = 0 /\ Len(Listed) = 0
      BY <2>1 DEF Init
    <3>q. QED
      BY <3>1 DEF Drift
  <2>q. QED
    BY <2>1, <2>2, RunQueueAssumption DEF Abstract!QueueInit, Abstract!EmptyQueue
<1>2. ASSUME IInv, [Next]_vars
      PROVE  [Abstract!QueueNext]_([order |-> Listed, ahead |-> IF Drift > MaxAhead THEN MaxAhead ELSE Drift])
  <2>1. CASE \E task \in Tasks : EnqueueTask(task)
    BY <1>2, <2>1, EnqueueRefines
  <2>2. CASE DequeueTask
    BY <1>2, <2>2, DequeueRefines
  <2>3. CASE UNCHANGED vars
    <3>1. Listed' = Listed
      BY <2>3 DEF vars, Listed
    <3>2. Drift' = Drift
      BY <2>3, <3>1 DEF vars, Drift
    <3>q. QED
      BY <3>1, <3>2
  <2>q. QED
    BY <1>2, <2>1, <2>2, <2>3 DEF Next
<1>q. QED
  BY <1>1, <1>2, Invariant, PTL DEF Spec, ImplementsTaskQueue, Abstract!QueueSpec
=============================================================================

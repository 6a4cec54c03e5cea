------------------------------ MODULE RunQueue ------------------------------
(***************************************************************************)
(* struct process_queue of kernel/task/scheduler.c: a singly linked list   *)
(* through proc.next with head, tail and size.  Each operation runs under  *)
(* the queue's own lock, so each is one step.                              *)
(***************************************************************************)
EXTENDS Integers, Sequences, FiniteSets

CONSTANTS Tasks, MaxAhead, nullptr,
          MaxSize   \* bound on the counter, which no operation bounds

ASSUME RunQueueAssumption ==
    /\ IsFiniteSet(Tasks)
    /\ nullptr \notin Tasks
    /\ MaxSize \in Nat
    /\ MaxAhead \in Nat /\ MaxAhead >= 2

VARIABLES head, tail, next, size

vars == <<head, tail, next, size>>

TypeOK ==
    /\ head \in Tasks \cup {nullptr}
    /\ tail \in Tasks \cup {nullptr}
    /\ next \in [Tasks -> Tasks \cup {nullptr}]
    /\ size \in 0..MaxSize

Init ==
    /\ head = nullptr
    /\ tail = nullptr
    /\ next = [t \in Tasks |-> nullptr]
    /\ size = 0

(* Mutant of EnqueueTask: tail moves only if the queue is empty. *)
EnqueueNoTail(task) ==
    /\ size < MaxSize
    /\ next[task] = nullptr
    /\ head' = IF head = nullptr THEN task ELSE head
    /\ next' = [t \in Tasks |-> IF t = task THEN nullptr
                                ELSE IF t = tail THEN task ELSE next[t]]
    /\ tail' = IF tail = nullptr THEN task ELSE tail
    /\ size' = size + 1

(* enqueue_task: a caller may pass a task that is not queued, or, as       *)
(* scheduler() does after a yield(), the one it has just enqueued.         *)
EnqueueTask(task) ==
    /\ size < MaxSize
    /\ next[task] = nullptr
    /\ head' = IF head = nullptr THEN task ELSE head
    /\ next' = [t \in Tasks |-> IF t = task THEN nullptr
                                ELSE IF t = tail THEN task ELSE next[t]]
    /\ tail' = task
    /\ size' = size + 1

(* Mutant of DequeueTask: tail keeps the last task. *)
DequeueKeepsTail ==
    /\ head # nullptr
    /\ head' = next[head]
    /\ tail' = tail
    /\ next' = [next EXCEPT ![head] = nullptr]
    /\ size' = IF size - 1 < 0 THEN 0 ELSE size - 1

DequeueTask ==
    /\ head # nullptr
    /\ head' = next[head]
    /\ tail' = IF next[head] = nullptr THEN nullptr ELSE tail
    /\ next' = [next EXCEPT ![head] = nullptr]
    /\ size' = IF size - 1 < 0 THEN 0 ELSE size - 1

Next == (\E task \in Tasks : EnqueueTask(task)) \/ DequeueTask
Spec == Init /\ [][Next]_vars

-----------------------------------------------------------------------------
(* o is the list from h through the links nx. *)
IsList(o, h, nx) ==
    /\ \A i, j \in 1..Len(o) : o[i] = o[j] => i = j
    /\ h = IF o = <<>> THEN nullptr ELSE o[1]
    /\ \A i \in 1..Len(o) : nx[o[i]] = IF i = Len(o) THEN nullptr ELSE o[i + 1]

Lists == UNION {[1..n -> Tasks] : n \in 0..Cardinality(Tasks)}
Listed == CHOOSE o \in Lists : IsList(o, head, next)
Drift == size - Len(Listed)

Abstract == INSTANCE TaskQueue WITH
    rq <- [order |-> Listed, ahead |-> IF Drift > MaxAhead THEN MaxAhead ELSE Drift]

(* The linked list is a FIFO: every enqueue_task and dequeue_task is the   *)
(* abstract operation on the list read from head through next, the double  *)
(* enqueue of the last task included.                                      *)
ImplementsTaskQueue == Abstract!QueueSpec

(* The list is never cyclic, tail is its last task, tasks outside it have  *)
(* a null next (what enqueue_task's ASSERT relies on), and size never      *)
(* counts fewer tasks than the list holds.                                 *)
ListWellFormed ==
    \E o \in Lists :
        /\ IsList(o, head, next)
        /\ tail = IF o = <<>> THEN nullptr ELSE o[Len(o)]
        /\ \A t \in Tasks : (\A i \in 1..Len(o) : o[i] # t) => next[t] = nullptr
        /\ size >= Len(o)
=============================================================================

----------------------------- MODULE TaskQueue ------------------------------
(***************************************************************************)
(* What the run queue of kernel/task/scheduler.c promises the scheduler:   *)
(* a FIFO of tasks and a counter beside it.  Enqueueing the task that is   *)
(* already the last one leaves the order alone but still counts it, so the *)
(* counter runs ahead of the length; `ahead' is that difference.  Only     *)
(* "size > 1" is ever tested (trap.c), so `ahead' saturates at MaxAhead    *)
(* without changing any decision once MaxAhead >= 2.                       *)
(***************************************************************************)
EXTENDS Naturals, Sequences

CONSTANTS Tasks, MaxAhead

ASSUME MaxAheadAssumption == MaxAhead \in Nat /\ MaxAhead >= 2

Queue == [order : Seq(Tasks), ahead : 0..MaxAhead]
EmptyQueue == [order |-> <<>>, ahead |-> 0]

Elements(queue) == {queue.order[i] : i \in 1..Len(queue.order)}
IsLast(queue, task) ==
    queue.order # <<>> /\ queue.order[Len(queue.order)] = task

(* enqueue_task's ASSERT(task->next == nullptr): false exactly for a task  *)
(* queued ahead of another one.                                            *)
NextIsNull(queue, task) == task \notin Elements(queue) \/ IsLast(queue, task)

Enqueue(queue, task) ==
    IF IsLast(queue, task)
    THEN [queue EXCEPT !.ahead = IF @ = MaxAhead THEN @ ELSE @ + 1]
    ELSE [queue EXCEPT !.order = Append(@, task)]

EnqueueAll(queue, tasks) == [queue EXCEPT !.order = @ \o tasks]

Dequeue(queue) == [queue EXCEPT !.order = Tail(@)]

(* runnable_queue.size > 1 *)
SizeAboveOne(queue) == Len(queue.order) + queue.ahead > 1

-----------------------------------------------------------------------------
(* The queue as a machine of its own. *)
VARIABLE rq

QueueInit == rq = EmptyQueue
QueueNext ==
    \/ \E task \in Tasks : NextIsNull(rq, task) /\ rq' = Enqueue(rq, task)
    \/ rq.order # <<>> /\ rq' = Dequeue(rq)
QueueSpec == QueueInit /\ [][QueueNext]_rq
=============================================================================

------------------------------ MODULE RunQueue ------------------------------
(***************************************************************************)
(* What the run queue of kernel/task_queue promises, as operations on the   *)
(* sequence of the tasks linked from run_queue.head to run_queue.tail.      *)
(* TaskQueue is the linked list of libs/task_queue.c and implements them;   *)
(* Scheduler uses them.  Tasks are pool positions 1..n (the task_id of      *)
(* task_create), and 0 is the null pointer.                                 *)
(***************************************************************************)
EXTENDS Lists

NULL == 0

(***************************************************************************)
(* run_queue_push: tail->next = task; tail = task; tail->next = NULL.  A    *)
(* task that is already linked becomes the tail where it stands, which cuts *)
(* off whatever was linked behind it.                                       *)
(***************************************************************************)
QPush(q, t) == IF Contains(q, t) THEN SubSeq(q, 1, Position(q, t)) ELSE Append(q, t)

(***************************************************************************)
(* run_queue_pop: the head, or NULL when the queue is empty.                *)
(***************************************************************************)
QFirst(q) == IF q = <<>> THEN NULL ELSE Head(q)
QRest(q)  == IF q = <<>> THEN <<>> ELSE Tail(q)

(***************************************************************************)
(* run_queue_remove: unlinks a task that has a predecessor; the head of the *)
(* queue stays where it is (prev == NULL returns without unlinking).        *)
(***************************************************************************)
QRemove(q, t) ==
  IF Contains(q, t) /\ Position(q, t) > 1 THEN Without(q, t) ELSE q
=============================================================================

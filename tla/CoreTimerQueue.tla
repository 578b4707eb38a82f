--------------------------- MODULE CoreTimerQueue ---------------------------
(***************************************************************************)
(* libs/core_timer_queue.c: the callbacks that settimeout queues and the    *)
(* timer interrupt counts down and runs, as one list: a push and a tick are *)
(* one step each.  CallbackLinks has the pointers and the ticks in a push,  *)
(* and implements this module as long as no tick comes in the sort.  A node *)
(* carries, besides its timeout, what was asked for and its age in ticks    *)
(* (up to Word), neither of which the code stores.                          *)
(***************************************************************************)
EXTENDS Integers, Sequences, SequencesExt

CONSTANTS Timeouts,     \* the timeouts that settimeout is called with
          Word,         \* 2^64: timeout is a size_t
          MaxQueue      \* bound on the callbacks in the queue

VARIABLES queue,        \* core_timer_callback_queue, from the head
          fired         \* the callbacks that the last tick has run, in order

vars == <<queue, fired>>

core_timer_queue_init == queue = <<>> /\ fired = <<>>

(* core_timer_queue_sort leaves the node behind the first k, those with     *)
(* smaller timeouts, and before all others.                                 *)
core_timer_queue_sort(timeout, k) ==
  /\ \A i \in 1..k : queue[i].timeout < timeout
  /\ \A i \in (k + 1)..Len(queue) : queue[i].timeout >= timeout

core_timer_queue_push(timeout) ==
  /\ Len(queue) < MaxQueue
  /\ \E k \in 0..Len(queue) :
       /\ core_timer_queue_sort(timeout, k)
       /\ queue' = InsertAt(queue, k + 1, [timeout |-> timeout, asked |-> timeout, age |-> 0])
  /\ UNCHANGED fired

Older(node) == [node EXCEPT !.age = IF @ < Word THEN @ + 1 ELSE @]

(* core_timer_queue_update: an unsigned decrement of every node.            *)
core_timer_queue_update ==
  [i \in DOMAIN queue |-> [Older(queue[i]) EXCEPT !.timeout = (@ + Word - 1) % Word]]

(* How many nodes core_timer_queue_pop takes: the head while it is at 0.    *)
Due(q) == CHOOSE n \in 0..Len(q) : /\ \A i \in 1..n : q[i].timeout = 0
                                   /\ n < Len(q) => q[n + 1].timeout # 0

core_timer_interrupt_handler ==
  LET q == core_timer_queue_update
  IN  /\ fired' = SubSeq(q, 1, Due(q))
      /\ queue' = SubSeq(q, Due(q) + 1, Len(q))

Next == core_timer_interrupt_handler \/ \E t \in Timeouts : core_timer_queue_push(t)

Spec == core_timer_queue_init /\ [][Next]_vars
-----------------------------------------------------------------------------
(***************************************************************************)
(* A callback runs in the very tick it was asked for: sorting at a push and *)
(* popping only the head neither run one early nor leave one behind a node  *)
(* that is due later.  It needs timeouts of at least 1.                     *)
(***************************************************************************)
OnTime == /\ \A i \in DOMAIN fired : fired[i].age = fired[i].asked
          /\ \A i \in DOMAIN queue : queue[i].age < queue[i].asked
=============================================================================

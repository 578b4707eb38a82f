----------------------------- MODULE TaskQueue ------------------------------
(***************************************************************************)
(* libs/task_queue.c: the run queue as a singly linked list.  The links are *)
(* the `next' members of the task_structs in task_pool, so they outlive a   *)
(* task's stay in the queue; the callers hold interrupts off, so each call  *)
(* is one step.  The list is shown to implement RunQueueSpec, the sequence  *)
(* Listed.                                                                  *)
(***************************************************************************)
EXTENDS RunQueue

CONSTANT PoolSize          \* TASK_POOL_SIZE

ASSUME PoolSizeAssumption == PoolSize \in Nat

Tasks == 1..PoolSize
Ptr   == Tasks \cup {NULL}

VARIABLES head, tail,      \* run_queue.head, run_queue.tail
          next,            \* task_struct.next of every pool slot
          last             \* the last call: what it was given or returned

vars == <<head, tail, next, last>>

Init == head = NULL /\ tail = NULL /\ next = [t \in Tasks |-> NULL] /\ last = <<"none", NULL>>

run_queue_push(t) ==
  /\ head' = IF tail = NULL THEN t ELSE head
  /\ tail' = t
  /\ next' = IF tail = NULL THEN [next EXCEPT ![t] = NULL]
                            ELSE [next EXCEPT ![tail] = t, ![t] = NULL]
  /\ last' = <<"push", t>>

TailKept ==                \* pop of the last task without tail = NULL
  /\ last' = <<"pop", head>>
  /\ head' = IF head = NULL THEN NULL ELSE next[head]
  /\ next' = IF head = NULL THEN next ELSE [next EXCEPT ![head] = NULL]
  /\ UNCHANGED tail

run_queue_pop ==
  \/ /\ head = NULL
     /\ last' = <<"pop", NULL>>
     /\ UNCHANGED <<head, tail, next>>
  \/ /\ head # NULL
     /\ last' = <<"pop", head>>
     /\ tail' = IF head = tail THEN NULL ELSE tail
     /\ head' = next[head]
     /\ next' = [next EXCEPT ![head] = NULL]

(***************************************************************************)
(* The walk of run_queue_remove visits head, next[head], ...; it has an     *)
(* effect only when it meets del behind some prev.  Prev is that            *)
(* predecessor: the listed node whose link is del.                          *)
(***************************************************************************)
Listing(q) ==              \* q is what the walk from head visits
  /\ head = QFirst(q)
  /\ \A i \in 1..Len(q) : next[q[i]] = IF i < Len(q) THEN q[i + 1] ELSE NULL
Lists  == SeqOf(Tasks, PoolSize)
Listed == CHOOSE q \in Lists : Listing(q)

RestDropped(del) ==        \* remove with prev->next = NULL
  \/ \E i \in 2..Len(Listed) :
       LET prev == Listed[i - 1]
       IN  /\ Listed[i] = del
           /\ next' = [next EXCEPT ![prev] = NULL]
           /\ tail' = prev
           /\ last' = <<"remove", del>>
           /\ UNCHANGED head
  \/ /\ \A i \in 2..Len(Listed) : Listed[i] # del
     /\ last' = <<"remove", del>>
     /\ UNCHANGED <<head, tail, next>>

run_queue_remove(del) ==
  \/ \E i \in 2..Len(Listed) :
       LET prev == Listed[i - 1]
       IN  /\ Listed[i] = del
           /\ next' = [next EXCEPT ![prev] = next[del]]
           /\ tail' = IF del = tail THEN prev ELSE tail
           /\ last' = <<"remove", del>>
           /\ UNCHANGED head
  \/ /\ \A i \in 2..Len(Listed) : Listed[i] # del
     /\ last' = <<"remove", del>>
     /\ UNCHANGED <<head, tail, next>>

Next == \/ \E t \in Tasks : run_queue_push(t)
        \/ run_queue_pop
        \/ \E t \in Tasks : run_queue_remove(t)

Spec == Init /\ [][Next]_vars
-----------------------------------------------------------------------------
(* The links are pool slots or NULL (struct task_queue_struct).            *)
TypeOK == /\ head \in Ptr
          /\ tail \in Ptr
          /\ next \in [Tasks -> Ptr]
          /\ last \in {"none", "push", "pop", "remove"} \X Ptr

(***************************************************************************)
(* From head the links spell a finite list without repetition that ends at  *)
(* tail: no call of task_queue.c can leave a cycle, a lost tail or a tail   *)
(* that is not reachable (run_queue_push would then append to a detached    *)
(* chain and the scheduler would never see the task).                       *)
(***************************************************************************)
ListWellFormed ==
  /\ Listed \in Lists
  /\ Listing(Listed)
  /\ NoDuplicates(Listed)
  /\ tail = IF Listed = <<>> THEN NULL ELSE Last(Listed)

(***************************************************************************)
(* Every call of task_queue.c does to the linked list what RunQueue says it *)
(* does to the sequence, and run_queue_pop returns its head.                *)
(***************************************************************************)
Abstract == INSTANCE RunQueueSpec WITH queue <- Listed
ImplementsQueue == Abstract!Spec
=============================================================================

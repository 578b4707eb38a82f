---------------------------- MODULE RunQueueSpec ----------------------------
(***************************************************************************)
(* The run queue as an abstract machine: one sequence of tasks and the      *)
(* last call with its argument or result.                                   *)
(***************************************************************************)
EXTENDS RunQueue

CONSTANT Tasks
VARIABLES queue, last

vars == <<queue, last>>

Init == queue = <<>> /\ last = <<"none", NULL>>

Enqueue(t) == queue' = QPush(queue, t) /\ last' = <<"push", t>>
Dequeue    == queue' = QRest(queue) /\ last' = <<"pop", QFirst(queue)>>
Unlink(t)  == queue' = QRemove(queue, t) /\ last' = <<"remove", t>>

Next == \/ \E t \in Tasks : Enqueue(t)
        \/ Dequeue
        \/ \E t \in Tasks : Unlink(t)

Spec == Init /\ [][Next]_vars
=============================================================================

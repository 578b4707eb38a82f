------------------------------- MODULE Lists --------------------------------
(***************************************************************************)
(* The singly linked lists of the kernel (run_queue, the free lists of the  *)
(* buddy system) as sequences: what is linked from the head.                *)
(***************************************************************************)
EXTENDS Naturals, SequencesExt

Position(q, t) == CHOOSE i \in 1..Len(q) : q[i] = t

(* Unlinking t: its predecessor, or the head, gets the link of t.           *)
Without(q, t) == IF Contains(q, t) THEN RemoveAt(q, Position(q, t)) ELSE q

NoDuplicates(q) == \A i, j \in 1..Len(q) : q[i] = q[j] => i = j
=============================================================================

----------------------------- MODULE RoundRobin -----------------------------
(***************************************************************************)
(* What the scheduler promises as long as no task exits: after boot has     *)
(* admitted the tasks, the first of them runs, and each turn ends with the  *)
(* running task going to the end of the line.                               *)
(***************************************************************************)
EXTENDS Naturals, Sequences

CONSTANT Tasks
VARIABLES running,      \* the task that owns the CPU, 0 during boot
          ready         \* the others, in the order of their turns

Init == running = 0 /\ ready = <<>>

Admit(t) ==
  /\ running = 0 /\ \A i \in 1..Len(ready) : ready[i] # t
  /\ ready' = Append(ready, t)
  /\ UNCHANGED running

Start ==
  /\ running = 0 /\ Len(ready) > 0
  /\ running' = Head(ready) /\ ready' = Tail(ready)

Turn ==
  /\ running # 0
  /\ running' = Head(ready)
  /\ ready' = Append(Tail(ready), running)

Next == (\E t \in Tasks : Admit(t)) \/ Start \/ Turn

Spec == Init /\ [][Next]_<<running, ready>>
=============================================================================

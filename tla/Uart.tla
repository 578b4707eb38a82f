-------------------------------- MODULE Uart --------------------------------
(***************************************************************************)
(* uart_put and uart_send of peripheral/uart.c, called by tasks that the    *)
(* timer preempts: a task may be switched out between its look at the line  *)
(* status and its store to the transmit queue, and others print meanwhile.  *)
(* The device is external: it takes characters from its queue one by one,   *)
(* and a store to a full queue is lost.                                     *)
(***************************************************************************)
EXTENDS SequencesExt, FiniteSets, Integers

CONSTANTS
  Tasks,      \* the tasks that print
  Texts,      \* what each of them prints, as sequences of characters
  LF, CR,     \* '\n' and '\r'
  QueueSize   \* characters that the transmit queue takes

ASSUME UartAssumption ==
  /\ Tasks # {} /\ LF # CR /\ QueueSize \in Nat \ {0}
  /\ \A s \in Texts : s \in Seq(ToSet(s))

VARIABLES
  running,    \* the task that has the CPU
  text,       \* what each task has called uart_put with
  sent,       \* the calls of uart_send that each task has completed
  pc,         \* "poll": at the status register; "store": behind it
  fifo,       \* the transmit queue
  line,       \* what has left it
  \* not in the code:
  lost,       \* the characters that were stored to a full queue
  preempted   \* those whose uart_send was switched out behind the poll

vars == <<running, text, sent, pc, fifo, line, lost, preempted>>

(* The characters that uart_put hands to uart_send.                         *)
uart_put(t) == FlattenSeq([i \in DOMAIN text[t] |->
                             IF text[t][i] = LF THEN <<CR, LF>> ELSE <<text[t][i]>>])
Done(t) == sent[t] = Len(uart_put(t))

Init ==
  /\ running \in Tasks /\ text \in [Tasks -> Texts]
  /\ sent = [t \in Tasks |-> 0] /\ pc = [t \in Tasks |-> "poll"]
  /\ fifo = <<>> /\ line = <<>> /\ lost = {} /\ preempted = {}
-----------------------------------------------------------------------------
(* A character is known by the task, its number and what it is.             *)
Character(t) == <<t, sent[t] + 1, uart_put(t)[sent[t] + 1]>>

NotPolled == TRUE                                         \* status not read
FullBit == Len(fifo) = QueueSize                          \* another bit of it
Ready == Len(fifo) < QueueSize

poll(t) ==
  /\ t = running /\ pc[t] = "poll" /\ ~Done(t) /\ Ready
  /\ pc' = [pc EXCEPT ![t] = "store"]
  /\ UNCHANGED <<running, text, sent, fifo, line, lost, preempted>>

store(t) ==
  /\ t = running /\ pc[t] = "store"
  /\ pc' = [pc EXCEPT ![t] = "poll"] /\ sent' = [sent EXCEPT ![t] = @ + 1]
  /\ IF Len(fifo) < QueueSize
     THEN fifo' = Append(fifo, Character(t)) /\ UNCHANGED lost
     ELSE lost' = lost \cup {Character(t)} /\ UNCHANGED fifo
  /\ UNCHANGED <<running, text, line, preempted>>

(* The timer's interrupt, and the scheduler's choice.                       *)
preempt(t) ==
  /\ t # running /\ running' = t
  /\ preempted' = IF pc[running] = "store" THEN preempted \cup {Character(running)}
                  ELSE preempted
  /\ UNCHANGED <<text, sent, pc, fifo, line, lost>>

transmit ==
  /\ fifo # <<>>
  /\ line' = Append(line, Head(fifo)) /\ fifo' = Tail(fifo)
  /\ UNCHANGED <<running, text, sent, pc, lost, preempted>>

Next == \/ \E t \in Tasks : poll(t) \/ store(t) \/ preempt(t)
        \/ transmit

(* The device goes on sending; the scheduler runs every task again and      *)
(* again (Scheduler's EveryTaskRuns), with turns that are long enough to    *)
(* send something.                                                          *)
Fairness == /\ WF_vars(transmit)
            /\ \A t \in Tasks : /\ WF_vars(preempt(t))
                                /\ SF_vars(poll(t)) /\ SF_vars(store(t))

Spec == Init /\ [][Next]_vars /\ Fairness
-----------------------------------------------------------------------------
Output == line \o fifo

(* Every character that was sent is on its way once, or lost.               *)
SentOrLost ==
  /\ IsInjective(Output)
  /\ ToSet(Output) \cap lost = {}
  /\ \A t \in Tasks :
       Cardinality({c \in ToSet(Output) \cup lost : c[1] = t}) = sent[t]

(* What a task prints comes out in order, whatever is printed between.      *)
InOrder ==
  \A i \in DOMAIN Output : \A j \in 1..(i - 1) :
    Output[j][1] = Output[i][1] => Output[j][2] <= Output[i][2]

(* Before each line feed its carriage return comes out, unless it is lost.  *)
ReturnComesFirst ==
  \A i \in DOMAIN Output : Output[i][3] = LF =>
    LET return == <<Output[i][1], Output[i][2] - 1, CR>>
    IN  return \in lost \cup ToSet(SubSeq(Output, 1, i - 1))

(***************************************************************************)
(* However tasks interrupt each other in uart_put and uart_send, each       *)
(* character comes out once, those of a task in its order and a line feed   *)
(* behind its carriage return.  The exception are characters stored to a    *)
(* full queue: such a one is lost only if its task was switched out between *)
(* the poll and the store; a task that is not preempted there prints all of *)
(* its text, however full the queue is.                                     *)
(***************************************************************************)
PrintedOnce == SentOrLost /\ InOrder /\ ReturnComesFirst /\ lost \subseteq preempted

(***************************************************************************)
(* Everything that tasks want to print comes out in the end, or is lost.    *)
(***************************************************************************)
AllPrinted == <>[](fifo = <<>> /\ \A t \in Tasks : Done(t))
=============================================================================

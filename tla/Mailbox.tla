------------------------------ MODULE Mailbox -------------------------------
(***************************************************************************)
(* peripheral/mailbox.c: the CPU asks the GPU for the board's revision.     *)
(* The GPU and the two queues of the device are external: it answers what   *)
(* it is asked, in its time, and sends messages of its own on other         *)
(* channels.  Reading the register of an empty queue gives what was last    *)
(* read from it.                                                            *)
(***************************************************************************)
EXTENDS Sequences, Integers

CONSTANTS
  Prop,       \* MAILBOX_CH_PROP, with the buffer's address
  Others,     \* messages on other channels
  Revision,   \* what the GPU answers
  Size        \* how many messages a queue of the device takes

MailboxAssumption ==
  /\ Prop \notin Others /\ Revision \in Nat \ {0} /\ Size \in Nat \ {0}

VARIABLES
  pc,         \* the line of mailbox_call; "idle": outside of it
  value,      \* mailbox[5]
  requests,   \* to the GPU: MAILBOX_WRITE
  asked,      \* what the GPU has taken and not answered yet
  answers,    \* from the GPU: MAILBOX_READ
  lastRead    \* what was last read from it

vars == <<pc, value, requests, asked, answers, lastRead>>

Init == /\ pc = "idle" /\ value = 0
        /\ requests = <<>> /\ asked = <<>> /\ answers = <<>>
        /\ lastRead \in Others

Transition(from, to) == pc = from /\ pc' = to
-----------------------------------------------------------------------------
(* get_board_revision fills the buffer; mailbox_call follows.               *)
get_board_revision ==
  /\ Transition("idle", "full?") /\ value' = 0
  /\ UNCHANGED <<requests, asked, answers, lastRead>>

write ==
  /\ Transition("full?", "empty?") /\ Len(requests) < Size
  /\ requests' = Append(requests, Prop)
  /\ UNCHANGED <<value, asked, answers, lastRead>>

NotWaited == TRUE                                         \* line 24 missing
MayRead == answers # <<>>
see_answer ==
  /\ Transition("empty?", "read") /\ MayRead
  /\ UNCHANGED <<value, requests, asked, answers, lastRead>>

OtherChannel(m) == m \in Others                           \* channel bits forgotten
Accepted(m) == m = Prop

(* The register is read again and again, with no further look at EMPTY.     *)
read ==
  /\ pc = "read"
  /\ IF answers = <<>> THEN UNCHANGED <<answers, lastRead>>
     ELSE lastRead' = Head(answers) /\ answers' = Tail(answers)
  /\ pc' = IF Accepted(lastRead') THEN "done" ELSE "read"
  /\ UNCHANGED <<value, requests, asked>>

return ==
  /\ Transition("done", "idle")
  /\ UNCHANGED <<value, requests, asked, answers, lastRead>>

cpu == get_board_revision \/ write \/ see_answer \/ read \/ return
-----------------------------------------------------------------------------
(* The GPU takes a request, fills in the buffer and then answers.           *)
gpu_take ==
  /\ requests # <<>> /\ asked = <<>>
  /\ asked' = requests /\ requests' = <<>>
  /\ UNCHANGED <<pc, value, answers, lastRead>>

gpu_answer ==
  /\ asked # <<>> /\ Len(answers) < Size
  /\ value' = Revision
  /\ answers' = Append(answers, Head(asked)) /\ asked' = Tail(asked)
  /\ UNCHANGED <<pc, requests, lastRead>>

gpu_other ==
  /\ Len(answers) < Size
  /\ \E m \in Others : answers' = Append(answers, m)
  /\ UNCHANGED <<pc, value, requests, asked, lastRead>>

Next == cpu \/ gpu_take \/ gpu_answer \/ gpu_other

(* The loops poll for ever; the GPU serves its requests, however much else  *)
(* it has to say.                                                           *)
Fairness == WF_vars(cpu) /\ WF_vars(gpu_take) /\ SF_vars(gpu_answer)

Spec == Init /\ [][Next]_vars /\ Fairness
-----------------------------------------------------------------------------
(***************************************************************************)
(* When mailbox_call returns, the answer is in the buffer: neither a        *)
(* message of another channel, nor the register of an empty queue, which    *)
(* may still show the answer of the call before, is taken for it; and no    *)
(* answer is left behind for the next call to find.                         *)
(***************************************************************************)
AnswerIsThere ==
  pc = "done" =>
    /\ value = Revision /\ requests = <<>> /\ asked = <<>>
    /\ \A i \in DOMAIN answers : answers[i] # Prop

(* Every call returns.                                                      *)
CallReturns == pc = "full?" ~> pc = "done"
=============================================================================

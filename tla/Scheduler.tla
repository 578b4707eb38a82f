----------------------------- MODULE Scheduler ------------------------------
(***************************************************************************)
(* The multitasking core of the kernel: task_create and task_user at boot,  *)
(* the timer interrupt with schedule() and switch_to, the return path       *)
(* load_all/eret, the exec and exit of the user task, and the idle task     *)
(* that recycles dead pool slots.  One CPU; a step of the model is a        *)
(* stretch of code that no interrupt can divide: code under                 *)
(* disable_interrupt (or under the mask that exception entry sets) runs     *)
(* with the instruction that follows it, and the states are the points      *)
(* where the timer interrupt can be taken.                                  *)
(*                                                                         *)
(* A stack is a sequence of frames, the lowest for the task's own code and  *)
(* one per exception taken on top of it.  A frame's pc says where its code  *)
(* stands:                                                                  *)
(*   "kernel", "user"  the task's own function, or the EL0 program          *)
(*   "switch"     schedule(): from enable_interrupt to where switch_to has  *)
(*                saved the caller's registers                              *)
(*   "switching"  from there to mov sp, which changes the stack             *)
(*   "exit", "exiting"  the same two stretches, called by sys_exit          *)
(*   "return"     behind switch_to, on the way to load_all's msr elr_el1    *)
(*   "loading"    from that msr to add sp, which ends load_all              *)
(*   "eret"       from there to the eret                                    *)
(* Interrupts are on in all of them but the first.  next is the task that   *)
(* a switch_to in progress makes current, NULL if none is: at the four      *)
(* places above, and behind mov sp on the frame with which that task goes   *)
(* on, until msr tpidr_el1 (AtMsr).                                         *)
(***************************************************************************)
EXTENDS RunQueue

CONSTANTS PoolSize,   \* TASK_POOL_SIZE
          Workers,    \* how many foo tasks task_user creates
          MayExit,    \* does the user program ever call exit?
          Paced,      \* TRUE: the tick re-armed by the handler (cntfrq_el0
                      \* cycles, one second) comes only after the CPU has
                      \* returned to a task's own code
          MaxDepth    \* bound on the frames of a stack

ASSUME SchedulerAssumption ==
  /\ PoolSize \in Nat /\ Workers \in Nat /\ Workers >= 1 /\ Workers + 2 <= PoolSize
  /\ MayExit \in BOOLEAN /\ Paced \in BOOLEAN
  /\ MaxDepth \in Nat /\ MaxDepth >= 2

Tasks   == 1..PoolSize
Idle    == 1                       \* &task_pool[0]
User    == Workers + 2             \* the last of the tasks task_user creates
Created == 1..User

VARIABLES
  phase,      \* the task_create calls that task_user has made, User + 1 from
              \* its switch_to on, and User + 2 when the CPU is lost
  cur,        \* tpidr_el1: get_current(), NULL before the first switch_to
  stack,      \* the frames below sp: where the CPU stands
  ctx,        \* task_struct.ctx: the frames below the saved sp, and Stale if
              \* they are no longer what was saved
  task_id,    \* task_struct.task_id, 0 in a free slot
  status,     \* task_struct.status, "DEAD" or "READY"
  resched,    \* task_struct.resched
  run_queue,  \* the tasks linked from run_queue.head
  elr,        \* ELR_EL1: the frame whose code an eret returns to, as a task, a
              \* depth on the stack, and the place in that code
  timer,      \* "rearmed": the tick is a period away; "armed": it may come
  scan        \* i of the idle task's loop

vars == <<phase, cur, stack, ctx, task_id, status, resched, run_queue, elr, timer, scan>>

Frame(pc, n) == [pc |-> pc, next |-> n]
Depth        == Len(stack)
Top          == stack[Depth]
WithTop(f)   == [stack EXCEPT ![Depth] = f]
Stale        == <<>>

Up   == phase = User + 1            \* boot is over
Lost == phase = User + 2

Windows == {"switch", "switching", "exit", "exiting"}
AtMsr   == Top.pc \notin Windows /\ Top.next # NULL

Init ==
  /\ phase = 0 /\ cur = NULL
  /\ stack = <<>>
  /\ ctx = [t \in Tasks |-> Stale]
  /\ task_id = [t \in Tasks |-> 0]
  /\ status  = [t \in Tasks |-> "DEAD"]
  /\ resched = [t \in Tasks |-> 0]
  /\ run_queue = <<>>
  /\ elr = <<NULL, 0, "kernel">>
  /\ timer = "armed"
  /\ scan = 1
-----------------------------------------------------------------------------
(* Boot, interrupts masked.                                                 *)

(* The pool is larger than the number of calls, so the search for a free    *)
(* slot succeeds each time.                                                 *)
FreeSlots == {t \in Tasks : task_id[t] = 0}

OneTaskMore ==             \* the loop in task_user with <=
  /\ phase < User + 1
  /\ phase' = phase + 1
  /\ LET t == Min(FreeSlots) IN
       /\ task_id' = [task_id EXCEPT ![t] = t]
       /\ status'  = [status EXCEPT ![t] = "READY"]
       /\ ctx'     = [ctx EXCEPT ![t] = <<Frame("kernel", NULL)>>]
       /\ run_queue' = QPush(run_queue, t)
  /\ UNCHANGED <<resched, cur, stack, elr, timer, scan>>

task_create ==
  /\ phase < User
  /\ phase' = phase + 1
  /\ LET t == Min(FreeSlots) IN
       /\ task_id' = [task_id EXCEPT ![t] = t]
       /\ status'  = [status EXCEPT ![t] = "READY"]
       /\ resched' = [resched EXCEPT ![t] = 0]
       /\ ctx'     = [ctx EXCEPT ![t] = <<Frame("kernel", NULL)>>]
       /\ run_queue' = QPush(run_queue, t)
  /\ UNCHANGED <<cur, stack, elr, timer, scan>>

(* The popped task is dropped: the code switches to &task_pool[0].          *)
NoBootPop ==               \* task_user without its run_queue_pop
  /\ phase = User
  /\ phase' = User + 1
  /\ cur' = Idle /\ stack' = ctx[Idle]
  /\ UNCHANGED <<run_queue, ctx, task_id, status, resched, elr, timer, scan>>

task_user ==
  /\ phase = User
  /\ phase' = User + 1
  /\ run_queue' = QRest(run_queue)
  /\ cur' = Idle /\ stack' = ctx[Idle]
  /\ UNCHANGED <<ctx, task_id, status, resched, elr, timer, scan>>
-----------------------------------------------------------------------------
(* The timer interrupt.                                                     *)

(***************************************************************************)
(* A tick between the msr and the eret leaves in ELR_EL1 the place where it *)
(* was taken.  Behind add sp, that is the eret or the instruction before:   *)
(* the eret returns to itself, with everything as it is.                    *)
(***************************************************************************)
Spinning == Top.pc = "eret" /\ elr = <<cur, Depth, "eret">>

(* The interval passes while a task runs its own code, or spins.            *)
TimePasses ==
  /\ Up /\ timer = "rearmed"
  /\ Paced => (Depth = 1 /\ ~AtMsr) \/ Spinning
  /\ timer' = "armed"
  /\ UNCHANGED <<phase, cur, stack, ctx, task_id, status, resched, run_queue, elr, scan>>

(***************************************************************************)
(* schedule() with cur->resched == 1, up to its enable_interrupt: the frame *)
(* that called it goes on to switch_to, or returns if the queue was empty.  *)
(***************************************************************************)
NextIsKept     == QPush(run_queue, cur)                \* no run_queue_pop
CallerIsLost   == QRest(run_queue)                     \* no run_queue_push
CallerGoesHead == <<cur>> \o QRest(run_queue)          \* push at the wrong end
Requeued       == QPush(QRest(run_queue), cur)

AfterSchedule(n) == IF n = NULL THEN Frame("return", NULL) ELSE Frame("switch", n)

(***************************************************************************)
(* irq_handler: the hardware saves the interrupted pc in ELR_EL1, save_all  *)
(* saves that in the new frame, irq_routing sets resched, re-arms the timer *)
(* and calls schedule.  No callback is queued: see CoreTimerQueue.          *)
(***************************************************************************)
irq_handler ==
  /\ Up /\ timer = "armed" /\ Depth < MaxDepth
  /\ stack' = Append(stack, AfterSchedule(QFirst(run_queue)))
  /\ run_queue' = Requeued
  /\ resched' = [resched EXCEPT ![cur] = 0]
  /\ elr' = <<cur, Depth, Top.pc>>
  /\ timer' = "rearmed"
  /\ UNCHANGED <<phase, cur, ctx, task_id, status, scan>>

-----------------------------------------------------------------------------
(* switch_to(cur, next), with interrupts on.                                *)

(***************************************************************************)
(* A tick that was taken where the CPU stands now has switched tasks, and   *)
(* saved its own place over the context of the task.                        *)
(***************************************************************************)
NestedSave == IsStrictPrefix(stack, ctx[cur])

(***************************************************************************)
(* Lines 5 to 12.  The task is to go on behind the call.  lr is saved       *)
(* before sp: a tick in between leaves the lr of its own call, which is the *)
(* same one in schedule(), but does not fit the stack of sys_exit.          *)
(***************************************************************************)
save_context ==
  /\ Up /\ Top.pc \in {"switch", "exit"}
  /\ stack' = WithTop(Frame(IF Top.pc = "exit" THEN "exiting" ELSE "switching", Top.next))
  /\ \/ ctx' = [ctx EXCEPT ![cur] = WithTop(Frame("return", NULL))]
     \/ /\ Top.pc = "exit" /\ NestedSave
        /\ ctx' = [ctx EXCEPT ![cur] = Stale]
  /\ UNCHANGED <<phase, cur, task_id, status, resched, run_queue, elr, timer, scan>>

(***************************************************************************)
(* The contexts when a stretch of switch_to is left that a nested save has  *)
(* found: the place that it saved is gone.                                  *)
(***************************************************************************)
KeptContexts == IF NestedSave THEN [ctx EXCEPT ![cur] = Stale] ELSE ctx

(* Lines 14 to 21: the registers of next, and its stack.                    *)
load_context ==
  /\ Up /\ Top.pc \in {"switching", "exiting"}
  /\ LET n == Top.next
         s == KeptContexts[n] IN
       /\ s # Stale
       /\ stack' = [s EXCEPT ![Len(s)] = Frame(@.pc, n)]
  /\ ctx' = KeptContexts
  /\ UNCHANGED <<phase, cur, task_id, status, resched, run_queue, elr, timer, scan>>

(***************************************************************************)
(* What a stale context leads to depends on what else has used its stack,   *)
(* and on the registers that were loaded when the tick came: not followed.  *)
(***************************************************************************)
load_stale ==
  /\ Up /\ Top.pc \in {"switching", "exiting"} /\ KeptContexts[Top.next] = Stale
  /\ phase' = User + 2
  /\ UNCHANGED <<cur, stack, ctx, task_id, status, resched, run_queue, elr, timer, scan>>

(***************************************************************************)
(* Lines 22 and 23.  Until then get_current() is the caller: a tick runs on *)
(* the stack of next, and its switch_to saves that stack in the caller's    *)
(* context, over the one that lines 5 to 12 have saved.                     *)
(***************************************************************************)
set_current ==
  /\ Up /\ AtMsr
  /\ cur' = Top.next
  /\ stack' = WithTop(Frame(Top.pc, NULL))
  /\ ctx' = KeptContexts
  /\ UNCHANGED <<phase, task_id, status, resched, run_queue, elr, timer, scan>>

switch_to == save_context \/ load_context \/ load_stale \/ set_current
-----------------------------------------------------------------------------
(* load_all, with interrupts on, and the eret.                              *)

NoMsr ==                   \* load_all without its msr elr_el1
  /\ Up /\ Top = Frame("return", NULL)
  /\ stack' = WithTop(Frame("loading", NULL))
  /\ UNCHANGED <<elr, phase, cur, ctx, task_id, status, resched, run_queue, timer, scan>>

load_elr ==
  /\ Up /\ Top = Frame("return", NULL)
  /\ stack' = WithTop(Frame("loading", NULL))
  /\ elr' = <<cur, Depth - 1, stack[Depth - 1].pc>>
  /\ UNCHANGED <<phase, cur, ctx, task_id, status, resched, run_queue, timer, scan>>

load_registers ==
  /\ Up /\ Top.pc = "loading"
  /\ stack' = WithTop(Frame("eret", NULL))
  /\ UNCHANGED <<phase, cur, ctx, task_id, status, resched, run_queue, elr, timer, scan>>

(* eret jumps where ELR_EL1 says.                                           *)
eret ==
  /\ Up /\ Top.pc = "eret" /\ elr[2] < Depth
  /\ stack' = SubSeq(stack, 1, elr[2])
  /\ UNCHANGED <<phase, cur, ctx, task_id, status, resched, run_queue, elr, timer, scan>>

(***************************************************************************)
(* A tick between the msr and add sp makes it jump there.  Each round adds  *)
(* to sp again, which leaves the stack, and so does what the next exception *)
(* saves: the CPU is lost.                                                  *)
(***************************************************************************)
eret_again ==
  /\ Up /\ Top.pc = "eret" /\ elr = <<cur, Depth, "loading">>
  /\ phase' = User + 2
  /\ UNCHANGED <<cur, stack, ctx, task_id, status, resched, run_queue, elr, timer, scan>>
-----------------------------------------------------------------------------
(* The tasks' own code.                                                     *)

InTask(t, pc) == Up /\ cur = t /\ Top = Frame(pc, NULL)

(***************************************************************************)
(* do_exec ends masked: it builds a trapframe at the top of the kernel      *)
(* stack and leaves through kernel_exit, where schedule() finds resched 0.  *)
(***************************************************************************)
do_exec ==
  /\ InTask(User, "kernel")
  /\ stack' = <<Frame("user", NULL)>>
  /\ elr' = <<User, 1, "user">>
  /\ UNCHANGED <<phase, cur, ctx, task_id, status, resched, run_queue, timer, scan>>

(***************************************************************************)
(* The other entries of the system call table print a line.  The exception  *)
(* is masked to its eret, and schedule() finds resched 0.                   *)
(***************************************************************************)
syscall ==
  /\ InTask(User, "user")
  /\ elr' = <<User, 1, "user">>
  /\ UNCHANGED <<phase, cur, stack, ctx, task_id, status, resched, run_queue, timer, scan>>

(***************************************************************************)
(* svc exit: exception entry masks interrupts, sys_exit opens them again    *)
(* before its switch_to.  With an empty queue it returns to the program.    *)
(***************************************************************************)
ExitReturns ==             \* sys_exit without its switch_to
  /\ MayExit /\ InTask(User, "user")
  /\ status' = [status EXCEPT ![User] = "DEAD"]
  /\ stack' = Append(stack, Frame("return", NULL))
  /\ elr' = <<User, 1, "user">>
  /\ UNCHANGED <<run_queue, phase, cur, ctx, task_id, resched, timer, scan>>

sys_exit ==
  /\ MayExit /\ InTask(User, "user")
  /\ status' = [status EXCEPT ![User] = "DEAD"]
  /\ LET q == QRemove(run_queue, User) IN
       /\ run_queue' = QRest(q)
       /\ stack' = Append(stack, IF q = <<>> THEN Frame("return", NULL)
                                            ELSE Frame("exit", Head(q)))
  /\ elr' = <<User, 1, "user">>
  /\ UNCHANGED <<phase, cur, ctx, task_id, resched, timer, scan>>

(* One round of idle_task's loop body.  The other fields that it clears are *)
(* never read again.                                                        *)
ReapsAll    == [task_id EXCEPT ![scan] = 0]      \* no test of status
ReapsNobody == task_id                           \* task_id is not cleared
Reaped == IF status[scan] = "DEAD" THEN [task_id EXCEPT ![scan] = 0] ELSE task_id

idle_task ==
  /\ InTask(Idle, "kernel") /\ scan <= PoolSize
  /\ task_id' = Reaped
  /\ scan' = scan + 1
  /\ UNCHANGED <<phase, cur, stack, ctx, status, resched, run_queue, elr, timer>>

(* The schedule() behind the loop returns at once: the interrupt that sets  *)
(* resched clears it before anything else runs (ReschedClear).              *)
idle_schedule ==
  /\ InTask(Idle, "kernel") /\ scan = PoolSize + 1
  /\ resched[Idle] # 1
  /\ scan' = 1
  /\ UNCHANGED <<phase, cur, stack, ctx, task_id, status, resched, run_queue, elr, timer>>
-----------------------------------------------------------------------------
load_all   == load_elr \/ load_registers
KernelPath == switch_to \/ load_all \/ eret \/ eret_again
IdleCode   == idle_task \/ idle_schedule

Next == \/ task_create \/ task_user
        \/ TimePasses \/ irq_handler
        \/ KernelPath \/ IdleCode
        \/ do_exec \/ syscall \/ sys_exit

(***************************************************************************)
(* The CPU goes on with boot and with the interrupt path, and the timer     *)
(* goes on.  A turn lasts a second, so the idle loop makes progress in      *)
(* each of its turns (SF).  Nothing makes the user program exit.            *)
(***************************************************************************)
Fairness ==
  /\ WF_vars(task_create \/ task_user)
  /\ WF_vars(TimePasses) /\ WF_vars(irq_handler)
  /\ WF_vars(KernelPath) /\ SF_vars(IdleCode)

Spec == Init /\ [][Next]_vars /\ Fairness
-----------------------------------------------------------------------------
Places == {"kernel", "user", "return", "loading", "eret"} \cup Windows
FrameSet == [pc : Places, next : Tasks \cup {NULL}]

(* The types of the state; at any time after boot a created task runs, and  *)
(* only created tasks are queued.                                           *)
TypeOK ==
  /\ phase \in 0..(User + 2)
  /\ cur \in Tasks \cup {NULL} /\ (Up => cur \in Created)
  /\ task_id \in [Tasks -> Tasks \cup {0}]
  /\ status \in [Tasks -> {"DEAD", "READY"}]
  /\ resched \in [Tasks -> {0, 1}]
  /\ run_queue \in Seq(Created)
  /\ stack \in Seq(FrameSet) /\ Depth <= MaxDepth
  /\ ctx \in [Tasks -> Seq(FrameSet)]
  /\ \A t \in Tasks : Len(ctx[t]) <= MaxDepth
  /\ elr \in (Tasks \cup {NULL}) \X (0..MaxDepth) \X Places
  /\ timer \in {"rearmed", "armed"}
  /\ scan \in 1..(PoolSize + 1)

(***************************************************************************)
(* The queue never holds a task twice, and it holds the running task only   *)
(* as its tail: schedule() pushes the caller before switch_to has left it,  *)
(* so a tick in between pushes it again, and the second push must not cut   *)
(* the list (run_queue_push cuts it behind a task that is already linked).  *)
(***************************************************************************)
QueueWellFormed ==
  /\ NoDuplicates(run_queue)
  /\ Contains(run_queue, cur) => Last(run_queue) = cur

(* The stack of a task: the CPU's, or what the task will be resumed with.   *)
Stack(t) == IF t # cur THEN ctx[t] ELSE IF AtMsr THEN KeptContexts[t] ELSE stack

(***************************************************************************)
(* A task that schedule() or sys_exit has taken off the queue is handed on: *)
(* every READY task is live, which means that it runs, is queued or is      *)
(* being switched to, or it is the `next' of a switch_to on the stack of a  *)
(* live task, and in the latter cases its context is whole.  Nothing else   *)
(* ever puts a task back, so a task that fails this is never run again.     *)
(***************************************************************************)
Live(t) == t = cur \/ Contains(run_queue, t) \/ Top.next = t
Held(t) == \E u \in Created : Live(u) /\ \E i \in DOMAIN Stack(u) : Stack(u)[i].next = t
NoTaskLost ==
  Up => \A t \in Created :
          status[t] = "READY" => (Live(t) \/ Held(t)) /\ Stack(t) # Stale

(***************************************************************************)
(* An eret returns to the code that its exception interrupted, although     *)
(* load_all writes ELR_EL1 with interrupts on.  The exception is exit: it   *)
(* may come just before a tick, which is then taken in the return path of   *)
(* the next task.  That hits one return path, once, and without an exit     *)
(* none is ever hit and the CPU is never lost.                              *)
(***************************************************************************)
Hit == {h \in Created \X (2..MaxDepth) :
          LET t == h[1]
              i == h[2] IN
            /\ i <= Len(Stack(t)) /\ Stack(t)[i].pc \in {"loading", "eret"}
            /\ i < Len(Stack(t)) \/ <<elr[1], elr[2]>> = h}
ElrIntact ==
  /\ Up => /\ \A g, h \in Hit : g = h
           /\ Top.pc \in {"loading", "eret"} =>
                \/ elr = <<cur, Depth - 1, stack[Depth - 1].pc>>
                \/ <<cur, Depth>> \in Hit
           /\ Hit # {} => status[User] = "DEAD"
  /\ Lost => status[User] = "DEAD"

(***************************************************************************)
(* The idle task clears a pool slot only when its task is gone for good:    *)
(* the task neither has the CPU nor can get it back.  A tick in the exit    *)
(* window queues the dead task once more, and idle_task does not look at    *)
(* that; but the task that this window holds back is the idle task itself.  *)
(***************************************************************************)
ReapedIsGone == Up => \A t \in Created : task_id[t] = 0 => ~Live(t) /\ ~Held(t)

(* A program that has exited is never resumed.                              *)
ExitIsFinal ==
  Up /\ status[cur] = "DEAD" => Top # Frame("user", NULL)

(***************************************************************************)
(* Round robin: without exit the tasks take turns in the order of the       *)
(* queue, and a turn ends with a tick.  In the switch window the CPU        *)
(* already belongs to the task that switch_to resumes.                      *)
(***************************************************************************)
Running == IF Up /\ Top.next # NULL THEN Top.next ELSE cur
RR == INSTANCE RoundRobin WITH running <- Running, ready <- run_queue, Tasks <- Created
ImplementsRoundRobin == RR!Spec

(***************************************************************************)
(* Each task gets back to its own code again and again.                     *)
(***************************************************************************)
EveryTaskRuns == \A t \in Created : []<>(Up /\ cur = t /\ Depth = 1)

(***************************************************************************)
(* Even when a tick falls into the exit window or the return path behind    *)
(* it, the workers and the idle task keep getting the CPU, unless it is     *)
(* lost in that return path.                                                *)
(***************************************************************************)
CpuKeepsGoingRound == <>Lost \/ \A t \in Created \ {User} : []<>(cur = t)

(***************************************************************************)
(* The slot of a program that has exited is recycled, unless the CPU is     *)
(* lost or the return path that was hit is the idle task's: then it spins.  *)
(***************************************************************************)
DeadIsReaped ==
  (Up /\ status[User] = "DEAD")
    ~> (task_id[User] = 0 \/ Lost \/ [](Up /\ \E i \in 2..MaxDepth : <<Idle, i>> \in Hit))
=============================================================================

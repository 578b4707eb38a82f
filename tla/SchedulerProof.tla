--------------------------- MODULE SchedulerProof ---------------------------
(***************************************************************************)
(* Proofs about Scheduler.  First type correctness, for any pool, any       *)
(* number of workers and any depth, with and without exit, whether or not   *)
(* ticks keep their distance.                                               *)
(***************************************************************************)
EXTENDS Scheduler, RunQueueProof

USE SchedulerAssumption DEF NULL

Booting == phase <= User

(* A kernel stack: the task's own frame, and exception frames above it; a   *)
(* window makes a created task current.                                     *)
FrameOK(g) == /\ g \in FrameSet /\ g.next \in Created \cup {NULL}
              /\ g.pc \in Windows => g.next # NULL
StackOK(f) ==
  /\ f \in Seq(FrameSet) /\ Len(f) >= 1
  /\ \A i \in 1..Len(f) : FrameOK(f[i])
  /\ \A i \in 1..Len(f) : f[i].pc \in {"kernel", "user"} <=> i = 1

(* A saved context: whole, and to be resumed at the task's entry or behind  *)
(* its switch_to, or stale.                                                 *)
Whole(f) == /\ StackOK(f)
            /\ f[Len(f)].pc \in {"kernel", "return"} /\ f[Len(f)].next = NULL
CtxOK(f) == f = Stale \/ Whole(f)

BootOK   == Booting => /\ cur = NULL
                       /\ task_id = [t \in Tasks |-> IF t <= phase THEN t ELSE 0]
                       /\ run_queue = [i \in 1..phase |-> i]
                       /\ \A t \in Created : t <= phase =>
                            /\ status[t] = "READY"
                            /\ ctx[t] = <<Frame("kernel", NULL)>>
ContextsOK   == \A t \in Tasks : CtxOK(ctx[t])
CpuOK        == Up => StackOK(stack)
EretOK       == Up /\ Top.pc \in {"loading", "eret"} => elr[2] >= 1
ReschedClear == \A t \in Tasks : resched[t] = 0

IInv == TypeOK /\ BootOK /\ ContextsOK /\ CpuOK /\ EretOK /\ ReschedClear
-----------------------------------------------------------------------------
LEMMA Ids ==
  /\ Created \subseteq Tasks /\ Tasks \subseteq Nat
  /\ Idle \in Created /\ User \in Created /\ User \in Nat /\ User >= 3 /\ NULL \notin Tasks
  /\ Idle = 1 /\ Idle # User
BY DEF Created, Tasks, Idle, User

(* The phases of the system exclude each other.                             *)
LEMMA Phases ==
  ASSUME TypeOK
  PROVE  /\ phase \in Nat
         /\ Booting <=> ~Up /\ ~Lost
         /\ ~(Up /\ Lost)
         /\ Up <=> phase = User + 1
BY Ids DEF TypeOK, Booting, Up, Lost

(* Replacing the top frame of a stack.                                      *)
LEMMA ReplaceTop ==
  ASSUME NEW f, StackOK(f), NEW g, FrameOK(g),
         g.pc \in {"kernel", "user"} <=> f[Len(f)].pc \in {"kernel", "user"}
  PROVE  LET h == [f EXCEPT ![Len(f)] = g]
         IN  /\ StackOK(h) /\ Len(h) = Len(f) /\ h[Len(h)] = g
             /\ \A i \in 1..(Len(f) - 1) : h[i] = f[i]
<1> DEFINE h == [f EXCEPT ![Len(f)] = g]
<1>1. f \in Seq(FrameSet) /\ Len(f) \in Nat /\ g \in FrameSet
  BY LenProperties DEF StackOK, FrameOK
<1>2. Len(f) \in 1..Len(f)  BY <1>1 DEF StackOK
<1>3. /\ h \in Seq(FrameSet) /\ Len(h) = Len(f)
      /\ \A j \in 1..Len(f) : h[j] = IF j = Len(f) THEN g ELSE f[j]
  BY <1>1, <1>2, ExceptSeq
<1> HIDE DEF h
<1>4. \A i \in 1..Len(h) : FrameOK(h[i])  BY <1>1, <1>3 DEF StackOK
<1>5. \A i \in 1..Len(h) : h[i].pc \in {"kernel", "user"} <=> i = 1
  BY <1>1, <1>2, <1>3 DEF StackOK
<1>6. StackOK(h)  BY <1>1, <1>3, <1>4, <1>5 DEF StackOK
<1>7. \A i \in 1..(Len(f) - 1) : h[i] = f[i]  BY <1>1, <1>3
<1>8. h[Len(h)] = g  BY <1>2, <1>3
<1> QED  BY <1>3, <1>6, <1>7, <1>8 DEF h

(* Pushing an exception frame.                                              *)
LEMMA PushFrame ==
  ASSUME NEW f, StackOK(f), NEW g, FrameOK(g), g.pc \notin {"kernel", "user"}
  PROVE  LET h == Append(f, g)
         IN  /\ StackOK(h) /\ Len(h) = Len(f) + 1 /\ h[Len(h)] = g
             /\ \A i \in 1..Len(f) : h[i] = f[i]
<1> DEFINE h == Append(f, g)
<1>1. f \in Seq(FrameSet) /\ Len(f) \in Nat /\ g \in FrameSet
  BY LenProperties DEF StackOK, FrameOK
<1>2. /\ h \in Seq(FrameSet) /\ Len(h) = Len(f) + 1
      /\ \A i \in 1..Len(f) : h[i] = f[i]
      /\ h[Len(f) + 1] = g
  BY <1>1, AppendProperties
<1> HIDE DEF h
<1>3. \A i \in 1..Len(h) : (i \in 1..Len(f) /\ h[i] = f[i]) \/ (i = Len(f) + 1 /\ h[i] = g)
  BY <1>1, <1>2
<1>4. \A i \in 1..Len(h) : FrameOK(h[i])  BY <1>3 DEF StackOK
<1>5. \A i \in 1..Len(h) : h[i].pc \in {"kernel", "user"} <=> i = 1
  BY <1>1, <1>3 DEF StackOK
<1>6. StackOK(h)  BY <1>1, <1>2, <1>4, <1>5 DEF StackOK
<1> QED  BY <1>2, <1>6 DEF h

(* Popping frames.                                                          *)
LEMMA PopFrames ==
  ASSUME NEW f, StackOK(f), NEW d \in 1..Len(f)
  PROVE  LET h == SubSeq(f, 1, d)
         IN  /\ StackOK(h) /\ Len(h) = d /\ h[Len(h)] = f[d]
             /\ \A i \in 1..d : h[i] = f[i]
<1> DEFINE h == SubSeq(f, 1, d)
<1>1. f \in Seq(FrameSet) /\ Len(f) \in Nat /\ d \in Int /\ 1 <= d
  BY LenProperties DEF StackOK
<1>2. \A i \in 1..d : f[i] \in FrameSet  BY <1>1, ElementOfSeq
<1>3. /\ h \in Seq(FrameSet)
      /\ Len(h) = IF 1 <= d THEN d - 1 + 1 ELSE 0
      /\ \A i \in 1..(d - 1 + 1) : h[i] = f[1 + i - 1]
  BY <1>1, <1>2, SubSeqProperties
<1> HIDE DEF h
<1>4. Len(h) = d  BY <1>1, <1>3
<1>5. ASSUME NEW i \in 1..d PROVE h[i] = f[i]
  <2>1. i \in 1..(d - 1 + 1) /\ 1 + i - 1 = i  BY <1>1
  <2> QED  BY <2>1, <1>3
<1>6. \A i \in 1..Len(h) : i \in 1..Len(f) /\ h[i] = f[i]  BY <1>1, <1>4, <1>5
<1>7. (\A i \in 1..Len(h) : FrameOK(h[i]))
      /\ \A i \in 1..Len(h) : h[i].pc \in {"kernel", "user"} <=> i = 1
  BY <1>6 DEF StackOK
<1>8. StackOK(h)  BY <1>1, <1>3, <1>4, <1>7 DEF StackOK
<1> QED  BY <1>1, <1>4, <1>5, <1>8 DEF h

(* The top frame of a stack.                                                *)
LEMMA TopFrame ==
  ASSUME NEW f, StackOK(f)
  PROVE  /\ f \in Seq(FrameSet) /\ Len(f) \in Nat /\ Len(f) >= 1 /\ f # Stale
         /\ Len(f) \in 1..Len(f) /\ FrameOK(f[Len(f)])
         /\ f[Len(f)].pc \in {"kernel", "user"} <=> Len(f) = 1
<1>1. f \in Seq(FrameSet) /\ Len(f) \in Nat /\ Len(f) >= 1  BY LenProperties DEF StackOK
<1>2. Len(f) \in 1..Len(f) /\ f # Stale  BY <1>1 DEF Stale
<1> QED  BY <1>1, <1>2 DEF StackOK

(* A task's first frame.                                                    *)
LEMMA OwnFrame ==
  ASSUME NEW p \in {"kernel", "user"}
  PROVE  LET h == <<Frame(p, NULL)>>
         IN  StackOK(h) /\ Len(h) = 1 /\ h[1] = Frame(p, NULL) /\ FrameOK(h[1])
<1> DEFINE g == Frame(p, NULL)
           h == <<g>>
<1>1. FrameOK(g) /\ g.pc = p  BY DEF Frame, FrameOK, FrameSet, Places, Windows
<1> HIDE DEF g
<1>2. h \in Seq(FrameSet) /\ Len(h) = 1 /\ h[1] = g  BY <1>1 DEF FrameOK
<1>3. StackOK(h)  BY <1>1, <1>2 DEF StackOK
<1> QED  BY <1>1, <1>2, <1>3 DEF g

(* The frames that the kernel's steps put on top of a stack.                *)
LEMMA NewFrame ==
  ASSUME NEW p \in Places, NEW n \in Created \cup {NULL}, p \in Windows => n # NULL
  PROVE  FrameOK(Frame(p, n)) /\ Frame(p, n).pc = p /\ Frame(p, n).next = n
BY Ids DEF Frame, FrameOK, FrameSet

(* While the system is up, the stack on which the CPU stands.               *)
LEMMA CurrentStack ==
  ASSUME IInv, Up
  PROVE  /\ cur \in Created /\ cur \in Tasks /\ StackOK(stack)
         /\ stack \in Seq(FrameSet) /\ Depth \in Nat /\ Depth >= 1 /\ Depth <= MaxDepth
         /\ FrameOK(Top)
         /\ Top.pc \in {"kernel", "user"} <=> Depth = 1
         /\ Top.pc \in Windows => Top.next \in Created
         /\ AtMsr => Top.next \in Created
<1>1. cur \in Created /\ cur \in Tasks /\ StackOK(stack) /\ Depth <= MaxDepth
  BY Ids DEF IInv, TypeOK, CpuOK
<1>2. FrameOK(Top) /\ Depth \in Nat /\ Depth >= 1 /\ (Top.pc \in {"kernel", "user"} <=> Depth = 1)
  BY <1>1, TopFrame DEF Top, Depth
<1> QED  BY <1>1, <1>2 DEF FrameOK, AtMsr, StackOK
-----------------------------------------------------------------------------
LEMMA InitInv == Init => IInv
<1> SUFFICES ASSUME Init PROVE IInv
  OBVIOUS
<1>1. phase = 0 /\ ~Up /\ ~Lost  BY Ids DEF Init, Up, Lost
<1>2. <<>> \in Seq(FrameSet) /\ Len(<<>>) = 0  BY EmptySeq
<1>3. ctx \in [Tasks -> Seq(FrameSet)] /\ \A t \in Tasks : ctx[t] = Stale
  BY <1>2 DEF Init, Stale
<1>4. TypeOK
  <2>1. /\ \A t \in Tasks : Len(ctx[t]) <= MaxDepth
        /\ stack \in Seq(FrameSet) /\ Depth <= MaxDepth
    BY <1>2, <1>3 DEF Init, Stale, Depth
  <2>2. run_queue \in Seq(Created)  BY EmptySeq DEF Init
  <2>3. phase \in 0..(User + 2)  BY <1>1, Ids
  <2>4. elr \in (Tasks \cup {NULL}) \X (0..MaxDepth) \X Places  BY DEF Init, Places
  <2>5. scan \in 1..(PoolSize + 1)  BY DEF Init
  <2> QED  BY <1>1, <1>3, <2>1, <2>2, <2>3, <2>4, <2>5 DEF Init, TypeOK
<1>5. BootOK
  <2>1. run_queue = <<>> /\ [i \in 1..phase |-> i] = <<>>  BY <1>1 DEF Init
  <2>2. task_id = [t \in Tasks |-> IF t <= phase THEN t ELSE 0]
    BY <1>1, Ids DEF Init, Tasks
  <2>3. \A t \in Created : ~(t <= phase)  BY <1>1 DEF Created
  <2> QED  BY <2>1, <2>2, <2>3 DEF Init, BootOK
<1>6. ContextsOK  BY <1>3 DEF ContextsOK, CtxOK
<1> QED
  BY <1>1, <1>4, <1>5, <1>6 DEF Init, IInv, CpuOK, EretOK, ReschedClear

(* While the system boots, the queue holds the tasks in the order of their  *)
(* creation, and run_queue_push appends the next.                           *)
LEMMA BootPush ==
  ASSUME NEW n \in Nat, NEW q \in Seq(Created), Len(q) = n, \A i \in 1..n : q[i] = i,
         NEW t \in Created, t = n + 1
  PROVE  /\ ~Contains(q, t) /\ QPush(q, t) = Append(q, t)
         /\ QPush(q, t) = [i \in 1..(n + 1) |-> i]
<1>2. ~Contains(q, t)  BY DEF Contains
<1> DEFINE r == QPush(q, t)
<1>3. /\ r = Append(q, t) /\ r \in Seq(Created) /\ Len(r) = n + 1
      /\ \A i \in 1..n : r[i] = i
      /\ r[n + 1] = t
  <2>1. /\ QPush(q, t) = Append(q, t) /\ QPush(q, t) \in Seq(Created)
        /\ Len(QPush(q, t)) = Len(q) + 1
        /\ \A i \in 1..Len(q) : QPush(q, t)[i] = q[i]
        /\ QPush(q, t)[Len(q) + 1] = t
    BY <1>2, PushNew
  <2> QED  BY <2>1
<1> HIDE DEF r
<1>4. r \in [1..(n + 1) -> Created]  BY <1>3, LenProperties
<1>5. \A i \in 1..(n + 1) : r[i] = i  BY <1>3
<1>6. r = [i \in 1..(n + 1) |-> i]  BY <1>4, <1>5
<1> QED  BY <1>2, <1>3, <1>6 DEF r

(* What task_create does while the system boots.                            *)
LEMMA NextSlot ==
  ASSUME IInv, task_create
  PROVE  /\ Booting /\ phase \in Nat /\ phase + 1 \in Created /\ phase' = phase + 1
         /\ Min(FreeSlots) = phase + 1
         /\ run_queue \in Seq(Created) /\ Len(run_queue) = phase
         /\ \A i \in 1..phase : run_queue[i] = i
<1>1. phase \in Nat /\ phase < User /\ phase' = phase + 1 /\ Booting
  BY Ids DEF task_create, IInv, TypeOK, Booting
<1>2. FreeSlots = {u \in Tasks : u > phase}
  BY <1>1, Ids DEF FreeSlots, IInv, BootOK, Tasks
<1>3. phase + 1 \in Created /\ phase + 1 \in FreeSlots
  BY <1>1, <1>2, Ids DEF Created, Tasks
<1>4. PICK t \in Created : t = phase + 1  BY <1>3
<1>5. t = Min(FreeSlots)  BY <1>1, <1>2, <1>3, <1>4, Ids DEF Min, Tasks
<1>6. Len(run_queue) = phase /\ \A i \in 1..phase : run_queue[i] = i
  <2>1. run_queue = [i \in 1..phase |-> i]  BY <1>1 DEF IInv, BootOK
  <2>2. Len([i \in 1..phase |-> i]) = phase  BY <1>1
  <2> QED  BY <1>1, <2>1, <2>2
<1> QED  BY <1>1, <1>3, <1>4, <1>5, <1>6 DEF IInv, TypeOK

LEMMA task_createInv == IInv /\ task_create => IInv'
<1> SUFFICES ASSUME IInv, task_create PROVE IInv'
  OBVIOUS
<1>1. /\ Booting /\ phase \in Nat /\ phase' = phase + 1
      /\ run_queue \in Seq(Created) /\ Len(run_queue) = phase
      /\ \A i \in 1..phase : run_queue[i] = i
  BY NextSlot
<1>2. PICK t \in Created : t = phase + 1 /\ t = Min(FreeSlots)  BY NextSlot
<1>3. t \in Tasks /\ phase' <= User /\ ~Up' /\ ~Lost' /\ phase' \in 0..(User + 2)
  BY <1>1, <1>2, Ids DEF task_create, Up, Lost
<1> DEFINE h == <<Frame("kernel", NULL)>>
<1>4. /\ h \in Seq(FrameSet) /\ Len(h) = 1 /\ CtxOK(h)
  <2>1. StackOK(h) /\ Len(h) = 1 /\ h[1] = Frame("kernel", NULL)  BY OwnFrame
  <2>2. h[Len(h)].pc = "kernel" /\ h[Len(h)].next = NULL  BY <2>1 DEF Frame
  <2> HIDE DEF h
  <2> QED  BY <2>1, <2>2 DEF CtxOK, Whole, StackOK
<1> HIDE DEF h
<1>5. /\ task_id' = [task_id EXCEPT ![t] = t]
      /\ status' = [status EXCEPT ![t] = "READY"]
      /\ resched' = [resched EXCEPT ![t] = 0]
      /\ ctx' = [ctx EXCEPT ![t] = h]
      /\ run_queue' = QPush(run_queue, t)
      /\ UNCHANGED <<cur, stack, elr, timer, scan>>
  BY <1>2 DEF task_create, h
<1>6. TypeOK /\ BootOK /\ ContextsOK /\ ReschedClear  BY DEF IInv
<1>7. /\ ctx' \in [Tasks -> Seq(FrameSet)]
      /\ \A u \in Tasks : Len(ctx'[u]) <= MaxDepth /\ CtxOK(ctx'[u])
      /\ ctx'[t] = h
      /\ \A u \in Tasks : u # t => ctx'[u] = ctx[u]
  <2>1. Len(h) <= MaxDepth  BY <1>4
  <2> QED  BY <2>1, <1>3, <1>4, <1>5, <1>6 DEF TypeOK, ContextsOK
<1>8. run_queue' \in Seq(Created)  BY <1>1, <1>5, PushTail
<1>9. TypeOK'
  <2>1. /\ task_id' \in [Tasks -> Tasks \cup {0}]
        /\ status' \in [Tasks -> {"DEAD", "READY"}]
        /\ resched' \in [Tasks -> {0, 1}]
    BY <1>3, <1>5, <1>6 DEF TypeOK
  <2>2. Depth' = Depth  BY <1>5 DEF Depth
  <2> QED  BY <1>3, <1>5, <1>6, <1>7, <1>8, <2>1, <2>2 DEF TypeOK
<1>10. BootOK'
  <2>1. run_queue' = [i \in 1..(phase + 1) |-> i]
    BY <1>1, <1>2, <1>5, BootPush
  <2>2. task_id = [u \in Tasks |-> IF u <= phase THEN u ELSE 0] /\ cur = NULL
    BY <1>1, <1>6 DEF BootOK
  <2>3. \A u \in Tasks : u <= phase + 1 <=> u <= phase \/ u = t  BY <1>1, <1>2, Ids
  <2>4. task_id' = [u \in Tasks |-> IF u <= phase + 1 THEN u ELSE 0]
    BY <2>2, <2>3, <1>3, <1>5
  <2>5. \A u \in Created : u <= phase + 1 =>
          status'[u] = "READY" /\ ctx'[u] = <<Frame("kernel", NULL)>>
    BY <1>1, <1>3, <1>5, <1>6, <1>7, <2>3, Ids DEF BootOK, TypeOK, h
  <2> QED  BY <1>1, <1>5, <2>1, <2>2, <2>4, <2>5 DEF BootOK
<1>11. ContextsOK' /\ CpuOK' /\ EretOK' /\ ReschedClear'
  BY <1>3, <1>5, <1>6, <1>7 DEF ContextsOK, CpuOK, EretOK, ReschedClear, TypeOK
<1> QED  BY <1>9, <1>10, <1>11 DEF IInv

LEMMA task_userInv == IInv /\ task_user => IInv'
<1> SUFFICES ASSUME IInv, task_user PROVE IInv'
  OBVIOUS
<1>1. /\ Booting /\ phase = User /\ Up' /\ ~Booting' /\ phase' \in 0..(User + 2)
      /\ cur' = Idle /\ stack' = ctx[Idle] /\ run_queue' = QRest(run_queue)
      /\ UNCHANGED <<ctx, task_id, status, resched, elr, timer, scan>>
  BY Ids DEF task_user, Up, Booting
<1>2. ctx[Idle] = <<Frame("kernel", NULL)>>
  BY <1>1, Ids DEF IInv, BootOK
<1>3. /\ StackOK(stack') /\ Len(stack') = 1 /\ stack'[1] = Frame("kernel", NULL)
  BY <1>1, <1>2, OwnFrame
<1>4. Depth' = 1 /\ Top' = Frame("kernel", NULL) /\ stack' \in Seq(FrameSet)
  BY <1>3 DEF Depth, Top, StackOK
<1>5. run_queue' \in Seq(Created)  BY <1>1, PopProperties DEF IInv, TypeOK
<1>6. TypeOK'  BY <1>1, <1>4, <1>5, Ids DEF IInv, TypeOK
<1>7. CpuOK' /\ EretOK' /\ BootOK'
  BY <1>1, <1>3, <1>4 DEF CpuOK, EretOK, BootOK, Frame
<1> QED  BY <1>1, <1>6, <1>7 DEF IInv, ContextsOK, ReschedClear
-----------------------------------------------------------------------------
(***************************************************************************)
(* From here on the system is up.  A step that leaves the CPU on the stack  *)
(* h, and contexts that may be resumed, keeps the invariant.                *)
(***************************************************************************)
LEMMA UpStep ==
  ASSUME IInv, Up, Up', cur' \in Created,
         StackOK(stack'), Len(stack') <= MaxDepth,
         ctx' \in [Tasks -> Seq(FrameSet)],
         \A t \in Tasks : Len(ctx'[t]) <= MaxDepth /\ CtxOK(ctx'[t]),
         stack'[Len(stack')].pc \in {"loading", "eret"} => elr'[2] >= 1,
         elr' \in (Tasks \cup {NULL}) \X (0..MaxDepth) \X Places,
         run_queue' \in Seq(Created),
         status' \in [Tasks -> {"DEAD", "READY"}], resched' = [t \in Tasks |-> 0],
         UNCHANGED <<phase, task_id, scan>>, timer' \in {"rearmed", "armed"}
  PROVE  IInv'
<1>1. ~Booting' /\ phase' = phase  BY Ids DEF Up, Booting
<1>2. stack' \in Seq(FrameSet) /\ Depth' <= MaxDepth  BY DEF StackOK, Depth
<1>3. TypeOK'  BY <1>1, <1>2, Ids DEF IInv, TypeOK
<1>4. BootOK' /\ ContextsOK' /\ CpuOK' /\ EretOK'
  BY <1>1 DEF BootOK, ContextsOK, CpuOK, EretOK, Top, Depth
<1>5. ReschedClear'  BY DEF ReschedClear
<1> QED  BY <1>3, <1>4, <1>5 DEF IInv

(* What a step that does not change these variables may keep.               *)
LEMMA UpTypes ==
  ASSUME IInv, Up
  PROVE  /\ ctx \in [Tasks -> Seq(FrameSet)]
         /\ \A t \in Tasks : Len(ctx[t]) <= MaxDepth /\ CtxOK(ctx[t])
         /\ elr \in (Tasks \cup {NULL}) \X (0..MaxDepth) \X Places
         /\ run_queue \in Seq(Created)
         /\ status \in [Tasks -> {"DEAD", "READY"}] /\ resched = [t \in Tasks |-> 0]
         /\ timer \in {"rearmed", "armed"}
         /\ Top.pc \in {"loading", "eret"} => elr[2] >= 1
BY DEF IInv, TypeOK, ContextsOK, EretOK, ReschedClear

LEMMA TimePassesInv == IInv /\ TimePasses => IInv'
<1> SUFFICES ASSUME IInv, TimePasses PROVE IInv'
  OBVIOUS
<1>1. /\ Up /\ Up' /\ timer' = "armed"
      /\ UNCHANGED <<phase, cur, stack, ctx, task_id, status, resched, run_queue, elr, scan>>
  BY DEF TimePasses, Up
<1> QED  BY <1>1, CurrentStack, UpTypes, UpStep DEF Top, Depth

LEMMA irq_handlerInv == IInv /\ irq_handler => IInv'
<1> SUFFICES ASSUME IInv, irq_handler PROVE IInv'
  OBVIOUS
<1>1. /\ Up /\ Up' /\ Depth < MaxDepth /\ timer' = "rearmed"
      /\ resched' = [resched EXCEPT ![cur] = 0] /\ elr' = <<cur, Depth, Top.pc>>
      /\ UNCHANGED <<phase, cur, ctx, task_id, status, scan>>
  BY DEF irq_handler, Requeued, Up
<1>2. /\ cur \in Created /\ cur \in Tasks /\ StackOK(stack)
      /\ Depth \in Nat /\ FrameOK(Top)
  BY <1>1, CurrentStack
<1> DEFINE n == QFirst(run_queue)
           g == AfterSchedule(n)
           h == Append(stack, g)
<1>3. n = NULL \/ n \in Created
  <2>1. run_queue \in Seq(Created)  BY <1>1, UpTypes
  <2> QED  BY <2>1, PopProperties
<1>4. FrameOK(g) /\ g.pc \in {"switch", "return"}
  BY <1>3, NewFrame DEF AfterSchedule, Places, Windows
<1>5. StackOK(h) /\ Len(h) = Depth + 1 /\ h[Len(h)] = g
  <2> HIDE DEF g
  <2> QED  BY <1>2, <1>4, PushFrame DEF Depth
<1>6. stack' = h  BY DEF irq_handler, Requeued
<1> HIDE DEF g, h
<1>7. Len(h) <= MaxDepth /\ h[Len(h)].pc \notin {"loading", "eret"}
  BY <1>1, <1>2, <1>4, <1>5
<1>8. run_queue' \in Seq(Created)
  <2>1. run_queue' = QPush(QRest(run_queue), cur)  BY DEF irq_handler, Requeued
  <2> QED  BY <1>1, <1>2, <2>1, UpTypes, PopProperties, PushTail
<1>9. elr' \in (Tasks \cup {NULL}) \X (0..MaxDepth) \X Places
  BY <1>1, <1>2 DEF FrameOK, FrameSet
<1>10. resched' = [t \in Tasks |-> 0]  BY <1>1, <1>2, UpTypes
<1> QED  BY <1>1, <1>2, <1>5, <1>6, <1>7, <1>8, <1>9, <1>10, UpTypes, UpStep

(* Replacing the top frame of the CPU's stack.                              *)
LEMMA NewTop ==
  ASSUME IInv, Up, NEW g, FrameOK(g), g.pc \in {"kernel", "user"} <=> Depth = 1
  PROVE  LET h == WithTop(g)
         IN  /\ StackOK(h) /\ Len(h) = Depth /\ Len(h) <= MaxDepth /\ h[Len(h)] = g
             /\ h[Depth] = g /\ h \in Seq(FrameSet)
             /\ \A i \in 1..(Depth - 1) : h[i] = stack[i]
<1> DEFINE h == WithTop(g)
<1>1. StackOK(stack) /\ Depth <= MaxDepth  BY CurrentStack
<1>2. g.pc \in {"kernel", "user"} <=> stack[Len(stack)].pc \in {"kernel", "user"}
  BY CurrentStack DEF Top, Depth
<1>3. /\ StackOK(h) /\ Len(h) = Len(stack) /\ h[Len(h)] = g
      /\ \A i \in 1..(Len(stack) - 1) : h[i] = stack[i]
  BY <1>1, <1>2, ReplaceTop DEF WithTop, Depth
<1> HIDE DEF h
<1>4. Len(h) <= MaxDepth /\ h[Depth] = g /\ h \in Seq(FrameSet)
  BY <1>1, <1>3 DEF Depth, StackOK
<1> QED  BY <1>3, <1>4 DEF h, Depth

(* The contexts after a stretch of switch_to.                               *)
LEMMA ContextUpdate ==
  ASSUME IInv, Up, NEW x, x \in Seq(FrameSet), Len(x) <= MaxDepth, CtxOK(x), NEW k,
         k = [ctx EXCEPT ![cur] = x]
  PROVE  /\ k \in [Tasks -> Seq(FrameSet)]
         /\ \A t \in Tasks : Len(k[t]) <= MaxDepth /\ CtxOK(k[t])
         /\ k[cur] = x /\ \A t \in Tasks : t # cur => k[t] = ctx[t]
BY CurrentStack, UpTypes

LEMMA Kept ==
  ASSUME IInv, Up
  PROVE  /\ KeptContexts \in [Tasks -> Seq(FrameSet)]
         /\ \A t \in Tasks : Len(KeptContexts[t]) <= MaxDepth /\ CtxOK(KeptContexts[t])
         /\ KeptContexts[cur] = IF NestedSave THEN Stale ELSE ctx[cur]
         /\ \A t \in Tasks : t # cur => KeptContexts[t] = ctx[t]
<1>1. Stale \in Seq(FrameSet) /\ Len(Stale) <= MaxDepth /\ CtxOK(Stale)
  <2>1. <<>> \in Seq(FrameSet) /\ Len(<<>>) = 0  BY EmptySeq
  <2> QED  BY <2>1 DEF Stale, CtxOK
<1>2. CASE NestedSave
  <2>1. KeptContexts = [ctx EXCEPT ![cur] = Stale]  BY <1>2 DEF KeptContexts
  <2> HIDE DEF Stale
  <2> QED  BY <1>1, <1>2, <2>1, ContextUpdate
<1>3. CASE ~NestedSave  BY <1>3, UpTypes DEF KeptContexts
<1> QED  BY <1>2, <1>3

LEMMA save_contextInv == IInv /\ save_context => IInv'
<1> SUFFICES ASSUME IInv, save_context PROVE IInv'
  OBVIOUS
<1>1. /\ Up /\ Up' /\ Top.pc \in {"switch", "exit"}
      /\ UNCHANGED <<phase, cur, task_id, status, resched, run_queue, elr, timer, scan>>
  BY DEF save_context, Up
<1>2. /\ cur \in Created /\ Top.next \in Created /\ Depth # 1
  BY <1>1, CurrentStack DEF Windows
<1> DEFINE g == Frame(IF Top.pc = "exit" THEN "exiting" ELSE "switching", Top.next)
           r == Frame("return", NULL)
<1>3. FrameOK(g) /\ g.pc \in {"exiting", "switching"}
  <2>1. CASE Top.pc = "exit"  BY <2>1, <1>2, NewFrame, Ids DEF Places, Windows
  <2>2. CASE Top.pc # "exit"  BY <2>2, <1>2, NewFrame, Ids DEF Places, Windows
  <2> QED  BY <2>1, <2>2
<1>4. FrameOK(r) /\ r.pc = "return" /\ r.next = NULL  BY NewFrame DEF Places, Windows
<1>5. /\ stack' = WithTop(g)
      /\ ctx' = [ctx EXCEPT ![cur] = WithTop(r)] \/ ctx' = [ctx EXCEPT ![cur] = Stale]
  BY DEF save_context
<1> HIDE DEF g, r
<1>6. StackOK(stack') /\ Len(stack') <= MaxDepth /\ stack'[Len(stack')] = g
  BY <1>1, <1>2, <1>3, <1>5, NewTop
<1>7. WithTop(r) \in Seq(FrameSet) /\ Len(WithTop(r)) <= MaxDepth /\ CtxOK(WithTop(r))
  <2>1. StackOK(WithTop(r)) /\ Len(WithTop(r)) <= MaxDepth /\ WithTop(r)[Len(WithTop(r))] = r
    BY <1>1, <1>2, <1>4, NewTop
  <2> QED  BY <1>4, <2>1 DEF CtxOK, Whole, StackOK
<1>8. Stale \in Seq(FrameSet) /\ Len(Stale) <= MaxDepth /\ CtxOK(Stale)
  <2>1. <<>> \in Seq(FrameSet) /\ Len(<<>>) = 0  BY EmptySeq
  <2> QED  BY <2>1 DEF Stale, CtxOK
<1>9. /\ ctx' \in [Tasks -> Seq(FrameSet)]
      /\ \A t \in Tasks : Len(ctx'[t]) <= MaxDepth /\ CtxOK(ctx'[t])
  <2> HIDE DEF Stale
  <2>1. CASE ctx' = [ctx EXCEPT ![cur] = WithTop(r)]  BY <1>1, <1>7, <2>1, ContextUpdate
  <2>2. CASE ctx' = [ctx EXCEPT ![cur] = Stale]  BY <1>1, <1>8, <2>2, ContextUpdate
  <2> QED  BY <1>5, <2>1, <2>2
<1> QED  BY <1>1, <1>2, <1>3, <1>6, <1>9, UpTypes, UpStep

LEMMA load_contextInv == IInv /\ load_context => IInv'
<1> SUFFICES ASSUME IInv, load_context PROVE IInv'
  OBVIOUS
<1>1. /\ Up /\ Up' /\ Top.pc \in {"switching", "exiting"} /\ ctx' = KeptContexts
      /\ UNCHANGED <<phase, cur, task_id, status, resched, run_queue, elr, timer, scan>>
  BY DEF load_context, Up
<1>2. cur \in Created /\ Top.next \in Created /\ Top.next \in Tasks
  BY <1>1, CurrentStack, Ids DEF Windows
<1>3. PICK s : s = KeptContexts[Top.next]  OBVIOUS
<1>4. s # Stale /\ stack' = [s EXCEPT ![Len(s)] = Frame(@.pc, Top.next)]
  BY <1>3 DEF load_context
<1>5. Whole(s) /\ Len(s) <= MaxDepth  BY <1>1, <1>2, <1>3, <1>4, Kept DEF CtxOK
<1>6. StackOK(s) /\ s[Len(s)].pc \in {"kernel", "return"}  BY <1>5 DEF Whole
<1>7. PICK g : g = Frame(s[Len(s)].pc, Top.next) /\ FrameOK(g) /\ g.pc = s[Len(s)].pc
  BY <1>2, <1>6, NewFrame DEF Places, Windows
<1>8. stack' = [s EXCEPT ![Len(s)] = g]  BY <1>4, <1>7
<1>9. StackOK(stack') /\ Len(stack') = Len(s) /\ stack'[Len(stack')] = g
  <2>1. g.pc \in {"kernel", "user"} <=> s[Len(s)].pc \in {"kernel", "user"}  BY <1>7
  <2>2. FrameOK(g)  BY <1>7
  <2>3. StackOK(s)  BY <1>6
  <2> DEFINE h == [s EXCEPT ![Len(s)] = g]
  <2>4. StackOK(h) /\ Len(h) = Len(s) /\ h[Len(h)] = g
    BY ONLY <2>1, <2>2, <2>3, ReplaceTop
  <2>5. stack' = h  BY <1>8
  <2> HIDE DEF h
  <2> QED  BY <2>4, <2>5
<1> QED  BY <1>1, <1>2, <1>5, <1>6, <1>7, <1>9, UpTypes, Kept, UpStep

LEMMA set_currentInv == IInv /\ set_current => IInv'
<1> SUFFICES ASSUME IInv, set_current PROVE IInv'
  OBVIOUS
<1>1. /\ Up /\ Up' /\ AtMsr /\ cur' = Top.next /\ stack' = WithTop(Frame(Top.pc, NULL))
      /\ ctx' = KeptContexts
      /\ UNCHANGED <<phase, task_id, status, resched, run_queue, elr, timer, scan>>
  BY DEF set_current, Up
<1>2. Top.next \in Created /\ FrameOK(Top) /\ (Top.pc \in {"kernel", "user"} <=> Depth = 1)
  BY <1>1, CurrentStack
<1>3. Top.pc \in Places /\ Top.pc \notin Windows
  BY <1>1, <1>2 DEF FrameOK, FrameSet, AtMsr
<1>4. PICK g : g = Frame(Top.pc, NULL) /\ FrameOK(g) /\ g.pc = Top.pc
  BY <1>3, NewFrame
<1>5. StackOK(stack') /\ Len(stack') <= MaxDepth /\ stack'[Len(stack')] = g
  BY <1>1, <1>2, <1>4, NewTop
<1> QED  BY <1>1, <1>2, <1>4, <1>5, UpTypes, Kept, UpStep

(* The CPU is lost: nothing else changes.                                   *)
LEMMA LostInv ==
  ASSUME IInv, Up, phase' = User + 2,
         UNCHANGED <<cur, stack, ctx, task_id, status, resched, run_queue, elr, timer, scan>>
  PROVE  IInv'
<1>1. ~Up' /\ ~Booting' /\ phase' \in 0..(User + 2)  BY Ids DEF Up, Booting
<1>2. TypeOK'  BY <1>1 DEF IInv, TypeOK, Depth
<1> QED  BY <1>1, <1>2 DEF IInv, BootOK, ContextsOK, CpuOK, EretOK, ReschedClear

LEMMA load_elrInv == IInv /\ load_elr => IInv'
<1> SUFFICES ASSUME IInv, load_elr PROVE IInv'
  OBVIOUS
<1>1. /\ Up /\ Up' /\ Top = Frame("return", NULL) /\ stack' = WithTop(Frame("loading", NULL))
      /\ elr' = <<cur, Depth - 1, stack[Depth - 1].pc>>
      /\ UNCHANGED <<phase, cur, ctx, task_id, status, resched, run_queue, timer, scan>>
  BY DEF load_elr, Up
<1>2. Top.pc = "return"  BY <1>1 DEF Frame
<1>3. /\ cur \in Created /\ cur \in Tasks /\ StackOK(stack)
      /\ Depth \in Nat /\ Depth >= 2 /\ Depth <= MaxDepth
  BY <1>1, <1>2, CurrentStack
<1>4. PICK g : g = Frame("loading", NULL) /\ FrameOK(g) /\ g.pc = "loading"
  BY NewFrame DEF Places, Windows
<1>5. StackOK(stack') /\ Len(stack') <= MaxDepth /\ stack'[Len(stack')] = g
  BY <1>1, <1>3, <1>4, NewTop
<1>6. stack[Depth - 1].pc \in Places
  <2>1. Depth - 1 \in 1..Len(stack)  BY <1>3 DEF Depth
  <2> QED  BY <1>3, <2>1 DEF StackOK, FrameOK, FrameSet
<1>7. elr' \in (Tasks \cup {NULL}) \X (0..MaxDepth) \X Places /\ elr'[2] >= 1
  BY <1>1, <1>3, <1>6
<1> QED  BY <1>1, <1>3, <1>5, <1>7, UpTypes, UpStep

LEMMA load_registersInv == IInv /\ load_registers => IInv'
<1> SUFFICES ASSUME IInv, load_registers PROVE IInv'
  OBVIOUS
<1>1. /\ Up /\ Up' /\ Top.pc = "loading" /\ stack' = WithTop(Frame("eret", NULL))
      /\ UNCHANGED <<phase, cur, ctx, task_id, status, resched, run_queue, elr, timer, scan>>
  BY DEF load_registers, Up
<1>2. cur \in Created /\ Depth # 1  BY <1>1, CurrentStack
<1>3. PICK g : g = Frame("eret", NULL) /\ FrameOK(g) /\ g.pc = "eret"
  BY NewFrame DEF Places, Windows
<1>4. StackOK(stack') /\ Len(stack') <= MaxDepth /\ stack'[Len(stack')] = g
  BY <1>1, <1>2, <1>3, NewTop
<1> QED  BY <1>1, <1>2, <1>4, UpTypes, UpStep

LEMMA eretInv == IInv /\ eret => IInv'
<1> SUFFICES ASSUME IInv, eret PROVE IInv'
  OBVIOUS
<1>1. /\ Up /\ Up' /\ Top.pc = "eret" /\ elr[2] < Depth
      /\ stack' = SubSeq(stack, 1, elr[2])
      /\ UNCHANGED <<phase, cur, ctx, task_id, status, resched, run_queue, elr, timer, scan>>
  BY DEF eret, Up
<1>2. cur \in Created /\ StackOK(stack) /\ Depth \in Nat /\ Depth <= MaxDepth
  BY <1>1, CurrentStack
<1>3. PICK d : d = elr[2]  OBVIOUS
<1>4. d \in Int /\ d >= 1 /\ d \in 1..Len(stack)
  BY <1>1, <1>2, <1>3, UpTypes DEF Depth
<1>5. StackOK(stack') /\ Len(stack') = d  BY <1>1, <1>2, <1>3, <1>4, PopFrames
<1>6. Len(stack') <= MaxDepth  BY <1>1, <1>2, <1>3, <1>4, <1>5
<1> QED  BY <1>1, <1>2, <1>3, <1>4, <1>5, <1>6, UpTypes, UpStep

LEMMA do_execInv == IInv /\ do_exec => IInv'
<1> SUFFICES ASSUME IInv, do_exec PROVE IInv'
  OBVIOUS
<1>1. /\ Up /\ Up' /\ stack' = <<Frame("user", NULL)>> /\ elr' = <<User, 1, "user">>
      /\ UNCHANGED <<phase, cur, ctx, task_id, status, resched, run_queue, timer, scan>>
  BY DEF do_exec, InTask, Up
<1>2. StackOK(stack') /\ Len(stack') = 1 /\ stack'[1] = Frame("user", NULL)
  BY <1>1, OwnFrame
<1>3. elr' \in (Tasks \cup {NULL}) \X (0..MaxDepth) \X Places  BY <1>1, Ids DEF Places
<1> QED  BY <1>1, <1>2, <1>3, CurrentStack, UpTypes, UpStep DEF Frame

LEMMA syscallInv == IInv /\ syscall => IInv'
<1> SUFFICES ASSUME IInv, syscall PROVE IInv'
  OBVIOUS
<1>1. /\ Up /\ Up' /\ elr' = <<User, 1, "user">> /\ Top.pc = "user"
      /\ UNCHANGED <<phase, cur, stack, ctx, task_id, status, resched, run_queue, timer, scan>>
  BY DEF syscall, InTask, Up, Frame
<1>2. elr' \in (Tasks \cup {NULL}) \X (0..MaxDepth) \X Places  BY <1>1, Ids DEF Places
<1> QED  BY <1>1, <1>2, CurrentStack, UpTypes, UpStep DEF Top, Depth

LEMMA sys_exitInv == IInv /\ sys_exit => IInv'
<1> SUFFICES ASSUME IInv, sys_exit PROVE IInv'
  OBVIOUS
<1>1. /\ Up /\ Up' /\ cur' = cur /\ cur = User /\ Top.pc = "user"
      /\ elr' = <<User, 1, "user">> /\ status' = [status EXCEPT ![User] = "DEAD"]
      /\ UNCHANGED <<phase, cur, ctx, task_id, resched, timer, scan>>
  BY DEF sys_exit, InTask, Up, Frame
<1>2. StackOK(stack) /\ Depth = 1 /\ User \in Tasks /\ User \in Created
  BY <1>1, CurrentStack, Ids
<1> DEFINE q == QRemove(run_queue, User)
           g == IF q = <<>> THEN Frame("return", NULL) ELSE Frame("exit", Head(q))
           h == Append(stack, g)
<1>3. q \in Seq(Created)  BY <1>1, UpTypes, RemoveType
<1>4. FrameOK(g) /\ g.pc \in {"exit", "return"}
  <2> HIDE DEF q
  <2>1. q # <<>> => Head(q) \in Created  BY <1>3, HeadTailProperties
  <2>2. CASE q = <<>>  BY <2>2, NewFrame DEF Places, Windows
  <2>3. CASE q # <<>>  BY <2>1, <2>3, NewFrame, Ids DEF Places, Windows
  <2> QED  BY <2>2, <2>3
<1>5. StackOK(h) /\ Len(h) = 2 /\ h[Len(h)] = g
  <2> HIDE DEF g
  <2>1. StackOK(h) /\ Len(h) = Len(stack) + 1 /\ h[Len(h)] = g
    BY <1>2, <1>4, PushFrame
  <2> QED  BY <2>1, <1>2 DEF Depth
<1>6. stack' = h /\ run_queue' = QRest(q)  BY DEF sys_exit
<1> HIDE DEF g, h, q
<1>7. run_queue' \in Seq(Created)  BY <1>3, <1>6, PopProperties
<1>8. elr' \in (Tasks \cup {NULL}) \X (0..MaxDepth) \X Places  BY <1>1, Ids DEF Places
<1>9. status' \in [Tasks -> {"DEAD", "READY"}]  BY <1>1, UpTypes
<1> QED  BY <1>1, <1>2, <1>4, <1>5, <1>6, <1>7, <1>8, <1>9, UpTypes, UpStep

LEMMA IdleCodeInv == IInv /\ IdleCode => IInv'
<1> SUFFICES ASSUME IInv, IdleCode PROVE IInv'
  OBVIOUS
<1>1. /\ Up /\ UNCHANGED <<phase, cur, stack, ctx, status, resched, run_queue, elr, timer>>
  BY DEF IdleCode, idle_task, idle_schedule, InTask
<1>2. task_id' \in [Tasks -> Tasks \cup {0}] /\ scan' \in 1..(PoolSize + 1)
  <2>1. CASE idle_task  BY <2>1 DEF idle_task, Reaped, IInv, TypeOK, Tasks
  <2>2. CASE idle_schedule  BY <2>2 DEF idle_schedule, IInv, TypeOK
  <2> QED  BY <2>1, <2>2 DEF IdleCode
<1>3. Depth' = Depth /\ Top' = Top /\ (Up' <=> Up) /\ ~Booting'
  BY <1>1, Ids DEF Depth, Top, Up, Booting
<1>4. TypeOK'  BY <1>1, <1>2, <1>3 DEF IInv, TypeOK
<1> QED
  BY <1>1, <1>3, <1>4 DEF IInv, BootOK, ContextsOK, CpuOK, EretOK, ReschedClear
-----------------------------------------------------------------------------
LEMMA StepInv == IInv /\ [Next]_vars => IInv'
<1> SUFFICES ASSUME IInv, [Next]_vars PROVE IInv'
  OBVIOUS
<1>1. CASE UNCHANGED vars
  BY <1>1 DEF vars, IInv, TypeOK, BootOK, ContextsOK, CpuOK, EretOK, ReschedClear,
              Booting, Up, Top, Depth
<1>2. CASE load_stale \/ eret_again
  BY <1>2, LostInv DEF load_stale, eret_again
<1> QED
  BY <1>1, <1>2, task_createInv, task_userInv, TimePassesInv, irq_handlerInv,
     save_contextInv, load_contextInv, set_currentInv, load_elrInv, load_registersInv,
     eretInv, IdleCodeInv, do_execInv, syscallInv, sys_exitInv
     DEF Next, KernelPath, switch_to, load_all

THEOREM InvariantHolds == Spec => []IInv
BY InitInv, StepInv, PTL DEF Spec

(***************************************************************************)
(* The scheduler's variables keep their types: in particular cur is always  *)
(* a created task, every stack keeps its bound, and the queue holds created *)
(* tasks only.                                                              *)
(***************************************************************************)
THEOREM TypeCorrect == Spec => []TypeOK
<1>1. IInv => TypeOK  BY DEF IInv
<1> QED  BY <1>1, InvariantHolds, PTL
-----------------------------------------------------------------------------
(***************************************************************************)
(* What holds when ticks keep their distance (Paced), for any number of     *)
(* workers, with exit.  A tick then finds its victim in its own code, so at *)
(* most one exception frame lies on a stack.  The exception is the exit: it *)
(* may come when the next tick is due already, and that tick is taken in    *)
(* the switch_to of sys_exit or in the return path of the task that it      *)
(* resumes, which is the idle task.  A return path that is hit between its  *)
(* msr and its eret spins and is interrupted there again and again, or the  *)
(* CPU is lost in it.                                                       *)
(***************************************************************************)
Exited  == status[User] = "DEAD"
Gone(t) == Exited /\ t = User

(* Where a tick interrupts a task: in its own code, in the return path that *)
(* it was resumed on, or, once it has exited, in its switch_to, before and  *)
(* behind mov sp.                                                           *)
Own(f)     == Len(f) = 1 /\ f[1].next = NULL
Inner(f)   == /\ Len(f) = 2 /\ f[1].next = NULL
              /\ f[2].pc \in {"return", "loading", "eret"} /\ f[2].next = NULL
Halfway(f) == /\ Len(f) = 2 /\ f[1].next = NULL
              /\ f[2].pc \in {"exit", "exiting"} /\ f[2].next = Idle
Marked(t)  == [ctx[t] EXCEPT ![Len(ctx[t])] = Frame(@.pc, t)]
Base(t, f) ==
  IF Gone(t) THEN Halfway(f) \/ (f = Marked(Idle) /\ Whole(ctx[Idle]) /\ Len(f) <= 2)
             ELSE Own(f) \/ (Exited /\ Inner(f))
Above(t, f) == Len(f) >= 2 /\ Base(t, Front(f))

(* A task that does not stand on the CPU has not run yet, or stands behind  *)
(* its switch_to; one that has left for good may be stale.                  *)
Left(f) == f = Stale \/ (Len(f) = 2 /\ f[1].next = NULL /\ f[2] = Frame("return", NULL))
OffShape(t) ==
  \/ ~Gone(t) /\ Own(Stack(t))
  \/ Gone(t) /\ Left(Stack(t))
  \/ Above(t, Stack(t)) /\ Stack(t)[Len(Stack(t))] = Frame("return", NULL)

(* A task that stands on the CPU.                                           *)
SwitchTop == Top.pc \in {"switch", "switching"} /\ Top.next \in Created \ {cur}
ReturnTop == \/ Top = Frame("return", NULL)
             \/ /\ Top.pc \in {"loading", "eret"} /\ Top.next = NULL
                /\ elr = <<cur, Depth - 1, stack[Depth - 1].pc>>
Spins     == /\ Exited /\ ~Gone(cur) /\ Inner(stack) /\ Top.pc # "return"
             /\ elr \in {<<cur, 2, "loading">>, <<cur, 2, "eret">>}
OnShape ==
  \/ ~Gone(cur) /\ Own(stack)
  \/ Gone(cur) /\ Halfway(stack)
  \/ Spins
  \/ Above(cur, stack) /\ (SwitchTop \/ ReturnTop)

Shapes == /\ \A t \in Created : t # cur \/ AtMsr => OffShape(t)
          /\ ~AtMsr => OnShape

(* Behind mov sp the CPU stands on the next task's stack.                   *)
AtMsrOK == AtMsr => stack = Marked(Top.next) /\ Top.next # cur

(* What lies in the context of the task on the CPU when it is needed: its   *)
(* place behind switch_to.                                                  *)
Intr    == Exited /\ \E i \in 1..(Len(Stack(User)) - 1) : Stack(User)[i].next = Idle
SavedOK == Top.pc = "switching" \/ (cur = User /\ Intr /\ ~AtMsr /\ Top.pc # "switch")
             => ctx[cur] = WithTop(Frame("return", NULL))
LeavesOK == Top.pc = "exiting" => Left(KeptContexts[cur])

(* Who is neither queued nor running: the exited program, or the task that  *)
(* it was switching to when it was interrupted.                             *)
Away     == IF ~Exited THEN {} ELSE IF Intr THEN {Idle} ELSE {User}
Statuses == \A t \in Created : /\ status[t] = "DEAD" => t = User
                               /\ task_id[t] = 0 => Gone(t) /\ Left(Stack(t)) /\ t # cur

QueueExact == /\ NoDuplicates(run_queue) /\ Running \notin Away
              /\ Intr => cur # Idle
              /\ \A t \in Created : Contains(run_queue, t) <=> t # Running /\ t \notin Away
CallerLast == Running # cur /\ cur \notin Away => Last(run_queue) = cur
InTurn == ~Exited => /\ Len(run_queue) = User - 1
                     /\ \A i \in 1..(User - 1) : run_queue[i] =
                          IF Running + i <= User THEN Running + i ELSE Running + i - User

(* The return paths that are hit, and the time between the exit and the     *)
(* next tick.                                                               *)
HitTask(t) == /\ Len(Stack(t)) >= 2 /\ Stack(t)[2].pc \in {"loading", "eret"}
              /\ Len(Stack(t)) = 2 => t = cur /\ elr[2] = 2
HitOnce == \A t, u \in Created : HitTask(t) /\ HitTask(u) => t = u
Fresh == /\ Exited /\ \A t \in Created : Len(Stack(t)) <= 2 /\ ~HitTask(t)
         /\ \/ cur = User /\ ~AtMsr /\ Halfway(stack)
            \/ cur \in {User, Idle} /\ Running = Idle /\ Left(Stack(User))
TimerOK == \/ timer = "rearmed" \/ (~AtMsr /\ Depth = 1)
           \/ (Exited /\ Spinning) \/ Fresh

SInv == /\ Up => /\ Shapes /\ AtMsrOK /\ SavedOK /\ LeavesOK /\ Statuses
                 /\ QueueExact /\ CallerLast /\ InTurn /\ HitOnce /\ TimerOK
        /\ Lost => Exited
-----------------------------------------------------------------------------
(* A stack without its top frame.                                           *)
LEMMA FrontOf ==
  ASSUME NEW f \in Seq(FrameSet), Len(f) >= 1
  PROVE  /\ Front(f) \in Seq(FrameSet) /\ Len(Front(f)) = Len(f) - 1
         /\ \A i \in 1..(Len(f) - 1) : Front(f)[i] = f[i]
<1>1. Len(f) \in Nat  BY LenProperties
<1>2. \A i \in 1..(Len(f) - 1) : f[i] \in FrameSet  BY <1>1, ElementOfSeq
<1> DEFINE n == Len(f) - 1
<1>3. n \in Int  BY <1>1
<1>4. /\ SubSeq(f, 1, n) \in Seq(FrameSet)
      /\ Len(SubSeq(f, 1, n)) = IF 1 <= n THEN n - 1 + 1 ELSE 0
      /\ \A i \in 1..(n - 1 + 1) : SubSeq(f, 1, n)[i] = f[1 + i - 1]
  BY <1>2, <1>3, SubSeqProperties
<1>5. Len(SubSeq(f, 1, n)) = n
  <2>1. n \in Int /\ n >= 0  BY <1>1
  <2> HIDE DEF n
  <2> QED  BY <2>1, <1>4
<1>6. ASSUME NEW i \in 1..n PROVE SubSeq(f, 1, n)[i] = f[i]
  <2>1. i \in 1..(n - 1 + 1) /\ 1 + i - 1 = i  BY <1>1
  <2> QED  BY <2>1, <1>4
<1> QED  BY <1>4, <1>5, <1>6 DEF Front

(* Two stacks that differ in the top frame only.                            *)
LEMMA SameFront ==
  ASSUME NEW f \in Seq(FrameSet), NEW h \in Seq(FrameSet), Len(f) >= 1, Len(h) = Len(f),
         \A i \in 1..(Len(f) - 1) : h[i] = f[i]
  PROVE  Front(h) = Front(f)
<1>1. /\ Front(f) \in Seq(FrameSet) /\ Len(Front(f)) = Len(f) - 1
      /\ \A i \in 1..(Len(f) - 1) : Front(f)[i] = f[i]
  BY FrontOf
<1>2. /\ Front(h) \in Seq(FrameSet) /\ Len(Front(h)) = Len(f) - 1
      /\ \A i \in 1..(Len(f) - 1) : Front(h)[i] = h[i]
  BY FrontOf
<1> QED  BY <1>1, <1>2, SeqEqual

(* A frame on top of a stack.                                               *)
LEMMA Pushed ==
  ASSUME NEW f \in Seq(FrameSet), NEW g \in FrameSet
  PROVE  LET h == Append(f, g)
         IN  /\ h \in Seq(FrameSet) /\ Len(h) = Len(f) + 1 /\ h[Len(f) + 1] = g
             /\ \A i \in 1..Len(f) : h[i] = f[i]
             /\ Front(h) = f /\ IsStrictPrefix(f, h)
<1> DEFINE h == Append(f, g)
<1>1. Len(f) \in Nat  BY LenProperties
<1>2. /\ h \in Seq(FrameSet) /\ Len(h) = Len(f) + 1 /\ h[Len(f) + 1] = g
      /\ \A i \in 1..Len(f) : h[i] = f[i]
  BY AppendProperties
<1> HIDE DEF h
<1>3. /\ Front(h) \in Seq(FrameSet) /\ Len(Front(h)) = Len(f)
      /\ \A i \in 1..Len(f) : Front(h)[i] = h[i]
  <2>1. Len(h) >= 1 /\ Len(h) - 1 = Len(f)  BY <1>1, <1>2
  <2> QED  BY <1>2, <2>1, FrontOf
<1>4. Front(h) = f  BY <1>2, <1>3, SeqEqual
<1>5. SubSeq(h, 1, Len(f)) = f
  <2>1. Len(h) - 1 = Len(f)  BY <1>1, <1>2
  <2> QED  BY <1>4, <2>1 DEF Front
<1>6. SubSeq(f, 1, Len(f)) = f
  <2> DEFINE s == SubSeq(f, 1, Len(f))
  <2>1. \A i \in 1..Len(f) : f[i] \in FrameSet  BY ElementOfSeq
  <2>2. /\ s \in Seq(FrameSet)
        /\ Len(s) = IF 1 <= Len(f) THEN Len(f) - 1 + 1 ELSE 0
        /\ \A i \in 1..(Len(f) - 1 + 1) : s[i] = f[1 + i - 1]
    BY <1>1, <2>1, SubSeqProperties
  <2> HIDE DEF s
  <2>3. Len(s) = Len(f)  BY <1>1, <2>2
  <2>4. ASSUME NEW i \in 1..Len(f) PROVE s[i] = f[i]
    <3>1. i \in 1..(Len(f) - 1 + 1) /\ 1 + i - 1 = i  BY <1>1
    <3> QED  BY <2>2, <3>1
  <2>5. s = f  BY <2>2, <2>3, <2>4, SeqEqual
  <2> QED  BY <2>5 DEF s
<1>7. IsStrictPrefix(f, h)
  <2>1. f # h  BY <1>1, <1>2
  <2> QED  BY <1>1, <1>2, <1>5, <1>6, <2>1 DEF IsStrictPrefix, IsPrefix
<1> QED  BY <1>2, <1>4, <1>7 DEF h

(* A prefix agrees with the whole.                                          *)
LEMMA PrefixAgrees ==
  ASSUME NEW f \in Seq(FrameSet), NEW h \in Seq(FrameSet), IsStrictPrefix(f, h), Len(f) >= 1
  PROVE  Len(f) \in 1..Len(h) /\ f[Len(f)] = h[Len(f)] /\ Len(f) < Len(h)
<1>1. Len(f) \in Nat /\ Len(h) \in Nat /\ Len(f) <= Len(h)
      /\ SubSeq(f, 1, Len(f)) = SubSeq(h, 1, Len(f)) /\ f # h
  BY LenProperties DEF IsStrictPrefix, IsPrefix
<1>2. ASSUME NEW s \in Seq(FrameSet), Len(f) <= Len(s)
      PROVE  \A i \in 1..Len(f) : SubSeq(s, 1, Len(f))[i] = s[i]
  <2>1. \A i \in 1..Len(f) : s[i] \in FrameSet  BY <1>1, <1>2, ElementOfSeq
  <2>2. \A i \in 1..(Len(f) - 1 + 1) : SubSeq(s, 1, Len(f))[i] = s[1 + i - 1]
    BY <1>1, <2>1, SubSeqProperties
  <2>3. ASSUME NEW i \in 1..Len(f) PROVE SubSeq(s, 1, Len(f))[i] = s[i]
    <3>1. i \in 1..(Len(f) - 1 + 1) /\ 1 + i - 1 = i  BY <1>1
    <3> QED  BY <2>2, <3>1
  <2> QED  BY <2>3
<1>3. \A i \in 1..Len(f) : f[i] = h[i]
  <2>1. \A i \in 1..Len(f) : SubSeq(f, 1, Len(f))[i] = f[i]  BY <1>2
  <2>2. \A i \in 1..Len(f) : SubSeq(h, 1, Len(f))[i] = h[i]  BY <1>1, <1>2
  <2> QED  BY <2>1, <2>2, <1>1
<1>4. Len(f) # Len(h)
  <2>1. SUFFICES ASSUME Len(f) = Len(h) PROVE FALSE  OBVIOUS
  <2>2. f = h  BY <1>3, <2>1, SeqEqual
  <2> QED  BY <2>2, <1>1
<1> QED  BY <1>1, <1>3, <1>4
-----------------------------------------------------------------------------
(* The facts about stacks that all steps start from.                        *)
LEMMA StackTypes ==
  ASSUME IInv, Up, NEW t \in Created
  PROVE  /\ Stack(t) \in Seq(FrameSet) /\ Len(Stack(t)) \in Nat
         /\ Stack(t) = Stale \/ StackOK(Stack(t))
         /\ t # cur => Stack(t) = ctx[t] /\ CtxOK(Stack(t))
<1>1. t \in Tasks /\ StackOK(stack) /\ stack \in Seq(FrameSet)  BY CurrentStack, Ids
<1>2. /\ ctx[t] \in Seq(FrameSet) /\ CtxOK(ctx[t])
      /\ KeptContexts[t] \in Seq(FrameSet) /\ CtxOK(KeptContexts[t])
  BY <1>1, UpTypes, Kept
<1>3. /\ Stack(t) \in Seq(FrameSet)
      /\ Stack(t) = Stale \/ StackOK(Stack(t))
      /\ t # cur => Stack(t) = ctx[t] /\ CtxOK(Stack(t))
  BY <1>1, <1>2 DEF Stack, CtxOK, Whole
<1> QED  BY <1>3, LenProperties

LEMMA MarkedFacts ==
  ASSUME NEW t \in Created, Whole(ctx[t])
  PROVE  /\ StackOK(Marked(t)) /\ Marked(t) \in Seq(FrameSet) /\ Len(Marked(t)) = Len(ctx[t])
         /\ Marked(t)[Len(ctx[t])] = Frame(ctx[t][Len(ctx[t])].pc, t)
         /\ \A i \in 1..(Len(ctx[t]) - 1) : Marked(t)[i] = ctx[t][i]
<1>1. PICK f : f = ctx[t]  OBVIOUS
<1>2. StackOK(f) /\ f[Len(f)].pc \in {"kernel", "return"}  BY <1>1 DEF Whole
<1>3. PICK g : g = Frame(f[Len(f)].pc, t) /\ FrameOK(g) /\ g.pc = f[Len(f)].pc
  BY <1>2, NewFrame DEF Places, Windows
<1>4. g.pc \in {"kernel", "user"} <=> f[Len(f)].pc \in {"kernel", "user"}  BY <1>3
<1> DEFINE h == [f EXCEPT ![Len(f)] = g]
<1>5. /\ StackOK(h) /\ Len(h) = Len(f) /\ h[Len(h)] = g
      /\ \A i \in 1..(Len(f) - 1) : h[i] = f[i]
  <2>1. FrameOK(g) /\ StackOK(f)  BY <1>2, <1>3
  <2> QED  BY ONLY <2>1, <1>4, ReplaceTop
<1>6. h = Marked(t)  BY <1>1, <1>3 DEF Marked
<1> HIDE DEF h
<1> QED  BY <1>1, <1>3, <1>5, <1>6 DEF StackOK

(* Where a program that has exited is interrupted.                          *)
LEMMA GoneBase ==
  ASSUME NEW f, Exited, Base(User, f)
  PROVE  /\ Len(f) \in {1, 2} /\ f[Len(f)].next = Idle
         /\ Len(f) = 2 => f[2].pc \in {"exit", "exiting", "return"}
<1>1. CASE Halfway(f)  BY <1>1 DEF Halfway
<1>2. CASE f = Marked(Idle) /\ Whole(ctx[Idle]) /\ Len(f) <= 2
  <2>1. /\ Len(f) = Len(ctx[Idle]) /\ f[Len(f)] = Frame(ctx[Idle][Len(ctx[Idle])].pc, Idle)
        /\ StackOK(f) /\ ctx[Idle][Len(ctx[Idle])].pc \in {"kernel", "return"}
    BY <1>2, MarkedFacts, Ids DEF Whole
  <2>2. PICK n : n = Len(f)  OBVIOUS
  <2>3. n \in Nat /\ n >= 1 /\ n <= 2  BY <1>2, <2>1, <2>2, TopFrame
  <2>4. f[n].pc \in {"kernel", "return"} /\ f[n].next = Idle  BY <2>1, <2>2 DEF Frame
  <2>5. f[Len(f)].pc \in {"kernel", "user"} <=> Len(f) = 1  BY <2>1, TopFrame
  <2> QED  BY <2>2, <2>3, <2>4, <2>5
<1> QED  BY <1>1, <1>2 DEF Base, Gone

LEMMA GoneAbove ==
  ASSUME IInv, Up, Exited, Above(User, Stack(User))
  PROVE  Intr /\ Len(Stack(User)) \in {2, 3} /\ ~Left(Stack(User))
<1>1. PICK f : f = Stack(User) /\ f \in Seq(FrameSet) /\ Len(f) \in Nat
  BY StackTypes, Ids
<1>2. Len(f) >= 2 /\ Base(User, Front(f))  BY <1>1 DEF Above
<1>3. /\ Len(Front(f)) = Len(f) - 1
      /\ \A i \in 1..(Len(f) - 1) : Front(f)[i] = f[i]
  BY <1>1, <1>2, FrontOf
<1>4. Len(Front(f)) \in {1, 2} /\ Front(f)[Len(Front(f))].next = Idle
  BY <1>2, GoneBase
<1>5. Len(f) \in {2, 3} /\ f[Len(f) - 1].next = Idle  BY <1>1, <1>2, <1>3, <1>4
<1>6. Len(f) - 1 \in 1..(Len(f) - 1)  BY <1>5
<1>7. ~Left(f)
  <2>1. f # Stale  BY <1>2, EmptySeq DEF Stale
  <2>2. Len(f) = 2 => f[1].next = Idle  BY <1>5
  <2> QED  BY <2>1, <2>2, Ids DEF Left
<1> QED  BY <1>1, <1>5, <1>6, <1>7 DEF Intr

LEMMA GoneAboveNext ==
  (IInv /\ Up /\ Exited /\ Above(User, Stack(User)))'
    => (Intr /\ Len(Stack(User)) \in {2, 3} /\ ~Left(Stack(User)))'
<1>1. IInv /\ Up /\ Exited /\ Above(User, Stack(User))
        => Intr /\ Len(Stack(User)) \in {2, 3} /\ ~Left(Stack(User))
  BY GoneAbove
<1> QED  BY <1>1, PTL

LEMMA LeftFacts ==
  ASSUME Left(Stack(User))
  PROVE  ~Intr /\ Len(Stack(User)) <= 2 /\ ~HitTask(User)
<1>1. PICK f : f = Stack(User)  OBVIOUS
<1>2. CASE f = Stale
  <2>1. Len(f) = 0  BY <1>2, EmptySeq DEF Stale
  <2> QED  BY <1>1, <2>1 DEF Intr, HitTask
<1>3. CASE Len(f) = 2 /\ f[1].next = NULL /\ f[2] = Frame("return", NULL)
  BY <1>1, <1>3, Ids DEF Intr, HitTask, Frame
<1> QED  BY <1>1, <1>2, <1>3 DEF Left

LEMMA LeftFactsNext ==
  Left(Stack(User))' => (~Intr /\ Len(Stack(User)) <= 2 /\ ~HitTask(User))'
<1>1. Left(Stack(User)) => ~Intr /\ Len(Stack(User)) <= 2 /\ ~HitTask(User)
  BY LeftFacts
<1> QED  BY <1>1, PTL

LEMMA KeptNext ==
  (IInv /\ Up)' => /\ (KeptContexts[cur] = IF NestedSave THEN Stale ELSE ctx[cur])'
                   /\ (\A t \in Tasks : t # cur => KeptContexts[t] = ctx[t])'
<1>1. IInv /\ Up => /\ KeptContexts[cur] = IF NestedSave THEN Stale ELSE ctx[cur]
                    /\ \A t \in Tasks : t # cur => KeptContexts[t] = ctx[t]
  BY Kept
<1> QED  BY <1>1, PTL

LEMMA CurrentNext ==
  (IInv /\ Up)' => /\ (FrameOK(Top))'
                   /\ (Top.pc \in {"kernel", "user"} <=> Depth = 1)'
<1>1. IInv /\ Up => FrameOK(Top) /\ (Top.pc \in {"kernel", "user"} <=> Depth = 1)
  BY CurrentStack
<1> QED  BY <1>1, PTL

(* A task that is not gone stands as follows.                               *)
LEMMA AboveFacts ==
  ASSUME NEW t, NEW f \in Seq(FrameSet), ~Gone(t), Above(t, f)
  PROVE  /\ Len(f) \in {2, 3} /\ f[1].next = NULL
         /\ Len(f) = 3 => Exited /\ f[2].next = NULL /\ f[2].pc \in {"return", "loading", "eret"}
<1>1. Len(f) \in Nat /\ Len(f) >= 2 /\ (Own(Front(f)) \/ (Exited /\ Inner(Front(f))))
  BY LenProperties DEF Above, Base
<1>2. /\ Len(Front(f)) = Len(f) - 1
      /\ \A i \in 1..(Len(f) - 1) : Front(f)[i] = f[i]
  BY <1>1, FrontOf
<1> QED  BY <1>1, <1>2 DEF Own, Inner

LEMMA OffFacts ==
  ASSUME IInv, Up, NEW t \in Created, OffShape(t), ~Gone(t)
  PROVE  /\ Stack(t) # Stale /\ Len(Stack(t)) \in {1, 2, 3}
         /\ \A i \in 1..Len(Stack(t)) : Stack(t)[i].next = NULL
         /\ Len(Stack(t)) = 3 => Exited
         /\ Len(Stack(t)) # 1 => Stack(t)[Len(Stack(t))] = Frame("return", NULL)
<1>1. PICK f : f = Stack(t) /\ f \in Seq(FrameSet) /\ Len(f) \in Nat  BY StackTypes
<1>2. Own(f) \/ (Above(t, f) /\ f[Len(f)] = Frame("return", NULL))
  BY <1>1 DEF OffShape
<1>3. CASE Own(f)  BY <1>1, <1>3, EmptySeq DEF Own, Stale
<1>4. CASE Above(t, f) /\ f[Len(f)] = Frame("return", NULL)
  <2>1. /\ Len(f) \in {2, 3} /\ f[1].next = NULL /\ (Len(f) = 3 => Exited)
        /\ Len(f) = 3 => f[2].next = NULL
    BY <1>1, <1>4, AboveFacts
  <2>2. f[Len(f)].next = NULL  BY <1>4 DEF Frame
  <2>3. \A i \in 1..Len(f) : f[i].next = NULL  BY <2>1, <2>2
  <2> QED  BY <1>1, <1>4, <2>1, <2>3, EmptySeq DEF Stale
<1> QED  BY <1>1, <1>2, <1>3, <1>4

(* The task on the CPU, when it is not gone.                                *)
LEMMA OnFacts ==
  ASSUME IInv, SInv, Up, ~AtMsr, ~Gone(cur)
  PROVE  /\ Stack(cur) = stack /\ Depth \in {1, 2, 3} /\ stack[1].next = NULL
         /\ Depth = 1 => Own(stack) /\ Top.next = NULL /\ Top.pc \in {"kernel", "user"}
         /\ Depth = 3 => Exited /\ stack[2].next = NULL
                                /\ stack[2].pc \in {"return", "loading", "eret"}
         /\ Depth # 1 => \/ Spins
                         \/ Above(cur, stack) /\ (SwitchTop \/ ReturnTop)
<1>1. stack \in Seq(FrameSet) /\ Depth = Len(stack) /\ Depth \in Nat  BY CurrentStack DEF Depth
<1>2. Own(stack) \/ Spins \/ (Above(cur, stack) /\ (SwitchTop \/ ReturnTop))
  BY DEF SInv, Shapes, OnShape
<1>3. Stack(cur) = stack  BY DEF Stack
<1>4. CASE Own(stack)
  <2>1. Depth = 1 /\ Top = stack[1] /\ Top.next = NULL  BY <1>1, <1>4 DEF Own, Top
  <2> QED  BY <1>3, <1>4, <2>1, CurrentStack
<1>5. CASE Spins  BY <1>1, <1>3, <1>5 DEF Spins, Inner
<1>6. CASE Above(cur, stack) /\ (SwitchTop \/ ReturnTop)
  <2>1. /\ Depth \in {2, 3} /\ stack[1].next = NULL
        /\ Depth = 3 => Exited /\ stack[2].next = NULL
                               /\ stack[2].pc \in {"return", "loading", "eret"}
    BY <1>1, <1>6, AboveFacts
  <2> QED  BY <1>3, <1>6, <2>1
<1> QED  BY <1>2, <1>4, <1>5, <1>6

(* The program that has exited, while it stands on the CPU.                 *)
LEMMA OnGone ==
  ASSUME IInv, SInv, Up, ~AtMsr, Gone(cur)
  PROVE  /\ Stack(cur) = stack /\ Depth \in {2, 3} /\ cur = User /\ Exited
         /\ \/ /\ Halfway(stack) /\ Top.pc \in {"exit", "exiting"} /\ Top.next = Idle
               /\ Running = Idle /\ ~Intr /\ Away = {User}
            \/ /\ Above(cur, stack) /\ (SwitchTop \/ ReturnTop)
               /\ Intr /\ Away = {Idle}
<1>1. stack \in Seq(FrameSet) /\ Depth = Len(stack) /\ Depth \in Nat  BY CurrentStack DEF Depth
<1>2. Halfway(stack) \/ (Above(cur, stack) /\ (SwitchTop \/ ReturnTop))
  BY DEF SInv, Shapes, OnShape, Spins
<1>3. Stack(cur) = stack /\ cur = User /\ Exited  BY DEF Stack, Gone
<1>4. CASE Halfway(stack)
  <2>1. /\ Depth = 2 /\ Top.pc \in {"exit", "exiting"} /\ Top.next = Idle
        /\ stack[1].next = NULL
    BY <1>1, <1>4 DEF Halfway, Top
  <2>2. Running = Idle  BY <2>1, Ids DEF Running
  <2>3. Len(Stack(User)) = 2 /\ Stack(User)[1].next # Idle  BY <1>1, <1>3, <2>1, Ids
  <2>4. ~Intr  BY <2>3 DEF Intr
  <2> QED  BY <1>3, <1>4, <2>1, <2>2, <2>4 DEF Away
<1>5. CASE Above(cur, stack) /\ (SwitchTop \/ ReturnTop)
  <2>1. Intr /\ Len(Stack(User)) \in {2, 3}  BY <1>3, <1>5, GoneAbove
  <2> QED  BY <1>1, <1>3, <1>5, <2>1 DEF Away
<1> QED  BY <1>2, <1>4, <1>5

(* Behind mov sp: the stack is that of the next task.                       *)
LEMMA AtMsrFacts ==
  ASSUME IInv, SInv, Up, AtMsr
  PROVE  /\ Top.next \in Created /\ Running = Top.next /\ Top.next # cur
         /\ stack = Marked(Top.next) /\ Whole(ctx[Top.next])
         /\ Stack(Top.next) = ctx[Top.next] /\ OffShape(Top.next)
         /\ Gone(Top.next) => Intr /\ Above(User, Stack(User))
         /\ Top.pc \in {"kernel", "return"} /\ Depth = Len(ctx[Top.next])
         /\ OffShape(cur) /\ Stack(cur) = KeptContexts[cur]
<1>1. /\ Top.next \in Created /\ Running = Top.next /\ Top.next # cur
      /\ stack = Marked(Top.next) /\ cur \in Created
  BY CurrentStack DEF SInv, AtMsrOK, Running, AtMsr
<1>2. PICK n \in Created : n = Top.next /\ n # cur  BY <1>1
<1>3. OffShape(n) /\ OffShape(cur)  BY <1>1, <1>2 DEF SInv, Shapes
<1>4. Stack(n) = ctx[n] /\ CtxOK(ctx[n])  BY <1>2, StackTypes
<1>5. n \notin Away  BY <1>1, <1>2 DEF SInv, QueueExact
<1>6. ASSUME Gone(n) PROVE n = User /\ Intr /\ Above(User, Stack(User)) /\ ~Left(Stack(User))
  <2>1. n = User /\ Exited  BY <1>6 DEF Gone
  <2>2. Intr  BY <1>5, <2>1 DEF Away
  <2>3. ~Left(Stack(User))  BY <2>2, LeftFacts
  <2> QED  BY <1>3, <2>1, <2>2, <2>3 DEF OffShape, Gone
<1>7. Whole(ctx[n])
  <2>1. CASE Gone(n)  BY <1>4, <1>6, <2>1 DEF CtxOK, Left
  <2>2. CASE ~Gone(n)  BY <1>3, <1>4, <2>2, OffFacts DEF CtxOK
  <2> QED  BY <2>1, <2>2
<1>8. /\ Len(stack) = Len(ctx[n]) /\ StackOK(stack)
      /\ stack[Len(ctx[n])] = Frame(ctx[n][Len(ctx[n])].pc, n)
  BY <1>1, <1>2, <1>7, MarkedFacts
<1>9. Top.pc \in {"kernel", "return"} /\ Depth = Len(ctx[n])
  BY <1>7, <1>8 DEF Top, Depth, Frame, Whole
<1> QED  BY <1>1, <1>2, <1>3, <1>4, <1>6, <1>7, <1>9 DEF Stack
-----------------------------------------------------------------------------
(***************************************************************************)
(* What a step of the task on the CPU leaves alone.                         *)
(***************************************************************************)
LEMMA Others ==
  ASSUME IInv, SInv, Up, cur' = cur, status' = status,
         \A u \in Created : u # cur => ctx'[u] = ctx[u],
         NEW t \in Created, t # cur
  PROVE  /\ Stack(t)' = Stack(t) /\ OffShape(t) /\ OffShape(t)'
         /\ HitTask(t)' <=> HitTask(t)
<1>1. Stack(t)' = Stack(t) /\ Stack(t) = ctx[t]  BY DEF Stack
<1>2. OffShape(t)  BY DEF SInv, Shapes
<1>3. HitTask(t)' <=> HitTask(t)
  <2>1. HitTask(t) <=> Len(Stack(t)) >= 2 /\ Stack(t)[2].pc \in {"loading", "eret"}
                       /\ Len(Stack(t)) # 2
    BY DEF HitTask
  <2>2. HitTask(t)' <=> Len(Stack(t)') >= 2 /\ Stack(t)'[2].pc \in {"loading", "eret"}
                        /\ Len(Stack(t)') # 2
    BY DEF HitTask
  <2> QED  BY <1>1, <2>1, <2>2
<1>4. OffShape(t)'
  <2>1. Gone(t)' <=> Gone(t)  BY DEF Gone, Exited
  <2>2. CASE ~Gone(t)
    <3>1. Above(t, Stack(t)) => Above(t, Stack(t))'
      BY <1>1, <2>1, <2>2 DEF Above, Base, Own, Inner, Exited
    <3> QED  BY <1>1, <1>2, <2>1, <2>2, <3>1 DEF OffShape, Own
  <2>3. CASE Gone(t)
    <3>1. t = User /\ Exited  BY <2>3 DEF Gone
    <3>2. CASE Left(Stack(t))  BY <1>1, <2>1, <2>3, <3>2 DEF OffShape, Left
    <3>3. CASE ~Left(Stack(t))
      <4>1. Above(t, Stack(t)) /\ Stack(t)[Len(Stack(t))] = Frame("return", NULL)
        BY <1>2, <2>3, <3>3 DEF OffShape
      <4>2. cur # Idle  BY <3>1, <4>1, GoneAbove DEF SInv, QueueExact
      <4>3. ctx'[Idle] = ctx[Idle]  BY <4>2, Ids
      <4>4. Marked(Idle)' = Marked(Idle)  BY <4>3 DEF Marked
      <4>5. Above(t, Stack(t))'
        BY <1>1, <2>1, <2>3, <4>1, <4>3, <4>4 DEF Above, Base, Halfway
      <4> QED  BY <1>1, <4>1, <4>5 DEF OffShape
    <3> QED  BY <3>2, <3>3
  <2> QED  BY <2>2, <2>3
<1> QED  BY <1>1, <1>2, <1>3, <1>4

LEMMA ExitedKept ==
  ASSUME IInv, SInv, Up, cur' = cur, status' = status,
         \A u \in Created : u # cur => ctx'[u] = ctx[u],
         cur = User => (Intr' <=> Intr)
  PROVE  (Exited' <=> Exited) /\ (Intr' <=> Intr) /\ Away' = Away
         /\ \A t : Gone(t)' <=> Gone(t)
<1>1. Exited' <=> Exited  BY DEF Exited
<1>2. CASE cur # User
  <2>1. Stack(User)' = Stack(User)  BY <1>2, Ids, Others
  <2> QED  BY <1>1, <2>1 DEF Intr, Away, Gone
<1> QED  BY <1>1, <1>2 DEF Away, Gone

(* A step in the middle of a turn.                                          *)
LEMMA SameTurn ==
  ASSUME IInv, SInv, Up, Up', ~AtMsr, ~AtMsr', cur' = cur, status' = status,
         run_queue' = run_queue, \A u \in Created : u # cur => ctx'[u] = ctx[u],
         OnShape', SavedOK', LeavesOK', Statuses', TimerOK',
         Running' = Running, cur = User => (Intr' <=> Intr), HitTask(cur)' => HitTask(cur)
  PROVE  SInv'
<1>1. ~Lost'  BY Ids DEF Up, Lost
<1>2. (Exited' <=> Exited) /\ (Intr' <=> Intr) /\ Away' = Away  BY ExitedKept
<1>3. Shapes' /\ AtMsrOK'
  <2>1. ASSUME NEW t \in Created, t # cur' \/ AtMsr' PROVE OffShape(t)'
    BY <2>1, Others
  <2> QED  BY <2>1 DEF Shapes, AtMsrOK
<1>4. QueueExact' /\ CallerLast' /\ InTurn'
  <2>1. QueueExact /\ CallerLast /\ InTurn  BY DEF SInv
  <2> QED  BY <1>2, <2>1 DEF QueueExact, CallerLast, InTurn
<1>5. HitOnce'
  <2>1. ASSUME NEW t \in Created, HitTask(t)' PROVE HitTask(t)
    <3>1. CASE t = cur  BY <2>1, <3>1
    <3>2. CASE t # cur  BY <2>1, <3>2, Others
    <3> QED  BY <3>1, <3>2
  <2> QED  BY <2>1 DEF SInv, HitOnce
<1> QED  BY <1>1, <1>3, <1>4, <1>5 DEF SInv

(* Nothing happens to the pool slots.                                       *)
LEMMA StatusesKept ==
  ASSUME IInv, SInv, Up, cur' = cur, status' = status, task_id' = task_id,
         \A u \in Created : u # cur => ctx'[u] = ctx[u]
  PROVE  Statuses'
<1> SUFFICES ASSUME NEW t \in Created
             PROVE  /\ status'[t] = "DEAD" => t = User
                    /\ task_id'[t] = 0 => Gone(t)' /\ Left(Stack(t))' /\ t # cur'
  BY DEF Statuses
<1>1. Statuses  BY DEF SInv
<1>2. CASE task_id[t] = 0
  <2>1. Gone(t) /\ Left(Stack(t)) /\ t # cur  BY <1>1, <1>2 DEF Statuses
  <2>2. Stack(t)' = Stack(t)  BY <2>1, Others
  <2> QED  BY <1>1, <2>1, <2>2 DEF Statuses, Gone, Exited, Left
<1> QED  BY <1>1, <1>2 DEF Statuses

(* The frame on top of the CPU's stack is replaced.                         *)
LEMMA TopChange ==
  ASSUME IInv, Up, Depth # 1, NEW p \in Places \ {"kernel", "user"},
         NEW n \in Created \cup {NULL}, p \in Windows => n # NULL,
         stack' = WithTop(Frame(p, n))
  PROVE  /\ Depth' = Depth /\ Top' = Frame(p, n) /\ Top'.pc = p /\ Top'.next = n
         /\ stack' \in Seq(FrameSet) /\ Len(stack') = Len(stack) /\ Len(stack) = Depth
         /\ stack'[Depth] = Frame(p, n)
         /\ Front(stack') = Front(stack)
         /\ \A i \in 1..(Depth - 1) : stack'[i] = stack[i]
         /\ \A r : [stack' EXCEPT ![Depth'] = r] = WithTop(r)
<1>1. PICK g : g = Frame(p, n) /\ FrameOK(g) /\ g.pc = p /\ g.next = n  BY NewFrame
<1>2. /\ stack' \in Seq(FrameSet) /\ Len(stack') = Depth /\ stack'[Depth] = g
      /\ \A i \in 1..(Depth - 1) : stack'[i] = stack[i]
  BY <1>1, NewTop, CurrentStack
<1>3. Depth' = Depth /\ Top' = g  BY <1>2 DEF Depth, Top
<1>4. stack \in Seq(FrameSet) /\ Len(stack) = Depth /\ Depth >= 1  BY CurrentStack DEF Depth
<1>5. Front(stack') = Front(stack)
  <2>1. PICK f, h : f = stack /\ h = stack'  OBVIOUS
  <2>2. Front(h) = Front(f)  BY <2>1, <1>2, <1>4, SameFront
  <2> QED  BY <2>1, <2>2
<1>6. ASSUME NEW r PROVE [stack' EXCEPT ![Depth'] = r] = WithTop(r)
  BY <1>1, <1>3, <1>4 DEF WithTop
<1> QED  BY <1>1, <1>2, <1>3, <1>4, <1>5, <1>6
-----------------------------------------------------------------------------
(***************************************************************************)
(* When the tick may come, the task on the CPU stands where a task can be   *)
(* interrupted.                                                             *)
(***************************************************************************)
LEMMA Armed ==
  ASSUME IInv, SInv, Up, timer = "armed"
  PROVE  /\ Base(cur, stack)
         /\ ~Gone(cur) => /\ ~AtMsr /\ Running = cur /\ (Depth = 1 \/ Inner(stack))
                          /\ Depth # 1 => Exited /\ (HitTask(cur) \/ (Fresh /\ cur = Idle))
         /\ Gone(cur)  => Fresh /\ Running = Idle /\ ~Intr /\ (AtMsr \/ Halfway(stack))
<1>1. (~AtMsr /\ Depth = 1) \/ (Exited /\ Spinning) \/ Fresh  BY DEF SInv, TimerOK
<1>2. stack \in Seq(FrameSet) /\ Depth = Len(stack) /\ Depth \in Nat
  BY CurrentStack DEF Depth
<1>3. CASE ~AtMsr /\ Depth = 1
  <2>1. ~Gone(cur)  BY <1>3, OnGone
  <2>2. Own(stack) /\ Top.next = NULL  BY <1>3, <2>1, OnFacts
  <2> QED  BY <1>3, <2>1, <2>2 DEF Base, Running
<1>4. CASE Exited /\ Spinning
  <2>1. Top.pc = "eret" /\ elr = <<cur, Depth, "eret">>  BY <1>4 DEF Spinning
  <2>2. ~AtMsr  BY <2>1, AtMsrFacts
  <2>3. ~SwitchTop /\ ~ReturnTop
    BY <2>1, <1>2 DEF SwitchTop, ReturnTop, Frame
  <2>4. ~Gone(cur)  BY <2>1, <2>2, <2>3, OnGone
  <2>5. Depth # 1  BY <2>1, CurrentStack
  <2>6. Spins  BY <2>2, <2>3, <2>4, <2>5, OnFacts
  <2>7. Inner(stack) /\ Depth = 2 /\ stack[2] = Top /\ Top.next = NULL
    BY <2>6, <1>2 DEF Spins, Inner, Top
  <2>8. HitTask(cur)
    <3>1. Stack(cur) = stack /\ elr[2] = 2  BY <2>1, <2>2, <2>4, <2>7, OnFacts
    <3>2. Len(stack) = 2 /\ stack[2].pc = "eret"  BY <1>2, <2>1, <2>7
    <3> QED  BY <3>1, <3>2 DEF HitTask
  <2> QED  BY <1>4, <2>2, <2>4, <2>7, <2>8 DEF Base, Running
<1>5. CASE Fresh
  <2>1. Exited  BY <1>5 DEF Fresh
  <2>2. CASE cur = User /\ ~AtMsr /\ Halfway(stack)
    <3>1. Gone(cur)  BY <2>1, <2>2 DEF Gone
    <3>2. Depth = 2 /\ Top.pc \in {"exit", "exiting"}  BY <1>2, <2>2 DEF Halfway, Top
    <3>3. Running = Idle /\ ~Intr
      BY <2>2, <3>1, <3>2, OnGone DEF SwitchTop, ReturnTop, Frame
    <3> QED  BY <1>5, <2>2, <3>1, <3>3 DEF Base
  <2>3. CASE cur \in {User, Idle} /\ Running = Idle /\ Left(Stack(User))
    <3>1. ~Intr  BY <2>3, LeftFacts
    <3>2. CASE cur = User
      <4>1. Gone(cur)  BY <2>1, <3>2 DEF Gone
      <4>2. CASE AtMsr
        <5>1. Top.next = Idle /\ stack = Marked(Idle) /\ Whole(ctx[Idle])
              /\ Depth = Len(Stack(Idle))
          BY <2>3, <4>2, AtMsrFacts
        <5>2. Len(stack) <= 2  BY <1>2, <1>5, <5>1, Ids DEF Fresh
        <5> QED  BY <1>5, <2>3, <3>1, <4>1, <4>2, <5>1, <5>2 DEF Base
      <4>3. CASE ~AtMsr
        <5>1. Halfway(stack)  BY <3>1, <4>1, <4>3, OnGone
        <5> QED  BY <1>5, <2>3, <3>1, <4>1, <5>1 DEF Base
      <4> QED  BY <4>2, <4>3
    <3>3. CASE cur = Idle
      <4>1. ~Gone(cur)  BY <3>3, Ids DEF Gone
      <4>2. ~AtMsr  BY <2>3, <3>3, AtMsrFacts
      <4>3. Depth <= 2 /\ ~HitTask(cur)
        BY <1>2, <1>5, <3>3, <4>1, <4>2, OnFacts, Ids DEF Fresh
      <4>4. CASE Depth = 1
        BY <1>5, <2>3, <3>3, <4>1, <4>2, <4>4, OnFacts DEF Base
      <4>5. CASE Depth # 1
        <5>1. Depth = 2 /\ Stack(cur) = stack /\ stack[2] = Top /\ stack[1].next = NULL
          BY <1>2, <4>1, <4>2, <4>3, <4>5, OnFacts DEF Top
        <5>2. ~Spins
          <6>1. Spins => Top.pc \in {"loading", "eret"} /\ elr[2] = 2
            BY <5>1 DEF Spins, Inner
          <6> QED  BY <1>2, <4>3, <5>1, <6>1 DEF HitTask
        <5>3. ~SwitchTop  BY <2>3, <3>3, Ids DEF SwitchTop, Running
        <5>4. ReturnTop  BY <4>1, <4>2, <5>1, <5>2, <5>3, OnFacts
        <5>5. Inner(stack)  BY <1>2, <5>1, <5>4 DEF ReturnTop, Frame, Inner
        <5> QED  BY <1>5, <2>1, <2>3, <3>3, <4>1, <4>2, <5>5 DEF Base
      <4> QED  BY <4>4, <4>5
    <3> QED  BY <2>3, <3>2, <3>3
  <2> QED  BY <1>5, <2>2, <2>3 DEF Fresh
<1> QED  BY <1>1, <1>3, <1>4, <1>5
-----------------------------------------------------------------------------
(* The steps of the interrupt path.                                         *)
LEMMA TimePassesS ==
  ASSUME Paced, IInv, SInv, TimePasses
  PROVE  SInv'
<1>1. /\ Up /\ Up' /\ timer' = "armed" /\ ((Depth = 1 /\ ~AtMsr) \/ Spinning)
      /\ UNCHANGED <<phase, cur, stack, ctx, task_id, status, resched, run_queue, elr, scan>>
  BY DEF TimePasses, Up
<1>2. /\ Depth' = Depth /\ Top' = Top /\ (AtMsr' <=> AtMsr) /\ Running' = Running
      /\ KeptContexts' = KeptContexts
  BY <1>1 DEF Depth, Top, AtMsr, Running, KeptContexts, NestedSave
<1>3. ~AtMsr
  <2>1. Spinning => Top.pc = "eret"  BY DEF Spinning
  <2> QED  BY <1>1, <2>1, AtMsrFacts
<1>4. (Spinning' <=> Spinning) /\ (Spinning => Exited)
  <2>1. Spinning' <=> Spinning  BY <1>1, <1>2 DEF Spinning
  <2>2. ASSUME Spinning PROVE Exited
    <3>1. Depth # 1 /\ ~ReturnTop /\ ~SwitchTop
      BY <2>2, <1>1, CurrentStack DEF Spinning, SwitchTop, ReturnTop, Frame
    <3>2. CASE Gone(cur)  BY <3>2 DEF Gone
    <3>3. CASE ~Gone(cur)  BY <1>1, <1>3, <3>1, <3>3, OnFacts DEF Spins
    <3> QED  BY <3>2, <3>3
  <2> QED  BY <2>1, <2>2
<1>5. TimerOK'  BY <1>1, <1>2, <1>3, <1>4 DEF TimerOK, Exited
<1>6. \A t : Stack(t)' = Stack(t)  BY <1>1, <1>2 DEF Stack
<1>7. OnShape' /\ SavedOK' /\ LeavesOK' /\ (Intr' <=> Intr) /\ (HitTask(cur)' => HitTask(cur))
  <2>1. OnShape  BY <1>1, <1>3 DEF SInv, Shapes
  <2>2. OnShape'
    BY <2>1, <1>1, <1>2 DEF OnShape, Gone, Exited, Own, Halfway, Spins, Inner, Above, Base,
                            Marked, SwitchTop, ReturnTop
  <2>3. Intr' <=> Intr  BY <1>1, <1>6 DEF Intr, Exited
  <2>4. SavedOK'  BY <1>1, <1>2, <2>3 DEF SInv, SavedOK, WithTop
  <2>5. LeavesOK'  BY <1>1, <1>2 DEF SInv, LeavesOK, Left
  <2> QED  BY <2>2, <2>3, <2>4, <2>5, <1>1, <1>6 DEF HitTask
<1>8. Statuses'  BY <1>1, StatusesKept
<1> QED  BY <1>1, <1>2, <1>3, <1>5, <1>7, <1>8, SameTurn

(* Somebody is queued.                                                      *)
LEMMA NextTask ==
  ASSUME IInv, SInv, Up
  PROVE  run_queue # <<>>
<1>1. PICK t \in Created : t # Running /\ t \notin Away
  <2>1. {1, 2, 3} \subseteq Created  BY Ids DEF Created
  <2>2. Away = {} \/ Away = {Idle} \/ Away = {User}  BY DEF Away
  <2>3. 1 \in Created /\ 2 \in Created /\ 3 \in Created  BY <2>1
  <2> QED  BY <2>2, <2>3
<1>2. Contains(run_queue, t)  BY <1>1 DEF SInv, QueueExact
<1> QED  BY <1>2 DEF Contains

(* A turn that ends hands the CPU to the next task in the order of their    *)
(* creation.                                                                *)
LEMMA TurnRotates ==
  ASSUME NEW c \in Created, NEW q \in Seq(Created), Len(q) = User - 1,
         \A i \in 1..(User - 1) : q[i] = IF c + i <= User THEN c + i ELSE c + i - User
  PROVE  LET n == q[1]
             r == Append(Tail(q), c)
         IN  /\ Len(r) = User - 1
             /\ \A i \in 1..(User - 1) :
                  r[i] = IF n + i <= User THEN n + i ELSE n + i - User
<1>1. User \in Nat /\ User >= 3 /\ c \in 1..User  BY Ids DEF Created
<1>2. PICK n : n = q[1]  OBVIOUS
<1>3. n = IF c + 1 <= User THEN c + 1 ELSE c + 1 - User  BY <1>1, <1>2
<1>4. /\ Tail(q) \in Seq(Created) /\ Len(Tail(q)) = User - 2
      /\ \A i \in 1..(User - 2) : Tail(q)[i] = q[i + 1]
  <2>1. q # <<>>  BY <1>1, EmptySeq
  <2>2. /\ Tail(q) \in Seq(Created) /\ Len(Tail(q)) = Len(q) - 1
        /\ \A i \in 1..Len(Tail(q)) : Tail(q)[i] = q[i + 1]
    BY <2>1, HeadTailProperties
  <2>3. Len(q) - 1 = User - 2  BY <1>1
  <2> QED  BY <2>2, <2>3
<1> DEFINE r == Append(Tail(q), c)
<1>5. /\ Len(r) = User - 1 /\ r[User - 1] = c
      /\ \A i \in 1..(User - 2) : r[i] = q[i + 1]
  <2>1. PICK f : f = Tail(q)  OBVIOUS
  <2>2. /\ Len(Append(f, c)) = Len(f) + 1
        /\ \A i \in 1..Len(f) : Append(f, c)[i] = f[i]
        /\ Append(f, c)[Len(f) + 1] = c
    BY <1>4, <2>1, AppendProperties
  <2>3. Len(f) + 1 = User - 1  BY <1>1, <1>4, <2>1
  <2> QED  BY <1>4, <2>1, <2>2, <2>3
<1> HIDE DEF r
<1>6. ASSUME NEW i \in 1..(User - 1)
      PROVE  r[i] = IF n + i <= User THEN n + i ELSE n + i - User
  <2>1. CASE i = User - 1  BY <1>1, <1>3, <1>5, <2>1
  <2>2. CASE i # User - 1
    <3>1. i \in 1..(User - 2) /\ i + 1 \in 1..(User - 1)  BY <1>1, <2>2
    <3>2. r[i] = IF c + (i + 1) <= User THEN c + (i + 1) ELSE c + (i + 1) - User
      BY <1>5, <3>1
    <3> QED  BY <1>1, <1>3, <3>1, <3>2
  <2> QED  BY <2>1, <2>2
<1> QED  BY <1>2, <1>5, <1>6 DEF r

LEMMA irq_handlerS ==
  ASSUME Paced, IInv, SInv, irq_handler, IInv'
  PROVE  SInv'
<1>1. /\ Up /\ Up' /\ timer = "armed" /\ timer' = "rearmed"
      /\ stack' = Append(stack, AfterSchedule(QFirst(run_queue)))
      /\ run_queue' = QPush(QRest(run_queue), cur)
      /\ UNCHANGED <<phase, cur, ctx, task_id, status, scan>>
  BY DEF irq_handler, Requeued, Up
<1>2. /\ cur \in Created /\ StackOK(stack) /\ stack \in Seq(FrameSet)
      /\ Depth \in Nat /\ Depth >= 1 /\ Depth = Len(stack)
  BY <1>1, CurrentStack DEF Depth
<1>3. /\ Base(cur, stack)
      /\ ~Gone(cur) => /\ ~AtMsr /\ Running = cur /\ (Depth = 1 \/ Inner(stack))
                       /\ Depth # 1 => Exited /\ (HitTask(cur) \/ (Fresh /\ cur = Idle))
      /\ Gone(cur)  => Fresh /\ Running = Idle /\ ~Intr /\ (AtMsr \/ Halfway(stack))
  BY <1>1, Armed
<1>4. /\ QueueExact /\ run_queue # <<>> /\ run_queue \in Seq(Created)
      /\ NoDuplicates(run_queue)
  BY <1>1, NextTask, UpTypes DEF SInv, QueueExact
<1>5. ~Contains(run_queue, cur)
  <2>1. CASE Gone(cur)
    <3>1. cur \in Away  BY <1>3, <2>1 DEF Away, Gone
    <3> QED  BY <1>2, <1>4, <3>1 DEF QueueExact
  <2>2. CASE ~Gone(cur)  BY <1>2, <1>3, <1>4, <2>2 DEF QueueExact
  <2> QED  BY <2>1, <2>2
<1>6. PICK n \in Created : n = Head(run_queue) /\ Contains(run_queue, n) /\ n # cur
                           /\ QFirst(run_queue) = n /\ n # NULL
  <2>1. /\ QFirst(run_queue) = Head(run_queue) /\ Head(run_queue) \in Created
        /\ Contains(run_queue, Head(run_queue))
    BY <1>2, <1>4, <1>5, Rotate
  <2> QED  BY <1>5, <2>1, Ids
<1>7. /\ run_queue' \in Seq(Created) /\ NoDuplicates(run_queue') /\ Last(run_queue') = cur
      /\ run_queue' = Append(Tail(run_queue), cur)
      /\ \A t : Contains(run_queue', t) <=> (Contains(run_queue, t) /\ t # n) \/ t = cur
  BY <1>1, <1>2, <1>4, <1>5, <1>6, Rotate
<1>8. PICK g : g = Frame("switch", n) /\ g.pc = "switch" /\ g.next = n /\ g \in FrameSet
  BY <1>6, NewFrame DEF Places, Windows, FrameOK
<1>9. stack' = Append(stack, g)  BY <1>1, <1>6, <1>8 DEF AfterSchedule
<1>10. /\ stack' \in Seq(FrameSet) /\ Len(stack') = Depth + 1 /\ stack'[Depth + 1] = g
       /\ Front(stack') = stack
       /\ \A i \in 1..Depth : stack'[i] = stack[i]
  BY <1>2, <1>8, <1>9, Pushed
<1>11. Depth' = Depth + 1 /\ Top' = g /\ Running' = n /\ ~AtMsr' /\ Stack(cur)' = stack'
  <2>1. Depth' = Depth + 1 /\ Top' = g  BY <1>10 DEF Depth, Top
  <2> QED  BY <2>1, <1>1, <1>6, <1>8 DEF Running, AtMsr, Windows, Stack
<1>12. (Exited' <=> Exited) /\ (\A t : Gone(t)' <=> Gone(t)) /\ Marked(Idle)' = Marked(Idle)
  BY <1>1 DEF Exited, Gone, Marked
<1>13. Above(cur, stack)' /\ OnShape'
  <2>1. Base(cur, Front(stack))'
    BY <1>1, <1>3, <1>10, <1>12 DEF Base, Own, Inner, Halfway
  <2>2. Above(cur, stack)'  BY <1>2, <1>10, <2>1 DEF Above
  <2>3. SwitchTop'  BY <1>1, <1>6, <1>8, <1>11 DEF SwitchTop
  <2> QED  BY <2>2, <2>3 DEF OnShape
<1>14. ASSUME NEW t \in Created, t # cur
       PROVE  /\ Stack(t)' = Stack(t) /\ OffShape(t)'
              /\ HitTask(t)' <=> HitTask(t)
  BY <1>1, <1>14, Others
<1>15. Shapes' /\ AtMsrOK' /\ SavedOK' /\ LeavesOK'
  <2>1. Shapes'  BY <1>1, <1>11, <1>13, <1>14 DEF Shapes
  <2> QED  BY <2>1, <1>8, <1>11 DEF AtMsrOK, SavedOK, LeavesOK
<1>16. Statuses'  BY <1>1, StatusesKept
<1>17. /\ ~Gone(cur) => (Intr' <=> Intr) /\ Away' = Away
       /\ Gone(cur)  => Intr' /\ Away' = {Idle} /\ Away = {User} /\ cur = User
  <2>1. CASE cur # User
    <3>1. Stack(User)' = Stack(User)  BY <2>1, <1>14, Ids
    <3> QED  BY <2>1, <3>1, <1>12 DEF Intr, Away, Gone
  <2>2. CASE cur = User /\ ~Exited  BY <2>2, <1>12 DEF Intr, Away, Gone
  <2>3. CASE cur = User /\ Exited
    <3>1. Gone(cur) /\ ~Intr  BY <2>3, <1>3 DEF Gone
    <3>2. Intr'
      <4>1. (Above(User, Stack(User)) /\ Exited /\ IInv /\ Up)'
        BY <2>3, <1>1, <1>11, <1>12, <1>13
      <4> QED  BY <4>1, GoneAboveNext
    <3> QED  BY <2>3, <3>1, <3>2, <1>12 DEF Away
  <2> QED  BY <2>1, <2>2, <2>3
<1>18. QueueExact'
  <2>1. CASE Gone(cur)
    <3>1. ASSUME NEW t \in Created
          PROVE  Contains(run_queue', t) <=> t # Running' /\ t \notin Away'
      BY <1>3, <1>4, <1>6, <1>7, <1>11, <1>17, <2>1, Ids DEF QueueExact
    <3>2. Running' \notin Away' /\ cur' # Idle
      BY <1>1, <1>3, <1>4, <1>6, <1>11, <1>17, <2>1, Ids DEF QueueExact
    <3> QED  BY <1>7, <3>1, <3>2 DEF QueueExact
  <2>2. CASE ~Gone(cur)
    <3>1. ASSUME NEW t \in Created
          PROVE  Contains(run_queue', t) <=> t # Running' /\ t \notin Away'
      BY <1>3, <1>4, <1>6, <1>7, <1>11, <1>17, <2>2 DEF QueueExact
    <3>2. Running' \notin Away' /\ (Intr' => cur' # Idle)
      BY <1>1, <1>3, <1>4, <1>6, <1>11, <1>17, <2>2 DEF QueueExact
    <3> QED  BY <1>7, <3>1, <3>2 DEF QueueExact
  <2> QED  BY <2>1, <2>2
<1>19. CallerLast'  BY <1>1, <1>7 DEF CallerLast
<1>20. InTurn'
  <2> SUFFICES ASSUME ~Exited'
               PROVE  /\ Len(run_queue') = User - 1
                      /\ \A i \in 1..(User - 1) : run_queue'[i] =
                           IF Running' + i <= User THEN Running' + i ELSE Running' + i - User
    BY DEF InTurn
  <2>1. ~Exited /\ ~Gone(cur)  BY <1>12 DEF Gone
  <2>2. /\ Len(run_queue) = User - 1
        /\ \A i \in 1..(User - 1) : run_queue[i] =
             IF cur + i <= User THEN cur + i ELSE cur + i - User
    BY <1>1, <1>3, <2>1 DEF SInv, InTurn
  <2>3. Running' = run_queue[1]
    BY <1>4, <1>6, <1>11, PopProperties DEF QFirst
  <2> QED  BY <1>2, <1>4, <1>7, <2>2, <2>3, TurnRotates
<1>21. HitOnce'
  <2>1. ASSUME HitTask(cur)' PROVE HitTask(cur) \/ Fresh
    <3>1. Len(stack') >= 2 /\ stack'[2].pc \in {"loading", "eret"}
      BY <1>1, <1>11, <2>1 DEF HitTask
    <3>2. Depth # 1  BY <1>8, <1>10, <3>1
    <3> QED  BY <1>3, <3>2
  <2>2. HitOnce /\ (Fresh => \A t \in Created : ~HitTask(t))  BY <1>1 DEF SInv, Fresh
  <2>3. ASSUME NEW t \in Created, HitTask(t)'
        PROVE  HitTask(t) \/ Fresh
    <3>1. CASE t = cur  BY <1>1, <2>1, <2>3, <3>1
    <3>2. CASE t # cur  BY <1>14, <2>3, <3>2
    <3> QED  BY <3>1, <3>2
  <2>4. CASE Fresh
    <3>1. \A t \in Created : HitTask(t)' => t = cur  BY <1>14, <2>2, <2>4
    <3> QED  BY <3>1 DEF HitOnce
  <2>5. CASE ~Fresh  BY <2>2, <2>3, <2>5 DEF HitOnce
  <2> QED  BY <2>4, <2>5
<1>22. TimerOK' /\ ~Lost'  BY <1>1, Ids DEF TimerOK, Up, Lost
<1> QED  BY <1>15, <1>16, <1>18, <1>19, <1>20, <1>21, <1>22 DEF SInv
-----------------------------------------------------------------------------
(***************************************************************************)
(* The steps of switch_to.                                                  *)
(***************************************************************************)
LEMMA SwitchPc ==
  ASSUME IInv, SInv, Up, Top.pc \in {"switch", "switching"}
  PROVE  /\ ~AtMsr /\ Above(cur, stack) /\ SwitchTop /\ timer = "rearmed"
         /\ Gone(cur) => cur = User /\ Intr /\ Away = {Idle}
         /\ Depth # 1 /\ Stack(cur) = stack /\ Running = Top.next
<1>1. ~AtMsr /\ Stack(cur) = stack /\ Depth # 1
  BY CurrentStack DEF AtMsr, Windows, Stack
<1>2. ~Inner(stack) /\ ~Halfway(stack) /\ ~Spins /\ ~Own(stack)
  <2>1. Len(stack) = 2 => Top = stack[2]  BY DEF Top, Depth
  <2> QED  BY <1>1, <2>1 DEF Inner, Halfway, Spins, Own, Depth
<1>3. Above(cur, stack) /\ SwitchTop
  <2>1. ~ReturnTop  BY DEF ReturnTop, Frame
  <2> QED  BY <1>1, <1>2, <2>1 DEF SInv, Shapes, OnShape
<1>4. Gone(cur) => cur = User /\ Intr /\ Away = {Idle}
  BY <1>1, <1>2, OnGone
<1>5. timer = "rearmed"
  <2>1. timer \in {"rearmed", "armed"}  BY UpTypes
  <2>2. CASE timer = "armed"
    <3>1. Gone(cur)  BY <1>1, <1>2, <2>2, Armed
    <3> QED  BY <1>1, <1>2, <2>2, <3>1, Armed
  <2> QED  BY <2>1, <2>2
<1>6. Running = Top.next
  <2>1. Top.next # NULL  BY CurrentStack, Ids DEF Windows
  <2> QED  BY <2>1 DEF Running
<1> QED  BY <1>1, <1>3, <1>4, <1>5, <1>6

LEMMA ExitPc ==
  ASSUME IInv, SInv, Up, Top.pc \in {"exit", "exiting"}
  PROVE  /\ ~AtMsr /\ Gone(cur) /\ cur = User /\ Exited /\ Halfway(stack)
         /\ Top.next = Idle /\ Running = Idle /\ ~Intr /\ Away = {User}
         /\ Depth = 2 /\ Stack(cur) = stack
         /\ timer = "armed" => Fresh
<1>1. ~AtMsr /\ Depth # 1  BY CurrentStack DEF AtMsr, Windows
<1>2. ~SwitchTop /\ ~ReturnTop  BY DEF SwitchTop, ReturnTop, Frame
<1>3. ~Spins
  <2>1. Len(stack) = 2 => Top = stack[2]  BY DEF Top, Depth
  <2> QED  BY <2>1 DEF Spins, Inner
<1>4. Gone(cur)  BY <1>1, <1>2, <1>3, OnFacts
<1>5. Halfway(stack)  BY <1>1, <1>2, <1>4, OnGone
<1>6. Depth = 2  BY <1>5 DEF Halfway, Depth
<1>7. timer = "armed" => Fresh  BY <1>4, Armed
<1> QED  BY <1>1, <1>2, <1>4, <1>5, <1>6, <1>7, OnGone

(* save_context in schedule().                                              *)
LEMMA save_contextSwitch ==
  ASSUME IInv, SInv, save_context, Top.pc = "switch", IInv'
  PROVE  SInv'
<1>1. /\ Up /\ Up' /\ stack' = WithTop(Frame("switching", Top.next))
      /\ ctx' = [ctx EXCEPT ![cur] = WithTop(Frame("return", NULL))]
      /\ UNCHANGED <<phase, cur, task_id, status, resched, run_queue, elr, timer, scan>>
  BY DEF save_context, Up
<1>2. /\ ~AtMsr /\ Above(cur, stack) /\ SwitchTop /\ timer = "rearmed"
      /\ Gone(cur) => cur = User /\ Intr /\ Away = {Idle}
      /\ Depth # 1 /\ Stack(cur) = stack /\ Running = Top.next
  BY <1>1, SwitchPc
<1>3. PICK n : n = Top.next  OBVIOUS
<1>4. n \in Created /\ n # cur /\ n # NULL  BY <1>2, <1>3, Ids DEF SwitchTop
<1>5. /\ Depth' = Depth /\ Top'.pc = "switching" /\ Top'.next = n
      /\ stack' \in Seq(FrameSet) /\ Len(stack') = Len(stack) /\ Len(stack) = Depth
      /\ Front(stack') = Front(stack) /\ stack'[Depth] = Top'
      /\ \A i \in 1..(Depth - 1) : stack'[i] = stack[i]
      /\ \A r : [stack' EXCEPT ![Depth'] = r] = WithTop(r)
  <2>1. "switching" \in Places \ {"kernel", "user"}  BY DEF Places, Windows
  <2> QED  BY <1>1, <1>2, <1>3, <1>4, <2>1, TopChange
<1>6. ~AtMsr' /\ Running' = Running /\ Stack(cur)' = stack'
  BY <1>1, <1>2, <1>3, <1>4, <1>5 DEF AtMsr, Windows, Running, Stack
<1>7. cur \in Created /\ cur \in Tasks /\ Depth \in Nat  BY <1>1, CurrentStack
<1>8. \A u \in Created : u # cur => ctx'[u] = ctx[u]
  BY <1>1, <1>7, Ids, UpTypes
<1>9. ctx'[cur] = WithTop(Frame("return", NULL))  BY <1>1, <1>7, UpTypes
<1>10. Above(cur, stack)'
  <2>1. Gone(cur) => Marked(Idle)' = Marked(Idle) /\ ctx'[Idle] = ctx[Idle]
    BY <1>2, <1>8, Ids DEF Marked
  <2>2. Gone(cur)' <=> Gone(cur)  BY <1>1 DEF Gone, Exited
  <2> QED
    BY <1>1, <1>2, <1>5, <2>1, <2>2 DEF Above, Base, Own, Inner, Halfway, Exited
<1>11. OnShape' /\ LeavesOK'
  BY <1>1, <1>4, <1>5, <1>10 DEF OnShape, SwitchTop, LeavesOK
<1>12. SavedOK'  BY <1>1, <1>5, <1>9 DEF SavedOK, WithTop
<1>13. cur = User => (Intr' <=> Intr)
  <2>1. CASE cur = User /\ Exited
    <3>1. Gone(cur)  BY <2>1 DEF Gone
    <3>2. (IInv /\ Up /\ Exited /\ Above(User, Stack(User)))'
      BY <1>1, <1>6, <1>10, <2>1 DEF Exited
    <3> QED  BY <1>2, <3>1, <3>2, GoneAboveNext
  <2>2. CASE ~Exited  BY <1>1, <2>2 DEF Intr, Exited
  <2> QED  BY <2>1, <2>2
<1>14. HitTask(cur)' => HitTask(cur)
  <2> SUFFICES ASSUME HitTask(cur)' PROVE HitTask(cur)  OBVIOUS
  <2>1. Len(stack') >= 2 /\ stack'[2].pc \in {"loading", "eret"}
    BY <1>1, <1>6 DEF HitTask
  <2>2. Depth # 2 /\ 2 \in 1..(Depth - 1)  BY <1>5, <1>7, <2>1
  <2> QED  BY <1>2, <1>5, <2>1, <2>2 DEF HitTask
<1>15. Statuses' /\ TimerOK'  BY <1>1, <1>2, <1>8, StatusesKept DEF TimerOK
<1> QED
  BY <1>1, <1>2, <1>6, <1>8, <1>11, <1>12, <1>13, <1>14, <1>15, SameTurn

(* save_context in sys_exit.                                                *)
LEMMA save_contextExit ==
  ASSUME IInv, SInv, save_context, Top.pc = "exit", IInv'
  PROVE  SInv'
<1>1. /\ Up /\ Up' /\ stack' = WithTop(Frame("exiting", Top.next))
      /\ \/ ctx' = [ctx EXCEPT ![cur] = WithTop(Frame("return", NULL))]
         \/ ctx' = [ctx EXCEPT ![cur] = Stale]
      /\ UNCHANGED <<phase, cur, task_id, status, resched, run_queue, elr, timer, scan>>
  BY DEF save_context, Up
<1>2. /\ ~AtMsr /\ Gone(cur) /\ cur = User /\ Exited /\ Halfway(stack)
      /\ Top.next = Idle /\ Running = Idle /\ ~Intr /\ Away = {User}
      /\ Depth = 2 /\ Stack(cur) = stack
      /\ timer = "armed" => Fresh
  BY <1>1, ExitPc
<1>3. /\ Depth' = 2 /\ Top'.pc = "exiting" /\ Top'.next = Idle
      /\ Len(stack') = 2 /\ stack'[2] = Top' /\ stack'[1] = stack[1]
  <2>1. "exiting" \in Places \ {"kernel", "user"}  BY DEF Places, Windows
  <2>2. 1 \in 1..(Depth - 1)  BY <1>2
  <2> QED  BY <1>1, <1>2, <2>1, <2>2, Ids, TopChange
<1>4. ~AtMsr' /\ Running' = Running /\ Stack(cur)' = stack'
  BY <1>1, <1>2, <1>3, Ids DEF AtMsr, Windows, Running, Stack
<1>5. cur \in Tasks /\ \A u \in Created : u # cur => ctx'[u] = ctx[u]
  BY <1>1, <1>2, Ids, UpTypes
<1>6. Halfway(stack)'  BY <1>2, <1>3, Ids DEF Halfway
<1>7. OnShape'  BY <1>1, <1>2, <1>6 DEF OnShape, Gone, Exited
<1>8. cur = User => (Intr' <=> Intr)
  <2>1. Len(Stack(User)') = 2 /\ Stack(User)'[1].next # Idle
    BY <1>1, <1>2, <1>3, <1>4, Ids DEF Halfway
  <2> QED  BY <1>2, <2>1 DEF Intr
<1>9. SavedOK'  BY <1>1, <1>2, <1>3, <1>8 DEF SavedOK
<1>10. LeavesOK'
  <2>1. Left(ctx'[cur])
    <3>1. CASE ctx' = [ctx EXCEPT ![cur] = Stale]
      <4> HIDE DEF Stale
      <4>1. ctx'[cur] = Stale  BY <1>1, <1>5, <3>1, UpTypes
      <4> QED  BY <4>1 DEF Left
    <3>2. CASE ctx' = [ctx EXCEPT ![cur] = WithTop(Frame("return", NULL))]
      <4>1. ctx'[cur] = WithTop(Frame("return", NULL))  BY <1>1, <1>5, <3>2, UpTypes
      <4>2. PICK g : g = Frame("return", NULL) /\ FrameOK(g) /\ g.pc = "return"
        BY NewFrame DEF Places, Windows
      <4>3. Len(WithTop(g)) = 2 /\ WithTop(g)[2] = g /\ WithTop(g)[1] = stack[1]
        <5>1. 1 \in 1..(Depth - 1)  BY <1>2
        <5> QED  BY <1>1, <1>2, <4>2, <5>1, NewTop
      <4> QED  BY <1>2, <4>1, <4>2, <4>3 DEF Left, Halfway
    <3> QED  BY <1>1, <3>1, <3>2
  <2>2. KeptContexts[cur]' = Stale \/ KeptContexts[cur]' = ctx'[cur]
    <3>1. (KeptContexts[cur] = IF NestedSave THEN Stale ELSE ctx[cur])'  BY <1>1, KeptNext
    <3> QED  BY <1>1, <3>1
  <2> QED  BY <1>1, <2>1, <2>2 DEF LeavesOK, Left
<1>11. HitTask(cur)' => HitTask(cur)
  BY <1>1, <1>3, <1>4 DEF HitTask
<1>12. Statuses'  BY <1>1, <1>5, StatusesKept
<1>13. TimerOK'
  <2>1. CASE timer = "armed"
    <3>1. Fresh  BY <1>2, <2>1
    <3>2. ASSUME NEW t \in Created PROVE Len(Stack(t)') <= 2 /\ ~HitTask(t)'
      <4>1. CASE t = cur
        <5>1. Stack(t)' = stack'  BY <1>1, <1>4, <4>1
        <5>2. Len(Stack(t)') = 2 /\ Stack(t)'[2].pc = "exiting"  BY <1>3, <5>1
        <5> QED  BY <5>2 DEF HitTask
      <4>2. CASE t # cur
        <5>1. Stack(t)' = Stack(t) /\ (HitTask(t)' <=> HitTask(t))
          BY <1>1, <1>5, <4>2, Others
        <5> QED  BY <3>1, <5>1 DEF Fresh
      <4> QED  BY <4>1, <4>2
    <3> QED  BY <1>1, <1>2, <1>4, <1>6, <3>2 DEF Fresh, TimerOK, Exited
  <2>2. CASE timer # "armed"  BY <1>1, <2>2, UpTypes DEF TimerOK
  <2> QED  BY <2>1, <2>2
<1> QED
  BY <1>1, <1>2, <1>4, <1>5, <1>7, <1>8, <1>9, <1>10, <1>11, <1>12, <1>13, SameTurn

LEMMA save_contextS ==
  ASSUME IInv, SInv, save_context, IInv'
  PROVE  SInv'
<1>1. Top.pc \in {"switch", "exit"}  BY DEF save_context
<1> QED  BY <1>1, save_contextSwitch, save_contextExit
-----------------------------------------------------------------------------
LEMMA load_stackFacts ==
  ASSUME IInv, SInv, load_context, NEW n \in Created, n = Top.next, n # cur
  PROVE  /\ Up /\ Up' /\ ctx' = KeptContexts /\ Whole(ctx[n]) /\ ctx'[n] = ctx[n]
         /\ stack' = Marked(n) /\ stack' = Marked(n)'
         /\ Top'.next = n /\ Top'.pc \in {"kernel", "return"} /\ AtMsr' /\ Running' = n
         /\ \A u \in Created : u # cur => ctx'[u] = ctx[u]
<1>1. Up /\ Up' /\ ctx' = KeptContexts /\ KeptContexts[n] # Stale
      /\ stack' = [KeptContexts[n] EXCEPT ![Len(KeptContexts[n])] = Frame(@.pc, n)]
  BY DEF load_context, Up
<1>2. \A u \in Created : u # cur => ctx'[u] = ctx[u]  BY <1>1, Kept, Ids
<1>3. ctx'[n] = ctx[n] /\ KeptContexts[n] = ctx[n] /\ n \in Tasks  BY <1>1, <1>2, Ids
<1>4. Whole(ctx[n])  BY <1>1, <1>3, UpTypes DEF CtxOK
<1>5. stack' = Marked(n) /\ Marked(n)' = Marked(n)  BY <1>1, <1>3 DEF Marked
<1>6. /\ StackOK(stack') /\ Len(stack') = Len(ctx[n])
      /\ stack'[Len(ctx[n])] = Frame(ctx[n][Len(ctx[n])].pc, n)
  BY <1>4, <1>5, MarkedFacts
<1>7. Top' = Frame(ctx[n][Len(ctx[n])].pc, n)  BY <1>6 DEF Top, Depth
<1>8. Top'.next = n /\ Top'.pc \in {"kernel", "return"}  BY <1>4, <1>7 DEF Frame, Whole
<1>9. AtMsr' /\ Running' = n  BY <1>1, <1>8, Ids DEF AtMsr, Windows, Running
<1> QED  BY <1>1, <1>2, <1>3, <1>4, <1>5, <1>8, <1>9

(* The CPU comes to stand behind mov sp.                                    *)
LEMMA ToMsr ==
  ASSUME IInv, SInv, Up, Up', AtMsr', cur' = cur, status' = status, task_id' = task_id,
         run_queue' = run_queue, \A u \in Created : u # cur => ctx'[u] = ctx[u],
         Top'.pc \in {"kernel", "return"}, AtMsrOK', Running' = Running,
         OffShape(cur)', cur = User => (Intr' <=> Intr), HitTask(cur)' => HitTask(cur),
         TimerOK'
  PROVE  SInv'
<1>1. ~Lost'  BY Ids DEF Up, Lost
<1>2. (Exited' <=> Exited) /\ (Intr' <=> Intr) /\ Away' = Away  BY ExitedKept
<1>3. Shapes'
  <2>1. ASSUME NEW t \in Created PROVE OffShape(t)'
    <3>1. CASE t = cur  BY <3>1
    <3>2. CASE t # cur  BY <3>2, Others
    <3> QED  BY <3>1, <3>2
  <2> QED  BY <2>1 DEF Shapes
<1>4. QueueExact' /\ CallerLast' /\ InTurn'
  <2>1. QueueExact /\ CallerLast /\ InTurn  BY DEF SInv
  <2> QED  BY <1>2, <2>1 DEF QueueExact, CallerLast, InTurn
<1>5. HitOnce'
  <2>1. ASSUME NEW t \in Created, HitTask(t)' PROVE HitTask(t)
    <3>1. CASE t = cur  BY <2>1, <3>1
    <3>2. CASE t # cur  BY <2>1, <3>2, Others
    <3> QED  BY <3>1, <3>2
  <2> QED  BY <2>1 DEF SInv, HitOnce
<1>6. SavedOK' /\ LeavesOK'  BY DEF SavedOK, LeavesOK
<1>7. Statuses'  BY StatusesKept
<1> QED  BY <1>1, <1>3, <1>4, <1>5, <1>6, <1>7 DEF SInv

(* load_context in schedule(): what save_context saved is still there.      *)
LEMMA load_contextSwitch ==
  ASSUME IInv, SInv, load_context, Top.pc = "switching", IInv'
  PROVE  SInv'
<1>1. Up  BY DEF load_context
<1>2. /\ ~AtMsr /\ Above(cur, stack) /\ SwitchTop /\ timer = "rearmed"
      /\ Gone(cur) => cur = User /\ Intr /\ Away = {Idle}
      /\ Depth # 1 /\ Stack(cur) = stack /\ Running = Top.next
  BY <1>1, SwitchPc
<1>3. PICK n \in Created : n = Top.next /\ n # cur /\ n # NULL
  BY <1>2, Ids DEF SwitchTop
<1>4. /\ Up /\ Up' /\ ctx' = KeptContexts /\ Whole(ctx[n]) /\ ctx'[n] = ctx[n]
      /\ stack' = Marked(n) /\ stack' = Marked(n)'
      /\ Top'.next = n /\ Top'.pc \in {"kernel", "return"} /\ AtMsr' /\ Running' = n
      /\ \A u \in Created : u # cur => ctx'[u] = ctx[u]
  BY <1>3, load_stackFacts
<1>5. UNCHANGED <<phase, cur, task_id, status, resched, run_queue, elr, timer, scan>>
  BY DEF load_context
<1>6. /\ cur \in Created /\ cur \in Tasks /\ stack \in Seq(FrameSet)
      /\ Depth = Len(stack) /\ Depth \in Nat /\ Depth >= 2
  <2>1. /\ cur \in Created /\ cur \in Tasks /\ stack \in Seq(FrameSet)
        /\ Depth \in Nat /\ Depth >= 1
    BY <1>1, CurrentStack
  <2>2. Depth # 1  BY <1>2
  <2>3. Depth = Len(stack)  BY DEF Depth
  <2> QED  BY <2>1, <2>2, <2>3
<1>7. PICK x : x = ctx[cur]  OBVIOUS
<1>8. x = WithTop(Frame("return", NULL)) /\ x \in Seq(FrameSet)
  BY <1>1, <1>6, <1>7, UpTypes DEF SInv, SavedOK
<1>9. /\ Len(x) = Depth /\ x[Depth] = Frame("return", NULL) /\ Front(x) = Front(stack)
      /\ \A i \in 1..(Depth - 1) : x[i] = stack[i]
  <2>1. FrameOK(Frame("return", NULL)) /\ Frame("return", NULL).pc = "return"
    BY NewFrame DEF Places, Windows
  <2>2. /\ Len(x) = Depth /\ x[Depth] = Frame("return", NULL)
        /\ \A i \in 1..(Depth - 1) : x[i] = stack[i]
    BY <1>1, <1>2, <1>8, <2>1, NewTop
  <2>3. PICK f : f = stack  OBVIOUS
  <2>4. Front(x) = Front(f)  BY <1>6, <1>8, <2>2, <2>3, SameFront
  <2> QED  BY <2>2, <2>3, <2>4
<1>10. ~NestedSave
  <2>1. ~IsStrictPrefix(stack, x)
    <3>1. PICK f : f = stack  OBVIOUS
    <3>2. Len(f) = Len(x) /\ f \in Seq(FrameSet) /\ Len(f) >= 1  BY <1>6, <1>9, <3>1
    <3>3. IsStrictPrefix(f, x) => Len(f) < Len(x)  BY <1>8, <3>2, PrefixAgrees
    <3> QED  BY <3>1, <3>2, <3>3, LenProperties
  <2> QED  BY <1>7, <2>1 DEF NestedSave
<1>11. ctx' = ctx /\ ctx'[cur] = x  BY <1>4, <1>7, <1>10 DEF KeptContexts
<1>12. \A i \in 1..(Depth - 1) : stack[i].next # n
  <2>1. CASE Gone(cur)
    <3>1. n # Idle  BY <1>1, <1>2, <1>3, <2>1 DEF SInv, QueueExact
    <3>2. /\ Len(Front(stack)) = Depth - 1
          /\ \A i \in 1..(Depth - 1) : Front(stack)[i] = stack[i]
      BY <1>6, FrontOf
    <3>3. PICK f : f = Front(stack)  OBVIOUS
    <3>4. Base(User, f) /\ Exited  BY <1>2, <2>1, <3>3 DEF Above, Gone
    <3>5. Len(f) \in {1, 2} /\ f[Len(f)].next = Idle  BY <3>4, GoneBase
    <3>6. Len(f) = 2 => f[1].next = NULL
      <4>1. CASE Halfway(f)  BY <4>1 DEF Halfway
      <4>2. CASE f = Marked(Idle) /\ Whole(ctx[Idle])
        <5>1. OffShape(Idle) /\ ~Gone(Idle) /\ Stack(Idle) = ctx[Idle]
          BY <1>1, <1>2, <2>1, Ids DEF SInv, Shapes, Gone, Stack
        <5>2. \A i \in 1..Len(ctx[Idle]) : ctx[Idle][i].next = NULL
          BY <1>1, <5>1, Ids, OffFacts
        <5>3. /\ Len(f) = Len(ctx[Idle])
              /\ \A i \in 1..(Len(ctx[Idle]) - 1) : f[i] = ctx[Idle][i]
          BY <4>2, MarkedFacts, Ids
        <5>4. CASE Len(f) = 2
          <6>1. Len(ctx[Idle]) = 2 /\ 1 \in 1..(Len(ctx[Idle]) - 1)  BY <5>3, <5>4
          <6> QED  BY <5>2, <5>3, <6>1
        <5> QED  BY <5>4
      <4> QED  BY <3>4, <4>1, <4>2 DEF Base, Gone
    <3>7. \A i \in 1..Len(f) : f[i].next \in {NULL, Idle}  BY <3>5, <3>6
    <3> QED  BY <1>3, <3>1, <3>2, <3>3, <3>7
  <2>2. CASE ~Gone(cur)
    <3>1. /\ Depth \in {2, 3} /\ stack[1].next = NULL
          /\ Depth = 3 => stack[2].next = NULL
      BY <1>1, <1>2, <1>6, <2>2, OnFacts
    <3> QED  BY <1>3, <3>1
  <2> QED  BY <2>1, <2>2
<1>13. ~NestedSave'
  <2> SUFFICES ASSUME IsStrictPrefix(stack', x) PROVE FALSE
    BY <1>5, <1>11 DEF NestedSave
  <2>1. PICK f : f = stack'  OBVIOUS
  <2>2. f \in Seq(FrameSet) /\ Len(f) >= 1 /\ f[Len(f)].next = n
    <3>1. StackOK(f) /\ Len(f) = Depth' /\ f[Len(f)] = Top'
      BY <1>3, <1>4, <2>1, MarkedFacts DEF Depth, Top
    <3> QED  BY <1>4, <3>1, TopFrame
  <2>3. Len(f) \in 1..Len(x) /\ f[Len(f)] = x[Len(f)] /\ Len(f) < Len(x)
    BY <1>8, <2>1, <2>2, PrefixAgrees
  <2>4. Len(f) \in 1..(Depth - 1)  BY <1>6, <1>9, <2>3
  <2> QED  BY <1>9, <1>12, <2>2, <2>3, <2>4
<1>14. Stack(cur)' = x
  BY <1>4, <1>5, <1>11, <1>13 DEF Stack, KeptContexts
<1>15. Above(cur, Stack(cur))'
  <2>1. Gone(cur)' <=> Gone(cur)  BY <1>5 DEF Gone, Exited
  <2>2. Marked(Idle)' = Marked(Idle)  BY <1>11 DEF Marked
  <2> QED
    BY <1>2, <1>5, <1>6, <1>9, <1>11, <1>14, <2>1, <2>2
       DEF Above, Base, Own, Inner, Halfway, Exited
<1>16. OffShape(cur)'
  <2>1. (Stack(cur)[Len(Stack(cur))] = Frame("return", NULL))'  BY <1>9, <1>14
  <2> QED  BY <1>15, <2>1 DEF OffShape
<1>17. cur = User => (Intr' <=> Intr)
  <2>1. CASE cur = User /\ Exited
    <3>1. Gone(cur)  BY <2>1 DEF Gone
    <3>2. (IInv /\ Up /\ Exited /\ Above(User, Stack(User)))'
      BY <1>4, <1>5, <1>15, <2>1 DEF Exited
    <3> QED  BY <1>2, <3>1, <3>2, GoneAboveNext
  <2>2. CASE ~Exited  BY <1>5, <2>2 DEF Intr, Exited
  <2> QED  BY <2>1, <2>2
<1>18. HitTask(cur)' => HitTask(cur)
  <2> SUFFICES ASSUME HitTask(cur)' PROVE HitTask(cur)  OBVIOUS
  <2>1. x[2].pc \in {"loading", "eret"}  BY <1>5, <1>14 DEF HitTask
  <2>2. Depth # 2 /\ 2 \in 1..(Depth - 1)  BY <1>6, <1>9, <2>1 DEF Frame
  <2>3. stack[2].pc \in {"loading", "eret"}  BY <1>9, <2>1, <2>2
  <2> QED  BY <1>2, <1>6, <2>2, <2>3 DEF HitTask
<1>19. AtMsrOK' /\ TimerOK'  BY <1>2, <1>3, <1>4, <1>5 DEF AtMsrOK, TimerOK
<1> QED
  BY <1>1, <1>2, <1>3, <1>4, <1>5, <1>16, <1>17, <1>18, <1>19, ToMsr

(* load_context in sys_exit: the program is left for good.                  *)
LEMMA load_contextExit ==
  ASSUME IInv, SInv, load_context, Top.pc = "exiting", IInv'
  PROVE  SInv'
<1>1. Up  BY DEF load_context
<1>2. /\ ~AtMsr /\ Gone(cur) /\ cur = User /\ Exited /\ Halfway(stack)
      /\ Top.next = Idle /\ Running = Idle /\ ~Intr /\ Away = {User}
      /\ Depth = 2 /\ Stack(cur) = stack
      /\ timer = "armed" => Fresh
  BY <1>1, ExitPc
<1>3. PICK n \in Created : n = Top.next /\ n = Idle /\ n # cur  BY <1>2, Ids
<1>4. /\ Up /\ Up' /\ ctx' = KeptContexts /\ Whole(ctx[n]) /\ ctx'[n] = ctx[n]
      /\ stack' = Marked(n) /\ stack' = Marked(n)'
      /\ Top'.next = n /\ Top'.pc \in {"kernel", "return"} /\ AtMsr' /\ Running' = n
      /\ \A u \in Created : u # cur => ctx'[u] = ctx[u]
  BY <1>3, load_stackFacts
<1>5. UNCHANGED <<phase, cur, task_id, status, resched, run_queue, elr, timer, scan>>
  BY DEF load_context
<1>6. Left(ctx'[cur])  BY <1>1, <1>4 DEF SInv, LeavesOK
<1>7. Left(Stack(User))'
  <2>1. KeptContexts[cur]' = Stale \/ KeptContexts[cur]' = ctx'[cur]
    <3>1. (KeptContexts[cur] = IF NestedSave THEN Stale ELSE ctx[cur])'  BY <1>4, KeptNext
    <3> QED  BY <1>5, <3>1
  <2>2. Stack(User)' = KeptContexts[cur]'  BY <1>2, <1>4, <1>5 DEF Stack
  <2> QED  BY <1>6, <2>1, <2>2 DEF Left
<1>8. ~Intr' /\ Len(Stack(User)') <= 2 /\ ~HitTask(User)'  BY <1>7, LeftFactsNext
<1>9. OffShape(cur)'
  <2>1. Gone(User)'  BY <1>2, <1>5 DEF Gone, Exited
  <2> QED  BY <1>2, <1>5, <1>7, <2>1 DEF OffShape
<1>10. TimerOK'
  <2>1. CASE timer = "armed"
    <3>1. Fresh  BY <1>2, <2>1
    <3>2. ASSUME NEW t \in Created PROVE Len(Stack(t)') <= 2 /\ ~HitTask(t)'
      <4>1. CASE t = User  BY <1>8, <4>1
      <4>2. CASE t # User
        <5>1. Stack(t)' = Stack(t) /\ (HitTask(t)' <=> HitTask(t))
          BY <1>1, <1>2, <1>4, <1>5, <4>2, Others
        <5> QED  BY <3>1, <5>1 DEF Fresh
      <4> QED  BY <4>1, <4>2
    <3> QED  BY <1>2, <1>3, <1>4, <1>5, <1>7, <3>2 DEF Fresh, TimerOK, Exited
  <2>2. CASE timer # "armed"  BY <1>1, <1>5, <2>2, UpTypes DEF TimerOK
  <2> QED  BY <2>1, <2>2
<1>11. AtMsrOK'  BY <1>3, <1>4, <1>5 DEF AtMsrOK
<1> QED
  BY <1>1, <1>2, <1>3, <1>4, <1>5, <1>8, <1>9, <1>10, <1>11, ToMsr

LEMMA load_contextS ==
  ASSUME IInv, SInv, load_context, IInv'
  PROVE  SInv'
<1>1. Top.pc \in {"switching", "exiting"}  BY DEF load_context
<1> QED  BY <1>1, load_contextSwitch, load_contextExit

(* The task that is switched to has not been left behind.                   *)
LEMMA load_staleS ==
  ASSUME IInv, SInv, load_stale
  PROVE  SInv'
<1>1. /\ Up /\ Top.pc \in {"switching", "exiting"} /\ KeptContexts[Top.next] = Stale
      /\ phase' = User + 2 /\ status' = status
  BY DEF load_stale
<1>2. Exited
  <2>1. CASE Top.pc = "exiting"  BY <1>1, <2>1, ExitPc
  <2>2. CASE Top.pc = "switching"
    <3>1. PICK n \in Created : n = Top.next /\ n # cur  BY <1>1, <2>2, SwitchPc DEF SwitchTop
    <3>2. ctx[n] = Stale /\ Stack(n) = ctx[n]  BY <1>1, <3>1, Kept, Ids DEF Stack
    <3>3. OffShape(n)  BY <1>1, <3>1 DEF SInv, Shapes
    <3>4. Gone(n)  BY <1>1, <3>2, <3>3, OffFacts
    <3> QED  BY <3>4 DEF Gone
  <2> QED  BY <1>1, <2>1, <2>2
<1>3. ~Up' /\ Exited'  BY <1>1, <1>2, Ids DEF Up, Exited
<1> QED  BY <1>3 DEF SInv
-----------------------------------------------------------------------------
LEMMA set_currentS ==
  ASSUME IInv, SInv, set_current, IInv'
  PROVE  SInv'
<1>1. /\ Up /\ Up' /\ AtMsr /\ ctx' = KeptContexts /\ cur' = Top.next
      /\ stack' = WithTop(Frame(Top.pc, NULL))
      /\ UNCHANGED <<phase, task_id, status, resched, run_queue, elr, timer, scan>>
  BY DEF set_current, Up
<1>2. /\ Top.next \in Created /\ Running = Top.next /\ Top.next # cur
      /\ stack = Marked(Top.next) /\ Whole(ctx[Top.next])
      /\ Stack(Top.next) = ctx[Top.next] /\ OffShape(Top.next)
      /\ Gone(Top.next) => Intr /\ Above(User, Stack(User))
      /\ Top.pc \in {"kernel", "return"} /\ Depth = Len(ctx[Top.next])
      /\ OffShape(cur) /\ Stack(cur) = KeptContexts[cur]
  BY <1>1, AtMsrFacts
<1>3. PICK n \in Created : n = Top.next /\ n # cur  BY <1>2
<1>4. cur \in Created /\ cur \in Tasks /\ n \in Tasks  BY <1>1, CurrentStack, Ids
<1>5. PICK x : x = ctx[n]  OBVIOUS
<1>6. /\ StackOK(x) /\ x \in Seq(FrameSet) /\ Len(x) = Depth /\ Len(x) \in Nat /\ Len(x) >= 1
      /\ x[Len(x)].pc \in {"kernel", "return"} /\ x[Len(x)].next = NULL
      /\ x[Len(x)] \in FrameSet
      /\ x[Len(x)].pc \in {"kernel", "user"} <=> Len(x) = 1
  BY <1>2, <1>3, <1>5, TopFrame DEF Whole, FrameOK
<1>7. x[Len(x)] = Frame(x[Len(x)].pc, NULL)  BY <1>6 DEF FrameSet, Frame
<1>8. Top = Frame(x[Len(x)].pc, n)
  BY <1>2, <1>3, <1>5, <1>6, MarkedFacts DEF Top, Depth
<1>9. stack' = x
  <2>1. stack = [x EXCEPT ![Len(x)] = Frame(x[Len(x)].pc, n)]
    BY <1>2, <1>3, <1>5, <1>6 DEF Marked
  <2>2. Top.pc = x[Len(x)].pc  BY <1>8 DEF Frame
  <2>3. stack' = [stack EXCEPT ![Len(x)] = x[Len(x)]]
    BY <1>1, <1>6, <1>7, <2>2 DEF WithTop
  <2>4. x \in [1..Len(x) -> FrameSet]  BY <1>6, LenProperties
  <2>5. stack' = [[x EXCEPT ![Len(x)] = Frame(x[Len(x)].pc, n)] EXCEPT ![Len(x)] = x[Len(x)]]
    BY <2>1, <2>3
  <2> QED  BY <2>4, <2>5
<1>10. Depth' = Len(x) /\ Top' = x[Len(x)]  BY <1>9 DEF Depth, Top
<1>11. ~AtMsr' /\ Running' = n
  BY <1>1, <1>3, <1>6, <1>10 DEF AtMsr, Running
<1>12. /\ \A u \in Tasks : u # cur => ctx'[u] = ctx[u]
       /\ ctx'[cur] = KeptContexts[cur] /\ ctx'[n] = x
  BY <1>1, <1>3, <1>4, <1>5, Kept
<1>13. ASSUME NEW t \in Created PROVE Stack(t)' = Stack(t)
  <2>1. CASE t = n
    <3>1. Stack(t)' = stack'  BY <1>1, <1>3, <1>11, <2>1 DEF Stack
    <3> QED  BY <1>2, <1>3, <1>5, <1>9, <2>1, <3>1
  <2>2. CASE t # n
    <3>1. Stack(t)' = ctx'[t]  BY <1>1, <1>3, <2>2 DEF Stack
    <3>2. CASE t = cur  BY <1>2, <1>12, <3>1, <3>2
    <3>3. CASE t # cur  BY <1>12, <3>1, <3>3, Ids DEF Stack
    <3> QED  BY <3>2, <3>3
  <2> QED  BY <2>1, <2>2
<1>14. /\ Exited' <=> Exited
       /\ Intr' <=> Intr
       /\ Away' = Away
       /\ \A t : Gone(t)' <=> Gone(t)
  <2>1. Stack(User)' = Stack(User)  BY <1>13, Ids
  <2> QED  BY <1>1, <2>1 DEF Exited, Intr, Away, Gone
<1>15. Intr => Marked(Idle)' = Marked(Idle) /\ ctx'[Idle] = ctx[Idle]
  <2>1. Intr => cur # Idle  BY <1>1 DEF SInv, QueueExact
  <2> QED  BY <1>12, <2>1, Ids DEF Marked
<1>16. ASSUME NEW t \in Created, Above(t, Stack(t)) PROVE Above(t, Stack(t))'
  <2>1. CASE ~Gone(t)
    BY <1>13, <1>14, <1>16, <2>1 DEF Above, Base, Own, Inner
  <2>2. CASE Gone(t)
    <3>1. t = User /\ Exited  BY <2>2 DEF Gone
    <3>2. Intr  BY <1>1, <1>16, <3>1, GoneAbove
    <3> QED  BY <1>13, <1>14, <1>15, <1>16, <2>2, <3>2 DEF Above, Base, Halfway
  <2> QED  BY <2>1, <2>2
<1>17. ASSUME NEW t \in Created PROVE OffShape(t)'
  <2>1. OffShape(t)  BY <1>1 DEF SInv, Shapes
  <2> QED  BY <1>13, <1>14, <1>16, <2>1 DEF OffShape, Own, Left
<1>18. Stack(n) = x /\ Stack(n)' = stack'  BY <1>2, <1>3, <1>5, <1>9, <1>13
<1>19. Gone(n) => n = User /\ Intr /\ Above(n, Stack(n)) /\ ~Left(Stack(n))
  <2>1. Gone(n) => n = User /\ Exited  BY DEF Gone
  <2> QED  BY <1>1, <1>2, <1>3, <2>1, GoneAbove
<1>20. OnShape'
  <2>1. CASE Own(x) /\ ~Gone(n)
    BY <1>1, <1>3, <1>9, <1>14, <2>1 DEF OnShape, Own
  <2>2. CASE Above(n, Stack(n)) /\ x[Len(x)] = Frame("return", NULL)
    <3>1. ReturnTop'  BY <1>10, <2>2 DEF ReturnTop
    <3>2. Above(cur, stack)'
      <4>1. Above(n, Stack(n))'  BY <1>16, <2>2
      <4>2. cur' = n  BY <1>1, <1>3
      <4> QED  BY <1>18, <4>1, <4>2 DEF Above, Base, Gone
    <3> QED  BY <3>1, <3>2 DEF OnShape
  <2> QED
    BY <1>2, <1>3, <1>18, <1>19, <2>1, <2>2 DEF OffShape
<1>21. Shapes' /\ AtMsrOK' /\ LeavesOK'
  BY <1>6, <1>10, <1>11, <1>17, <1>20 DEF Shapes, AtMsrOK, LeavesOK
<1>22. SavedOK'
  <2> SUFFICES ASSUME cur' = User, Intr', Top'.pc # "switch"
               PROVE  ctx'[cur'] = WithTop(Frame("return", NULL))'
    BY <1>6, <1>10 DEF SavedOK
  <2>1. n = User /\ Exited  BY <1>1, <1>3, <1>14 DEF Intr
  <2>2. Gone(n)  BY <2>1 DEF Gone
  <2>3. x[Len(x)] = Frame("return", NULL)
    <3>1. OffShape(n)  BY <1>2, <1>3
    <3> QED  BY <1>18, <1>19, <2>2, <3>1 DEF OffShape
  <2>4. WithTop(Frame("return", NULL))' = [x EXCEPT ![Len(x)] = x[Len(x)]]
    BY <1>9, <1>10, <2>3 DEF WithTop
  <2>5. x \in [1..Len(x) -> FrameSet]  BY <1>6, LenProperties
  <2> QED  BY <1>1, <1>3, <1>12, <2>4, <2>5
<1>23. Statuses'
  <2> SUFFICES ASSUME NEW t \in Created
               PROVE  /\ status'[t] = "DEAD" => t = User
                      /\ task_id'[t] = 0 => Gone(t)' /\ Left(Stack(t))' /\ t # cur'
    BY DEF Statuses
  <2>1. /\ status[t] = "DEAD" => t = User
        /\ task_id[t] = 0 => Gone(t) /\ Left(Stack(t)) /\ t # cur
    BY <1>1 DEF SInv, Statuses
  <2> QED  BY <1>1, <1>3, <1>13, <1>14, <1>19, <2>1 DEF Left
<1>24. QueueExact' /\ CallerLast' /\ InTurn'
  <2>1. QueueExact /\ InTurn /\ Running' = Running  BY <1>1, <1>2, <1>3, <1>11 DEF SInv
  <2>2. Intr' => cur' # Idle
    <3>1. Intr => Away = {Idle}  BY DEF Away, Intr
    <3> QED  BY <1>1, <1>2, <1>14, <2>1, <3>1 DEF QueueExact
  <2>3. Running' = cur'  BY <1>1, <1>3, <1>11
  <2> QED  BY <1>1, <1>14, <2>1, <2>2, <2>3 DEF QueueExact, CallerLast, InTurn
<1>25. ASSUME NEW t \in Created, HitTask(t)' PROVE HitTask(t)
  <2>1. Len(Stack(t)) >= 2 /\ Stack(t)[2].pc \in {"loading", "eret"}
    BY <1>13, <1>25 DEF HitTask
  <2>2. CASE Len(Stack(t)) = 2
    <3>1. t = n  BY <1>1, <1>3, <1>13, <1>25, <2>2 DEF HitTask
    <3>2. x[2].pc \in {"kernel", "return"} /\ Stack(t) = x  BY <1>6, <1>18, <2>2, <3>1
    <3> QED  BY <2>1, <3>2
  <2>3. CASE Len(Stack(t)) # 2  BY <2>1, <2>3 DEF HitTask
  <2> QED  BY <2>2, <2>3
<1>26. HitOnce'
  <2>1. HitOnce  BY <1>1 DEF SInv
  <2> QED  BY <1>25, <2>1 DEF HitOnce
<1>27. TimerOK'
  <2>1. CASE timer = "armed"
    <3>1. Gone(cur) /\ Fresh /\ Running = Idle  BY <1>1, <2>1, Armed
    <3>2. cur = User /\ Exited /\ n = Idle  BY <1>2, <1>3, <3>1 DEF Gone
    <3>3. Left(Stack(User))  BY <1>1, <3>1 DEF Fresh
    <3>4. Left(Stack(User))'  BY <1>13, <3>3, Ids DEF Left
    <3>5. ASSUME NEW t \in Created PROVE Len(Stack(t)') <= 2 /\ ~HitTask(t)'
      BY <1>13, <1>25, <3>1 DEF Fresh
    <3>6. Exited' /\ cur' = Idle /\ Running' = Idle  BY <1>1, <1>3, <1>11, <1>14, <3>2
    <3>7. Fresh'  BY <3>4, <3>5, <3>6 DEF Fresh
    <3> QED  BY <3>7 DEF TimerOK
  <2>2. CASE timer # "armed"  BY <1>1, <2>2, UpTypes DEF TimerOK
  <2> QED  BY <2>1, <2>2
<1>28. ~Lost'  BY <1>1, Ids DEF Up, Lost
<1> QED  BY <1>21, <1>22, <1>23, <1>24, <1>26, <1>27, <1>28 DEF SInv
-----------------------------------------------------------------------------
(***************************************************************************)
(* The return path.                                                         *)
(***************************************************************************)
LEMMA ReturnPc ==
  ASSUME IInv, SInv, Up, Top.pc \in {"loading", "eret"} \/ Top = Frame("return", NULL)
  PROVE  /\ ~AtMsr /\ Depth # 1 /\ Depth \in {2, 3} /\ Running = cur /\ Stack(cur) = stack
         /\ Top.next = NULL /\ Depth = Len(stack) /\ stack \in Seq(FrameSet)
         /\ stack[Depth] = Top /\ cur \in Created /\ cur \in Tasks
         /\ Spins \/ (Above(cur, stack) /\ ReturnTop)
         /\ Gone(cur) => /\ cur = User /\ Intr /\ Away = {Idle} /\ timer # "armed"
                         /\ Above(cur, stack) /\ ReturnTop
         /\ timer = "armed" /\ ~Spinning
              => Fresh /\ cur = Idle /\ Depth = 2 /\ Inner(stack) /\ Running = Idle
<1>1. Top.pc \in {"return", "loading", "eret"}  BY DEF Frame
<1>2. ~AtMsr
  <2>1. CASE Top = Frame("return", NULL)  BY <2>1 DEF AtMsr, Frame
  <2>2. CASE Top.pc \in {"loading", "eret"}  BY <2>2, AtMsrFacts
  <2> QED  BY <2>1, <2>2
<1>3. /\ Depth # 1 /\ Depth = Len(stack) /\ stack \in Seq(FrameSet) /\ stack[Depth] = Top
      /\ cur \in Created /\ cur \in Tasks
  <2>1. Depth # 1 /\ stack \in Seq(FrameSet) /\ cur \in Created /\ cur \in Tasks
    BY <1>1, CurrentStack
  <2> QED  BY <2>1 DEF Depth, Top
<1>4. Stack(cur) = stack  BY <1>2 DEF Stack
<1>5. ~SwitchTop /\ ~Halfway(stack)
  BY <1>1, <1>3 DEF SwitchTop, Halfway
<1>6. Gone(cur) => cur = User /\ Intr /\ Away = {Idle} /\ timer # "armed"
                   /\ Above(cur, stack) /\ ReturnTop
  BY <1>2, <1>5, OnGone, Armed
<1>7. Spins \/ (Above(cur, stack) /\ ReturnTop)
  BY <1>2, <1>3, <1>5, <1>6, OnFacts
<1>8. Depth \in {2, 3}
  BY <1>2, <1>3, OnGone, OnFacts
<1>9. Top.next = NULL /\ Running = cur
  <2>1. Top.next = NULL  BY <1>2, <1>1 DEF AtMsr, Windows
  <2> QED  BY <2>1 DEF Running
<1>10. ASSUME timer = "armed", ~Spinning
       PROVE  Fresh /\ cur = Idle /\ Depth = 2 /\ Inner(stack) /\ Running = Idle
  <2>1. ~Gone(cur)  BY <1>6, <1>10
  <2>2. Inner(stack)  BY <1>3, <1>10, <2>1, Armed
  <2>3. Fresh  BY <1>3, <1>10 DEF SInv, TimerOK
  <2>4. Exited  BY <2>3 DEF Fresh
  <2>5. cur # User  BY <2>1, <2>4 DEF Gone
  <2>6. cur = Idle  BY <2>3, <2>5 DEF Fresh
  <2> QED  BY <1>3, <1>9, <2>2, <2>3, <2>6 DEF Inner
<1> QED  BY <1>2, <1>3, <1>4, <1>6, <1>7, <1>8, <1>9, <1>10

LEMMA FreshStays ==
  ASSUME IInv, SInv, Up, Fresh, cur = Idle, cur' = cur, status' = status,
         \A u \in Created : u # cur => ctx'[u] = ctx[u],
         Len(Stack(cur)') <= 2, ~HitTask(cur)', Running' = Idle
  PROVE  Fresh'
<1>1. Stack(User)' = Stack(User)  BY Ids, Others
<1>2. ASSUME NEW t \in Created PROVE Len(Stack(t)') <= 2 /\ ~HitTask(t)'
  <2>1. CASE t = cur  BY <2>1
  <2>2. CASE t # cur
    <3>1. Stack(t)' = Stack(t) /\ (HitTask(t)' <=> HitTask(t))  BY <2>2, Others
    <3> QED  BY <3>1 DEF Fresh
  <2> QED  BY <2>1, <2>2
<1>3. Exited /\ Left(Stack(User))  BY Ids DEF Fresh
<1>4. Exited' /\ Left(Stack(User))'  BY <1>1, <1>3 DEF Exited, Left
<1> QED  BY <1>2, <1>4 DEF Fresh

(* The two halves of load_all leave everything but the top frame and        *)
(* ELR_EL1 alone.                                                           *)
LEMMA load_allS ==
  ASSUME IInv, SInv, Up, Up',
         Top.pc = "loading" \/ Top = Frame("return", NULL),
         NEW p \in {"loading", "eret"}, stack' = WithTop(Frame(p, NULL)),
         UNCHANGED <<cur, ctx, task_id, status, run_queue, timer>>,
         Spins => Spins', ~Spins => ReturnTop', HitTask(cur)' => HitTask(cur), IInv'
  PROVE  SInv'
<1>1. /\ ~AtMsr /\ Depth # 1 /\ Depth \in {2, 3} /\ Running = cur /\ Stack(cur) = stack
      /\ Top.next = NULL /\ Depth = Len(stack) /\ stack \in Seq(FrameSet)
      /\ stack[Depth] = Top /\ cur \in Created /\ cur \in Tasks
      /\ Spins \/ (Above(cur, stack) /\ ReturnTop)
      /\ Gone(cur) => /\ cur = User /\ Intr /\ Away = {Idle} /\ timer # "armed"
                      /\ Above(cur, stack) /\ ReturnTop
      /\ timer = "armed" /\ ~Spinning
           => Fresh /\ cur = Idle /\ Depth = 2 /\ Inner(stack) /\ Running = Idle
  BY ReturnPc
<1>2. /\ Depth' = Depth /\ Top'.pc = p /\ Top'.next = NULL
      /\ Len(stack') = Len(stack) /\ stack'[Depth] = Top'
      /\ Front(stack') = Front(stack)
      /\ \A r : [stack' EXCEPT ![Depth'] = r] = WithTop(r)
  <2>1. p \in Places \ {"kernel", "user"} /\ p \notin Windows  BY DEF Places, Windows
  <2> QED  BY <1>1, <2>1, TopChange
<1>3. ~AtMsr' /\ Running' = Running /\ Stack(cur)' = stack'
  BY <1>1, <1>2 DEF AtMsr, Running, Stack
<1>4. Above(cur, stack) => Above(cur, stack)'
  <2>1. (Gone(cur)' <=> Gone(cur)) /\ Marked(Idle)' = Marked(Idle)
    BY DEF Gone, Exited, Marked
  <2> QED  BY <1>1, <1>2, <2>1 DEF Above, Base, Own, Inner, Halfway, Exited
<1>5. OnShape' /\ LeavesOK'  BY <1>1, <1>2, <1>4 DEF OnShape, LeavesOK
<1>6. cur = User => (Intr' <=> Intr)
  <2>1. CASE cur = User /\ Exited
    <3>1. Gone(cur)  BY <2>1 DEF Gone
    <3>2. (IInv /\ Up /\ Exited /\ Above(User, Stack(User)))'
      BY <1>1, <1>3, <1>4, <2>1, <3>1 DEF Exited
    <3> QED  BY <1>1, <3>1, <3>2, GoneAboveNext
  <2>2. CASE ~Exited  BY <2>2 DEF Intr, Exited
  <2> QED  BY <2>1, <2>2
<1>7. SavedOK'
  <2> SUFFICES ASSUME cur = User, Intr'
               PROVE  ctx'[cur'] = WithTop(Frame("return", NULL))'
    BY <1>2 DEF SavedOK
  <2>1. Top.pc # "switch"  BY DEF Frame
  <2>2. ctx[cur] = WithTop(Frame("return", NULL))  BY <1>1, <1>6, <2>1 DEF SInv, SavedOK
  <2>3. WithTop(Frame("return", NULL))' = WithTop(Frame("return", NULL))
    BY <1>2 DEF WithTop
  <2> QED  BY <2>2, <2>3
<1>8. Statuses'  BY StatusesKept
<1>9. TimerOK'
  <2>1. CASE timer = "armed"
    <3>1. ~Spinning  BY DEF Spinning, Frame
    <3>2. Fresh /\ cur = Idle /\ Depth = 2 /\ Running = Idle  BY <1>1, <2>1, <3>1
    <3>3. ~HitTask(cur)  BY <1>1, <3>2 DEF Fresh
    <3>4. Len(Stack(cur)') <= 2
      <4>1. Len(stack') = 2  BY <1>1, <1>2, <3>2
      <4>2. Len(Stack(cur)') = 2  BY <1>3, <4>1
      <4> QED  BY <4>2
    <3>5. Fresh'  BY <1>3, <3>2, <3>3, <3>4, FreshStays
    <3> QED  BY <3>5 DEF TimerOK
  <2>2. CASE timer # "armed"  BY <2>2, UpTypes DEF TimerOK
  <2> QED  BY <2>1, <2>2
<1> QED  BY <1>1, <1>3, <1>5, <1>6, <1>7, <1>8, <1>9, SameTurn

LEMMA load_elrS ==
  ASSUME IInv, SInv, load_elr, IInv'
  PROVE  SInv'
<1>1. /\ Up /\ Up' /\ Top = Frame("return", NULL)
      /\ stack' = WithTop(Frame("loading", NULL))
      /\ elr' = <<cur, Depth - 1, stack[Depth - 1].pc>>
      /\ UNCHANGED <<phase, cur, ctx, task_id, status, resched, run_queue, timer, scan>>
  BY DEF load_elr, Up
<1>2. /\ ~AtMsr /\ Depth # 1 /\ Depth \in {2, 3} /\ Stack(cur) = stack
      /\ Depth = Len(stack)
      /\ Spins \/ (Above(cur, stack) /\ ReturnTop)
  BY <1>1, ReturnPc
<1>3. /\ Depth' = Depth /\ Top'.pc = "loading" /\ Top'.next = NULL /\ Len(stack') = Depth
      /\ \A i \in 1..(Depth - 1) : stack'[i] = stack[i]
  <2>1. "loading" \in Places \ {"kernel", "user"} /\ "loading" \notin Windows
    BY DEF Places, Windows
  <2> QED  BY <1>1, <1>2, <2>1, TopChange
<1>4. ~Spins  BY <1>1 DEF Spins, Frame
<1>5. ReturnTop'
  <2>1. stack'[Depth - 1] = stack[Depth - 1]  BY <1>2, <1>3
  <2> QED  BY <1>1, <1>3, <2>1 DEF ReturnTop
<1>6. HitTask(cur)' => HitTask(cur)
  <2> SUFFICES ASSUME HitTask(cur)' PROVE HitTask(cur)  OBVIOUS
  <2>1. Stack(cur)' = stack'  BY <1>1, <1>3 DEF Stack, AtMsr
  <2>2. stack'[2].pc \in {"loading", "eret"} /\ (Depth = 2 => elr'[2] = 2)
    BY <1>1, <1>2, <1>3, <2>1 DEF HitTask
  <2>3. Depth = 3  BY <1>1, <1>2, <2>2
  <2>4. stack'[2] = stack[2]  BY <1>3, <2>3
  <2> QED  BY <1>2, <2>2, <2>3, <2>4 DEF HitTask
<1> QED  BY <1>1, <1>4, <1>5, <1>6, load_allS

LEMMA load_registersS ==
  ASSUME IInv, SInv, load_registers, IInv'
  PROVE  SInv'
<1>1. /\ Up /\ Up' /\ Top.pc = "loading" /\ stack' = WithTop(Frame("eret", NULL))
      /\ UNCHANGED <<phase, cur, ctx, task_id, status, resched, run_queue, elr, timer, scan>>
  BY DEF load_registers, Up
<1>2. /\ ~AtMsr /\ Depth # 1 /\ Depth \in {2, 3} /\ Stack(cur) = stack
      /\ Depth = Len(stack) /\ stack[Depth] = Top
      /\ Spins \/ (Above(cur, stack) /\ ReturnTop)
  BY <1>1, ReturnPc
<1>3. /\ Depth' = Depth /\ Top'.pc = "eret" /\ Top'.next = NULL /\ Len(stack') = Depth
      /\ stack'[Depth] = Top' /\ \A i \in 1..(Depth - 1) : stack'[i] = stack[i]
  <2>1. "eret" \in Places \ {"kernel", "user"} /\ "eret" \notin Windows
    BY DEF Places, Windows
  <2> QED  BY <1>1, <1>2, <2>1, TopChange
<1>4. Spins => Spins'
  <2> SUFFICES ASSUME Spins PROVE Spins'  OBVIOUS
  <2>1. Depth = 2 /\ stack[1].next = NULL  BY <1>2 DEF Spins, Inner
  <2>2. stack'[1] = stack[1] /\ stack'[2] = Top' /\ Len(stack') = 2  BY <1>3, <2>1
  <2> QED  BY <1>1, <1>3, <2>1, <2>2 DEF Spins, Inner, Exited, Gone
<1>5. ~Spins => ReturnTop'
  <2> SUFFICES ASSUME ~Spins PROVE ReturnTop'  OBVIOUS
  <2>1. elr = <<cur, Depth - 1, stack[Depth - 1].pc>>
    BY <1>1, <1>2 DEF ReturnTop, Frame
  <2>2. stack'[Depth - 1] = stack[Depth - 1]  BY <1>2, <1>3
  <2> QED  BY <1>1, <1>3, <2>1, <2>2 DEF ReturnTop
<1>6. HitTask(cur)' => HitTask(cur)
  <2> SUFFICES ASSUME HitTask(cur)' PROVE HitTask(cur)  OBVIOUS
  <2>1. Stack(cur)' = stack'  BY <1>1, <1>3 DEF Stack, AtMsr
  <2>2. stack'[2].pc \in {"loading", "eret"} /\ (Depth = 2 => elr[2] = 2)
    BY <1>1, <1>2, <1>3, <2>1 DEF HitTask
  <2>3. stack[2].pc \in {"loading", "eret"}
    <3>1. CASE Depth = 2  BY <1>1, <1>2, <3>1
    <3>2. CASE Depth = 3  BY <1>3, <2>2, <3>2
    <3> QED  BY <1>2, <3>1, <3>2
  <2> QED  BY <1>2, <2>2, <2>3 DEF HitTask
<1> QED  BY <1>1, <1>4, <1>5, <1>6, load_allS
-----------------------------------------------------------------------------
(* eret goes back to what its exception interrupted: here for a task that   *)
(* has not exited.                                                          *)
LEMMA eretOther ==
  ASSUME IInv, SInv, eret, ~Gone(cur), IInv'
  PROVE  SInv'
<1>1. /\ Up /\ Up' /\ Top.pc = "eret" /\ elr[2] < Depth
      /\ stack' = SubSeq(stack, 1, elr[2])
      /\ UNCHANGED <<phase, cur, ctx, task_id, status, resched, run_queue, elr, timer, scan>>
  BY DEF eret, Up
<1>2. /\ ~AtMsr /\ Depth \in {2, 3} /\ Running = cur /\ Stack(cur) = stack
      /\ Depth = Len(stack) /\ stack \in Seq(FrameSet)
      /\ cur \in Created
      /\ Spins \/ (Above(cur, stack) /\ ReturnTop)
      /\ timer = "armed" /\ ~Spinning
           => Fresh /\ cur = Idle /\ Depth = 2 /\ Inner(stack) /\ Running = Idle
  BY <1>1, ReturnPc
<1>3. ~Spins
  <2>1. Spins => Len(stack) = 2 /\ elr[2] = 2  BY DEF Spins, Inner
  <2> QED  BY <1>1, <1>2, <2>1
<1>4. elr = <<cur, Depth - 1, stack[Depth - 1].pc>> /\ Above(cur, stack)
  BY <1>1, <1>2, <1>3 DEF ReturnTop, Frame
<1>5. stack' = Front(stack)  BY <1>1, <1>2, <1>4 DEF Front
<1>6. /\ Len(stack') = Depth - 1 /\ stack' \in Seq(FrameSet)
      /\ \A i \in 1..(Depth - 1) : stack'[i] = stack[i]
  BY <1>2, <1>5, FrontOf
<1>7. Own(stack') \/ (Exited /\ Inner(stack'))
  BY <1>4, <1>5 DEF Above, Base
<1>8. Depth' = Len(stack') /\ Top' = stack'[Len(stack')]  BY DEF Depth, Top
<1>9. Top'.next = NULL  BY <1>7, <1>8 DEF Own, Inner
<1>10. ~AtMsr' /\ Running' = Running /\ Stack(cur)' = stack'
  BY <1>1, <1>2, <1>9 DEF AtMsr, Running, Stack
<1>11. (Gone(cur)' <=> Gone(cur)) /\ (Exited' <=> Exited)  BY <1>1 DEF Gone, Exited
<1>12. OnShape'
  <2>1. CASE Own(stack')  BY <1>1, <1>11, <2>1 DEF OnShape, Own
  <2>2. CASE Exited /\ Inner(stack')
    <3>1. /\ Len(stack') = 2 /\ Depth = 3 /\ Top' = stack'[2] /\ stack[2] = stack'[2]
          /\ Top'.pc \in {"return", "loading", "eret"}
      BY <1>2, <1>6, <1>8, <2>2 DEF Inner
    <3>2. CASE Top'.pc = "return"
      <4>1. PICK f : f = stack'  OBVIOUS
      <4>2. Len(Front(f)) = 1 /\ Front(f)[1] = f[1]
        <5>1. /\ Len(Front(f)) = Len(f) - 1
              /\ \A i \in 1..(Len(f) - 1) : Front(f)[i] = f[i]
          <6>1. f \in Seq(FrameSet) /\ Len(f) = 2  BY <1>6, <3>1, <4>1
          <6>2. Len(f) >= 1  BY <6>1
          <6> QED  BY <6>1, <6>2, FrontOf
        <5> QED  BY <3>1, <4>1, <5>1
      <4>3. Own(Front(stack'))  BY <2>2, <4>1, <4>2 DEF Own, Inner
      <4>4. Above(cur, stack)'
        <5>1. Base(cur, Front(stack))'  BY <1>11, <4>3 DEF Base, Own
        <5>2. Len(stack') >= 2  BY <3>1
        <5> QED  BY <5>1, <5>2 DEF Above
      <4>5. Top' = Frame("return", NULL)
        <5>1. PICK g : g = Top'  OBVIOUS
        <5>2. g \in FrameSet  BY <1>1, <5>1, CurrentNext DEF FrameOK
        <5> QED  BY <1>9, <3>2, <5>1, <5>2 DEF FrameSet, Frame
      <4> QED  BY <4>4, <4>5 DEF OnShape, ReturnTop
    <3>3. CASE Top'.pc \in {"loading", "eret"}
      <4>1. elr' \in {<<cur', 2, "loading">>, <<cur', 2, "eret">>}
        BY <1>1, <1>4, <3>1, <3>3
      <4>2. Spins'  BY <1>1, <1>11, <2>2, <3>3, <4>1 DEF Spins, Inner
      <4> QED  BY <4>2 DEF OnShape
    <3> QED  BY <3>1, <3>2, <3>3
  <2> QED  BY <1>7, <2>1, <2>2
<1>13. Top'.pc \notin Windows
  <2>1. FrameOK(Top')  BY <1>1, CurrentNext DEF FrameOK
  <2> QED  BY <1>9, <2>1 DEF FrameOK
<1>14. cur = User => (Intr' <=> Intr)  BY <1>1 DEF Gone, Intr, Exited
<1>15. SavedOK' /\ LeavesOK'
  <2>1. ~(cur = User /\ Exited)  BY <1>1 DEF Gone
  <2> QED  BY <1>1, <1>11, <1>13, <2>1 DEF SavedOK, LeavesOK, Windows, Intr
<1>16. HitTask(cur)' => HitTask(cur)
  <2> SUFFICES ASSUME HitTask(cur)' PROVE HitTask(cur)  OBVIOUS
  <2>1. Len(stack') >= 2 /\ stack'[2].pc \in {"loading", "eret"}
    BY <1>1, <1>10 DEF HitTask
  <2>2. Depth = 3 /\ stack'[2] = stack[2]  BY <1>2, <1>6, <2>1
  <2> QED  BY <1>2, <2>1, <2>2 DEF HitTask
<1>17. Statuses'  BY <1>1, StatusesKept
<1>18. TimerOK'
  <2>1. CASE timer = "armed"
    <3>1. ~Spinning  BY <1>1, <1>2 DEF Spinning
    <3>2. Depth' = 1  BY <1>2, <1>6, <1>8, <2>1, <3>1
    <3> QED  BY <1>10, <3>2 DEF TimerOK
  <2>2. CASE timer # "armed"  BY <1>1, <2>2, UpTypes DEF TimerOK
  <2> QED  BY <2>1, <2>2
<1> QED
  BY <1>1, <1>2, <1>10, <1>12, <1>14, <1>15, <1>16, <1>17, <1>18, SameTurn

(* For the program that has exited: it goes on where its switch_to was      *)
(* interrupted.  The context that the nested switch_to has saved over its   *)
(* own is stale then.                                                       *)
LEMMA eretGone ==
  ASSUME IInv, SInv, eret, Gone(cur), IInv'
  PROVE  SInv'
<1>1. /\ Up /\ Up' /\ Top.pc = "eret" /\ elr[2] < Depth
      /\ stack' = SubSeq(stack, 1, elr[2])
      /\ UNCHANGED <<phase, cur, ctx, task_id, status, resched, run_queue, elr, timer, scan>>
  BY DEF eret, Up
<1>2. /\ ~AtMsr /\ Depth \in {2, 3} /\ Running = cur /\ Stack(cur) = stack
      /\ Depth = Len(stack) /\ stack \in Seq(FrameSet) /\ stack[Depth] = Top
      /\ cur \in Created /\ cur \in Tasks
      /\ cur = User /\ Intr /\ Away = {Idle} /\ timer # "armed"
      /\ Above(cur, stack) /\ ReturnTop
  BY <1>1, ReturnPc
<1>3. Exited /\ Exited' /\ Gone(cur)' /\ ~Lost'
  BY <1>1, Ids DEF Gone, Exited, Up, Lost
<1>4. elr = <<cur, Depth - 1, stack[Depth - 1].pc>>
  BY <1>1, <1>2 DEF ReturnTop, Frame
<1>5. stack' = Front(stack)  BY <1>1, <1>2, <1>4 DEF Front
<1>6. /\ Len(stack') = Depth - 1 /\ stack' \in Seq(FrameSet)
      /\ \A i \in 1..(Depth - 1) : stack'[i] = stack[i]
  BY <1>2, <1>5, FrontOf
<1>7. Halfway(stack') \/ (stack' = Marked(Idle) /\ Whole(ctx[Idle]) /\ Len(stack') <= 2)
  BY <1>2, <1>5 DEF Above, Base
<1>8. Depth' = Len(stack') /\ Top' = stack'[Len(stack')]  BY DEF Depth, Top
<1>9. NestedSave'
  <2>1. PICK x : x = ctx[cur]  OBVIOUS
  <2>2. x = WithTop(Frame("return", NULL)) /\ x \in Seq(FrameSet)
    BY <1>1, <1>2, <2>1, UpTypes DEF SInv, SavedOK
  <2>3. FrameOK(Frame("return", NULL)) /\ Frame("return", NULL).pc = "return"
        /\ Frame("return", NULL) \in FrameSet
    BY NewFrame DEF Places, Windows, FrameOK
  <2>4. /\ Len(x) = Depth /\ x[Depth] = Frame("return", NULL)
        /\ \A i \in 1..(Depth - 1) : x[i] = stack[i]
    BY <1>1, <1>2, <2>2, <2>3, NewTop
  <2>5. PICK f : f = stack'  OBVIOUS
  <2>6. PICK g : g = Frame("return", NULL)  OBVIOUS
  <2> DEFINE h == Append(f, g)
  <2>7. /\ h \in Seq(FrameSet) /\ Len(h) = Len(f) + 1 /\ h[Len(f) + 1] = g
        /\ \A i \in 1..Len(f) : h[i] = f[i]
        /\ IsStrictPrefix(f, h)
    BY <1>6, <2>3, <2>5, <2>6, Pushed
  <2> HIDE DEF h
  <2>8. h = x
    <3>1. Len(h) = Depth /\ Len(f) = Depth - 1  BY <1>2, <1>6, <2>5, <2>7
    <3>2. ASSUME NEW i \in 1..Len(h) PROVE h[i] = x[i]
      <4>1. CASE i = Depth  BY <1>2, <2>4, <2>6, <2>7, <3>1, <4>1
      <4>2. CASE i # Depth
        <5>1. i \in 1..(Depth - 1)  BY <1>2, <3>1, <4>2
        <5> QED  BY <1>6, <2>4, <2>5, <2>7, <3>1, <5>1
      <4> QED  BY <4>1, <4>2
    <3> QED  BY <2>2, <2>4, <2>7, <3>1, <3>2, SeqEqual
  <2> QED  BY <1>1, <2>1, <2>5, <2>7, <2>8 DEF NestedSave
<1>10. KeptContexts[cur]' = Stale
  <2>1. (KeptContexts[cur] = IF NestedSave THEN Stale ELSE ctx[cur])'  BY <1>1, KeptNext
  <2> QED  BY <1>9, <2>1
<1>11. /\ Running' = Idle /\ ~Intr' /\ LeavesOK'
       /\ Top'.pc \notin {"switch", "switching"} /\ ~HitTask(User)'
       /\ AtMsr' => stack' = Marked(Idle) /\ Top'.next = Idle /\ OffShape(User)'
       /\ ~AtMsr' => OnShape'
  <2>1. CASE Halfway(stack')
    <3>1. /\ Len(stack') = 2 /\ Top'.pc \in {"exit", "exiting"} /\ Top'.next = Idle
          /\ stack'[1].next = NULL /\ stack'[2] = Top'
      BY <1>8, <2>1 DEF Halfway
    <3>2. ~AtMsr' /\ Running' = Idle  BY <1>1, <3>1, Ids DEF AtMsr, Windows, Running
    <3>3. Stack(User)' = stack'  BY <1>1, <1>2, <3>2 DEF Stack
    <3>4. ~Intr' /\ ~HitTask(User)'
      <4>1. /\ Len(Stack(User)') = 2 /\ Stack(User)'[1].next # Idle
            /\ Stack(User)'[2].pc \in {"exit", "exiting"}
        BY <3>1, <3>3, Ids
      <4>2. ~Intr'  BY <4>1 DEF Intr
      <4>3. ~HitTask(User)'  BY <4>1 DEF HitTask
      <4> QED  BY <4>2, <4>3
    <3>5. LeavesOK'  BY <1>10 DEF LeavesOK, Left
    <3>6. OnShape'  BY <1>3, <2>1 DEF OnShape, Halfway
    <3> QED  BY <3>1, <3>2, <3>4, <3>5, <3>6
  <2>2. CASE stack' = Marked(Idle) /\ Whole(ctx[Idle])
    <3>1. /\ Len(stack') = Len(ctx[Idle])
          /\ stack'[Len(ctx[Idle])] = Frame(ctx[Idle][Len(ctx[Idle])].pc, Idle)
      BY <2>2, MarkedFacts, Ids
    <3>2. Top'.pc \in {"kernel", "return"} /\ Top'.next = Idle
      BY <1>8, <2>2, <3>1 DEF Frame, Whole
    <3>3. AtMsr' /\ Running' = Idle  BY <1>1, <3>2, Ids DEF AtMsr, Windows, Running
    <3>4. Stack(User)' = Stale  BY <1>1, <1>2, <1>10, <3>3 DEF Stack
    <3>5. Left(Stack(User))'  BY <3>4 DEF Left
    <3>6. ~Intr' /\ ~HitTask(User)'  BY <3>5, LeftFactsNext
    <3>7. OffShape(User)'  BY <1>1, <1>2, <1>3, <3>5 DEF OffShape
    <3>8. LeavesOK'  BY <3>2 DEF LeavesOK
    <3> QED  BY <2>2, <3>2, <3>3, <3>6, <3>7, <3>8
  <2> QED  BY <1>7, <2>1, <2>2
<1>12. Shapes' /\ AtMsrOK' /\ SavedOK'
  <2>1. Marked(Idle)' = Marked(Idle)  BY <1>1 DEF Marked
  <2>2. AtMsrOK'  BY <1>1, <1>2, <1>11, <2>1, Ids DEF AtMsrOK
  <2>3. ASSUME NEW t \in Created, t # cur' \/ AtMsr' PROVE OffShape(t)'
    <3>1. CASE t = cur  BY <1>1, <1>2, <1>11, <2>3, <3>1
    <3>2. CASE t # cur  BY <1>1, <3>2, Others
    <3> QED  BY <3>1, <3>2
  <2>4. SavedOK'  BY <1>11 DEF SavedOK
  <2> QED  BY <1>11, <2>2, <2>3, <2>4 DEF Shapes
<1>13. Statuses'  BY <1>1, StatusesKept
<1>14. QueueExact' /\ CallerLast' /\ InTurn'
  <2>1. Away' = {User} /\ Running' = Idle  BY <1>3, <1>11 DEF Away
  <2>2. QueueExact  BY <1>1 DEF SInv
  <2>3. QueueExact'
    BY <1>1, <1>2, <1>11, <2>1, <2>2, Ids DEF QueueExact
  <2> QED  BY <1>1, <1>2, <1>3, <2>1, <2>3 DEF CallerLast, InTurn
<1>15. HitOnce'
  <2>1. ASSUME NEW t \in Created, HitTask(t)' PROVE HitTask(t)
    <3>1. CASE t = User  BY <1>11, <2>1, <3>1
    <3>2. CASE t # User  BY <1>1, <1>2, <2>1, <3>2, Others
    <3> QED  BY <3>1, <3>2
  <2> QED  BY <1>1, <2>1 DEF SInv, HitOnce
<1>16. TimerOK'  BY <1>1, <1>2, UpTypes DEF TimerOK
<1> QED  BY <1>3, <1>11, <1>12, <1>13, <1>14, <1>15, <1>16 DEF SInv

LEMMA eretS ==
  ASSUME IInv, SInv, eret, IInv'
  PROVE  SInv'
BY eretOther, eretGone

(* Only a program that has exited leads to a return path that is hit.       *)
LEMMA eret_againS ==
  ASSUME IInv, SInv, eret_again
  PROVE  SInv'
<1>1. /\ Up /\ Top.pc = "eret" /\ elr = <<cur, Depth, "loading">>
      /\ phase' = User + 2 /\ status' = status
  BY DEF eret_again
<1>2. Depth \in {2, 3} /\ (Spins \/ ReturnTop)  BY <1>1, ReturnPc
<1>3. ~ReturnTop  BY <1>1, <1>2 DEF ReturnTop, Frame
<1>4. Exited  BY <1>2, <1>3 DEF Spins
<1>5. ~Up' /\ Exited'  BY <1>1, <1>4, Ids DEF Up, Exited
<1> QED  BY <1>5 DEF SInv
-----------------------------------------------------------------------------
(***************************************************************************)
(* The tasks' own code.                                                     *)
(***************************************************************************)
LEMMA OwnCode ==
  ASSUME IInv, SInv, NEW t \in Created, NEW p \in {"kernel", "user"}, InTask(t, p)
  PROVE  /\ Up /\ cur = t /\ Top.pc = p /\ Top.next = NULL /\ Depth = 1 /\ Len(stack) = 1
         /\ ~AtMsr /\ ~Gone(cur) /\ Own(stack) /\ Running = cur /\ Stack(cur) = stack
         /\ stack[1] = Top /\ (t = User => ~Exited)
<1>1. Up /\ cur = t /\ Top.pc = p /\ Top.next = NULL  BY DEF InTask, Frame
<1>2. ~AtMsr /\ Running = cur /\ Stack(cur) = stack  BY <1>1 DEF AtMsr, Running, Stack
<1>3. Depth = 1  BY <1>1, CurrentStack
<1>4. Len(stack) = 1 /\ stack[1] = Top  BY <1>3 DEF Depth, Top
<1>5. ~Gone(cur)  BY <1>1, <1>2, <1>3, OnGone
<1>6. Own(stack)  BY <1>1, <1>4 DEF Own
<1> QED  BY <1>1, <1>2, <1>3, <1>4, <1>5, <1>6 DEF Gone

LEMMA do_execS ==
  ASSUME IInv, SInv, do_exec, IInv'
  PROVE  SInv'
<1>1. /\ InTask(User, "kernel") /\ stack' = <<Frame("user", NULL)>>
      /\ UNCHANGED <<phase, cur, ctx, task_id, status, resched, run_queue, timer, scan>>
  BY DEF do_exec
<1>2. Up /\ cur = User /\ ~AtMsr /\ Running = cur /\ ~Exited
  BY <1>1, OwnCode, Ids
<1>3. Up'  BY <1>1, <1>2 DEF Up
<1>4. stack' = <<Frame("user", NULL)>> /\ Len(stack') = 1 /\ stack'[1].next = NULL
      /\ stack'[1].pc = "user" /\ Depth' = 1 /\ Top' = stack'[1]
  BY <1>1, OwnFrame DEF Frame, Depth, Top
<1>5. ~AtMsr' /\ Running' = Running /\ Stack(cur)' = stack'
  BY <1>1, <1>2, <1>4 DEF AtMsr, Running, Stack
<1>6. ~Exited'  BY <1>1, <1>2 DEF Exited
<1>7. OnShape' /\ LeavesOK' /\ SavedOK' /\ (Intr' <=> Intr)
  BY <1>2, <1>4, <1>6 DEF OnShape, Own, Gone, LeavesOK, SavedOK, Intr
<1>8. HitTask(cur)' => HitTask(cur)  BY <1>1, <1>4, <1>5 DEF HitTask
<1>9. TimerOK' /\ Statuses'  BY <1>1, <1>2, <1>4, <1>5, StatusesKept DEF TimerOK
<1> QED  BY <1>1, <1>2, <1>3, <1>5, <1>7, <1>8, <1>9, SameTurn

LEMMA syscallS ==
  ASSUME IInv, SInv, syscall, IInv'
  PROVE  SInv'
<1>1. /\ InTask(User, "user")
      /\ UNCHANGED <<phase, cur, stack, ctx, task_id, status, resched, run_queue, timer, scan>>
  BY DEF syscall
<1>2. /\ Up /\ cur = User /\ ~AtMsr /\ Running = cur /\ ~Exited /\ Depth = 1
      /\ Top.next = NULL /\ Top.pc = "user" /\ Len(stack) = 1 /\ Own(stack)
  BY <1>1, OwnCode, Ids
<1>3. Up' /\ Depth' = 1 /\ Top' = Top /\ ~Exited'
  BY <1>1, <1>2 DEF Up, Depth, Top, Exited
<1>4. ~AtMsr' /\ Running' = Running /\ Stack(cur)' = stack'
  BY <1>1, <1>2, <1>3 DEF AtMsr, Running, Stack
<1>5. OnShape' /\ LeavesOK' /\ SavedOK' /\ (Intr' <=> Intr)
  BY <1>1, <1>2, <1>3 DEF OnShape, Own, Gone, LeavesOK, SavedOK, Intr
<1>6. HitTask(cur)' => HitTask(cur)
  <2>1. Len(Stack(cur)') = 1  BY <1>1, <1>2, <1>4
  <2> QED  BY <1>1, <2>1 DEF HitTask
<1>7. TimerOK' /\ Statuses'  BY <1>1, <1>2, <1>3, <1>4, StatusesKept DEF TimerOK
<1> QED  BY <1>1, <1>2, <1>3, <1>4, <1>5, <1>6, <1>7, SameTurn

(* The program exits: the queue holds the others in their order, the idle   *)
(* task at its head.                                                        *)
LEMMA sys_exitS ==
  ASSUME IInv, SInv, sys_exit, IInv'
  PROVE  SInv'
<1>1. /\ InTask(User, "user")
      /\ status' = [status EXCEPT ![User] = "DEAD"]
      /\ run_queue' = QRest(QRemove(run_queue, User))
      /\ stack' = Append(stack, IF QRemove(run_queue, User) = <<>> THEN Frame("return", NULL)
                                ELSE Frame("exit", Head(QRemove(run_queue, User))))
      /\ UNCHANGED <<phase, cur, ctx, task_id, resched, timer, scan>>
  BY DEF sys_exit
<1>2. /\ Up /\ cur = User /\ ~AtMsr /\ Running = cur /\ ~Exited /\ Depth = 1
      /\ Top.next = NULL /\ Top.pc = "user" /\ Len(stack) = 1 /\ Own(stack)
      /\ Stack(cur) = stack
  BY <1>1, OwnCode, Ids
<1>3. /\ Up' /\ ~Lost' /\ User \in Tasks /\ User \in Created
      /\ stack \in Seq(FrameSet) /\ run_queue \in Seq(Created)
  BY <1>1, <1>2, CurrentStack, UpTypes, Ids DEF Up, Lost
<1>4. Exited' /\ \A t \in Tasks : t # User => status'[t] = status[t]
  BY <1>1, <1>2, <1>3, UpTypes DEF Exited
<1>5. /\ QueueExact /\ NoDuplicates(run_queue) /\ ~Contains(run_queue, User)
      /\ run_queue # <<>> /\ run_queue[1] = Idle /\ Away = {}
  <2>1. /\ Len(run_queue) = User - 1
        /\ run_queue[1] = IF User + 1 <= User THEN User + 1 ELSE User + 1 - User
    BY <1>2, Ids DEF SInv, InTurn
  <2>2. run_queue[1] = Idle /\ run_queue # <<>>  BY <2>1, Ids, EmptySeq
  <2> QED  BY <1>2, <1>3, <2>2 DEF SInv, QueueExact, Away
<1>6. QRemove(run_queue, User) = run_queue  BY <1>5 DEF QRemove
<1>7. /\ NoDuplicates(run_queue')
      /\ \A t : Contains(run_queue', t) <=> Contains(run_queue, t) /\ t # Idle
  BY <1>1, <1>3, <1>5, <1>6, PopNoDuplicates, PopContains
<1>8. PICK g : g = Frame("exit", Idle) /\ g.pc = "exit" /\ g.next = Idle /\ g \in FrameSet
  BY NewFrame, Ids DEF Places, Windows, FrameOK
<1>9. stack' = Append(stack, g)
  <2>1. Head(run_queue) = Idle  BY <1>3, <1>5, HeadTailProperties
  <2> QED  BY <1>1, <1>5, <1>6, <1>8, <2>1
<1>10. /\ Len(stack') = 2 /\ stack'[2] = g /\ stack'[1] = stack[1]
  <2>1. /\ Len(stack') = Len(stack) + 1 /\ stack'[Len(stack) + 1] = g
        /\ \A i \in 1..Len(stack) : stack'[i] = stack[i]
    BY <1>3, <1>8, <1>9, Pushed
  <2> QED  BY <1>2, <2>1
<1>11. Top' = g /\ ~AtMsr' /\ Running' = Idle /\ Stack(User)' = stack'
  <2>1. Top' = g  BY <1>10 DEF Top, Depth
  <2> QED  BY <1>1, <1>2, <1>3, <1>8, <2>1, Ids DEF AtMsr, Windows, Running, Stack
<1>12. Halfway(stack)'  BY <1>2, <1>8, <1>10, Ids DEF Halfway, Own
<1>13. ~Intr' /\ ~HitTask(User)'
  <2>1. /\ Len(Stack(User)') = 2 /\ Stack(User)'[1].next # Idle
        /\ Stack(User)'[2].pc = "exit"
    BY <1>2, <1>8, <1>10, <1>11, Ids DEF Own
  <2>2. ~Intr'  BY <2>1 DEF Intr
  <2>3. ~HitTask(User)'  BY <2>1 DEF HitTask
  <2> QED  BY <2>2, <2>3
<1>14. Away' = {User}  BY <1>4, <1>13 DEF Away
<1>15. ASSUME NEW t \in Created, t # User
       PROVE  /\ Stack(t)' = Stack(t) /\ OffShape(t)' /\ Len(Stack(t)') <= 2 /\ ~HitTask(t)'
  <2>1. Stack(t)' = Stack(t)  BY <1>1, <1>2, <1>15 DEF Stack
  <2>2. OffShape(t) /\ ~Gone(t) /\ ~Gone(t)'  BY <1>2, <1>15 DEF SInv, Shapes, Gone
  <2>3. OffShape(t)'
    BY <1>2, <2>1, <2>2 DEF OffShape, Own, Above, Base
  <2>4. Len(Stack(t)) <= 2  BY <1>2, <2>2, OffFacts
  <2>5. ~HitTask(t)'
    <3>1. Len(Stack(t)) \in Nat  BY <1>2, StackTypes
    <3>2. PICK n : n = Len(Stack(t))  OBVIOUS
    <3>4. n >= 2 => n = 2  BY <2>4, <3>1, <3>2
    <3>5. Len(Stack(t)') = n  BY <2>1, <3>2
    <3>3. t # cur'  BY <1>1, <1>2, <1>15
    <3> QED  BY <3>3, <3>4, <3>5 DEF HitTask
  <2> QED  BY <2>1, <2>3, <2>4, <2>5
<1>16. Shapes' /\ AtMsrOK' /\ SavedOK' /\ LeavesOK'
  <2>1. Gone(cur)'  BY <1>1, <1>2, <1>4 DEF Gone
  <2> QED
    BY <1>1, <1>2, <1>8, <1>11, <1>12, <1>13, <1>15, <2>1
       DEF Shapes, OnShape, AtMsrOK, SavedOK, LeavesOK
<1>17. Statuses'
  <2>1. Statuses  BY <1>2 DEF SInv
  <2> QED  BY <1>1, <1>2, <1>4, <2>1, Ids DEF Statuses, Gone
<1>18. QueueExact' /\ CallerLast' /\ InTurn'
  <2>1. QueueExact'
    BY <1>2, <1>5, <1>7, <1>11, <1>13, <1>14, Ids DEF QueueExact
  <2> QED  BY <1>1, <1>2, <1>4, <1>14, <2>1 DEF CallerLast, InTurn
<1>19. \A t \in Created : ~HitTask(t)' /\ Len(Stack(t)') <= 2
  <2>1. Len(Stack(User)') <= 2  BY <1>10, <1>11
  <2> QED  BY <1>13, <1>15, <2>1
<1>20. HitOnce' /\ TimerOK'
  <2>1. Fresh'  BY <1>1, <1>2, <1>4, <1>11, <1>12, <1>19 DEF Fresh
  <2> QED  BY <1>19, <2>1 DEF HitOnce, TimerOK
<1> QED  BY <1>3, <1>16, <1>17, <1>18, <1>20 DEF SInv

(* The idle task recycles the slot of a program that has left the CPU.      *)
LEMMA IdleCodeS ==
  ASSUME IInv, SInv, IdleCode, IInv'
  PROVE  SInv'
<1>1. /\ InTask(Idle, "kernel")
      /\ UNCHANGED <<phase, cur, stack, ctx, status, resched, run_queue, elr, timer>>
      /\ task_id' = task_id \/ task_id' = Reaped
  BY DEF IdleCode, idle_task, idle_schedule
<1>2. /\ Up /\ cur = Idle /\ ~AtMsr /\ Running = cur /\ Depth = 1
      /\ Top.next = NULL /\ Top.pc = "kernel" /\ Len(stack) = 1 /\ Own(stack)
  BY <1>1, OwnCode, Ids
<1>3. Up' /\ Depth' = 1 /\ Top' = Top /\ (Exited' <=> Exited)
  BY <1>1, <1>2 DEF Up, Depth, Top, Exited
<1>4. ~AtMsr' /\ Running' = Running /\ Stack(cur)' = stack'
  BY <1>1, <1>2, <1>3 DEF AtMsr, Running, Stack
<1>5. OnShape' /\ LeavesOK' /\ SavedOK'
  BY <1>1, <1>2, <1>3, Ids DEF OnShape, Own, Gone, LeavesOK, SavedOK
<1>6. HitTask(cur)' => HitTask(cur)
  <2>1. Len(Stack(cur)') = 1  BY <1>1, <1>2, <1>4
  <2> QED  BY <1>1, <2>1 DEF HitTask
<1>7. TimerOK'  BY <1>3, <1>4 DEF TimerOK
<1>8. Statuses'
  <2> SUFFICES ASSUME NEW t \in Created
               PROVE  /\ status'[t] = "DEAD" => t = User
                      /\ task_id'[t] = 0 => Gone(t)' /\ Left(Stack(t))' /\ t # cur'
    BY DEF Statuses
  <2>1. /\ status[t] = "DEAD" => t = User
        /\ task_id[t] = 0 => Gone(t) /\ Left(Stack(t)) /\ t # cur
    BY <1>2 DEF SInv, Statuses
  <2>2. ASSUME task_id'[t] = 0 PROVE Gone(t) /\ Left(Stack(t)) /\ t # cur
    <3>1. CASE task_id[t] = 0  BY <2>1, <3>1
    <3>2. CASE task_id[t] # 0
      <4>1. status[t] = "DEAD"
        BY <1>1, <2>2, <3>2, Ids DEF Reaped, IInv, TypeOK
      <4>2. Gone(t) /\ t # cur  BY <1>2, <2>1, <4>1, Ids DEF Gone, Exited
      <4>3. t = User /\ Exited  BY <4>2 DEF Gone
      <4>4. ~Intr  BY <1>2 DEF SInv, QueueExact
      <4>5. OffShape(t)  BY <1>2, <4>2 DEF SInv, Shapes
      <4>6. ~Above(t, Stack(t))  BY <1>2, <4>3, <4>4, GoneAbove
      <4> QED  BY <4>2, <4>5, <4>6 DEF OffShape
    <3> QED  BY <3>1, <3>2
  <2>3. t # cur => Stack(t)' = Stack(t)  BY <1>1 DEF Stack
  <2> QED  BY <1>1, <2>1, <2>2, <2>3 DEF Gone, Exited, Left
<1>9. cur # User  BY <1>2, Ids
<1> QED  BY <1>1, <1>2, <1>3, <1>4, <1>5, <1>6, <1>7, <1>8, <1>9, SameTurn
-----------------------------------------------------------------------------
(* Boot.                                                                    *)
LEMMA task_createS ==
  ASSUME IInv, task_create
  PROVE  SInv'
<1>1. Booting /\ phase < User /\ phase' = phase + 1 /\ phase \in Nat
  BY NextSlot DEF task_create
<1>2. ~Up' /\ ~Lost'  BY <1>1, Ids DEF Up, Lost
<1> QED  BY <1>2 DEF SInv

LEMMA task_userS ==
  ASSUME IInv, task_user, IInv'
  PROVE  SInv'
<1>1. /\ Booting /\ phase = User /\ phase' = User + 1 /\ Up' /\ ~Lost'
      /\ cur' = Idle /\ stack' = ctx[Idle] /\ run_queue' = QRest(run_queue)
      /\ UNCHANGED <<ctx, task_id, status, resched, elr, timer, scan>>
  BY Ids DEF task_user, Up, Booting, Lost
<1>2. /\ task_id = [t \in Tasks |-> IF t <= User THEN t ELSE 0]
      /\ run_queue = [i \in 1..User |-> i]
      /\ \A t \in Created : status[t] = "READY" /\ ctx[t] = <<Frame("kernel", NULL)>>
  BY <1>1, Ids DEF IInv, BootOK, Created
<1>3. PICK h : h = <<Frame("kernel", NULL)>>  OBVIOUS
<1>4. StackOK(h) /\ Len(h) = 1 /\ h[1].pc = "kernel" /\ h[1].next = NULL
  BY <1>3, OwnFrame DEF Frame
<1>5. stack' = h /\ \A t \in Created : ctx'[t] = h  BY <1>1, <1>2, <1>3, Ids
<1>6. Top'.pc = "kernel" /\ Top'.next = NULL /\ Depth' = 1
  BY <1>4, <1>5 DEF Top, Depth
<1>7. ~AtMsr' /\ Running' = Idle  BY <1>1, <1>6 DEF AtMsr, Running
<1>8. ASSUME NEW t \in Created PROVE Stack(t)' = h  BY <1>1, <1>5, <1>7 DEF Stack
<1>9. ~Exited'  BY <1>1, <1>2, Ids DEF Exited
<1>10. Shapes' /\ AtMsrOK' /\ SavedOK' /\ LeavesOK'
  <2>1. ASSUME NEW t \in Created PROVE OffShape(t)'
    <3>1. Own(Stack(t))'  BY <1>4, <1>8 DEF Own
    <3> QED  BY <1>9, <3>1 DEF OffShape, Gone
  <2>2. OnShape'  BY <1>4, <1>5, <1>9 DEF OnShape, Own, Gone
  <2> QED  BY <1>6, <1>7, <1>9, <2>1, <2>2 DEF Shapes, AtMsrOK, SavedOK, LeavesOK, Intr
<1>11. Statuses'
  BY <1>1, <1>2, Ids DEF Statuses, Created
<1>12. /\ Len(run_queue') = User - 1
       /\ \A i \in 1..(User - 1) : run_queue'[i] = i + 1
       /\ NoDuplicates(run_queue')
       /\ \A t \in Created : Contains(run_queue', t) <=> t # Idle
  <2>1. /\ run_queue \in Seq(Created) /\ Len(run_queue) = User
        /\ \A i \in 1..User : run_queue[i] = i
    BY <1>2, Ids DEF IInv, TypeOK
  <2>2. run_queue # <<>>  BY <2>1, Ids, EmptySeq
  <2>3. /\ Len(run_queue') = User - 1
        /\ \A i \in 1..(User - 1) : run_queue'[i] = run_queue[i + 1]
    BY <1>1, <2>1, <2>2, PopProperties
  <2>4. ASSUME NEW i \in 1..(User - 1) PROVE run_queue'[i] = i + 1
    BY <2>1, <2>3, Ids
  <2>5. NoDuplicates(run_queue')  BY <2>3, <2>4, Ids DEF NoDuplicates
  <2>6. ASSUME NEW t \in Created PROVE Contains(run_queue', t) <=> t # Idle
    <3>1. t \in 1..User  BY DEF Created
    <3>2. CASE t = Idle
      <4>1. \A i \in 1..(User - 1) : run_queue'[i] # t  BY <2>4, <3>2, Ids
      <4> QED  BY <2>3, <3>2, <4>1 DEF Contains
    <3>3. CASE t # Idle
      <4>1. t - 1 \in 1..(User - 1) /\ (t - 1) + 1 = t  BY <3>1, <3>3, Ids
      <4>2. run_queue'[t - 1] = t  BY <2>4, <4>1
      <4> QED  BY <2>3, <3>3, <4>1, <4>2 DEF Contains
    <3> QED  BY <3>2, <3>3
  <2> QED  BY <2>3, <2>4, <2>5, <2>6
<1>13. QueueExact' /\ CallerLast' /\ InTurn'
  <2>1. Away' = {} /\ ~Intr'  BY <1>9 DEF Away, Intr
  <2>2. QueueExact'  BY <1>7, <1>12, <2>1 DEF QueueExact
  <2>3. ASSUME NEW i \in 1..(User - 1)
        PROVE  run_queue'[i] = IF Idle + i <= User THEN Idle + i ELSE Idle + i - User
    BY <1>12, Ids
  <2> QED  BY <1>1, <1>7, <1>12, <2>2, <2>3 DEF CallerLast, InTurn
<1>14. HitOnce' /\ TimerOK'
  <2>1. ASSUME NEW t \in Created PROVE ~HitTask(t)'  BY <1>4, <1>8 DEF HitTask
  <2> QED  BY <1>6, <1>7, <2>1 DEF HitOnce, TimerOK
<1> QED  BY <1>1, <1>10, <1>11, <1>13, <1>14 DEF SInv
-----------------------------------------------------------------------------
LEMMA InitS == Init => SInv
<1> SUFFICES ASSUME Init PROVE SInv
  OBVIOUS
<1>1. ~Up /\ ~Lost  BY Ids DEF Init, Up, Lost
<1> QED  BY <1>1 DEF SInv

LEMMA StutterS ==
  ASSUME IInv, SInv, UNCHANGED vars
  PROVE  SInv'
<1>1. /\ UNCHANGED <<phase, cur, stack, ctx, task_id, status, resched, run_queue, elr, timer>>
  BY DEF vars
<1>2. /\ (Up' <=> Up) /\ (Lost' <=> Lost) /\ Depth' = Depth /\ Top' = Top
      /\ (AtMsr' <=> AtMsr) /\ KeptContexts' = KeptContexts /\ (Exited' <=> Exited)
      /\ Running' = Running /\ (Spinning' <=> Spinning)
  BY <1>1 DEF Up, Lost, Depth, Top, AtMsr, KeptContexts, NestedSave, Exited, Running, Spinning
<1>3. \A t : Stack(t)' = Stack(t) /\ Marked(t)' = Marked(t)
             /\ (Gone(t)' <=> Gone(t))
  BY <1>1, <1>2 DEF Stack, Marked, Gone
<1>4. CASE ~Up  BY <1>2, <1>4 DEF SInv
<1>5. CASE Up
  <2>1. (Intr' <=> Intr) /\ Away' = Away  BY <1>2, <1>3 DEF Intr, Away
  <2>2. \A t : HitTask(t)' <=> HitTask(t)  BY <1>1, <1>3 DEF HitTask
  <2>3. \A t : OffShape(t)' <=> OffShape(t)
    BY <1>1, <1>2, <1>3 DEF OffShape, Own, Left, Above, Base, Inner, Halfway
  <2>4. OnShape' <=> OnShape
    BY <1>1, <1>2, <1>3 DEF OnShape, Own, Halfway, Spins, Inner, Above, Base, SwitchTop,
                            ReturnTop
  <2>5. Shapes' /\ AtMsrOK' /\ SavedOK' /\ LeavesOK' /\ Statuses'
    BY <1>1, <1>2, <1>3, <1>5, <2>1, <2>3, <2>4
       DEF SInv, Shapes, AtMsrOK, SavedOK, WithTop, LeavesOK, Left, Statuses
  <2>6. QueueExact' /\ CallerLast' /\ InTurn' /\ HitOnce'
    BY <1>1, <1>2, <1>5, <2>1, <2>2 DEF SInv, QueueExact, CallerLast, InTurn, HitOnce
  <2>7. Fresh' <=> Fresh
    BY <1>1, <1>2, <1>3, <2>2 DEF Fresh, Halfway, Left
  <2>8. TimerOK'  BY <1>1, <1>2, <1>5, <2>7 DEF SInv, TimerOK
  <2> QED  BY <1>2, <1>5, <2>5, <2>6, <2>8 DEF SInv
<1> QED  BY <1>4, <1>5

LEMMA StepS == Paced => (IInv /\ IInv' /\ SInv /\ [Next]_vars => SInv')
<1> SUFFICES ASSUME Paced, IInv, IInv', SInv, [Next]_vars PROVE SInv'
  OBVIOUS
<1> QED
  BY StutterS, task_createS, task_userS, TimePassesS, irq_handlerS, save_contextS,
     load_contextS, load_staleS, set_currentS, load_elrS, load_registersS, eretS,
     eret_againS, IdleCodeS, do_execS, syscallS, sys_exitS
     DEF Next, KernelPath, switch_to, load_all

THEOREM ShapeHolds ==
  ASSUME Paced
  PROVE  Spec => [](IInv /\ SInv)
<1>1. IInv /\ SInv /\ [Next]_vars => (IInv /\ SInv)'  BY StepInv, StepS
<1>2. Init => IInv /\ SInv  BY InitInv, InitS
<1> QED  BY <1>1, <1>2, PTL DEF Spec
-----------------------------------------------------------------------------
(***************************************************************************)
(* What the shape shows.                                                    *)
(***************************************************************************)

(* A lost CPU leaves the queue as it is.                                    *)
LEMMA LostQueue ==
  ASSUME IInv, [Next]_vars, Lost'
  PROVE  UNCHANGED <<cur, run_queue>> /\ ~Booting
<1>1. CASE UNCHANGED vars
  <2>1. Lost /\ UNCHANGED <<cur, run_queue>>  BY <1>1 DEF vars, Lost
  <2> QED  BY <2>1, Phases DEF IInv
<1>2. CASE load_stale \/ eret_again
  <2>1. Up /\ UNCHANGED <<cur, run_queue>>  BY <1>2 DEF load_stale, eret_again
  <2> QED  BY <2>1, Phases DEF IInv
<1>3. ASSUME Up, UNCHANGED phase PROVE FALSE  BY <1>3, Ids DEF Up, Lost
<1>4. ~task_create /\ ~task_user
  <2>1. task_create => phase' <= User  BY NextSlot, Ids DEF task_create
  <2>2. task_user => phase' = User + 1  BY DEF task_user
  <2> QED  BY <2>1, <2>2, Ids DEF Lost
<1> QED
  BY <1>1, <1>2, <1>3, <1>4
     DEF Next, TimePasses, irq_handler, KernelPath, switch_to, save_context, load_context,
         set_current, load_all, load_elr, load_registers, eret, IdleCode, idle_task,
         idle_schedule, InTask, do_exec, syscall, sys_exit

LEMMA QueueUp ==
  ASSUME IInv, SInv, Up
  PROVE  QueueWellFormed
<1>1. QueueExact /\ CallerLast  BY DEF SInv
<1>2. cur \in Created  BY CurrentStack
<1> QED  BY <1>1, <1>2 DEF QueueExact, CallerLast, QueueWellFormed

LEMMA QueueBooting ==
  ASSUME IInv, Booting
  PROVE  QueueWellFormed
<1>1. run_queue = [i \in 1..phase |-> i] /\ cur = NULL /\ phase \in Nat
  BY Phases DEF IInv, BootOK
<1>2. Len(run_queue) = phase /\ \A i \in 1..phase : run_queue[i] = i
  <2>1. Len([i \in 1..phase |-> i]) = phase  BY <1>1
  <2> QED  BY <1>1, <2>1
<1> QED  BY <1>1, <1>2 DEF QueueWellFormed, NoDuplicates, Contains

LEMMA QueueNext == (IInv /\ SInv)' => QueueWellFormed' \/ Lost'
<1>1. IInv /\ SInv => QueueWellFormed \/ Lost
  BY QueueUp, QueueBooting, Phases DEF IInv
<1> QED  BY <1>1, PTL

(***************************************************************************)
(* The queue holds each task once, and a running task only as its tail:     *)
(* ticks come in the switch_to of an exit and in the return path behind it, *)
(* and in the tasks' own code.                                              *)
(***************************************************************************)
THEOREM QueueIsWellFormed == ASSUME Paced PROVE Spec => []QueueWellFormed
<1>1. IInv /\ SInv /\ QueueWellFormed /\ (IInv /\ SInv)' /\ [Next]_vars => QueueWellFormed'
  <2> SUFFICES ASSUME IInv, QueueWellFormed, (IInv /\ SInv)', [Next]_vars
               PROVE  QueueWellFormed'
    OBVIOUS
  <2>1. Lost' => QueueWellFormed'  BY LostQueue DEF QueueWellFormed
  <2> QED  BY <2>1, QueueNext
<1>2. Init => QueueWellFormed
  <2>1. Init => Booting  BY Ids DEF Init, Booting
  <2> QED  BY <2>1, InitInv, QueueBooting
<1> QED  BY <1>1, <1>2, ShapeHolds, PTL DEF Spec

(* A task that is not away runs or is queued.                               *)
LEMMA NotAway ==
  ASSUME IInv, SInv, Up, NEW t \in Created, t \notin Away
  PROVE  Live(t)
<1>1. CASE t = Running  BY <1>1 DEF Running, Live
<1>2. CASE t # Running  BY <1>2 DEF SInv, QueueExact, Live
<1> QED  BY <1>1, <1>2

(***************************************************************************)
(* No READY task is ever lost, and its context is whole when it is needed,  *)
(* even when ticks fall into the switch_to of sys_exit, before and behind   *)
(* its mov sp, and into the return path behind it.                          *)
(***************************************************************************)
THEOREM NoTaskIsLost == ASSUME Paced PROVE Spec => []NoTaskLost
<1>1. IInv /\ SInv => NoTaskLost
  <2> SUFFICES ASSUME IInv, SInv, Up, NEW t \in Created, status[t] = "READY"
               PROVE  (Live(t) \/ Held(t)) /\ Stack(t) # Stale
    BY DEF NoTaskLost
  <2>1. ~Gone(t)  BY DEF Gone, Exited
  <2>2. Live(t) \/ Held(t)
    <3>1. CASE t \notin Away  BY <3>1, NotAway
    <3>2. CASE t \in Away
      <4>1. Exited /\ Intr /\ t = Idle /\ Away = {Idle}  BY <2>1, <3>2 DEF Away, Gone
      <4>2. Live(User) /\ User \in Created  BY <4>1, NotAway, Ids
      <4>3. PICK i \in 1..(Len(Stack(User)) - 1) : Stack(User)[i].next = Idle
        BY <4>1 DEF Intr
      <4>4. i \in DOMAIN Stack(User)
        <5>1. PICK f : f = Stack(User) /\ f \in Seq(FrameSet) /\ Len(f) \in Nat
          BY StackTypes, Ids
        <5>2. DOMAIN f = 1..Len(f) /\ i \in 1..Len(f)  BY <4>3, <5>1
        <5> QED  BY <5>1, <5>2
      <4> QED  BY <4>1, <4>2, <4>3, <4>4 DEF Held
    <3> QED  BY <3>1, <3>2
  <2>3. Stack(t) # Stale
    <3>1. CASE t # cur \/ AtMsr
      <4>1. OffShape(t)  BY <3>1 DEF SInv, Shapes
      <4> QED  BY <2>1, <4>1, OffFacts
    <3>2. CASE t = cur /\ ~AtMsr
      <4>1. Stack(t) = stack  BY <3>2 DEF Stack
      <4> QED  BY <4>1, CurrentStack, TopFrame
    <3> QED  BY <3>1, <3>2
  <2> QED  BY <2>2, <2>3
<1> QED  BY <1>1, ShapeHolds, PTL

(***************************************************************************)
(* A pool slot is cleared only when its task is gone for good.              *)
(***************************************************************************)
THEOREM ReapedTaskIsGone == ASSUME Paced PROVE Spec => []ReapedIsGone
<1>1. IInv /\ SInv => ReapedIsGone
  <2> SUFFICES ASSUME IInv, SInv, Up, NEW t \in Created, task_id[t] = 0
               PROVE  ~Live(t) /\ ~Held(t)
    BY DEF ReapedIsGone
  <2>1. Gone(t) /\ Left(Stack(t)) /\ t # cur  BY DEF SInv, Statuses
  <2>2. t = User /\ Exited  BY <2>1 DEF Gone
  <2>3. Away = {User}  BY <2>1, <2>2, LeftFacts DEF Away
  <2>4. ~Contains(run_queue, User) /\ Running # User
    BY <2>2, <2>3 DEF SInv, QueueExact
  <2>5. Top.next # User  BY <2>4, Ids DEF Running
  <2>6. ~Live(t)  BY <2>1, <2>2, <2>4, <2>5 DEF Live
  <2>7. ASSUME NEW u \in Created, u # User, NEW i \in DOMAIN Stack(u)
        PROVE  Stack(u)[i].next # User
    <3>1. PICK f : f = Stack(u) /\ f \in Seq(FrameSet) /\ Len(f) \in Nat
      BY StackTypes
    <3>2. i \in 1..Len(f)  BY <3>1
    <3>3. ~Gone(u)  BY <2>7 DEF Gone
    <3>4. CASE u # cur \/ AtMsr
      <4>1. OffShape(u)  BY <3>4 DEF SInv, Shapes
      <4>2. \A j \in 1..Len(Stack(u)) : Stack(u)[j].next = NULL  BY <3>3, <4>1, OffFacts
      <4> QED  BY <3>1, <3>2, <4>2, Ids
    <3>5. CASE u = cur /\ ~AtMsr
      <4>1. /\ Stack(cur) = stack /\ Depth \in {1, 2, 3} /\ stack[1].next = NULL
            /\ Depth = 3 => stack[2].next = NULL
        BY <3>3, <3>5, OnFacts
      <4>2. f = stack /\ Len(f) = Depth /\ i \in 1..Depth
        BY <3>1, <3>2, <3>5, <4>1 DEF Depth
      <4>3. i = Depth \/ stack[i].next = NULL  BY <4>1, <4>2
      <4> QED  BY <2>5, <3>1, <4>2, <4>3, Ids DEF Top
    <3> QED  BY <3>4, <3>5
  <2>8. ~Held(t)  BY <2>2, <2>6, <2>7 DEF Held
  <2> QED  BY <2>6, <2>8
<1> QED  BY <1>1, ShapeHolds, PTL

(* A program that has exited never gets back to its code.                   *)
THEOREM ExitHolds == ASSUME Paced PROVE Spec => []ExitIsFinal
<1>1. IInv /\ SInv => ExitIsFinal
  <2> SUFFICES ASSUME IInv, SInv, Up, status[cur] = "DEAD"
               PROVE  Top # Frame("user", NULL)
    BY DEF ExitIsFinal
  <2>1. Gone(cur)  BY CurrentStack DEF SInv, Statuses, Gone, Exited
  <2>2. CASE AtMsr  BY <2>2 DEF AtMsr, Frame
  <2>3. CASE ~AtMsr
    <3>1. Depth # 1  BY <2>1, <2>3, OnGone
    <3>2. Top.pc # "user"  BY <3>1, CurrentStack
    <3> QED  BY <3>2 DEF Frame
  <2> QED  BY <2>2, <2>3
<1> QED  BY <1>1, ShapeHolds, PTL
-----------------------------------------------------------------------------
(* A return path that is hit: it lies in the second frame of the task's     *)
(* stack, and it takes an exit.                                             *)
LEMMA HitFacts ==
  ASSUME IInv, SInv, Up, NEW t \in Created, NEW i \in 2..MaxDepth, <<t, i>> \in Hit
  PROVE  i = 2 /\ HitTask(t) /\ Exited
<1>1. PICK f : f = Stack(t) /\ f \in Seq(FrameSet) /\ Len(f) \in Nat
  BY StackTypes
<1>2. /\ i <= Len(f) /\ f[i].pc \in {"loading", "eret"}
      /\ i < Len(f) \/ (elr[1] = t /\ elr[2] = i)
  BY <1>1 DEF Hit
<1>3. i \in Nat /\ i >= 2  OBVIOUS
<1>4. ASSUME Above(User, Stack(User)), t = User, Exited, i < Len(f)
      PROVE  FALSE
  <2>1. Len(f) \in {2, 3}  BY <1>1, <1>4, GoneAbove
  <2>4. PICK n : n = Len(f)  OBVIOUS
  <2>5. i \in Nat /\ i >= 2 /\ i < n /\ n \in {2, 3}  BY <1>3, <1>4, <2>1, <2>4
  <2>6. n = 3 /\ i = 2  BY <2>5
  <2>2. Len(f) = 3 /\ i = 2  BY <2>4, <2>6
  <2>3. /\ Len(Front(f)) = 2 /\ Front(f)[2] = f[2] /\ Base(User, Front(f))
    BY <1>1, <1>4, <2>2, FrontOf DEF Above
  <2> QED  BY <1>2, <1>4, <2>2, <2>3, GoneBase
<1>5. CASE t # cur \/ AtMsr
  <2>1. OffShape(t)  BY <1>5 DEF SInv, Shapes
  <2>2. CASE Gone(t)
    <3>1. t = User /\ Exited  BY <2>2 DEF Gone
    <3>2. CASE Left(f)
      <4>1. CASE f = Stale
        <5>1. Len(f) = 0  BY <4>1, EmptySeq DEF Stale
        <5> QED  BY <1>2, <1>3, <5>1
      <4>2. CASE Len(f) = 2 /\ f[2] = Frame("return", NULL)
        <5>1. i = 2  BY <1>2, <1>3, <4>2
        <5> QED  BY <1>2, <4>2, <5>1 DEF Frame
      <4> QED  BY <3>2, <4>1, <4>2 DEF Left
    <3>3. CASE Above(t, f) /\ f[Len(f)] = Frame("return", NULL)
      <4>1. i # Len(f)  BY <1>2, <3>3 DEF Frame
      <4>2. i < Len(f)  BY <1>1, <1>2, <1>3, <4>1
      <4> QED  BY <1>1, <1>4, <3>1, <3>3, <4>2
    <3> QED  BY <1>1, <2>1, <2>2, <3>2, <3>3 DEF OffShape
  <2>3. CASE ~Gone(t)
    <3>1. /\ Len(f) \in {1, 2, 3} /\ (Len(f) = 3 => Exited)
          /\ Len(f) # 1 => f[Len(f)] = Frame("return", NULL)
      BY <1>1, <2>1, <2>3, OffFacts
    <3>2. i # Len(f)  BY <1>2, <1>3, <3>1 DEF Frame
    <3>3. i = 2 /\ Len(f) = 3  BY <1>2, <1>3, <3>1, <3>2
    <3> QED  BY <1>1, <1>2, <3>1, <3>3 DEF HitTask
  <2> QED  BY <2>2, <2>3
<1>6. CASE t = cur /\ ~AtMsr
  <2>1. f = stack /\ Len(f) = Depth /\ Top = f[Len(f)]
    BY <1>1, <1>6 DEF Stack, Depth, Top
  <2>2. ASSUME i = Len(f) PROVE Depth \in Nat /\ elr[2] = Depth /\ ~SwitchTop /\ ~ReturnTop
    <3>1. Depth \in Nat /\ elr[2] = Depth /\ Top.pc \in {"loading", "eret"}
      BY <1>1, <1>2, <2>1, <2>2
    <3> QED  BY <3>1 DEF SwitchTop, ReturnTop, Frame
  <2>3. CASE Gone(t)
    <3>1. t = User /\ Exited  BY <2>3 DEF Gone
    <3>2. /\ Depth \in {2, 3}
          /\ \/ Halfway(stack) /\ Top.pc \in {"exit", "exiting"}
             \/ Above(cur, stack) /\ (SwitchTop \/ ReturnTop)
      BY <1>6, <2>3, OnGone
    <3>3. CASE Halfway(stack) /\ Top.pc \in {"exit", "exiting"}
      <4>1. Len(f) = 2 /\ f[2].pc \in {"exit", "exiting"}  BY <2>1, <3>3 DEF Halfway
      <4>2. i = 2  BY <1>2, <1>3, <4>1
      <4> QED  BY <1>2, <4>1, <4>2
    <3>4. CASE Above(cur, stack) /\ (SwitchTop \/ ReturnTop)
      <4>1. i # Len(f)  BY <2>2, <3>4
      <4>2. i < Len(f)  BY <1>1, <1>2, <1>3, <4>1
      <4> QED  BY <1>1, <1>4, <1>6, <2>1, <3>1, <3>4, <4>2
    <3> QED  BY <3>2, <3>3, <3>4
  <2>4. CASE ~Gone(t)
    <3>1. /\ Depth \in {1, 2, 3} /\ (Depth = 3 => Exited)
          /\ Depth # 1 => Spins \/ (Above(cur, stack) /\ (SwitchTop \/ ReturnTop))
      BY <1>6, <2>4, OnFacts
    <3>2. CASE i = Len(f)
      <4>1. Depth # 1 /\ elr[2] = Depth  BY <1>3, <2>1, <2>2, <3>2
      <4>2. Spins  BY <2>2, <3>1, <3>2, <4>1
      <4>3. Exited /\ Len(f) = 2  BY <2>1, <4>2 DEF Spins, Inner
      <4> QED  BY <1>1, <1>2, <1>6, <2>1, <3>2, <4>1, <4>3 DEF HitTask
    <3>3. CASE i # Len(f)
      <4>1. i = 2 /\ Len(f) = 3  BY <1>2, <1>3, <2>1, <3>1, <3>3
      <4> QED  BY <1>1, <1>2, <2>1, <3>1, <4>1 DEF HitTask
    <3> QED  BY <3>2, <3>3
  <2> QED  BY <2>3, <2>4
<1> QED  BY <1>5, <1>6

(***************************************************************************)
(* At most one return path is ever hit by a tick between its msr and its    *)
(* eret, once the program has exited; every other eret finds its register   *)
(* intact.  Without an exit the CPU is never lost.                          *)
(***************************************************************************)
THEOREM EretIntact == ASSUME Paced PROVE Spec => []ElrIntact
<1>1. IInv /\ SInv => ElrIntact
  <2> SUFFICES ASSUME IInv, SInv PROVE ElrIntact
    OBVIOUS
  <2>1. Lost => status[User] = "DEAD"  BY DEF SInv, Exited
  <2>2. ASSUME Up, NEW h \in Hit
        PROVE  h[1] \in Created /\ h = <<h[1], 2>> /\ HitTask(h[1]) /\ Exited
    <3>1. PICK t \in Created, i \in 2..MaxDepth : h = <<t, i>>  BY DEF Hit
    <3>2. i = 2 /\ HitTask(t) /\ Exited  BY <2>2, <3>1, HitFacts
    <3> QED  BY <3>1, <3>2
  <2>3. ASSUME Up, NEW g \in Hit, NEW h \in Hit PROVE g = h
    <3>1. g[1] = h[1]  BY <2>2, <2>3 DEF SInv, HitOnce
    <3> QED  BY <2>2, <2>3, <3>1
  <2>4. ASSUME Up, Hit # {} PROVE status[User] = "DEAD"
    BY <2>2, <2>4 DEF Exited
  <2>5. ASSUME Up, Top.pc \in {"loading", "eret"},
               elr # <<cur, Depth - 1, stack[Depth - 1].pc>>
        PROVE  <<cur, Depth>> \in Hit
    <3>1. ~AtMsr  BY <2>5, AtMsrFacts
    <3>2. cur \in Created /\ Depth # 1  BY <2>5, CurrentStack
    <3>3. ~SwitchTop /\ ~ReturnTop  BY <2>5 DEF SwitchTop, ReturnTop, Frame
    <3>4. ~Gone(cur)  BY <2>5, <3>1, <3>3, OnGone
    <3>5. Spins  BY <2>5, <3>1, <3>2, <3>3, <3>4, OnFacts
    <3>6. Stack(cur) = stack /\ Len(stack) = 2 /\ Depth = 2 /\ stack[2] = Top
      BY <3>1, <3>5 DEF Stack, Spins, Inner, Depth, Top
    <3>7. elr[1] = cur /\ elr[2] = 2  BY <3>5 DEF Spins
    <3>8. <<cur, 2>> \in Created \X (2..MaxDepth)  BY <3>2
    <3> QED  BY <2>5, <3>6, <3>7, <3>8 DEF Hit
  <2> QED  BY <2>1, <2>3, <2>4, <2>5 DEF ElrIntact
<1> QED  BY <1>1, ShapeHolds, PTL
-----------------------------------------------------------------------------
(* Without exit the user task stays READY.                                  *)
NoExit == ~Booting => ~Exited

LEMMA NoExitStep ==
  ASSUME ~MayExit, IInv, NoExit, [Next]_vars
  PROVE  NoExit'
<1>1. CASE task_create
  <2>1. phase' <= User  BY <1>1, NextSlot, Ids DEF task_create
  <2> QED  BY <2>1 DEF NoExit, Booting
<1>2. CASE task_user
  <2>1. phase = User /\ status' = status  BY <1>2 DEF task_user
  <2>2. status[User] = "READY"  BY <2>1, Ids DEF Booting, IInv, BootOK
  <2> QED  BY <2>1, <2>2 DEF NoExit, Exited
<1>3. CASE UNCHANGED <<phase, status>>  BY <1>3 DEF NoExit, Booting, Exited
<1>4. CASE load_stale \/ eret_again
  <2>1. ~Booting /\ status' = status
    BY <1>4, Phases DEF load_stale, eret_again, IInv
  <2> QED  BY <2>1 DEF NoExit, Exited
<1> QED
  BY <1>1, <1>2, <1>3, <1>4
     DEF Next, vars, TimePasses, irq_handler, KernelPath, switch_to, save_context,
         load_context, set_current, load_all, load_elr, load_registers, eret, IdleCode,
         idle_task, idle_schedule, do_exec, syscall, sys_exit

THEOREM NeverExited == ASSUME ~MayExit PROVE Spec => []NoExit
<1>1. Init => NoExit  BY Ids DEF Init, NoExit, Booting
<1>2. IInv /\ NoExit /\ [Next]_vars => NoExit'  BY NoExitStep
<1> QED  BY <1>1, <1>2, InvariantHolds, PTL DEF Spec

(* The queue determines whose turn it is.                                   *)
LEMMA WhoseTurn ==
  ASSUME IInv, SInv, Up, ~Exited
  PROVE  /\ Running \in Created /\ Running # 0 /\ Len(run_queue) = User - 1
         /\ run_queue[1] = IF Running + 1 <= User THEN Running + 1 ELSE Running + 1 - User
<1>1. Running \in Created
  <2>1. CASE Top.next # NULL
    <3>1. FrameOK(Top)  BY CurrentStack
    <3> QED  BY <2>1, <3>1 DEF Running, FrameOK
  <2>2. CASE Top.next = NULL  BY <2>2, CurrentStack DEF Running
  <2> QED  BY <2>1, <2>2
<1>2. 1 \in 1..(User - 1)  BY Ids
<1> QED  BY <1>1, <1>2, Ids DEF SInv, InTurn, Created

LEMMA WhoseTurnNext ==
  (IInv /\ SInv /\ Up /\ ~Exited)' =>
    /\ (Running \in Created)'
    /\ (run_queue[1] = IF Running + 1 <= User THEN Running + 1 ELSE Running + 1 - User)'
<1>1. IInv /\ SInv /\ Up /\ ~Exited =>
        /\ Running \in Created
        /\ run_queue[1] = IF Running + 1 <= User THEN Running + 1 ELSE Running + 1 - User
  BY WhoseTurn
<1> QED  BY <1>1, PTL

LEMMA SameQueueSameTurn ==
  ASSUME IInv /\ SInv /\ Up /\ ~Exited, (IInv /\ SInv /\ Up /\ ~Exited)',
         run_queue' = run_queue
  PROVE  Running' = Running
<1>1. /\ Running \in Created
      /\ run_queue[1] = IF Running + 1 <= User THEN Running + 1 ELSE Running + 1 - User
  BY WhoseTurn
<1>2. /\ (Running \in Created)'
      /\ (run_queue[1] = IF Running + 1 <= User THEN Running + 1 ELSE Running + 1 - User)'
  BY WhoseTurnNext
<1>3. PICK r \in Created : r = Running  BY <1>1
<1>4. PICK s \in Created : s = Running'  BY <1>2
<1>5. (IF r + 1 <= User THEN r + 1 ELSE r + 1 - User)
        = (IF s + 1 <= User THEN s + 1 ELSE s + 1 - User)
  BY <1>1, <1>2, <1>3, <1>4
<1>6. r \in 1..User /\ s \in 1..User /\ User \in Nat  BY Ids DEF Created
<1>7. r = s  BY <1>5, <1>6
<1> QED  BY <1>3, <1>4, <1>7

(* Boot admits the tasks and starts the first.                              *)
LEMMA task_createTurn ==
  ASSUME IInv, task_create
  PROVE  RR!Next
<1>1. /\ Booting /\ phase \in Nat /\ phase' = phase + 1 /\ phase < User
      /\ run_queue \in Seq(Created) /\ Len(run_queue) = phase
      /\ \A i \in 1..phase : run_queue[i] = i
  BY NextSlot DEF task_create
<1>2. PICK t \in Created : t = phase + 1 /\ t = Min(FreeSlots)  BY NextSlot
<1>3. run_queue' = Append(run_queue, t)
  <2>1. QPush(run_queue, t) = Append(run_queue, t)  BY <1>1, <1>2, BootPush
  <2> QED  BY <1>2, <2>1 DEF task_create
<1>4. \A i \in 1..Len(run_queue) : run_queue[i] # t  BY <1>1, <1>2
<1>5. Running = 0 /\ Running' = 0
  <2>1. ~Up /\ ~Up'  BY <1>1, Ids DEF Up
  <2>2. cur = NULL /\ cur' = cur  BY <1>1 DEF IInv, BootOK, task_create
  <2> QED  BY <2>1, <2>2 DEF Running
<1>6. RR!Admit(t)  BY <1>3, <1>4, <1>5 DEF RR!Admit
<1> QED  BY <1>6 DEF RR!Next

LEMMA task_userTurn ==
  ASSUME IInv, task_user, IInv'
  PROVE  RR!Next
<1>1. /\ Booting /\ phase = User /\ Up' /\ cur' = Idle /\ stack' = ctx[Idle]
      /\ run_queue' = QRest(run_queue) /\ ~Up
  BY Ids DEF task_user, Up, Booting
<1>2. /\ run_queue = [i \in 1..User |-> i] /\ run_queue \in Seq(Created)
      /\ ctx[Idle] = <<Frame("kernel", NULL)>> /\ cur = NULL
  BY <1>1, Ids DEF IInv, BootOK, TypeOK
<1>3. run_queue # <<>> /\ Len(run_queue) = User /\ run_queue[1] = Idle
  <2>1. Len([i \in 1..User |-> i]) = User  BY Ids
  <2>2. Len(run_queue) = User  BY <1>2, <2>1
  <2> QED  BY <1>2, <2>2, Ids, EmptySeq
<1>4. Head(run_queue) = Idle /\ Tail(run_queue) = run_queue'
  <2>1. Head(run_queue) = run_queue[1]  BY <1>2, <1>3, HeadTailProperties
  <2>2. QRest(run_queue) = Tail(run_queue)  BY <1>3 DEF QRest
  <2> QED  BY <1>1, <1>3, <2>1, <2>2
<1>5. Running = 0 /\ Running' = Idle
  <2>1. /\ Len(stack') = 1 /\ stack'[1] = Frame("kernel", NULL)  BY <1>1, <1>2, OwnFrame
  <2>2. Top'.next = NULL  BY <2>1 DEF Top, Depth, Frame
  <2> QED  BY <1>1, <1>2, <2>2 DEF Running
<1>6. RR!Start  BY <1>3, <1>4, <1>5, Ids DEF RR!Start
<1> QED  BY <1>6 DEF RR!Next

LEMMA irq_handlerTurn ==
  ASSUME IInv, SInv, ~Exited, irq_handler
  PROVE  RR!Next
<1>1. /\ Up /\ Up' /\ timer = "armed" /\ cur' = cur
      /\ stack' = Append(stack, AfterSchedule(QFirst(run_queue)))
      /\ run_queue' = QPush(QRest(run_queue), cur)
  BY DEF irq_handler, Requeued, Up
<1>2. /\ ~Gone(cur) /\ Running = cur /\ cur \in Created
      /\ stack \in Seq(FrameSet) /\ Depth \in Nat
  BY <1>1, Armed, CurrentStack DEF Gone
<1>3. /\ run_queue # <<>> /\ run_queue \in Seq(Created) /\ NoDuplicates(run_queue)
      /\ ~Contains(run_queue, cur)
  BY <1>1, <1>2, NextTask, UpTypes DEF SInv, QueueExact
<1>4. PICK n \in Created : /\ n = Head(run_queue) /\ QFirst(run_queue) = n /\ n # NULL
                           /\ run_queue' = Append(Tail(run_queue), cur)
  <2>1. /\ QFirst(run_queue) = Head(run_queue) /\ Head(run_queue) \in Created
        /\ run_queue' = Append(Tail(run_queue), cur)
    BY <1>1, <1>2, <1>3, Rotate
  <2> QED  BY <2>1, Ids
<1>5. PICK g : g = Frame("switch", n) /\ g.next = n /\ g \in FrameSet
  BY <1>4, NewFrame DEF Places, Windows, FrameOK
<1>6. stack' = Append(stack, g)  BY <1>1, <1>4, <1>5 DEF AfterSchedule
<1>7. Top' = g
  <2>1. Len(stack') = Len(stack) + 1 /\ stack'[Len(stack) + 1] = g
    BY <1>2, <1>5, <1>6, Pushed
  <2> QED  BY <2>1 DEF Top, Depth
<1>8. Running' = n  BY <1>1, <1>4, <1>5, <1>7 DEF Running
<1>9. RR!Turn  BY <1>2, <1>4, <1>8, Ids DEF RR!Turn
<1> QED  BY <1>9 DEF RR!Next

LEMMA WithoutExit ==
  IInv /\ SInv /\ NoExit => /\ ~Lost /\ (Up => ~Booting)
                           /\ (~Booting => Up /\ ~Exited)
BY Phases DEF IInv, SInv, NoExit

LEMMA WithoutExitNext ==
  (IInv /\ SInv /\ NoExit)' => /\ ~Lost' /\ (Up' => ~Booting')
                              /\ (~Booting' => Up' /\ ~Exited')
BY WithoutExit, PTL

LEMMA TurnStep ==
  ASSUME Paced, ~MayExit, IInv /\ SInv /\ NoExit, (IInv /\ SInv /\ NoExit)', [Next]_vars
  PROVE  [RR!Next]_<<Running, run_queue>>
<1>1. ~Lost /\ ~Lost' /\ (Up => ~Booting) /\ (Up' => ~Booting')
  BY WithoutExit, WithoutExitNext
<1>2. (~Booting => Up /\ ~Exited) /\ (~Booting' => Up' /\ ~Exited')
  BY WithoutExit, WithoutExitNext
<1>3. CASE task_create  BY <1>3, task_createTurn
<1>4. CASE task_user  BY <1>4, task_userTurn
<1>5. CASE UNCHANGED vars  BY <1>5 DEF vars, Running, Up, Top, Depth
<1>7. CASE irq_handler
  <2>1. Up  BY <1>7 DEF irq_handler
  <2> QED  BY <1>1, <1>2, <1>7, <2>1, irq_handlerTurn
<1>8. CASE Up /\ Up' /\ run_queue' = run_queue
  <2>2. ~Exited /\ ~Exited'  BY <1>1, <1>2, <1>8
  <2>3. Running' = Running  BY <1>8, <2>2, SameQueueSameTurn
  <2> QED  BY <1>8, <2>3
<1> QED
  BY <1>1, <1>3, <1>4, <1>5, <1>7, <1>8
     DEF Next, TimePasses, KernelPath, switch_to, save_context, load_context, load_stale,
         set_current, load_all, load_elr, load_registers, eret, eret_again, IdleCode,
         idle_task, idle_schedule, InTask, do_exec, syscall, sys_exit, Up, Lost

(***************************************************************************)
(* The scheduler implements the round robin: the tasks own the CPU in the   *)
(* order of the queue, and only a tick ends a turn.                         *)
(***************************************************************************)
THEOREM SchedulerIsRoundRobin ==
  ASSUME Paced, ~MayExit PROVE Spec => ImplementsRoundRobin
<1>1. Init => RR!Init  BY Ids DEF Init, RR!Init, Running, Up
<1>2. IInv /\ SInv /\ NoExit /\ (IInv /\ SInv /\ NoExit)' /\ [Next]_vars
        => [RR!Next]_<<Running, run_queue>>
  BY TurnStep
<1> QED  BY <1>1, <1>2, ShapeHolds, NeverExited, PTL DEF Spec, ImplementsRoundRobin, RR!Spec
=============================================================================

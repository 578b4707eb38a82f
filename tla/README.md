# A TLA+ model of the Raspberry Pi kernel

The program is a small bare-metal kernel for the Raspberry Pi 3 (`src/src`),
with user programs under `src/user`. It runs on one CPU at EL1; the other cores
wait in `boot.S`. `kernel_main` initialises the uart, the archive, the timer
callbacks, the page allocator and the heap, arms the timer and calls
`task_user`, which creates an idle task, five `foo` tasks and one user task and
switches to the first of them. The timer interrupt then preempts.

This directory holds TLA+ modules for its parts, TLC configurations, and proofs
for TLAPS. `PROJECT.json` maps definitions to lines of the source and lists
runs, mutants, hazards and theorems.

## The system

| part | state | operations | interacts with |
|---|---|---|---|
| task life cycle (`kernel/task.c`) | `task_pool[]` | `task_create`, `task_user`, `idle_task` | run queue, `switch_to` |
| scheduler (`kernel/sched.c`, `asm/sched.S`, `irq.c`) | `tpidr_el1`, saved contexts, `resched` | `schedule`, `switch_to`, `get_current`, `irq_routing` | run queue, exception path, timer |
| run queue (`libs/task_queue.c`) | `run_queue.head/tail`, `task_struct.next` | push, pop, remove | called with interrupts off |
| exception path (`asm/exception_table.S`) | kernel stacks, ELR_EL1, SPSR_EL1, DAIF | `save_all`, `load_all`, `kernel_exit`, `irq_handler` | scheduler, system calls |
| system calls (`kernel/syscall.c`, `asm/syscall.S`) | trapframe, user stack | dispatch, `sys_exit`, `do_exec`, printing stubs | scheduler, heap, archive |
| page allocator (`libs/mm/buddy.c`) | `free_list[]`, block headers, `inuse[]` | `buddy_allocate`, `buddy_free` | heap, `kmalloc` |
| chunk heap (`libs/mm/dynamic.c`, `kernel/mm/mm.c`, `libs/stdlib.c`) | bins, unsorted bin, top chunk, chunk headers | `dynamic_malloc/free`, `kmalloc/kfree`, `malloc/free` | page allocator |
| timer callbacks (`libs/core_timer_queue.c`) | the sorted list | push, tick | heap, shell, interrupt |
| archive and elf (`libs/cpio.c`, `libs/elf.c`) | `header[]` | `cpio_parse`, `load_file`, `elf_header_parse` | `do_exec`, shell |
| shell (`shell/`) | command buffer | read, parse, execute | uart, archive, callbacks |
| drivers and conversions (`peripheral/`, `libs/string.c`, `libs/stdio.c`) | device registers | send, receive, convert | everything |

Two facts of this build matter for the models. `task_user` never returns, so
`shell()` behind it is not reached: no callback is ever queued when a tick
arrives, and `irq_handler` in `Scheduler` leaves the callbacks out. And
`kfree`, `task_init` and `get_board_revision` have no caller. The shell, the
callbacks and the mailbox are modelled all the same, as the code they are.

What is hard in this code:

* `schedule()` and `sys_exit` open interrupts *before* `switch_to`, with the
  next task in a local variable and the queue already changed;
* `switch_to` takes the next task's stack an instruction before `tpidr_el1` names
  that task, with interrupts on;
* `load_all` writes ELR_EL1 with interrupts on, and a second exception before
  the `eret` overwrites it;
* the idle task recycles the slot of a task that may not have left yet;
* the run queue accepts a task that is already linked;
* the allocators trust headers that only the history of splits and merges keeps
  right, and their out-of-memory paths are not exercised by anything;
* the callback list is sorted by a walk that is correct only for a list that was
  sorted before, with an unsigned countdown, and with interrupts on;
* `do_exec` fills in a trapframe below its own stack pointer with interrupts on,
  and computes paddings from the wrong length;
* the dispatcher shifts and adds what a program puts into a register, and takes
  its numbers from another file than the table;
* `uart_send` polls and stores in two steps, between which tasks are switched;
* the mailbox is polled once and then read until the answer appears.

What makes each part correct: the queue stays a list; no task is lost, none runs
twice, each gets its turn; an exception returns to what it interrupted; a
finished program stays finished and its slot comes back; no page is in two
hands or in none, and memory that could be handed out is; callbacks run when
asked.

## The modules

| module | models | state and actions in the code's terms |
|---|---|---|
| `Lists` | the kernel's singly linked lists as sequences | walk and unlink |
| `RunQueue` | the queue operations as operators | `QPush`, `QFirst`/`QRest`, `QRemove`, with the cut when a linked task is pushed and the head that `remove` keeps |
| `RunQueueSpec` | the queue as an abstract machine | one sequence and the last result |
| `TaskQueue` | `task_queue.c` | `head`, `tail`, `next[]`; one action per function |
| `Scheduler` | boot, tick, switch, return, exec, exit, idle | see below |
| `RoundRobin` | what the scheduler promises | `running`, `ready`; `Admit`, `Start`, `Turn` |
| `Buddy` | `buddy.c` | `free_list[]`, headers, what callers hold; `buddy_allocate`, `buddy_free` |
| `PageAllocator` | what the buddy system promises | `held`; `Grant`, `Refuse`, `Release` |
| `CoreTimerQueue` | what the callback queue promises | one list; `core_timer_queue_push`, `core_timer_interrupt_handler` |
| `CallbackLinks` | `core_timer_queue.c` | nodes, pointers and the locals of push and sort; one action per line, `tick` between any two |
| `CallbackMemory` | callbacks in the heap: `malloc` of `stdlib.c` | the words that hold pointers; one action per push and per tick |
| `DynamicHeap`, `MCDynamicHeap` | `dynamic.c` | chunk headers, `top_chunk`, bins; `dynamic_malloc` in its four branches, `dynamic_free` with merging |
| `Archive` | `cpio.c`, `ls` and `cat` of `cmd.c` | the archive in memory, `cur_address`, `header[]`; `parse_entry`, `parse_end`, `load_file`, `cat`, `ls` |
| `Shell` | `uart_get_cmd`, `shell.c` | the line buffer, the terminal's screen; one character a step, `parse` and the choice of the command at its end |
| `Numbers` | `strtol`, `string_to_int`, `ltoa`, `fdivtoa`, `uart_int`, `uart_hex` | functions; one call each |
| `Exec` | `do_exec`, `set_argv`, `elf_header_parse` | the user stack as bytes, four words of the trapframe; a stretch of the function a step, `tick` in between |
| `SystemCalls` | `kernel/asm/syscall.S` and the user's stubs | `x8`, and where the dispatcher branches |
| `Printf` | `printf`, `printk`, the user library's `printf` | the format in memory, the pointer into it, what is printed; one turn of the loop a step |
| `Uart` | `uart_send`, `uart_put` | each task's place in `uart_send`, the transmit queue, the line; `poll`, `store`, `preempt`, `transmit` |
| `Mailbox` | `mailbox.c` | the buffer's value, the two queues of the device, the register; one action per line, three for the GPU |
| `MCMachine` | `Archive`, then `Shell`, `Numbers` or `Exec`, then `SystemCalls` or `Printf` | see *Compositions* |
| `MCDrivers` | `Uart` beside `Mailbox` | interleaved |
| `*Proof` | theorems about the module they extend | |

`Scheduler` uses the operators of `RunQueue`, and `TaskQueue` is shown to
implement exactly those (`ImplementsQueue`), so the two compose without
carrying links through the scheduler's states. `RoundRobin` and `PageAllocator`
are instantiated with refinement mappings at the end of `Scheduler`, `Buddy` and
`DynamicHeap`: page allocator and heap make the same promise, for pages and for
slots behind headers. `CoreTimerQueue` is instantiated at the end of
`CallbackLinks` in the same way.

**Compositions.** `MCMachine` puts the sequential parts in the order in which the
kernel runs them. None of them writes what another reads, once the table of
files is there; so TLC explores each part with one choice for the parts before
it (one archive, one content of the buffer, one program) instead of all
combinations, and each part with all of its own choices. `MCDrivers` interleaves
its two modules freely.

**How Scheduler corresponds to the code.** The step of the model is a stretch of
code that no interrupt can divide. Everything under `disable_interrupt`, or
under the mask that exception entry sets, runs together with the next
instruction; the states are the places where interrupts are on. A kernel stack
is a sequence of frames: the task's own code at the bottom and one frame per
exception above it. `irq_handler` runs from the vector through `save_all`,
`irq_routing` and `schedule` to `enable_interrupt`.

`switch_to` is `save_context` (`sched.S` 5-12), `load_context` (14-21) and
`set_current` (22-23), with a tick possible between any two. A tick behind
`mov sp` (21) and before `msr tpidr_el1` (22) runs on the stack of `next` while
`get_current()` is still the caller (`AtMsr`), and its own `switch_to` saves that
place over the caller's context. When the delayed `switch_to` goes on, the saved
place no longer exists: the context is `Stale`. A stale context of a task that
has left for good does no harm. One that is resumed ends the model (`load_stale`,
`Lost`): what happens depends on what else has used that stack. In
`save_context`, a tick between the stores of `lr` and of `sp` can leave a pair
that does not belong together, which is stale too.

`load_all` is `load_elr` (to `msr elr_el1`, line 31), `load_registers` (to
`add sp`, 49) and `eret` (to 141). ELR_EL1 is a task, a depth of its stack and a
place there. A tick behind the `msr` leaves in it a place of the return path
itself. Behind `add sp` that is the `eret` or the instruction before it, and the
`eret` returns to itself for ever, with everything as it is, until a tick
preempts it (`Spinning`). Between the two, each `eret` goes back to lines 31-49
and adds to `sp` again, so that `sp` leaves the stack and the next exception
saves its frame wherever `sp` has got to: `eret_again`, which ends the model
(`Lost`).

`foo` returns into its own start, because `x30` still holds it after the first
`switch_to`, so a worker never ends; the same is true of `user_task` when its
file is missing.

Left out of it: a tick between `enable_interrupt` and `switch_to` at the end of
`task_user` (the first tick is armed four seconds ahead by `core_timer_enable`);
registers other than ELR_EL1 and `sp`; the text that tasks print.

**Buddy.** A block number is the set of its one bits, so `index ^ (1 << k)` is a
set operation and the proofs need no arithmetic. `inuse[]` is left out: its only
reader looks for `'X'`, which nothing stores, so `is_free` always answers 1 (and
`update_inuse`, whose divisor is wrong, has no effect). Callers free what they
hold, once.

**DynamicHeap.** Sizes are counted in slots of 16 bytes, a header is two. A
header keeps `pre_size` and `size`; the low bit of `size`, which marks a chunk
as used, is `used`, together with the size that the holder asked for. List 0 is
the unsorted bin, list *k* the bin of *k* slots. `dynamic_free` merges only with
the chunk before, only if that is free, and only if it does not lie before the
last multiple of 4096; since buddy blocks are 4112 bytes apart, that multiple
falls at a different place in each page (`Boundary`). Two branches make headers
contradict each other: a request that leaves less than a header in the top chunk
(its size wraps to nearly 2^64), and a cut from the unsorted bin (the header is
counted into the chunk, and the other part gets no `pre_size`). Both are steps
of the model. `harm` then says so, and the model is not followed further, because
later calls read and write headers inside other chunks; so the properties speak
of all histories up to and including the last call before such a step. Held
chunks stay disjoint even at that step (`IsAllocator` does not exempt it).

**Archive.** A header is one memory cell with two sizes, every other cell a
character, and what lies behind the archive reads as NUL (`CellAt`). Where the walk leaves the headers or overruns `header[]`, the model
ends in `lost`. Sizes are eight hexadecimal digits: `Numbers` shows that `strtol`
reads those exactly. `cat` compares whole names, `load_file` beginnings of names,
and the two properties `ShowsTheFiles` and `LoadsTheFile` keep them apart.

**Numbers.** The widths of `int` and `long` are constants. The shift by 63 in
`strtol` is one by 31 in this build (`-O0`, a 32-bit shift at run time), and
signed arithmetic wraps. `ftoa` divides a `double` down by powers of ten; TLA+
has no such numbers, and it is not modelled.

**Shell.** The buffer starts with whatever the stack held and is reused line by
line. The terminal at the other end is a row of characters and a cursor. Lines
are shorter than the buffer: `uart_get_cmd` does not look at its size, and what
lies behind it is not modelled.

**The callbacks** have three modules, one hazard each. `CoreTimerQueue` is the
promise: a push puts the node in its place, a tick runs what is due.
`CallbackLinks` has the lines of push and sort with ticks between them. `calm`,
chosen at the start, keeps ticks out of the stretch from the first link to the
end of the sort; with it the lines implement `CoreTimerQueue`, and without it
only `InTime` is claimed, since a tick in the sort frees nodes that the sort's
locals still name (the list can lose nodes, become a cycle, or the walk can
follow NULL: `lost`). It takes for granted that nodes do not overlap.
`CallbackMemory` shows that they do: `malloc` adds the header's length a second
time, so a node's last word, its `next`, is the word that the next allocation
clears, and the third `settimeout` drops callbacks.

**Exec.** Addresses on the user stack count down from the top of the page, and
memory is a map from addresses to bytes, each known by what it is (byte 3 of
argument 2, of the NULL, of the count), so that an overlap shows. `memset` in
`set_argv` gets its arguments in the wrong order and sets no bytes. The kernel
stack is four words of the trapframe, by their distance from the top of the
page. `do_exec` runs on that stack while it writes them; `Depth` is how much of
it is in use at that point (the frames of `do_exec` and `user_task`). The two
words for the stack and the entry lie above any such depth, those for `x0` and
`x1` below: a tick destroys the latter. `window` records that one has come. Left out
are SPSR_EL1, and the alignment fault that a store to an unaligned address at
`syscall.c` 66 may raise: the image is what the stores would leave.

**SystemCalls.** Registers have `RegisterRange` values and the table lies in the lower
half. The numbers of the user's stubs are in the order of `syscall.h`, the table
is in its own order, and the property compares the names.

**Printf.** What is printed is characters, and conversions with the number of
the argument they show, so a directive that takes one argument too many or too
few is seen. The user's copy prints through `uart_write`, whose handler in the
kernel ignores its arguments and prints a message; there the model follows what
is handed over.

**Uart** and **Mailbox.** The devices are external and do what the code relies
on: a queue of some characters that are sent one by one, a status bit that says
that there is room; two queues of messages, and a register that keeps showing
the last message of an empty queue.

## The runs

| run | bounds | shows |
|---|---|---|
| `task_queue` | 4 slots | every sequence of push, pop and remove, legal or not, keeps a well-formed list and implements the sequence operations; four tasks have a first, a last and two middles, which is every position the code distinguishes |
| `sched` | 5 slots, 2 workers, depth 4 | preemption without exit: types, round robin, every task runs again and again |
| `sched_exit` | 5 slots, 2 workers, depth 4 | with exit, and ticks anywhere in its `switch_to` and in the return path behind it: no task is lost, a finished program never runs again, its slot is cleared only when it is gone for good, at most one return path is hit between its `msr` and its `eret`, and the others keep the CPU unless that hit loses it |
| `sched_unpaced` | 4 slots, 2 workers, depth 3 | ticks at every point where interrupts are on, those inside `switch_to` included: only the form of the queue is promised, and holds until a stale context is resumed or the CPU is lost |
| `buddy` | order 3 | all histories on eight pages |
| `buddy_full` | order 1 | **a finding**: exhausted, `buddy_allocate` returns `0x10`, not NULL |
| `heap` | 2 pages of 14 slots, bins up to 3, word 64 | until a faulty branch is taken: chunks tile the pages, tags lead back, each free chunk is in its bin once (`HeapWellFormed`), and no slot is given out twice |
| `timer` | 3 nodes (2 with ticks in the sort), timeouts 0 to 3, word 5 | push and sort line by line implement the atomic queue; every callback runs, in its tick; with ticks in the sort or a timeout of 0 none runs early |
| `callbacks_kept` | a page of 270 words | **a finding**: the third `settimeout` loses a callback |
| `machine` | see below | the archive's table, lookups, `ls` and `cat`; what is executed is what was shown; printing and reading agree; a program's stack image and entry; system calls; formats |
| `user_argv` | one argument | **a finding**: `main`'s `argv` does not lead to its arguments |
| `drivers` | 2 tasks, texts of 1 or 2 characters, queues of 1 and 2 | what is printed comes out once and in order, only a task switched out between poll and store loses a character; each mailbox call returns, with its answer |

*Bounds.* One slot more than tasks leaves a free slot for the idle task to pass.
`MaxDepth` bounds nested exceptions: a stack page holds fifteen frames of 272
bytes and the model stops taking ticks on a task that has `MaxDepth` frames.
With `Paced` at most one exception frame lies below the one in progress, and that
only after the exit (proved: `ShapeHolds`), so depth 4 cuts nothing, neither in
`sched` nor in `sched_exit`. In `sched_unpaced` depth 3 has a tick in the window
of a tick, on the stack of either task; two workers and the other two tasks give
a queue in which a stale context waits while others are switched. `Word` stands for 2^64; it exceeds every timeout, and small
values let TLC see the wrap. The sort compares neighbours and looks at the node
before them: three nodes are a predecessor, the new node and its successor, and
the list may be empty, have one or two nodes when it is pushed. With ticks in
the sort two nodes (`FewNodes`) suffice for a node that is freed under the
sort's locals and given out again. Order 3 gives merges
over three levels, and a pool that is split, full and whole again.

A page of fourteen slots holds up to four chunks, enough for a chunk with two
merged neighbours, for merges whose result goes to a bin, to the unsorted bin and
from there again, and for all ways to use up the top chunk; the second page shows
the old top chunk going to the lists. Three files are a first, a middle and a
last; the trailer's name has one letter, so that names of its length, longer
names that begin like it and contents equal to it all occur. Lines of four characters hold
two words with spaces between, before or behind them, and one command is the
beginning of the other. The widths in `Numbers` keep the ratios that matter: two hexadecimal
digits fill an `int`, as eight do on the machine, and some of the remainders
wrap. Arguments have 0, 1, 2, 15 or 16 characters, on both sides of a multiple of
16 for each of the two lengths that the padding confuses, and there are up to
three, in any order of lengths. `Depth` is 16 words: at `-O0` `do_exec` and
`user_task` use about that much, and `Depth >= 3` is all that `EntersRight`
needs. A register has 1024 values for entries of 16, so that every number that
wraps to an entry is there. Formats of four characters hold two directives side
by side, `%%` in both positions, and the open `%` at the end. A transmit queue of
one character is full as soon as another task has printed.

Deadlock is checked except where the model is meant to stop: the scheduler when
the CPU is `Lost` (`sched_exit`, `sched_unpaced`), the heap after
`harm` or with all pages used up, the callbacks when the walk is `lost`, and the
parts of `machine` that end (a conversion, a system call, a format, a missing
file). Tasks that have printed everything do not stop `drivers`.

*Pace.* With `Paced` a tick comes only after the CPU has returned to a task's own
code since the previous one: the handler re-arms the timer for one second (line
23 of `core_timer_queue.c`), and the return path takes microseconds. What
`sys_exit` does is not so protected: the program may exit just before a tick is
due. That tick is then taken in the `switch_to` of `sys_exit`, before or behind
its `mov sp`, or in the return path of the task that it resumes; `sched_exit`
explores all of these. `sched_unpaced` drops the assumption. There a tick inside
`schedule()`'s own `switch_to` can make a READY task disappear (its `next` is
resumed elsewhere and the delayed switch comes later) or leave a queued task with
a stale context, so `NoTaskLost` is not claimed there.

*Fairness.* Weak fairness on boot, on the timer and on the interrupt path: a CPU
does not stop between instructions, and a re-armed timer expires. Strong fairness
on the idle task's code: its turn lasts a second and it gets turns again and
again, so its loop advances although a tick may always be pending when looked
at. Nothing is assumed of the user program. In `CallbackLinks`, weak fairness on
the lines of a push (the CPU goes on) and strong fairness on the tick: the
interrupt is masked again and again but stays pending. In `Uart`, weak fairness
on the device and on the choice of each task (this is `EveryTaskRuns` of
`Scheduler`), and strong fairness on `poll` and `store`: a turn lasts a second,
long enough for a character when the queue has room, though other tasks may fill
it between any two looks. The texts are finite, so the others run out of them: a
task that is starved by others that print for ever is outside this model. In `Mailbox`, weak fairness on the three polling loops
and on the GPU taking a request, strong fairness on its answer, which needs room
in a queue that its own messages fill; callers read that queue only in a call.

*CpuKeepsGoingRound* and *DeadIsReaped* except a CPU that is `Lost`: an exit just
before a tick can bring that about, and then nothing goes on. *DeadIsReaped* has a
second exception: the return path that the tick hits may be the idle task's, which
then spins in its `eret` for ever, in each of its turns, and recycles nothing.

## What is proved

For every value of the constants that satisfies the modules' assumptions. TLC
checked the inductive invariants on the runs before they were proved, but for
those that say that a sequence with some property exists.

*Scheduler.* The first half of `SchedulerProof` holds for every pace of the timer,
with and without exit. `IInv` says that stacks have their own code at the bottom
and exceptions above, that contexts are whole or stale, that windows name created
tasks, that during boot the ids are given in order, and that an `eret` has a place
on the stack to go to. `TypeCorrect` follows.

The second half assumes `Paced`, with exit. Its invariant `SInv` says which stacks
occur (`Shapes`). A tick finds its victim in its own code (`Own`); after the exit
also in a return path (`Inner`), or the exited program in its `switch_to`, before
`mov sp` or behind it on the idle task's stack (`Halfway`, `AtMsrOK`); `Above` is
a stack with one exception over such a place. `SavedOK` and `LeavesOK` say what
lies in the contexts when `switch_to` needs them: only that of the exited program
may be stale, and only when it has left for good. `Away` is who is neither
running nor queued (the exited program, or the idle task while the program is kept
in an interrupted `switch_to`), and `QueueExact` says that the queue holds exactly
the others. `HitOnce` says that one return path at most was hit, and `TimerOK` is
what makes it all inductive: a due tick finds a task's own code, a return path that
spins, or what `sys_exit` has left behind before any tick has come (`Fresh`).

* with exit: `QueueIsWellFormed`, `NoTaskIsLost`, `ReapedTaskIsGone`, `ExitHolds`,
  `EretIntact`. The last says that the register that `load_all` writes with
  interrupts on is destroyed for at most one return path, and only after an exit;
* without exit: `SchedulerIsRoundRobin`. `NeverExited` excludes the states behind an
  exit, and the queue alone then tells whose turn it is (`InTurn`). With exit
  `RoundRobin` has no step for a task that leaves.

Without `Paced` the form of the queue is left to `sched_unpaced`.

*Run queue.* `TaskQueueProof`: `ListIsWellFormed` and `ListIsQueue`; the witness
is that some sequence is spelled by the links (`Spells`), unique by `ListedIs`.
`RunQueueProof` has the lemmas on sequences that all of them use.

*Buddy.* `BuddyProof`: `BuddyTypes`, `PoolIsPartitioned`, `HeadersAreRight`,
`BuddiesAreJoined`, `BuddyIsPageAllocator`. The conjunction of the first four is
the inductive invariant: a merge finds the whole buddy only if the headers are
right, and is complete only if no two buddies were free before. A refusal is justified by the fact that a pool with no free block of the order or
above has a held page in every run (`NoRoom`).

*Heap.* `HeapProof`: `HeapTypes`, `HeapIsWellFormed`, `HeapIsAllocator`. As long
as `harm` is "none" the heap is `Sound`: chunks do not overlap (`Apart`), each
ends at a header or at the end of its page (`Chained`), `pre_size` leads back to
the chunk that leads here (`Tagged`), a used chunk has the size that was asked
for (`Exact`), the top chunk is free and last (`TopOK`), and the bins have
exactly the other free chunks of some size, each once and in its bin (`Listed`).
A merge goes back along the tags and takes the chunk before out of its bin; it
is right only if all of these hold together. `HeapIsAllocator` also covers the
step that takes a faulty branch.

*Timer callbacks.* `TimerProof`, for any number of nodes, any timeouts and any
width of the countdown: `NoCallbackIsLost`, `CallbacksRunInTime`,
`ListIsImplemented`. The inductive invariant `IInv` has two parts.

* `ClockInv` holds whatever the links are, with ticks in the middle of the sort as
  well: age and timeout of a node add up to what was asked for, modulo `Word`
  (`Counts`). So no callback runs early.
* `ListInv` holds while ticks are kept out of the sort. Outside of it the links
  spell the waiting nodes in the order of their timeouts (`Quiet`). Inside it they
  spell the list from before the push with the new node behind the first `k`
  (`With`), which are smaller (`Behind`), except for the one or two pointers that
  the lines of a swap have still to write (`Chain` with its exceptions). Only the
  new node can be out of order (`OnlyNew`), so each swap raises `k` by one, and the
  walk reaches the end only when all behind the new node are as large (`Before`).

A push of `CoreTimerQueue` is the end of the sort; every other line maps to a
stutter, and a tick to a tick.

*Drivers.* `DriversProof`, for any number of tasks, any texts and queues:

* `CharactersComeOutOnce`. The characters with a number up to `sent` are those on
  the line, in the queue, or lost (`Accounted`), each task's in rising order
  (`Rising`); a task behind the poll has been switched out there, or runs and
  still sees room (`SeenRoom`).
* `AnswerIsTheRevision`. A call has one request under way: sent, with the GPU, or
  answered, and in the last case the value is there (`BInv`).
* `DriversWorkTogether`: both, for the two modules interleaved.

*The sequential parts.* `MachineProof` is about `MachineSpec`:

* `ProgramEntersRight`. `FrameInv` says for each place in `do_exec` which words of
  the trapframe have their values, the lower two only if no tick has come.
* `ArgumentsAreWhole`. Stores only go down (`CopiedBehind`), and a step down is
  large enough although it is computed from the wrong length (`OffsetsSuffice`).
  The assumption is an alignment that has room for a pointer and an int.
* `ShownIsWhatRuns`. `LineInv`: the buffer agrees with the screen up to the index,
  and the screen is blank behind the cursor. So the NUL that ends the line is the
  first, whatever was in the buffer before.
* `LinesAreUnderstood`. After each character `parse` has read the line up to
  there, with the arguments joined by spaces (`Spelled`), and the command has no
  space in it. The assumption on `Commands` keeps the names that the model gives
  to "no command" and "unknown command" apart from commands.
* `CallsEndInTheirFunctions`. The dispatcher's shift and sum, modulo the width of
  the register, reach entry *n* for the stub with number *n*, and no other
  number leads out of the table (`Dispatched`). It needs a table in the lower half.
* `FormatsArePrinted`. `PrintInv`: the pointer stands behind an even number of `%`
  in a row, and what has been taken and printed is what stands before it
  (`Walked`); or an open `%` at the end has led it past the terminator.

* `NothingIsMadeUp`, `EveryFileIsFound`, `NamesLeadToFiles`, `FilesAreShown`. They
  are about archives in which no content begins with a NUL, which would look like
  padding, or with the trailer's name, which would end the walk (`PlainBodies`). The
  image in memory has a prefix for each number of files (`Grows`), so each header
  has a place, two files a distance, and behind the last file stands the trailer
  (`Laid`). `WalkInv`: the walk stands on the header of the file after the last
  entry of `header[]`, and each entry has the addresses and sizes of its file
  (`EntryLies`). A header is found although the padding is skipped by looking for
  the next cell that is not NUL, because contents begin with a letter
  (`PlainBodies`). `EveryFileIsFound` also needs that the walk does not stop early:
  of the names only the trailer's has its length. From the entries the lookups
  follow: the first entry whose name fits is the first file whose name fits.
* `TextsAreRead`, `NumbersReadBack`. `NumberInv` only says what was called last; the
  theorems rest on what the functions compute. `ValueOf` is the number that the
  characters from a place on stand for, digit by digit. `Denotes` and `Read` are
  that number (`DenotesIs`, `ReadIs`), the second as long as no digit but the last
  meets the bound (`WithinInt`), which up to `HexDigits` digits never do
  (`ValueFits`). Written are the quotients by the powers of the base (`Spells`), and
  those add up to the number again (`SpelledValue`). `uart_int` stores its digits from
  the last to the first (`OutputIs`), `ltoa` all from the first that is not 0
  (`LongText`): both give the decimal text, so they agree. For `fdivtoa` the digits
  before and behind the point are one number (`ValueGoesOn`, `PointTaken`), which
  is the quotient if the remainder's product does not wrap (`DividesOn`). The
  theorems are about bases 0, 10 and 16 (the kernel's own calls use 16), and claim
  something of `ltoa` only up to INT_MAX, the largest number that `string_to_int`
  can read back. The assumptions are the ratios of the widths: `HexDigits` digits fill an `int`, a
  `long` is sixteen times wider at least, and `TopPower` is the number of its
  decimal places less one.

The prover has no induction over data. Where a sequence has to be followed from
its beginning (`parse`, `Joined`, `uart_put`, `printf`, the walks along the callbacks
and through the archive) the proofs take the least place where the claim fails
(`LeastNat`, `Climb`); for the folds of the library and for powers they first show
that the function which defines them exists (`FoldExists`, `Recursion`).

Two of these proofs changed the model. The one about `cat` failed because two lines of
`get_content` were not aligned, so that its condition for a content without NUL
said less than `strncpy` does. The one about `fdivtoa` needed the property to name
the place of the point, which it had left open; `ReadsBack` now says that it stands
before the last six digits.

Only model-checked: liveness (`EveryTaskRuns`, `CpuKeepsGoingRound`, `DeadIsReaped`,
`EveryCallbackRuns`, `AllPrinted`, `CallReturns`), since the prover does not do
ENABLED and fairness; and `QueueWellFormed` without `Paced`. Every other property
of a passing run is a theorem.

The assumptions of the modules that `MCMachine` and `MCDrivers` instantiate are
definitions that those modules assume (`MachineAssumption`, `BoardAssumption`).

## The plan

What is left are the parts that the next section lists. The first to take up would
be the heap after `harm`: with memory as words, the two faulty branches of
`dynamic.c` and the stray `next` of `malloc` could be followed to the calls that
they spoil.

## Not modelled, and why

* `free`, `kmalloc` and `kfree`: `kmalloc` chooses between two modelled
  allocators by a test on the size; `kfree` has no caller; `free` is the inverse
  of `malloc`. What happens to the heap after `harm`, and after a callback has
  written over a chunk's header, would take all of memory as words.
* `loadimg`, `bootloader_get`, `img_jump`: the kernel writes an image over itself
  and jumps there. `help`, `hello`, `svc`, `reboot` and the timer switches print,
  or write one register.
* `argc[1]` of a command that was given one word: whatever the stack held.
* `ftoa`: doubles. `memcpy`, `strcpy` and the like: plain copies.
* `delay` and `get_time` of the user library: the kernel's handler for the clock
  prints a message and returns nothing, so `delay` compares leftovers in `x0`.
* `main` of the user program, which is empty; `src/user/lib/strtol.c` and the two
  `stdarg.h`, which are vendored.
* `boot.S`, `uart_init`, register contents of `save_all` other than those named,
  the reports of `exception.c` and `time.c`: straight-line register accesses.
* An exception that is no system call: the handler returns to the faulting
  instruction for ever; `Scheduler`'s tasks do not fault.

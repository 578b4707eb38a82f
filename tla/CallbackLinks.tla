--------------------------- MODULE CallbackLinks ----------------------------
(***************************************************************************)
(* libs/core_timer_queue.c with the list as the nodes and pointers that it  *)
(* is; CoreTimerQueue is what it promises.  core_timer_queue_push and       *)
(* core_timer_queue_sort run with interrupts on: a step is one of their     *)
(* lines, and a tick, which the exception entry masks and which is          *)
(* therefore one step, may come between any two of them.  malloc gives out  *)
(* any free node; a node that was freed keeps what is in it until then.     *)
(* The nodes are taken not to overlap: that those of stdlib.c's malloc do,  *)
(* and what the list loses by it, is module CallbackMemory.                 *)
(***************************************************************************)
EXTENDS FiniteSetsExt, SequencesExt, Integers

CONSTANTS
  Nodes,       \* bound: the nodes that malloc has
  NULL,
  FewNodes,    \* bound: those it has when ticks come anywhere
  Timeouts,    \* the timeouts, but 0, that settimeout is called with
  Word         \* 2^64: timeout is a size_t

ASSUME LinksAssumption ==
  /\ NULL \notin Nodes /\ IsFiniteSet(Nodes) /\ FewNodes \subseteq Nodes
  /\ Word \in Nat /\ Timeouts # {} /\ Timeouts \subseteq 1..(Word - 1)

VARIABLES
  queue,               \* core_timer_callback_queue
  node,                \* the nodes in memory
  free,                \* the nodes that malloc may give out
  pc, new,             \* core_timer_queue_push: the line, and node
  cur, pre, next,      \* core_timer_queue_sort
  fired,               \* the callbacks that the last tick has run
  \* not in the code:
  before,              \* the list when the push began
  calm                 \* no tick comes from line 40 to the end of the sort

vars == <<queue, node, free, pc, new, cur, pre, next, fired, before, calm>>

(* age counts the ticks since a node was linked; neither it nor asked, the  *)
(* timeout that was given, is in the code.                                  *)
Init ==
  /\ queue = NULL
  /\ calm \in BOOLEAN /\ free = IF calm THEN Nodes ELSE FewNodes
  /\ node = [m \in Nodes |-> [timeout |-> 1, asked |-> 1, age |-> 0, next |-> NULL]]
  /\ pc = "idle" /\ new = NULL
  /\ cur = NULL /\ pre = NULL /\ next = NULL
  /\ fired = <<>> /\ before = <<>>

(* The nodes from p on, as many as there are or, on a cycle, as fit.        *)
Walk(p) == LET w[k \in 0..Cardinality(Nodes)] ==
                 IF k = 0 THEN p
                 ELSE IF w[k - 1] = NULL THEN NULL ELSE node[w[k - 1]].next
           IN  w
Cyclic == Walk(queue)[Cardinality(Nodes)] # NULL
Linked(p) == LET w == Walk(p)
                 n == CHOOSE k \in 0..Cardinality(Nodes) :
                        w[k] = NULL /\ \A j \in 0..(k - 1) : w[j] # NULL
             IN  [k \in 1..n |-> w[k - 1]]

Succ(p) == IF p = NULL THEN NULL ELSE node[p].next
Link(p, q) == node' = [node EXCEPT ![p].next = q]
Line(from, to) == pc = from /\ pc' = to
-----------------------------------------------------------------------------
(* core_timer_queue_push.  The node is nobody else's until it is linked.    *)
malloc(timeout) ==
  /\ Line("idle", "37") /\ new' \in free /\ free' = free \ {new'}
  /\ node' = [node EXCEPT ![new'] = [timeout |-> timeout, asked |-> timeout,
                                      age |-> 0, next |-> NULL]]
  /\ UNCHANGED <<queue, cur, pre, next, fired, before, calm>>

test_empty ==
  /\ pc = "37" /\ pc' = IF queue = NULL THEN "38" ELSE "40"
  /\ UNCHANGED <<queue, node, free, new, cur, pre, next, fired, before, calm>>

link_only ==
  /\ Line("38", "69") /\ queue' = new
  /\ before' = Linked(queue)
  /\ UNCHANGED <<node, free, new, cur, pre, next, fired, calm>>

link_to_head ==
  /\ Line("40", "41") /\ Link(new, queue)
  /\ before' = Linked(queue)
  /\ UNCHANGED <<queue, free, new, cur, pre, next, fired, calm>>

link_head ==
  /\ Line("41", "69") /\ queue' = new
  /\ UNCHANGED <<node, free, new, cur, pre, next, fired, before, calm>>
-----------------------------------------------------------------------------
(* core_timer_queue_sort.                                                   *)
Idle == /\ pc' = "idle" /\ new' = NULL /\ before' = <<>>
        /\ cur' = NULL /\ pre' = NULL /\ next' = NULL

sort_begin ==
  /\ Line("69", "77") /\ cur' = queue /\ pre' = NULL /\ next' = Succ(queue)
  /\ UNCHANGED <<queue, node, free, new, fired, before, calm>>

sort_end ==
  /\ pc = "77" /\ cur = NULL /\ Idle
  /\ UNCHANGED <<queue, node, free, fired, calm>>

NotBelow == next # NULL /\ node[cur].timeout >= node[next].timeout   \* >= for >
Descending == next # NULL /\ node[cur].timeout < node[next].timeout  \* < for >
OutOfOrder == next # NULL /\ node[cur].timeout > node[next].timeout

compare ==
  /\ pc = "77" /\ cur # NULL
  /\ pc' = IF OutOfOrder THEN "81" ELSE "91"
  /\ UNCHANGED <<queue, node, free, new, cur, pre, next, fired, before, calm>>

swap_first ==
  /\ Line("81", "82") /\ Link(cur, node[next].next)
  /\ UNCHANGED <<queue, free, new, cur, pre, next, fired, before, calm>>

swap_second ==
  /\ Line("82", "84") /\ Link(next, cur)
  /\ UNCHANGED <<queue, free, new, cur, pre, next, fired, before, calm>>

PreForgotten == Line("84", "88") /\ UNCHANGED <<queue, node>>       \* lines 84-87 missing
AfterSwap ==
  /\ Line("84", "88")
  /\ IF pre = NULL THEN queue' = next /\ UNCHANGED node
     ELSE Link(pre, next) /\ UNCHANGED queue
swap_third ==
  /\ AfterSwap
  /\ UNCHANGED <<free, new, cur, pre, next, fired, before, calm>>

restart ==
  /\ Line("88", "91") /\ cur' = queue
  /\ UNCHANGED <<queue, node, free, new, pre, next, fired, before, calm>>

(* With the queue emptied by a tick, cur is NULL here and is followed       *)
(* nevertheless: the walk goes on wherever address 296 leads.               *)
advance ==
  /\ pc = "91" /\ pre' = cur
  /\ IF cur = NULL THEN pc' = "lost" /\ UNCHANGED <<cur, next>>
     ELSE pc' = "77" /\ cur' = node[cur].next /\ next' = Succ(cur')
  /\ UNCHANGED <<queue, node, free, new, fired, before, calm>>

push == \/ test_empty \/ link_only \/ link_to_head \/ link_head
        \/ sort_begin \/ sort_end \/ compare
        \/ swap_first \/ swap_second \/ swap_third \/ restart \/ advance
-----------------------------------------------------------------------------
(* core_timer_interrupt_handler: every node of the list is counted down,    *)
(* then the head is taken while it is at 0.  On a cycle it never ends.      *)
SignedOlder(n) == [n EXCEPT !.timeout = @ - 1,             \* the field is an int
                            !.age = IF @ < Word THEN @ + 1 ELSE @]
Older(n) == [n EXCEPT !.timeout = (@ + Word - 1) % Word,
                      !.age = IF @ < Word THEN @ + 1 ELSE @]
DueSoon(m) == node[m].timeout <= 2                        \* with a tick to go
Due(m) == node[m].timeout = 1                             \* 0 once counted down
InSort == pc \notin {"idle", "37", "38", "40"}

tick ==
  /\ pc # "lost" /\ ~Cyclic /\ (calm => ~InSort)
  /\ LET list == Linked(queue)
         n == CHOOSE n \in 0..Len(list) : /\ \A k \in 1..n : Due(list[k])
                                          /\ n < Len(list) => ~Due(list[n + 1])
     IN  /\ node'  = [m \in Nodes |-> IF m \in ToSet(list) THEN Older(node[m]) ELSE node[m]]
         /\ fired' = [k \in 1..n |-> Older(node[list[k]])]
         /\ free'  = free \cup {list[k] : k \in 1..n}
         /\ queue' = IF n < Len(list) THEN list[n + 1] ELSE NULL
  /\ UNCHANGED <<pc, new, cur, pre, next, before, calm>>

Next == \/ push \/ tick
        \/ \E t \in Timeouts : malloc(t)
        \/ ~calm /\ malloc(0)

(* The CPU goes on, and a tick that is masked stays pending.                *)
Fairness == WF_vars(push) /\ SF_vars(tick)

Spec == Init /\ [][Next]_vars /\ Fairness
-----------------------------------------------------------------------------
(***************************************************************************)
(* While no push is between line 40 and the end of the sort, the list ends, *)
(* and its nodes are exactly those that malloc has given out and that are   *)
(* waiting: no callback is lost, none is used after it was freed.           *)
(***************************************************************************)
ListIsTheWaiting ==
  calm /\ ~InSort => ~Cyclic /\ ToSet(Linked(queue)) = Nodes \ (free \cup {new})

(***************************************************************************)
(* With ticks kept out of the sort, the lines of push and sort together do  *)
(* what CoreTimerQueue has as one step: the list with the new node in its   *)
(* place, whatever ticks come before it is linked.                          *)
(***************************************************************************)
Content(m) == [timeout |-> m.timeout, asked |-> m.asked, age |-> m.age]
Listed(nodes) == [k \in DOMAIN nodes |-> Content(node[nodes[k]])]
Timer == INSTANCE CoreTimerQueue
  WITH queue    <- IF calm THEN Listed(IF InSort THEN before ELSE Linked(queue)) ELSE <<>>,
       fired    <- IF calm THEN [k \in DOMAIN fired |-> Content(fired[k])] ELSE <<>>,
       MaxQueue <- Cardinality(Nodes)
ImplementsTimerQueue == Timer!Spec

(***************************************************************************)
(* Each callback is run: its node comes back, however many are pushed       *)
(* before and behind it.  One node stands for all: nothing tells them apart. *)
(***************************************************************************)
EveryCallbackRuns == LET m == CHOOSE m \in Nodes : TRUE
                     IN  calm /\ m \notin free ~> m \in free

(***************************************************************************)
(* "settimeout [message] [Timeout]": a callback runs in the tick that was   *)
(* asked for; where ticks may come in the sort, or a timeout of 0 wraps, it *)
(* may come late, but never early.                                          *)
(***************************************************************************)
InTime == Timer!OnTime /\ \A k \in DOMAIN fired : fired[k].age >= fired[k].asked
=============================================================================

--------------------------- MODULE CallbackMemory ---------------------------
(***************************************************************************)
(* The callbacks of libs/core_timer_queue.c in the chunks of libs/mm/       *)
(* dynamic.c, through malloc of libs/stdlib.c.  dynamic_malloc returns the  *)
(* address behind the chunk's header, and malloc adds the header's length   *)
(* once more; so a node reaches into the header of the next chunk.  Memory  *)
(* is the words that hold the pointers of both lists.                       *)
(*                                                                         *)
(* The model follows the pushes until a callback is due; the chunks come    *)
(* from the top chunk of one page.                                          *)
(***************************************************************************)
EXTENDS SequencesExt, Integers

CONSTANTS
  Header,     \* words in a chunk's header
  Node,       \* words in a struct core_timer_callback
  PageWords,  \* words in the page of the heap
  Timeouts    \* the timeouts that settimeout is called with

VARIABLES
  mem,       \* the words written as `next', of chunks and of nodes
  top,       \* top_chunk
  queue,     \* core_timer_callback_queue
  timeout,   \* of the nodes pushed, by address
  order      \* not in the code: the addresses of the nodes, as pushed

vars == <<mem, top, queue, timeout, order>>

NULL == 0
(* The next pointer is the last word of a chunk's header and of a node.     *)
ChunkNext(chunk) == chunk + Header - 1
NodeNext(node)   == node + Node - 1

Init ==
  /\ top = 1 /\ mem = (ChunkNext(1) :> NULL)
  /\ queue = NULL /\ timeout = <<>> /\ order = <<>>
-----------------------------------------------------------------------------
Returned(chunk) == chunk + Header + Header

(* dynamic_malloc cuts a chunk of a node's size from the top chunk and sets *)
(* the next pointers of both; free memory holds nothing else of interest.   *)
NewTop == top + Header + Node
malloc == (ChunkNext(top) :> NULL) @@ (ChunkNext(NewTop) :> NULL) @@ mem

(* The list as it is in memory m, as long as it leads to nodes.             *)
Walk(m) ==
  LET w[k \in 0..Len(order)] ==
        IF k = 0 THEN queue ELSE IF w[k - 1] = NULL THEN NULL ELSE m[NodeNext(w[k - 1])]
      n == CHOOSE n \in 0..Len(order) :
             /\ \A k \in 0..(n - 1) : w[k] # NULL
             /\ n < Len(order) => w[n] = NULL
  IN  [k \in 1..n |-> w[k - 1]]

(* core_timer_queue_sort brings the new head of a sorted list to its place. *)
Sorted(p, t, list) == SelectSeq(list, LAMBDA q : timeout[q] < t)
                      \o <<p>> \o SelectSeq(list, LAMBDA q : timeout[q] >= t)
Links(list) == [a \in {NodeNext(list[k]) : k \in DOMAIN list} |->
                  LET k == CHOOSE k \in DOMAIN list : NodeNext(list[k]) = a
                  IN  IF k = Len(list) THEN NULL ELSE list[k + 1]]

core_timer_queue_push(t) ==
  /\ NewTop + Header <= PageWords
  /\ LET p    == Returned(top)
         list == Sorted(p, t, Walk(malloc))
     IN  /\ mem'     = Links(list) @@ malloc
         /\ queue'   = list[1]
         /\ timeout' = timeout @@ (p :> t)
         /\ order'   = Append(order, p)
  /\ top' = NewTop

(* A tick at which no callback is due: the nodes that the list leads to are *)
(* counted down.                                                            *)
core_timer_queue_update ==
  /\ queue # NULL /\ timeout[queue] > 1
  /\ timeout' = [p \in DOMAIN timeout |->
                   IF Contains(Walk(mem), p) THEN timeout[p] - 1 ELSE timeout[p]]
  /\ UNCHANGED <<mem, top, queue, order>>

Next == core_timer_queue_update \/ \E t \in Timeouts : core_timer_queue_push(t)

Spec == Init /\ [][Next]_vars
-----------------------------------------------------------------------------
(***************************************************************************)
(* "settimeout [message] [Timeout]": a callback that has been queued and is *)
(* not due is still queued.                                                 *)
(***************************************************************************)
CallbacksKept == ToSet(Walk(mem)) = ToSet(order)
=============================================================================

------------------------------- MODULE Buddy --------------------------------
(***************************************************************************)
(* libs/mm/buddy.c: the pool of 2^MaxOrder page-sized blocks and its free   *)
(* lists.  A block number is written as the set of its one bits, so that    *)
(* index ^ (1 << k) and index + (1 << k) are set operations; addresses      *)
(* (start + number * (PAGE_SIZE + BUDDY_HEADER_OFFSET)) do not appear.      *)
(*                                                                         *)
(* inuse[] is left out: nothing ever writes the 'X' that is_free looks for, *)
(* so is_free answers 1 and the decision to merge falls on the free list.   *)
(* Callers free only what they hold, once.                                  *)
(***************************************************************************)
EXTENDS Lists

CONSTANT MaxOrder      \* BUDDY_MAX_ORDER

ASSUME MaxOrderAssumption == MaxOrder \in Nat

Orders == 0..MaxOrder
Bits   == 0..(MaxOrder - 1)
Blocks == SUBSET Bits

Flip(b, k)  == IF k \in b THEN b \ {k} ELSE b \cup {k}           \* b ^ (1 << k)
Plus(b, k)  ==                                                   \* b + (1 << k)
  {j \in Bits : (j \in b) # (j >= k /\ \A i \in k..(j - 1) : i \in b)}
Clear(b, k, m) == b \ (k..(m - 1))

VARIABLES
  free,      \* free_list[k] of buddy_system_header
  order,     \* buddy_block.order in the header of each block
  held,      \* the <<block, order>> in the hands of callers
  ret        \* the order last asked for, and the pointer that came back

vars == <<free, order, held, ret>>

buddy_init ==
  /\ free  = [k \in Orders |-> IF k = MaxOrder THEN <<{}>> ELSE <<>>]
  /\ order = [b \in Blocks |-> MaxOrder]
  /\ held  = {}
  /\ ret   = <<0, "none">>
-----------------------------------------------------------------------------
(***************************************************************************)
(* buddy_find_free_block(k) climbs to the first order m with a free block   *)
(* and, on its way back, puts the upper half at each order on that list.    *)
(***************************************************************************)
Source(k, m) == /\ m >= k /\ free[m] # <<>>
                /\ \A j \in Orders : k <= j /\ j < m => free[j] = <<>>

HalfLost(k, m, b) ==       \* the upper half at order k stays off the lists
  [j \in Orders |-> IF k < j /\ j < m THEN <<Plus(b, j)>> \o free[j]
                    ELSE IF j = m THEN Tail(free[m]) ELSE free[j]]
Split(k, m, b) ==
  [j \in Orders |-> IF k <= j /\ j < m THEN <<Plus(b, j)>> \o free[j]
                    ELSE IF j = m THEN Tail(free[m]) ELSE free[j]]

StaleHeader(k, m, b) ==    \* the headers of the halves are not written
  [c \in Blocks |-> IF c = b THEN k ELSE order[c]]
Headers(k, m, b) ==
  [c \in Blocks |-> IF c = b THEN k
                    ELSE IF \E j \in k..(m - 1) : c = Plus(b, j)
                         THEN CHOOSE j \in k..(m - 1) : c = Plus(b, j)
                         ELSE order[c]]

(* k = get_order(size); MaxOrder + 1 stands for a size beyond the pool.     *)
buddy_allocate(k) ==
  \/ /\ k > MaxOrder
     /\ ret' = <<k, "NULL">>
     /\ UNCHANGED <<free, order, held>>
  \/ \E m \in Orders :
       LET b == Head(free[m])
       IN  /\ Source(k, m)
           /\ free'  = Split(k, m, b)
           /\ order' = Headers(k, m, b)
           /\ held'  = held \cup {<<b, k>>}
           /\ ret'   = <<k, "block">>
  \/ /\ k \in Orders /\ \A m \in Orders : ~Source(k, m)
     /\ ret' = <<k, "NULL + BUDDY_HEADER_OFFSET">>
     /\ UNCHANGED <<free, order, held>>

(***************************************************************************)
(* merge climbs from the order k in the header of b as long as the buddy is *)
(* on the free list of its order, to the order m where it is not.  Of two   *)
(* buddies the joined block is the one with bit j clear.                    *)
(***************************************************************************)
BuddyOf(b, k, j) == Flip(Clear(b, k, j), j)
StopsBelow(b, k, j) == j < MaxOrder - 1 /\ Contains(free[j], BuddyOf(b, k, j))
Never(b, k, j)      == FALSE
Merges(b, k, j)  == j < MaxOrder /\ Contains(free[j], BuddyOf(b, k, j))

OrderAfterLoop(b, k, m) == \* the header is written after one more merge_order ++
  /\ m >= k /\ ~Merges(b, k, m)
  /\ \A j \in Orders : k <= j /\ j < m => Merges(b, k, j)
  /\ free' = [free EXCEPT ![m] = <<Clear(b, k, m)>> \o @]
  /\ order' = [order EXCEPT ![Clear(b, k, m)] = m + 1]

merge(b, k, m) ==
  /\ m >= k /\ ~Merges(b, k, m)
  /\ \A j \in Orders : k <= j /\ j < m => Merges(b, k, j)
  /\ free' = [j \in Orders |->
                IF k <= j /\ j < m THEN Without(free[j], BuddyOf(b, k, j))
                ELSE IF j = m THEN <<Clear(b, k, m)>> \o free[m] ELSE free[j]]
  /\ order' = [order EXCEPT ![Clear(b, k, m)] = m]

buddy_free ==
  \E h \in held :
    /\ \E m \in Orders : merge(h[1], order[h[1]], m)
    /\ held' = held \ {h}
    /\ ret' = <<0, "none">>

Next == buddy_free \/ \E k \in 0..(MaxOrder + 1) : buddy_allocate(k)

Spec == buddy_init /\ [][Next]_vars
-----------------------------------------------------------------------------
(* Free lists of block numbers; a header never holds an order above the     *)
(* pool's.                                                                  *)
TypeOK == /\ free \in [Orders -> Seq(Blocks)]
          /\ order \in [Blocks -> Orders]
          /\ held \subseteq Blocks \X Orders
          /\ ret \in (0..(MaxOrder + 1)) \X
                    {"none", "block", "NULL", "NULL + BUDDY_HEADER_OFFSET"}

Listed  == {d \in Blocks \X Orders : Contains(free[d[2]], d[1])}

(* The pages of block d = <<b, k>>: they share with b the bits from k up.   *)
PagesOf(d) == {p \in Blocks : \A j \in Bits : j >= d[2] => (j \in p <=> j \in d[1])}

(***************************************************************************)
(* The free blocks and the held ones cut the pool into blocks: every page   *)
(* is in exactly one of them, so no page is handed out twice, listed while  *)
(* it is held, or lost by a split or a merge.  No list has a block twice.   *)
(***************************************************************************)
Partition ==
  /\ \A p \in Blocks : \E d \in Listed \cup held : p \in PagesOf(d)
  /\ \A d, e \in Listed \cup held : d # e => PagesOf(d) \cap PagesOf(e) = {}
  /\ Listed \cap held = {}
  /\ \A k \in Orders : NoDuplicates(free[k])

(* A block lies at a multiple of its size, and its header has the order it  *)
(* was listed or given out with, which merge relies on.                     *)
HeadersRight ==
  /\ \A d \in Listed \cup held : \A j \in d[1] : j >= d[2]
  /\ \A d \in Listed \cup held : order[d[1]] = d[2]

(* Two buddies are never both free: merge has joined them.                  *)
Coalesced ==
  \A d \in Listed : d[2] < MaxOrder => ~Contains(free[d[2]], Flip(d[1], d[2]))

(***************************************************************************)
(* The buddy system is a page allocator: in particular a request fails only *)
(* when no aligned run of its size is left, whatever was split and merged   *)
(* before.                                                                  *)
(***************************************************************************)
Allocator == INSTANCE PageAllocator
  WITH Runs   <- [k \in 0..(MaxOrder + 1) |->
                    IF k > MaxOrder THEN {} ELSE {PagesOf(<<b, k>>) : b \in Blocks}],
       held   <- {PagesOf(d) : d \in held},
       answer <- <<ret[1], CASE ret[2] = "none"  -> "none"
                             [] ret[2] = "block" -> "granted"
                             [] OTHER            -> "refused">>
IsPageAllocator == Allocator!Spec

(* What the caller in dynamic.c relies on: "tmp == NULL" means that the     *)
(* request has failed.                                                      *)
RefusalIsNull == ret[2] # "NULL + BUDDY_HEADER_OFFSET"
=============================================================================

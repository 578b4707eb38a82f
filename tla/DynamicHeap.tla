---------------------------- MODULE DynamicHeap -----------------------------
(***************************************************************************)
(* libs/mm/dynamic.c: the heap of chunks in pages from the buddy system.    *)
(* Sizes and offsets count slots of DYNAMIC_BIN_MIN_SLOT bytes; a chunk is  *)
(* known by <<page, offset>> of its header.  Callers ask for at most        *)
(* DYNAMIC_BIN_MAX slots (kmalloc sends larger requests to the buddy        *)
(* system) and free what they hold, once.                                   *)
(*                                                                         *)
(* Two branches leave headers that contradict each other: the top chunk may *)
(* be used up to less than a header, and a chunk cut from the unsorted bin  *)
(* counts its header into its size.  harm records that one of them has been *)
(* taken, and the model is not followed beyond: later calls would read and  *)
(* write headers inside other chunks.                                       *)
(***************************************************************************)
EXTENDS Lists, Integers

CONSTANTS PageSlots,    \* PAGE_SIZE in slots
          BinMax,       \* DYNAMIC_BIN_MAX
          Pages,        \* bound: the pages that the buddy system has left
          Boundary,     \* the offset in each page that is a multiple of 4096:
                        \* blocks are one slot longer than PAGE_SIZE
          Word          \* 2^64 in slots

ASSUME HeapAssumption ==
  /\ PageSlots \in Nat /\ BinMax \in Nat \ {0} /\ BinMax + 3 <= PageSlots
  /\ Boundary \in [Pages -> 0..PageSlots]
  /\ Word \in Nat /\ Word > PageSlots

Hdr   == 2                        \* DYNAMIC_CHUNK_HEADER_OFFSET
First == 0                        \* the pre_size 1 of a page's first chunk
Room  == PageSlots - 1 - Hdr      \* size of a new top chunk

VARIABLES
  chunk,    \* the headers: pre_size, size without its low bit, and for that
            \* bit the number of slots that the holder has asked for, or 0
  top,      \* top_chunk
  list,     \* list[k]: the bin of the chunks of k slots; list[0]: unsort_bin
  harm,     \* not in the code: see above
  ret       \* what the last call was asked for, and whether it got it

vars == <<chunk, top, list, harm, ret>>

Offsets == 0..(PageSlots - 1)
Addr    == Pages \X Offsets
Free(pre, size) == [pre |-> pre, size |-> size, used |-> 0]

After(a)  == <<a[1], a[2] + chunk[a].size + Hdr>>
Before(a) == <<a[1], a[2] - chunk[a].pre - Hdr>>
Used      == {a \in DOMAIN chunk : chunk[a].used > 0}
Untaken   == {p \in Pages : <<p, 0>> \notin DOMAIN chunk}

Init ==
  /\ \E p \in Pages : /\ chunk = [a \in {<<p, 0>>} |-> Free(First, Room)]
                      /\ top = <<p, 0>>
  /\ list = [k \in 0..BinMax |-> <<>>]
  /\ harm = "none" /\ ret = <<0, "none">>
-----------------------------------------------------------------------------
(* The list where a free chunk of a size belongs.                           *)
Home(size) == IF size <= BinMax THEN size ELSE 0

Pushed(lists, k, a)  == [lists EXCEPT ![k] = <<a>> \o @]
Removed(lists, k, a) == [lists EXCEPT ![k] = Without(@, a)]

StillListed(k) == list                                    \* bin not advanced
Popped(k) == [list EXCEPT ![k] = Tail(@)]

from_small_bin(n) ==
  /\ list[n] # <<>>
  /\ list'  = Popped(n)
  /\ chunk' = [chunk EXCEPT ![Head(list[n])].used = n]
  /\ UNCHANGED <<top, harm>>

(* The first chunk of the unsorted bin with n slots and a header to spare   *)
(* is cut.  The size that its lower part gets includes the header, and the  *)
(* pre_size that is meant for the upper part goes to the lower one.  The    *)
(* upper part keeps whatever was there as its pre_size; with size 0 it goes *)
(* to bin[-1], which is top_chunk.                                          *)
CutAt(n, i) == /\ chunk[list[0][i]].size >= n + Hdr
               /\ \A j \in 1..(i - 1) : chunk[list[0][j]].size < n + Hdr

from_unsort_bin(n) ==
  /\ list[n] = <<>>
  /\ \E i \in DOMAIN list[0], garbage \in 0..Room :
       LET a    == list[0][i]
           b    == <<a[1], a[2] + n + Hdr>>
           rest == chunk[a].size - n - Hdr
       IN  /\ CutAt(n, i)
           /\ chunk' = [c \in DOMAIN chunk \cup {b} |->
                          IF c = a THEN [pre |-> n + Hdr, size |-> n + Hdr, used |-> n]
                          ELSE IF c = b THEN Free(garbage, rest) ELSE chunk[c]]
           /\ list' = IF rest = 0 THEN Removed(list, 0, a)
                      ELSE Pushed(Removed(list, 0, a), Home(rest), b)
           /\ top' = IF rest = 0 THEN b ELSE top
  /\ harm' = "cut"

LeftSigned(t, n) == t - n - Hdr                           \* sizes as int
Left(t, n) == (t - n - Hdr) % Word

(* The tail of from_top_chunk, with headers h and a top chunk at a.         *)
CutTop(n, h, a) ==
  LET b == <<a[1], a[2] + n + Hdr>>
  IN  /\ chunk' = [c \in DOMAIN h \cup {b} |->
                     IF c = a THEN [h[a] EXCEPT !.size = n, !.used = n]
                     ELSE IF c = b THEN Free(n, Left(h[a].size, n)) ELSE h[c]]
      /\ top'  = b
      /\ harm' = IF h[a].size < n + Hdr THEN "top" ELSE "none"

NoChunk(n) == list[n] = <<>> /\ \A i \in DOMAIN list[0] : ~CutAt(n, i)

from_top_chunk(n) ==
  /\ NoChunk(n) /\ chunk[top].size >= n
  /\ CutTop(n, chunk, top)
  /\ UNCHANGED list

(* dynamic_request_new_page: what is left of the old top chunk is freed.    *)
from_new_page(n) ==
  /\ NoChunk(n) /\ chunk[top].size < n
  /\ \E p \in Untaken :
       CutTop(n, [c \in DOMAIN chunk \cup {<<p, 0>>} |->
                    IF c = <<p, 0>> THEN Free(First, Room) ELSE chunk[c]], <<p, 0>>)
  /\ list' = IF chunk[top].size = 0 THEN list
             ELSE Pushed(list, Home(chunk[top].size), top)

dynamic_malloc(n) ==
  /\ harm = "none"
  /\ from_small_bin(n) \/ from_unsort_bin(n) \/ from_top_chunk(n) \/ from_new_page(n)
  /\ ret' = <<n, "granted">>
-----------------------------------------------------------------------------
(* Merging needs a free chunk before this one that does not lie before the  *)
(* last multiple of 4096.                                                   *)
SameSide(a, b) == a[2] < Boundary[a[1]] \/ b[2] >= Boundary[a[1]]
Merges(a) == /\ chunk[a].pre # First
             /\ chunk[Before(a)].used = 0
             /\ SameSide(a, Before(a))

DataOnly(a) == chunk[a].size + chunk[Before(a)].size      \* without the header
MergedSize(a) == chunk[a].size + chunk[Before(a)].size + Hdr

Joined(a, b) ==
  [c \in DOMAIN chunk \ {a} |->
     IF c = b THEN Free(chunk[b].pre, MergedSize(a))
     ELSE IF c = After(a) THEN [chunk[c] EXCEPT !.pre = MergedSize(a)] ELSE chunk[c]]

(* The chunk before is searched for in the list of its size; if it is not   *)
(* there, neither chunk is listed any more.                                 *)
dynamic_merge_chunk(a) ==
  LET b == Before(a)
      k == Home(chunk[b].size)
  IN  IF Contains(list[k], b)
      THEN /\ list'  = Pushed(Removed(list, k, b), Home(MergedSize(a)), b)
           /\ chunk' = Joined(a, b)
      ELSE /\ chunk' = [chunk EXCEPT ![a].used = 0]
           /\ UNCHANGED list

dynamic_free(a) ==
  /\ harm = "none"
  /\ \/ Merges(a) /\ dynamic_merge_chunk(a)
     \/ /\ ~Merges(a)
        /\ chunk' = [chunk EXCEPT ![a].used = 0]
        /\ list'  = Pushed(list, Home(chunk[a].size), a)
  /\ ret' = <<0, "none">>
  /\ UNCHANGED <<top, harm>>

Next == \/ \E n \in 1..BinMax : dynamic_malloc(n)
        \/ \E a \in Used : dynamic_free(a)

Spec == Init /\ [][Next]_vars
-----------------------------------------------------------------------------
(* Headers with sizes of 64 bits, and lists of their addresses.             *)
TypeOK ==
  /\ DOMAIN chunk \subseteq Addr
  /\ \A a \in DOMAIN chunk :
       chunk[a] \in [pre : 0..PageSlots, size : 0..(Word - 1), used : 0..BinMax]
  /\ top \in DOMAIN chunk
  /\ list \in [0..BinMax -> Seq(DOMAIN chunk)]
  /\ harm \in {"none", "top", "cut"}
  /\ ret \in (0..BinMax) \X {"none", "granted"}

Extent(a) == {<<a[1], o>> : o \in a[2]..(a[2] + Hdr + chunk[a].size - 1)}

(***************************************************************************)
(* The chunks of a page tile it: each ends where the next header is, so no  *)
(* caller's data reach into a header or into another caller's data, and no  *)
(* slot is lost but the last, which is never used.                          *)
(***************************************************************************)
Tiled ==
  harm = "none" =>
    \A p \in Pages \ Untaken : \A o \in 0..(PageSlots - 2) :
      \E a \in DOMAIN chunk : /\ <<p, o>> \in Extent(a)
                              /\ \A b \in DOMAIN chunk \ {a} : <<p, o>> \notin Extent(b)

(***************************************************************************)
(* pre_size leads from each chunk to the one before it, whatever has been   *)
(* merged since it was written: dynamic_free trusts it.                     *)
(***************************************************************************)
BoundaryTags ==
  harm = "none" =>
    \A a \in DOMAIN chunk :
      /\ chunk[a].pre = First <=> a[2] = 0
      /\ After(a) \in DOMAIN chunk => chunk[After(a)].pre = chunk[a].size

(***************************************************************************)
(* A free chunk is on the list of its size, once, and on no other; a used   *)
(* one, the top chunk and an empty remainder are on none.  So nothing that  *)
(* is freed is lost, and nothing is given out while somebody has it.        *)
(***************************************************************************)
ListsRight ==
  harm = "none" =>
    \A k \in 0..BinMax :
      /\ NoDuplicates(list[k])
      /\ \A a \in DOMAIN chunk :
           Contains(list[k], a) <=> /\ chunk[a].used = 0 /\ a # top
                                    /\ chunk[a].size > 0
                                    /\ k = IF chunk[a].size > BinMax THEN 0
                                           ELSE chunk[a].size

(***************************************************************************)
(* After every history of requests, merges and new pages the headers, the   *)
(* boundary tags and the bins agree with each other and with what is in use.*)
(***************************************************************************)
HeapWellFormed == Tiled /\ BoundaryTags /\ ListsRight

(***************************************************************************)
(* The heap keeps the allocator's promise for the slots behind the headers: *)
(* what a call returns is contiguous, of the size asked for, in one page,   *)
(* and nobody else's.                                                       *)
(***************************************************************************)
Data(a, n) == {<<a[1], o>> : o \in (a[2] + Hdr)..(a[2] + Hdr + n - 1)}
Allocator == INSTANCE PageAllocator
  WITH Runs   <- [n \in 1..BinMax |->
                    {Data(<<p, o>>, n) : p \in Pages, o \in 0..(PageSlots - Hdr - n)}],
       held   <- {Data(a, chunk[a].used) : a \in Used},
       answer <- ret
IsAllocator == Allocator!Spec
=============================================================================

----------------------------- MODULE TimerProof -----------------------------
(***************************************************************************)
(* Proofs about the timer callbacks, for any number of nodes, any timeouts  *)
(* and any width of the countdown: with ticks kept out of the sort, the     *)
(* lines of push and sort implement CoreTimerQueue, no callback is lost and *)
(* each runs in its tick; with ticks anywhere none runs early.              *)
(***************************************************************************)
EXTENDS CallbackLinks, FiniteSetTheorems, SequenceTheorems, WellFoundedInduction, TLAPS

(***************************************************************************)
(* The clocks: whatever the links are, a node has counted down, modulo      *)
(* Word, what it was asked for.                                             *)
(***************************************************************************)
Pointer == Nodes \cup {NULL}
Clock   == [timeout : 0..(Word - 1), asked : 0..(Word - 1), age : 0..Word, next : Pointer]
Counts(c) == c.age = Word \/ c.age + c.timeout \in {c.asked, c.asked + Word}

ClockInv ==
  /\ node \in [Nodes -> Clock] /\ \A m \in Nodes : Counts(node[m])
  /\ queue \in Pointer /\ cur \in Pointer /\ pre \in Pointer /\ next \in Pointer
  /\ free \subseteq Nodes
  /\ pc \in {"idle", "37", "38", "40", "41", "69", "77", "81", "82", "84", "88", "91", "lost"}
  /\ pc \in {"37", "38", "40", "41"} => new \in Nodes
  /\ pc \in {"81", "82", "84"} => next \in Nodes
  /\ \A k \in DOMAIN fired : fired[k].age >= fired[k].asked

(***************************************************************************)
(* The list.  It is spelled by the links from p: in nodes nd, each node     *)
(* leads to the one behind it in q, except for what is in X; NULL in X      *)
(* stands for the pointer to the first node.                                *)
(***************************************************************************)
At(q, i) == IF i \in 1..Len(q) THEN q[i] ELSE NULL
Chain(nd, p, q, X) ==
  /\ NULL \notin X => p = At(q, 1)
  /\ \A i \in 1..Len(q) : q[i] \notin X => nd[q[i]].next = At(q, i + 1)
Different(q) == /\ q \in Seq(Nodes)
                /\ \A i, j \in 1..Len(q) : q[i] = q[j] => i = j

(* The nodes that wait, in order, each to be run when it was asked for; and *)
(* the new one.                                                             *)
Waits(c) == c.timeout >= 1 /\ c.age + c.timeout = c.asked
Waiting(nd, q) ==
  /\ Different(q) /\ \A i \in 1..Len(q) : Waits(nd[q[i]])
  /\ \A i, j \in 1..Len(q) : i < j => nd[q[i]].timeout <= nd[q[j]].timeout
Exactly(q, S) == (\A i \in 1..Len(q) : q[i] \in S) /\ \A m \in S : \E i \in 1..Len(q) : q[i] = m
Quiet(nd, p, q, F, x) ==
  Chain(nd, p, q, {}) /\ Waiting(nd, q) /\ Exactly(q, Nodes \ (F \cup {x}))
Fresh(c) == c.timeout \in Timeouts /\ c.asked = c.timeout /\ c.age = 0

(* The new node x behind the first k of q, and where it belongs.            *)
With(q, k, x) == [i \in 1..(Len(q) + 1) |-> IF i <= k THEN q[i]
                                            ELSE IF i = k + 1 THEN x ELSE q[i - 1]]
Behind(nd, q, k, x) == \A i \in 1..k : nd[q[i]].timeout < nd[x].timeout
Before(nd, q, k, x) == \A i \in (k + 1)..Len(q) : nd[q[i]].timeout >= nd[x].timeout

(* The lines of the sort: the new node is behind the first k.               *)
Walking(q, c, k, i, last) ==
  /\ Chain(node, queue, c, {}) /\ Behind(node, q, k, new)
  /\ i \in 1..last /\ cur = At(c, i)
SortsAt(q, k) ==
  LET c == With(q, k, new)
      d == With(q, k + 1, new)
  IN  \/ pc = "41" /\ k = 0 /\ Chain(node, queue, q, {}) /\ node[new].next = At(q, 1)
      \/ pc = "69" /\ k = 0 /\ Chain(node, queue, c, {})
      \/ /\ pc = "77"
         /\ \E i \in 1..(Len(q) + 2) :
              /\ Walking(q, c, k, i, Len(q) + 2) /\ pre = At(c, i - 1) /\ next = At(c, i + 1)
              /\ i <= k + 1 \/ Before(node, q, k, new)
      \/ /\ pc \in {"81", "82", "84"} /\ k < Len(q) /\ Behind(node, q, k + 1, new)
         /\ cur = new /\ pre = At(q, k) /\ next = q[k + 1]
         /\ \/ pc = "81" /\ Chain(node, queue, c, {})
            \/ pc = "82" /\ Chain(node, queue, d, {pre, next})
            \/ pc = "84" /\ Chain(node, queue, d, {pre})
      \/ pc = "88" /\ k > 0 /\ Chain(node, queue, c, {}) /\ Behind(node, q, k, new)
      \/ /\ pc = "91"
         /\ \E i \in 1..(Len(q) + 1) : /\ Walking(q, c, k, i, Len(q) + 1)
                                       /\ i <= k \/ Before(node, q, k, new)

ListInv ==
  /\ pc # "lost"
  /\ pc = "idle" => new = NULL
  /\ pc # "idle" => new \in Nodes \ free /\ Fresh(node[new])
  /\ pc \in {"37", "38", "40"} => node[new].next = NULL
  /\ ~InSort => Quiet(node, queue, Linked(queue), free, new)
  /\ InSort => /\ Waiting(node, before) /\ Exactly(before, Nodes \ (free \cup {new}))
               /\ \E k \in 0..Len(before) : SortsAt(before, k)
  /\ pc = "38" => queue = NULL
  /\ \A k \in DOMAIN fired : fired[k].age = fired[k].asked

IInv == ClockInv /\ calm \in BOOLEAN /\ (calm => ListInv)
-----------------------------------------------------------------------------
(* Walking the links.  WalkOf and LinkedOf are Walk and Linked in any nodes. *)
WalkOf(nd, p) == LET w[k \in 0..Cardinality(Nodes)] ==
                       IF k = 0 THEN p
                       ELSE IF w[k - 1] = NULL THEN NULL ELSE nd[w[k - 1]].next
                 IN  w
LinkedOf(nd, p) ==
  LET w == WalkOf(nd, p)
      n == CHOOSE k \in 0..Cardinality(Nodes) :
             w[k] = NULL /\ \A j \in 0..(k - 1) : w[j] # NULL
  IN  [k \in 1..n |-> w[k - 1]]

LEMMA WalkIs ==
  /\ \A p : Walk(p) = WalkOf(node, p) /\ Linked(p) = LinkedOf(node, p)
  /\ Cyclic <=> WalkOf(node, queue)[Cardinality(Nodes)] # NULL
  /\ Linked(queue)' = LinkedOf(node', queue')
BY DEF Walk, WalkOf, Linked, LinkedOf, Cyclic

LEMMA LeastNat ==
  ASSUME NEW S \in SUBSET Nat, S # {}
  PROVE  \E m \in S : \A k \in S : m <= k
<1> DEFINE R == OpToRel(<, Nat)
<1>1. IsWellFoundedOn(R, Nat)  BY NatLessThanWellFounded
<1>2. PICK x \in S : \A y \in S : ~(<<y, x>> \in R)  BY <1>1, WFMin
<1>3. ASSUME NEW y \in S PROVE x <= y
  <2>1. x \in Nat /\ y \in Nat /\ ~(<<y, x>> \in R)  BY <1>2
  <2> QED  BY <2>1 DEF OpToRel
<1> QED  BY <1>2, <1>3

LEMMA SizeOfNodes == Cardinality(Nodes) \in Nat
BY LinksAssumption, FS_CardinalityType

(* The function that Walk defines recursively exists.                       *)
Walks(w, nd, p, n) ==
  w = [k \in 0..n |-> IF k = 0 THEN p
                      ELSE IF w[k - 1] = NULL THEN NULL ELSE nd[w[k - 1]].next]

LEMMA WalkExists ==
  ASSUME NEW n \in Nat, NEW nd, NEW p
  PROVE  \E w : Walks(w, nd, p, n)
<1> DEFINE Bad == {m \in Nat : ~ \E w : Walks(w, nd, p, m)}
<1>1. SUFFICES ASSUME Bad # {} PROVE FALSE  OBVIOUS
<1>2. PICK m \in Bad : \A k \in Bad : m <= k  BY <1>1, LeastNat
<1>3. CASE m = 0
  <2> DEFINE u == [k \in 0..0 |-> p]
  <2>1. Walks(u, nd, p, 0)  BY DEF Walks
  <2> QED  BY <1>2, <1>3, <2>1
<1>4. CASE m # 0
  <2>1. m - 1 \in Nat /\ m - 1 \notin Bad  BY <1>2, <1>4
  <2>2. PICK v : Walks(v, nd, p, m - 1)  BY <2>1
  <2> DEFINE Step(w, k) == IF k = 0 THEN p
                           ELSE IF w[k - 1] = NULL THEN NULL ELSE nd[w[k - 1]].next
             g == [k \in 0..m |-> IF k < m THEN v[k] ELSE Step(v, m)]
  <2>3. \A k \in 0..(m - 1) : v[k] = Step(v, k)  BY <2>2 DEF Walks
  <2>4. ASSUME NEW k \in 0..m PROVE g[k] = Step(g, k)
    <3>1. CASE k < m
      <4>1. k \in 0..(m - 1) /\ g[k] = v[k]  BY <1>2, <3>1
      <4>2. k # 0 => k - 1 \in 0..m /\ k - 1 < m  BY <1>2, <3>1
      <4>3. k # 0 => g[k - 1] = v[k - 1]  BY <4>2
      <4> QED  BY <2>3, <4>1, <4>3
    <3>2. CASE k = m
      <4>1. g[k] = Step(v, m)  BY <1>2, <3>2
      <4>2. m - 1 \in 0..m /\ m - 1 < m  BY <1>2, <2>1
      <4>3. g[m - 1] = v[m - 1]  BY <4>2
      <4> QED  BY <3>2, <4>1, <4>3
    <3> QED  BY <1>2, <3>1, <3>2
  <2>5. Walks(g, nd, p, m)
    <3> HIDE DEF g
    <3> DEFINE h == [k \in 0..m |-> Step(g, k)]
    <3>1. g = [k \in 0..m |-> g[k]]  BY DEF g
    <3>2. \A k \in 0..m : g[k] = h[k]  BY <2>4
    <3>3. g = h  BY <3>1, <3>2
    <3> QED  BY <3>3 DEF Walks
  <2> QED  BY <1>2, <2>5
<1> QED  BY <1>3, <1>4

LEMMA WalkSteps ==
  ASSUME NEW nd, NEW p
  PROVE  /\ WalkOf(nd, p)[0] = p
         /\ \A k \in 1..Cardinality(Nodes) :
              WalkOf(nd, p)[k] = IF WalkOf(nd, p)[k - 1] = NULL THEN NULL
                                 ELSE nd[WalkOf(nd, p)[k - 1]].next
<1> DEFINE w == CHOOSE w : Walks(w, nd, p, Cardinality(Nodes))
<1>1. Walks(w, nd, p, Cardinality(Nodes))  BY SizeOfNodes, WalkExists
<1>2. WalkOf(nd, p) = w  BY DEF WalkOf, Walks
<1> HIDE DEF w
<1>3. \A k \in 0..Cardinality(Nodes) :
        w[k] = IF k = 0 THEN p ELSE IF w[k - 1] = NULL THEN NULL ELSE nd[w[k - 1]].next
  BY <1>1 DEF Walks
<1> QED  BY <1>2, <1>3, SizeOfNodes

(* A chain of different nodes is what the walk meets.                       *)
LEMMA ChainLength ==
  ASSUME NEW q, Different(q)
  PROVE  Len(q) \in 0..Cardinality(Nodes)
<1>1. Len(q) \in Nat /\ q \in [1..Len(q) -> Nodes]  BY DEF Different
<1>2. IsFiniteSet(1..Len(q)) /\ Cardinality(1..Len(q)) = Len(q)
  BY <1>1, FS_Interval
<1>3. q \in Injection(1..Len(q), Nodes)
  BY <1>1 DEF Different, Injection, IsInjective
<1>4. Cardinality(1..Len(q)) <= Cardinality(Nodes)
  BY <1>2, <1>3, LinksAssumption, FS_Injection
<1> QED  BY <1>1, <1>2, <1>4, SizeOfNodes

LEMMA ChainWalked ==
  ASSUME NEW nd, NEW p, NEW q, Different(q), Chain(nd, p, q, {})
  PROVE  /\ \A k \in 0..Len(q) : WalkOf(nd, p)[k] = At(q, k + 1)
         /\ \A k \in Len(q)..Cardinality(Nodes) : WalkOf(nd, p)[k] = NULL
<1> DEFINE w == WalkOf(nd, p)
           N == Cardinality(Nodes)
<1>1. Len(q) \in 0..N /\ N \in Nat /\ NULL \notin Nodes
  BY ChainLength, SizeOfNodes, LinksAssumption
<1>2. w[0] = p /\ \A k \in 1..N : w[k] = IF w[k - 1] = NULL THEN NULL ELSE nd[w[k - 1]].next
  BY WalkSteps
<1>3. p = At(q, 1) /\ \A i \in 1..Len(q) : q[i] \in Nodes /\ nd[q[i]].next = At(q, i + 1)
  BY DEF Chain, Different
<1> HIDE DEF w, N
<1> DEFINE Bad == {k \in 0..N : w[k] # At(q, k + 1)}
<1>4. ASSUME Bad # {} PROVE FALSE
  <2>1. Bad \subseteq Nat  OBVIOUS
  <2>2. PICK k \in Bad : \A j \in Bad : k <= j  BY <1>4, <2>1, LeastNat
  <2>3. k # 0  BY <1>2, <1>3, <2>2
  <2>4. k - 1 \in 0..N /\ k \in 1..N /\ k - 1 \notin Bad  BY <1>1, <2>2, <2>3
  <2>5. w[k - 1] = At(q, k)  BY <2>4
  <2>6. CASE k \in 1..Len(q)
    <3>1. At(q, k) = q[k] /\ q[k] # NULL  BY <1>1, <1>3, <2>6 DEF At
    <3>2. w[k] = nd[q[k]].next  BY <1>2, <2>4, <2>5, <3>1
    <3> QED  BY <1>3, <2>2, <2>6, <3>2
  <2>7. CASE k \notin 1..Len(q)
    <3>1. At(q, k) = NULL  BY <2>7 DEF At
    <3>2. k + 1 \notin 1..Len(q)  BY <1>1, <2>4, <2>7
    <3>3. At(q, k + 1) = NULL  BY <3>2 DEF At
    <3> QED  BY <1>2, <2>2, <2>4, <2>5, <3>1, <3>3
  <2> QED  BY <2>6, <2>7
<1>5. \A k \in 0..N : w[k] = At(q, k + 1)  BY <1>4
<1>6. \A k \in Len(q)..N : At(q, k + 1) = NULL
  BY <1>1 DEF At
<1> QED  BY <1>1, <1>5, <1>6 DEF w, N

LEMMA ChainLinked ==
  ASSUME NEW nd, NEW p, NEW q, Different(q), Chain(nd, p, q, {})
  PROVE  LinkedOf(nd, p) = q /\ WalkOf(nd, p)[Cardinality(Nodes)] = NULL
<1> DEFINE w == WalkOf(nd, p)
           N == Cardinality(Nodes)
           First(k) == w[k] = NULL /\ \A j \in 0..(k - 1) : w[j] # NULL
           n == CHOOSE k \in 0..N : First(k)
<1>1. Len(q) \in 0..N /\ N \in Nat /\ NULL \notin Nodes
  BY ChainLength, SizeOfNodes, LinksAssumption
<1>2. q \in Seq(Nodes)  BY DEF Different
<1>3. /\ \A k \in 0..Len(q) : w[k] = At(q, k + 1)
      /\ \A k \in Len(q)..N : w[k] = NULL
  BY ChainWalked
<1>4. LinkedOf(nd, p) = [k \in 1..n |-> w[k - 1]]  BY DEF LinkedOf
<1> HIDE DEF w, N
<1>5. \A j \in 0..(Len(q) - 1) : w[j] = q[j + 1] /\ w[j] # NULL
  <2> SUFFICES ASSUME NEW j \in 0..(Len(q) - 1) PROVE w[j] = q[j + 1] /\ w[j] # NULL
    OBVIOUS
  <2>1. j \in 0..Len(q) /\ j + 1 \in 1..Len(q)  BY <1>1
  <2>2. q[j + 1] \in Nodes  BY <1>2, <2>1
  <2> QED  BY <1>1, <1>3, <2>1, <2>2 DEF At
<1>6. First(Len(q))  BY <1>1, <1>3, <1>5
<1>7. \A k \in 0..N : First(k) => k = Len(q)
  <2> SUFFICES ASSUME NEW k \in 0..N, First(k), k # Len(q) PROVE FALSE
    OBVIOUS
  <2>1. CASE k < Len(q)  BY <1>1, <1>5, <2>1
  <2>2. CASE k > Len(q)  BY <1>1, <1>6, <2>2
  <2> QED  BY <1>1, <2>1, <2>2
<1> HIDE DEF First
<1>8. n = Len(q)  BY <1>1, <1>6, <1>7
<1> HIDE DEF n
<1>9. \A k \in 1..Len(q) : w[k - 1] = q[k]
  <2> SUFFICES ASSUME NEW k \in 1..Len(q) PROVE w[k - 1] = q[k]
    OBVIOUS
  <2>1. k - 1 \in 0..(Len(q) - 1) /\ (k - 1) + 1 = k  BY <1>1
  <2> QED  BY <1>5, <2>1
<1>10. q = [k \in 1..Len(q) |-> q[k]]  BY <1>2
<1>11. [k \in 1..Len(q) |-> w[k - 1]] = q  BY <1>9, <1>10
<1> QED  BY <1>1, <1>3, <1>4, <1>8, <1>11 DEF w, N

(* The walk meets nodes only, whatever the links are.                       *)
LEMMA WalkType ==
  ASSUME NEW nd \in [Nodes -> Clock], NEW p \in Pointer
  PROVE  \A k \in 0..Cardinality(Nodes) : WalkOf(nd, p)[k] \in Pointer
<1> DEFINE w == WalkOf(nd, p)
           N == Cardinality(Nodes)
           Bad == {k \in 0..N : w[k] \notin Pointer}
<1>1. N \in Nat  BY SizeOfNodes
<1>2. w[0] = p /\ \A k \in 1..N : w[k] = IF w[k - 1] = NULL THEN NULL ELSE nd[w[k - 1]].next
  BY WalkSteps
<1> HIDE DEF w, N
<1>3. ASSUME Bad # {} PROVE FALSE
  <2>1. Bad \subseteq Nat  OBVIOUS
  <2>2. PICK k \in Bad : \A j \in Bad : k <= j  BY <1>3, <2>1, LeastNat
  <2>3. k # 0  BY <1>2, <2>2
  <2>4. k - 1 \in 0..N /\ k \in 1..N /\ k - 1 \notin Bad  BY <1>1, <2>2, <2>3
  <2>5. w[k - 1] \in Pointer  BY <2>4
  <2>6. w[k] \in Pointer  BY <1>2, <2>4, <2>5 DEF Pointer, Clock
  <2> QED  BY <2>2, <2>6
<1> QED  BY <1>3 DEF w, N

LEMMA LinkedType ==
  ASSUME NEW nd \in [Nodes -> Clock], NEW p \in Pointer,
         WalkOf(nd, p)[Cardinality(Nodes)] = NULL
  PROVE  LinkedOf(nd, p) \in Seq(Nodes)
<1> DEFINE w == WalkOf(nd, p)
           N == Cardinality(Nodes)
           First(k) == w[k] = NULL /\ \A j \in 0..(k - 1) : w[j] # NULL
           n == CHOOSE k \in 0..N : First(k)
           Ends == {k \in 0..N : w[k] = NULL}
<1>1. N \in Nat  BY SizeOfNodes
<1>2. \A k \in 0..N : w[k] \in Pointer  BY WalkType
<1>3. LinkedOf(nd, p) = [k \in 1..n |-> w[k - 1]]  BY DEF LinkedOf
<1>4. Ends \subseteq Nat /\ N \in Ends  BY <1>1
<1> HIDE DEF w, N
<1>5. PICK m \in Ends : \A k \in Ends : m <= k  BY <1>4, LeastNat
<1>6. m \in 0..N /\ First(m)  BY <1>1, <1>5
<1> HIDE DEF First
<1>7. n \in 0..N /\ First(n)  BY <1>6
<1> HIDE DEF n
<1>8. \A k \in 1..n : w[k - 1] \in Nodes
  <2> SUFFICES ASSUME NEW k \in 1..n PROVE w[k - 1] \in Nodes
    OBVIOUS
  <2>1. k - 1 \in 0..N /\ k - 1 \in 0..(n - 1)  BY <1>1, <1>7
  <2>2. w[k - 1] # NULL  BY <1>7, <2>1 DEF First
  <2> QED  BY <1>2, <2>1, <2>2 DEF Pointer
<1> QED  BY <1>3, <1>7, <1>8
-----------------------------------------------------------------------------
(* A tick on one node.                                                      *)
LEMMA WordIs == Word \in Nat /\ Word >= 2 /\ \A t \in Timeouts : t \in 1..(Word - 1)
<1>1. PICK t : t \in Timeouts  BY LinksAssumption
<1> QED  BY <1>1, LinksAssumption

LEMMA CountedDown ==
  ASSUME NEW t \in 0..(Word - 1)
  PROVE  (t + Word - 1) % Word = IF t = 0 THEN Word - 1 ELSE t - 1
<1>1. CASE t = 0
  <2>1. (t + Word - 1) % Word = Word - 1  BY WordIs, <1>1
  <2> QED  BY <1>1, <2>1
<1>2. CASE t # 0
  <2>1. t - 1 \in 0..(Word - 1) /\ t + Word - 1 = (t - 1) + 1 * Word  BY WordIs, <1>2
  <2>2. (t + Word - 1) % Word = t - 1  BY WordIs, <1>2, <2>1
  <2> QED  BY <1>2, <2>2
<1> QED  BY <1>1, <1>2

LEMMA OlderIs ==
  ASSUME NEW c \in Clock
  PROVE  /\ Older(c) \in Clock
         /\ Older(c).timeout = IF c.timeout = 0 THEN Word - 1 ELSE c.timeout - 1
         /\ Older(c).asked = c.asked /\ Older(c).next = c.next
         /\ Older(c).age = IF c.age < Word THEN c.age + 1 ELSE c.age
         /\ Counts(c) => Counts(Older(c))
         /\ Counts(c) /\ c.timeout = 1 => Older(c).age >= c.asked
<1>1. c.timeout \in 0..(Word - 1) /\ c.asked \in 0..(Word - 1) /\ c.age \in 0..Word
  BY DEF Clock
<1>2. (c.timeout + Word - 1) % Word = IF c.timeout = 0 THEN Word - 1 ELSE c.timeout - 1
  BY <1>1, CountedDown
<1>3. /\ Older(c).timeout = IF c.timeout = 0 THEN Word - 1 ELSE c.timeout - 1
      /\ Older(c).asked = c.asked /\ Older(c).next = c.next
      /\ Older(c).age = IF c.age < Word THEN c.age + 1 ELSE c.age
  BY <1>2 DEF Older, Clock
<1>4. Older(c) \in Clock
  <2>1. Older(c).timeout \in 0..(Word - 1) /\ Older(c).age \in 0..Word
    BY <1>1, <1>3, WordIs
  <2>2. \A x \in 0..(Word - 1), y \in 0..Word :
          [c EXCEPT !.timeout = x, !.age = y] \in Clock
    BY DEF Clock
  <2>3. Older(c) = [c EXCEPT !.timeout = Older(c).timeout, !.age = Older(c).age]
    BY <1>2, <1>3 DEF Older
  <2> QED  BY <2>1, <2>2, <2>3
<1>5. Counts(c) => Counts(Older(c))
  BY <1>1, <1>3, WordIs DEF Counts
<1>6. Counts(c) /\ c.timeout = 1 => Older(c).age >= c.asked
  BY <1>1, <1>3, WordIs DEF Counts
<1> QED  BY <1>3, <1>4, <1>5, <1>6
-----------------------------------------------------------------------------
(* A pointer written: the clocks stay.                                      *)
Alike(c, d) == d.timeout = c.timeout /\ d.asked = c.asked /\ d.age = c.age
Same(nd, md) == \A m \in Nodes : Alike(nd[m], md[m])

Written(nd, md, p, q) == md = [nd EXCEPT ![p].next = q]
Leads(nd, md, p, q) == \A m \in Nodes : md[m].next = IF m = p THEN q ELSE nd[m].next

LEMMA LinkIs ==
  ASSUME NEW nd \in [Nodes -> Clock], NEW p, NEW q \in Pointer,
         NEW md, Written(nd, md, p, q)
  PROVE  /\ md \in [Nodes -> Clock] /\ Same(nd, md)
         /\ Leads(nd, md, p, q)
         /\ (\A m \in Nodes : Counts(nd[m])) => \A m \in Nodes : Counts(md[m])
<1>1. \A c \in Clock : [c EXCEPT !.next = q] \in Clock  BY DEF Clock
<1>2. \A m \in Nodes : md[m] = IF m = p THEN [nd[p] EXCEPT !.next = q] ELSE nd[m]
  BY DEF Written
<1>3. md \in [Nodes -> Clock]  BY <1>1, <1>2 DEF Written
<1>4. \A m \in Nodes : nd[m] \in Clock  OBVIOUS
<1>5. \A m \in Nodes : md[m].next = IF m = p THEN q ELSE nd[m].next
  BY <1>2, <1>4 DEF Clock
<1>6. Same(nd, md)  BY <1>2, <1>4 DEF Same, Alike, Clock
<1> QED  BY <1>3, <1>5, <1>6 DEF Same, Alike, Counts, Leads

LEMMA FirstMissing ==
  ASSUME NEW l \in Nat, NEW D
  PROVE  \E n \in 0..l : (\A k \in 1..n : k \in D) /\ (n < l => n + 1 \notin D)
<1> DEFINE S == {k \in 0..l : k < l => k + 1 \notin D}
<1>1. S \subseteq Nat /\ l \in S  OBVIOUS
<1>2. PICK n \in S : \A k \in S : n <= k  BY <1>1, LeastNat
<1>3. \A k \in 1..n : k - 1 \in 0..l /\ k - 1 \notin S  BY <1>2
<1>4. \A k \in 1..n : (k - 1) + 1 = k  BY <1>2
<1>5. \A k \in 1..n : k \in D  BY <1>3, <1>4
<1> QED  BY <1>2, <1>5

(* What a tick does with the list and the first n of it, which are due.     *)
Pops(list, n) ==
  /\ list \in Seq(Nodes) /\ list = LinkedOf(node, queue)
  /\ n \in 0..Len(list) /\ \A k \in 1..n : node[list[k]].timeout = 1
  /\ n < Len(list) => node[list[n + 1]].timeout # 1
  /\ \A m \in Nodes : node'[m] = IF m \in ToSet(list) THEN Older(node[m]) ELSE node[m]
  /\ node' \in [Nodes -> Clock]
  /\ fired' = [k \in 1..n |-> Older(node[list[k]])]
  /\ free' = free \cup {list[k] : k \in 1..n}
  /\ queue' = IF n < Len(list) THEN list[n + 1] ELSE NULL

LEMMA TickPops ==
  ASSUME ClockInv, tick
  PROVE  \E list, n : Pops(list, n)
<1> DEFINE list == Linked(queue)
           Dues(n) == /\ \A k \in 1..n : Due(list[k])
                      /\ n < Len(list) => ~Due(list[n + 1])
           n == CHOOSE n \in 0..Len(list) : Dues(n)
<1>1. /\ node' = [m \in Nodes |-> IF m \in ToSet(list) THEN Older(node[m]) ELSE node[m]]
      /\ fired' = [k \in 1..n |-> Older(node[list[k]])]
      /\ free' = free \cup {list[k] : k \in 1..n}
      /\ queue' = IF n < Len(list) THEN list[n + 1] ELSE NULL
  BY DEF tick
<1>2. node \in [Nodes -> Clock] /\ queue \in Pointer  BY DEF ClockInv
<1>3. list = LinkedOf(node, queue) /\ WalkOf(node, queue)[Cardinality(Nodes)] = NULL
  BY WalkIs DEF tick
<1>4. list \in Seq(Nodes)  BY <1>2, <1>3, LinkedType
<1> HIDE DEF list
<1>5. \E k \in 0..Len(list) : Dues(k)
  <2> DEFINE D == {k \in 1..Len(list) : Due(list[k])}
  <2>1. Len(list) \in Nat  BY <1>4
  <2>2. PICK k \in 0..Len(list) : /\ \A j \in 1..k : j \in D
                                  /\ k < Len(list) => k + 1 \notin D
    BY <2>1, FirstMissing
  <2>3. k < Len(list) => k + 1 \in 1..Len(list)  BY <2>1
  <2> QED  BY <2>2, <2>3
<1> HIDE DEF Dues
<1>6. n \in 0..Len(list) /\ Dues(n)  BY <1>5
<1> HIDE DEF n
<1>7. \A m \in Nodes : Older(node[m]) \in Clock /\ node[m] \in Clock
  BY <1>2, OlderIs
<1>8. node' \in [Nodes -> Clock]  BY <1>1, <1>7
<1>9. Pops(list, n)
  BY <1>1, <1>3, <1>4, <1>6, <1>8 DEF Pops, Dues, Due
<1> QED  BY <1>9

LEMMA ClockInit == ASSUME Init PROVE ClockInv
<1>1. Nodes \subseteq Nodes /\ FewNodes \subseteq Nodes  BY LinksAssumption
<1>2. \A m \in Nodes : node[m] = [timeout |-> 1, asked |-> 1, age |-> 0, next |-> NULL]
  BY DEF Init
<1>3. [timeout |-> 1, asked |-> 1, age |-> 0, next |-> NULL] \in Clock
  BY WordIs DEF Clock, Pointer
<1>4. node \in [Nodes -> Clock]  BY <1>3 DEF Init
<1>5. \A m \in Nodes : Counts(node[m])  BY <1>2, WordIs DEF Counts
<1>6. queue \in Pointer /\ cur \in Pointer /\ pre \in Pointer /\ next \in Pointer
  BY DEF Init, Pointer
<1> QED  BY <1>1, <1>4, <1>5, <1>6 DEF Init, ClockInv

LEMMA ClockMalloc ==
  ASSUME ClockInv, NEW t \in 0..(Word - 1), malloc(t)
  PROVE  ClockInv'
<1> DEFINE c == [timeout |-> t, asked |-> t, age |-> 0, next |-> NULL]
<1>1. c \in Clock /\ Counts(c)  BY WordIs DEF Clock, Pointer, Counts
<1>2. new' \in Nodes /\ node' = [node EXCEPT ![new'] = c] /\ free' \subseteq Nodes
  BY DEF malloc, ClockInv
<1>3. node \in [Nodes -> Clock] /\ \A m \in Nodes : Counts(node[m])  BY DEF ClockInv
<1> HIDE DEF c
<1>4. node' \in [Nodes -> Clock] /\ \A m \in Nodes : Counts(node'[m])
  BY <1>1, <1>2, <1>3
<1> QED  BY <1>2, <1>4 DEF ClockInv, malloc, Line

LEMMA ClockTick ==
  ASSUME ClockInv, tick
  PROVE  ClockInv'
<1>1. PICK list, n : Pops(list, n)  BY TickPops
<1>2. list \in Seq(Nodes) /\ n \in 0..Len(list) /\ \A k \in 1..n : list[k] \in Nodes
  <2>1. list \in Seq(Nodes) /\ n \in 0..Len(list)  BY <1>1 DEF Pops
  <2>2. Len(list) \in Nat  BY <2>1
  <2>3. \A k \in 1..n : k \in 1..Len(list)  BY <2>1, <2>2
  <2> QED  BY <2>1, <2>3
<1>3. node \in [Nodes -> Clock] /\ \A m \in Nodes : Counts(node[m])  BY DEF ClockInv
<1>4. \A m \in Nodes : Counts(node'[m])
  <2>1. \A m \in Nodes : Counts(Older(node[m]))  BY <1>3, OlderIs
  <2> QED  BY <1>1, <1>3, <2>1 DEF Pops
<1>5. \A k \in DOMAIN fired' : fired'[k].age >= fired'[k].asked
  <2> SUFFICES ASSUME NEW k \in DOMAIN fired' PROVE fired'[k].age >= fired'[k].asked
    OBVIOUS
  <2>1. k \in 1..n /\ fired'[k] = Older(node[list[k]])  BY <1>1 DEF Pops
  <2>2. list[k] \in Nodes /\ node[list[k]].timeout = 1  BY <1>1, <1>2, <2>1 DEF Pops
  <2>3. node[list[k]] \in Clock /\ Counts(node[list[k]])  BY <1>3, <2>2
  <2>4. /\ Older(node[list[k]]).age >= node[list[k]].asked
        /\ Older(node[list[k]]).asked = node[list[k]].asked
    BY <2>2, <2>3, OlderIs
  <2> QED  BY <2>1, <2>4
<1>6. queue' \in Pointer
  <2>1. n < Len(list) => n + 1 \in 1..Len(list)  BY <1>2
  <2>2. n < Len(list) => list[n + 1] \in Nodes  BY <1>2, <2>1
  <2> QED  BY <1>1, <2>2 DEF Pops, Pointer
<1>7. free' \subseteq Nodes  BY <1>1, <1>2 DEF Pops, ClockInv
<1>8. UNCHANGED <<pc, new, cur, pre, next>>  BY DEF tick
<1> QED  BY <1>1, <1>4, <1>5, <1>6, <1>7, <1>8 DEF ClockInv, Pops

LEMMA ClockPush ==
  ASSUME ClockInv, push
  PROVE  ClockInv'
<1>1. /\ node \in [Nodes -> Clock] /\ \A m \in Nodes : Counts(node[m])
      /\ queue \in Pointer /\ cur \in Pointer /\ pre \in Pointer /\ next \in Pointer
      /\ NULL \in Pointer /\ NULL \notin Nodes /\ \A m \in Nodes : m \in Pointer
  BY LinksAssumption DEF ClockInv, Pointer
<1>2. \A m \in Nodes : node[m].next \in Pointer  BY <1>1 DEF Clock
<1>3. \A p \in Pointer : Succ(p) \in Pointer  BY <1>2 DEF Succ, Pointer
<1>4. \A p, q : q \in Pointer /\ Link(p, q) =>
        node' \in [Nodes -> Clock] /\ \A m \in Nodes : Counts(node'[m])
  <2> SUFFICES ASSUME NEW p, NEW q \in Pointer, Link(p, q)
               PROVE  node' \in [Nodes -> Clock] /\ \A m \in Nodes : Counts(node'[m])
    OBVIOUS
  <2>1. Written(node, node', p, q)  BY DEF Link, Written
  <2> QED  BY <1>1, <2>1, LinkIs
<1>5. CASE test_empty  BY <1>5 DEF test_empty, ClockInv
<1>6. CASE link_only  BY <1>1, <1>6 DEF link_only, Line, ClockInv
<1>7. CASE link_to_head
  <2>1. node' \in [Nodes -> Clock] /\ \A m \in Nodes : Counts(node'[m])
    BY <1>1, <1>4, <1>7 DEF link_to_head
  <2> QED  BY <1>7, <2>1 DEF link_to_head, Line, ClockInv
<1>8. CASE link_head  BY <1>1, <1>8 DEF link_head, Line, ClockInv
<1>9. CASE sort_begin  BY <1>1, <1>3, <1>9 DEF sort_begin, Line, ClockInv
<1>10. CASE sort_end  BY <1>1, <1>10 DEF sort_end, Idle, ClockInv
<1>11. CASE compare
  BY <1>1, <1>11 DEF compare, OutOfOrder, ClockInv, Pointer
<1>12. CASE swap_first
  <2>1. next \in Nodes /\ pc = "81" /\ pc' = "82"
    BY <1>12 DEF swap_first, Line, ClockInv
  <2>2. node' \in [Nodes -> Clock] /\ \A m \in Nodes : Counts(node'[m])
    BY <1>2, <1>4, <1>12, <2>1 DEF swap_first
  <2> QED  BY <1>12, <2>1, <2>2 DEF swap_first, ClockInv
<1>13. CASE swap_second
  <2>1. node' \in [Nodes -> Clock] /\ \A m \in Nodes : Counts(node'[m])
    BY <1>1, <1>4, <1>13 DEF swap_second
  <2> QED  BY <1>13, <2>1 DEF swap_second, Line, ClockInv
<1>14. CASE swap_third
  <2>1. node' \in [Nodes -> Clock] /\ \A m \in Nodes : Counts(node'[m])
    BY <1>1, <1>4, <1>14 DEF swap_third, AfterSwap
  <2>2. queue' \in Pointer  BY <1>1, <1>14 DEF swap_third, AfterSwap
  <2> QED  BY <1>14, <2>1, <2>2 DEF swap_third, AfterSwap, Line, ClockInv
<1>15. CASE restart  BY <1>1, <1>15 DEF restart, Line, ClockInv
<1>16. CASE advance
  <2>1. cur' \in Pointer /\ next' \in Pointer /\ pre' \in Pointer
    <3>1. CASE cur = NULL  BY <1>1, <1>16, <3>1 DEF advance
    <3>2. CASE cur # NULL
      <4>1. cur \in Nodes  BY <1>1, <3>2 DEF Pointer
      <4>2. cur' = node[cur].next /\ next' = Succ(cur') /\ pre' = cur
        BY <1>16, <3>2 DEF advance
      <4>3. cur' \in Pointer  BY <1>2, <4>1, <4>2
      <4> QED  BY <1>1, <1>3, <4>2, <4>3
    <3> QED  BY <3>1, <3>2
  <2>2. pc' \in {"lost", "77"}  BY <1>16 DEF advance
  <2> QED  BY <1>16, <2>1, <2>2 DEF advance, ClockInv
<1> QED
  BY <1>5, <1>6, <1>7, <1>8, <1>9, <1>10, <1>11, <1>12, <1>13, <1>14, <1>15, <1>16 DEF push

LEMMA ClockNext ==
  ASSUME ClockInv, [Next]_vars
  PROVE  ClockInv'
<1>1. CASE push  BY <1>1, ClockPush
<1>2. CASE tick  BY <1>2, ClockTick
<1>3. CASE \E t \in Timeouts : malloc(t)
  <2>1. PICK t \in Timeouts : malloc(t)  BY <1>3
  <2>2. t \in 0..(Word - 1)  BY WordIs
  <2> QED  BY <2>1, <2>2, ClockMalloc
<1>4. CASE malloc(0)
  <2>1. 0 \in 0..(Word - 1)  BY WordIs
  <2> QED  BY <1>4, <2>1, ClockMalloc
<1>5. CASE UNCHANGED vars  BY <1>5 DEF vars, ClockInv
<1> QED  BY <1>1, <1>2, <1>3, <1>4, <1>5 DEF Next
-----------------------------------------------------------------------------
(* The list with the new node in it.                                        *)
LEMMA AtIs ==
  ASSUME NEW q, q \in Seq(Nodes)
  PROVE  /\ Len(q) \in Nat
         /\ \A i \in 1..Len(q) : At(q, i) = q[i] /\ q[i] \in Nodes /\ q[i] # NULL
         /\ \A i : i \notin 1..Len(q) => At(q, i) = NULL
         /\ \A i : At(q, i) # NULL => i \in 1..Len(q)
BY LinksAssumption DEF At

Inserted(c, q, k, x) ==
  /\ c \in Seq(Nodes) /\ Len(c) = Len(q) + 1 /\ c[k + 1] = x
  /\ \A i \in 1..k : c[i] = q[i]
  /\ \A i \in (k + 1)..Len(q) : c[i + 1] = q[i]

LEMMA WithIs ==
  ASSUME NEW q, Different(q), NEW k \in 0..Len(q), NEW x \in Nodes,
         \A i \in 1..Len(q) : q[i] # x
  PROVE  Inserted(With(q, k, x), q, k, x) /\ Different(With(q, k, x))
<1> DEFINE c == With(q, k, x)
<1>1. Len(q) \in Nat /\ q \in Seq(Nodes) /\ \A i \in 1..Len(q) : q[i] \in Nodes
  BY DEF Different
<1>2. \A i \in 1..(Len(q) + 1) :
        c[i] = IF i <= k THEN q[i] ELSE IF i = k + 1 THEN x ELSE q[i - 1]
  BY DEF With
<1>3. \A i \in 1..(Len(q) + 1) : c[i] \in Nodes
  <2> SUFFICES ASSUME NEW i \in 1..(Len(q) + 1) PROVE c[i] \in Nodes
    OBVIOUS
  <2>1. i <= k => i \in 1..Len(q)  BY <1>1
  <2>2. i > k + 1 => i - 1 \in 1..Len(q)  BY <1>1
  <2> QED  BY <1>1, <1>2, <2>1, <2>2
<1>4. c = [i \in 1..(Len(q) + 1) |-> c[i]]  BY DEF With
<1> HIDE DEF c
<1>5. c \in Seq(Nodes) /\ Len(c) = Len(q) + 1
  <2>1. Len(q) + 1 \in Nat  BY <1>1
  <2> QED  BY <1>3, <1>4, <2>1
<1>6. c[k + 1] = x  BY <1>1, <1>2
<1>7. \A i \in 1..k : c[i] = q[i]
  <2>1. \A i \in 1..k : i \in 1..(Len(q) + 1)  BY <1>1
  <2> QED  BY <1>1, <1>2, <2>1
<1>8. \A i \in (k + 1)..Len(q) : c[i + 1] = q[i]
  <2>1. \A i \in (k + 1)..Len(q) : /\ i + 1 \in 1..(Len(q) + 1) /\ i + 1 > k + 1
                                   /\ (i + 1) - 1 = i
    BY <1>1
  <2> QED  BY <1>1, <1>2, <2>1
<1>9. \A i, j \in 1..(Len(q) + 1) : c[i] = c[j] => i = j
  <2> SUFFICES ASSUME NEW i \in 1..(Len(q) + 1), NEW j \in 1..(Len(q) + 1), c[i] = c[j]
               PROVE  i = j
    OBVIOUS
  <2> DEFINE Was(l) == IF l <= k THEN l ELSE l - 1
  <2>1. i # k + 1 => Was(i) \in 1..Len(q) /\ c[i] = q[Was(i)]  BY <1>1, <1>2
  <2>2. j # k + 1 => Was(j) \in 1..Len(q) /\ c[j] = q[Was(j)]  BY <1>1, <1>2
  <2>3. i = k + 1 \/ j = k + 1 => i = j  BY <1>6, <2>1, <2>2
  <2>4. i # k + 1 /\ j # k + 1 => Was(i) = Was(j)  BY <2>1, <2>2 DEF Different
  <2>5. i # k + 1 /\ j # k + 1 /\ Was(i) = Was(j) => i = j  BY <1>1
  <2> QED  BY <2>3, <2>4, <2>5
<1>10. Inserted(c, q, k, x)  BY <1>5, <1>6, <1>7, <1>8 DEF Inserted
<1>11. Different(c)  BY <1>5, <1>9 DEF Different
<1> QED  BY <1>10, <1>11 DEF c

(* A pointer of the chain is set right, and one before it.                  *)
LEMMA ChainWrite ==
  ASSUME NEW nd, NEW md, NEW p, NEW q, NEW X, Different(q), Chain(nd, p, q, X),
         NEW j \in 1..Len(q), md[q[j]].next = At(q, j + 1),
         \A m \in Nodes : m # q[j] => md[m].next = nd[m].next
  PROVE  Chain(md, p, q, X \ {q[j]})
<1>1. \A i \in 1..Len(q) : q[i] \in Nodes  BY DEF Different
<1>2. \A i \in 1..Len(q) : q[i] \notin X => nd[q[i]].next = At(q, i + 1)
  BY DEF Chain
<1>3. q[j] # NULL  BY <1>1, LinksAssumption
<1>4. ASSUME NEW i \in 1..Len(q), q[i] \notin X \ {q[j]}
      PROVE  md[q[i]].next = At(q, i + 1)
  <2>1. CASE q[i] = q[j]
    <3>1. i = j  BY <2>1 DEF Different
    <3> QED  BY <3>1
  <2>2. CASE q[i] # q[j]  BY <1>1, <1>2, <1>4, <2>2
  <2> QED  BY <2>1, <2>2
<1> QED  BY <1>3, <1>4 DEF Chain

LEMMA ChainHead ==
  ASSUME NEW nd, NEW p, NEW q, Different(q), Chain(nd, p, q, {NULL})
  PROVE  Chain(nd, At(q, 1), q, {})
<1>1. \A i \in 1..Len(q) : q[i] \in Nodes  BY DEF Different
<1> QED  BY <1>1, LinksAssumption DEF Chain

LEMMA ChainFront ==
  ASSUME NEW nd, NEW p, NEW q, Different(q), Chain(nd, p, q, {}), NEW x \in Nodes,
         \A i \in 1..Len(q) : q[i] # x, nd[x].next = p
  PROVE  Chain(nd, x, With(q, 0, x), {})
<1> DEFINE c == With(q, 0, x)
<1>1. 0 \in 0..Len(q) /\ Len(q) \in Nat /\ q \in Seq(Nodes)  BY DEF Different
<1>2. Inserted(c, q, 0, x)  BY <1>1, WithIs
<1> HIDE DEF c
<1>3. /\ c \in Seq(Nodes) /\ Len(c) = Len(q) + 1 /\ c[1] = x
      /\ \A i \in 1..Len(q) : c[i + 1] = q[i]
  BY <1>1, <1>2 DEF Inserted
<1>4. \A i \in 1..Len(c) : At(c, i + 1) = At(q, i)
  <2> SUFFICES ASSUME NEW i \in 1..Len(c) PROVE At(c, i + 1) = At(q, i)
    OBVIOUS
  <2>1. CASE i \in 1..Len(q)
    <3>1. i + 1 \in 1..Len(c)  BY <1>1, <1>3, <2>1
    <3> QED  BY <1>3, <2>1, <3>1 DEF At
  <2>2. CASE i \notin 1..Len(q)
    <3>1. i + 1 \notin 1..Len(c)  BY <1>1, <1>3, <2>2
    <3> QED  BY <2>2, <3>1 DEF At
  <2> QED  BY <2>1, <2>2
<1>5. \A i \in 1..Len(c) : nd[c[i]].next = At(q, i)
  <2> SUFFICES ASSUME NEW i \in 1..Len(c) PROVE nd[c[i]].next = At(q, i)
    OBVIOUS
  <2>1. CASE i = 1  BY <1>3, <2>1 DEF Chain
  <2>2. CASE i # 1
    <3>1. i - 1 \in 1..Len(q) /\ (i - 1) + 1 = i  BY <1>1, <1>3, <2>2
    <3>2. c[i] = q[i - 1]  BY <1>3, <3>1
    <3>3. nd[q[i - 1]].next = At(q, i)  BY <3>1 DEF Chain
    <3> QED  BY <3>2, <3>3
  <2> QED  BY <2>1, <2>2
<1>6. At(c, 1) = x  BY <1>1, <1>3 DEF At
<1> QED  BY <1>4, <1>5, <1>6 DEF Chain, c

(* The first line of a swap: the new node leads past its successor.         *)
LEMMA ChainSwap ==
  ASSUME NEW nd, NEW md, NEW p, NEW q, Different(q), NEW x \in Nodes,
         \A i \in 1..Len(q) : q[i] # x, NEW k \in 0..(Len(q) - 1),
         Chain(nd, p, With(q, k, x), {}),
         \A m \in Nodes : md[m].next = IF m = x THEN nd[q[k + 1]].next ELSE nd[m].next
  PROVE  Chain(md, p, With(q, k + 1, x), {At(q, k), q[k + 1]})
<1> DEFINE c == With(q, k, x)
           d == With(q, k + 1, x)
           X == {At(q, k), q[k + 1]}
<1>1. /\ Len(q) \in Nat /\ q \in Seq(Nodes) /\ k \in 0..Len(q) /\ k + 1 \in 1..Len(q)
      /\ k + 1 \in 0..Len(q) /\ \A i \in 1..Len(q) : q[i] \in Nodes
  BY DEF Different
<1>2. Inserted(c, q, k, x) /\ Inserted(d, q, k + 1, x)  BY <1>1, WithIs
<1> HIDE DEF c, d
<1>3. /\ c \in Seq(Nodes) /\ Len(c) = Len(q) + 1 /\ c[k + 1] = x
      /\ \A i \in 1..k : c[i] = q[i]
      /\ \A i \in (k + 1)..Len(q) : c[i + 1] = q[i]
  BY <1>2 DEF Inserted
<1>4. /\ d \in Seq(Nodes) /\ Len(d) = Len(q) + 1 /\ d[k + 2] = x
      /\ \A i \in 1..(k + 1) : d[i] = q[i]
      /\ \A i \in (k + 2)..Len(q) : d[i + 1] = q[i]
  <2>1. (k + 1) + 1 = k + 2  BY <1>1
  <2> QED  BY <1>2, <2>1 DEF Inserted
<1>5. p = At(c, 1) /\ \A i \in 1..Len(c) : nd[c[i]].next = At(c, i + 1)
  BY DEF Chain, c
<1>6. \A i \in (k + 3)..(Len(q) + 1) : d[i] = q[i - 1] /\ c[i] = q[i - 1]
  <2>1. \A i \in (k + 3)..(Len(q) + 1) : i - 1 \in (k + 2)..Len(q) /\ i - 1 \in (k + 1)..Len(q)
                                         /\ (i - 1) + 1 = i
    BY <1>1
  <2> QED  BY <1>3, <1>4, <2>1
<1>7. \A i \in Nat : i >= k + 3 => At(d, i) = At(c, i)
  <2> SUFFICES ASSUME NEW i \in Nat, i >= k + 3 PROVE At(d, i) = At(c, i)
    OBVIOUS
  <2>1. i \in 1..Len(c) => i \in (k + 3)..(Len(q) + 1)  BY <1>1, <1>3
  <2> QED  BY <1>3, <1>4, <1>6, <2>1 DEF At
<1>8. NULL \notin X => p = At(d, 1)
  <2> SUFFICES ASSUME At(q, k) # NULL PROVE p = At(d, 1)
    BY DEF X
  <2>1. k \in 1..Len(q)  BY <1>1, AtIs
  <2>2. 1 \in 1..k /\ 1 \in 1..(k + 1) /\ 1 \in 1..Len(c) /\ 1 \in 1..Len(d)
    BY <1>1, <1>3, <1>4, <2>1
  <2>3. c[1] = q[1] /\ d[1] = q[1]  BY <1>3, <1>4, <2>2
  <2> QED  BY <1>5, <2>2, <2>3 DEF At
<1>9. ASSUME NEW i \in 1..Len(d), d[i] \notin X PROVE md[d[i]].next = At(d, i + 1)
  <2>1. CASE i < k
    <3>1. i \in 1..k /\ i \in 1..(k + 1) /\ i + 1 \in 1..k /\ i + 1 \in 1..(k + 1)
          /\ i \in 1..Len(c) /\ i + 1 \in 1..Len(c) /\ i \in 1..Len(q)
          /\ i + 1 \in 1..Len(d)
      BY <1>1, <1>3, <1>4, <2>1
    <3>2. c[i] = q[i] /\ d[i] = q[i] /\ c[i + 1] = q[i + 1] /\ d[i + 1] = q[i + 1]
      BY <1>3, <1>4, <3>1
    <3>3. q[i] # x /\ q[i] \in Nodes  BY <1>1, <3>1
    <3>4. md[q[i]].next = At(c, i + 1)  BY <1>5, <3>1, <3>2, <3>3
    <3> QED  BY <3>1, <3>2, <3>4 DEF At
  <2>2. CASE i = k
    <3>1. k \in 1..Len(q) /\ k \in 1..(k + 1)  BY <1>1, <2>2
    <3>2. d[k] = q[k] /\ At(q, k) = q[k]  BY <1>4, <3>1 DEF At
    <3> QED  BY <1>9, <2>2, <3>2 DEF X
  <2>3. CASE i = k + 1
    <3>1. k + 1 \in 1..(k + 1)  BY <1>1
    <3>2. d[k + 1] = q[k + 1]  BY <1>4, <3>1
    <3> QED  BY <1>9, <2>3, <3>2 DEF X
  <2>4. CASE i = k + 2
    <3>1. k + 1 \in (k + 1)..Len(q) /\ k + 2 \in 1..Len(c) /\ (k + 1) + 1 = k + 2
          /\ (k + 2) + 1 = k + 3 /\ k + 3 \in Nat /\ k + 3 >= k + 3
      BY <1>1, <1>3
    <3>2. c[k + 2] = q[k + 1]  BY <1>3, <3>1
    <3>3. md[x].next = nd[q[k + 1]].next  OBVIOUS
    <3>4. nd[q[k + 1]].next = At(c, k + 3)  BY <1>5, <3>1, <3>2
    <3>5. At(d, k + 3) = At(c, k + 3)  BY <1>7, <3>1
    <3> QED  BY <1>4, <2>4, <3>1, <3>3, <3>4, <3>5
  <2>5. CASE i > k + 2
    <3>1. i \in (k + 3)..(Len(q) + 1) /\ i \in 1..Len(c) /\ i - 1 \in 1..Len(q)
          /\ i + 1 \in Nat /\ i + 1 >= k + 3
      BY <1>1, <1>3, <1>4, <2>5
    <3>2. d[i] = q[i - 1] /\ c[i] = q[i - 1]  BY <1>6, <3>1
    <3>3. q[i - 1] # x /\ q[i - 1] \in Nodes  BY <1>1, <3>1
    <3>4. md[d[i]].next = At(c, i + 1)  BY <1>5, <3>1, <3>2, <3>3
    <3> QED  BY <1>7, <3>1, <3>4
  <2>6. i \in Int /\ k \in Int  BY <1>1
  <2> QED  BY <2>1, <2>2, <2>3, <2>4, <2>5, <2>6
<1>10. Chain(md, p, d, X)  BY <1>8, <1>9 DEF Chain
<1> QED  BY <1>10 DEF d, X
-----------------------------------------------------------------------------
(* The list outside of the sort.                                            *)
LEMMA Unchained ==
  ASSUME NEW nd, NEW md, NEW p, NEW q, NEW X, Chain(nd, p, q, X),
         \A i \in 1..Len(q) : md[q[i]].next = nd[q[i]].next
  PROVE  Chain(md, p, q, X)
BY DEF Chain

LEMMA StillWaiting ==
  ASSUME NEW nd, NEW md, NEW q, Waiting(nd, q),
         \A i \in 1..Len(q) : Alike(nd[q[i]], md[q[i]])
  PROVE  Waiting(md, q)
BY DEF Waiting, Waits, Alike

LEMMA QuietLinked ==
  ASSUME NEW nd, NEW p, NEW q, NEW F, NEW x, Quiet(nd, p, q, F, x)
  PROVE  LinkedOf(nd, p) = q /\ WalkOf(nd, p)[Cardinality(Nodes)] = NULL
BY ChainLinked DEF Quiet, Waiting

LEMMA QuietNext ==
  ASSUME NEW q, Quiet(node', queue', q, free', new')
  PROVE  Quiet(node, queue, Linked(queue), free, new)'
<1>1. Linked(queue)' = q  BY WalkIs, QuietLinked
<1> QED  BY <1>1

LEMMA QuietIs ==
  ASSUME NEW nd, NEW p, NEW q, NEW F, NEW x, Quiet(nd, p, q, F, x)
  PROVE  /\ Different(q) /\ q \in Seq(Nodes) /\ Len(q) \in Nat
         /\ \A i \in 1..Len(q) : q[i] \in Nodes /\ q[i] \notin F /\ q[i] # x
BY DEF Quiet, Waiting, Different, Exactly

LEMMA ListInit == ASSUME Init, calm PROVE ListInv
<1>1. queue = NULL /\ free = Nodes /\ pc = "idle" /\ new = NULL /\ fired = <<>>
  BY DEF Init
<1>2. <<>> \in Seq(Nodes) /\ Len(<<>>) = 0  OBVIOUS
<1>3. Waiting(node, <<>>)  BY <1>2 DEF Waiting, Different
<1>4. Chain(node, NULL, <<>>, {})  BY <1>2 DEF Chain, At
<1>5. Exactly(<<>>, Nodes \ (free \cup {new}))  BY <1>1, <1>2 DEF Exactly
<1>6. Quiet(node, queue, <<>>, free, new)  BY <1>1, <1>3, <1>4, <1>5 DEF Quiet
<1>7. Linked(queue) = <<>>  BY <1>6, WalkIs, QuietLinked
<1> QED  BY <1>1, <1>6, <1>7 DEF ListInv, InSort

LEMMA MallocKeeps ==
  ASSUME ClockInv, ListInv, NEW t \in Timeouts, malloc(t)
  PROVE  \E q : /\ q = Linked(queue) /\ Quiet(node, queue, q, free, new)
                /\ Quiet(node', queue', q, free', new')
                /\ \A i \in 1..Len(q) : Alike(node[q[i]], node'[q[i]])
<1> DEFINE c == [timeout |-> t, asked |-> t, age |-> 0, next |-> NULL]
<1>0. PICK q : q = Linked(queue)  OBVIOUS
<1>1. /\ pc = "idle" /\ new = NULL /\ new' \in free /\ free' = free \ {new'}
      /\ node' = [node EXCEPT ![new'] = c] /\ UNCHANGED queue
  BY DEF malloc, Line, ListInv
<1>2. Quiet(node, queue, q, free, new)  BY <1>0, <1>1 DEF ListInv, InSort
<1>3. free \subseteq Nodes /\ node \in [Nodes -> Clock] /\ NULL \notin Nodes
  BY LinksAssumption DEF ClockInv
<1>4. \A i \in 1..Len(q) : q[i] \in Nodes /\ q[i] \notin free /\ q[i] # new
  BY <1>2, QuietIs
<1>5. \A i \in 1..Len(q) : node'[q[i]] = node[q[i]]  BY <1>1, <1>3, <1>4
<1>6. \A i \in 1..Len(q) : Alike(node[q[i]], node'[q[i]])  BY <1>5 DEF Alike
<1>7. Chain(node', queue', q, {})  BY <1>1, <1>2, <1>5 DEF Quiet, Chain
<1>8. Waiting(node', q)  BY <1>2, <1>6, StillWaiting DEF Quiet
<1>9. Exactly(q, Nodes \ (free' \cup {new'}))
  <2>1. free' \cup {new'} = free /\ Nodes \ free = Nodes \ (free \cup {new})  BY <1>1, <1>3
  <2> QED  BY <1>2, <2>1 DEF Quiet
<1>10. Quiet(node', queue', q, free', new')  BY <1>7, <1>8, <1>9 DEF Quiet
<1> QED  BY <1>0, <1>2, <1>6, <1>10

LEMMA ListMalloc ==
  ASSUME ClockInv, ListInv, NEW t \in Timeouts, malloc(t)
  PROVE  ListInv'
<1> DEFINE c == [timeout |-> t, asked |-> t, age |-> 0, next |-> NULL]
<1>1. /\ pc' = "37" /\ new' \in free /\ free' = free \ {new'}
      /\ node' = [node EXCEPT ![new'] = c] /\ UNCHANGED fired
  BY DEF malloc, Line
<1>2. /\ free \subseteq Nodes /\ node \in [Nodes -> Clock]
      /\ \A k \in DOMAIN fired : fired[k].age = fired[k].asked
  BY DEF ClockInv, ListInv
<1>3. \E q : Quiet(node', queue', q, free', new')  BY MallocKeeps
<1>4. Quiet(node, queue, Linked(queue), free, new)'  BY <1>3, QuietNext
<1>5. c.next = NULL /\ Fresh(c)  BY DEF Fresh
<1>6. new' \in Nodes \ free' /\ Fresh(node'[new']) /\ node'[new'].next = NULL
  <2>1. node'[new'] = c /\ new' \in Nodes \ free'  BY <1>1, <1>2
  <2> QED  BY <1>5, <2>1
<1> QED  BY <1>1, <1>2, <1>4, <1>6 DEF ListInv, InSort

LEMMA ListEmpty ==
  ASSUME ClockInv, ListInv, test_empty
  PROVE  ListInv'
<1>1. /\ pc = "37" /\ pc' = IF queue = NULL THEN "38" ELSE "40"
      /\ UNCHANGED <<queue, node, free, new, fired>>
  BY DEF test_empty
<1>2. Quiet(node, queue, Linked(queue), free, new)  BY <1>1 DEF ListInv, InSort
<1>3. Linked(queue)' = Linked(queue)  BY <1>1, WalkIs
<1> QED  BY <1>1, <1>2, <1>3 DEF ListInv, InSort

(* What is left of the list after a tick.                                   *)
Ticked(c, d) == /\ Waits(c) /\ d.timeout = c.timeout - 1
                /\ d.age = c.age + 1 /\ d.asked = c.asked
Leaves(list, n) ==
  /\ Pops(list, n) /\ Quiet(node, queue, list, free, new)
  /\ Quiet(node', queue', SubSeq(list, n + 1, Len(list)), free', new')
  /\ \A i \in 1..Len(list) : Ticked(node[list[i]], node'[list[i]])

LEMMA TickLeaves ==
  ASSUME ClockInv, ListInv, calm, tick
  PROVE  \E list, n : Leaves(list, n)
<1>1. PICK list, n : Pops(list, n)  BY TickPops
<1>2. Quiet(node, queue, list, free, new)
  BY <1>1, WalkIs DEF tick, ListInv, Pops
<1>3. /\ Different(list) /\ list \in Seq(Nodes) /\ Len(list) \in Nat
      /\ \A i \in 1..Len(list) : list[i] \in Nodes /\ list[i] \notin free /\ list[i] # new
  BY <1>2, QuietIs
<1>4. node \in [Nodes -> Clock] /\ UNCHANGED new  BY DEF ClockInv, tick
<1>5. n \in 0..Len(list)  BY <1>1 DEF Pops
<1> DEFINE r == SubSeq(list, n + 1, Len(list))
<1>6. /\ r \in Seq(Nodes) /\ Len(r) = Len(list) - n
      /\ \A i \in 1..Len(r) : r[i] = list[n + i] /\ n + i \in 1..Len(list)
  <2>1. n + 1 \in Int /\ Len(list) \in Int
        /\ \A i \in (n + 1)..Len(list) : list[i] \in Nodes
    BY <1>3, <1>5
  <2>2. /\ r \in Seq(Nodes)
        /\ Len(r) = IF n + 1 <= Len(list) THEN Len(list) - (n + 1) + 1 ELSE 0
    BY <2>1, SubSeqProperties
  <2>3. \A i \in 1..(Len(list) - (n + 1) + 1) : r[i] = list[(n + 1) + i - 1]
    BY <2>1, SubSeqProperties
  <2> HIDE DEF r
  <2>4. Len(r) = Len(list) - n /\ Len(list) - (n + 1) + 1 = Len(list) - n
    BY <1>3, <1>5, <2>2
  <2>5. \A i \in 1..Len(r) : (n + 1) + i - 1 = n + i /\ n + i \in 1..Len(list)
    BY <1>3, <1>5, <2>4
  <2> QED  BY <2>2, <2>3, <2>4, <2>5
<1> HIDE DEF r
<1>7. ASSUME NEW i \in 1..Len(list)
      PROVE  /\ node'[list[i]] = Older(node[list[i]]) /\ Waits(node[list[i]])
             /\ node'[list[i]].timeout = node[list[i]].timeout - 1
             /\ node'[list[i]].age = node[list[i]].age + 1
             /\ node'[list[i]].asked = node[list[i]].asked
             /\ node'[list[i]].next = node[list[i]].next
  <2>1. list[i] \in ToSet(list) /\ list[i] \in Nodes  BY <1>3 DEF ToSet
  <2>2. node'[list[i]] = Older(node[list[i]])  BY <1>1, <2>1 DEF Pops
  <2>3. Waits(node[list[i]]) /\ node[list[i]] \in Clock
    BY <1>2, <1>4, <2>1 DEF Quiet, Waiting
  <2>4. /\ node[list[i]].timeout \in 0..(Word - 1) /\ node[list[i]].asked \in 0..(Word - 1)
        /\ node[list[i]].age \in 0..Word
    BY <2>3 DEF Clock
  <2>5. node[list[i]].age < Word /\ node[list[i]].timeout # 0
    BY <2>3, <2>4, WordIs DEF Waits
  <2> QED  BY <2>2, <2>3, <2>5, OlderIs
<1>8. \A i \in 1..Len(list) : Ticked(node[list[i]], node'[list[i]])
  BY <1>7 DEF Ticked
<1>9. \A i \in (n + 1)..Len(list) : node[list[i]].timeout >= 2
  <2> SUFFICES ASSUME NEW i \in (n + 1)..Len(list) PROVE node[list[i]].timeout >= 2
    OBVIOUS
  <2>1. n + 1 \in 1..Len(list) /\ i \in 1..Len(list) /\ n < Len(list)  BY <1>3, <1>5
  <2>2. node[list[n + 1]].timeout # 1 /\ node[list[n + 1]].timeout >= 1
    BY <1>1, <1>7, <2>1 DEF Pops, Waits
  <2>3. node[list[n + 1]].timeout \in Int /\ node[list[i]].timeout \in Int
    <3>1. \A c \in Clock : c.timeout \in Int  BY DEF Clock
    <3> QED  BY <1>3, <1>4, <2>1, <3>1
  <2>4. n + 1 < i => node[list[n + 1]].timeout <= node[list[i]].timeout
    BY <1>2, <2>1 DEF Quiet, Waiting
  <2>5. n + 1 = i \/ n + 1 < i  BY <1>5
  <2>6. CASE n + 1 = i  BY <2>2, <2>3, <2>6
  <2>7. CASE n + 1 < i  BY <2>2, <2>3, <2>4, <2>7
  <2> QED  BY <2>5, <2>6, <2>7
<1>10. Different(r)
  <2>1. \A i, j \in 1..Len(r) : r[i] = r[j] => n + i = n + j
    BY <1>3, <1>6 DEF Different
  <2>2. \A i, j \in 1..Len(r) : n + i = n + j => i = j  BY <1>5
  <2> QED  BY <1>6, <2>1, <2>2 DEF Different
<1>11. Chain(node', queue', r, {})
  <2>1. queue' = At(r, 1)
    <3>1. CASE n < Len(list)
      <4>1. 1 \in 1..Len(r)  BY <1>3, <1>5, <1>6, <3>1
      <4>2. r[1] = list[n + 1]  BY <1>6, <4>1
      <4> QED  BY <1>1, <3>1, <4>1, <4>2 DEF At, Pops
    <3>2. CASE ~(n < Len(list))
      <4>1. 1 \notin 1..Len(r)  BY <1>3, <1>5, <1>6, <3>2
      <4> QED  BY <1>1, <3>2, <4>1 DEF At, Pops
    <3> QED  BY <3>1, <3>2
  <2>2. ASSUME NEW i \in 1..Len(r) PROVE node'[r[i]].next = At(r, i + 1)
    <3>1. r[i] = list[n + i] /\ n + i \in 1..Len(list)  BY <1>6
    <3>2. node'[r[i]].next = At(list, (n + i) + 1)
      BY <1>2, <1>7, <3>1 DEF Quiet, Chain
    <3>3. (n + i) + 1 = n + (i + 1)  BY <1>5
    <3>4. At(list, n + (i + 1)) = At(r, i + 1)
      <4>1. CASE i + 1 \in 1..Len(r)
        <5>1. r[i + 1] = list[n + (i + 1)] /\ n + (i + 1) \in 1..Len(list)  BY <1>6, <4>1
        <5> QED  BY <4>1, <5>1 DEF At
      <4>2. CASE i + 1 \notin 1..Len(r)
        <5>1. n + (i + 1) \notin 1..Len(list)  BY <1>3, <1>5, <1>6, <4>2
        <5> QED  BY <4>2, <5>1 DEF At
      <4> QED  BY <4>1, <4>2
    <3> QED  BY <3>2, <3>3, <3>4
  <2> QED  BY <2>1, <2>2 DEF Chain
<1>12. Waiting(node', r)
  <2>1. ASSUME NEW i \in 1..Len(r)
        PROVE  /\ r[i] = list[n + i] /\ n + i \in 1..Len(list)
               /\ node'[r[i]].timeout = node[r[i]].timeout - 1
               /\ node[r[i]].timeout \in Int /\ Waits(node'[r[i]])
    <3>1. r[i] = list[n + i] /\ n + i \in 1..Len(list) /\ n + i \in (n + 1)..Len(list)
      BY <1>3, <1>5, <1>6
    <3>2. /\ node'[r[i]].timeout = node[r[i]].timeout - 1
          /\ node'[r[i]].age = node[r[i]].age + 1
          /\ node'[r[i]].asked = node[r[i]].asked
          /\ Waits(node[r[i]])
      BY <1>7, <3>1
    <3>3. node[r[i]].timeout >= 2  BY <1>9, <3>1
    <3>4. node[r[i]] \in Clock  BY <1>3, <1>4, <3>1
    <3>5. node[r[i]].timeout \in Int /\ node[r[i]].age \in Int  BY <3>4 DEF Clock
    <3> QED  BY <3>1, <3>2, <3>3, <3>5 DEF Waits
  <2>2. \A i, j \in 1..Len(r) : i < j => node'[r[i]].timeout <= node'[r[j]].timeout
    <3> SUFFICES ASSUME NEW i \in 1..Len(r), NEW j \in 1..Len(r), i < j
                 PROVE  node'[r[i]].timeout <= node'[r[j]].timeout
      OBVIOUS
    <3>1. n + i < n + j  BY <1>5
    <3>2. node[r[i]].timeout <= node[r[j]].timeout
      BY <1>2, <2>1, <3>1 DEF Quiet, Waiting
    <3> QED  BY <2>1, <3>2
  <2> QED  BY <1>10, <2>1, <2>2 DEF Waiting
<1>13. Exactly(r, Nodes \ (free' \cup {new'}))
  <2>1. free' = free \cup {list[k] : k \in 1..n}  BY <1>1 DEF Pops
  <2>2. ASSUME NEW i \in 1..Len(r) PROVE r[i] \in Nodes \ (free' \cup {new'})
    <3>1. r[i] = list[n + i] /\ n + i \in 1..Len(list)  BY <1>6
    <3>2. \A k \in 1..n : k \in 1..Len(list) /\ k # n + i  BY <1>3, <1>5
    <3>3. \A k \in 1..n : list[k] # list[n + i]  BY <1>3, <3>1, <3>2 DEF Different
    <3> QED  BY <1>3, <1>4, <2>1, <3>1, <3>3
  <2>3. ASSUME NEW m \in Nodes \ (free' \cup {new'}) PROVE \E i \in 1..Len(r) : r[i] = m
    <3>1. PICK i \in 1..Len(list) : list[i] = m
      BY <1>2, <1>4, <2>1 DEF Quiet, Exactly
    <3>2. i \notin 1..n  BY <2>1, <3>1
    <3>3. i - n \in 1..Len(r) /\ n + (i - n) = i  BY <1>3, <1>5, <1>6, <3>2
    <3>4. r[i - n] = m  BY <1>6, <3>1, <3>3
    <3> QED  BY <3>3, <3>4
  <2> QED  BY <2>2, <2>3 DEF Exactly
<1>14. Quiet(node', queue', r, free', new')  BY <1>11, <1>12, <1>13 DEF Quiet
<1>15. Leaves(list, n)  BY <1>1, <1>2, <1>8, <1>14 DEF Leaves, r
<1> QED  BY <1>15

LEMMA ListTick ==
  ASSUME ClockInv, ListInv, calm, tick
  PROVE  ListInv'
<1>0. PICK list, n : Leaves(list, n)  BY TickLeaves
<1>1. /\ Pops(list, n) /\ Quiet(node, queue, list, free, new)
      /\ \A i \in 1..Len(list) : Waits(node[list[i]])
  BY <1>0 DEF Leaves, Ticked
<1>2. ~InSort /\ UNCHANGED <<pc, new>> /\ pc # "lost"  BY DEF tick
<1>3. Quiet(node, queue, Linked(queue), free, new)'  BY <1>0, QuietNext DEF Leaves
<1>4. /\ list \in Seq(Nodes) /\ Len(list) \in Nat /\ n \in 0..Len(list)
      /\ \A i \in 1..Len(list) : list[i] \in Nodes /\ list[i] # new
  <2>1. /\ list \in Seq(Nodes) /\ Len(list) \in Nat
        /\ \A i \in 1..Len(list) : list[i] \in Nodes /\ list[i] # new
    BY <1>1, QuietIs
  <2> QED  BY <1>1, <2>1 DEF Pops
<1>5. pc # "idle" => node'[new] = node[new] /\ new \in Nodes \ free'
  <2> SUFFICES ASSUME pc # "idle" PROVE node'[new] = node[new] /\ new \in Nodes \ free'
    OBVIOUS
  <2>1. new \in Nodes \ free  BY DEF ListInv
  <2>2. new \notin ToSet(list)
    <3>1. DOMAIN list = 1..Len(list)  BY <1>4
    <3> QED  BY <1>4, <3>1 DEF ToSet
  <2>3. new \notin {list[k] : k \in 1..n}  BY <1>4
  <2> QED  BY <1>1, <2>1, <2>2, <2>3 DEF Pops
<1>6. pc = "38" => queue' = NULL
  <2> SUFFICES ASSUME pc = "38" PROVE queue' = NULL
    OBVIOUS
  <2>1. At(list, 1) = NULL  BY <1>1 DEF ListInv, Quiet, Chain
  <2>2. 1 \notin 1..Len(list)  BY <1>4, <2>1, AtIs
  <2> QED  BY <1>1, <1>4, <2>2 DEF Pops
<1>7. \A k \in DOMAIN fired' : fired'[k].age = fired'[k].asked
  <2> SUFFICES ASSUME NEW k \in DOMAIN fired' PROVE fired'[k].age = fired'[k].asked
    OBVIOUS
  <2>1. k \in 1..n /\ fired'[k] = Older(node[list[k]])  BY <1>1 DEF Pops
  <2>2. k \in 1..Len(list)  BY <1>4, <2>1
  <2>6. node[list[k]].timeout = 1  BY <1>1, <2>1 DEF Pops
  <2>3. list[k] \in Nodes /\ Waits(node[list[k]])  BY <1>1, <1>4, <2>2
  <2>4. node[list[k]] \in Clock  BY <2>3 DEF ClockInv
  <2>5. /\ node[list[k]].age \in 0..Word /\ node[list[k]].asked \in 0..(Word - 1)
        /\ node[list[k]].age + 1 = node[list[k]].asked
    BY <2>6, <2>3, <2>4 DEF Clock, Waits
  <2>7. node[list[k]].age < Word  BY <2>5, WordIs
  <2> QED  BY <2>1, <2>4, <2>5, <2>7, OlderIs
<1> QED  BY <1>2, <1>3, <1>5, <1>6, <1>7 DEF ListInv, InSort
-----------------------------------------------------------------------------
(* The lines of the sort.                                                   *)
SortLines == {"41", "69", "77", "81", "82", "84", "88", "91"}

(* The list before the push and the new node.                               *)
Held ==
  /\ Different(before) /\ Len(before) \in Nat /\ before \in Seq(Nodes)
  /\ Waiting(node, before) /\ Exactly(before, Nodes \ (free \cup {new}))
  /\ new \in Nodes \ free /\ Fresh(node[new]) /\ new # NULL
  /\ \A i \in 1..Len(before) : before[i] \in Nodes /\ before[i] # new

LEMMA SortHolds ==
  ASSUME ClockInv, ListInv, InSort
  PROVE  Held
<1>1. /\ Waiting(node, before) /\ Exactly(before, Nodes \ (free \cup {new}))
      /\ new \in Nodes \ free /\ Fresh(node[new])
  BY DEF ListInv, InSort
<1>2. Different(before) /\ before \in Seq(Nodes) /\ Len(before) \in Nat
  BY <1>1 DEF Waiting, Different
<1>3. \A i \in 1..Len(before) : before[i] \in Nodes /\ before[i] # new
  BY <1>1 DEF Exactly
<1> QED  BY <1>1, <1>2, <1>3, LinksAssumption DEF Held

LEMMA SameIs ==
  ASSUME NEW nd, NEW md, Same(nd, md), NEW q, q \in Seq(Nodes), NEW x \in Nodes
  PROVE  /\ Waiting(nd, q) => Waiting(md, q)
         /\ Fresh(nd[x]) => Fresh(md[x])
         /\ \A k \in 0..Len(q) : Behind(nd, q, k, x) => Behind(md, q, k, x)
         /\ \A k \in 0..Len(q) : Before(nd, q, k, x) => Before(md, q, k, x)
<1>1. \A i \in 1..Len(q) : q[i] \in Nodes /\ Alike(nd[q[i]], md[q[i]])  BY DEF Same
<1>2. Alike(nd[x], md[x])  BY DEF Same
<1>3. Waiting(nd, q) => Waiting(md, q)  BY <1>1, StillWaiting
<1>4. Fresh(nd[x]) => Fresh(md[x])  BY <1>2 DEF Fresh, Alike
<1>5. ASSUME NEW k \in 0..Len(q), Behind(nd, q, k, x) PROVE Behind(md, q, k, x)
  <2>1. \A i \in 1..k : i \in 1..Len(q)  OBVIOUS
  <2> QED  BY <1>1, <1>2, <1>5, <2>1 DEF Behind, Alike
<1>6. ASSUME NEW k \in 0..Len(q), Before(nd, q, k, x) PROVE Before(md, q, k, x)
  <2>1. \A i \in (k + 1)..Len(q) : i \in 1..Len(q)  OBVIOUS
  <2> QED  BY <1>1, <1>2, <1>6, <2>1 DEF Before, Alike
<1> QED  BY <1>3, <1>4, <1>5, <1>6

(* A line that leads to another one of the sort.                            *)
LEMMA SortGoesOn ==
  ASSUME Held, Same(node, node'), pc' \in SortLines, UNCHANGED <<free, new, fired, before>>,
         ListInv, NEW k \in 0..Len(before), SortsAt(before, k)'
  PROVE  ListInv'
<1>1. Waiting(node', before) /\ Fresh(node'[new])  BY SameIs DEF Held
<1>2. /\ \A j \in DOMAIN fired : fired[j].age = fired[j].asked
      /\ Exactly(before, Nodes \ (free \cup {new})) /\ new \in Nodes \ free
  BY DEF ListInv, Held
<1>3. InSort' /\ pc' \notin {"lost", "idle", "37", "38", "40"}  BY DEF InSort, SortLines
<1>4. (\E j \in 0..Len(before) : SortsAt(before, j))'
  BY DEF SortsAt, Walking
<1> QED  BY <1>1, <1>2, <1>3, <1>4 DEF ListInv
LEMMA SortEntered ==
  ASSUME ClockInv, ListInv, ~InSort, pc # "idle", pc' \in SortLines, Same(node, node'),
         UNCHANGED <<free, new, fired>>, before' = Linked(queue), SortsAt(before, 0)'
  PROVE  ListInv'
<1> DEFINE q == Linked(queue)
<1>1. Quiet(node, queue, q, free, new)  BY DEF ListInv
<1> HIDE DEF q
<1>2. before' = q /\ Waiting(node, q) /\ Exactly(q, Nodes \ (free \cup {new}))
  BY <1>1 DEF Quiet, q
<1>3. q \in Seq(Nodes) /\ Len(q) \in Nat  BY <1>1, QuietIs
<1>4. new \in Nodes \ free /\ Fresh(node[new])
      /\ \A j \in DOMAIN fired : fired[j].age = fired[j].asked
  BY DEF ListInv
<1>5. Waiting(node', q) /\ Fresh(node'[new])  BY <1>2, <1>3, <1>4, SameIs
<1>6. InSort' /\ pc' \notin {"lost", "idle", "37", "38", "40"}  BY DEF InSort, SortLines
<1>7. (\E j \in 0..Len(before) : SortsAt(before, j))'
  <2>1. 0 \in 0..Len(before')  BY <1>2, <1>3
  <2> QED  BY <2>1 DEF SortsAt, Walking
<1> QED  BY <1>2, <1>4, <1>5, <1>6, <1>7 DEF ListInv

LEMMA ListOnly ==
  ASSUME ClockInv, ListInv, link_only
  PROVE  ListInv'
<1> DEFINE q == Linked(queue)
<1>1. /\ pc = "38" /\ pc' = "69" /\ queue' = new /\ before' = q
      /\ UNCHANGED <<node, free, new, fired>>
  BY DEF link_only, Line
<1>2. ~InSort  BY <1>1 DEF InSort
<1>3. Quiet(node, queue, q, free, new) /\ queue = NULL /\ new \in Nodes
      /\ node[new].next = NULL
  BY <1>1, <1>2 DEF ListInv
<1> HIDE DEF q
<1>4. /\ Different(q) /\ q \in Seq(Nodes) /\ Len(q) \in Nat /\ Chain(node, NULL, q, {})
      /\ \A i \in 1..Len(q) : q[i] # new
  BY <1>3, QuietIs DEF Quiet
<1>5. Chain(node, new, With(q, 0, new), {})  BY <1>3, <1>4, ChainFront
<1>6. SortsAt(before, 0)'  BY <1>1, <1>5 DEF SortsAt
<1>7. Same(node, node') /\ pc' \in SortLines /\ pc # "idle"  BY <1>1 DEF Same, Alike, SortLines
<1> QED  BY <1>1, <1>2, <1>6, <1>7, SortEntered DEF q

LEMMA ListToHead ==
  ASSUME ClockInv, ListInv, link_to_head
  PROVE  ListInv'
<1> DEFINE q == Linked(queue)
<1>1. /\ pc = "40" /\ pc' = "41" /\ before' = q /\ Link(new, queue)
      /\ UNCHANGED <<queue, free, new, fired>>
  BY DEF link_to_head, Line
<1>2. ~InSort  BY <1>1 DEF InSort
<1>3. Quiet(node, queue, q, free, new) /\ new \in Nodes  BY <1>1, <1>2 DEF ListInv
<1> HIDE DEF q
<1>4. /\ \A i \in 1..Len(q) : q[i] \in Nodes /\ q[i] # new
      /\ Chain(node, queue, q, {}) /\ queue = At(q, 1)
  BY <1>3, QuietIs DEF Quiet, Chain
<1>5. node \in [Nodes -> Clock] /\ queue \in Pointer  BY DEF ClockInv
<1>6. Written(node, node', new, queue)  BY <1>1 DEF Link, Written
<1>7. Same(node, node')  BY <1>5, <1>6, LinkIs
<1>12. Leads(node, node', new, queue)  BY <1>5, <1>6, LinkIs
<1>13. \A m \in Nodes : node'[m].next = IF m = new THEN queue ELSE node[m].next
  BY <1>12 DEF Leads
<1>8. Chain(node', queue, q, {})  BY <1>4, <1>13, Unchained
<1>9. node'[new].next = At(q, 1)  BY <1>3, <1>4, <1>13
<1>10. SortsAt(before, 0)'  BY <1>1, <1>8, <1>9 DEF SortsAt
<1>11. pc' \in SortLines /\ pc # "idle"  BY <1>1 DEF SortLines
<1> QED  BY <1>1, <1>2, <1>7, <1>10, <1>11, SortEntered DEF q
-----------------------------------------------------------------------------
LEMMA ListHead ==
  ASSUME ClockInv, ListInv, link_head
  PROVE  ListInv'
<1>1. /\ pc = "41" /\ pc' = "69" /\ queue' = new
      /\ UNCHANGED <<node, free, new, fired, before>>
  BY DEF link_head, Line
<1>2. InSort /\ Held  BY <1>1, SortHolds DEF InSort
<1>3. PICK k \in 0..Len(before) : SortsAt(before, k)  BY <1>2 DEF ListInv
<1>4. k = 0 /\ Chain(node, queue, before, {}) /\ node[new].next = queue
  BY <1>1, <1>3 DEF SortsAt, Chain
<1>5. Chain(node, new, With(before, 0, new), {})  BY <1>2, <1>4, ChainFront DEF Held
<1>6. SortsAt(before, 0)'  BY <1>1, <1>5 DEF SortsAt
<1>7. Same(node, node') /\ pc' \in SortLines  BY <1>1 DEF Same, Alike, SortLines
<1> QED  BY <1>1, <1>2, <1>3, <1>4, <1>6, <1>7, SortGoesOn

LEMMA HeldWith ==
  ASSUME Held, NEW k \in 0..Len(before)
  PROVE  /\ Inserted(With(before, k, new), before, k, new)
         /\ Different(With(before, k, new))
BY WithIs DEF Held

LEMMA ListBegin ==
  ASSUME ClockInv, ListInv, sort_begin
  PROVE  ListInv'
<1>1. /\ pc = "69" /\ pc' = "77" /\ cur' = queue /\ pre' = NULL /\ next' = Succ(queue)
      /\ UNCHANGED <<queue, node, free, new, fired, before>>
  BY DEF sort_begin, Line
<1>2. InSort /\ Held  BY <1>1, SortHolds DEF InSort
<1>3. PICK k \in 0..Len(before) : SortsAt(before, k)  BY <1>2 DEF ListInv
<1>0. PICK c : c = With(before, 0, new)  OBVIOUS
<1>4. k = 0 /\ Chain(node, queue, c, {})  BY <1>0, <1>1, <1>3 DEF SortsAt
<1>5. Inserted(c, before, 0, new)  BY <1>0, <1>2, <1>3, <1>4, HeldWith
<1>6. c \in Seq(Nodes) /\ Len(c) = Len(before) + 1 /\ c[1] = new /\ new # NULL
      /\ Len(before) \in Nat
  BY <1>2, <1>5 DEF Inserted, Held
<1>7. 1 \in 1..Len(c) /\ 0 \notin 1..Len(c) /\ 1 \in 1..(Len(before) + 2)  BY <1>6
<1>8. At(c, 1) = new /\ At(c, 0) = NULL  BY <1>6, <1>7 DEF At
<1>9. queue = new /\ node[new].next = At(c, 2)  BY <1>4, <1>6, <1>7, <1>8 DEF Chain
<1>10. next' = At(c, 2)  BY <1>1, <1>6, <1>9 DEF Succ
<1>11. Behind(node, before, 0, new)  BY DEF Behind
<1>12. Walking(before, c, 0, 1, Len(before) + 2)'
  BY <1>1, <1>4, <1>7, <1>8, <1>9, <1>11 DEF Walking
<1>13. SortsAt(before, 0)'
  <2>1. /\ pc' = "77" /\ pre' = At(c, 1 - 1) /\ next' = At(c, 1 + 1) /\ 1 <= 0 + 1
    BY <1>1, <1>8, <1>10
  <2> QED  BY <1>0, <1>1, <1>7, <1>12, <2>1 DEF SortsAt
<1>14. Same(node, node') /\ pc' \in SortLines  BY <1>1 DEF Same, Alike, SortLines
<1> QED  BY <1>1, <1>2, <1>3, <1>4, <1>13, <1>14, SortGoesOn
LEMMA HeldInOrder ==
  ASSUME Held, ClockInv
  PROVE  /\ \A m \in Nodes : node[m].timeout \in Int
         /\ \A a, b \in 1..Len(before) :
              a < b => node[before[a]].timeout <= node[before[b]].timeout
         /\ Len(before) \in Nat /\ \A a \in 1..Len(before) : before[a] \in Nodes
         /\ new \in Nodes
<1>1. \A m \in Nodes : node[m].timeout \in Int  BY DEF ClockInv, Clock
<1> QED  BY <1>1 DEF Held, Waiting

(* Only the new node can be out of order, with the one behind it.           *)
LEMMA OnlyNew ==
  ASSUME Held, ClockInv, NEW k \in 0..Len(before), NEW c, Inserted(c, before, k, new),
         Behind(node, before, k, new), NEW i \in 1..Len(before),
         node[c[i]].timeout > node[c[i + 1]].timeout
  PROVE  /\ i = k + 1 /\ c[i] = new /\ c[i + 1] = before[k + 1]
         /\ node[before[k + 1]].timeout < node[new].timeout
<1>1. /\ \A m \in Nodes : node[m].timeout \in Int
      /\ \A a, b \in 1..Len(before) :
           a < b => node[before[a]].timeout <= node[before[b]].timeout
      /\ Len(before) \in Nat /\ \A a \in 1..Len(before) : before[a] \in Nodes
      /\ new \in Nodes
  BY HeldInOrder
<1>2. /\ c[k + 1] = new /\ \A a \in 1..k : c[a] = before[a]
      /\ \A a \in (k + 1)..Len(before) : c[a + 1] = before[a]
  BY DEF Inserted
<1>3. CASE i < k
  <2>1. i \in 1..k /\ i + 1 \in 1..k /\ i + 1 \in 1..Len(before) /\ i < i + 1
    BY <1>1, <1>3
  <2>2. node[before[i]].timeout <= node[before[i + 1]].timeout  BY <1>1, <2>1
  <2>3. c[i] = before[i] /\ c[i + 1] = before[i + 1]  BY <1>2, <2>1
  <2> QED  BY <1>1, <2>1, <2>2, <2>3
<1>4. CASE i = k
  <2>1. k \in 1..k  BY <1>4
  <2>2. node[before[k]].timeout < node[new].timeout  BY <2>1 DEF Behind
  <2> QED  BY <1>1, <1>2, <1>4, <2>1, <2>2
<1>5. CASE i > k + 1
  <2>1. i \in (k + 1)..Len(before) /\ i - 1 \in (k + 1)..Len(before) /\ (i - 1) + 1 = i
        /\ i - 1 \in 1..Len(before) /\ i - 1 < i
    BY <1>1, <1>5
  <2>2. c[i] = before[i - 1] /\ c[i + 1] = before[i]  BY <1>2, <2>1
  <2>3. node[before[i - 1]].timeout <= node[before[i]].timeout  BY <1>1, <2>1
  <2> QED  BY <1>1, <2>1, <2>2, <2>3
<1>6. CASE i = k + 1
  <2>1. k + 1 \in (k + 1)..Len(before)  BY <1>1, <1>6
  <2>2. c[i] = new /\ c[i + 1] = before[k + 1]  BY <1>2, <1>6, <2>1
  <2> QED  BY <1>1, <1>6, <2>2
<1>7. i \in Int /\ k \in Int  OBVIOUS
<1> QED  BY <1>3, <1>4, <1>5, <1>6, <1>7

LEMMA RestBehind ==
  ASSUME Held, ClockInv, NEW k \in 0..(Len(before) - 1),
         node[new].timeout <= node[before[k + 1]].timeout
  PROVE  Before(node, before, k, new)
<1>1. /\ \A m \in Nodes : node[m].timeout \in Int
      /\ \A a, b \in 1..Len(before) :
           a < b => node[before[a]].timeout <= node[before[b]].timeout
      /\ Len(before) \in Nat /\ \A a \in 1..Len(before) : before[a] \in Nodes
      /\ new \in Nodes
  BY HeldInOrder
<1> SUFFICES ASSUME NEW i \in (k + 1)..Len(before)
             PROVE  node[before[i]].timeout >= node[new].timeout
  BY DEF Before
<1>2. k + 1 \in 1..Len(before) /\ i \in 1..Len(before)  BY <1>1
<1>3. i = k + 1 \/ k + 1 < i  OBVIOUS
<1>4. CASE i = k + 1  BY <1>1, <1>2, <1>4
<1>5. CASE k + 1 < i
  <2>1. node[before[k + 1]].timeout <= node[before[i]].timeout  BY <1>1, <1>2, <1>5
  <2> QED  BY <1>1, <1>2, <2>1
<1> QED  BY <1>3, <1>4, <1>5

LEMMA ListCompare ==
  ASSUME ClockInv, ListInv, compare
  PROVE  ListInv'
<1>1. /\ pc = "77" /\ cur # NULL /\ pc' = IF OutOfOrder THEN "81" ELSE "91"
      /\ UNCHANGED <<queue, node, free, new, cur, pre, next, fired, before>>
  BY DEF compare
<1>2. InSort /\ Held  BY <1>1, SortHolds DEF InSort
<1>3. PICK k \in 0..Len(before) : SortsAt(before, k)  BY <1>2 DEF ListInv
<1>0. PICK c : c = With(before, k, new)  OBVIOUS
<1>4. PICK i \in 1..(Len(before) + 2) :
        /\ Walking(before, c, k, i, Len(before) + 2)
        /\ pre = At(c, i - 1) /\ next = At(c, i + 1)
        /\ i <= k + 1 \/ Before(node, before, k, new)
  BY <1>0, <1>1, <1>3 DEF SortsAt
<1>5. Inserted(c, before, k, new)  BY <1>0, <1>2, HeldWith
<1>6. /\ c \in Seq(Nodes) /\ Len(c) = Len(before) + 1 /\ Len(before) \in Nat
      /\ c[k + 1] = new /\ \A j \in 1..k : c[j] = before[j]
      /\ \A j \in (k + 1)..Len(before) : c[j + 1] = before[j]
  BY <1>2, <1>5 DEF Inserted, Held
<1>7. /\ cur = At(c, i) /\ Behind(node, before, k, new) /\ Chain(node, queue, c, {})
  BY <1>4 DEF Walking
<1>8. i \in 1..Len(c) /\ cur = c[i]  BY <1>1, <1>6, <1>7, AtIs
<1>9. Same(node, node') /\ pc' \in SortLines  BY <1>1 DEF Same, Alike, SortLines
<1>10. CASE OutOfOrder
  <2>1. next # NULL /\ node[cur].timeout > node[next].timeout /\ pc' = "81"
    BY <1>1, <1>10 DEF OutOfOrder
  <2>2. i + 1 \in 1..Len(c) /\ next = c[i + 1]  BY <1>4, <1>6, <2>1, AtIs
  <2>3. i \in 1..Len(before)  BY <1>6, <1>8, <2>2
  <2>4. /\ i = k + 1 /\ cur = new /\ next = before[k + 1]
        /\ node[before[k + 1]].timeout < node[new].timeout
    BY <1>2, <1>5, <1>7, <1>8, <2>1, <2>2, <2>3, OnlyNew
  <2>5. k < Len(before) /\ k + 1 \in 1..Len(before) /\ i - 1 = k  BY <2>3, <2>4
  <2>6. Behind(node, before, k + 1, new)
    <3>1. \A j \in 1..(k + 1) : j = k + 1 \/ j \in 1..k  OBVIOUS
    <3> QED  BY <1>7, <2>4, <3>1 DEF Behind
  <2>7. pre = At(before, k)
    <3>1. CASE k = 0
      <4>1. 0 \notin 1..Len(c) /\ 0 \notin 1..Len(before)  OBVIOUS
      <4> QED  BY <1>4, <2>5, <3>1, <4>1 DEF At
    <3>2. CASE k # 0
      <4>1. k \in 1..Len(c) /\ k \in 1..Len(before) /\ k \in 1..k  BY <1>6, <3>2
      <4> QED  BY <1>4, <1>6, <2>5, <4>1 DEF At
    <3> QED  BY <3>1, <3>2
  <2>8. SortsAt(before, k)'
    BY <1>0, <1>1, <1>7, <2>1, <2>4, <2>5, <2>6, <2>7 DEF SortsAt
  <2> QED  BY <1>1, <1>2, <1>9, <2>8, SortGoesOn
<1>11. CASE ~OutOfOrder
  <2>1. pc' = "91" /\ (next # NULL => ~(node[cur].timeout > node[next].timeout))
    BY <1>1, <1>11 DEF OutOfOrder
  <2>2. i <= k \/ Before(node, before, k, new)
    <3>1. CASE i = k + 1 /\ k < Len(before)
      <4>1. k \in 0..(Len(before) - 1) /\ k + 1 \in (k + 1)..Len(before)
            /\ i + 1 \in 1..Len(c) /\ k + 1 \in 1..Len(before)
        BY <1>6, <3>1
      <4>2. cur = new /\ next = before[k + 1]  BY <1>4, <1>6, <1>8, <3>1, <4>1 DEF At
      <4>3. before[k + 1] \in Nodes /\ next # NULL /\ new \in Nodes
        BY <1>2, <4>1, <4>2, LinksAssumption DEF Held
      <4>4. node[new].timeout \in Int /\ node[before[k + 1]].timeout \in Int
        BY <4>3 DEF ClockInv, Clock
      <4>5. node[new].timeout <= node[before[k + 1]].timeout
        BY <2>1, <4>2, <4>3, <4>4
      <4> QED  BY <1>2, <4>1, <4>5, RestBehind
    <3>2. CASE i = k + 1 /\ k = Len(before)
      <4>1. \A j \in (k + 1)..Len(before) : FALSE  BY <1>6, <3>2
      <4> QED  BY <4>1 DEF Before
    <3>3. k <= Len(before) /\ k \in Int /\ i \in Int /\ Len(before) \in Int  BY <1>6
    <3>4. i <= k \/ i = k + 1 \/ ~(i <= k + 1)  BY <3>3
    <3>5. k < Len(before) \/ k = Len(before)  BY <3>3
    <3> QED  BY <1>4, <3>1, <3>2, <3>4, <3>5
  <2>3. i \in 1..(Len(before) + 1)  BY <1>6, <1>8
  <2>4. Walking(before, c, k, i, Len(before) + 1)'
    BY <1>1, <1>7, <2>3 DEF Walking
  <2>5. SortsAt(before, k)'
    BY <1>0, <1>1, <2>1, <2>2, <2>3, <2>4 DEF SortsAt
  <2> QED  BY <1>1, <1>2, <1>9, <2>5, SortGoesOn
<1> QED  BY <1>10, <1>11

(* The lines of the swap.                                                   *)
Swapping(k) ==
  /\ k \in 0..(Len(before) - 1) /\ Behind(node, before, k + 1, new)
  /\ cur = new /\ pre = At(before, k) /\ next = before[k + 1]

LEMMA SwapIs ==
  ASSUME Held, NEW k \in 0..Len(before), SortsAt(before, k), pc \in {"81", "82", "84"}
  PROVE  /\ Swapping(k) /\ k + 1 \in 1..Len(before) /\ k + 1 \in 0..Len(before)
         /\ next \in Nodes /\ next # new /\ pre # next
         /\ k # 0 => pre = before[k] /\ pre # new
         /\ pc = "81" => Chain(node, queue, With(before, k, new), {})
         /\ pc = "82" => Chain(node, queue, With(before, k + 1, new), {pre, next})
         /\ pc = "84" => Chain(node, queue, With(before, k + 1, new), {pre})
<1>1. /\ k < Len(before) /\ Behind(node, before, k + 1, new)
      /\ cur = new /\ pre = At(before, k) /\ next = before[k + 1]
      /\ pc = "81" => Chain(node, queue, With(before, k, new), {})
      /\ pc = "82" => Chain(node, queue, With(before, k + 1, new), {pre, next})
      /\ pc = "84" => Chain(node, queue, With(before, k + 1, new), {pre})
  BY DEF SortsAt
<1>2. Len(before) \in Nat /\ Different(before) /\ before \in Seq(Nodes)
      /\ \A i \in 1..Len(before) : before[i] \in Nodes /\ before[i] # new
  BY DEF Held
<1>3. k + 1 \in 1..Len(before) /\ k + 1 \in 0..Len(before) /\ k \in 0..(Len(before) - 1)
  BY <1>1, <1>2
<1>4. next \in Nodes /\ next # new  BY <1>1, <1>2, <1>3
<1>5. k # 0 => k \in 1..Len(before) /\ k # k + 1  BY <1>2
<1>6. k # 0 => pre = before[k] /\ pre # new /\ pre # next
  BY <1>1, <1>2, <1>3, <1>5 DEF At, Different
<1>7. k = 0 => pre = NULL
  <2>1. 0 \notin 1..Len(before)  OBVIOUS
  <2> QED  BY <1>1, <2>1 DEF At
<1>8. pre # next  BY <1>4, <1>6, <1>7, LinksAssumption
<1> QED  BY <1>1, <1>3, <1>4, <1>6, <1>8 DEF Swapping

LEMMA ListFirst ==
  ASSUME ClockInv, ListInv, swap_first
  PROVE  ListInv'
<1>1. /\ pc = "81" /\ pc' = "82" /\ Link(cur, node[next].next)
      /\ UNCHANGED <<queue, free, new, cur, pre, next, fired, before>>
  BY DEF swap_first, Line
<1>2. InSort /\ Held  BY <1>1, SortHolds DEF InSort
<1>3. PICK k \in 0..Len(before) : SortsAt(before, k)  BY <1>2 DEF ListInv
<1>4. /\ Swapping(k) /\ Chain(node, queue, With(before, k, new), {}) /\ next \in Nodes
      /\ k + 1 \in 0..Len(before)
  BY <1>1, <1>2, <1>3, SwapIs
<1>5. node \in [Nodes -> Clock] /\ node[next].next \in Pointer
  BY <1>4 DEF ClockInv, Clock
<1>6. Written(node, node', cur, node[next].next)  BY <1>1 DEF Link, Written
<1>7. Same(node, node')  BY <1>5, <1>6, LinkIs
<1>8. \A m \in Nodes : node'[m].next = IF m = cur THEN node[next].next ELSE node[m].next
  <2>1. Leads(node, node', cur, node[next].next)  BY <1>5, <1>6, LinkIs
  <2> QED  BY <2>1 DEF Leads
<1>9. \A m \in Nodes :
        node'[m].next = IF m = new THEN node[before[k + 1]].next ELSE node[m].next
  BY <1>4, <1>8 DEF Swapping
<1>10. Chain(node', queue, With(before, k + 1, new), {pre, next})
  BY <1>2, <1>4, <1>9, ChainSwap DEF Swapping, Held
<1>11. Behind(node', before, k + 1, new)
  BY <1>2, <1>4, <1>7, SameIs DEF Swapping, Held
<1>12. SortsAt(before, k)'
  BY <1>1, <1>4, <1>10, <1>11 DEF SortsAt, Swapping
<1>13. pc' \in SortLines  BY <1>1 DEF SortLines
<1> QED  BY <1>1, <1>2, <1>7, <1>12, <1>13, SortGoesOn

LEMMA ListSecond ==
  ASSUME ClockInv, ListInv, swap_second
  PROVE  ListInv'
<1>1. /\ pc = "82" /\ pc' = "84" /\ Link(next, cur)
      /\ UNCHANGED <<queue, free, new, cur, pre, next, fired, before>>
  BY DEF swap_second, Line
<1>2. InSort /\ Held  BY <1>1, SortHolds DEF InSort
<1>3. PICK k \in 0..Len(before) : SortsAt(before, k)  BY <1>2 DEF ListInv
<1>4. /\ Swapping(k) /\ Chain(node, queue, With(before, k + 1, new), {pre, next})
      /\ k + 1 \in 0..Len(before) /\ k + 1 \in 1..Len(before) /\ pre # next
      /\ next \in Nodes
  BY <1>1, <1>2, <1>3, SwapIs
<1>0. PICK d : d = With(before, k + 1, new)  OBVIOUS
<1>5. Inserted(d, before, k + 1, new) /\ Different(d)  BY <1>0, <1>2, <1>4, HeldWith
<1>6. /\ d \in Seq(Nodes) /\ Len(d) = Len(before) + 1 /\ d[(k + 1) + 1] = new
      /\ \A j \in 1..(k + 1) : d[j] = before[j] /\ Len(before) \in Nat
  BY <1>2, <1>5 DEF Inserted, Held
<1>7. node \in [Nodes -> Clock] /\ cur \in Pointer  BY DEF ClockInv
<1>8. Written(node, node', next, cur)  BY <1>1 DEF Link, Written
<1>9. Same(node, node')  BY <1>7, <1>8, LinkIs
<1>18. Leads(node, node', next, cur)  BY <1>7, <1>8, LinkIs
<1>10. \A m \in Nodes : node'[m].next = IF m = next THEN cur ELSE node[m].next
  BY <1>18 DEF Leads
<1>11. k + 1 \in 1..Len(d) /\ (k + 1) + 1 \in 1..Len(d) /\ k + 1 \in 1..(k + 1)
  BY <1>3, <1>4, <1>6
<1>12. d[k + 1] = next /\ At(d, (k + 1) + 1) = cur
  BY <1>4, <1>6, <1>11 DEF At, Swapping
<1>13. Chain(node', queue, d, {pre, next} \ {d[k + 1]})
  <2>1. Chain(node, queue, d, {pre, next})  BY <1>0, <1>4
  <2>2. node'[d[k + 1]].next = At(d, (k + 1) + 1)  BY <1>4, <1>10, <1>12
  <2>3. \A m \in Nodes : m # d[k + 1] => node'[m].next = node[m].next  BY <1>10, <1>12
  <2> QED  BY <1>5, <1>11, <2>1, <2>2, <2>3, ChainWrite
<1>14. {pre, next} \ {d[k + 1]} = {pre}  BY <1>4, <1>12
<1>15. Behind(node', before, k + 1, new)
  BY <1>2, <1>4, <1>9, SameIs DEF Swapping, Held
<1>16. SortsAt(before, k)'
  <2>1. Chain(node', queue, With(before, k + 1, new), {pre})  BY <1>0, <1>13, <1>14
  <2> QED  BY <1>1, <1>4, <1>15, <2>1 DEF SortsAt, Swapping
<1>17. pc' \in SortLines  BY <1>1 DEF SortLines
<1> QED  BY <1>1, <1>2, <1>9, <1>16, <1>17, SortGoesOn

LEMMA ListThird ==
  ASSUME ClockInv, ListInv, swap_third
  PROVE  ListInv'
<1>1. /\ pc = "84" /\ pc' = "88"
      /\ IF pre = NULL THEN queue' = next /\ UNCHANGED node
         ELSE Link(pre, next) /\ UNCHANGED queue
      /\ UNCHANGED <<free, new, cur, pre, next, fired, before>>
  BY DEF swap_third, AfterSwap, Line
<1>2. InSort /\ Held  BY <1>1, SortHolds DEF InSort
<1>3. PICK k \in 0..Len(before) : SortsAt(before, k)  BY <1>2 DEF ListInv
<1>4. /\ Swapping(k) /\ Chain(node, queue, With(before, k + 1, new), {pre})
      /\ k + 1 \in 0..Len(before) /\ k + 1 \in 1..Len(before)
      /\ k # 0 => pre = before[k]
  BY <1>1, <1>2, <1>3, SwapIs
<1>0. PICK d : d = With(before, k + 1, new)  OBVIOUS
<1>5. Inserted(d, before, k + 1, new) /\ Different(d)  BY <1>0, <1>2, <1>4, HeldWith
<1>6. /\ d \in Seq(Nodes) /\ Len(d) = Len(before) + 1 /\ Len(before) \in Nat
      /\ \A j \in 1..(k + 1) : d[j] = before[j]
      /\ \A j \in 1..Len(before) : before[j] \in Nodes
  BY <1>2, <1>5 DEF Inserted, Held
<1>7. next = before[k + 1] /\ pre = At(before, k)  BY <1>4 DEF Swapping
<1>8. k + 1 \in 1..(k + 1) /\ k + 1 \in 1..Len(d)  BY <1>4, <1>6
<1>9. At(d, k + 1) = next  BY <1>6, <1>7, <1>8 DEF At
<1>10. Same(node, node') /\ Chain(node', queue', d, {})
  <2>1. CASE pre = NULL
    <3>1. k = 0
      <4>1. k # 0 => k \in 1..Len(before)  BY <1>6
      <4> QED  BY <1>4, <1>6, <2>1, <4>1, LinksAssumption
    <3>2. queue' = At(d, 1) /\ node' = node  BY <1>1, <1>9, <2>1, <3>1
    <3>3. Chain(node, queue, d, {NULL})  BY <1>0, <1>4, <2>1
    <3>4. Chain(node, At(d, 1), d, {})  BY <1>5, <3>3, ChainHead
    <3> QED  BY <3>2, <3>4 DEF Same, Alike
  <2>2. CASE pre # NULL
    <3>1. k \in 1..Len(before)  BY <1>6, <1>7, <2>2 DEF At
    <3>2. pre = d[k] /\ k \in 1..Len(d)
      <4>1. k \in 1..(k + 1) /\ k \in 1..Len(d)  BY <1>6, <3>1
      <4> QED  BY <1>6, <1>7, <3>1, <4>1 DEF At
    <3>3. node \in [Nodes -> Clock] /\ next \in Pointer /\ pre \in Nodes
      BY <1>6, <1>7, <3>1 DEF ClockInv, At
    <3>4. Written(node, node', pre, next)  BY <1>1, <2>2 DEF Link, Written
    <3>5. Same(node, node')  BY <3>3, <3>4, LinkIs
    <3>6. \A m \in Nodes : node'[m].next = IF m = pre THEN next ELSE node[m].next
      <4>1. Leads(node, node', pre, next)  BY <3>3, <3>4, LinkIs
      <4> QED  BY <4>1 DEF Leads
    <3>7. Chain(node', queue, d, {pre} \ {d[k]})
      <4>1. Chain(node, queue, d, {pre})  BY <1>0, <1>4
      <4>2. node'[d[k]].next = At(d, k + 1)  BY <1>9, <3>2, <3>3, <3>6
      <4>3. \A m \in Nodes : m # d[k] => node'[m].next = node[m].next  BY <3>2, <3>6
      <4> QED  BY <1>5, <3>2, <4>1, <4>2, <4>3, ChainWrite
    <3>8. {pre} \ {d[k]} = {} /\ queue' = queue  BY <1>1, <2>2, <3>2
    <3> QED  BY <3>5, <3>7, <3>8
  <2> QED  BY <2>1, <2>2
<1>11. Behind(node', before, k + 1, new)
  BY <1>2, <1>4, <1>10, SameIs DEF Swapping, Held
<1>12. SortsAt(before, k + 1)'
  <2>1. Chain(node', queue', With(before, k + 1, new), {}) /\ k + 1 > 0
    BY <1>0, <1>4, <1>10
  <2> QED  BY <1>1, <1>11, <2>1 DEF SortsAt
<1>13. pc' \in SortLines  BY <1>1 DEF SortLines
<1> QED  BY <1>1, <1>2, <1>4, <1>10, <1>12, <1>13, SortGoesOn

LEMMA ListRestart ==
  ASSUME ClockInv, ListInv, restart
  PROVE  ListInv'
<1>1. /\ pc = "88" /\ pc' = "91" /\ cur' = queue
      /\ UNCHANGED <<queue, node, free, new, pre, next, fired, before>>
  BY DEF restart, Line
<1>2. InSort /\ Held  BY <1>1, SortHolds DEF InSort
<1>3. PICK k \in 0..Len(before) : SortsAt(before, k)  BY <1>2 DEF ListInv
<1>0. PICK c : c = With(before, k, new)  OBVIOUS
<1>4. k > 0 /\ Chain(node, queue, c, {}) /\ Behind(node, before, k, new)
  BY <1>0, <1>1, <1>3 DEF SortsAt
<1>5. queue = At(c, 1) /\ 1 \in 1..(Len(before) + 1) /\ 1 <= k
  BY <1>2, <1>4 DEF Chain, Held
<1>6. Walking(before, c, k, 1, Len(before) + 1)'
  BY <1>1, <1>4, <1>5 DEF Walking
<1>7. SortsAt(before, k)'  BY <1>0, <1>1, <1>5, <1>6 DEF SortsAt
<1>8. Same(node, node') /\ pc' \in SortLines  BY <1>1 DEF Same, Alike, SortLines
<1> QED  BY <1>1, <1>2, <1>7, <1>8, SortGoesOn

LEMMA ListAdvance ==
  ASSUME ClockInv, ListInv, advance
  PROVE  ListInv'
<1>1. /\ pc = "91" /\ pre' = cur
      /\ UNCHANGED <<queue, node, free, new, fired, before>>
      /\ cur # NULL => pc' = "77" /\ cur' = node[cur].next /\ next' = Succ(cur')
  BY DEF advance
<1>2. InSort /\ Held  BY <1>1, SortHolds DEF InSort
<1>3. PICK k \in 0..Len(before) : SortsAt(before, k)  BY <1>2 DEF ListInv
<1>0. PICK c : c = With(before, k, new)  OBVIOUS
<1>4. PICK i \in 1..(Len(before) + 1) :
        /\ Walking(before, c, k, i, Len(before) + 1)
        /\ i <= k \/ Before(node, before, k, new)
  BY <1>0, <1>1, <1>3 DEF SortsAt
<1>5. Inserted(c, before, k, new)  BY <1>0, <1>2, HeldWith
<1>6. c \in Seq(Nodes) /\ Len(c) = Len(before) + 1 /\ Len(before) \in Nat
  BY <1>2, <1>5 DEF Inserted, Held
<1>7. /\ cur = At(c, i) /\ Behind(node, before, k, new) /\ Chain(node, queue, c, {})
  BY <1>4 DEF Walking
<1>8. i \in 1..Len(c) /\ cur = c[i] /\ cur # NULL  BY <1>6, <1>7, AtIs
<1>9. cur' = At(c, i + 1)  BY <1>1, <1>7, <1>8 DEF Chain
<1>10. next' = At(c, (i + 1) + 1)
  <2>1. next' = Succ(cur')  BY <1>1, <1>8
  <2>2. CASE i + 1 \in 1..Len(c)
    <3>1. cur' = c[i + 1] /\ c[i + 1] # NULL  BY <1>6, <1>9, <2>2, AtIs
    <3> QED  BY <1>7, <2>1, <2>2, <3>1 DEF Succ, Chain
  <2>3. CASE i + 1 \notin 1..Len(c)
    <3>1. (i + 1) + 1 \notin 1..Len(c)  BY <1>6, <2>3
    <3> QED  BY <1>9, <2>1, <2>3, <3>1 DEF At, Succ
  <2> QED  BY <2>2, <2>3
<1>11. /\ i + 1 \in 1..(Len(before) + 2) /\ (i + 1) - 1 = i
       /\ (i <= k => i + 1 <= k + 1)
  BY <1>6
<1>12. Walking(before, c, k, i + 1, Len(before) + 2)'
  BY <1>1, <1>7, <1>9, <1>11 DEF Walking
<1>13. SortsAt(before, k)'
  <2>1. /\ pc' = "77" /\ pre' = At(c, (i + 1) - 1) /\ next' = At(c, (i + 1) + 1)
        /\ i + 1 <= k + 1 \/ Before(node', before, k, new)
    BY <1>1, <1>4, <1>7, <1>8, <1>10, <1>11
  <2> QED  BY <1>0, <1>1, <1>11, <1>12, <2>1 DEF SortsAt
<1>14. Same(node, node') /\ pc' \in SortLines  BY <1>1, <1>8 DEF Same, Alike, SortLines
<1> QED  BY <1>1, <1>2, <1>13, <1>14, SortGoesOn
(* The sort is done: the new node is where it belongs.                      *)
Ends(k, c) ==
  /\ Behind(node, before, k, new) /\ Before(node, before, k, new)
  /\ Inserted(c, before, k, new) /\ Quiet(node, queue, c, free, NULL)

LEMMA SortEnds ==
  ASSUME ClockInv, ListInv, sort_end
  PROVE  InSort /\ Held /\ \E k \in 0..Len(before) : \E c : Ends(k, c)
<1>1. pc = "77" /\ cur = NULL  BY DEF sort_end
<1>2. InSort /\ Held  BY <1>1, SortHolds DEF InSort
<1>3. PICK k \in 0..Len(before) : SortsAt(before, k)  BY <1>2 DEF ListInv
<1>0. PICK c : c = With(before, k, new)  OBVIOUS
<1>4. PICK i \in 1..(Len(before) + 2) :
        /\ Walking(before, c, k, i, Len(before) + 2)
        /\ i <= k + 1 \/ Before(node, before, k, new)
  BY <1>0, <1>1, <1>3 DEF SortsAt
<1>5. Inserted(c, before, k, new) /\ Different(c)  BY <1>0, <1>2, HeldWith
<1>6. /\ c \in Seq(Nodes) /\ Len(c) = Len(before) + 1 /\ Len(before) \in Nat
      /\ c[k + 1] = new /\ \A j \in 1..k : c[j] = before[j]
      /\ \A j \in (k + 1)..Len(before) : c[j + 1] = before[j]
  BY <1>2, <1>5 DEF Inserted, Held
<1>7. /\ At(c, i) = NULL /\ Behind(node, before, k, new) /\ Chain(node, queue, c, {})
  BY <1>1, <1>4 DEF Walking
<1>8. Before(node, before, k, new)
  <2>1. i \notin 1..Len(c)  BY <1>6, <1>7, AtIs
  <2>2. ~(i <= k + 1)  BY <1>6, <2>1
  <2> QED  BY <1>4, <2>2
<1>9. /\ \A m \in Nodes : node[m].timeout \in Int
      /\ \A a, b \in 1..Len(before) :
           a < b => node[before[a]].timeout <= node[before[b]].timeout
      /\ \A a \in 1..Len(before) : before[a] \in Nodes
      /\ new \in Nodes
  BY <1>2, HeldInOrder
<1>10. \A a \in 1..Len(c) : \/ a \in 1..k /\ a \in 1..Len(before)
                            \/ a = k + 1
                            \/ a - 1 \in (k + 1)..Len(before) /\ a - 1 \in 1..Len(before)
                               /\ (a - 1) + 1 = a
  BY <1>6
<1>11. Waiting(node, c)
  <2>1. Waits(node[new])  BY <1>2, WordIs DEF Held, Fresh, Waits
  <2>2. \A a \in 1..Len(before) : Waits(node[before[a]])  BY <1>2 DEF Held, Waiting
  <2>3. \A a \in 1..Len(c) : Waits(node[c[a]])
    <3> SUFFICES ASSUME NEW a \in 1..Len(c) PROVE Waits(node[c[a]])
      OBVIOUS
    <3>1. CASE a \in 1..k /\ a \in 1..Len(before)  BY <1>6, <2>2, <3>1
    <3>2. CASE a = k + 1  BY <1>6, <2>1, <3>2
    <3>3. CASE a - 1 \in (k + 1)..Len(before) /\ a - 1 \in 1..Len(before) /\ (a - 1) + 1 = a
      BY <1>6, <2>2, <3>3
    <3> QED  BY <1>10, <3>1, <3>2, <3>3
  <2>4. ASSUME NEW a \in 1..Len(c), NEW b \in 1..Len(c), a < b
        PROVE  node[c[a]].timeout <= node[c[b]].timeout
    <3>1. CASE b \in 1..k /\ b \in 1..Len(before)
      <4>1. a \in 1..k /\ a \in 1..Len(before)  BY <2>4, <3>1
      <4> QED  BY <1>6, <1>9, <2>4, <3>1, <4>1
    <3>2. CASE b = k + 1
      <4>1. a \in 1..k /\ a \in 1..Len(before)  BY <1>6, <2>4, <3>2
      <4>2. node[before[a]].timeout < node[new].timeout  BY <1>7, <4>1 DEF Behind
      <4> QED  BY <1>6, <1>9, <3>2, <4>1, <4>2
    <3>3. CASE b - 1 \in (k + 1)..Len(before) /\ b - 1 \in 1..Len(before) /\ (b - 1) + 1 = b
      <4>1. c[b] = before[b - 1]  BY <1>6, <3>3
      <4>2. CASE a \in 1..k /\ a \in 1..Len(before)
        <5>1. c[a] = before[a] /\ a < b - 1  BY <1>6, <3>3, <4>2
        <5> QED  BY <1>9, <3>3, <4>1, <4>2, <5>1
      <4>3. CASE a = k + 1
        <5>1. node[before[b - 1]].timeout >= node[new].timeout  BY <1>8, <3>3 DEF Before
        <5>2. c[a] = new /\ before[b - 1] \in Nodes  BY <1>6, <1>9, <3>3, <4>3
        <5>3. node[before[b - 1]].timeout \in Int /\ node[new].timeout \in Int
          BY <1>9, <5>2
        <5> QED  BY <4>1, <5>1, <5>2, <5>3
      <4>4. CASE a - 1 \in (k + 1)..Len(before) /\ a - 1 \in 1..Len(before)
                 /\ (a - 1) + 1 = a
        <5>1. c[a] = before[a - 1] /\ a - 1 < b - 1  BY <1>6, <2>4, <4>4
        <5> QED  BY <1>9, <3>3, <4>1, <4>4, <5>1
      <4> QED  BY <1>10, <4>2, <4>3, <4>4
    <3> QED  BY <1>10, <3>1, <3>2, <3>3
  <2> QED  BY <1>5, <2>3, <2>4 DEF Waiting
<1>12. Exactly(c, Nodes \ (free \cup {NULL}))
  <2>1. Exactly(before, Nodes \ (free \cup {new})) /\ new \in Nodes \ free
    BY <1>2 DEF Held
  <2>2. Nodes \ (free \cup {NULL}) = Nodes \ free  BY LinksAssumption
  <2>3. ASSUME NEW a \in 1..Len(c) PROVE c[a] \in Nodes \ free
    <3>1. CASE a \in 1..k /\ a \in 1..Len(before)  BY <1>6, <2>1, <3>1 DEF Exactly
    <3>2. CASE a = k + 1  BY <1>6, <2>1, <3>2
    <3>3. CASE a - 1 \in (k + 1)..Len(before) /\ a - 1 \in 1..Len(before) /\ (a - 1) + 1 = a
      BY <1>6, <2>1, <3>3 DEF Exactly
    <3> QED  BY <1>10, <3>1, <3>2, <3>3
  <2>4. ASSUME NEW m \in Nodes \ free PROVE \E a \in 1..Len(c) : c[a] = m
    <3>1. CASE m = new
      <4>1. k + 1 \in 1..Len(c)  BY <1>6
      <4> QED  BY <1>6, <3>1, <4>1
    <3>2. CASE m # new
      <4>1. PICK a \in 1..Len(before) : before[a] = m  BY <2>1, <3>2 DEF Exactly
      <4>2. CASE a <= k
        <5>1. a \in 1..k /\ a \in 1..Len(c)  BY <1>6, <4>2
        <5> QED  BY <1>6, <4>1, <5>1
      <4>3. CASE ~(a <= k)
        <5>1. a \in (k + 1)..Len(before) /\ a + 1 \in 1..Len(c)  BY <1>6, <4>3
        <5> QED  BY <1>6, <4>1, <5>1
      <4> QED  BY <4>2, <4>3
    <3> QED  BY <3>1, <3>2
  <2> QED  BY <2>2, <2>3, <2>4 DEF Exactly
<1>13. Ends(k, c)  BY <1>5, <1>7, <1>8, <1>11, <1>12 DEF Ends, Quiet
<1> QED  BY <1>2, <1>13

LEMMA ListEnd ==
  ASSUME ClockInv, ListInv, sort_end
  PROVE  ListInv'
<1>0. PICK k \in 0..Len(before) : \E c : Ends(k, c)  BY SortEnds
<1>1. PICK c : Ends(k, c)  BY <1>0
<1>2. /\ pc' = "idle" /\ new' = NULL /\ UNCHANGED <<queue, node, free, fired>>
  BY DEF sort_end, Idle
<1>3. Quiet(node', queue', c, free', new')  BY <1>1, <1>2 DEF Ends
<1>4. Quiet(node, queue, Linked(queue), free, new)'  BY <1>3, QuietNext
<1>5. \A j \in DOMAIN fired' : fired'[j].age = fired'[j].asked  BY <1>2 DEF ListInv
<1> QED  BY <1>2, <1>4, <1>5 DEF ListInv, InSort

LEMMA ListNext ==
  ASSUME ClockInv, ListInv, calm, [Next]_vars
  PROVE  ListInv'
<1>1. CASE push
  BY <1>1, ListEmpty, ListOnly, ListToHead, ListHead, ListBegin, ListEnd, ListCompare,
     ListFirst, ListSecond, ListThird, ListRestart, ListAdvance DEF push
<1>2. CASE tick  BY <1>2, ListTick
<1>3. CASE \E t \in Timeouts : malloc(t)  BY <1>3, ListMalloc
<1>4. CASE ~calm /\ malloc(0)  BY <1>4
<1>5. CASE UNCHANGED vars
  <2>1. UNCHANGED <<queue, node, free, pc, new, cur, pre, next, fired, before>>
    BY <1>5 DEF vars
  <2>2. Linked(queue)' = Linked(queue)  BY <2>1, WalkIs
  <2>3. InSort' = InSort  BY <2>1 DEF InSort
  <2>4. InSort => (\E k \in 0..Len(before) : SortsAt(before, k))'
    BY <2>1 DEF ListInv, SortsAt, Walking
  <2> QED  BY <2>1, <2>2, <2>3, <2>4 DEF ListInv
<1> QED  BY <1>1, <1>2, <1>3, <1>4, <1>5 DEF Next
-----------------------------------------------------------------------------
LEMMA CalmNext ==
  ASSUME [Next]_vars
  PROVE  calm' = calm
<1>1. ASSUME NEW t, malloc(t) PROVE calm' = calm  BY <1>1 DEF malloc
<1>2. tick => calm' = calm  BY DEF tick
<1>3. push => calm' = calm
  BY DEF push, test_empty, link_only, link_to_head, link_head, sort_begin, sort_end, compare,
         swap_first, swap_second, swap_third, restart, advance
<1> QED  BY <1>1, <1>2, <1>3 DEF Next, vars

(* The inductive invariant.                                                 *)
LEMMA TimerInvariant == Spec => []IInv
<1>1. Init => IInv  BY ClockInit, ListInit DEF IInv, Init
<1>2. IInv /\ [Next]_vars => IInv'
  BY ClockNext, ListNext, CalmNext DEF IInv
<1> QED  BY <1>1, <1>2, PTL DEF Spec

LEMMA WaitingListed ==
  ASSUME IInv, calm, ~InSort
  PROVE  ~Cyclic /\ ToSet(Linked(queue)) = Nodes \ (free \cup {new})
<1>1. Quiet(node, queue, Linked(queue), free, new)  BY DEF IInv, ListInv
<1>2. ~Cyclic  BY <1>1, WalkIs, QuietLinked
<1>3. PICK q : q = Linked(queue)  OBVIOUS
<1>4. DOMAIN q = 1..Len(q) /\ Exactly(q, Nodes \ (free \cup {new}))
  <2>1. q \in Seq(Nodes)  BY <1>1, <1>3, QuietIs
  <2> QED  BY <1>1, <1>3, <2>1 DEF Quiet
<1>5. ToSet(q) = Nodes \ (free \cup {new})  BY <1>4 DEF ToSet, Exactly
<1> QED  BY <1>2, <1>3, <1>5

(* With ticks kept out of push and sort, the list ends and holds exactly    *)
(* the nodes that wait: no callback is lost, none is used after it was      *)
(* freed.                                                                   *)
THEOREM NoCallbackIsLost == Spec => []ListIsTheWaiting
<1>1. IInv => ListIsTheWaiting  BY WaitingListed DEF ListIsTheWaiting
<1> QED  BY <1>1, TimerInvariant, PTL
-----------------------------------------------------------------------------
(* What CoreTimerQueue has for the list and for what was run.               *)
BarQueue == IF calm THEN Listed(IF InSort THEN before ELSE Linked(queue)) ELSE <<>>
BarFired == IF calm THEN [k \in DOMAIN fired |-> Content(fired[k])] ELSE <<>>

LEMMA CalmOnTime == ASSUME IInv PROVE Timer!OnTime
<1>1. \A k \in DOMAIN BarFired : BarFired[k].age = BarFired[k].asked
  <2>1. CASE calm
    <3>1. \A k \in DOMAIN fired : fired[k].age = fired[k].asked
      BY <2>1 DEF IInv, ListInv
    <3> QED  BY <2>1, <3>1 DEF BarFired, Content
  <2>2. CASE ~calm
    <3>1. DOMAIN BarFired = {}  BY <2>2 DEF BarFired
    <3> QED  BY <3>1
  <2> QED  BY <2>1, <2>2
<1>2. \A k \in DOMAIN BarQueue : BarQueue[k].age < BarQueue[k].asked
  <2>1. CASE calm
    <3>1. PICK q : q = IF InSort THEN before ELSE Linked(queue)  OBVIOUS
    <3>2. Waiting(node, q)
      BY <2>1, <3>1 DEF IInv, ListInv, Quiet
    <3>3. q \in Seq(Nodes) /\ \A i \in 1..Len(q) : q[i] \in Nodes /\ Waits(node[q[i]])
      BY <3>2 DEF Waiting, Different
    <3>4. DOMAIN q = 1..Len(q)  BY <3>3
    <3>5. \A i \in 1..Len(q) : node[q[i]].age < node[q[i]].asked
      <4> SUFFICES ASSUME NEW i \in 1..Len(q) PROVE node[q[i]].age < node[q[i]].asked
        OBVIOUS
      <4>1. node[q[i]] \in Clock  BY <3>3 DEF IInv, ClockInv
      <4>2. /\ node[q[i]].age \in Int /\ node[q[i]].timeout \in Int
            /\ node[q[i]].asked \in Int
        BY <4>1 DEF Clock
      <4> QED  BY <3>3, <4>2 DEF Waits
    <3>6. BarQueue = [i \in 1..Len(q) |-> Content(node[q[i]])]
      BY <2>1, <3>1, <3>4 DEF BarQueue, Listed
    <3> QED  BY <3>5, <3>6 DEF Content
  <2>2. CASE ~calm
    <3>1. DOMAIN BarQueue = {}  BY <2>2 DEF BarQueue
    <3> QED  BY <3>1
  <2> QED  BY <2>1, <2>2
<1> QED  BY <1>1, <1>2 DEF Timer!OnTime, BarQueue, BarFired

(* A callback runs in the tick that was asked for; with ticks anywhere, and *)
(* with timeouts that wrap, none runs before it.                            *)
THEOREM CallbacksRunInTime == Spec => []InTime
<1>1. IInv => InTime  BY CalmOnTime DEF InTime, IInv, ClockInv
<1> QED  BY <1>1, TimerInvariant, PTL
-----------------------------------------------------------------------------
(* The lines of push and sort are one push of CoreTimerQueue, at the end of *)
(* the sort; a tick is its tick.                                            *)
Contents == [timeout : Int, asked : Int, age : Int]
ListedIn(nd, q) == [k \in DOMAIN q |-> Content(nd[q[k]])]

LEMMA BarIs ==
  /\ calm /\ InSort => BarQueue = ListedIn(node, before)
  /\ calm /\ ~InSort => BarQueue = ListedIn(node, Linked(queue))
  /\ ~calm => BarQueue = <<>> /\ BarFired = <<>>
BY DEF BarQueue, BarFired, Listed, ListedIn

LEMMA ListedInIs ==
  ASSUME NEW nd \in [Nodes -> Clock], NEW q, q \in Seq(Nodes)
  PROVE  /\ ListedIn(nd, q) \in Seq(Contents) /\ Len(ListedIn(nd, q)) = Len(q)
         /\ DOMAIN ListedIn(nd, q) = 1..Len(q)
         /\ \A k \in 1..Len(q) : ListedIn(nd, q)[k] = Content(nd[q[k]])
<1>1. DOMAIN q = 1..Len(q) /\ Len(q) \in Nat /\ \A k \in 1..Len(q) : nd[q[k]] \in Clock
  OBVIOUS
<1>2. \A c \in Clock : Content(c) \in Contents  BY DEF Clock, Content, Contents
<1>3. \A k \in 1..Len(q) : Content(nd[q[k]]) \in Contents  BY <1>1, <1>2
<1>4. ListedIn(nd, q) = [k \in 1..Len(q) |-> Content(nd[q[k]])]  BY <1>1 DEF ListedIn
<1> QED  BY <1>1, <1>3, <1>4

LEMMA ListedSame ==
  ASSUME NEW nd, NEW md, NEW q, q \in Seq(Nodes),
         \A i \in 1..Len(q) : Alike(nd[q[i]], md[q[i]])
  PROVE  ListedIn(nd, q) = ListedIn(md, q)
<1>1. DOMAIN q = 1..Len(q)  OBVIOUS
<1>2. \A i \in DOMAIN q : Content(nd[q[i]]) = Content(md[q[i]])
  BY <1>1 DEF Alike, Content
<1> QED  BY <1>2 DEF ListedIn

LEMMA PushSame ==
  ASSUME ClockInv, push
  PROVE  Same(node, node')
<1>1. node \in [Nodes -> Clock] /\ queue \in Pointer /\ cur \in Pointer /\ next \in Pointer
  BY DEF ClockInv
<1>2. ASSUME NEW p, NEW q \in Pointer, Link(p, q) PROVE Same(node, node')
  <2>1. Written(node, node', p, q)  BY <1>2 DEF Link, Written
  <2> QED  BY <1>1, <2>1, LinkIs
<1>3. CASE link_to_head  BY <1>1, <1>2, <1>3 DEF link_to_head
<1>4. CASE swap_first
  <2>1. next \in Nodes  BY <1>4 DEF swap_first, Line, ClockInv
  <2>2. node[next].next \in Pointer  BY <1>1, <2>1 DEF Clock
  <2> QED  BY <1>2, <1>4, <2>2 DEF swap_first
<1>5. CASE swap_second  BY <1>1, <1>2, <1>5 DEF swap_second
<1>6. CASE swap_third
  <2>1. UNCHANGED node \/ Link(pre, next)  BY <1>6 DEF swap_third, AfterSwap
  <2> QED  BY <1>1, <1>2, <2>1 DEF Same, Alike
<1>7. CASE UNCHANGED node  BY <1>7 DEF Same, Alike
<1> QED
  BY <1>3, <1>4, <1>5, <1>6, <1>7 DEF push, test_empty, link_only, link_head, sort_begin,
     sort_end, compare, restart, advance

LEMMA InsertIs ==
  ASSUME NEW S, NEW s \in Seq(S), NEW k \in 0..Len(s), NEW e \in S, NEW r \in Seq(S),
         Len(r) = Len(s) + 1, r[k + 1] = e, \A i \in 1..k : r[i] = s[i],
         \A i \in (k + 1)..Len(s) : r[i + 1] = s[i]
  PROVE  r = Timer!InsertAt(s, k + 1, e)
<1> DEFINE a == SubSeq(s, 1, (k + 1) - 1)
           b == SubSeq(s, k + 1, Len(s))
<1>0. (k + 1) - 1 = k /\ Len(s) \in Nat /\ (k + 1) - 1 \in Int /\ k + 1 \in Int  OBVIOUS
<1>1. a \in Seq(S) /\ Len(a) = k /\ \A i \in 1..k : a[i] = s[i]
  <2>1. \A i \in 1..k : s[i] \in S
    <3>1. \A i \in 1..k : i \in 1..Len(s)  BY <1>0
    <3> QED  BY <3>1
  <2>2. /\ SubSeq(s, 1, k) \in Seq(S)
        /\ Len(SubSeq(s, 1, k)) = IF 1 <= k THEN k - 1 + 1 ELSE 0
    BY <2>1, SubSeqProperties
  <2>3. \A i \in 1..(k - 1 + 1) : SubSeq(s, 1, k)[i] = s[1 + i - 1]
    BY <2>1, SubSeqProperties
  <2>4. k - 1 + 1 = k /\ \A i \in 1..k : 1 + i - 1 = i  OBVIOUS
  <2>5. a = SubSeq(s, 1, k)  BY <1>0
  <2> HIDE DEF a
  <2>6. Len(a) = k  BY <2>2, <2>5
  <2>7. \A i \in 1..k : a[i] = s[i]  BY <2>3, <2>4, <2>5
  <2> QED  BY <2>2, <2>5, <2>6, <2>7
<1>2. b \in Seq(S) /\ Len(b) = Len(s) - k /\ \A i \in 1..(Len(s) - k) : b[i] = s[k + i]
  <2>1. \A i \in (k + 1)..Len(s) : s[i] \in S  OBVIOUS
  <2>2. /\ b \in Seq(S)
        /\ Len(b) = IF k + 1 <= Len(s) THEN Len(s) - (k + 1) + 1 ELSE 0
    BY <1>0, <2>1, SubSeqProperties
  <2>3. \A i \in 1..(Len(s) - (k + 1) + 1) : b[i] = s[(k + 1) + i - 1]
    BY <1>0, <2>1, SubSeqProperties
  <2> HIDE DEF b
  <2>4. Len(s) - (k + 1) + 1 = Len(s) - k /\ \A i \in 1..(Len(s) - k) : (k + 1) + i - 1 = k + i
    BY <1>0
  <2>5. Len(b) = Len(s) - k
    <3>1. k + 1 <= Len(s) => Len(b) = Len(s) - k  BY <2>2, <2>4
    <3>2. ~(k + 1 <= Len(s)) => Len(s) - k = 0  BY <1>0
    <3> QED  BY <2>2, <3>1, <3>2
  <2> QED  BY <2>2, <2>3, <2>4, <2>5
<1>3. Timer!InsertAt(s, k + 1, e) = a \o <<e>> \o b  BY DEF Timer!InsertAt
<1> HIDE DEF a, b
<1>4. <<e>> \in Seq(S) /\ Len(<<e>>) = 1 /\ <<e>>[1] = e  OBVIOUS
<1>5. /\ a \o <<e>> \in Seq(S) /\ Len(a \o <<e>>) = k + 1
      /\ \A i \in 1..(k + 1) : (a \o <<e>>)[i] = IF i <= k THEN s[i] ELSE e
  <2>1. a \o <<e>> \in Seq(S) /\ Len(a \o <<e>>) = Len(a) + Len(<<e>>)
    BY <1>1, <1>4, ConcatProperties
  <2>2. \A i \in 1..(Len(a) + Len(<<e>>)) :
          (a \o <<e>>)[i] = IF i <= Len(a) THEN a[i] ELSE <<e>>[i - Len(a)]
    BY <1>1, <1>4, ConcatProperties
  <2>3. \A i \in 1..(k + 1) : (i <= k => i \in 1..k) /\ (~(i <= k) => i - k = 1)  OBVIOUS
  <2> QED  BY <1>1, <1>4, <2>1, <2>2, <2>3
<1>6. PICK f : f = a \o <<e>>  OBVIOUS
<1>7. f \in Seq(S) /\ Len(f) = k + 1 /\ \A i \in 1..(k + 1) : f[i] = IF i <= k THEN s[i] ELSE e
  BY <1>5, <1>6
<1>8. f \o b \in Seq(S) /\ Len(f \o b) = Len(f) + Len(b)  BY <1>2, <1>7, ConcatProperties
<1>9. \A i \in 1..(Len(f) + Len(b)) :
        (f \o b)[i] = IF i <= Len(f) THEN f[i] ELSE b[i - Len(f)]
  BY <1>2, <1>7, ConcatProperties
<1>10. Len(f) + Len(b) = Len(s) + 1  BY <1>0, <1>2, <1>7
<1>11. \A i \in 1..(Len(s) + 1) : r[i] = (f \o b)[i]
  <2> SUFFICES ASSUME NEW i \in 1..(Len(s) + 1) PROVE r[i] = (f \o b)[i]
    OBVIOUS
  <2>1. (f \o b)[i] = IF i <= k + 1 THEN f[i] ELSE b[i - (k + 1)]  BY <1>7, <1>9, <1>10
  <2>2. CASE i <= k
    <3>1. i \in 1..k /\ i \in 1..(k + 1) /\ i <= k + 1  BY <2>2
    <3> QED  BY <1>7, <2>1, <2>2, <3>1
  <2>3. CASE i = k + 1
    <3>1. i \in 1..(k + 1) /\ ~(i <= k) /\ i <= k + 1  BY <2>3
    <3>2. f[i] = e  BY <1>7, <3>1
    <3> QED  BY <2>1, <2>3, <3>1, <3>2
  <2>4. CASE i > k + 1
    <3>1. /\ i - 1 \in (k + 1)..Len(s) /\ (i - 1) + 1 = i /\ ~(i <= k + 1)
          /\ i - (k + 1) \in 1..(Len(s) - k) /\ k + (i - (k + 1)) = i - 1
      BY <1>0, <2>4
    <3>2. b[i - (k + 1)] = s[i - 1]  BY <1>2, <3>1
    <3>3. r[i] = s[i - 1]  BY <3>1
    <3> QED  BY <2>1, <3>1, <3>2, <3>3
  <2>5. i <= k \/ i = k + 1 \/ i > k + 1  OBVIOUS
  <2> QED  BY <2>2, <2>3, <2>4, <2>5
<1>12. r = f \o b  BY <1>8, <1>10, <1>11, SeqEqual
<1> QED  BY <1>3, <1>6, <1>12

LEMMA EndRefines ==
  ASSUME ClockInv, ListInv, calm, calm', sort_end
  PROVE  Timer!Next
<1>1. InSort /\ Held  BY SortEnds
<1>0. PICK k \in 0..Len(before) : \E c : Ends(k, c)  BY SortEnds
<1>2. PICK c : Ends(k, c)  BY <1>0
<1>3. /\ pc' = "idle" /\ new' = NULL /\ UNCHANGED <<queue, node, free, fired>>
  BY DEF sort_end, Idle
<1>4. Quiet(node', queue', c, free', new')  BY <1>2, <1>3 DEF Ends
<1>5. Linked(queue)' = c  BY <1>4, WalkIs, QuietLinked
<1>6. node \in [Nodes -> Clock] /\ before \in Seq(Nodes) /\ c \in Seq(Nodes) /\ new \in Nodes
  BY <1>1, <1>4, QuietIs DEF ClockInv, Held
<1>7. PICK s : s = ListedIn(node, before)  OBVIOUS
<1>8. PICK r : r = ListedIn(node, c)  OBVIOUS
<1>9. BarQueue = s  BY <1>1, <1>7, BarIs
<1>10. BarQueue' = r  BY <1>3, <1>5, <1>8 DEF BarQueue, Listed, ListedIn, InSort
<1>11. /\ s \in Seq(Contents) /\ Len(s) = Len(before)
       /\ \A j \in 1..Len(before) : s[j] = Content(node[before[j]])
       /\ r \in Seq(Contents) /\ Len(r) = Len(c)
       /\ \A j \in 1..Len(c) : r[j] = Content(node[c[j]])
  BY <1>6, <1>7, <1>8, ListedInIs
<1>12. /\ Len(c) = Len(before) + 1 /\ Len(before) \in Nat
       /\ c[k + 1] = new /\ \A j \in 1..k : c[j] = before[j]
       /\ \A j \in (k + 1)..Len(before) : c[j + 1] = before[j]
  BY <1>1, <1>2 DEF Ends, Inserted, Held
<1>13. PICK t : t = node[new].timeout  OBVIOUS
<1>14. PICK e : e = [timeout |-> t, asked |-> t, age |-> 0]  OBVIOUS
<1>15. t \in Timeouts /\ e = Content(node[new]) /\ e \in Contents
  <2>1. t \in Timeouts /\ node[new].asked = t /\ node[new].age = 0
    BY <1>1, <1>13 DEF Held, Fresh
  <2>2. t \in Int  BY <2>1, WordIs
  <2> QED  BY <1>13, <1>14, <2>1, <2>2 DEF Content, Contents
<1>16. r[k + 1] = e
  <2>1. k + 1 \in 1..Len(c)  BY <1>12
  <2> QED  BY <1>11, <1>12, <1>15, <2>1
<1>17. \A j \in 1..k : r[j] = s[j] /\ s[j].timeout < t
  <2> SUFFICES ASSUME NEW j \in 1..k PROVE r[j] = s[j] /\ s[j].timeout < t
    OBVIOUS
  <2>1. j \in 1..Len(before) /\ j \in 1..Len(c)  BY <1>12
  <2>2. r[j] = s[j]  BY <1>11, <1>12, <2>1
  <2>3. node[before[j]].timeout < t  BY <1>2, <1>13 DEF Ends, Behind
  <2>4. s[j] = Content(node[before[j]])  BY <1>11, <2>1
  <2>5. s[j].timeout = node[before[j]].timeout  BY <2>4 DEF Content
  <2> QED  BY <2>2, <2>3, <2>5
<1>18. \A j \in (k + 1)..Len(s) : r[j + 1] = s[j] /\ s[j].timeout >= t
  <2> SUFFICES ASSUME NEW j \in (k + 1)..Len(s) PROVE r[j + 1] = s[j] /\ s[j].timeout >= t
    OBVIOUS
  <2>1. j \in 1..Len(before) /\ j + 1 \in 1..Len(c) /\ j \in (k + 1)..Len(before)
    BY <1>11, <1>12
  <2>2. r[j + 1] = s[j]  BY <1>11, <1>12, <2>1
  <2>3. node[before[j]].timeout >= t  BY <1>2, <1>13, <2>1 DEF Ends, Before
  <2>4. s[j] = Content(node[before[j]])  BY <1>11, <2>1
  <2>5. s[j].timeout = node[before[j]].timeout  BY <2>4 DEF Content
  <2> QED  BY <2>2, <2>3, <2>5
<1>19. k \in 0..Len(s) /\ Len(r) = Len(s) + 1  BY <1>11, <1>12
<1>20. r = Timer!InsertAt(s, k + 1, e)
  BY <1>11, <1>15, <1>16, <1>17, <1>18, <1>19, InsertIs
<1>21. Len(s) < Cardinality(Nodes)
  <2>1. Len(c) \in 0..Cardinality(Nodes)  BY <1>4, QuietIs, ChainLength
  <2> QED  BY <1>11, <1>12, <2>1, SizeOfNodes
<1>22. BarFired' = BarFired  BY <1>3 DEF BarFired, Content
<1>23. Timer!core_timer_queue_push(t)
  <2>1. /\ Len(BarQueue) < Cardinality(Nodes)
        /\ \A j \in 1..k : BarQueue[j].timeout < t
        /\ \A j \in (k + 1)..Len(BarQueue) : BarQueue[j].timeout >= t
        /\ k \in 0..Len(BarQueue)
        /\ BarQueue' = Timer!InsertAt(BarQueue, k + 1, [timeout |-> t, asked |-> t, age |-> 0])
    BY <1>9, <1>10, <1>14, <1>17, <1>18, <1>19, <1>20, <1>21
  <2> QED  BY <1>22, <2>1 DEF Timer!core_timer_queue_push, Timer!core_timer_queue_sort,
       BarQueue, BarFired
<1> QED  BY <1>15, <1>23 DEF Timer!Next

TimerOlder(c) == [Timer!Older(c) EXCEPT !.timeout = (@ + Word - 1) % Word]

LEMMA ContentOlder ==
  ASSUME NEW c \in Clock
  PROVE  TimerOlder(Content(c)) = Content(Older(c))
<1>1. PICK d : d = Content(c)  OBVIOUS
<1>2. d = [timeout |-> c.timeout, asked |-> c.asked, age |-> c.age]  BY <1>1 DEF Content
<1>3. PICK b : b = Timer!Older(d)  OBVIOUS
<1>4. b = [timeout |-> c.timeout, asked |-> c.asked,
           age |-> IF c.age < Word THEN c.age + 1 ELSE c.age]
  BY <1>2, <1>3 DEF Timer!Older
<1>5. TimerOlder(d) = [b EXCEPT !.timeout = (@ + Word - 1) % Word]  BY <1>3 DEF TimerOlder
<1>6. PICK x : x = (c.timeout + Word - 1) % Word  OBVIOUS
<1>7. b.timeout = c.timeout  BY <1>4
<1>8. TimerOlder(d) = [b EXCEPT !.timeout = x]  BY <1>5, <1>6, <1>7
<1>9. TimerOlder(d) = [timeout |-> x, asked |-> c.asked,
                       age |-> IF c.age < Word THEN c.age + 1 ELSE c.age]
  BY <1>4, <1>8
<1>10. /\ Older(c).asked = c.asked
       /\ Older(c).age = IF c.age < Word THEN c.age + 1 ELSE c.age
       /\ Older(c).timeout = x
  <2>1. x = IF c.timeout = 0 THEN Word - 1 ELSE c.timeout - 1
    BY <1>6, CountedDown DEF Clock
  <2> QED  BY <2>1, OlderIs
<1> QED  BY <1>1, <1>9, <1>10 DEF Content

(* The head is taken while it is at 0: how often is determined.             *)
LEMMA DueIs ==
  ASSUME NEW u \in Seq(Contents), NEW n \in 0..Len(u), \A i \in 1..n : u[i].timeout = 0,
         n < Len(u) => u[n + 1].timeout # 0
  PROVE  Timer!Due(u) = n
<1> DEFINE P(m) == /\ \A i \in 1..m : u[i].timeout = 0
                   /\ m < Len(u) => u[m + 1].timeout # 0
<1>1. P(n) /\ Len(u) \in Nat  OBVIOUS
<1>2. ASSUME NEW m \in 0..Len(u), P(m) PROVE m = n
  <2>1. CASE m < n
    <3>1. m + 1 \in 1..n /\ m < Len(u)  BY <1>1, <2>1
    <3> QED  BY <1>1, <1>2, <3>1
  <2>2. CASE n < m
    <3>1. n + 1 \in 1..m /\ n < Len(u)  BY <1>1, <2>2
    <3> QED  BY <1>1, <1>2, <3>1
  <2>3. m < n \/ n < m \/ m = n  BY <1>1
  <2> QED  BY <2>1, <2>2, <2>3
<1>3. Timer!Due(u) = CHOOSE m \in 0..Len(u) : P(m)  BY DEF Timer!Due
<1> HIDE DEF P
<1> QED  BY <1>1, <1>2, <1>3

LEMMA TickRefines ==
  ASSUME ClockInv, ListInv, calm, calm', tick
  PROVE  Timer!Next
<1>0. PICK list, n : Leaves(list, n)  BY TickLeaves
<1>1. /\ Quiet(node, queue, list, free, new) /\ Pops(list, n)
      /\ Quiet(node', queue', SubSeq(list, n + 1, Len(list)), free', new')
      /\ \A i \in 1..Len(list) : Ticked(node[list[i]], node'[list[i]])
  BY <1>0 DEF Leaves
<1>2. ~InSort /\ UNCHANGED pc  BY DEF tick
<1>3. Linked(queue) = list /\ Linked(queue)' = SubSeq(list, n + 1, Len(list))
  BY <1>1, WalkIs, QuietLinked
<1>4. /\ list \in Seq(Nodes) /\ Len(list) \in Nat /\ n \in 0..Len(list)
      /\ \A i \in 1..Len(list) : list[i] \in Nodes
  <2>1. /\ list \in Seq(Nodes) /\ Len(list) \in Nat
        /\ \A i \in 1..Len(list) : list[i] \in Nodes
    BY <1>1, QuietIs
  <2> QED  BY <1>1, <2>1 DEF Pops
<1>5. node \in [Nodes -> Clock] /\ node' \in [Nodes -> Clock]  BY <1>1 DEF ClockInv, Pops
<1>6. PICK s : s = ListedIn(node, list)  OBVIOUS
<1>7. PICK u : u = ListedIn(node', list)  OBVIOUS
<1>8. /\ s \in Seq(Contents) /\ Len(s) = Len(list) /\ DOMAIN s = 1..Len(list)
      /\ \A j \in 1..Len(list) : s[j] = Content(node[list[j]])
  BY <1>4, <1>5, <1>6, ListedInIs
<1>9. /\ u \in Seq(Contents) /\ Len(u) = Len(list) /\ DOMAIN u = 1..Len(list)
      /\ \A j \in 1..Len(list) : u[j] = Content(node'[list[j]])
      /\ u = [j \in 1..Len(list) |-> Content(node'[list[j]])]
  <2>1. DOMAIN list = 1..Len(list)  BY <1>4
  <2> QED  BY <1>4, <1>5, <1>7, <2>1, ListedInIs DEF ListedIn
<1>10. BarQueue = s  BY <1>2, <1>3, <1>6, BarIs
<1>11. \A j \in 1..Len(list) : node'[list[j]] = Older(node[list[j]])
  <2>1. \A j \in 1..Len(list) : list[j] \in ToSet(list)
    <3>1. DOMAIN list = 1..Len(list)  BY <1>4
    <3> QED  BY <3>1 DEF ToSet
  <2> QED  BY <1>1, <1>4, <2>1 DEF Pops
<1>12. u = [j \in DOMAIN s |-> TimerOlder(s[j])]
  <2>1. \A j \in 1..Len(list) : TimerOlder(s[j]) = Content(node'[list[j]])
    <3> SUFFICES ASSUME NEW j \in 1..Len(list)
                 PROVE  TimerOlder(s[j]) = Content(node'[list[j]])
      OBVIOUS
    <3>1. node[list[j]] \in Clock  BY <1>4, <1>5
    <3>2. TimerOlder(Content(node[list[j]])) = Content(Older(node[list[j]]))
      BY <3>1, ContentOlder
    <3>3. s[j] = Content(node[list[j]])  BY <1>8
    <3> QED  BY <1>11, <3>2, <3>3
  <2> QED  BY <1>8, <1>9, <2>1
<1>13. Timer!core_timer_queue_update = u
  <2>1. Timer!core_timer_queue_update = [j \in DOMAIN BarQueue |-> TimerOlder(BarQueue[j])]
    BY DEF Timer!core_timer_queue_update, BarQueue, TimerOlder
  <2> QED  BY <1>10, <1>12, <2>1
<1>14. Timer!Due(u) = n
  <2>1. \A j \in 1..Len(list) : u[j].timeout = node[list[j]].timeout - 1
    BY <1>1, <1>9 DEF Ticked, Content
  <2>2. \A j \in 1..n : u[j].timeout = 0
    <3> SUFFICES ASSUME NEW j \in 1..n PROVE u[j].timeout = 0
      OBVIOUS
    <3>1. j \in 1..Len(list)  BY <1>4
    <3>2. node[list[j]].timeout = 1  BY <1>1 DEF Pops
    <3> QED  BY <2>1, <3>1, <3>2
  <2>3. n < Len(u) => u[n + 1].timeout # 0
    <3> SUFFICES ASSUME n < Len(u) PROVE u[n + 1].timeout # 0
      OBVIOUS
    <3>1. n + 1 \in 1..Len(list) /\ n < Len(list)  BY <1>4, <1>9
    <3>2. node[list[n + 1]].timeout # 1  BY <1>1, <3>1 DEF Pops
    <3>3. node[list[n + 1]] \in Clock  BY <1>4, <1>5, <3>1
    <3>4. node[list[n + 1]].timeout \in Int  BY <3>3 DEF Clock
    <3> QED  BY <2>1, <3>1, <3>2, <3>4
  <2>4. n \in 0..Len(u)  BY <1>4, <1>9
  <2> QED  BY <1>9, <2>2, <2>3, <2>4, DueIs
<1>15. BarFired' = SubSeq(u, 1, n)
  <2>1. fired' = [k \in 1..n |-> Older(node[list[k]])]  BY <1>1 DEF Pops
  <2>2. \A k \in 1..n : k \in 1..Len(list)  BY <1>4
  <2>3. \A k \in 1..n : Content(fired'[k]) = u[k]  BY <1>9, <1>11, <2>1, <2>2
  <2>4. BarFired' = [k \in 1..n |-> u[k]]  BY <2>1, <2>3 DEF BarFired
  <2>5. \A k \in 1..n : u[k] \in Contents  BY <1>9, <2>2
  <2>6. PICK f : f = [k \in 1..n |-> u[k]]  OBVIOUS
  <2>7. f \in Seq(Contents) /\ Len(f) = n /\ \A k \in 1..n : f[k] = u[k]
    BY <1>4, <2>5, <2>6
  <2>8. /\ SubSeq(u, 1, n) \in Seq(Contents)
        /\ Len(SubSeq(u, 1, n)) = IF 1 <= n THEN n - 1 + 1 ELSE 0
    BY <1>4, <2>5, SubSeqProperties
  <2>9. \A k \in 1..(n - 1 + 1) : SubSeq(u, 1, n)[k] = u[1 + k - 1]
    BY <1>4, <2>5, SubSeqProperties
  <2>10. n - 1 + 1 = n /\ \A k \in 1..n : 1 + k - 1 = k  BY <1>4
  <2>11. PICK g : g = SubSeq(u, 1, n)  OBVIOUS
  <2>12. g \in Seq(Contents) /\ Len(g) = n /\ \A k \in 1..n : g[k] = u[k]
    <3>1. Len(g) = n  BY <1>4, <2>8, <2>11
    <3>2. \A k \in 1..n : g[k] = u[k]  BY <2>9, <2>10, <2>11
    <3> QED  BY <2>8, <2>11, <3>1, <3>2
  <2>13. f = g  BY <2>7, <2>12, SeqEqual
  <2> QED  BY <2>4, <2>6, <2>11, <2>13
<1>16. BarQueue' = SubSeq(u, n + 1, Len(u))
  <2>1. PICK r : r = SubSeq(list, n + 1, Len(list))  OBVIOUS
  <2>2. BarQueue' = ListedIn(node', r)
    BY <1>2, <1>3, <2>1 DEF BarQueue, Listed, ListedIn, InSort
  <2>3. r \in Seq(Nodes)  BY <1>1, <2>1, QuietIs
  <2>4. PICK f : f = ListedIn(node', r)  OBVIOUS
  <2>5. /\ f \in Seq(Contents) /\ Len(f) = Len(r)
        /\ \A k \in 1..Len(r) : f[k] = Content(node'[r[k]])
    BY <1>5, <2>3, <2>4, ListedInIs
  <2>6. n + 1 \in Int /\ Len(list) \in Int /\ Len(u) = Len(list)  BY <1>4, <1>9
  <2>7. \A i \in (n + 1)..Len(list) : list[i] \in Nodes /\ u[i] \in Contents
    <3>1. \A i \in (n + 1)..Len(list) : i \in 1..Len(list)  BY <1>4
    <3> QED  BY <1>4, <1>9, <3>1
  <2>8. Len(r) = IF n + 1 <= Len(list) THEN Len(list) - (n + 1) + 1 ELSE 0
    BY <2>1, <2>6, <2>7, SubSeqProperties
  <2>9. \A k \in 1..(Len(list) - (n + 1) + 1) : r[k] = list[(n + 1) + k - 1]
    BY <2>1, <2>6, <2>7, SubSeqProperties
  <2>10. PICK g : g = SubSeq(u, n + 1, Len(list))  OBVIOUS
  <2>11. /\ g \in Seq(Contents)
         /\ Len(g) = IF n + 1 <= Len(list) THEN Len(list) - (n + 1) + 1 ELSE 0
    BY <2>6, <2>7, <2>10, SubSeqProperties
  <2>12. \A k \in 1..(Len(list) - (n + 1) + 1) : g[k] = u[(n + 1) + k - 1]
    BY <2>6, <2>7, <2>10, SubSeqProperties
  <2>13. \A k \in 1..Len(f) : f[k] = g[k]
    <3> SUFFICES ASSUME NEW k \in 1..Len(f) PROVE f[k] = g[k]
      OBVIOUS
    <3>1. k \in 1..Len(r)  BY <2>5
    <3>2. k \in 1..(Len(list) - (n + 1) + 1)
      <4>1. n + 1 <= Len(list)  BY <2>8, <3>1
      <4> QED  BY <2>8, <3>1, <4>1
    <3>3. (n + 1) + k - 1 \in 1..Len(list)  BY <1>4, <3>2
    <3>4. r[k] = list[(n + 1) + k - 1] /\ g[k] = u[(n + 1) + k - 1]  BY <2>9, <2>12, <3>2
    <3> QED  BY <1>9, <2>5, <3>1, <3>3, <3>4
  <2>14. f = g  BY <2>5, <2>8, <2>11, <2>13, SeqEqual
  <2> QED  BY <2>2, <2>4, <2>6, <2>10, <2>14
<1>17. Timer!core_timer_interrupt_handler
  BY <1>13, <1>14, <1>15, <1>16 DEF Timer!core_timer_interrupt_handler, BarQueue, BarFired
<1> QED  BY <1>17 DEF Timer!Next

LEMMA StepRefines ==
  ASSUME IInv, [Next]_vars
  PROVE  [Timer!Next]_(Timer!vars)
<1>0. ClockInv /\ calm' = calm  BY CalmNext DEF IInv
<1>1. BarQueue' = BarQueue /\ BarFired' = BarFired => UNCHANGED Timer!vars
  BY DEF Timer!vars, BarQueue, BarFired
<1>2. CASE ~calm
  <2>1. BarQueue' = BarQueue /\ BarFired' = BarFired  BY <1>0, <1>2 DEF BarQueue, BarFired
  <2> QED  BY <1>1, <2>1
<1>3. CASE calm
  <2>1. ListInv  BY <1>3 DEF IInv
  <2>2. calm'  BY <1>0, <1>3
  <2>3. CASE tick  BY <1>0, <1>3, <2>1, <2>2, <2>3, TickRefines
  <2>4. CASE sort_end  BY <1>0, <1>3, <2>1, <2>2, <2>4, EndRefines
  <2>5. CASE \E t \in Timeouts : malloc(t)
    <3>1. PICK t \in Timeouts : malloc(t)  BY <2>5
    <3>2. PICK q : /\ q = Linked(queue) /\ Quiet(node, queue, q, free, new)
                   /\ Quiet(node', queue', q, free', new')
                   /\ \A i \in 1..Len(q) : Alike(node[q[i]], node'[q[i]])
      BY <1>0, <2>1, <3>1, MallocKeeps
    <3>3. q \in Seq(Nodes)  BY <3>2, QuietIs
    <3>4. ListedIn(node, q) = ListedIn(node', q)  BY <3>2, <3>3, ListedSame
    <3>5. Linked(queue)' = q  BY <3>2, WalkIs, QuietLinked
    <3>6. ~InSort /\ ~InSort' /\ fired' = fired  BY <3>1 DEF malloc, Line, InSort
    <3>7. BarQueue = ListedIn(node, q)  BY <1>3, <3>2, <3>6, BarIs
    <3>8. BarQueue' = ListedIn(node', q)
      BY <2>2, <3>5, <3>6 DEF BarQueue, Listed, ListedIn
    <3>9. BarFired' = BarFired  BY <1>0, <3>6 DEF BarFired, Content
    <3> QED  BY <1>1, <3>4, <3>7, <3>8, <3>9
  <2>6. CASE test_empty
    <3>1. UNCHANGED <<queue, node, fired, before>> /\ ~InSort /\ ~InSort'
      BY <2>6 DEF test_empty, InSort
    <3>2. Linked(queue)' = Linked(queue)  BY <3>1, WalkIs
    <3>3. BarQueue' = BarQueue /\ BarFired' = BarFired
      BY <1>0, <3>1, <3>2 DEF BarQueue, BarFired, Listed, Content
    <3> QED  BY <1>1, <3>3
  <2>7. CASE UNCHANGED vars
    <3>1. UNCHANGED <<queue, node, fired, before, pc>>  BY <2>7 DEF vars
    <3>2. Linked(queue)' = Linked(queue) /\ InSort' = InSort  BY <3>1, WalkIs DEF InSort
    <3>3. BarQueue' = BarQueue /\ BarFired' = BarFired
      BY <1>0, <3>1, <3>2 DEF BarQueue, BarFired, Listed, Content
    <3> QED  BY <1>1, <3>3
  <2>8. CASE link_only \/ link_to_head
    <3>1. /\ ~InSort /\ InSort' /\ before' = Linked(queue) /\ fired' = fired
      BY <2>8 DEF link_only, link_to_head, Line, InSort
    <3>2. Same(node, node')
      <4>1. push  BY <2>8 DEF push
      <4> QED  BY <1>0, <4>1, PushSame
    <3>3. PICK q : q = Linked(queue)  OBVIOUS
    <3>4. q \in Seq(Nodes)
      <4>1. Quiet(node, queue, q, free, new)  BY <2>1, <3>1, <3>3 DEF ListInv
      <4> QED  BY <4>1, QuietIs
    <3>5. ListedIn(node, q) = ListedIn(node', q)
      <4>1. \A i \in 1..Len(q) : Alike(node[q[i]], node'[q[i]])  BY <3>2, <3>4 DEF Same
      <4> QED  BY <3>4, <4>1, ListedSame
    <3>6. BarQueue = ListedIn(node, q)  BY <1>3, <3>1, <3>3, BarIs
    <3>7. BarQueue' = ListedIn(node', q)
      BY <2>2, <3>1, <3>3 DEF BarQueue, Listed, ListedIn
    <3>8. BarFired' = BarFired  BY <1>0, <3>1 DEF BarFired, Content
    <3> QED  BY <1>1, <3>5, <3>6, <3>7, <3>8
  <2>9. CASE \/ link_head \/ sort_begin \/ compare \/ swap_first \/ swap_second
             \/ swap_third \/ restart \/ advance
    <3>1. push  BY <2>9 DEF push
    <3>2. Same(node, node')  BY <1>0, <3>1, PushSame
    <3>3. UNCHANGED <<fired, before>> /\ InSort
      BY <2>9 DEF link_head, sort_begin, compare, swap_first, swap_second, swap_third,
         AfterSwap, restart, advance, Line, InSort
    <3>4. InSort'
      BY <2>9 DEF link_head, sort_begin, compare, swap_first, swap_second, swap_third,
         AfterSwap, restart, advance, Line, InSort
    <3>5. before \in Seq(Nodes)  BY <1>0, <2>1, <3>3, SortHolds DEF Held
    <3>6. ListedIn(node, before) = ListedIn(node', before)
      <4>1. \A i \in 1..Len(before) : Alike(node[before[i]], node'[before[i]])
        BY <3>2, <3>5 DEF Same
      <4> QED  BY <3>5, <4>1, ListedSame
    <3>7. BarQueue = ListedIn(node, before)  BY <1>3, <3>3, BarIs
    <3>8. BarQueue' = ListedIn(node', before)
      BY <2>2, <3>3, <3>4 DEF BarQueue, Listed, ListedIn
    <3>9. BarFired' = BarFired  BY <1>0, <3>3 DEF BarFired, Content
    <3> QED  BY <1>1, <3>6, <3>7, <3>8, <3>9
  <2> QED
    BY <1>3, <2>3, <2>4, <2>5, <2>6, <2>7, <2>8, <2>9 DEF Next, push
<1> QED  BY <1>2, <1>3

LEMMA InitRefines == ASSUME Init PROVE Timer!core_timer_queue_init
<1>1. BarFired = <<>>
  <2>1. fired = <<>>  BY DEF Init
  <2>2. [k \in DOMAIN <<>> |-> Content(fired[k])] = <<>>  OBVIOUS
  <2> QED  BY <2>1, <2>2 DEF BarFired
<1>2. BarQueue = <<>>
  <2>1. CASE calm
    <3>1. ListInv /\ queue = NULL /\ ~InSort  BY <2>1, ListInit DEF Init, InSort
    <3>2. PICK q : q = Linked(queue)  OBVIOUS
    <3>3. Quiet(node, queue, q, free, new)  BY <3>1, <3>2 DEF ListInv
    <3>4. q \in Seq(Nodes) /\ At(q, 1) = NULL /\ Len(q) \in Nat
      BY <3>1, <3>3, QuietIs DEF Quiet, Chain
    <3>5. 1 \notin 1..Len(q)  BY <3>4, AtIs
    <3>6. q = <<>>
      <4>1. Len(q) = 0  BY <3>4, <3>5
      <4> QED  BY <3>4, <4>1, EmptySeq
    <3>7. ListedIn(node, <<>>) = <<>>  BY DEF ListedIn
    <3> QED  BY <2>1, <3>1, <3>2, <3>6, <3>7, BarIs
  <2>2. CASE ~calm  BY <2>2 DEF BarQueue
  <2> QED  BY <2>1, <2>2
<1> QED  BY <1>1, <1>2 DEF Timer!core_timer_queue_init, BarQueue, BarFired

(* The pointers implement the list: what the lines of core_timer_queue_push *)
(* and core_timer_queue_sort do, one by one, and the tick, is what          *)
(* CoreTimerQueue does in one step each, as long as ticks are kept out of   *)
(* the sort.                                                                *)
THEOREM ListIsImplemented == Spec => ImplementsTimerQueue
<1>1. Init => Timer!core_timer_queue_init  BY InitRefines
<1>2. IInv /\ [Next]_vars => [Timer!Next]_(Timer!vars)  BY StepRefines
<1> QED
  BY <1>1, <1>2, TimerInvariant, PTL DEF Spec, ImplementsTimerQueue, Timer!Spec
=============================================================================

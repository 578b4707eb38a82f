---------------------------- MODULE BuddyProof ------------------------------
(***************************************************************************)
(* libs/mm/buddy.c for a pool of any size: the free and the held blocks     *)
(* always cut the pool exactly, buddies are always joined, and the buddy    *)
(* system implements the page allocator.                                    *)
(***************************************************************************)
EXTENDS Buddy, RunQueueProof

USE MaxOrderAssumption

(* A set of blocks that cuts the pool: every page in exactly one of them,   *)
(* and each at a multiple of its size.                                      *)
Aligned(d) == \A j \in d[1] : j >= d[2]
Tiles(D) == /\ D \subseteq Blocks \X Orders
            /\ \A p \in Blocks : \E d \in D : p \in PagesOf(d)
            /\ \A d, e \in D : d # e => PagesOf(d) \cap PagesOf(e) = {}
            /\ \A d \in D : Aligned(d)
-----------------------------------------------------------------------------
(* Bits and pages.                                                          *)

LEMMA GreatestBit ==
  ASSUME NEW T, T \subseteq Bits, T # {}
  PROVE  \E m \in T : \A k \in T : k <= m
<1> DEFINE R == {i \in Nat : MaxOrder - 1 - i \in T}
<1>1. R # {}
  <2>1. PICK k \in T : TRUE  OBVIOUS
  <2>2. MaxOrder - 1 - k \in Nat /\ MaxOrder - 1 - (MaxOrder - 1 - k) = k  BY <2>1 DEF Bits
  <2> QED  BY <2>1, <2>2
<1>2. PICK r \in R : \A i \in R : r <= i
  <2> HIDE DEF R
  <2>1. R \subseteq Nat  BY DEF R
  <2> QED  BY <1>1, <2>1, LeastNat
<1>3. ASSUME NEW k \in T PROVE k <= MaxOrder - 1 - r
  <2>1. k \in Int /\ MaxOrder - 1 - k \in Nat /\ MaxOrder - 1 - (MaxOrder - 1 - k) = k
    BY DEF Bits
  <2>2. MaxOrder - 1 - k \in R  BY <2>1
  <2>3. r \in Nat /\ r <= MaxOrder - 1 - k
    <3> HIDE DEF R
    <3> QED  BY <1>2, <2>2 DEF R
  <2> HIDE DEF R
  <2> QED  BY <2>1, <2>3
<1> QED  BY <1>2, <1>3

LEMMA InPages ==
  ASSUME NEW b, NEW k, NEW p
  PROVE  p \in PagesOf(<<b, k>>) <=>
           p \in Blocks /\ \A j \in Bits : j >= k => (j \in p <=> j \in b)
BY DEF PagesOf

(* The bits of the buddy at order j of a block that merge has brought from  *)
(* order k to order j.                                                      *)
LEMMA BuddyBits ==
  ASSUME NEW b \in Blocks, NEW k \in Orders, NEW j \in Bits, j >= k,
         \A i \in b : i >= k
  PROVE  /\ BuddyOf(b, k, j) \in Blocks
         /\ \A i \in Bits : i \in BuddyOf(b, k, j) <=> \/ i > j /\ i \in b
                                                       \/ i = j /\ i \notin b
<1>1. j \in Nat /\ k \in Nat  BY DEF Bits, Orders
<1>2. Clear(b, k, j) \in Blocks /\ \A i \in Bits : i \in Clear(b, k, j) <=> i >= j /\ i \in b
  BY <1>1 DEF Clear, Blocks, Bits
<1> DEFINE c == Clear(b, k, j)
<1> HIDE DEF c
<1>3. c \in Blocks /\ \A i \in Bits : i \in c <=> i >= j /\ i \in b  BY <1>2 DEF c
<1>4. Flip(c, j) \in Blocks /\ \A i \in Bits : i \in Flip(c, j) <=> IF i = j THEN i \notin c ELSE i \in c
  BY <1>3 DEF Flip, Blocks
<1>5. \A i \in Bits : i \in Nat /\ (i >= j <=> i > j \/ i = j)  BY <1>1 DEF Bits
<1> QED  BY <1>3, <1>4, <1>5 DEF BuddyOf, c

LEMMA ClearBits ==
  ASSUME NEW b \in Blocks, NEW k \in Orders, NEW m \in Orders, m >= k,
         \A i \in b : i >= k
  PROVE  /\ Clear(b, k, m) \in Blocks
         /\ \A i \in Bits : i \in Clear(b, k, m) <=> i >= m /\ i \in b
BY DEF Clear, Blocks, Bits, Orders

(***************************************************************************)
(* A block of order m is cut into its part of order k that holds b and the  *)
(* buddies of b at the orders between: what buddy_find_free_block splits    *)
(* and what merge joins.                                                    *)
(***************************************************************************)
Parts(b, k, m) == {<<b, k>>} \cup {<<BuddyOf(b, k, j), j>> : j \in k..(m - 1)}

LEMMA PartsTile ==
  ASSUME NEW b \in Blocks, NEW k \in Orders, NEW m \in Orders, m >= k,
         Aligned(<<b, k>>)
  PROVE  /\ Parts(b, k, m) \subseteq Blocks \X Orders
         /\ \A p \in Blocks : p \in PagesOf(<<Clear(b, k, m), m>>)
                                <=> \E d \in Parts(b, k, m) : p \in PagesOf(d)
         /\ \A d, e \in Parts(b, k, m) : d # e => PagesOf(d) \cap PagesOf(e) = {}
         /\ \A d \in Parts(b, k, m) : Aligned(d)
         /\ Aligned(<<Clear(b, k, m), m>>)
<1>0. \A i \in b : i >= k  BY DEF Aligned
<1>1. k \in Nat /\ m \in Nat /\ m <= MaxOrder  BY DEF Orders
<1>2. \A j \in k..(m - 1) : j \in Bits /\ j \in Nat /\ j >= k /\ j < m /\ j \in Orders
  BY <1>1 DEF Bits, Orders
<1>3. \A i \in Bits : i \in Nat  BY DEF Bits
<1>4. ASSUME NEW j \in k..(m - 1)
      PROVE  /\ BuddyOf(b, k, j) \in Blocks
             /\ \A i \in Bits : i \in BuddyOf(b, k, j) <=> \/ i > j /\ i \in b
                                                           \/ i = j /\ i \notin b
  BY <1>0, <1>2, BuddyBits
<1>5. Clear(b, k, m) \in Blocks /\ \A i \in Bits : i \in Clear(b, k, m) <=> i >= m /\ i \in b
  BY <1>0, ClearBits
<1>6. Parts(b, k, m) \subseteq Blocks \X Orders  BY <1>2, <1>4 DEF Parts
<1>7. \A d \in Parts(b, k, m) : Aligned(d)
  <2>1. ASSUME NEW j \in k..(m - 1) PROVE Aligned(<<BuddyOf(b, k, j), j>>)
    <3>1. \A i \in BuddyOf(b, k, j) : i \in Bits  BY <1>4 DEF Blocks
    <3> QED  BY <1>2, <1>3, <1>4, <3>1 DEF Aligned
  <2> QED  BY <2>1 DEF Parts
<1>8. Aligned(<<Clear(b, k, m), m>>)
  <2>1. \A i \in Clear(b, k, m) : i \in Bits  BY <1>5 DEF Blocks
  <2> QED  BY <1>5, <2>1 DEF Aligned
<1>9. ASSUME NEW p \in Blocks, p \in PagesOf(<<Clear(b, k, m), m>>)
      PROVE  \E d \in Parts(b, k, m) : p \in PagesOf(d)
  <2> DEFINE T == {i \in Bits : i >= k /\ ~(i \in p <=> i \in b)}
  <2>1. \A i \in Bits : i >= m => (i \in p <=> i \in b)
    BY <1>5, <1>9, InPages
  <2>2. CASE T = {}
    <3>1. p \in PagesOf(<<b, k>>)  BY <2>2, InPages
    <3> QED  BY <3>1 DEF Parts
  <2>3. CASE T # {}
    <3>1. PICK j \in T : \A i \in T : i <= j
      <4>1. T \subseteq Bits  OBVIOUS
      <4> HIDE DEF T
      <4> QED  BY <2>3, <4>1, GreatestBit
    <3>2. j \in k..(m - 1) /\ j \in Bits /\ ~(j \in p <=> j \in b)
      BY <1>1, <1>3, <2>1, <3>1
    <3>3. \A i \in Bits : i > j => (i \in p <=> i \in b)
      BY <1>1, <1>3, <3>1, <3>2
    <3>4. ASSUME NEW i \in Bits, i >= j PROVE i \in p <=> i \in BuddyOf(b, k, j)
      <4>1. i > j \/ i = j  BY <1>3, <3>2, <3>4
      <4>2. i > j => i # j  BY <1>3, <3>2
      <4> QED  BY <1>4, <3>2, <3>3, <4>1, <4>2
    <3>5. p \in PagesOf(<<BuddyOf(b, k, j), j>>)  BY <3>4, InPages
    <3> QED  BY <3>2, <3>5 DEF Parts
  <2> QED  BY <2>2, <2>3
<1>10. ASSUME NEW p \in Blocks, NEW d \in Parts(b, k, m), p \in PagesOf(d)
       PROVE  p \in PagesOf(<<Clear(b, k, m), m>>)
  <2>1. SUFFICES ASSUME NEW i \in Bits, i >= m PROVE i \in p <=> i \in b
    BY <1>5, InPages
  <2>2. CASE d = <<b, k>>
    <3>1. i >= k  BY <1>1, <1>3, <2>1
    <3> QED  BY <1>10, <2>1, <2>2, <3>1, InPages
  <2>3. ASSUME NEW j \in k..(m - 1), d = <<BuddyOf(b, k, j), j>> PROVE i \in p <=> i \in b
    <3>1. i >= j /\ i > j /\ i # j  BY <1>1, <1>2, <1>3, <2>1
    <3>2. i \in p <=> i \in BuddyOf(b, k, j)  BY <1>10, <2>1, <2>3, <3>1, InPages
    <3> QED  BY <1>4, <2>1, <3>1, <3>2
  <2> QED  BY <2>2, <2>3 DEF Parts
<1>11. ASSUME NEW j \in k..(m - 1), NEW p, p \in PagesOf(<<BuddyOf(b, k, j), j>>)
       PROVE  (j \in p <=> j \notin b) /\ \A i \in Bits : i > j => (i \in p <=> i \in b)
  <2>1. j \in Bits /\ ~(j > j) /\ j >= j  BY <1>2
  <2>2. j \in p <=> j \in BuddyOf(b, k, j)  BY <1>11, <2>1, InPages
  <2>3. \A i \in Bits : i > j => i # j /\ i >= j  BY <1>3, <2>1
  <2>4. \A i \in Bits : i > j => (i \in p <=> i \in BuddyOf(b, k, j))
    BY <1>11, <2>3, InPages
  <2> QED  BY <1>4, <2>1, <2>2, <2>3, <2>4
<1>12. ASSUME NEW p, p \in PagesOf(<<b, k>>), NEW j \in k..(m - 1),
              p \in PagesOf(<<BuddyOf(b, k, j), j>>)
       PROVE  FALSE
  BY <1>2, <1>11, <1>12, InPages
<1>13. ASSUME NEW p, NEW i \in k..(m - 1), NEW j \in k..(m - 1), i < j,
              p \in PagesOf(<<BuddyOf(b, k, i), i>>), p \in PagesOf(<<BuddyOf(b, k, j), j>>)
       PROVE  FALSE
  BY <1>2, <1>11, <1>13
<1>14. ASSUME NEW d \in Parts(b, k, m), NEW e \in Parts(b, k, m), d # e,
              NEW p \in PagesOf(d), p \in PagesOf(e)
       PROVE  FALSE
  <2>1. CASE d = <<b, k>>  BY <1>12, <1>14, <2>1 DEF Parts
  <2>2. CASE e = <<b, k>>  BY <1>12, <1>14, <2>2 DEF Parts
  <2>3. CASE d # <<b, k>> /\ e # <<b, k>>
    <3>1. PICK i \in k..(m - 1) : d = <<BuddyOf(b, k, i), i>>  BY <2>3 DEF Parts
    <3>2. PICK j \in k..(m - 1) : e = <<BuddyOf(b, k, j), j>>  BY <2>3 DEF Parts
    <3>3. i # j  BY <1>14, <3>1, <3>2
    <3>4. i < j \/ j < i  BY <1>2, <3>3
    <3> QED  BY <1>13, <1>14, <3>1, <3>2, <3>4
  <2> QED  BY <2>1, <2>2, <2>3
<1>15. \A d, e \in Parts(b, k, m) : d # e => PagesOf(d) \cap PagesOf(e) = {}
  BY <1>14
<1> QED  BY <1>6, <1>7, <1>8, <1>9, <1>10, <1>15

(* Replacing some blocks by others on the same pages.                       *)
LEMMA Replace ==
  ASSUME NEW D, Tiles(D), NEW A \in SUBSET D, NEW B \in SUBSET (Blocks \X Orders),
         \A p \in Blocks : (\E d \in A : p \in PagesOf(d)) <=> (\E d \in B : p \in PagesOf(d)),
         \A d, e \in B : d # e => PagesOf(d) \cap PagesOf(e) = {},
         \A d \in B : Aligned(d)
  PROVE  Tiles((D \ A) \cup B)
<1> DEFINE E == (D \ A) \cup B
<1>1. E \subseteq Blocks \X Orders /\ \A d \in E : Aligned(d)  BY DEF Tiles
<1>2. \A p \in Blocks : \E d \in E : p \in PagesOf(d)
  <2>1. SUFFICES ASSUME NEW p \in Blocks PROVE \E d \in E : p \in PagesOf(d)
    OBVIOUS
  <2>2. PICK d \in D : p \in PagesOf(d)  BY DEF Tiles
  <2>3. CASE d \in A  BY <2>2, <2>3
  <2>4. CASE d \notin A  BY <2>2, <2>4
  <2> QED  BY <2>3, <2>4
<1>3. ASSUME NEW d \in D \ A, NEW e \in B, NEW p \in PagesOf(d), p \in PagesOf(e) PROVE FALSE
  <2>1. p \in Blocks  BY <1>3 DEF PagesOf
  <2>2. PICK a \in A : p \in PagesOf(a)  BY <1>3, <2>1
  <2> QED  BY <1>3, <2>2 DEF Tiles
<1>4. \A d, e \in E : d # e => PagesOf(d) \cap PagesOf(e) = {}
  BY <1>3 DEF Tiles
<1> QED  BY <1>1, <1>2, <1>4 DEF Tiles

LEMMA OwnPage ==
  ASSUME NEW d \in Blocks \X Orders
  PROVE  d[1] \in PagesOf(d)
BY DEF PagesOf

(* The block on whose pages another block starts is that block.             *)
LEMMA SameBlock ==
  ASSUME NEW D, Tiles(D), NEW d \in D, NEW e \in D, d[1] \in PagesOf(e)
  PROVE  d = e
<1>1. d \in Blocks \X Orders  BY DEF Tiles
<1>2. d[1] \in PagesOf(d)  BY <1>1, OwnPage
<1> QED  BY <1>2 DEF Tiles
-----------------------------------------------------------------------------
(* The free lists.                                                          *)

NoDups == \A j \in Orders : NoDuplicates(free[j])

LEMMA PlusIsBuddy ==
  ASSUME NEW b \in Blocks, NEW k \in Orders, NEW m \in Orders, m >= k, Aligned(<<b, m>>)
  PROVE  /\ Aligned(<<b, k>>) /\ Clear(b, k, m) = b
         /\ \A j \in k..(m - 1) : Plus(b, j) = BuddyOf(b, k, j) /\ j \notin b
<1>1. /\ k \in Nat /\ m \in Nat /\ m <= MaxOrder
      /\ \A i \in Bits : i \in Nat
      /\ \A i \in b : i \in Bits /\ i >= m
  BY DEF Orders, Bits, Blocks, Aligned
<1>2. Aligned(<<b, k>>) /\ Clear(b, k, m) = b  BY <1>1 DEF Aligned, Clear
<1>3. ASSUME NEW j \in k..(m - 1) PROVE Plus(b, j) = BuddyOf(b, k, j) /\ j \notin b
  <2>1. j \in Bits /\ j \in Nat /\ j >= k /\ j < m  BY <1>1 DEF Bits
  <2>2. j \notin b  BY <1>1, <2>1
  <2>3. /\ BuddyOf(b, k, j) \in Blocks
        /\ \A i \in Bits : i \in BuddyOf(b, k, j) <=> \/ i > j /\ i \in b
                                                      \/ i = j /\ i \notin b
    BY <1>2, <2>1, BuddyBits DEF Aligned
  <2>4. ASSUME NEW i \in Bits PROVE i \in Plus(b, j) <=> i \in BuddyOf(b, k, j)
    <3>1. i \in Plus(b, j) <=> ~(i \in b <=> (i >= j /\ \A x \in j..(i - 1) : x \in b))
      BY DEF Plus
    <3>2. CASE i < j
      <4>1. ~(i >= j) /\ ~(i > j) /\ i # j /\ i \notin b  BY <1>1, <2>1, <3>2
      <4> QED  BY <2>3, <3>1, <4>1
    <3>3. CASE i = j
      <4>1. i >= j /\ \A x \in j..(i - 1) : FALSE  BY <1>1, <2>1, <3>3
      <4> QED  BY <2>2, <2>3, <3>1, <3>3, <4>1
    <3>4. CASE i > j
      <4>1. j \in j..(i - 1) /\ i # j  BY <1>1, <2>1, <3>4
      <4> QED  BY <2>2, <2>3, <3>1, <3>4, <4>1
    <3>5. i \in Nat /\ j \in Nat  BY <1>1, <2>1
    <3>6. i < j \/ i = j \/ i > j  BY <3>5
    <3> QED  BY <3>2, <3>3, <3>4, <3>6
  <2>5. Plus(b, j) \in Blocks  BY DEF Plus, Blocks
  <2> QED  BY <2>2, <2>3, <2>4, <2>5 DEF Blocks
<1> QED  BY <1>2, <1>3

LEMMA SplitLists ==
  ASSUME TypeOK, NoDups, NEW k \in Orders, NEW m \in Orders, Source(k, m),
         NEW b, b = Head(free[m])
  PROVE  /\ b \in Blocks /\ Contains(free[m], b)
         /\ Split(k, m, b) \in [Orders -> Seq(Blocks)]
         /\ \A j \in Orders :
              /\ NoDuplicates(Split(k, m, b)[j])
              /\ \A c : Contains(Split(k, m, b)[j], c) <=>
                          IF k <= j /\ j < m THEN c = Plus(b, j)
                          ELSE Contains(free[j], c) /\ ~(j = m /\ c = b)
<1>1. free[m] \in Seq(Blocks) /\ free[m] # <<>> /\ NoDuplicates(free[m])
  BY DEF TypeOK, NoDups, Source
<1>2. /\ Len(free[m]) \in Nat \ {0} /\ free[m][1] \in Blocks /\ b = free[m][1]
      /\ QRest(free[m]) = Tail(free[m])
  BY <1>1, PopProperties DEF QRest
<1>3. b \in Blocks /\ Contains(free[m], b)
  <2>1. 1 \in 1..Len(free[m])  BY <1>2
  <2> QED  BY <1>2, <2>1 DEF Contains
<1>4. ASSUME NEW j \in Orders
      PROVE  /\ Split(k, m, b)[j] \in Seq(Blocks) /\ NoDuplicates(Split(k, m, b)[j])
             /\ \A c : Contains(Split(k, m, b)[j], c) <=>
                          IF k <= j /\ j < m THEN c = Plus(b, j)
                          ELSE Contains(free[j], c) /\ ~(j = m /\ c = b)
  <2>1. free[j] \in Seq(Blocks) /\ NoDuplicates(free[j])  BY DEF TypeOK, NoDups
  <2>2. CASE k <= j /\ j < m
    <3>1. free[j] = <<>> /\ Split(k, m, b)[j] = <<Plus(b, j)>> \o free[j]
      BY <2>2 DEF Source, Split
    <3>2. Len(free[j]) = 0  BY <3>1, EmptySeq
    <3>3. \A c : ~Contains(free[j], c)
      <4>1. ~ \E i \in 1..Len(free[j]) : TRUE  BY <3>2
      <4> QED  BY <4>1 DEF Contains
    <3>4. Plus(b, j) \in Blocks  BY DEF Plus, Blocks
    <3> DEFINE r == <<Plus(b, j)>> \o free[j]
    <3>5. /\ r \in Seq(Blocks) /\ NoDuplicates(r)
          /\ \A c : Contains(r, c) <=> Contains(free[j], c) \/ c = Plus(b, j)
      BY <2>1, <3>3, <3>4, ConsContains
    <3>6. Split(k, m, b)[j] = r  BY <3>1
    <3> HIDE DEF r
    <3> QED  BY <2>2, <3>3, <3>5, <3>6
  <2>3. CASE j = m
    <3>1. j \in Nat  BY DEF Orders
    <3>2. ~(j < m) /\ Split(k, m, b)[j] = QRest(free[m])  BY <1>2, <2>3, <3>1 DEF Split
    <3>3. QRest(free[m]) \in Seq(Blocks) /\ NoDuplicates(QRest(free[m]))
      BY <1>1, PopProperties, PopNoDuplicates
    <3>4. \A c : Contains(QRest(free[m]), c) <=> Contains(free[m], c) /\ c # b
      BY <1>1, <1>2, PopContains
    <3> QED  BY <2>3, <3>2, <3>3, <3>4
  <2>4. CASE ~(k <= j /\ j < m) /\ j # m
    BY <2>1, <2>4 DEF Split
  <2> QED  BY <2>2, <2>3, <2>4
<1>5. Split(k, m, b) \in [Orders -> Seq(Blocks)]
  <2> DEFINE f(j) == IF k <= j /\ j < m THEN <<Plus(b, j)>> \o free[j]
                     ELSE IF j = m THEN Tail(free[m]) ELSE free[j]
  <2>1. Split(k, m, b) = [j \in Orders |-> f(j)]  BY DEF Split
  <2> HIDE DEF f
  <2>2. \A j \in Orders : f(j) \in Seq(Blocks)  BY <1>4, <2>1
  <2> QED  BY <2>1, <2>2
<1> QED  BY <1>3, <1>4, <1>5

LEMMA MergeLists ==
  ASSUME TypeOK, NoDups, NEW b \in Blocks, NEW k \in Orders, NEW m \in Orders, merge(b, k, m),
         Clear(b, k, m) \in Blocks, ~Contains(free[m], Clear(b, k, m))
  PROVE  /\ free' \in [Orders -> Seq(Blocks)]
         /\ \A j \in Orders :
              /\ NoDuplicates(free'[j])
              /\ \A c : Contains(free'[j], c) <=>
                          IF k <= j /\ j < m THEN Contains(free[j], c) /\ c # BuddyOf(b, k, j)
                          ELSE Contains(free[j], c) \/ (j = m /\ c = Clear(b, k, m))
<1> DEFINE f(j) == IF k <= j /\ j < m THEN Without(free[j], BuddyOf(b, k, j))
                   ELSE IF j = m THEN <<Clear(b, k, m)>> \o free[m] ELSE free[j]
<1>1. free' = [j \in Orders |-> f(j)]  BY DEF merge
<1>2. ASSUME NEW j \in Orders
      PROVE  /\ f(j) \in Seq(Blocks) /\ NoDuplicates(f(j))
             /\ \A c : Contains(f(j), c) <=>
                          IF k <= j /\ j < m THEN Contains(free[j], c) /\ c # BuddyOf(b, k, j)
                          ELSE Contains(free[j], c) \/ (j = m /\ c = Clear(b, k, m))
  <2>1. free[j] \in Seq(Blocks) /\ NoDuplicates(free[j])  BY DEF TypeOK, NoDups
  <2>2. CASE k <= j /\ j < m
    BY <2>1, <2>2, WithoutContains
  <2>3. CASE j = m
    <3>1. j \in Nat  BY DEF Orders
    <3>2. ~(j < m) /\ f(j) = <<Clear(b, k, m)>> \o free[j]  BY <2>3, <3>1
    <3> HIDE DEF f
    <3> QED  BY <2>1, <2>3, <3>2, ConsContains
  <2>4. CASE ~(k <= j /\ j < m) /\ j # m
    BY <2>1, <2>4
  <2> QED  BY <2>2, <2>3, <2>4
<1> HIDE DEF f
<1>3. \A j \in Orders : free'[j] = f(j)  BY <1>1
<1>4. free' \in [Orders -> Seq(Blocks)]  BY <1>1, <1>2
<1> QED  BY <1>2, <1>3, <1>4
-----------------------------------------------------------------------------
(* The invariant.                                                           *)

Inv == TypeOK /\ Partition /\ HeadersRight /\ Coalesced

LEMMA ListedIn ==
  ASSUME NEW c, NEW j
  PROVE  <<c, j>> \in Listed <=> c \in Blocks /\ j \in Orders /\ Contains(free[j], c)
BY DEF Listed

LEMMA InvTiles ==
  ASSUME Inv
  PROVE  Tiles(Listed \cup held) /\ NoDups
BY DEF Inv, Partition, HeadersRight, TypeOK, Tiles, Aligned, NoDups, Listed

(* The answers that the calls leave behind.                                 *)
Answers == (0..(MaxOrder + 1)) \X {"none", "block", "NULL", "NULL + BUDDY_HEADER_OFFSET"}

LEMMA AnswersGiven ==
  /\ <<0, "none">> \in Answers
  /\ \A k \in 0..(MaxOrder + 1) :
       /\ <<k, "block">> \in Answers /\ <<k, "NULL">> \in Answers
       /\ <<k, "NULL + BUDDY_HEADER_OFFSET">> \in Answers
<1>1. 0 \in 0..(MaxOrder + 1)  OBVIOUS
<1> QED  BY <1>1 DEF Answers

LEMMA BuddyInit == buddy_init => Inv
<1> SUFFICES ASSUME buddy_init PROVE Inv
  OBVIOUS
<1>1. MaxOrder \in Orders /\ {} \in Blocks /\ \A j \in Bits : ~(j >= MaxOrder)
  BY DEF Orders, Blocks, Bits
<1>2. TypeOK
  <2>1. <<{}>> \in Seq(Blocks) /\ <<>> \in Seq(Blocks)  BY <1>1
  <2>2. ret \in Answers  BY AnswersGiven DEF buddy_init
  <2> QED  BY <1>1, <2>1, <2>2 DEF buddy_init, TypeOK, Answers
<1>3. \A j \in Orders : /\ NoDuplicates(free[j])
                        /\ \A c : Contains(free[j], c) <=> j = MaxOrder /\ c = {}
  <2>1. ASSUME NEW j \in Orders
        PROVE  /\ NoDuplicates(free[j])
               /\ \A c : Contains(free[j], c) <=> j = MaxOrder /\ c = {}
    <3>1. CASE j = MaxOrder
      <4>1. free[j] = <<{}>>  BY <3>1 DEF buddy_init
      <4>2. Len(<<{}>>) = 1 /\ <<{}>>[1] = {} /\ \A i \in 1..1 : i = 1  OBVIOUS
      <4> QED  BY <3>1, <4>1, <4>2 DEF NoDuplicates, Contains
    <3>2. CASE j # MaxOrder
      <4>1. free[j] = <<>>  BY <3>2 DEF buddy_init
      <4>2. Len(<<>>) = 0 /\ ~ \E i \in 1..0 : TRUE  OBVIOUS
      <4> QED  BY <3>2, <4>1, <4>2 DEF NoDuplicates, Contains
    <3> QED  BY <3>1, <3>2
  <2> QED  BY <2>1
<1>4. Listed = {<<{}, MaxOrder>>} /\ held = {}
  <2>1. held = {}  BY DEF buddy_init
  <2>2. \A c, j : <<c, j>> \in Listed <=> <<c, j>> = <<{}, MaxOrder>>
    BY <1>1, <1>3, ListedIn
  <2>3. Listed \subseteq Blocks \X Orders  BY DEF Listed
  <2> QED  BY <1>1, <2>1, <2>2, <2>3
<1>5. \A p \in Blocks : p \in PagesOf(<<{}, MaxOrder>>)  BY <1>1, InPages
<1>6. Partition  BY <1>3, <1>4, <1>5 DEF Partition
<1>7. HeadersRight  BY <1>1, <1>4 DEF HeadersRight, buddy_init
<1>8. Coalesced
  <2>1. ~(MaxOrder < MaxOrder)  OBVIOUS
  <2> QED  BY <1>4, <2>1 DEF Coalesced
<1> QED  BY <1>2, <1>6, <1>7, <1>8 DEF Inv

(***************************************************************************)
(* buddy_allocate with a block b of order m: b, cut to order k, leaves the  *)
(* lists, and its parts of the orders between enter them.                   *)
(***************************************************************************)
LEMMA AllocateKeeps ==
  ASSUME Inv, NEW k \in Orders, NEW m \in Orders, Source(k, m), NEW b, b = Head(free[m]),
         free' = Split(k, m, b),
         order' = Headers(k, m, b), held' = held \cup {<<b, k>>}, ret' = <<k, "block">>
  PROVE  /\ Inv' /\ b \in Blocks
         /\ \A h \in held : PagesOf(<<b, k>>) \cap PagesOf(h) = {}
<1> DEFINE D == Listed \cup held
           P == Parts(b, k, m)
<1>1. TypeOK /\ NoDups /\ Tiles(D) /\ Listed \cap held = {}
  BY InvTiles DEF Inv, Partition
<1>2. k \in Nat /\ m \in Nat /\ m >= k /\ m <= MaxOrder  BY DEF Source, Orders
<1>3. /\ b \in Blocks /\ Contains(free[m], b)
      /\ free' \in [Orders -> Seq(Blocks)]
      /\ \A j \in Orders :
           /\ NoDuplicates(free'[j])
           /\ \A c : Contains(free'[j], c) <=> IF k <= j /\ j < m THEN c = Plus(b, j)
                                               ELSE Contains(free[j], c) /\ ~(j = m /\ c = b)
  BY <1>1, SplitLists
<1>4. <<b, m>> \in Listed /\ <<b, m>> \in D  BY <1>3, ListedIn
<1>5. Aligned(<<b, m>>)  BY <1>1, <1>4 DEF Tiles
<1>6. /\ Aligned(<<b, k>>) /\ Clear(b, k, m) = b
      /\ \A j \in k..(m - 1) : Plus(b, j) = BuddyOf(b, k, j) /\ j \notin b
  BY <1>2, <1>3, <1>5, PlusIsBuddy
<1>7. /\ P \subseteq Blocks \X Orders
      /\ \A p \in Blocks : p \in PagesOf(<<b, m>>) <=> \E d \in P : p \in PagesOf(d)
      /\ \A d, e \in P : d # e => PagesOf(d) \cap PagesOf(e) = {}
      /\ \A d \in P : Aligned(d)
  BY <1>2, <1>3, <1>6, PartsTile
<1>8. \A j \in Orders : j \in k..(m - 1) <=> k <= j /\ j < m
  BY <1>2 DEF Orders
<1>9. \A j \in k..(m - 1) : j \in Orders  BY <1>2 DEF Orders
<1>10. P = {<<b, k>>} \cup {<<Plus(b, j), j>> : j \in k..(m - 1)}
  BY <1>6 DEF Parts
<1>11. \A c, j : <<c, j>> \in Listed' <=> /\ c \in Blocks /\ j \in Orders
                                           /\ Contains(free'[j], c)
  BY DEF Listed
<1>12. Listed' \subseteq Blocks \X Orders /\ Listed \subseteq Blocks \X Orders
  BY DEF Listed
<1>13. Listed' = (Listed \ {<<b, m>>}) \cup {<<Plus(b, j), j>> : j \in k..(m - 1)}
  <2>1. ASSUME NEW c \in Blocks, NEW j \in Orders
        PROVE  <<c, j>> \in Listed' <=>
                 <<c, j>> \in (Listed \ {<<b, m>>}) \cup {<<Plus(b, i), i>> : i \in k..(m - 1)}
    <3>1. CASE k <= j /\ j < m
      <4>1. <<c, j>> \in Listed' <=> c = Plus(b, j)  BY <1>3, <1>11, <3>1
      <4>2. <<c, j>> \notin Listed
        <5>1. free[j] = <<>>  BY <3>1 DEF Source
        <5>2. ~ \E i \in 1..Len(<<>>) : TRUE  BY EmptySeq
        <5>3. ~Contains(free[j], c)  BY <5>1, <5>2 DEF Contains
        <5> QED  BY <5>3, ListedIn
      <4>3. j \in k..(m - 1)  BY <1>8, <3>1
      <4> QED  BY <4>1, <4>2, <4>3
    <3>2. CASE ~(k <= j /\ j < m)
      <4>1. <<c, j>> \in Listed' <=> <<c, j>> \in Listed /\ <<c, j>> # <<b, m>>
        BY <1>3, <1>11, <3>2, ListedIn
      <4>2. j \notin k..(m - 1)  BY <1>8, <3>2
      <4> QED  BY <4>1, <4>2
    <3> QED  BY <3>1, <3>2
  <2>2. {<<Plus(b, i), i>> : i \in k..(m - 1)} \subseteq Blocks \X Orders
    BY <1>7, <1>10
  <2> QED  BY <1>12, <2>1, <2>2
<1>14. Listed' \cup held' = (D \ {<<b, m>>}) \cup P
  <2>1. <<b, m>> \notin held  BY <1>1, <1>4
  <2> QED  BY <1>10, <1>13, <2>1
<1>15. Tiles(Listed' \cup held')
  <2> DEFINE A == {<<b, m>>}
  <2>1. A \in SUBSET D /\ P \in SUBSET (Blocks \X Orders)  BY <1>4, <1>7
  <2>2. \A p \in Blocks : (\E d \in A : p \in PagesOf(d)) <=> \E d \in P : p \in PagesOf(d)
    BY <1>7
  <2>3. Listed' \cup held' = (D \ A) \cup P  BY <1>14
  <2> HIDE DEF A, D, P
  <2>4. Tiles((D \ A) \cup P)  BY <1>1, <1>7, <2>1, <2>2, Replace
  <2> QED  BY <2>3, <2>4
<1>16. ASSUME NEW d \in D, d # <<b, m>>, NEW p \in PagesOf(d) PROVE p \notin PagesOf(<<b, m>>)
  BY <1>1, <1>4, <1>16 DEF Tiles
<1>17. \A d \in P : \A p \in PagesOf(d) : p \in PagesOf(<<b, m>>)
  <2>1. \A d \in P : \A p \in PagesOf(d) : p \in Blocks  BY DEF PagesOf
  <2> QED  BY <1>7, <2>1
<1>18. \A d \in P : d[1] \in PagesOf(<<b, m>>)  BY <1>7, <1>17, OwnPage
<1>19. ASSUME NEW d \in D, d # <<b, m>>
       PROVE  d[1] # b /\ \A j \in k..(m - 1) : d[1] # Plus(b, j)
  <2>1. d \in Blocks \X Orders  BY <1>1, <1>19 DEF Tiles
  <2>2. d[1] \notin PagesOf(<<b, m>>)  BY <1>16, <1>19, <2>1, OwnPage
  <2>3. <<b, k>> \in P /\ \A j \in k..(m - 1) : <<Plus(b, j), j>> \in P  BY <1>10
  <2>4. b \in PagesOf(<<b, m>>) /\ \A j \in k..(m - 1) : Plus(b, j) \in PagesOf(<<b, m>>)
    <3> HIDE DEF P
    <3> QED  BY <1>18, <2>3
  <2> QED  BY <2>2, <2>4
<1>20. \A j \in k..(m - 1) : j \in Plus(b, j) /\ Plus(b, j) # b
                             /\ \A i \in k..(m - 1) : Plus(b, j) = Plus(b, i) => i = j
  <2>1. ASSUME NEW j \in k..(m - 1)
        PROVE  \A i \in Bits : i \in Plus(b, j) <=> i = j \/ (i > j /\ i \in b)
    <3>1. j \in Bits /\ j >= k  BY <1>2 DEF Bits
    <3>2. \A i \in b : i >= k  BY <1>6 DEF Aligned
    <3>3. \A i \in Bits : i \in BuddyOf(b, k, j) <=> (i > j /\ i \in b) \/ (i = j /\ i \notin b)
      BY <1>3, <3>1, <3>2, BuddyBits
    <3>4. Plus(b, j) = BuddyOf(b, k, j) /\ j \notin b  BY <1>6
    <3> QED  BY <3>3, <3>4
  <2>2. \A j \in k..(m - 1) : j \in Bits  BY <1>2 DEF Bits
  <2>3. \A j \in k..(m - 1) : j \in Plus(b, j)  BY <2>1, <2>2
  <2>4. \A i, j \in k..(m - 1) : Plus(b, j) = Plus(b, i) => i = j
    BY <1>6, <2>1, <2>2, <2>3
  <2> QED  BY <1>6, <2>3, <2>4
<1>21. Listed' \cap held' = {}
  <2>1. <<b, k>> \notin Listed'
    BY <1>13, <1>20, <1>19
  <2>2. ASSUME NEW h \in held PROVE h \notin Listed'
    <3>1. h \notin Listed /\ h \in D /\ h # <<b, m>>  BY <1>1, <1>4, <2>2
    <3>2. \A j \in k..(m - 1) : h # <<Plus(b, j), j>>  BY <1>19, <3>1
    <3> QED  BY <1>13, <3>1, <3>2
  <2> QED  BY <2>1, <2>2
<1>22. TypeOK'
  <2>1. order' \in [Blocks -> Orders]
    <3>1. \A c \in Blocks : (\E j \in k..(m - 1) : c = Plus(b, j))
             => (CHOOSE j \in k..(m - 1) : c = Plus(b, j)) \in Orders
      BY <1>9
    <3> QED  BY <1>1, <3>1 DEF TypeOK, Headers
  <2>2. held' \subseteq Blocks \X Orders
    <3>1. held \subseteq Blocks \X Orders  BY <1>1 DEF TypeOK
    <3>2. <<b, k>> \in Blocks \X Orders  BY <1>3
    <3> QED  BY <3>1, <3>2
  <2>3. ret' \in Answers
    <3>1. k \in 0..(MaxOrder + 1)  BY DEF Orders
    <3> QED  BY <3>1, AnswersGiven
  <2> QED  BY <1>3, <2>1, <2>2, <2>3 DEF TypeOK, Answers
<1>23. Partition'  BY <1>3, <1>15, <1>21 DEF Partition, Tiles
<1>24. HeadersRight'
  <2>1. \A d \in Listed' \cup held' : \A j \in d[1] : j >= d[2]
    BY <1>15 DEF Tiles, Aligned
  <2>2. ASSUME NEW d \in Listed' \cup held' PROVE order'[d[1]] = d[2]
    <3>1. CASE d \in D /\ d # <<b, m>>
      <4>1. d[1] \in Blocks /\ order[d[1]] = d[2]
        BY <1>1, <3>1 DEF Inv, HeadersRight, Tiles
      <4> QED  BY <1>19, <3>1, <4>1 DEF Headers
    <3>2. CASE d = <<b, k>>  BY <1>3, <3>2 DEF Headers
    <3>3. ASSUME NEW j \in k..(m - 1), d = <<Plus(b, j), j>> PROVE order'[d[1]] = d[2]
      <4>1. Plus(b, j) \in Blocks  BY DEF Plus, Blocks
      <4>2. (CHOOSE i \in k..(m - 1) : Plus(b, j) = Plus(b, i)) = j  BY <1>20
      <4> QED  BY <1>20, <3>3, <4>1, <4>2 DEF Headers
    <3> QED  BY <1>10, <1>14, <3>1, <3>2, <3>3
  <2> QED  BY <2>1, <2>2 DEF HeadersRight
<1>25. Coalesced'
  <2>1. SUFFICES ASSUME NEW c \in Blocks, NEW j \in Orders, <<c, j>> \in Listed', j < MaxOrder
                 PROVE  ~Contains(free'[j], Flip(c, j))
    BY <1>12 DEF Coalesced
  <2>2. CASE k <= j /\ j < m
    <3>1. c = Plus(b, j)  BY <1>3, <1>11, <2>1, <2>2
    <3>2. j \in Plus(b, j)  BY <1>8, <1>20, <2>2
    <3>3. Flip(c, j) # c  BY <3>1, <3>2 DEF Flip
    <3> QED  BY <1>3, <2>2, <3>1, <3>3
  <2>3. CASE ~(k <= j /\ j < m)
    <3>1. Contains(free[j], c)  BY <1>3, <1>11, <2>1, <2>3
    <3>2. <<c, j>> \in Listed  BY <3>1, ListedIn
    <3>3. ~Contains(free[j], Flip(c, j))  BY <2>1, <3>2 DEF Inv, Coalesced
    <3> QED  BY <1>3, <2>3, <3>3
  <2> QED  BY <2>2, <2>3
<1>26. \A h \in held : PagesOf(<<b, k>>) \cap PagesOf(h) = {}
  <2>1. <<b, k>> \in P  BY <1>10
  <2>2. \A h \in held : h \in D /\ h # <<b, m>>  BY <1>1, <1>4
  <2> QED  BY <1>16, <1>17, <2>1, <2>2
<1> QED  BY <1>3, <1>22, <1>23, <1>24, <1>25, <1>26 DEF Inv

(***************************************************************************)
(* buddy_free: the held block b of order k and the buddies that merge has   *)
(* found on the lists become one block of order m.                          *)
(***************************************************************************)
LEMMA MergeKeeps ==
  ASSUME Inv, NEW b \in Blocks, NEW k \in Orders, NEW m \in Orders, <<b, k>> \in held,
         merge(b, k, m), held' = held \ {<<b, k>>}, ret' = <<0, "none">>
  PROVE  Inv'
<1> DEFINE D == Listed \cup held
           P == Parts(b, k, m)
           c == Clear(b, k, m)
<1>1. TypeOK /\ NoDups /\ Tiles(D) /\ Listed \cap held = {} /\ <<b, k>> \in D
  BY InvTiles DEF Inv, Partition
<1>2. k \in Nat /\ m \in Nat /\ m >= k /\ m <= MaxOrder  BY DEF merge, Orders
<1>3. Aligned(<<b, k>>) /\ \A i \in b : i >= k  BY <1>1 DEF Tiles, Aligned
<1>4. c \in Blocks  BY <1>2, <1>3, ClearBits
<1>5. /\ P \in SUBSET (Blocks \X Orders)
      /\ \A p \in Blocks : p \in PagesOf(<<c, m>>) <=> \E d \in P : p \in PagesOf(d)
      /\ \A d \in P : Aligned(d)
      /\ Aligned(<<c, m>>)
  BY <1>2, <1>3, PartsTile
<1>6. \A j \in k..(m - 1) : j \in Orders /\ k <= j /\ j < m  BY <1>2 DEF Orders
<1>7. \A j \in k..(m - 1) : <<BuddyOf(b, k, j), j>> \in Listed
  <2>1. ASSUME NEW j \in k..(m - 1) PROVE <<BuddyOf(b, k, j), j>> \in Listed
    <3>1. <<BuddyOf(b, k, j), j>> \in P  BY DEF Parts
    <3>2. BuddyOf(b, k, j) \in Blocks  BY <1>5, <3>1
    <3>3. Contains(free[j], BuddyOf(b, k, j))  BY <1>6 DEF merge, Merges
    <3> QED  BY <1>6, <3>2, <3>3, ListedIn
  <2> QED  BY <2>1
<1>8. P \in SUBSET D  BY <1>1, <1>7 DEF Parts
<1>9. ASSUME NEW d \in D, NEW p \in PagesOf(d), p \in PagesOf(<<c, m>>) PROVE d \in P
  <2>1. p \in Blocks  BY DEF PagesOf
  <2> HIDE DEF D, P, c
  <2>2. PICK e \in P : p \in PagesOf(e)  BY <1>5, <1>9, <2>1
  <2> QED  BY <1>1, <1>8, <1>9, <2>2 DEF Tiles
<1>10. <<c, m>> \notin Listed
  <2>1. SUFFICES ASSUME <<c, m>> \in Listed PROVE FALSE
    OBVIOUS
  <2>2. <<b, k>> \in P /\ b \in PagesOf(<<b, k>>)  BY OwnPage DEF Parts
  <2>3. b \in PagesOf(<<c, m>>)  BY <1>5, <2>2
  <2>4. <<b, k>> = <<c, m>>
    <3>1. <<c, m>> \in D  BY <2>1
    <3> HIDE DEF D, c
    <3> QED  BY <1>1, <2>2, <2>3, <3>1 DEF Tiles
  <2> QED  BY <1>1, <2>1, <2>4
<1>11. /\ free' \in [Orders -> Seq(Blocks)]
       /\ \A j \in Orders :
            /\ NoDuplicates(free'[j])
            /\ \A x : Contains(free'[j], x) <=>
                        IF k <= j /\ j < m THEN Contains(free[j], x) /\ x # BuddyOf(b, k, j)
                        ELSE Contains(free[j], x) \/ (j = m /\ x = c)
  <2>1. ~Contains(free[m], c)  BY <1>4, <1>10, ListedIn
  <2> QED  BY <1>1, <1>4, <2>1, MergeLists
<1>12. Listed' \subseteq Blocks \X Orders /\ Listed \subseteq Blocks \X Orders
  BY DEF Listed
<1>13. \A x, j : <<x, j>> \in Listed' <=> x \in Blocks /\ j \in Orders /\ Contains(free'[j], x)
  BY DEF Listed
<1>14. Listed' = (Listed \ P) \cup {<<c, m>>}
  <2>1. ASSUME NEW x \in Blocks, NEW j \in Orders
        PROVE  <<x, j>> \in Listed' <=> <<x, j>> \in (Listed \ P) \cup {<<c, m>>}
    <3> HIDE DEF c
    <3>1. j \in Nat /\ <<b, k>> \notin Listed  BY <1>1 DEF Orders
    <3>2. CASE k <= j /\ j < m
      <4>1. j \in k..(m - 1) /\ j # m  BY <1>2, <3>1, <3>2
      <4>2. <<x, j>> \in Listed => (<<x, j>> \in P <=> x = BuddyOf(b, k, j))
        BY <3>1, <4>1 DEF Parts
      <4>3. <<x, j>> \in Listed' <=> <<x, j>> \in Listed /\ x # BuddyOf(b, k, j)
        BY <1>11, <1>13, <3>2, ListedIn
      <4> HIDE DEF P
      <4> QED  BY <4>1, <4>2, <4>3
    <3>3. CASE ~(k <= j /\ j < m)
      <4>1. j \notin k..(m - 1)  BY <1>2, <3>1, <3>3
      <4>2. <<x, j>> \in Listed => <<x, j>> \notin P  BY <3>1, <4>1 DEF Parts
      <4>3. <<x, j>> \in Listed' <=> <<x, j>> \in Listed \/ <<x, j>> = <<c, m>>
        BY <1>11, <1>13, <3>3, ListedIn
      <4> HIDE DEF P
      <4> QED  BY <4>2, <4>3
    <3> QED  BY <3>2, <3>3
  <2>2. <<c, m>> \in Blocks \X Orders  BY <1>4
  <2> HIDE DEF c, P
  <2> QED  BY <1>12, <2>1, <2>2
<1>15. Listed' \cup held' = (D \ P) \cup {<<c, m>>}
  <2>1. \A h \in held : h \in P <=> h = <<b, k>>
    <3>1. \A h \in held : h \notin Listed  BY <1>1
    <3> QED  BY <1>7, <3>1 DEF Parts
  <2> HIDE DEF c, P
  <2> QED  BY <1>14, <2>1
<1>16. Tiles(Listed' \cup held')
  <2> DEFINE B == {<<c, m>>}
  <2>1. B \in SUBSET (Blocks \X Orders)  BY <1>4
  <2>2. /\ \A p \in Blocks : (\E d \in P : p \in PagesOf(d)) <=> \E d \in B : p \in PagesOf(d)
        /\ \A d, e \in B : d # e => PagesOf(d) \cap PagesOf(e) = {}
        /\ \A d \in B : Aligned(d)
    BY <1>5
  <2>3. Listed' \cup held' = (D \ P) \cup B  BY <1>15
  <2> HIDE DEF B, D, P, c
  <2>4. Tiles((D \ P) \cup B)  BY <1>1, <1>8, <2>1, <2>2, Replace
  <2> QED  BY <2>3, <2>4
<1>17. Listed' \cap held' = {}
  <2>1. <<c, m>> \notin held'
    <3>1. SUFFICES ASSUME <<c, m>> \in held, <<c, m>> # <<b, k>> PROVE FALSE
      OBVIOUS
    <3>2. <<b, k>> \in P /\ b \in PagesOf(<<b, k>>)  BY OwnPage DEF Parts
    <3>3. b \in PagesOf(<<c, m>>)  BY <1>5, <3>2
    <3>4. <<c, m>> \in D  BY <3>1
    <3> HIDE DEF D, c
    <3> QED  BY <1>1, <3>1, <3>2, <3>3, <3>4 DEF Tiles
  <2> HIDE DEF c, P
  <2> QED  BY <1>1, <1>14, <2>1
<1>18. TypeOK'
  <2>1. order' \in [Blocks -> Orders]  BY <1>1, <1>4 DEF merge, TypeOK
  <2>2. held' \subseteq Blocks \X Orders  BY <1>1 DEF TypeOK
  <2>3. ret' \in Answers  BY AnswersGiven
  <2> QED  BY <1>1, <1>11, <2>1, <2>2, <2>3 DEF TypeOK, Answers
<1>19. Partition'  BY <1>11, <1>16, <1>17 DEF Partition, Tiles
<1>20. HeadersRight'
  <2>1. \A d \in Listed' \cup held' : \A j \in d[1] : j >= d[2]
    BY <1>16 DEF Tiles, Aligned
  <2>2. order' = [order EXCEPT ![c] = m] /\ order \in [Blocks -> Orders]
    BY <1>1 DEF merge, TypeOK
  <2>3. ASSUME NEW d \in D, d \notin P PROVE order'[d[1]] = d[2]
    <3>1. d \in Blocks \X Orders /\ d[1] \in PagesOf(d)  BY <1>1, OwnPage DEF Tiles
    <3>2. order[d[1]] = d[2]  BY DEF Inv, HeadersRight
    <3>3. d[1] # c
      <4>1. c \in PagesOf(<<c, m>>)  BY <1>4, InPages
      <4> HIDE DEF D, P, c
      <4> QED  BY <1>9, <2>3, <3>1, <4>1
    <3> HIDE DEF c
    <3> QED  BY <2>2, <3>1, <3>2, <3>3
  <2>4. order'[c] = m  BY <1>4, <2>2
  <2> HIDE DEF D, P, c
  <2> QED  BY <1>15, <2>1, <2>3, <2>4 DEF HeadersRight
<1>21. Coalesced'
  <2>1. SUFFICES ASSUME NEW x \in Blocks, NEW j \in Orders, <<x, j>> \in Listed', j < MaxOrder
                 PROVE  ~Contains(free'[j], Flip(x, j))
    BY <1>12 DEF Coalesced
  <2>2. \A y, i : <<y, i>> \in Listed /\ i < MaxOrder => ~Contains(free[i], Flip(y, i))
    BY <1>12 DEF Inv, Coalesced
  <2>3. CASE k <= j /\ j < m
    BY <1>11, <1>13, <2>1, <2>2, <2>3, ListedIn
  <2>4. CASE ~(k <= j /\ j < m) /\ j # m
    BY <1>11, <1>13, <2>1, <2>2, <2>4, ListedIn
  <2>5. CASE j = m
    <3>1. ~(j < m)  BY <1>2, <2>5
    <3>2. ~Contains(free[m], Flip(c, m))
      BY <2>1, <2>5 DEF merge, Merges, BuddyOf
    <3> HIDE DEF c
    <3>3. Flip(c, m) # c  BY DEF Flip
    <3>4. Flip(Flip(x, j), j) = x  BY DEF Flip
    <3>5. CASE x = c  BY <1>11, <2>5, <3>1, <3>2, <3>3, <3>5
    <3>6. CASE x # c
      <4>1. Contains(free[j], x)  BY <1>11, <1>13, <2>1, <2>5, <3>1, <3>6
      <4>2. ~Contains(free[j], Flip(x, j))  BY <2>1, <2>2, <4>1, ListedIn
      <4>3. Flip(x, j) # c  BY <2>5, <3>2, <3>4, <4>1
      <4> QED  BY <1>11, <2>5, <3>1, <4>2, <4>3
    <3> QED  BY <3>5, <3>6
  <2> QED  BY <2>3, <2>4, <2>5
<1> QED  BY <1>18, <1>19, <1>20, <1>21 DEF Inv
-----------------------------------------------------------------------------
(***************************************************************************)
(* A run of free pages never goes unseen: take a smallest free block in it; *)
(* the pages of its buddy are free as well, in a block that is no smaller   *)
(* and does not reach back, so in the buddy itself, against Coalesced.      *)
(***************************************************************************)
LEMMA NoRoom ==
  ASSUME Inv, NEW k \in Orders, \A m \in Orders : ~Source(k, m), NEW b \in Blocks
  PROVE  \E h \in held : PagesOf(<<b, k>>) \cap PagesOf(h) # {}
<1> DEFINE D == Listed \cup held
<1>1. TypeOK /\ Tiles(D)  BY InvTiles DEF Inv
<1>2. ASSUME NEW m \in Orders, m >= k PROVE free[m] = <<>>
  <2> DEFINE T == {i \in Orders : i >= k /\ free[i] # <<>>}
  <2>1. SUFFICES ASSUME T # {} PROVE FALSE
    BY <1>2
  <2>2. PICK i \in T : \A j \in T : i <= j
    <3>1. T \subseteq Nat  BY DEF Orders
    <3> HIDE DEF T
    <3> QED  BY <2>1, <3>1, LeastNat
  <2>3. \A j \in Orders : k <= j /\ j < i => free[j] = <<>>
    BY <2>2 DEF Orders
  <2> QED  BY <2>2, <2>3 DEF Source
<1>3. ASSUME NEW d \in Listed PROVE d[2] < k
  <2>1. d[1] \in Blocks /\ d[2] \in Orders /\ Contains(free[d[2]], d[1])  BY DEF Listed
  <2>2. free[d[2]] # <<>>
    <3>1. Len(<<>>) = 0 /\ ~ \E i \in 1..0 : TRUE  OBVIOUS
    <3> QED  BY <2>1, <3>1 DEF Contains
  <2>3. ~(d[2] >= k)  BY <1>2, <2>1, <2>2
  <2> QED  BY <2>1, <2>3 DEF Orders
<1>4. SUFFICES ASSUME \A p \in PagesOf(<<b, k>>) : \A h \in held : p \notin PagesOf(h)
               PROVE  FALSE
  OBVIOUS
<1>5. ASSUME NEW p \in PagesOf(<<b, k>>) PROVE \E d \in Listed : p \in PagesOf(d)
  <2>1. p \in Blocks  BY DEF PagesOf
  <2> QED  BY <1>1, <1>4, <2>1 DEF Tiles
<1> DEFINE In(d) == d[1] \in PagesOf(<<b, k>>)
           T == {d[2] : d \in {e \in Listed : In(e)}}
<1>6. ASSUME NEW p \in PagesOf(<<b, k>>), NEW d \in Listed, p \in PagesOf(d)
      PROVE  d[2] \in T
  <2>1. d[1] \in Blocks /\ d[2] \in Orders /\ d[2] < k  BY <1>3 DEF Listed
  <2>2. \A j \in Bits : j >= k => j >= d[2]  BY <2>1 DEF Bits, Orders
  <2>3. \A j \in Bits : j >= k => (j \in p <=> j \in d[1])
    BY <1>6, <2>2 DEF PagesOf
  <2>4. \A j \in Bits : j >= k => (j \in p <=> j \in b)  BY <1>6, InPages
  <2>5. d[1] \in PagesOf(<<b, k>>)  BY <2>1, <2>3, <2>4, InPages
  <2> QED  BY <2>5
<1>7. PICK i \in T : \A j \in T : i <= j
  <2>1. T \subseteq Nat
    <3>1. \A d \in Listed : d[2] \in Nat  BY DEF Listed, Orders
    <3> QED  BY <3>1
  <2>2. T # {}
    <3>1. b \in PagesOf(<<b, k>>)  BY InPages
    <3> HIDE DEF T
    <3> QED  BY <1>5, <1>6, <3>1
  <2> HIDE DEF T
  <2> QED  BY <2>1, <2>2, LeastNat
<1>8. PICK c \in Blocks : <<c, i>> \in Listed /\ c \in PagesOf(<<b, k>>)
  <2>1. PICK d \in Listed : In(d) /\ i = d[2]  BY <1>7
  <2>2. d[1] \in Blocks /\ d = <<d[1], i>>  BY <2>1 DEF Listed
  <2> QED  BY <2>1, <2>2
<1>9. i \in Nat /\ k \in Nat /\ i < k /\ k <= MaxOrder /\ i \in Bits /\ i \in Orders
  <2>1. i < k /\ i \in Orders  BY <1>3, <1>8 DEF Listed
  <2> QED  BY <2>1 DEF Orders, Bits
<1>10. \A j \in Bits : j \in Nat  BY DEF Bits
<1> DEFINE f == Flip(c, i)
<1>11. f \in Blocks /\ \A j \in Bits : j \in f <=> IF j = i THEN j \notin c ELSE j \in c
  BY <1>8, <1>9 DEF Flip, Blocks
<1> HIDE DEF f
<1>12. f \in PagesOf(<<b, k>>)
  <2>1. \A j \in Bits : j >= k => j # i  BY <1>9, <1>10
  <2>2. \A j \in Bits : j >= k => (j \in c <=> j \in b)  BY <1>8, InPages
  <2> QED  BY <1>11, <2>1, <2>2, InPages
<1>13. PICK d \in Listed : f \in PagesOf(d)  BY <1>5, <1>12
<1>14. d[1] \in Blocks /\ d[2] \in Orders /\ d = <<d[1], d[2]>> /\ Contains(free[d[2]], d[1])
  BY <1>13 DEF Listed
<1>15. d[2] \in Nat /\ i <= d[2]
  <2>1. d[2] \in T
    <3> HIDE DEF T
    <3> QED  BY <1>6, <1>12, <1>13
  <2> HIDE DEF T
  <2> QED  BY <1>7, <1>14, <2>1 DEF Orders
<1>16. \A j \in Bits : j >= d[2] => (j \in f <=> j \in d[1])
  BY <1>13 DEF PagesOf
<1>17. CASE d[2] = i
  <2>1. \A j \in d[1] : j >= i /\ j \in Bits
    BY <1>1, <1>13, <1>14, <1>17 DEF Tiles, Aligned, Blocks
  <2>2. \A j \in c : j >= i /\ j \in Bits
    BY <1>1, <1>8 DEF Tiles, Aligned, Blocks
  <2>3. \A j \in f : j >= i /\ j \in Bits
    <3>1. \A j \in f : j \in Bits  BY <1>11 DEF Blocks
    <3>2. ASSUME NEW j \in f PROVE j >= i
      <4>1. j \in Bits /\ (j = i \/ j \in c)  BY <1>11, <3>1
      <4> QED  BY <1>9, <2>2, <4>1
    <3> QED  BY <3>1, <3>2
  <2>4. d[1] = f  BY <1>16, <1>17, <2>1, <2>3
  <2>5. i < MaxOrder  BY <1>9
  <2> QED  BY <1>8, <1>14, <1>17, <2>4, <2>5 DEF Inv, Coalesced, f
<1>18. CASE d[2] # i
  <2>1. \A j \in Bits : j >= d[2] => j # i  BY <1>9, <1>10, <1>15, <1>18
  <2>2. \A j \in Bits : j >= d[2] => (j \in c <=> j \in d[1])  BY <1>11, <1>16, <2>1
  <2>3. c \in PagesOf(d)  BY <1>8, <2>2 DEF PagesOf
  <2>4. <<c, i>> \in D /\ d \in D /\ <<c, i>>[1] = c  BY <1>8, <1>13
  <2>5. <<c, i>> = d
    <3> HIDE DEF D
    <3> QED  BY <1>1, <2>3, <2>4, SameBlock
  <2> QED  BY <1>18, <2>5
<1> QED  BY <1>17, <1>18
-----------------------------------------------------------------------------
LEMMA AllocatesOrRefuses ==
  ASSUME Inv, NEW k \in 0..(MaxOrder + 1), buddy_allocate(k)
  PROVE  Inv' /\ Allocator!Next
<1> DEFINE held_ == {PagesOf(d) : d \in held}
           Answer(r) == IF r \in {"NULL", "NULL + BUDDY_HEADER_OFFSET"} THEN "refused"
                        ELSE IF r = "block" THEN "granted" ELSE "none"
           Runs == [j \in 0..(MaxOrder + 1) |->
                      IF j > MaxOrder THEN {} ELSE {PagesOf(<<b, j>>) : b \in Blocks}]
<1>1. CASE k > MaxOrder /\ ret' = <<k, "NULL">> /\ UNCHANGED <<free, order, held>>
  <2>1. Inv'
    BY <1>1 DEF Inv, TypeOK, Partition, HeadersRight, Coalesced, Listed
  <2>2. Runs[k] = {}  BY <1>1
  <2>3. Allocator!Refuse(k)  BY <1>1, <2>2 DEF Allocator!Refuse
  <2> QED  BY <2>1, <2>3 DEF Allocator!Next
<1>2. ASSUME NEW m \in Orders, NEW b, b = Head(free[m]), Source(k, m),
             free' = Split(k, m, b),
             order' = Headers(k, m, b), held' = held \cup {<<b, k>>}, ret' = <<k, "block">>
      PROVE  Inv' /\ Allocator!Next
  <2>1. k \in Orders  BY <1>2 DEF Source, Orders
  <2>2. Inv' /\ b \in Blocks /\ \A h \in held : PagesOf(<<b, k>>) \cap PagesOf(h) = {}
    BY <1>2, <2>1, AllocateKeeps
  <2>3. Runs[k] = {PagesOf(<<c, k>>) : c \in Blocks}  BY <2>1 DEF Orders
  <2>4. PagesOf(<<b, k>>) \in Runs[k]  BY <2>2, <2>3
  <2>5. {PagesOf(d) : d \in held'} = held_ \cup {PagesOf(<<b, k>>)}  BY <1>2
  <2>6. \A h \in held_ : PagesOf(<<b, k>>) \cap h = {}  BY <2>2
  <2>7. Allocator!Grant(k)
    BY <1>2, <2>4, <2>5, <2>6 DEF Allocator!Grant, Allocator!Fits
  <2> QED  BY <2>2, <2>7 DEF Allocator!Next
<1>3. CASE /\ k \in Orders /\ \A m \in Orders : ~Source(k, m)
           /\ ret' = <<k, "NULL + BUDDY_HEADER_OFFSET">> /\ UNCHANGED <<free, order, held>>
  <2>1. Inv'
    BY <1>3 DEF Inv, TypeOK, Partition, HeadersRight, Coalesced, Listed
  <2>2. Runs[k] = {PagesOf(<<c, k>>) : c \in Blocks}
    <3>1. k \in Orders  BY <1>3
    <3>2. ~(k > MaxOrder)  BY <3>1 DEF Orders
    <3> QED  BY <3>2
  <2>3. \A r \in Runs[k] : \E h \in held_ : r \cap h # {}
    <3>1. \A c \in Blocks : \E h \in held : PagesOf(<<c, k>>) \cap PagesOf(h) # {}
      BY <1>3, NoRoom
    <3> QED  BY <2>2, <3>1
  <2>4. Allocator!Refuse(k)
    BY <1>3, <2>3 DEF Allocator!Refuse, Allocator!Fits
  <2> QED  BY <2>1, <2>4 DEF Allocator!Next
<1> QED  BY <1>1, <1>2, <1>3 DEF buddy_allocate

LEMMA FreesRun ==
  ASSUME Inv, buddy_free
  PROVE  Inv' /\ Allocator!Next
<1>1. PICK h \in held : /\ \E m \in Orders : merge(h[1], order[h[1]], m)
                        /\ held' = held \ {h} /\ ret' = <<0, "none">>
  BY DEF buddy_free
<1>2. PICK m \in Orders : merge(h[1], order[h[1]], m)  BY <1>1
<1>3. h \in Blocks \X Orders /\ order[h[1]] = h[2]
  BY DEF Inv, TypeOK, HeadersRight
<1>4. PICK b \in Blocks, k \in Orders : h = <<b, k>>  BY <1>3
<1>5. Inv'  BY <1>1, <1>2, <1>3, <1>4, MergeKeeps
<1>6. {PagesOf(d) : d \in held'} = {PagesOf(d) : d \in held} \ {PagesOf(h)}
  <2>1. ASSUME NEW d \in held, d # h PROVE PagesOf(d) # PagesOf(h)
    <3>1. d \in Blocks \X Orders  BY DEF Inv, TypeOK
    <3>2. d[1] \in PagesOf(d)  BY <3>1, OwnPage
    <3>3. PagesOf(d) \cap PagesOf(h) = {}  BY <2>1 DEF Inv, Partition
    <3> QED  BY <3>2, <3>3
  <2> QED  BY <1>1, <2>1
<1>7. Allocator!Release  BY <1>1, <1>6 DEF Allocator!Release
<1> QED  BY <1>5, <1>7 DEF Allocator!Next

LEMMA BuddyStep == Inv /\ [Next]_vars => Inv' /\ [Allocator!Next]_(Allocator!vars)
<1> SUFFICES ASSUME Inv, [Next]_vars PROVE Inv' /\ [Allocator!Next]_(Allocator!vars)
  OBVIOUS
<1>1. CASE UNCHANGED vars
  BY <1>1 DEF vars, Inv, TypeOK, Partition, HeadersRight, Coalesced, Listed, Allocator!vars
<1> QED  BY <1>1, AllocatesOrRefuses, FreesRun DEF Next

(* The headers and the free lists have the shape that they are declared     *)
(* with.                                                                    *)
THEOREM BuddyTypes == Spec => []TypeOK
<1>1. Inv => TypeOK  BY DEF Inv
<1> QED  BY <1>1, BuddyInit, BuddyStep, PTL DEF Spec

(* No page is handed out twice, lost, or listed while it is held, in a pool *)
(* of any size and after any sequence of calls.                             *)
THEOREM PoolIsPartitioned == Spec => []Partition
<1>1. Inv => Partition  BY DEF Inv
<1> QED  BY <1>1, BuddyInit, BuddyStep, PTL DEF Spec

(* The order that buddy_free finds in a header is that of the block, and    *)
(* the free lists hold blocks of their own order, each once.                *)
THEOREM HeadersAreRight == Spec => []HeadersRight
<1>1. Inv => HeadersRight  BY DEF Inv
<1> QED  BY <1>1, BuddyInit, BuddyStep, PTL DEF Spec

(* Two free buddies are always joined, so a request is refused only when    *)
(* what is held leaves no run.                                              *)
THEOREM BuddiesAreJoined == Spec => []Coalesced
<1>1. Inv => Coalesced  BY DEF Inv
<1> QED  BY <1>1, BuddyInit, BuddyStep, PTL DEF Spec

(* The buddy system implements the page allocator: what it grants is free   *)
(* and aligned, and it refuses only what does not fit.                      *)
THEOREM BuddyIsPageAllocator == Spec => IsPageAllocator
<1>1. buddy_init => Allocator!Init
  <2>1. ASSUME buddy_init PROVE {PagesOf(d) : d \in held} = {} /\ ret = <<0, "none">>
    BY <2>1 DEF buddy_init
  <2> QED  BY <2>1 DEF Allocator!Init
<1> QED  BY <1>1, BuddyInit, BuddyStep, PTL DEF Spec, IsPageAllocator, Allocator!Spec
=============================================================================

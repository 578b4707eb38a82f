-------------------------- MODULE TaskQueueProof ----------------------------
(***************************************************************************)
(* The linked list of libs/task_queue.c implements the queue, for every     *)
(* pool size and every sequence of calls, and it is always well formed.     *)
(***************************************************************************)
EXTENDS TaskQueue, RunQueueProof, FiniteSetTheorems

USE PoolSizeAssumption DEF NULL

(* q is what is linked from head, without repetition, and ends at tail.     *)
Spells(q) == /\ q \in Seq(Tasks)
             /\ Listing(q) /\ NoDuplicates(q)
             /\ tail = IF q = <<>> THEN NULL ELSE Last(q)

QInv == TypeOK /\ \E q \in Seq(Tasks) : Spells(q)
-----------------------------------------------------------------------------
(* A sequence without repetition is no longer than the pool.                *)
LEMMA ShortEnough ==
  ASSUME NEW q \in Seq(Tasks), NoDuplicates(q)
  PROVE  q \in Lists
<1>1. Len(q) \in Nat /\ q \in [1..Len(q) -> Tasks]  BY LenProperties
<1>2. /\ IsFiniteSet(1..Len(q)) /\ Cardinality(1..Len(q)) = Len(q)
      /\ IsFiniteSet(Tasks) /\ Cardinality(Tasks) = PoolSize
  <2>1. IsFiniteSet(1..Len(q)) /\ Cardinality(1..Len(q)) = IF 1 > Len(q) THEN 0 ELSE Len(q) - 1 + 1
    BY <1>1, FS_Interval
  <2>2. IsFiniteSet(1..PoolSize) /\ Cardinality(1..PoolSize) = IF 1 > PoolSize THEN 0 ELSE PoolSize - 1 + 1
    BY FS_Interval
  <2> QED  BY <1>1, <2>1, <2>2 DEF Tasks
<1>3. ~(PoolSize < Len(q))
  <2> SUFFICES ASSUME PoolSize < Len(q) PROVE FALSE
    OBVIOUS
  <2>1. \E x, y \in 1..Len(q) : x # y /\ q[x] = q[y]
    BY <1>1, <1>2, FS_PigeonHole
  <2> QED  BY <2>1 DEF NoDuplicates
<1>4. Len(q) \in 0..PoolSize  BY <1>1, <1>3
<1> QED  BY <1>1, <1>4 DEF Lists, SeqOf

LEMMA ListsAreSequences == Lists \subseteq Seq(Tasks)
BY DEF Lists, SeqOf

LEMMA FirstOf ==
  ASSUME NEW q \in Seq(Tasks), Listing(q)
  PROVE  /\ q # <<>> => head = q[1] /\ Len(q) >= 1
         /\ q = <<>> => head = NULL /\ Len(q) = 0
<1>1. head = QFirst(q)  BY DEF Listing
<1>2. CASE q = <<>>  BY <1>1, <1>2, EmptySeq DEF QFirst
<1>3. CASE q # <<>>
  <2>1. QFirst(q) = q[1] /\ Len(q) \in Nat \ {0}  BY <1>3, PopProperties
  <2> QED  BY <1>1, <1>3, <2>1
<1> QED  BY <1>2, <1>3

(* What is linked from head determines the sequence: one list is a prefix   *)
(* of the other, by the least position where they would differ.             *)
LEMMA Prefix ==
  ASSUME NEW p \in Seq(Tasks), NEW q \in Seq(Tasks), Listing(p), Listing(q)
  PROVE  \A i \in 1..Len(p) : i \in 1..Len(q) /\ p[i] = q[i]
<1> DEFINE D == {i \in 1..Len(p) : ~(i \in 1..Len(q) /\ p[i] = q[i])}
<1>1. Len(p) \in Nat /\ Len(q) \in Nat  BY LenProperties
<1>2. /\ \A i \in 1..Len(p) : p[i] \in Tasks /\ p[i] # NULL
      /\ \A i \in 1..Len(q) : q[i] \in Tasks /\ q[i] # NULL
  BY ElementOfSeq DEF Tasks
<1>3. /\ \A i \in 1..Len(p) : next[p[i]] = IF i < Len(p) THEN p[i + 1] ELSE NULL
      /\ \A i \in 1..Len(q) : next[q[i]] = IF i < Len(q) THEN q[i + 1] ELSE NULL
  BY DEF Listing
<1>4. /\ p # <<>> => head = p[1] /\ Len(p) >= 1
      /\ q # <<>> => head = q[1] /\ Len(q) >= 1
      /\ p = <<>> => head = NULL /\ Len(p) = 0
      /\ q = <<>> => head = NULL /\ Len(q) = 0
  BY FirstOf
<1>5. ASSUME D # {} PROVE FALSE
  <2>1. PICK m \in D : \A k \in D : m <= k
    <3>1. D \subseteq Nat  BY <1>1
    <3> HIDE DEF D
    <3> QED  BY <1>5, <3>1, LeastNat
  <2>2. CASE m = 1
    BY <1>1, <1>2, <1>4, <2>1, <2>2
  <2>3. CASE m # 1
    <3>1. m - 1 \in 1..Len(p) /\ m - 1 \notin D /\ m \in 1..Len(p)  BY <1>1, <2>1, <2>3
    <3>2. m - 1 \in 1..Len(q) /\ p[m - 1] = q[m - 1]  BY <3>1
    <3>3. next[p[m - 1]] = p[m] /\ p[m] # NULL  BY <1>1, <1>2, <1>3, <3>1
    <3>4. m - 1 < Len(q) /\ q[m] = p[m]  BY <1>1, <1>3, <3>1, <3>2, <3>3
    <3> QED  BY <1>1, <2>1, <3>1, <3>4
  <2> QED  BY <2>2, <2>3
<1> QED  BY <1>5

LEMMA ListedIs ==
  ASSUME NEW q, Spells(q)
  PROVE  Listed = q /\ q \in Lists
<1>1. q \in Lists /\ q \in Seq(Tasks) /\ Listing(q)  BY ShortEnough DEF Spells
<1>2. ASSUME NEW p \in Lists, Listing(p) PROVE p = q
  <2>1. p \in Seq(Tasks)  BY ListsAreSequences
  <2>2. /\ \A i \in 1..Len(p) : i \in 1..Len(q) /\ p[i] = q[i]
        /\ \A i \in 1..Len(q) : i \in 1..Len(p) /\ q[i] = p[i]
    BY <1>1, <1>2, <2>1, Prefix
  <2>3. Len(p) \in Nat /\ Len(q) \in Nat  BY <1>1, <2>1, LenProperties
  <2>4. Len(p) = Len(q)
    <3>1. Len(p) > 0 => Len(p) \in 1..Len(p)  BY <2>3
    <3>2. Len(q) > 0 => Len(q) \in 1..Len(q)  BY <2>3
    <3> QED  BY <2>2, <2>3, <3>1, <3>2
  <2> QED  BY <1>1, <2>1, <2>2, <2>4, SeqEqual
<1> QED  BY <1>1, <1>2 DEF Listed
-----------------------------------------------------------------------------
(* Each call of task_queue.c turns a list that spells q into one that       *)
(* spells what RunQueue says.                                               *)
LEMMA PushSpells ==
  ASSUME TypeOK, NEW q, Spells(q), NEW t \in Tasks, run_queue_push(t)
  PROVE  Spells(QPush(q, t))' /\ TypeOK'
<1>1. q \in Seq(Tasks) /\ Len(q) \in Nat /\ Listing(q) /\ NoDuplicates(q)
  BY LenProperties DEF Spells
<1> DEFINE r == QPush(q, t)
<1>2. r \in Seq(Tasks) /\ Len(r) \in Nat \ {0} /\ Last(r) = t /\ NoDuplicates(r)
  BY <1>1, PushTail, PushNoDuplicates
<1>3. r # <<>> /\ QFirst(r) = r[1]  BY <1>2, EmptySeq, PopProperties
<1>4. tail' = t /\ TypeOK'  BY DEF run_queue_push, TypeOK, Ptr
<1>5. CASE q = <<>>
  <2>1. tail = NULL /\ Len(q) = 0 /\ ~Contains(q, t)
    BY <1>1, <1>5, EmptySeq DEF Spells, Contains
  <2>2. Len(r) = 1 /\ r[1] = t
    <3>1. Len(r) = Len(q) + 1 /\ r[Len(q) + 1] = t  BY <1>1, <2>1, PushNew
    <3> HIDE DEF r
    <3>2. Len(q) + 1 = 1  BY <2>1
    <3> QED  BY <3>1, <3>2
  <2> HIDE DEF r
  <2>3. head' = t /\ next'[t] = NULL  BY <2>1 DEF run_queue_push, TypeOK
  <2>4. Listing(r)'  BY <1>3, <2>2, <2>3 DEF Listing
  <2> QED  BY <1>2, <1>3, <1>4, <2>4 DEF Spells, r
<1>6. CASE q # <<>>
  <2>1. /\ tail = q[Len(q)] /\ Len(q) >= 1 /\ head = q[1]
        /\ \A i \in 1..Len(q) : q[i] \in Tasks /\ q[i] # NULL
    BY <1>1, <1>6, FirstOf, ElementOfSeq DEF Spells, Last, Tasks
  <2>2. tail # NULL  BY <1>1, <2>1
  <2>3. head' = head /\ next' = [next EXCEPT ![tail] = t, ![t] = NULL]
    BY <2>2 DEF run_queue_push
  <2>4. next'[t] = NULL /\ next'[tail] = (IF tail = t THEN NULL ELSE t)
        /\ \A u \in Tasks : u # t /\ u # tail => next'[u] = next[u]
    BY <1>1, <2>1, <2>3 DEF TypeOK
  <2>5. \A i \in 1..Len(q) : next[q[i]] = IF i < Len(q) THEN q[i + 1] ELSE NULL
    BY <1>1 DEF Listing
  <2>6. CASE Contains(q, t)
    <3> DEFINE p == Position(q, t)
    <3>1. p \in 1..Len(q) /\ q[p] = t /\ Len(r) = p /\ \A i \in 1..p : r[i] = q[i]
      BY <1>1, <2>6, PositionOf, PushLinked
    <3> HIDE DEF p, r
    <3>2. ASSUME NEW i \in 1..Len(r)
          PROVE  next'[r[i]] = IF i < Len(r) THEN r[i + 1] ELSE NULL
      <4>1. CASE i = p  BY <2>4, <3>1, <4>1
      <4>2. CASE i < p
        <5>1. i \in 1..Len(q) /\ Len(q) \in 1..Len(q) /\ i # p /\ i # Len(q) /\ i + 1 \in 1..p
          BY <1>1, <3>1, <4>2
        <5>2. q[i] # t /\ q[i] # tail  BY <1>1, <2>1, <3>1, <5>1 DEF NoDuplicates
        <5> QED  BY <1>1, <2>1, <2>4, <2>5, <3>1, <4>2, <5>1, <5>2
      <4> QED  BY <1>1, <3>1, <4>1, <4>2
    <3>3. Listing(r)'
      <4>1. head' = QFirst(r)  BY <1>1, <1>3, <2>1, <2>3, <3>1
      <4> QED  BY <3>2, <4>1 DEF Listing
    <3> QED  BY <1>2, <1>3, <1>4, <3>3 DEF Spells, r
  <2>7. CASE ~Contains(q, t)
    <3>1. Len(r) = Len(q) + 1 /\ r[Len(q) + 1] = t /\ \A i \in 1..Len(q) : r[i] = q[i]
      BY <1>1, <2>7, PushNew
    <3>2. \A i \in 1..Len(q) : q[i] # t  BY <2>7 DEF Contains
    <3> HIDE DEF r
    <3>3. ASSUME NEW i \in 1..Len(r)
          PROVE  next'[r[i]] = IF i < Len(r) THEN r[i + 1] ELSE NULL
      <4>1. CASE i = Len(q) + 1  BY <1>1, <2>4, <3>1, <4>1
      <4>2. CASE i = Len(q)
        <5>1. i \in 1..Len(q) /\ r[i] = tail /\ tail # t  BY <1>1, <2>1, <3>1, <3>2, <4>2
        <5> QED  BY <1>1, <2>4, <3>1, <4>2, <5>1
      <4>3. CASE i < Len(q)
        <5>1. i \in 1..Len(q) /\ i + 1 \in 1..Len(q) /\ Len(q) \in 1..Len(q) /\ i # Len(q)
          BY <1>1, <3>1, <4>3
        <5>2. q[i] # tail /\ q[i] # t  BY <1>1, <2>1, <3>2, <5>1 DEF NoDuplicates
        <5> QED  BY <1>1, <2>1, <2>4, <2>5, <3>1, <4>3, <5>1, <5>2
      <4> QED  BY <1>1, <3>1, <4>1, <4>2, <4>3
    <3>4. Listing(r)'
      <4>1. head' = QFirst(r)  BY <1>1, <1>3, <2>1, <2>3, <3>1
      <4> QED  BY <3>3, <4>1 DEF Listing
    <3> QED  BY <1>2, <1>3, <1>4, <3>4 DEF Spells, r
  <2> QED  BY <2>6, <2>7
<1> QED  BY <1>4, <1>5, <1>6

LEMMA PopSpells ==
  ASSUME TypeOK, NEW q, Spells(q), run_queue_pop
  PROVE  Spells(QRest(q))' /\ TypeOK' /\ last' = <<"pop", QFirst(q)>>
<1>1. q \in Seq(Tasks) /\ Len(q) \in Nat /\ Listing(q) /\ NoDuplicates(q) /\ head = QFirst(q)
  BY LenProperties DEF Spells, Listing
<1> DEFINE r == QRest(q)
<1>2. r \in Seq(Tasks) /\ Len(r) \in Nat /\ NoDuplicates(r)
  BY <1>1, PopProperties, PopNoDuplicates, LenProperties
<1>3. \A i \in 1..Len(q) : q[i] \in Tasks /\ q[i] # NULL
  BY <1>1, ElementOfSeq DEF Tasks
<1>4. CASE q = <<>>
  <2>1. head = NULL /\ r = q /\ QFirst(q) = NULL  BY <1>1, <1>4, PopProperties
  <2>2. UNCHANGED <<head, tail, next>> /\ last' = <<"pop", NULL>>  BY <2>1 DEF run_queue_pop
  <2>3. Spells(q)'  BY <2>2 DEF Spells, Listing
  <2> QED  BY <2>1, <2>2, <2>3 DEF TypeOK, Ptr
<1>5. CASE q # <<>>
  <2>1. /\ head = q[1] /\ QFirst(q) = q[1] /\ Len(q) >= 1 /\ tail = q[Len(q)]
        /\ Len(r) = Len(q) - 1 /\ \A i \in 1..(Len(q) - 1) : r[i] = q[i + 1]
    BY <1>1, <1>5, PopProperties, FirstOf DEF Spells, Last
  <2>2. head \in Tasks /\ head # NULL  BY <1>1, <1>3, <2>1
  <2>3. /\ last' = <<"pop", q[1]>> /\ head' = next[q[1]] /\ next' = [next EXCEPT ![q[1]] = NULL]
        /\ tail' = IF q[1] = q[Len(q)] THEN NULL ELSE q[Len(q)]
    BY <2>1, <2>2 DEF run_queue_pop
  <2>4. \A i \in 1..Len(q) : next[q[i]] = IF i < Len(q) THEN q[i + 1] ELSE NULL
    BY <1>1 DEF Listing
  <2>5. q[1] = q[Len(q)] <=> Len(q) = 1
    <3>1. 1 \in 1..Len(q) /\ Len(q) \in 1..Len(q)  BY <1>1, <2>1
    <3> QED  BY <1>1, <3>1 DEF NoDuplicates
  <2>6. TypeOK'
    <3>1. next[q[1]] \in Ptr  BY <2>1, <2>2 DEF TypeOK
    <3> QED  BY <2>1, <2>2, <2>3, <3>1 DEF TypeOK, Ptr
  <2>7. r # <<>> <=> Len(q) # 1
    BY <1>1, <1>2, <2>1, EmptySeq
  <2>8. QFirst(r) = IF Len(q) = 1 THEN NULL ELSE r[1]
    BY <1>2, <2>7, PopProperties
  <2> HIDE DEF r
  <2>9. head' = QFirst(r)
    <3>1. CASE Len(q) = 1  BY <1>1, <2>1, <2>3, <2>4, <2>8, <3>1
    <3>2. CASE Len(q) # 1
      <4>1. 1 \in 1..Len(q) /\ 1 \in 1..(Len(q) - 1) /\ 1 < Len(q)  BY <1>1, <2>1, <3>2
      <4> QED  BY <2>1, <2>3, <2>4, <2>8, <3>2, <4>1
    <3> QED  BY <3>1, <3>2
  <2>10. ASSUME NEW i \in 1..Len(r)
         PROVE  next'[r[i]] = IF i < Len(r) THEN r[i + 1] ELSE NULL
    <3>1. i + 1 \in 1..Len(q) /\ 1 \in 1..Len(q) /\ i + 1 # 1 /\ i \in 1..(Len(q) - 1)
      BY <1>1, <2>1
    <3>2. r[i] = q[i + 1] /\ q[i + 1] # q[1] /\ q[i + 1] \in Tasks
      BY <1>1, <1>3, <2>1, <3>1 DEF NoDuplicates
    <3>3. next'[r[i]] = next[q[i + 1]]  BY <2>3, <3>2 DEF TypeOK
    <3>4. CASE i < Len(r)
      <4>1. i + 1 < Len(q) /\ i + 1 \in 1..(Len(q) - 1) /\ r[i + 1] = q[i + 1 + 1]
        BY <1>1, <2>1, <3>4
      <4> QED  BY <2>4, <3>1, <3>3, <3>4, <4>1
    <3>5. CASE ~(i < Len(r))
      <4>1. ~(i + 1 < Len(q))  BY <1>1, <2>1, <3>5
      <4> QED  BY <2>4, <3>1, <3>3, <3>5, <4>1
    <3> QED  BY <3>4, <3>5
  <2>11. Listing(r)'  BY <2>9, <2>10 DEF Listing
  <2>12. tail' = IF r = <<>> THEN NULL ELSE Last(r)
    <3>1. CASE Len(q) = 1  BY <2>3, <2>5, <2>7, <3>1
    <3>2. CASE Len(q) # 1
      <4>1. Len(q) - 1 \in 1..(Len(q) - 1) /\ Len(q) - 1 + 1 = Len(q)  BY <1>1, <2>1, <3>2
      <4>2. Last(r) = q[Len(q)]  BY <2>1, <4>1 DEF Last
      <4> QED  BY <2>3, <2>5, <2>7, <3>2, <4>2
    <3> QED  BY <3>1, <3>2
  <2> QED  BY <1>2, <2>1, <2>3, <2>6, <2>11, <2>12 DEF Spells, r
<1> QED  BY <1>4, <1>5

LEMMA RemoveSpells ==
  ASSUME TypeOK, NEW q, Spells(q), NEW del \in Tasks, run_queue_remove(del)
  PROVE  Spells(QRemove(q, del))' /\ TypeOK' /\ last' = <<"remove", del>>
<1>1. q \in Seq(Tasks) /\ Len(q) \in Nat /\ Listing(q) /\ NoDuplicates(q) /\ head = QFirst(q)
  BY LenProperties DEF Spells, Listing
<1>2. Listed = q  BY ListedIs
<1>3. \A i \in 1..Len(q) : q[i] \in Tasks /\ q[i] # NULL
  BY <1>1, ElementOfSeq DEF Tasks
<1>4. CASE \E i \in 2..Len(q) : q[i] = del
  <2>1. PICK p \in 2..Len(q) : q[p] = del  BY <1>4
  <2>2. p \in 1..Len(q) /\ Contains(q, del)  BY <1>1, <2>1 DEF Contains
  <2>3. Position(q, del) = p
    BY <1>1, <2>1, <2>2, PositionOf DEF NoDuplicates
  <2> DEFINE r == QRemove(q, del)
  <2>4. /\ r \in Seq(Tasks) /\ Len(r) = Len(q) - 1
        /\ \A i \in 1..(Len(q) - 1) : r[i] = IF i < p THEN q[i] ELSE q[i + 1]
    BY <1>1, <2>1, <2>2, <2>3, RemoveProperties
  <2>5. p \in Nat /\ p - 1 \in 1..(Len(q) - 1) /\ p - 1 \in 1..Len(q) /\ p <= Len(q) /\ p >= 2
    BY <1>1, <2>1
  <2> HIDE DEF r
  <2>6. /\ next' = [next EXCEPT ![q[p - 1]] = next[del]]
        /\ tail' = IF del = tail THEN q[p - 1] ELSE tail
        /\ last' = <<"remove", del>> /\ UNCHANGED head
    <3>1. PICK i \in 2..Len(q) :
            /\ q[i] = del /\ next' = [next EXCEPT ![q[i - 1]] = next[del]]
            /\ tail' = IF del = tail THEN q[i - 1] ELSE tail
            /\ last' = <<"remove", del>> /\ UNCHANGED head
      BY <1>2, <2>1, <2>2 DEF run_queue_remove
    <3>2. i \in 1..Len(q)  BY <1>1
    <3>3. i = p  BY <1>1, <2>1, <2>2, <3>1, <3>2 DEF NoDuplicates
    <3> QED  BY <3>1, <3>3
  <2>7. \A i \in 1..Len(q) : next[q[i]] = IF i < Len(q) THEN q[i + 1] ELSE NULL
    BY <1>1 DEF Listing
  <2>8. head = q[1] /\ tail = q[Len(q)] /\ q # <<>> /\ r # <<>>
    <3>1. q # <<>>  BY <1>1, <2>5, EmptySeq
    <3>2. r # <<>>  BY <1>1, <2>4, <2>5, EmptySeq
    <3> QED  BY <1>1, <3>1, <3>2, FirstOf DEF Spells, Last
  <2>9. next' \in [Tasks -> Ptr] /\ next'[q[p - 1]] = next[del]
        /\ \A u \in Tasks : u # q[p - 1] => next'[u] = next[u]
    BY <1>3, <2>5, <2>6 DEF TypeOK
  <2>10. TypeOK'
    BY <1>3, <2>5, <2>6, <2>9 DEF TypeOK, Ptr
  <2>11. ASSUME NEW i \in 1..Len(r)
         PROVE  next'[r[i]] = IF i < Len(r) THEN r[i + 1] ELSE NULL
    <3>1. i \in 1..(Len(q) - 1) /\ i \in 1..Len(q) /\ i + 1 \in 1..Len(q) /\ i < Len(q)
      BY <1>1, <2>4
    <3>2. CASE i = p - 1
      <4>1. r[i] = q[p - 1] /\ next'[r[i]] = next[q[p]]  BY <2>1, <2>4, <2>5, <2>9, <3>1, <3>2
      <4>2. CASE i < Len(r)
        <5>1. i + 1 \in 1..(Len(q) - 1) /\ i + 1 = p /\ p < Len(q)  BY <1>1, <2>4, <2>5, <3>2, <4>2
        <5> QED  BY <2>2, <2>4, <2>7, <4>1, <4>2, <5>1
      <4>3. CASE ~(i < Len(r))
        <5>1. ~(p < Len(q))  BY <1>1, <2>4, <2>5, <3>2, <4>3
        <5> QED  BY <2>2, <2>7, <4>1, <4>3, <5>1
      <4> QED  BY <4>2, <4>3
    <3>3. CASE i < p - 1
      <4>1. i < p /\ i + 1 < p /\ i + 1 \in 1..(Len(q) - 1) /\ i # p - 1 /\ i < Len(r)
        BY <1>1, <2>4, <2>5, <3>1, <3>3
      <4>2. r[i] = q[i] /\ r[i + 1] = q[i + 1] /\ q[i] # q[p - 1] /\ q[i] \in Tasks
        BY <1>1, <1>3, <2>4, <2>5, <3>1, <4>1 DEF NoDuplicates
      <4> QED  BY <2>7, <2>9, <3>1, <4>1, <4>2
    <3>4. CASE i > p - 1
      <4>1. ~(i < p) /\ i + 1 # p - 1  BY <1>1, <2>5, <3>1, <3>4
      <4>2. r[i] = q[i + 1] /\ q[i + 1] # q[p - 1] /\ q[i + 1] \in Tasks
        BY <1>1, <1>3, <2>4, <2>5, <3>1, <4>1 DEF NoDuplicates
      <4>3. next'[r[i]] = next[q[i + 1]]  BY <2>9, <4>2
      <4>4. CASE i < Len(r)
        <5>1. i + 1 \in 1..(Len(q) - 1) /\ ~(i + 1 < p) /\ i + 1 < Len(q)
          BY <1>1, <2>4, <2>5, <3>1, <3>4, <4>4
        <5> QED  BY <2>4, <2>7, <3>1, <4>3, <4>4, <5>1
      <4>5. CASE ~(i < Len(r))
        <5>1. ~(i + 1 < Len(q))  BY <1>1, <2>4, <3>1, <4>5
        <5> QED  BY <2>7, <3>1, <4>3, <4>5, <5>1
      <4> QED  BY <4>4, <4>5
    <3> QED  BY <2>5, <3>1, <3>2, <3>3, <3>4
  <2>12. head' = QFirst(r)
    <3>1. QFirst(r) = r[1]  BY <2>4, <2>8, PopProperties
    <3>2. 1 \in 1..(Len(q) - 1) /\ 1 < p  BY <1>1, <2>5
    <3> QED  BY <2>4, <2>6, <2>8, <3>1, <3>2
  <2>13. Listing(r)'  BY <2>11, <2>12 DEF Listing
  <2>14. tail' = Last(r)
    <3>1. Len(q) - 1 \in 1..(Len(q) - 1) /\ Len(q) - 1 + 1 = Len(q) /\ Len(q) \in 1..Len(q)
      BY <1>1, <2>5
    <3>2. CASE p = Len(q)
      <4>1. Last(r) = q[p - 1]  BY <2>4, <2>5, <3>1, <3>2 DEF Last
      <4> QED  BY <2>1, <2>6, <2>8, <3>2, <4>1
    <3>3. CASE p # Len(q)
      <4>1. ~(Len(q) - 1 < p)  BY <1>1, <2>5, <3>3
      <4>2. Last(r) = q[Len(q)]  BY <2>4, <3>1, <4>1 DEF Last
      <4>3. del # tail  BY <1>1, <2>1, <2>2, <2>8, <3>1, <3>3 DEF NoDuplicates
      <4> QED  BY <2>6, <2>8, <4>2, <4>3
    <3> QED  BY <3>2, <3>3
  <2>15. NoDuplicates(r)
    <3>1. ASSUME NEW i \in 1..Len(r), NEW j \in 1..Len(r), r[i] = r[j] PROVE i = j
      <4>1. /\ i \in 1..(Len(q) - 1) /\ i \in 1..Len(q) /\ i + 1 \in 1..Len(q)
            /\ j \in 1..(Len(q) - 1) /\ j \in 1..Len(q) /\ j + 1 \in 1..Len(q)
        BY <1>1, <2>4
      <4>2. /\ r[i] = IF i < p THEN q[i] ELSE q[i + 1]
            /\ r[j] = IF j < p THEN q[j] ELSE q[j + 1]
        BY <2>4, <4>1
      <4>3. (IF i < p THEN i ELSE i + 1) = (IF j < p THEN j ELSE j + 1)
        BY <1>1, <3>1, <4>1, <4>2 DEF NoDuplicates
      <4> QED  BY <2>5, <4>1, <4>3
    <3> QED  BY <3>1 DEF NoDuplicates
  <2> QED  BY <2>4, <2>6, <2>8, <2>10, <2>13, <2>14, <2>15 DEF Spells, r
<1>5. CASE ~ \E i \in 2..Len(q) : q[i] = del
  <2>1. UNCHANGED <<head, tail, next>> /\ last' = <<"remove", del>>
    BY <1>2, <1>5 DEF run_queue_remove
  <2>2. QRemove(q, del) = q
    <3>1. SUFFICES ASSUME Contains(q, del), Position(q, del) > 1 PROVE FALSE
      BY DEF QRemove
    <3>2. Position(q, del) \in 1..Len(q) /\ q[Position(q, del)] = del  BY <3>1, PositionOf
    <3>3. Position(q, del) \in 2..Len(q)  BY <1>1, <3>1, <3>2
    <3> QED  BY <1>5, <3>2, <3>3
  <2>3. TypeOK'  BY <2>1 DEF TypeOK, Ptr
  <2>4. Spells(q)'  BY <2>1 DEF Spells, Listing
  <2> QED  BY <2>1, <2>2, <2>3, <2>4
<1> QED  BY <1>4, <1>5
-----------------------------------------------------------------------------
LEMMA ListedThen == (\A q \in Seq(Tasks) : Spells(q) => Listed = q)'
<1>1. \A q \in Seq(Tasks) : Spells(q) => Listed = q  BY ListedIs
<1> QED  BY <1>1, PTL

(* The operations that RunQueueSpec uses are those of RunQueue.             *)
LEMMA SameOperations ==
  /\ Abstract!NULL = NULL
  /\ \A q, t : /\ Abstract!QPush(q, t) = QPush(q, t)
              /\ Abstract!QRemove(q, t) = QRemove(q, t)
  /\ \A q : Abstract!QRest(q) = QRest(q) /\ Abstract!QFirst(q) = QFirst(q)
BY DEF Abstract!NULL, Abstract!QPush, QPush, Abstract!QRemove, QRemove,
       Abstract!QRest, QRest, Abstract!QFirst, QFirst, Abstract!Position, Position,
       Abstract!Without, Without, Abstract!Contains, Contains, Abstract!RemoveAt, RemoveAt

LEMMA QInit == Init => QInv /\ Spells(<<>>)
<1> SUFFICES ASSUME Init PROVE QInv /\ Spells(<<>>)
  OBVIOUS
<1>1. <<>> \in Seq(Tasks) /\ Len(<<>>) = 0  BY EmptySeq
<1>2. Spells(<<>>)  BY <1>1 DEF Spells, Init, Listing, QFirst, NoDuplicates
<1>3. TypeOK  BY DEF TypeOK, Init, Ptr
<1> QED  BY <1>1, <1>2, <1>3 DEF QInv

LEMMA QStep == QInv /\ [Next]_vars => QInv' /\ [Abstract!Next]_(Abstract!vars)
<1> SUFFICES ASSUME QInv, [Next]_vars PROVE QInv' /\ [Abstract!Next]_(Abstract!vars)
  OBVIOUS
<1>1. TypeOK  BY DEF QInv
<1>2. PICK q \in Seq(Tasks) : Spells(q)  BY DEF QInv
<1>3. Listed = q  BY <1>2, ListedIs
<1>4. ASSUME NEW r, Spells(r)', TypeOK' PROVE QInv' /\ Listed' = r
  <2>1. r \in Seq(Tasks)  BY <1>4 DEF Spells
  <2>2. Listed' = r  BY <1>4, <2>1, ListedThen
  <2> QED  BY <1>4, <2>1, <2>2 DEF QInv
<1>5. ASSUME NEW t \in Tasks, run_queue_push(t) PROVE QInv' /\ [Abstract!Next]_(Abstract!vars)
  <2>1. QInv' /\ Listed' = QPush(q, t)  BY <1>1, <1>2, <1>4, <1>5, PushSpells
  <2>2. last' = <<"push", t>>  BY <1>5 DEF run_queue_push
  <2> QED  BY <1>3, <2>1, <2>2, SameOperations DEF Abstract!Next, Abstract!Enqueue
<1>6. ASSUME run_queue_pop PROVE QInv' /\ [Abstract!Next]_(Abstract!vars)
  <2>1. QInv' /\ Listed' = QRest(q) /\ last' = <<"pop", QFirst(q)>>
    BY <1>1, <1>2, <1>4, <1>6, PopSpells
  <2> QED  BY <1>3, <2>1, SameOperations DEF Abstract!Next, Abstract!Dequeue
<1>7. ASSUME NEW t \in Tasks, run_queue_remove(t) PROVE QInv' /\ [Abstract!Next]_(Abstract!vars)
  <2>1. QInv' /\ Listed' = QRemove(q, t) /\ last' = <<"remove", t>>
    BY <1>1, <1>2, <1>4, <1>7, RemoveSpells
  <2> QED  BY <1>3, <2>1, SameOperations DEF Abstract!Next, Abstract!Unlink
<1>8. CASE UNCHANGED vars
  <2>1. TypeOK' /\ Spells(q)'  BY <1>1, <1>2, <1>8 DEF vars, TypeOK, Spells, Listing
  <2> QED  BY <1>3, <1>4, <1>8, <2>1 DEF vars, Abstract!vars
<1> QED  BY <1>5, <1>6, <1>7, <1>8 DEF Next

(* However often push, pop and remove are called and on whichever tasks,    *)
(* the list has no cycle and its tail is reachable.                         *)
THEOREM ListIsWellFormed == Spec => []ListWellFormed
<1>1. QInv => ListWellFormed
  BY ListedIs DEF QInv, ListWellFormed, Spells
<1> QED  BY <1>1, QInit, QStep, PTL DEF Spec

(* The linked list behaves as the sequence RunQueueSpec.                    *)
THEOREM ListIsQueue == Spec => ImplementsQueue
<1>1. Init => Abstract!Init
  BY QInit, ListedIs, SameOperations DEF Abstract!Init, Init
<1> QED  BY <1>1, QInit, QStep, PTL DEF Spec, ImplementsQueue, Abstract!Spec
=============================================================================

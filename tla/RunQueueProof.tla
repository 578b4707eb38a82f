--------------------------- MODULE RunQueueProof ----------------------------
(***************************************************************************)
(* Facts about the operations of Lists and RunQueue on sequences over any   *)
(* set S.                                                                   *)
(***************************************************************************)
EXTENDS RunQueue, SequenceTheorems, WellFoundedInduction, TLAPS

(* A set of natural numbers has a least element.                           *)
LEMMA LeastNat ==
  ASSUME NEW T, T \subseteq Nat, T # {}
  PROVE  \E m \in T : \A k \in T : m <= k
<1>1. PICK m \in T : \A k \in T : ~(<<k, m>> \in OpToRel(<, Nat))
  BY NatLessThanWellFounded, WFMin
<1>2. \A k \in T : ~(k < m)  BY <1>1 DEF OpToRel
<1> QED  BY <1>2

(* The position of a queued task is one where it is queued.                 *)
LEMMA PositionOf ==
  ASSUME NEW q, NEW t, Contains(q, t)
  PROVE  Position(q, t) \in 1..Len(q) /\ q[Position(q, t)] = t
BY DEF Contains, Position

(* run_queue_push of a task that is not linked appends it.                  *)
LEMMA PushNew ==
  ASSUME NEW S, NEW q \in Seq(S), NEW t \in S, ~Contains(q, t)
  PROVE  /\ QPush(q, t) = Append(q, t)
         /\ QPush(q, t) \in Seq(S)
         /\ Len(QPush(q, t)) = Len(q) + 1
         /\ \A i \in 1..Len(q) : QPush(q, t)[i] = q[i]
         /\ QPush(q, t)[Len(q) + 1] = t
BY AppendProperties DEF QPush

(* run_queue_push of a linked task cuts the queue behind it.                *)
LEMMA PushLinked ==
  ASSUME NEW S, NEW q \in Seq(S), NEW t \in S, Contains(q, t)
  PROVE  /\ QPush(q, t) \in Seq(S)
         /\ Len(QPush(q, t)) = Position(q, t)
         /\ \A i \in 1..Position(q, t) : QPush(q, t)[i] = q[i]
<1> DEFINE p == Position(q, t)
<1>1. p \in 1..Len(q)  BY PositionOf
<1>2. Len(q) \in Nat  BY LenProperties
<1>3. p \in Int /\ 1 <= p /\ p <= Len(q)  BY <1>1, <1>2
<1>4. \A i \in 1..p : q[i] \in S  BY <1>2, <1>3, ElementOfSeq
<1>5. QPush(q, t) = SubSeq(q, 1, p)  BY DEF QPush
<1> HIDE DEF p
<1>6. /\ SubSeq(q, 1, p) \in Seq(S)
      /\ Len(SubSeq(q, 1, p)) = IF 1 <= p THEN p - 1 + 1 ELSE 0
      /\ \A i \in 1..(p - 1 + 1) : SubSeq(q, 1, p)[i] = q[1 + i - 1]
  BY <1>3, <1>4, SubSeqProperties
<1>7. Len(SubSeq(q, 1, p)) = p  BY <1>3, <1>6
<1>8. ASSUME NEW i \in 1..p PROVE SubSeq(q, 1, p)[i] = q[i]
  <2>1. i \in 1..(p - 1 + 1) /\ 1 + i - 1 = i  BY <1>3
  <2> QED  BY <2>1, <1>6
<1> QED  BY <1>5, <1>6, <1>7, <1>8 DEF p

(* After run_queue_push the task is the tail.                               *)
LEMMA PushTail ==
  ASSUME NEW S, NEW q \in Seq(S), NEW t \in S
  PROVE  /\ QPush(q, t) \in Seq(S)
         /\ Len(QPush(q, t)) \in Nat \ {0}
         /\ Last(QPush(q, t)) = t
<1>1. Len(q) \in Nat  BY LenProperties
<1>2. CASE Contains(q, t)
  BY <1>1, <1>2, PushLinked, PositionOf DEF Last
<1>3. CASE ~Contains(q, t)
  BY <1>1, <1>3, PushNew DEF Last
<1> QED  BY <1>2, <1>3

(* run_queue_push keeps the queue free of duplicates.                       *)
LEMMA PushNoDuplicates ==
  ASSUME NEW S, NEW q \in Seq(S), NEW t \in S, NoDuplicates(q)
  PROVE  NoDuplicates(QPush(q, t))
<1>1. Len(q) \in Nat  BY LenProperties
<1>2. CASE Contains(q, t)
  <2>1. Position(q, t) \in 1..Len(q)  BY <1>2, PositionOf
  <2>2. 1..Position(q, t) \subseteq 1..Len(q)  BY <2>1, <1>1
  <2> QED  BY <1>2, <2>2, PushLinked DEF NoDuplicates
<1>3. CASE ~Contains(q, t)
  <2>1. \A i \in 1..Len(q) : q[i] # t  BY <1>3 DEF Contains
  <2> QED  BY <1>1, <1>3, <2>1, PushNew DEF NoDuplicates
<1> QED  BY <1>2, <1>3

(* run_queue_pop takes the first task off.                                  *)
LEMMA PopProperties ==
  ASSUME NEW S, NEW q \in Seq(S)
  PROVE  /\ QRest(q) \in Seq(S)
         /\ q = <<>> => QFirst(q) = NULL /\ QRest(q) = <<>>
         /\ q # <<>> => /\ QFirst(q) = q[1] /\ q[1] \in S
                        /\ Len(q) \in Nat \ {0}
                        /\ Len(QRest(q)) = Len(q) - 1
                        /\ \A i \in 1..(Len(q) - 1) : QRest(q)[i] = q[i + 1]
<1>1. CASE q = <<>>
  BY <1>1, EmptySeq DEF QFirst, QRest
<1>2. CASE q # <<>>
  <2>1. Len(q) \in Nat \ {0}  BY <1>2, EmptySeq
  <2>2. q[1] \in S  BY <2>1, ElementOfSeq
  <2>3. QFirst(q) = q[1]  BY <1>2 DEF QFirst
  <2>4. QRest(q) = Tail(q)  BY <1>2 DEF QRest
  <2> QED  BY <1>2, <2>1, <2>2, <2>3, <2>4, HeadTailProperties
<1> QED  BY <1>1, <1>2

(* run_queue_pop keeps the queue free of duplicates, and what it returns is *)
(* no longer queued.                                                        *)
LEMMA PopNoDuplicates ==
  ASSUME NEW S, NEW q \in Seq(S), NoDuplicates(q)
  PROVE  /\ NoDuplicates(QRest(q))
         /\ q # <<>> => ~Contains(QRest(q), q[1])
<1>1. CASE q = <<>>
  BY <1>1, QRest(q) = q DEF QRest
<1>2. CASE q # <<>>
  <2>1. /\ Len(q) \in Nat \ {0}
        /\ Len(QRest(q)) = Len(q) - 1
        /\ \A i \in 1..(Len(q) - 1) : QRest(q)[i] = q[i + 1]
    BY <1>2, PopProperties
  <2>2. \A i \in 1..(Len(q) - 1) : i + 1 \in 1..Len(q) /\ i + 1 # 1  BY <2>1
  <2>3. NoDuplicates(QRest(q))  BY <2>1, <2>2 DEF NoDuplicates
  <2>4. ~Contains(QRest(q), q[1])  BY <2>1, <2>2 DEF NoDuplicates, Contains
  <2> QED  BY <2>3, <2>4
<1> QED  BY <1>1, <1>2

(* Unlinking an element closes the gap.                                     *)
LEMMA WithoutProperties ==
  ASSUME NEW S, NEW q \in Seq(S), NEW t, Contains(q, t)
  PROVE  /\ Without(q, t) \in Seq(S)
         /\ Len(Without(q, t)) = Len(q) - 1
         /\ \A i \in 1..(Len(q) - 1) :
              Without(q, t)[i] = IF i < Position(q, t) THEN q[i] ELSE q[i + 1]
<1> DEFINE p == Position(q, t)
           a == SubSeq(q, 1, p - 1)
           b == SubSeq(q, p + 1, Len(q))
<1>1. p \in 1..Len(q)  BY PositionOf
<1>2. Len(q) \in Nat  BY LenProperties
<1>3. p \in Int /\ 1 <= p /\ p <= Len(q)  BY <1>1, <1>2
<1>4. Without(q, t) = a \o b  BY DEF Without, RemoveAt
<1> HIDE DEF p
<1>5. \A i \in 1..(p - 1) : q[i] \in S  BY <1>2, <1>3, ElementOfSeq
<1>6. \A i \in (p + 1)..Len(q) : q[i] \in S  BY <1>2, <1>3, ElementOfSeq
<1>7. a \in Seq(S) /\ Len(a) = p - 1 /\ \A i \in 1..(p - 1) : a[i] = q[i]
  <2>1. /\ a \in Seq(S)
        /\ Len(a) = IF 1 <= p - 1 THEN p - 1 - 1 + 1 ELSE 0
        /\ \A i \in 1..(p - 1 - 1 + 1) : a[i] = q[1 + i - 1]
    BY <1>3, <1>5, SubSeqProperties
  <2>2. Len(a) = p - 1  BY <1>3, <2>1
  <2>3. ASSUME NEW i \in 1..(p - 1) PROVE a[i] = q[i]
    <3>1. i \in 1..(p - 1 - 1 + 1) /\ 1 + i - 1 = i  BY <1>3
    <3> QED  BY <3>1, <2>1
  <2> QED  BY <2>1, <2>2, <2>3
<1>8. b \in Seq(S) /\ Len(b) = Len(q) - p /\ \A i \in 1..(Len(q) - p) : b[i] = q[p + i]
  <2> DEFINE n == Len(q)
  <2>0. n \in Nat /\ p + 1 \in Int  BY <1>2, <1>3
  <2> HIDE DEF n
  <2>1. /\ SubSeq(q, p + 1, n) \in Seq(S)
        /\ Len(SubSeq(q, p + 1, n)) = IF p + 1 <= n THEN n - (p + 1) + 1 ELSE 0
        /\ \A i \in 1..(n - (p + 1) + 1) : SubSeq(q, p + 1, n)[i] = q[(p + 1) + i - 1]
    BY <2>0, <1>6, SubSeqProperties DEF n
  <2>2. Len(SubSeq(q, p + 1, n)) = n - p  BY <1>3, <2>0, <2>1 DEF n
  <2>3. ASSUME NEW i \in 1..(n - p) PROVE SubSeq(q, p + 1, n)[i] = q[p + i]
    <3>1. i \in 1..(n - (p + 1) + 1) /\ (p + 1) + i - 1 = p + i  BY <1>3, <2>0
    <3> QED  BY <3>1, <2>1
  <2> QED  BY <2>1, <2>2, <2>3 DEF n
<1> HIDE DEF a, b
<1>9. /\ a \o b \in Seq(S)
      /\ Len(a \o b) = Len(a) + Len(b)
      /\ \A i \in 1..(Len(a) + Len(b)) :
           (a \o b)[i] = IF i <= Len(a) THEN a[i] ELSE b[i - Len(a)]
  BY <1>7, <1>8, ConcatProperties
<1>10. Len(a) + Len(b) = Len(q) - 1  BY <1>2, <1>3, <1>7, <1>8
<1>11. ASSUME NEW i \in 1..(Len(q) - 1)
       PROVE  (a \o b)[i] = IF i < p THEN q[i] ELSE q[i + 1]
  <2>1. CASE i < p
    <3>1. i <= Len(a) /\ i \in 1..(p - 1) /\ i \in 1..(Len(a) + Len(b))
      BY <2>1, <1>2, <1>3, <1>7, <1>10
    <3> QED  BY <3>1, <2>1, <1>9, <1>7
  <2>2. CASE ~(i < p)
    <3>1. ~(i <= Len(a)) /\ i \in 1..(Len(a) + Len(b))  BY <2>2, <1>2, <1>3, <1>7, <1>10
    <3>2. i - Len(a) \in 1..(Len(q) - p) /\ p + (i - Len(a)) = i + 1
      BY <2>2, <1>2, <1>3, <1>7
    <3> QED  BY <3>1, <3>2, <2>2, <1>9, <1>8
  <2> QED  BY <2>1, <2>2
<1> QED  BY <1>4, <1>9, <1>10, <1>11 DEF p

(* run_queue_remove of a task with a predecessor closes the gap.            *)
LEMMA RemoveProperties ==
  ASSUME NEW S, NEW q \in Seq(S), NEW t, Contains(q, t), Position(q, t) > 1
  PROVE  /\ QRemove(q, t) \in Seq(S)
         /\ Len(QRemove(q, t)) = Len(q) - 1
         /\ \A i \in 1..(Len(q) - 1) :
              QRemove(q, t)[i] = IF i < Position(q, t) THEN q[i] ELSE q[i + 1]
BY WithoutProperties DEF QRemove

(* run_queue_remove keeps the queue a sequence over S.                      *)
LEMMA RemoveType ==
  ASSUME NEW S, NEW q \in Seq(S), NEW t
  PROVE  QRemove(q, t) \in Seq(S)
<1>1. CASE Contains(q, t) /\ Position(q, t) > 1  BY <1>1, RemoveProperties
<1>2. CASE ~(Contains(q, t) /\ Position(q, t) > 1)  BY <1>2 DEF QRemove
<1> QED  BY <1>1, <1>2

(* What is queued after a push, and after a pop.                            *)
LEMMA PushContains ==
  ASSUME NEW S, NEW q \in Seq(S), NEW c \in S, ~Contains(q, c), NEW t
  PROVE  Contains(QPush(q, c), t) <=> Contains(q, t) \/ t = c
<1>1. Len(q) \in Nat  BY LenProperties
<1>2. /\ Len(QPush(q, c)) = Len(q) + 1
      /\ \A i \in 1..Len(q) : QPush(q, c)[i] = q[i]
      /\ QPush(q, c)[Len(q) + 1] = c
  BY PushNew
<1>3. \A i : i \in 1..(Len(q) + 1) <=> i \in 1..Len(q) \/ i = Len(q) + 1  BY <1>1
<1> QED  BY <1>2, <1>3 DEF Contains

LEMMA PopContains ==
  ASSUME NEW S, NEW q \in Seq(S), NoDuplicates(q), q # <<>>, NEW t
  PROVE  Contains(QRest(q), t) <=> Contains(q, t) /\ t # q[1]
<1>1. /\ Len(q) \in Nat \ {0}
      /\ Len(QRest(q)) = Len(q) - 1
      /\ \A i \in 1..(Len(q) - 1) : QRest(q)[i] = q[i + 1]
  BY PopProperties
<1>2. ASSUME Contains(QRest(q), t) PROVE Contains(q, t) /\ t # q[1]
  <2>1. PICK i \in 1..(Len(q) - 1) : q[i + 1] = t  BY <1>1, <1>2 DEF Contains
  <2>2. i + 1 \in 1..Len(q) /\ i + 1 # 1 /\ 1 \in 1..Len(q)  BY <1>1
  <2> QED  BY <2>1, <2>2 DEF Contains, NoDuplicates
<1>3. ASSUME Contains(q, t), t # q[1] PROVE Contains(QRest(q), t)
  <2>1. PICK i \in 1..Len(q) : q[i] = t  BY <1>3 DEF Contains
  <2>2. i - 1 \in 1..(Len(q) - 1) /\ (i - 1) + 1 = i  BY <1>1, <1>3, <2>1
  <2> QED  BY <2>1, <2>2, <1>1 DEF Contains
<1> QED  BY <1>2, <1>3

(* After unlinking t everything but t is still linked, once.                *)
LEMMA WithoutContains ==
  ASSUME NEW S, NEW q \in Seq(S), NoDuplicates(q), NEW t
  PROVE  /\ Without(q, t) \in Seq(S) /\ NoDuplicates(Without(q, t))
         /\ \A u : Contains(Without(q, t), u) <=> Contains(q, u) /\ u # t
<1>1. CASE ~Contains(q, t)
  BY <1>1 DEF Without
<1>2. CASE Contains(q, t)
  <2> DEFINE r == Without(q, t)
             p == Position(q, t)
  <2>1. p \in 1..Len(q) /\ q[p] = t  BY <1>2, PositionOf
  <2>2. /\ r \in Seq(S) /\ Len(r) = Len(q) - 1
        /\ \A i \in 1..(Len(q) - 1) : r[i] = IF i < p THEN q[i] ELSE q[i + 1]
    BY <1>2, WithoutProperties
  <2>3. Len(q) \in Nat \ {0}
    <3>1. Len(q) \in Nat  BY LenProperties
    <3> QED  BY <2>1, <3>1
  <2> HIDE DEF p, r
  <2> DEFINE at(i) == IF i < p THEN i ELSE i + 1
  <2>4. \A i \in 1..(Len(q) - 1) : at(i) \in 1..Len(q) /\ at(i) # p /\ r[i] = q[at(i)]
    BY <2>1, <2>2, <2>3
  <2>5. NoDuplicates(r)
    <3>1. ASSUME NEW i \in 1..(Len(q) - 1), NEW j \in 1..(Len(q) - 1), r[i] = r[j]
          PROVE  i = j
      <4>1. at(i) = at(j)  BY <2>4, <3>1 DEF NoDuplicates
      <4> QED  BY <2>1, <2>3, <4>1
    <3> QED  BY <2>2, <3>1 DEF NoDuplicates
  <2>6. ASSUME NEW u PROVE Contains(r, u) <=> Contains(q, u) /\ u # t
    <3>1. ASSUME Contains(r, u) PROVE Contains(q, u) /\ u # t
      <4>1. PICK i \in 1..(Len(q) - 1) : r[i] = u  BY <2>2, <3>1 DEF Contains
      <4>2. at(i) \in 1..Len(q) /\ at(i) # p /\ u = q[at(i)]  BY <2>4, <4>1
      <4> HIDE DEF at
      <4> QED  BY <2>1, <4>2 DEF Contains, NoDuplicates
    <3>2. ASSUME Contains(q, u), u # t PROVE Contains(r, u)
      <4>1. PICK j \in 1..Len(q) : q[j] = u  BY <3>2 DEF Contains
      <4>2. j # p  BY <2>1, <3>2, <4>1
      <4>3. CASE j < p
        <5>1. j \in 1..(Len(q) - 1)  BY <2>1, <2>3, <4>3
        <5> QED  BY <2>2, <4>1, <4>3, <5>1 DEF Contains
      <4>4. CASE j > p
        <5>1. j - 1 \in 1..(Len(q) - 1) /\ ~(j - 1 < p) /\ j - 1 + 1 = j
          BY <2>1, <2>3, <4>4
        <5> QED  BY <2>2, <4>1, <5>1 DEF Contains
      <4> QED  BY <2>1, <4>2, <4>3, <4>4
    <3> QED  BY <3>1, <3>2
  <2> QED  BY <2>2, <2>5, <2>6 DEF r
<1> QED  BY <1>1, <1>2

(* Linking an element that is not yet linked in front.                      *)
LEMMA ConsContains ==
  ASSUME NEW S, NEW q \in Seq(S), NoDuplicates(q), NEW t \in S, ~Contains(q, t)
  PROVE  /\ <<t>> \o q \in Seq(S) /\ NoDuplicates(<<t>> \o q)
         /\ \A u : Contains(<<t>> \o q, u) <=> Contains(q, u) \/ u = t
<1> DEFINE r == <<t>> \o q
<1>1. Len(q) \in Nat  BY LenProperties
<1>2. <<t>> \in Seq(S) /\ Len(<<t>>) = 1 /\ <<t>>[1] = t  OBVIOUS
<1>3. /\ r \in Seq(S) /\ Len(r) = Len(<<t>>) + Len(q)
      /\ \A i \in 1..(Len(<<t>>) + Len(q)) :
           r[i] = IF i <= Len(<<t>>) THEN <<t>>[i] ELSE q[i - Len(<<t>>)]
  BY <1>2, ConcatProperties
<1> HIDE DEF r
<1>4. Len(r) = 1 + Len(q) /\ r[1] = t /\ \A i \in 1..Len(q) : r[i + 1] = q[i]
  <2>1. Len(r) = 1 + Len(q) /\ r[1] = t  BY <1>1, <1>2, <1>3
  <2>2. ASSUME NEW i \in 1..Len(q) PROVE r[i + 1] = q[i]
    <3>1. i + 1 \in 1..(1 + Len(q)) /\ ~(i + 1 <= 1) /\ i + 1 - 1 = i  BY <1>1
    <3> QED  BY <1>2, <1>3, <3>1
  <2> QED  BY <2>1, <2>2
<1>5. \A i \in 1..Len(r) : i = 1 \/ (i - 1 \in 1..Len(q) /\ r[i] = q[i - 1])
  <2>1. ASSUME NEW i \in 1..Len(r), i # 1 PROVE i - 1 \in 1..Len(q) /\ r[i] = q[i - 1]
    <3>1. i - 1 \in 1..Len(q) /\ i - 1 + 1 = i  BY <1>1, <1>4, <2>1
    <3> QED  BY <1>4, <3>1
  <2> QED  BY <2>1
<1>6. NoDuplicates(r)
  <2>1. ASSUME NEW i \in 1..Len(r), NEW j \in 1..Len(r), r[i] = r[j] PROVE i = j
    <3>1. i \in Nat /\ j \in Nat  BY <1>1, <1>4
    <3>2. CASE i = 1  BY <1>4, <1>5, <2>1, <3>2 DEF Contains
    <3>3. CASE j = 1  BY <1>4, <1>5, <2>1, <3>3 DEF Contains
    <3>4. CASE i # 1 /\ j # 1
      <4>1. i - 1 = j - 1  BY <1>5, <2>1, <3>4 DEF NoDuplicates
      <4> QED  BY <3>1, <4>1
    <3> QED  BY <3>2, <3>3, <3>4
  <2> QED  BY <2>1 DEF NoDuplicates
<1>7. ASSUME NEW u PROVE Contains(r, u) <=> Contains(q, u) \/ u = t
  <2>1. 1 \in 1..Len(r) /\ \A i \in 1..Len(q) : i + 1 \in 1..Len(r)  BY <1>1, <1>4
  <2> QED  BY <1>4, <1>5, <2>1 DEF Contains
<1> QED  BY <1>3, <1>6, <1>7 DEF r

(***************************************************************************)
(* One turn: the head leaves and a task that was not queued goes to the end *)
(* of the line.                                                             *)
(***************************************************************************)
LEMMA Rotate ==
  ASSUME NEW S, NEW q \in Seq(S), NoDuplicates(q), q # <<>>,
         NEW c \in S, ~Contains(q, c)
  PROVE  LET r == QPush(QRest(q), c)
         IN  /\ r \in Seq(S) /\ NoDuplicates(r) /\ Last(r) = c
             /\ r = Append(Tail(q), c) /\ QFirst(q) = Head(q)
             /\ Head(q) \in S /\ Contains(q, Head(q))
             /\ \A t : Contains(r, t) <=> (Contains(q, t) /\ t # Head(q)) \/ t = c
<1>1. QRest(q) \in Seq(S) /\ QRest(q) = Tail(q) /\ q[1] \in S /\ Len(q) \in Nat \ {0}
  BY PopProperties DEF QRest
<1>2. NoDuplicates(QRest(q))  BY PopNoDuplicates
<1>3. ~Contains(QRest(q), c)  BY PopContains
<1>4. Head(q) = q[1] /\ QFirst(q) = Head(q)  BY <1>1 DEF QFirst
<1>5. Contains(q, q[1])  BY <1>1 DEF Contains
<1> DEFINE p == QRest(q)
           r == QPush(p, c)
<1> HIDE DEF p
<1>6. p \in Seq(S) /\ NoDuplicates(p) /\ ~Contains(p, c) /\ p = Tail(q)
  BY <1>1, <1>2, <1>3 DEF p
<1>7. r \in Seq(S) /\ NoDuplicates(r) /\ Last(r) = c  BY <1>6, PushTail, PushNoDuplicates
<1>8. r = Append(Tail(q), c)  BY <1>6, PushNew
<1>9. ASSUME NEW t PROVE Contains(r, t) <=> (Contains(q, t) /\ t # Head(q)) \/ t = c
  <2>1. Contains(r, t) <=> Contains(p, t) \/ t = c  BY <1>6, PushContains
  <2>2. Contains(p, t) <=> Contains(q, t) /\ t # q[1]  BY PopContains DEF p
  <2> QED  BY <2>1, <2>2, <1>4
<1> QED  BY <1>1, <1>4, <1>5, <1>7, <1>8, <1>9 DEF p

(***************************************************************************)
(* Whatever the queue, push adds nothing but the task, pop adds nothing.    *)
(***************************************************************************)
LEMMA PushAddsOne ==
  ASSUME NEW S, NEW q \in Seq(S), NEW c \in S, NEW t, Contains(QPush(q, c), t)
  PROVE  Contains(q, t) \/ t = c
<1>1. CASE Contains(q, c)
  <2>1. Len(q) \in Nat /\ Position(q, c) \in 1..Len(q)  BY <1>1, LenProperties, PositionOf
  <2>2. 1..Position(q, c) \subseteq 1..Len(q)  BY <2>1
  <2> QED  BY <1>1, <2>2, PushLinked DEF Contains
<1>2. CASE ~Contains(q, c)
  BY <1>2, PushContains
<1> QED  BY <1>1, <1>2

LEMMA PopAddsNone ==
  ASSUME NEW S, NEW q \in Seq(S), NEW t, Contains(QRest(q), t)
  PROVE  Contains(q, t)
<1>1. CASE q = <<>>  BY <1>1, PopProperties
<1>2. CASE q # <<>>
  <2>1. /\ Len(q) \in Nat \ {0} /\ Len(QRest(q)) = Len(q) - 1
        /\ \A i \in 1..(Len(q) - 1) : QRest(q)[i] = q[i + 1]
    BY <1>2, PopProperties
  <2>2. \A i \in 1..(Len(q) - 1) : i + 1 \in 1..Len(q)  BY <2>1
  <2> QED  BY <2>1, <2>2 DEF Contains
<1> QED  BY <1>1, <1>2

(* A task that is head and tail is all there is.                            *)
LEMMA HeadIsTail ==
  ASSUME NEW S, NEW q \in Seq(S), NoDuplicates(q), q # <<>>, NEW t, q[1] = t, Last(q) = t
  PROVE  q = <<t>>
<1>1. Len(q) \in Nat \ {0} /\ t \in S  BY PopProperties
<1>2. Len(q) = 1
  <2>1. 1 \in 1..Len(q) /\ Len(q) \in 1..Len(q)  BY <1>1
  <2>2. q[1] = q[Len(q)]  BY DEF Last
  <2> QED  BY <2>1, <2>2 DEF NoDuplicates
<1>3. <<t>> \in Seq(S) /\ Len(<<t>>) = 1 /\ <<t>>[1] = t  BY <1>1
<1> QED  BY <1>2, <1>3, SeqEqual

(***************************************************************************)
(* run_queue_remove of a task that stands at the end of the queue, if at    *)
(* all: it is gone, unless it is alone, since the head is not unlinked.     *)
(***************************************************************************)
LEMMA RemoveTail ==
  ASSUME NEW S, NEW q \in Seq(S), NoDuplicates(q), NEW t, Contains(q, t) => Last(q) = t
  PROVE  /\ QRemove(q, t) \in Seq(S) /\ NoDuplicates(QRemove(q, t))
         /\ \A u : Contains(QRemove(q, t), u) => Contains(q, u)
         /\ Contains(QRemove(q, t), t) => q = <<t>> /\ QRemove(q, t) = <<t>>
<1>1. CASE Contains(q, t) /\ Position(q, t) > 1
  BY <1>1, WithoutContains DEF QRemove
<1>2. CASE ~(Contains(q, t) /\ Position(q, t) > 1)
  <2>1. QRemove(q, t) = q  BY <1>2 DEF QRemove
  <2>2. ASSUME Contains(q, t) PROVE q = <<t>>
    <3>1. Position(q, t) \in 1..Len(q) /\ q[Position(q, t)] = t  BY <2>2, PositionOf
    <3>2. Len(q) \in Nat  BY LenProperties
    <3>3. Position(q, t) = 1 /\ q # <<>>  BY <1>2, <2>2, <3>1, <3>2, EmptySeq
    <3> QED  BY <2>2, <3>1, <3>3, HeadIsTail
  <2> QED  BY <2>1, <2>2
<1> QED  BY <1>1, <1>2
=============================================================================

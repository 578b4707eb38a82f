---------------------------- MODULE DriversProof ----------------------------
(***************************************************************************)
(* Proofs about the drivers: PrintedOnce of Uart, for any number of tasks,  *)
(* texts and any length of the transmit queue, and AnswerIsThere of         *)
(* Mailbox, for any queues and messages.                                    *)
(***************************************************************************)
EXTENDS MCDrivers, SequenceTheorems, FiniteSetTheorems, WellFoundedInduction, TLAPS

(* A set of natural numbers has a least element.                           *)
LEMMA LeastNat ==
  ASSUME NEW T, T \subseteq Nat, T # {}
  PROVE  \E m \in T : \A k \in T : m <= k
<1>1. PICK m \in T : \A k \in T : ~(<<k, m>> \in OpToRel(<, Nat))
  BY NatLessThanWellFounded, WFMin
<1>2. \A k \in T : ~(k < m)  BY <1>1 DEF OpToRel
<1> QED  BY <1>2
-----------------------------------------------------------------------------
(* The text that uart_put sends.                                           *)

(* FlattenSeq's function exists: one for i parts extends one for i - 1.    *)
Flattens(f, seqs, n) ==
  f = [i \in 1..n |-> IF i = 1 THEN seqs[i] ELSE f[i - 1] \o seqs[i]]

LEMMA FlattenExists ==
  ASSUME NEW n \in Nat, NEW seqs
  PROVE  \E f : Flattens(f, seqs, n)
<1> DEFINE Bad == {m \in Nat : ~ \E f : Flattens(f, seqs, m)}
<1>1. SUFFICES ASSUME Bad # {} PROVE FALSE  OBVIOUS
<1>2. PICK m \in Bad : \A k \in Bad : m <= k  BY <1>1, LeastNat
<1>3. CASE m = 0
  <2>1. Flattens([i \in 1..0 |-> 0], seqs, 0)  BY DEF Flattens
  <2> QED  BY <1>2, <1>3, <2>1
<1>4. CASE m # 0
  <2>1. m - 1 \in Nat /\ m - 1 \notin Bad  BY <1>2, <1>4
  <2>2. PICK f : Flattens(f, seqs, m - 1)  BY <2>1
  <2>3. /\ DOMAIN f = 1..(m - 1)
        /\ \A i \in 1..(m - 1) : f[i] = IF i = 1 THEN seqs[i] ELSE f[i - 1] \o seqs[i]
    BY <2>2 DEF Flattens
  <2> DEFINE g == [i \in 1..m |-> IF i < m THEN f[i]
                                  ELSE IF i = 1 THEN seqs[i] ELSE f[i - 1] \o seqs[i]]
  <2>4. ASSUME NEW i \in 1..m
        PROVE  g[i] = IF i = 1 THEN seqs[i] ELSE g[i - 1] \o seqs[i]
    <3>1. CASE i < m
      <4>1. i \in 1..(m - 1) /\ g[i] = f[i]  BY <3>1
      <4>2. i # 1 => i - 1 \in 1..(m - 1) /\ g[i - 1] = f[i - 1]  BY <3>1
      <4> QED  BY <4>1, <4>2, <2>3
    <3>2. CASE i = m
      <4>1. g[i] = IF i = 1 THEN seqs[i] ELSE f[i - 1] \o seqs[i]  BY <3>2
      <4>2. i # 1 => i - 1 \in 1..m /\ i - 1 < m  BY <3>2
      <4>3. i # 1 => g[i - 1] = f[i - 1]  BY <4>2
      <4> QED  BY <4>1, <4>3
    <3> QED  BY <3>1, <3>2
  <2>5. Flattens(g, seqs, m)
    <3> HIDE DEF g
    <3> DEFINE h == [i \in 1..m |-> IF i = 1 THEN seqs[i] ELSE g[i - 1] \o seqs[i]]
    <3>1. g = [i \in 1..m |-> g[i]]  BY DEF g
    <3>2. \A i \in 1..m : g[i] = h[i]  BY <2>4
    <3>3. g = h  BY <3>1, <3>2
    <3> QED  BY <3>3 DEF Flattens
  <2> QED  BY <1>2, <2>5
<1> QED  BY <1>3, <1>4

(* A text in which a line feed only ever stands behind a carriage return.  *)
Alphabet == (UNION {ToSet(x) : x \in Texts}) \cup {LF, CR}
Returned(s) == /\ s \in Seq(Alphabet)
               /\ \A k \in 1..Len(s) : s[k] = LF => k > 1 /\ s[k - 1] = CR

LEMMA ReturnedConcat ==
  ASSUME NEW s, NEW u, Returned(s), Returned(u)
  PROVE  Returned(s \o u)
<1> DEFINE S == Alphabet
<1>1. s \in Seq(S) /\ u \in Seq(S)  BY DEF Returned
<1>2. /\ s \o u \in Seq(S) /\ Len(s \o u) = Len(s) + Len(u)
      /\ \A i \in 1..Len(s) + Len(u) :
           (s \o u)[i] = IF i <= Len(s) THEN s[i] ELSE u[i - Len(s)]
  <2> HIDE DEF S
  <2> QED  BY <1>1, ConcatProperties
<1>3. Len(s) \in Nat /\ Len(u) \in Nat
  <2> HIDE DEF S
  <2> QED  BY <1>1, LenProperties
<1>4. ASSUME NEW k \in 1..Len(s \o u), (s \o u)[k] = LF
      PROVE  k > 1 /\ (s \o u)[k - 1] = CR
  <2> HIDE DEF S
  <2>0. k \in Int /\ 1 <= k /\ k <= Len(s) + Len(u)  BY <1>2, <1>3
  <2>1. CASE k <= Len(s)
    <3>1. s[k] = LF  BY <1>2, <1>4, <2>0, <2>1, <1>3
    <3>2. k > 1 /\ s[k - 1] = CR  BY <3>1, <2>1, <2>0, <1>3 DEF Returned
    <3>3. (s \o u)[k - 1] = s[k - 1]  BY <3>2, <1>2, <1>3, <2>1, <2>0
    <3> QED  BY <3>2, <3>3
  <2>2. CASE k > Len(s)
    <3>1. u[k - Len(s)] = LF  BY <1>2, <1>4, <2>0, <2>2, <1>3
    <3>2. k - Len(s) > 1 /\ u[k - Len(s) - 1] = CR
      BY <3>1, <2>2, <2>0, <1>3 DEF Returned
    <3>3. (s \o u)[k - 1] = u[k - 1 - Len(s)]  BY <3>2, <1>2, <1>3, <2>2, <2>0
    <3>4. k - 1 - Len(s) = k - Len(s) - 1  BY <2>0, <1>3
    <3> QED  BY <3>2, <3>3, <3>4, <2>0, <1>3
  <2> QED  BY <2>1, <2>2, <1>3, <2>0
<1> QED  BY <1>2, <1>4 DEF Returned

LEMMA ReturnedFlatten ==
  ASSUME NEW n \in Nat \ {0}, NEW seqs, DOMAIN seqs = 1..n, Len(seqs) = n,
         \A i \in 1..n : Returned(seqs[i])
  PROVE  Returned(FlattenSeq(seqs))
<1> DEFINE f == CHOOSE f : Flattens(f, seqs, n)
<1>1. Flattens(f, seqs, n)  BY FlattenExists
<1>2. FlattenSeq(seqs) = f[n]
  BY DEF FlattenSeq, Flattens
<1> HIDE DEF f
<1>3. \A i \in 1..n : f[i] = IF i = 1 THEN seqs[i] ELSE f[i - 1] \o seqs[i]
  BY <1>1 DEF Flattens
<1> DEFINE Bad == {i \in 1..n : ~Returned(f[i])}
<1>4. ASSUME Bad # {} PROVE FALSE
  <2>1. Bad \subseteq Nat  OBVIOUS
  <2>2. PICK m \in Bad : \A k \in Bad : m <= k  BY <1>4, <2>1, LeastNat
  <2>3. m # 1  BY <1>3, <2>2
  <2>4. m - 1 \in 1..n /\ m - 1 \notin Bad  BY <2>2, <2>3
  <2>5. Returned(f[m - 1]) /\ Returned(seqs[m])  BY <2>4, <2>2
  <2>6. f[m] = f[m - 1] \o seqs[m]  BY <1>3, <2>2, <2>3
  <2> QED  BY <2>2, <2>5, <2>6, ReturnedConcat
<1> QED  BY <1>2, <1>4

(* What uart_put sends for any text: each line feed behind its return.     *)
LEMMA PutReturns ==
  ASSUME text \in [Tasks -> Texts], NEW t \in Tasks
  PROVE  Returned(uart_put(t))
<1> DEFINE s == text[t]
           piece(c) == IF c = LF THEN <<CR, LF>> ELSE <<c>>
           seqs == [i \in DOMAIN s |-> IF s[i] = LF THEN <<CR, LF>> ELSE <<s[i]>>]
           S == Alphabet
<1>1. s \in Texts /\ s \in Seq(ToSet(s))  BY UartAssumption
<1>2. /\ Len(s) \in Nat /\ DOMAIN s = 1..Len(s)
      /\ \A i \in 1..Len(s) : s[i] \in ToSet(s)
  <2> HIDE DEF s
  <2> QED  BY <1>1, LenProperties
<1>3. LF \in S /\ CR \in S /\ \A i \in 1..Len(s) : s[i] \in S  BY <1>1, <1>2 DEF Alphabet
<1>4. ASSUME NEW i \in 1..Len(s) PROVE Returned(seqs[i])
  <2>1. CASE s[i] = LF
    <3>1. seqs[i] = <<CR, LF>>  BY <2>1, <1>2
    <3>2. <<CR, LF>> \in Seq(S) /\ Len(<<CR, LF>>) = 2  BY <1>3
    <3>3. \A k \in 1..2 : <<CR, LF>>[k] = LF => k > 1 /\ <<CR, LF>>[k - 1] = CR
      BY UartAssumption
    <3> QED  BY <3>1, <3>2, <3>3 DEF Returned
  <2>2. CASE s[i] # LF
    <3>1. seqs[i] = <<s[i]>>  BY <2>2, <1>2
    <3>2. <<s[i]>> \in Seq(S) /\ Len(<<s[i]>>) = 1  BY <1>3
    <3>3. \A k \in 1..1 : <<s[i]>>[k] # LF  BY <2>2
    <3> QED  BY <3>1, <3>2, <3>3 DEF Returned
  <2> QED  BY <2>1, <2>2
<1>5. uart_put(t) = FlattenSeq(seqs)  BY DEF uart_put
<1>6. DOMAIN seqs = 1..Len(s) /\ Len(seqs) = Len(s)  BY <1>2
<1>7. CASE Len(s) = 0
  <2>1. seqs = <<>>  BY <1>6, <1>7, <1>2
  <2>2. FlattenSeq(seqs) = <<>>  BY <2>1 DEF FlattenSeq
  <2> QED  BY <1>5, <2>2 DEF Returned
<1>8. CASE Len(s) # 0
  <2> HIDE DEF seqs, s
  <2> QED  BY <1>2, <1>4, <1>5, <1>6, <1>8, ReturnedFlatten
<1> QED  BY <1>7, <1>8
-----------------------------------------------------------------------------
(* Uart.                                                                    *)

(* The k-th character of a task.                                           *)
Sent(t, k) == <<t, k, uart_put(t)[k]>>
Numbered == UNION {{Sent(t, k) : k \in 1..Len(uart_put(t))} : t \in Tasks}
Upto(t) == {Sent(t, k) : k \in 1..sent[t]}

UartTypes ==
  /\ running \in Tasks /\ text \in [Tasks -> Texts]
  /\ sent \in [Tasks -> Nat] /\ pc \in [Tasks -> {"poll", "store"}]
  /\ \A t \in Tasks : /\ sent[t] <= Len(uart_put(t))
                      /\ pc[t] = "store" => ~Done(t)
  /\ fifo \in Seq(Numbered) /\ line \in Seq(Numbered)
  /\ Len(fifo) <= QueueSize
  /\ lost \subseteq Numbered

(* The characters sent are those on their way and those lost, each once.   *)
InOut(c) == \E i \in 1..Len(Output) : Output[i] = c
Accounted ==
  /\ \A t \in Tasks : \A k \in 1..sent[t] : InOut(Sent(t, k)) \/ Sent(t, k) \in lost
  /\ \A i \in 1..Len(Output) :
       \E t \in Tasks : \E k \in 1..sent[t] : Output[i] = Sent(t, k) /\ Sent(t, k) \notin lost
  /\ \A c \in lost : \E t \in Tasks : \E k \in 1..sent[t] : c = Sent(t, k)

Rising ==
  \A j \in 1..Len(Output) : \A i \in 1..(j - 1) :
    Output[i][1] = Output[j][1] => Output[i][2] < Output[j][2]

(* A task that stands behind the poll has been switched out there, or it    *)
(* runs and the place in the queue that it has seen is still free.          *)
SeenRoom ==
  \A t \in Tasks : pc[t] = "store" =>
    Character(t) \in preempted \/ (t = running /\ Len(fifo) < QueueSize)

UInv == UartTypes /\ Accounted /\ Rising /\ SeenRoom /\ lost \subseteq preempted

(* The output is a sequence; a character sent goes to its end.             *)
LEMMA OutputIs ==
  ASSUME UartTypes
  PROVE  /\ Output \in Seq(Numbered) /\ Len(Output) \in Nat
         /\ Len(Output) = Len(line) + Len(fifo)
         /\ \A c \in Numbered :
              /\ line \o Append(fifo, c) = Append(Output, c)
              /\ Append(fifo, c) \in Seq(Numbered)
              /\ Len(Append(fifo, c)) = Len(fifo) + 1
<1> USE DEF UartTypes
<1>1. Output \in Seq(Numbered) /\ Len(Output) = Len(line) + Len(fifo)
  BY ConcatProperties DEF Output
<1>2. Len(Output) \in Nat  BY <1>1, LenProperties
<1>3. ASSUME NEW c \in Numbered
      PROVE  /\ line \o Append(fifo, c) = Append(Output, c)
             /\ Append(fifo, c) \in Seq(Numbered)
             /\ Len(Append(fifo, c)) = Len(fifo) + 1
  <2>1. <<c>> \in Seq(Numbered)  OBVIOUS
  <2>2. Append(fifo, c) = fifo \o <<c>> /\ Append(Output, c) = Output \o <<c>>
    BY <1>1, AppendIsConcat
  <2>3. line \o (fifo \o <<c>>) = (line \o fifo) \o <<c>>
    BY <2>1, ConcatAssociative
  <2> QED  BY <2>2, <2>3, AppendProperties DEF Output
<1> QED  BY <1>1, <1>2, <1>3

(* Characters are told apart by their task and their number.               *)
LEMMA SentIs ==
  ASSUME NEW t, NEW k, NEW u, NEW l, Sent(t, k) = Sent(u, l)
  PROVE  t = u /\ k = l
BY DEF Sent

LEMMA CharacterIs ==
  ASSUME UartTypes, NEW t \in Tasks, ~Done(t)
  PROVE  /\ Character(t) = Sent(t, sent[t] + 1) /\ sent[t] + 1 \in 1..Len(uart_put(t))
         /\ Character(t) \in Numbered
<1>1. Len(uart_put(t)) \in Nat
  BY PutReturns, LenProperties DEF Returned, UartTypes
<1>2. sent[t] + 1 \in 1..Len(uart_put(t))  BY <1>1 DEF Done, UartTypes
<1> QED  BY <1>2 DEF Character, Sent, Numbered

(* What is said of the output and of the numbers is kept if both are.      *)
LEMMA TextKept ==
  ASSUME text' = text
  PROVE  /\ \A t : uart_put(t)' = uart_put(t)
         /\ \A t, k : Sent(t, k)' = Sent(t, k)
         /\ Numbered' = Numbered
<1>1. \A t : uart_put(t)' = uart_put(t)  BY DEF uart_put
<1> QED  BY <1>1 DEF Sent, Numbered

LEMMA InitU == Init => UInv
<1> SUFFICES ASSUME Init PROVE UInv  OBVIOUS
<1> USE DEF Init
<1>1. \A t \in Tasks : Len(uart_put(t)) \in Nat
  BY PutReturns, LenProperties DEF Returned
<1>2. UartTypes  BY <1>1, UartAssumption DEF UartTypes
<1>3. Output = <<>> /\ Len(Output) = 0  BY DEF Output
<1>4. Accounted /\ Rising  BY <1>3 DEF Accounted, Rising
<1>5. SeenRoom  BY DEF SeenRoom
<1> QED  BY <1>2, <1>4, <1>5 DEF UInv

LEMMA pollU == ASSUME UInv, NEW t \in Tasks, poll(t) PROVE UInv'
<1> USE DEF UInv, poll
<1>1. /\ \A u : uart_put(u)' = uart_put(u)
      /\ \A u, k : Sent(u, k)' = Sent(u, k)
      /\ Numbered' = Numbered
  BY TextKept
<1>2. UartTypes'  BY <1>1 DEF UartTypes, Done
<1>3. Output' = Output  BY DEF Output
<1>4. Accounted' /\ Rising'  BY <1>1, <1>3 DEF Accounted, Rising, InOut
<1>5. SeenRoom'
  <2>1. ASSUME NEW u \in Tasks, pc'[u] = "store"
        PROVE  Character(u)' \in preempted' \/ (u = running' /\ Len(fifo') < QueueSize)
    <3>1. CASE u = t  BY <3>1 DEF Ready
    <3>2. CASE u # t
      <4>1. pc[u] = "store"  BY <2>1, <3>2 DEF UartTypes
      <4>2. Character(u)' = Character(u)  BY <1>1 DEF Character
      <4> QED  BY <4>1, <4>2 DEF SeenRoom
    <3> QED  BY <3>1, <3>2
  <2> QED  BY <2>1 DEF SeenRoom
<1> QED  BY <1>2, <1>4, <1>5

LEMMA preemptU == ASSUME UInv, NEW t \in Tasks, preempt(t) PROVE UInv'
<1> USE DEF UInv, preempt
<1>1. /\ \A u : uart_put(u)' = uart_put(u)
      /\ \A u, k : Sent(u, k)' = Sent(u, k)
      /\ Numbered' = Numbered
  BY TextKept
<1>2. UartTypes'  BY <1>1 DEF UartTypes, Done
<1>3. Output' = Output  BY DEF Output
<1>4. Accounted' /\ Rising'  BY <1>1, <1>3 DEF Accounted, Rising, InOut
<1>5. SeenRoom'
  <2>1. \A u : Character(u)' = Character(u)  BY <1>1 DEF Character
  <2>2. ASSUME NEW u \in Tasks, pc[u] = "store" PROVE Character(u) \in preempted'
    BY <2>2 DEF SeenRoom
  <2> QED  BY <2>1, <2>2 DEF SeenRoom
<1> QED  BY <1>2, <1>4, <1>5

LEMMA transmitU == ASSUME UInv, transmit PROVE UInv'
<1> USE DEF UInv, transmit
<1>1. /\ \A u : uart_put(u)' = uart_put(u)
      /\ \A u, k : Sent(u, k)' = Sent(u, k)
      /\ Numbered' = Numbered
  BY TextKept
<1>2. /\ Head(fifo) \in Numbered /\ Tail(fifo) \in Seq(Numbered)
      /\ Len(Tail(fifo)) = Len(fifo) - 1
      /\ Append(line, Head(fifo)) \in Seq(Numbered)
      /\ Len(fifo) \in Nat
  BY HeadTailProperties, AppendProperties, LenProperties DEF UartTypes
<1>3. QueueSize \in Nat  BY UartAssumption
<1>4. UartTypes'  BY <1>1, <1>2, <1>3 DEF UartTypes, Done
<1>5. Output' = Output
  <2>1. <<Head(fifo)>> \in Seq(Numbered)  BY <1>2
  <2>2. fifo = <<Head(fifo)>> \o Tail(fifo)  BY <1>2 DEF UartTypes
  <2>3. Append(line, Head(fifo)) = line \o <<Head(fifo)>>
    BY <1>2, AppendIsConcat DEF UartTypes
  <2>4. (line \o <<Head(fifo)>>) \o Tail(fifo) = line \o (<<Head(fifo)>> \o Tail(fifo))
    BY <2>1, <1>2, ConcatAssociative DEF UartTypes
  <2> QED  BY <2>2, <2>3, <2>4 DEF Output
<1>6. Accounted' /\ Rising'  BY <1>1, <1>5 DEF Accounted, Rising, InOut
<1>7. SeenRoom'
  <2>1. \A u : Character(u)' = Character(u)  BY <1>1 DEF Character
  <2>2. Len(fifo) < QueueSize => Len(fifo') < QueueSize  BY <1>2, <1>3
  <2> QED  BY <2>1, <2>2 DEF SeenRoom
<1> QED  BY <1>4, <1>6, <1>7

(* The character is new: it goes to the end of the output, or is lost by a  *)
(* task that has been switched out.                                        *)
LEMMA storeU == ASSUME UInv, NEW t \in Tasks, store(t) PROVE UInv'
<1> DEFINE c == Character(t)
<1> USE DEF UInv, store
<1>1. /\ \A u : uart_put(u)' = uart_put(u)
      /\ \A u, k : Sent(u, k)' = Sent(u, k)
      /\ Numbered' = Numbered
  BY TextKept
<1>2. ~Done(t) /\ sent[t] \in Nat  BY DEF UartTypes
<1>3. /\ c = Sent(t, sent[t] + 1) /\ c \in Numbered
      /\ sent[t] + 1 \in 1..Len(uart_put(t))
  BY <1>2, CharacterIs
<1>4. /\ sent' \in [Tasks -> Nat] /\ sent'[t] = sent[t] + 1
      /\ \A u \in Tasks : u # t => sent'[u] = sent[u]
      /\ \A u \in Tasks : \A k \in 1..sent[u] : k \in 1..sent'[u]
      /\ \A u \in Tasks : \A k \in 1..sent'[u] :
           k \in 1..sent[u] \/ (u = t /\ k = sent[t] + 1)
  BY <1>2 DEF UartTypes
<1>5. \A u \in Tasks : \A k \in 1..sent[u] : Sent(u, k) # c
  <2> HIDE DEF c
  <2> QED  BY <1>2, <1>3, SentIs DEF UartTypes
<1>6. /\ Len(Output) \in Nat /\ Output \in Seq(Numbered)
      /\ line \o Append(fifo, c) = Append(Output, c)
      /\ Append(fifo, c) \in Seq(Numbered) /\ Len(Append(fifo, c)) = Len(fifo) + 1
      /\ Len(fifo) \in Nat
  BY <1>3, OutputIs, LenProperties DEF UartTypes
<1>7. UartTypes'
  <2>1. QueueSize \in Nat  BY UartAssumption
  <2>2. fifo' \in Seq(Numbered) /\ Len(fifo') <= QueueSize /\ lost' \subseteq Numbered
    <3>1. CASE Len(fifo) < QueueSize
      <4>1. fifo' = Append(fifo, c) /\ lost' = lost  BY <3>1
      <4> HIDE DEF c
      <4> QED  BY <3>1, <4>1, <1>6, <2>1 DEF UartTypes
    <3>2. CASE ~(Len(fifo) < QueueSize)
      <4>1. fifo' = fifo /\ lost' = lost \cup {c}  BY <3>2
      <4> HIDE DEF c
      <4> QED  BY <4>1, <1>3 DEF UartTypes
    <3> QED  BY <3>1, <3>2
  <2>3. ASSUME NEW u \in Tasks
        PROVE  sent'[u] <= Len(uart_put(u)) /\ (pc'[u] = "store" => ~Done(u)')
    <3>1. CASE u = t
      <4>1. Len(uart_put(t)) \in Nat  BY PutReturns, LenProperties DEF Returned, UartTypes
      <4> QED  BY <3>1, <4>1, <1>3, <1>4 DEF UartTypes
    <3>2. CASE u # t  BY <3>2, <1>1, <1>4 DEF UartTypes, Done
    <3> QED  BY <3>1, <3>2
  <2> QED  BY <1>1, <1>4, <2>2, <2>3 DEF UartTypes
<1>8. SeenRoom'
  <2>1. ASSUME NEW u \in Tasks, pc'[u] = "store" PROVE Character(u)' \in preempted'
    <3>1. u # t /\ pc[u] = "store"  BY <2>1 DEF UartTypes
    <3>2. Character(u)' = Character(u)  BY <3>1, <1>1, <1>4 DEF Character
    <3> QED  BY <3>1, <3>2 DEF SeenRoom
  <2> QED  BY <2>1 DEF SeenRoom
<1> HIDE DEF c
<1>9. CASE Len(fifo) < QueueSize
  <2>1. Output' = Append(Output, c) /\ lost' = lost  BY <1>6, <1>9 DEF Output, c
  <2>2. /\ Len(Output') = Len(Output) + 1 /\ Output'[Len(Output) + 1] = c
        /\ \A i \in 1..Len(Output) : Output'[i] = Output[i]
    BY <1>3, <1>6, <2>1, AppendProperties
  <2>3. c \notin lost  BY <1>5 DEF Accounted
  <2>4. Accounted'
    <3>1. ASSUME NEW u \in Tasks, NEW k \in 1..sent'[u]
          PROVE  InOut(Sent(u, k))' \/ Sent(u, k) \in lost
      <4>1. CASE k \in 1..sent[u]
        <5>1. InOut(Sent(u, k)) => InOut(Sent(u, k))'
          BY <1>1, <1>6, <2>2 DEF InOut
        <5> QED  BY <4>1, <5>1 DEF Accounted
      <4>2. CASE u = t /\ k = sent[t] + 1
        BY <4>2, <1>1, <1>3, <1>6, <2>2 DEF InOut
      <4> QED  BY <4>1, <4>2, <1>4
    <3>2. ASSUME NEW i \in 1..Len(Output')
          PROVE  \E u \in Tasks : \E k \in 1..sent'[u] :
                   Output'[i] = Sent(u, k) /\ Sent(u, k) \notin lost
      <4>1. CASE i \in 1..Len(Output)  BY <4>1, <1>4, <2>2 DEF Accounted
      <4>2. CASE i = Len(Output) + 1
        <5>1. sent[t] + 1 \in 1..sent'[t]  BY <1>2, <1>4
        <5> QED  BY <4>2, <5>1, <1>3, <2>2, <2>3
      <4> QED  BY <4>1, <4>2, <2>2, <1>6
    <3>3. \A d \in lost : \E u \in Tasks : \E k \in 1..sent'[u] : d = Sent(u, k)
      BY <1>4 DEF Accounted
    <3> QED  BY <1>1, <2>1, <3>1, <3>2, <3>3 DEF Accounted
  <2>5. Rising'
    <3>1. ASSUME NEW j \in 1..Len(Output'), NEW i \in 1..(j - 1),
                 Output'[i][1] = Output'[j][1]
          PROVE  Output'[i][2] < Output'[j][2]
      <4>1. i \in 1..Len(Output) /\ Output'[i] = Output[i]  BY <1>6, <2>2
      <4>2. CASE j \in 1..Len(Output)  BY <3>1, <4>1, <4>2, <2>2 DEF Rising
      <4>3. CASE j = Len(Output) + 1
        <5>0. PICK u \in Tasks : \E k \in 1..sent[u] : Output[i] = Sent(u, k)
          BY <4>1 DEF Accounted
        <5>1. PICK k \in 1..sent[u] : Output[i] = Sent(u, k)  BY <5>0
        <5>2. u = t  BY <3>1, <4>1, <4>3, <5>1, <2>2, <1>3 DEF Sent
        <5>3. Output'[i][2] = k /\ Output'[j][2] = sent[t] + 1
          BY <4>1, <4>3, <5>1, <2>2, <1>3 DEF Sent
        <5> QED  BY <5>2, <5>3, <1>2
      <4> QED  BY <4>2, <4>3, <2>2, <1>6
    <3> QED  BY <3>1 DEF Rising
  <2> QED  BY <1>7, <1>8, <2>1, <2>4, <2>5
<1>10. CASE ~(Len(fifo) < QueueSize)
  <2>1. Output' = Output /\ lost' = lost \cup {c}  BY <1>10 DEF Output, c
  <2>2. c \in preempted  BY <1>10 DEF SeenRoom, c
  <2>3. Accounted'
    <3>1. ASSUME NEW u \in Tasks, NEW k \in 1..sent'[u]
          PROVE  InOut(Sent(u, k))' \/ Sent(u, k) \in lost'
      <4>1. InOut(Sent(u, k))' <=> InOut(Sent(u, k))  BY <1>1, <2>1 DEF InOut
      <4>2. CASE k \in 1..sent[u]  BY <4>1, <4>2, <2>1 DEF Accounted
      <4>3. CASE u = t /\ k = sent[t] + 1  BY <4>3, <1>3, <2>1
      <4> QED  BY <4>2, <4>3, <1>4
    <3>2. ASSUME NEW i \in 1..Len(Output')
          PROVE  \E u \in Tasks : \E k \in 1..sent'[u] :
                   Output'[i] = Sent(u, k) /\ Sent(u, k) \notin lost'
      BY <1>4, <1>5, <2>1 DEF Accounted
    <3>3. \A d \in lost' : \E u \in Tasks : \E k \in 1..sent'[u] : d = Sent(u, k)
      <4>1. sent[t] + 1 \in 1..sent'[t]  BY <1>2, <1>4
      <4> QED  BY <4>1, <1>3, <1>4, <2>1 DEF Accounted
    <3> QED  BY <1>1, <3>1, <3>2, <3>3 DEF Accounted
  <2>4. Rising'  BY <2>1 DEF Rising
  <2> QED  BY <1>7, <1>8, <2>1, <2>2, <2>3, <2>4
<1> QED  BY <1>9, <1>10

LEMMA StepU == UInv /\ [Next]_vars => UInv'
<1> SUFFICES ASSUME UInv, [Next]_vars PROVE UInv'  OBVIOUS
<1>1. CASE UNCHANGED vars
  <2>1. /\ \A u : uart_put(u)' = uart_put(u)
        /\ \A u, k : Sent(u, k)' = Sent(u, k)
        /\ Numbered' = Numbered
    BY <1>1, TextKept DEF vars
  <2>2. Output' = Output /\ \A u : Character(u)' = Character(u)
    BY <1>1, <2>1 DEF vars, Output, Character
  <2>3. UartTypes'  BY <1>1, <2>1 DEF vars, UInv, UartTypes, Done
  <2>4. Accounted' /\ Rising' /\ SeenRoom'
    BY <1>1, <2>1, <2>2 DEF vars, UInv, Accounted, InOut, Rising, SeenRoom
  <2> QED  BY <1>1, <2>3, <2>4 DEF UInv, vars
<1>2. CASE Next  BY <1>2, pollU, storeU, preemptU, transmitU DEF Next
<1> QED  BY <1>1, <1>2

(* PrintedOnce follows: a return that is missing before its line feed can   *)
(* neither be unsent nor stand behind it.                                  *)
LEMMA UInvGives == UInv => PrintedOnce
<1> SUFFICES ASSUME UInv PROVE PrintedOnce  OBVIOUS
<1> USE DEF UInv
<1>1. Len(Output) \in Nat /\ DOMAIN Output = 1..Len(Output)
  BY OutputIs, LenProperties
<1>2. ASSUME NEW i \in 1..Len(Output)
      PROVE  \E t \in Tasks : \E k \in 1..sent[t] :
               /\ Output[i] = Sent(t, k) /\ Output[i] \notin lost
               /\ Output[i][1] = t /\ Output[i][2] = k /\ k \in Nat
               /\ Output[i][3] = uart_put(t)[k]
  <2>1. PICK t \in Tasks : \E k \in 1..sent[t] : Output[i] = Sent(t, k) /\ Sent(t, k) \notin lost
    BY DEF Accounted
  <2>2. PICK k \in 1..sent[t] : Output[i] = Sent(t, k) /\ Sent(t, k) \notin lost  BY <2>1
  <2> QED  BY <2>2 DEF Sent, UartTypes
<1>3. \A i \in 1..Len(Output) : Output[i] \in ToSet(Output)  BY <1>1 DEF ToSet
<1>4. InOrder
  <2>1. ASSUME NEW i \in 1..Len(Output), NEW j \in 1..(i - 1), Output[j][1] = Output[i][1]
        PROVE  Output[j][2] <= Output[i][2]
    <3>1. Output[j][2] < Output[i][2]  BY <2>1 DEF Rising
    <3>2. j \in 1..Len(Output)  BY <1>1
    <3> QED  BY <3>1, <3>2, <1>2
  <2> QED  BY <2>1, <1>1 DEF InOrder
<1>5. SentOrLost
  <2>1. IsInjective(Output)
    <3>1. ASSUME NEW i \in 1..Len(Output), NEW j \in 1..Len(Output), i < j,
                 Output[i] = Output[j]
          PROVE  FALSE
      <4>1. i \in 1..(j - 1)  BY <3>1
      <4>2. Output[i][2] < Output[j][2]  BY <3>1, <4>1 DEF Rising
      <4>3. Output[i][2] = Output[j][2] /\ Output[i][2] \in Nat  BY <3>1, <1>2
      <4> QED  BY <4>2, <4>3
    <3>2. \A i, j \in 1..Len(Output) : i < j \/ j < i \/ i = j  BY <1>1
    <3> QED  BY <1>1, <3>1, <3>2 DEF IsInjective
  <2>2. ToSet(Output) \cap lost = {}  BY <1>1, <1>2 DEF ToSet
  <2>3. ASSUME NEW t \in Tasks
        PROVE  Cardinality({c \in ToSet(Output) \cup lost : c[1] = t}) = sent[t]
    <3> DEFINE S == {c \in ToSet(Output) \cup lost : c[1] = t}
               f == [k \in 1..sent[t] |-> Sent(t, k)]
    <3>1. ASSUME NEW k \in 1..sent[t] PROVE Sent(t, k) \in S
      <4>1. InOut(Sent(t, k)) \/ Sent(t, k) \in lost  BY DEF Accounted
      <4>2. Sent(t, k) \in ToSet(Output) \cup lost  BY <4>1, <1>3 DEF InOut
      <4> QED  BY <4>2 DEF Sent
    <3>2. ASSUME NEW c \in S PROVE \E k \in 1..sent[t] : f[k] = c
      <4>1. \E u \in Tasks : \E k \in 1..sent[u] : c = Sent(u, k)
        <5>1. CASE c \in lost  BY <5>1 DEF Accounted
        <5>2. CASE c \in ToSet(Output)
          <6>1. PICK i \in 1..Len(Output) : c = Output[i]  BY <5>2, <1>1 DEF ToSet
          <6> QED  BY <6>1, <1>2
        <5> QED  BY <5>1, <5>2
      <4>2. PICK u \in Tasks : \E k \in 1..sent[u] : c = Sent(u, k)  BY <4>1
      <4>3. u = t  BY <4>2 DEF Sent
      <4> QED  BY <4>2, <4>3
    <3>3. \A k, l \in 1..sent[t] : f[k] = f[l] => k = l  BY SentIs
    <3>4. f \in Bijection(1..sent[t], S)
      <4> HIDE DEF S
      <4>1. f \in [1..sent[t] -> S]  BY <3>1
      <4>2. f \in Injection(1..sent[t], S)
        <5> HIDE DEF f
        <5> QED  BY <4>1, <3>3 DEF Injection, IsInjective
      <4>3. f \in Surjection(1..sent[t], S)
        <5> HIDE DEF f
        <5> QED  BY <4>1, <3>2 DEF Surjection
      <4> QED  BY <4>2, <4>3 DEF Bijection
    <3>5. ExistsBijection(1..sent[t], S)  BY <3>4 DEF ExistsBijection
    <3>6. sent[t] \in Nat  BY DEF UartTypes
    <3> HIDE DEF S
    <3>7. Cardinality(S) = sent[t]  BY <3>5, <3>6, FS_CountingElements
    <3> QED  BY <3>7 DEF S
  <2> QED  BY <2>1, <2>2, <2>3 DEF SentOrLost
<1>6. ReturnComesFirst
  <2>1. ASSUME NEW i \in 1..Len(Output), Output[i][3] = LF
        PROVE  <<Output[i][1], Output[i][2] - 1, CR>>
                 \in lost \cup ToSet(SubSeq(Output, 1, i - 1))
    <3>1. PICK t \in Tasks : \E k \in 1..sent[t] :
            /\ Output[i][1] = t /\ Output[i][2] = k /\ k \in Nat
            /\ Output[i][3] = uart_put(t)[k]
      BY <1>2
    <3>2. PICK k \in 1..sent[t] :
            /\ Output[i][1] = t /\ Output[i][2] = k /\ k \in Nat
            /\ Output[i][3] = uart_put(t)[k]
      BY <3>1
    <3>3. Len(uart_put(t)) \in Nat /\ sent[t] \in Nat /\ sent[t] <= Len(uart_put(t))
      BY PutReturns, LenProperties DEF Returned, UartTypes
    <3>4. k > 1 /\ uart_put(t)[k - 1] = CR
      <4>1. k \in 1..Len(uart_put(t))  BY <3>2, <3>3
      <4> QED  BY <2>1, <3>2, <4>1, PutReturns DEF Returned, UartTypes
    <3>5. k - 1 \in 1..sent[t]  BY <3>2, <3>3, <3>4
    <3>6. Sent(t, k - 1) = <<Output[i][1], Output[i][2] - 1, CR>>
      BY <3>2, <3>4 DEF Sent
    <3>7. CASE Sent(t, k - 1) \in lost  BY <3>6, <3>7
    <3>8. CASE InOut(Sent(t, k - 1))
      <4>1. PICK j \in 1..Len(Output) : Output[j] = Sent(t, k - 1)  BY <3>8 DEF InOut
      <4>2. Output[j][1] = t /\ Output[j][2] = k - 1  BY <4>1 DEF Sent
      <4>3. ~(i \in 1..(j - 1))
        <5>1. i \in 1..(j - 1) => k < k - 1  BY <4>2, <3>2 DEF Rising
        <5> QED  BY <5>1, <3>2
      <4>4. j # i  BY <4>2, <3>2
      <4>5. j \in 1..(i - 1)  BY <4>3, <4>4, <1>1
      <4>6. Output \in Seq(Numbered) /\ \A m \in 1..(i - 1) : Output[m] \in Numbered
        BY <1>1, OutputIs, ElementOfSeq
      <4>7. /\ SubSeq(Output, 1, i - 1) \in Seq(Numbered)
            /\ Len(SubSeq(Output, 1, i - 1)) = i - 1
            /\ \A m \in 1..(i - 1) : SubSeq(Output, 1, i - 1)[m] = Output[m]
        <5>1. /\ SubSeq(Output, 1, i - 1) \in Seq(Numbered)
              /\ Len(SubSeq(Output, 1, i - 1)) = IF 1 <= i - 1 THEN i - 1 - 1 + 1 ELSE 0
              /\ \A m \in 1..(i - 1 - 1 + 1) : SubSeq(Output, 1, i - 1)[m] = Output[1 + m - 1]
          BY <4>6, SubSeqProperties
        <5>2. i - 1 - 1 + 1 = i - 1 /\ 1 <= i - 1 /\ \A m \in 1..(i - 1) : 1 + m - 1 = m
          BY <4>5
        <5> QED  BY <5>1, <5>2
      <4>8. DOMAIN SubSeq(Output, 1, i - 1) = 1..(i - 1)  BY <4>7, LenProperties
      <4>9. Output[j] \in ToSet(SubSeq(Output, 1, i - 1))
        BY <4>5, <4>7, <4>8 DEF ToSet
      <4> QED  BY <4>1, <4>9, <3>6
    <3>9. InOut(Sent(t, k - 1)) \/ Sent(t, k - 1) \in lost  BY <3>5 DEF Accounted
    <3> QED  BY <3>7, <3>8, <3>9
  <2> QED  BY <2>1, <1>1 DEF ReturnComesFirst
<1> QED  BY <1>4, <1>5, <1>6 DEF PrintedOnce

(* However tasks interrupt each other in uart_put and uart_send, every      *)
(* character comes out once and in order, each line feed behind its return, *)
(* and only a task switched out behind its poll loses one.                 *)
THEOREM CharactersComeOutOnce == Spec => []PrintedOnce
<1>1. Spec => []UInv  BY InitU, StepU, PTL DEF Spec
<1> QED  BY <1>1, UInvGives, PTL
-----------------------------------------------------------------------------
(* Mailbox.                                                                 *)

NoProp == \A i \in 1..Len(answers) : answers[i] # Prop

(* Between two calls nothing is under way; within one, one request is: on   *)
(* its way to the GPU, with it, or answered, and then the value is there.   *)
Quiet  == requests = <<>> /\ asked = <<>> /\ NoProp
Asking == requests = <<Prop>> /\ asked = <<>> /\ NoProp
Served == requests = <<>> /\ asked = <<Prop>> /\ NoProp
Answered ==
  /\ requests = <<>> /\ asked = <<>> /\ value = Revision
  /\ \E i \in 1..Len(answers) :
       answers[i] = Prop /\ \A j \in 1..Len(answers) : answers[j] = Prop => j = i

BInv ==
  /\ at \in {"idle", "full?", "empty?", "read", "done"}
  /\ answers \in Seq(Others \cup {Prop})
  /\ at \in {"idle", "full?", "done"} => Quiet
  /\ at \in {"empty?", "read"} => Asking \/ Served \/ Answered
  /\ at = "done" => value = Revision
  /\ at = "read" => answers # <<>> \/ lastRead # Prop

LEMMA InitB == Board!Init => BInv
BY BoardAssumption DEF Board!Init, BInv, Quiet, NoProp

(* A message appended to the answers, and the first one taken.             *)
LEMMA AnswerAdded ==
  ASSUME answers \in Seq(Others \cup {Prop}), NEW m \in Others \cup {Prop}
  PROVE  /\ Append(answers, m) \in Seq(Others \cup {Prop})
         /\ Len(Append(answers, m)) = Len(answers) + 1 /\ Len(answers) \in Nat
         /\ \A i \in 1..Len(answers) : Append(answers, m)[i] = answers[i]
         /\ Append(answers, m)[Len(answers) + 1] = m
BY AppendProperties, LenProperties

LEMMA AnswerTaken ==
  ASSUME answers \in Seq(Others \cup {Prop}), answers # <<>>
  PROVE  /\ Head(answers) = answers[1] /\ 1 \in 1..Len(answers)
         /\ Head(answers) \in Others \cup {Prop}
         /\ Tail(answers) \in Seq(Others \cup {Prop})
         /\ Len(Tail(answers)) = Len(answers) - 1 /\ Len(answers) \in Nat
         /\ \A i \in 1..Len(Tail(answers)) :
              Tail(answers)[i] = answers[i + 1] /\ i + 1 \in 1..Len(answers)
<1> DEFINE S == Others \cup {Prop}
<1> HIDE DEF S
<1>1. answers \in Seq(S)  BY DEF S
<1>2. /\ Head(answers) \in S /\ Tail(answers) \in Seq(S)
      /\ Len(Tail(answers)) = Len(answers) - 1
      /\ \A i \in 1..Len(Tail(answers)) : Tail(answers)[i] = answers[i + 1]
      /\ Len(answers) \in Nat \ {0}
  BY <1>1, HeadTailProperties, EmptySeq
<1>3. Head(answers) = answers[1]  BY <1>1
<1> QED  BY <1>2, <1>3 DEF S

LEMMA readB == ASSUME BInv, Board!read PROVE BInv'
<1> USE DEF BInv, Board!read, Board!Accepted
<1>1. CASE answers = <<>>
  <2>1. UNCHANGED <<at, value, requests, asked, answers, lastRead>>  BY <1>1
  <2> QED  BY <2>1 DEF Quiet, Asking, Served, Answered, NoProp
<1>2. CASE answers # <<>>
  <2> DEFINE n == Len(answers)
  <2>1. /\ answers' = Tail(answers) /\ lastRead' = answers[1] /\ 1 \in 1..Len(answers)
        /\ UNCHANGED <<value, requests, asked>>
        /\ answers' \in Seq(Others \cup {Prop})
        /\ Len(answers') = Len(answers) - 1 /\ Len(answers) \in Nat
        /\ \A i \in 1..Len(answers') :
             answers'[i] = answers[i + 1] /\ i + 1 \in 1..Len(answers)
    BY <1>2, AnswerTaken
  <2>2. CASE answers[1] = Prop
    <3>1. Answered  BY <2>1, <2>2 DEF Asking, Served, NoProp
    <3>2. Quiet' /\ value' = Revision
      <4>1. ASSUME NEW i \in 1..Len(answers') PROVE answers'[i] # Prop
        BY <2>1, <2>2, <3>1 DEF Answered
      <4> QED  BY <2>1, <3>1, <4>1 DEF Quiet, NoProp, Answered
    <3>3. at' = "done"  BY <2>1, <2>2
    <3> QED  BY <2>1, <3>2, <3>3
  <2>3. CASE answers[1] # Prop
    <3>1. at' = "read" /\ lastRead' # Prop  BY <2>1, <2>3
    <3>2. NoProp => NoProp'  BY <2>1 DEF NoProp
    <3>3. Answered => Answered'
      <4> SUFFICES ASSUME Answered PROVE Answered'  OBVIOUS
      <4>1. PICK i \in 1..Len(answers) :
              answers[i] = Prop /\ \A j \in 1..Len(answers) : answers[j] = Prop => j = i
        BY DEF Answered
      <4>2. i # 1  BY <4>1, <2>3
      <4>3. i - 1 \in 1..Len(answers') /\ answers'[i - 1] = Prop  BY <2>1, <4>1, <4>2
      <4>4. \A j \in 1..Len(answers') : answers'[j] = Prop => j = i - 1  BY <2>1, <4>1
      <4> QED  BY <2>1, <4>3, <4>4 DEF Answered
    <3> QED  BY <2>1, <3>1, <3>2, <3>3 DEF Asking, Served, Quiet
  <2> QED  BY <2>2, <2>3
<1> QED  BY <1>1, <1>2

LEMMA gpu_answerB == ASSUME BInv, Board!gpu_answer PROVE BInv'
<1> USE DEF BInv, Board!gpu_answer
<1>1. Served /\ at \in {"empty?", "read"}  BY DEF Quiet, Asking, Answered
<1>2. /\ answers' = Append(answers, Prop) /\ asked' = <<>> /\ value' = Revision
      /\ UNCHANGED <<at, requests, lastRead>>
  BY <1>1 DEF Served
<1>3. /\ answers' \in Seq(Others \cup {Prop})
      /\ Len(answers') = Len(answers) + 1 /\ Len(answers) \in Nat
      /\ \A i \in 1..Len(answers) : answers'[i] = answers[i]
      /\ answers'[Len(answers) + 1] = Prop
  BY <1>2, AnswerAdded
<1>4. Answered'
  <2>1. Len(answers) + 1 \in 1..Len(answers')  BY <1>3
  <2>2. \A j \in 1..Len(answers') : answers'[j] = Prop => j = Len(answers) + 1
    BY <1>1, <1>3 DEF Served, NoProp
  <2> QED  BY <1>1, <1>2, <1>3, <2>1, <2>2 DEF Answered, Served
<1>5. answers' # <<>>  BY <1>3
<1> QED  BY <1>1, <1>2, <1>3, <1>4, <1>5

LEMMA gpu_otherB == ASSUME BInv, Board!gpu_other PROVE BInv'
<1> USE DEF BInv, Board!gpu_other
<1>1. PICK m \in Others : answers' = Append(answers, m)  OBVIOUS
<1>2. m # Prop  BY BoardAssumption DEF Board!MailboxAssumption
<1>3. /\ answers' \in Seq(Others \cup {Prop})
      /\ Len(answers') = Len(answers) + 1 /\ Len(answers) \in Nat
      /\ \A i \in 1..Len(answers) : answers'[i] = answers[i]
      /\ answers'[Len(answers) + 1] = m
  BY <1>1, AnswerAdded
<1>4. NoProp => NoProp'
  <2>1. \A i \in 1..Len(answers') : i \in 1..Len(answers) \/ i = Len(answers) + 1
    BY <1>3
  <2> QED  BY <1>2, <1>3, <2>1 DEF NoProp
<1>5. Answered => Answered'
  <2> SUFFICES ASSUME Answered PROVE Answered'  OBVIOUS
  <2>1. PICK i \in 1..Len(answers) :
          answers[i] = Prop /\ \A j \in 1..Len(answers) : answers[j] = Prop => j = i
    BY DEF Answered
  <2>2. i \in 1..Len(answers') /\ answers'[i] = Prop  BY <1>3, <2>1
  <2>3. \A j \in 1..Len(answers') : answers'[j] = Prop => j = i  BY <1>2, <1>3, <2>1
  <2> QED  BY <2>2, <2>3 DEF Answered
<1>6. answers' # <<>>  BY <1>3
<1> QED  BY <1>3, <1>4, <1>5, <1>6 DEF Quiet, Asking, Served

LEMMA StepB == BInv /\ [Board!Next]_(Board!vars) => BInv'
<1> SUFFICES ASSUME BInv, [Board!Next]_(Board!vars) PROVE BInv'  OBVIOUS
<1> USE DEF BInv, Board!Transition, Quiet, Asking, Served, Answered, NoProp
<1>1. CASE Board!get_board_revision  BY <1>1 DEF Board!get_board_revision
<1>2. CASE Board!write
  <2>1. requests' = <<Prop>>  BY <1>2 DEF Board!write
  <2> QED  BY <1>2, <2>1 DEF Board!write
<1>3. CASE Board!see_answer  BY <1>3 DEF Board!see_answer, Board!MayRead
<1>4. CASE Board!read  BY <1>4, readB
<1>5. CASE Board!return  BY <1>5 DEF Board!return
<1>6. CASE Board!gpu_take  BY <1>6 DEF Board!gpu_take
<1>7. CASE Board!gpu_answer  BY <1>7, gpu_answerB
<1>8. CASE Board!gpu_other  BY <1>8, gpu_otherB
<1>9. CASE UNCHANGED Board!vars  BY <1>9 DEF Board!vars
<1> QED  BY <1>1, <1>2, <1>3, <1>4, <1>5, <1>6, <1>7, <1>8, <1>9
         DEF Board!Next, Board!cpu

LEMMA BInvGives == BInv => AnswerIsThere
<1> SUFFICES ASSUME BInv, at = "done" PROVE Quiet /\ value = Revision
  <2>1. answers \in Seq(Others \cup {Prop}) => DOMAIN answers = 1..Len(answers)
    BY LenProperties
  <2> QED  BY <2>1 DEF AnswerIsThere, Board!AnswerIsThere, BInv, Quiet, NoProp
<1> QED  BY DEF BInv

(* Whatever the GPU says on other channels and however long it takes,       *)
(* mailbox_call returns with the answer to its own request in the buffer.   *)
THEOREM AnswerIsTheRevision == Board!Spec => []AnswerIsThere
<1>1. Board!Spec => []BInv  BY InitB, StepB, PTL DEF Board!Spec
<1> QED  BY <1>1, BInvGives, PTL

(* Both hold when printing and asking interleave.                          *)
THEOREM DriversWorkTogether == DriversSpec => [](PrintedOnce /\ AnswerIsThere)
<1>1. [DriversNext]_<<vars, BoardVars>> => [Next]_vars /\ [Board!Next]_(Board!vars)
  BY DEF DriversNext, BoardVars, Board!vars, vars
<1>2. DriversInit => UInv /\ BInv  BY InitU, InitB DEF DriversInit
<1>3. UInv /\ BInv /\ [DriversNext]_<<vars, BoardVars>> => (UInv /\ BInv)'
  BY <1>1, StepU, StepB
<1>4. UInv /\ BInv => PrintedOnce /\ AnswerIsThere  BY UInvGives, BInvGives
<1> QED  BY <1>2, <1>3, <1>4, PTL DEF DriversSpec
=============================================================================

---------------------------- MODULE MachineProof ----------------------------
(***************************************************************************)
(* Proofs about the sequential parts of the kernel, for any lengths, files, *)
(* letters, tables and formats: a program is entered where it should be     *)
(* with its arguments on its stack; the shell executes what it shows, and   *)
(* understands it; system calls and printf do what they are asked for; the  *)
(* walk over the archive finds its files, all of them and nothing else; and *)
(* a number that is written as a text is read from it again.                *)
(***************************************************************************)
EXTENDS MCMachine, FiniteSetTheorems, SequenceTheorems, WellFoundedInduction, TLAPS

(* A set of natural numbers has a least element.                            *)
LEMMA LeastNat ==
  ASSUME NEW R, R \subseteq Nat, R # {}
  PROVE  \E m \in R : \A k \in R : m <= k
<1>1. PICK m \in R : \A k \in R : ~(<<k, m>> \in OpToRel(<, Nat))
  BY NatLessThanWellFounded, WFMin
<1>2. \A k \in R : ~(k < m)  BY <1>1 DEF OpToRel
<1> QED  BY <1>2

-----------------------------------------------------------------------------
(* The program's entry: what the steps have left in the trapframe.          *)
After(p) == CASE p = "x1"      -> {"x1", "sp_el0", "elr_el1", "exit", "user"}
              [] p = "sp_el0"  -> {"sp_el0", "elr_el1", "exit", "user"}
              [] p = "elr_el1" -> {"elr_el1", "exit", "user"}
              [] p = "exit"    -> {"exit", "user"}

FrameInv ==
  /\ pc \in {"load", "failed", "copy", "x0"} \cup After("x1")
  /\ file \in Files \cup {Exec!Missing}
  /\ pc # "load" /\ pc # "failed" => file \in Files
  /\ DOMAIN kmem = Exec!Words
  /\ pc \in After("elr_el1") => kmem[Exec!SpEl0] = 0
  /\ pc \in After("exit") => kmem[Exec!ElrEl1] = Exec!elf_header_parse(file)
  /\ ~window /\ pc \in After("x1") => kmem[Exec!X0] = argc
  /\ ~window /\ pc \in After("sp_el0") => kmem[Exec!X1] = StringAlign

(* elf_header_parse finds the first section that begins with ".text".       *)
LEMMA FirstText ==
  ASSUME Exec!ExecAssumption, NEW f \in Files, NEW i \in DOMAIN f,
         f[i] \in TextNames, \A j \in 1..(i - 1) : f[j] \notin TextNames
  PROVE  Exec!elf_header_parse(f) = i
<1> DEFINE hits == {k \in DOMAIN f : f[k] \in TextNames}
<1>1. f \in Seq(Exec!ToSet(f))  BY DEF Exec!ExecAssumption
<1>2. DOMAIN f \subseteq Nat \ {0}
  <2> DEFINE S == Exec!ToSet(f)
  <2>1. f \in Seq(S)  BY <1>1
  <2> HIDE DEF S
  <2>2. DOMAIN f = 1..Len(f) /\ Len(f) \in Nat  BY <2>1
  <2> QED  BY <2>2
<1>3. i \in hits  OBVIOUS
<1>4. ASSUME NEW j \in hits, ~(i <= j) PROVE FALSE
  <2>1. j \in 1..(i - 1)  BY <1>2, <1>4
  <2> QED  BY <2>1, <1>4
<1>5. ASSUME NEW k \in hits, \A j \in hits : k <= j PROVE k = i
  <2>1. k <= i /\ i <= k /\ k \in Nat /\ i \in Nat  BY <1>2, <1>3, <1>4, <1>5
  <2> QED  BY <2>1
<1> HIDE DEF hits
<1>6. (CHOOSE k \in hits : \A j \in hits : k <= j) = i  BY <1>3, <1>4, <1>5
<1>7. hits # {}  BY <1>3
<1> QED  BY <1>6, <1>7 DEF Exec!elf_header_parse, hits

LEMMA FrameStep ==
  ASSUME Exec!ExecAssumption, FrameInv, [Exec!Next]_ExecVars
  PROVE  FrameInv'
<1>1. /\ Exec!Words = {Exec!X0, Exec!X1, Exec!SpEl0, Exec!ElrEl1}
      /\ Exec!X0 # Exec!X1 /\ Exec!X0 # Exec!SpEl0 /\ Exec!X0 # Exec!ElrEl1
      /\ Exec!X1 # Exec!SpEl0 /\ Exec!X1 # Exec!ElrEl1 /\ Exec!SpEl0 # Exec!ElrEl1
      /\ ~Exec!Overwritten(Exec!SpEl0) /\ ~Exec!Overwritten(Exec!ElrEl1)
  BY DEF Exec!Words, Exec!X0, Exec!X1, Exec!SpEl0, Exec!ElrEl1, Exec!Overwritten,
     Exec!ExecAssumption
<1> USE DEF FrameInv, After, Exec!Transition
<1>2. CASE UNCHANGED ExecVars  BY <1>2 DEF ExecVars
<1>3. CASE Exec!not_found  BY <1>3 DEF Exec!not_found
<1>4. CASE Exec!count \/ Exec!copy \/ Exec!image
  BY <1>4 DEF Exec!count, Exec!copy, Exec!image
<1>5. CASE Exec!x0  BY <1>1, <1>5 DEF Exec!x0, Exec!Assign, Exec!Unmoved
<1>6. CASE Exec!x1  BY <1>1, <1>6 DEF Exec!x1, Exec!Assign, Exec!Unmoved
<1>7. CASE Exec!sp_el0  BY <1>1, <1>7 DEF Exec!sp_el0, Exec!Assign, Exec!Unmoved
<1>8. CASE Exec!elr_el1  BY <1>1, <1>8 DEF Exec!elr_el1, Exec!Assign, Exec!Unmoved
<1>9. CASE Exec!kernel_exit  BY <1>9 DEF Exec!kernel_exit, Exec!Unmoved
<1>10. CASE Exec!tick  BY <1>1, <1>10 DEF Exec!tick, Exec!Unmoved
<1> QED  BY <1>2, <1>3, <1>4, <1>5, <1>6, <1>7, <1>8, <1>9, <1>10 DEF Exec!Next

LEMMA FrameIsRight == Exec!ExecAssumption /\ FrameInv => EntersRight
<1> SUFFICES ASSUME Exec!ExecAssumption, FrameInv, pc = "user"
             PROVE  EntersRight
  BY DEF EntersRight, Exec!EntersRight
<1>1. file \in Files /\ kmem[Exec!SpEl0] = 0 /\ kmem[Exec!ElrEl1] = Exec!elf_header_parse(file)
      /\ (~window => kmem[Exec!X0] = argc /\ kmem[Exec!X1] = StringAlign)
  BY DEF FrameInv, After
<1> QED  BY <1>1, FirstText DEF EntersRight, Exec!EntersRight
-----------------------------------------------------------------------------
(* The user's stack: every store goes below what is there.                  *)
HeldIn(m, a, b) == \A x \in DOMAIN b : a + x - 1 \in DOMAIN m /\ m[a + x - 1] = b[x]
Bytes(b) == Len(b) \in Nat /\ DOMAIN b = 1..Len(b)

LEMMA StoredHolds ==
  ASSUME NEW m, NEW a \in Int, NEW b, Bytes(b)
  PROVE  HeldIn(Exec!Stored(m, a, b), a, b)
<1> DEFINE s == Exec!Stored(m, a, b)
<1>1. \A y \in a..(a + Len(b) - 1) : y \in DOMAIN s /\ s[y] = b[y - a + 1]
  BY DEF Exec!Stored
<1>2. ASSUME NEW x \in 1..Len(b)
      PROVE  a + x - 1 \in a..(a + Len(b) - 1) /\ (a + x - 1) - a + 1 = x
  BY DEF Bytes
<1> HIDE DEF s
<1>3. ASSUME NEW x \in DOMAIN b PROVE a + x - 1 \in DOMAIN s /\ s[a + x - 1] = b[x]
  <2>1. x \in 1..Len(b)  BY DEF Bytes
  <2>2. a + x - 1 \in a..(a + Len(b) - 1) /\ (a + x - 1) - a + 1 = x  BY <2>1, <1>2
  <2> DEFINE y == a + x - 1
  <2>3. y \in a..(a + Len(b) - 1) /\ y - a + 1 = x  BY <2>2
  <2> HIDE DEF y
  <2>4. y \in DOMAIN s /\ s[y] = b[x]  BY <2>3, <1>1
  <2> QED  BY <2>4 DEF y
<1> QED  BY <1>3 DEF HeldIn, s

LEMMA StoredKeeps ==
  ASSUME NEW m, NEW a \in Int, NEW b, Bytes(b), NEW c \in Int, NEW d, Bytes(d),
         HeldIn(m, c, d), a + Len(b) <= c \/ c + Len(d) <= a
  PROVE  HeldIn(Exec!Stored(m, a, b), c, d)
<1> DEFINE s == Exec!Stored(m, a, b)
<1>1. \A y \in DOMAIN m : y \in DOMAIN s /\ (y \notin a..(a + Len(b) - 1) => s[y] = m[y])
  BY DEF Exec!Stored
<1>2. ASSUME NEW x \in DOMAIN d PROVE c + x - 1 \in DOMAIN s /\ s[c + x - 1] = d[x]
  <2>1. x \in 1..Len(d) /\ Len(d) \in Nat /\ Len(b) \in Nat  BY DEF Bytes
  <2>2. c + x - 1 \notin a..(a + Len(b) - 1)  BY <2>1
  <2>3. c + x - 1 \in DOMAIN m /\ m[c + x - 1] = d[x]  BY DEF HeldIn
  <2> HIDE DEF s
  <2> QED  BY <2>2, <2>3, <1>1
<1> QED  BY <1>2 DEF HeldIn

(* A string with its terminator fits into what do_exec leaves for it,       *)
(* although that is computed from the wrong length.                         *)
LEMMA OffsetsSuffice ==
  ASSUME Exec!ExecAssumption, NEW len \in Nat, NEW o \in Exec!Offsets(len)
  PROVE  o \in Nat /\ o >= len + 1
<1>1. StringAlign \in Nat /\ StringAlign > 1  BY DEF Exec!ExecAssumption
<1>2. CASE len = 0  BY <1>1, <1>2 DEF Exec!Offsets
<1>3. CASE len # 0 /\ (len - 1) % StringAlign = 0  BY <1>3 DEF Exec!Offsets
<1>4. CASE len # 0 /\ (len - 1) % StringAlign # 0
  <2> DEFINE q == len \div StringAlign
             r == len % StringAlign
  <2>1. q \in Nat /\ r \in Nat /\ r < StringAlign /\ len = StringAlign * q + r
    BY <1>1
  <2>2. o = StringAlign * (q + 1)  BY <1>4 DEF Exec!Offsets
  <2> HIDE DEF q, r
  <2>3. StringAlign * (q + 1) = StringAlign * q + StringAlign /\ StringAlign * q \in Nat
    BY <2>1, <1>1
  <2> QED  BY <2>1, <2>2, <2>3, <1>1
<1> QED  BY <1>2, <1>3, <1>4

LEMMA TextBytes ==
  ASSUME NEW i, Exec!LengthOf(i) \in Nat
  PROVE  Bytes(Exec!Text(i)) /\ Len(Exec!Text(i)) = Exec!LengthOf(i) + 1
<1> DEFINE n == Exec!LengthOf(i)
           s == [j \in 1..n |-> <<"text", i, j>>]
           S == {<<"text", i, j>> : j \in 1..n} \cup {Exec!NUL}
<1>1. s \in Seq(S) /\ Len(s) = n
  <2>1. \A j \in 1..n : s[j] \in S  OBVIOUS
  <2>2. s \in [1..n -> S]  BY <2>1
  <2> HIDE DEF S
  <2>3. n \in Nat  OBVIOUS
  <2> HIDE DEF n
  <2> QED  BY <2>2, <2>3
<1>2. Exec!Text(i) = Append(s, Exec!NUL)  BY DEF Exec!Text
<1>3. Exec!NUL \in S  OBVIOUS
<1> HIDE DEF s, S
<1>4. Append(s, Exec!NUL) \in Seq(S) /\ Len(Append(s, Exec!NUL)) = n + 1
  BY <1>1, <1>3, AppendProperties
<1>5. DOMAIN Append(s, Exec!NUL) = 1..(n + 1)  BY <1>4
<1> QED  BY <1>2, <1>4, <1>5 DEF Bytes

LEMMA WordBytes ==
  ASSUME Exec!ExecAssumption, NEW n
  PROVE  /\ Bytes(Exec!Pointer(n)) /\ Len(Exec!Pointer(n)) = PtrSize
         /\ Bytes(Exec!Number(n)) /\ Len(Exec!Number(n)) = IntSize
<1>1. PtrSize \in Nat /\ IntSize \in Nat  BY DEF Exec!ExecAssumption
<1>2. \A k \in Nat : \A f : DOMAIN f = 1..k => Bytes(f) /\ Len(f) = k
  BY DEF Bytes
<1> QED  BY <1>1, <1>2 DEF Exec!Pointer, Exec!Number

(* The arguments behind the k-th stand on the stack, the lowest at stack.   *)
CopiedBehind(k) ==
  /\ k \in 0..argc /\ DOMAIN argv_addr = (k + 1)..argc
  /\ \A i \in (k + 1)..argc : /\ argv_addr[i] \in Int /\ stack <= argv_addr[i]
                              /\ HeldIn(umem, argv_addr[i], Exec!Text(i))
  /\ k < argc => stack = argv_addr[k + 1]

ImageInv ==
  /\ Len(argv) \in Nat /\ (\A i \in 1..Len(argv) : argv[i] \in Lengths) /\ nul \in Lengths
  /\ stack \in Int
  /\ pc = "load" => argc = 0 /\ stack = 0 /\ argv_addr = <<>> /\ umem = <<>>
  /\ pc # "load" /\ pc # "failed" => argc = Exec!Counted(Len(argv))
  /\ pc = "copy" => \E k \in 0..argc : CopiedBehind(k)
  /\ ImageIntact

LEMMA LengthsOK ==
  ASSUME Exec!ExecAssumption, ImageInv, NEW i \in Nat \ {0}
  PROVE  Exec!LengthOf(i) \in Nat
<1>1. Lengths \subseteq Nat  BY DEF Exec!ExecAssumption
<1>2. CASE i > Len(argv)
  <2>1. Exec!LengthOf(i) = nul  BY <1>2 DEF Exec!LengthOf
  <2> QED  BY <2>1, <1>1 DEF ImageInv
<1>3. CASE ~(i > Len(argv))
  <2>1. i \in 1..Len(argv)  BY <1>3 DEF ImageInv
  <2>2. Exec!LengthOf(i) = argv[i]  BY <1>3 DEF Exec!LengthOf
  <2> QED  BY <2>1, <2>2, <1>1 DEF ImageInv
<1> QED  BY <1>2, <1>3

(* The loop's next argument is the highest that is not copied.              *)
LEMMA NextCopied ==
  ASSUME NEW k, CopiedBehind(k), argc \in Nat
  PROVE  Exec!Copying = k
<1>1. k \in 0..argc /\ DOMAIN argv_addr = (k + 1)..argc  BY DEF CopiedBehind
<1>0. ASSUME NEW S PROVE Exec!Cardinality(S) = Cardinality(S)
  BY DEF Exec!Cardinality, Cardinality
<1>2. Exec!Cardinality((k + 1)..argc) = argc - k
  <2>1. k + 1 \in Int /\ argc \in Int  BY <1>1
  <2>2. Cardinality((k + 1)..argc) = IF k + 1 > argc THEN 0 ELSE argc - (k + 1) + 1
    BY <2>1, FS_Interval
  <2> DEFINE S == (k + 1)..argc
  <2>3. Exec!Cardinality(S) = Cardinality(S)  BY <1>0
  <2>4. Cardinality(S) = argc - k  BY <1>1, <2>2
  <2> HIDE DEF S
  <2>5. Exec!Cardinality(S) = argc - k  BY <2>3, <2>4
  <2> QED  BY <2>5 DEF S
<1> QED  BY <1>1, <1>2 DEF Exec!Copying

LEMMA CopyStep ==
  ASSUME Exec!ExecAssumption, ImageInv, Exec!copy
  PROVE  ImageInv'
<1>0. PICK k : k = Exec!Copying  OBVIOUS
<1>1. PICK o \in Exec!Offsets(Exec!LengthOf(k)) :
        /\ stack' = stack - o
        /\ argv_addr' = [i \in DOMAIN argv_addr \cup {k} |-> IF i = k THEN stack' ELSE argv_addr[i]]
        /\ umem' = Exec!Stored(umem, stack', Exec!Text(k))
  BY <1>0 DEF Exec!copy
<1>2. /\ pc = "copy" /\ pc' = pc /\ argv' = argv /\ nul' = nul /\ argc' = argc /\ k > 0
  BY <1>0 DEF Exec!copy
<1>3. argc \in Nat /\ stack \in Int  BY <1>2 DEF ImageInv, Exec!Counted
<1>4. CopiedBehind(k)
  <2>1. PICK j \in 0..argc : CopiedBehind(j)  BY <1>2 DEF ImageInv
  <2> QED  BY <2>1, <1>0, <1>3, NextCopied
<1>5. k \in 1..argc /\ DOMAIN argv_addr = (k + 1)..argc  BY <1>2, <1>3, <1>4 DEF CopiedBehind
<1>6. Exec!LengthOf(k) \in Nat  BY <1>3, <1>5, LengthsOK
<1>7. o \in Nat /\ o >= Exec!LengthOf(k) + 1  BY <1>6, OffsetsSuffice
<1>8. Bytes(Exec!Text(k)) /\ Len(Exec!Text(k)) = Exec!LengthOf(k) + 1  BY <1>6, TextBytes
<1>9. stack' \in Int /\ stack' + Len(Exec!Text(k)) <= stack  BY <1>1, <1>3, <1>6, <1>7, <1>8
<1>10. /\ DOMAIN argv_addr' = k..argc /\ argv_addr'[k] = stack'
       /\ \A i \in (k + 1)..argc : argv_addr'[i] = argv_addr[i]
  <2>1. /\ DOMAIN argv_addr' = DOMAIN argv_addr \cup {k} /\ k \notin DOMAIN argv_addr
    BY <1>1, <1>3, <1>5
  <2>2. argv_addr'[k] = stack' /\ \A i \in DOMAIN argv_addr : argv_addr'[i] = argv_addr[i]
    BY <1>1, <2>1
  <2> QED  BY <2>1, <2>2, <1>3, <1>5
<1>11. \A i : Exec!Text(i)' = Exec!Text(i)  BY <1>2 DEF Exec!Text, Exec!LengthOf
<1>12. ASSUME NEW i \in k..argc
       PROVE  /\ argv_addr'[i] \in Int /\ stack' <= argv_addr'[i]
              /\ HeldIn(umem', argv_addr'[i], Exec!Text(i))
  <2>1. CASE i = k  BY <2>1, <1>1, <1>8, <1>9, <1>10, StoredHolds
  <2>2. CASE i # k
    <3>1. i \in (k + 1)..argc /\ i \in Nat \ {0}  BY <2>2, <1>3, <1>5
    <3>2. /\ argv_addr[i] \in Int /\ stack <= argv_addr[i] /\ argv_addr'[i] = argv_addr[i]
          /\ HeldIn(umem, argv_addr[i], Exec!Text(i))
      BY <3>1, <1>4, <1>10 DEF CopiedBehind
    <3>3. Bytes(Exec!Text(i))  BY <3>1, LengthsOK, TextBytes
    <3>4. stack' <= argv_addr[i] /\ stack' + Len(Exec!Text(k)) <= argv_addr[i]
      BY <3>2, <1>3, <1>8, <1>9 DEF Bytes
    <3>5. HeldIn(Exec!Stored(umem, stack', Exec!Text(k)), argv_addr[i], Exec!Text(i))
      BY <3>2, <3>3, <3>4, <1>8, <1>9, StoredKeeps
    <3> QED  BY <3>2, <3>4, <3>5, <1>1
  <2> QED  BY <2>1, <2>2
<1>13. CopiedBehind(k - 1)'
  <2>1. k - 1 \in 0..argc' /\ (k - 1) + 1 = k  BY <1>2, <1>3, <1>5
  <2>2. DOMAIN argv_addr' = ((k - 1) + 1)..argc'  BY <2>1, <1>2, <1>10
  <2>3. \A i \in ((k - 1) + 1)..argc' :
           /\ argv_addr'[i] \in Int /\ stack' <= argv_addr'[i]
           /\ HeldIn(umem', argv_addr'[i], Exec!Text(i)')
    BY <2>1, <1>2, <1>11, <1>12
  <2>4. stack' = argv_addr'[(k - 1) + 1]  BY <2>1, <1>10
  <2>5. \A a, i : HeldIn(umem, a, Exec!Text(i))' <=> HeldIn(umem', a, Exec!Text(i)')
    BY DEF HeldIn
  <2> QED  BY <2>1, <2>2, <2>3, <2>4, <2>5 DEF CopiedBehind
<1>14. ImageIntact'  BY <1>2 DEF ImageIntact, Exec!ImageIntact
<1>15. k - 1 \in 0..argc'  BY <1>2, <1>3, <1>5
<1>16. (\E j \in 0..argc : CopiedBehind(j))'  BY <1>13, <1>15
<1>17. argc' = Exec!Counted(Len(argv))'
  BY <1>2 DEF ImageInv, Exec!Counted
<1> QED  BY <1>2, <1>9, <1>14, <1>16, <1>17 DEF ImageInv

LEMMA ImageStep ==
  ASSUME Exec!ExecAssumption, ImageInv, Exec!image
  PROVE  ImageInv'
<1>1. /\ pc = "copy" /\ pc' = "x0" /\ argv' = argv /\ nul' = nul /\ argc' = argc
      /\ argv_addr' = argv_addr /\ Exec!Copying = 0
      /\ stack' = (IF argc = 0 THEN stack - PtrSize ELSE stack)
                    - (StringAlign - (IntSize % StringAlign)) - IntSize
      /\ umem' = Exec!Stored(Exec!Stored(umem, stack - PtrSize, Exec!Pointer(0)), stack',
                             Exec!Number(argc))
  BY DEF Exec!image, Exec!Transition
<1>2. argc \in Nat /\ stack \in Int /\ argc = Exec!Counted(Len(argv)) /\ Len(argv) \in Nat
  BY <1>1 DEF ImageInv, Exec!Counted
<1>3. CopiedBehind(0)
  <2>1. PICK j \in 0..argc : CopiedBehind(j)  BY <1>1 DEF ImageInv
  <2>2. j = 0  BY <2>1, <1>1, <1>2, NextCopied
  <2> QED  BY <2>1, <2>2
<1>4. /\ PtrSize \in Nat /\ IntSize \in Nat /\ StringAlign \in Nat
      /\ IntSize + PtrSize <= StringAlign /\ IntSize < StringAlign /\ IntSize % StringAlign = IntSize
  BY DEF Exec!ExecAssumption
<1> DEFINE p == stack - PtrSize
           m == Exec!Stored(umem, p, Exec!Pointer(0))
<1>5. p \in Int /\ stack' \in Int /\ stack' + IntSize <= p /\ p + PtrSize <= stack
  BY <1>1, <1>2, <1>4
<1>6. /\ Bytes(Exec!Pointer(0)) /\ Len(Exec!Pointer(0)) = PtrSize
      /\ Bytes(Exec!Number(argc)) /\ Len(Exec!Number(argc)) = IntSize
  BY WordBytes
<1>7. umem' = Exec!Stored(m, stack', Exec!Number(argc))  BY <1>1
<1> HIDE DEF m
<1>8. HeldIn(umem', stack', Exec!Number(argc))  BY <1>5, <1>6, <1>7, StoredHolds
<1>9. HeldIn(umem', p, Exec!Pointer(0))
  <2>1. HeldIn(m, p, Exec!Pointer(0))  BY <1>5, <1>6, StoredHolds DEF m
  <2> QED  BY <2>1, <1>5, <1>6, <1>7, StoredKeeps
<1> HIDE DEF p
<1>10. ASSUME NEW i \in 1..argc PROVE HeldIn(umem', argv_addr[i], Exec!Text(i))
  <2>1. argv_addr[i] \in Int /\ stack <= argv_addr[i] /\ HeldIn(umem, argv_addr[i], Exec!Text(i))
    BY <1>3 DEF CopiedBehind
  <2>2. Bytes(Exec!Text(i))
    <3>1. i \in Nat \ {0}  BY <1>2
    <3> QED  BY <3>1, LengthsOK, TextBytes
  <2>3. p + Len(Exec!Pointer(0)) <= argv_addr[i] /\ stack' + Len(Exec!Number(argc)) <= argv_addr[i]
    <3>1. argv_addr[i] \in Int /\ stack <= argv_addr[i]  BY <2>1
    <3>2. p + PtrSize <= argv_addr[i]  BY <3>1, <1>2, <1>4, <1>5
    <3>3. stack' + IntSize <= argv_addr[i]
      <4>1. \A a, n, b, c, d \in Int : a + n <= b /\ b <= c /\ c <= d => a + n <= d  OBVIOUS
      <4>2. p <= stack  BY <1>2, <1>4, <1>5
      <4>3. stack' + IntSize <= p  BY <1>5
      <4>4. stack' \in Int /\ p \in Int  BY <1>5
      <4>5. IntSize \in Int  BY <1>4
      <4> QED  BY <3>1, <4>1, <4>2, <4>3, <4>4, <4>5, <1>2
    <3> QED  BY <3>2, <3>3, <1>6
  <2>4. HeldIn(m, argv_addr[i], Exec!Text(i))
    BY <2>1, <2>2, <2>3, <1>5, <1>6, StoredKeeps DEF m
  <2> QED  BY <2>1, <2>2, <2>3, <2>4, <1>5, <1>6, <1>7, StoredKeeps
<1>11. argc > 0 => stack = argv_addr[1]  BY <1>2, <1>3 DEF CopiedBehind
<1>12. 1..Len(argv) \subseteq 1..argc  BY <1>2 DEF Exec!Counted
<1>13. ImageIntact'
  <2>1. \A a, b : Exec!Holds(a, b)' <=> HeldIn(umem', a, b)  BY DEF Exec!Holds, HeldIn
  <2>2. /\ \A i : Exec!Text(i)' = Exec!Text(i)
        /\ \A n : Exec!Number(n)' = Exec!Number(n) /\ Exec!Pointer(n)' = Exec!Pointer(n)
    BY <1>1 DEF Exec!Text, Exec!LengthOf, Exec!Number, Exec!Pointer
  <2>3. \A i \in 1..Len(argv) : HeldIn(umem', argv_addr[i], Exec!Text(i))  BY <1>10, <1>12
  <2>4. argc > 0 => HeldIn(umem', argv_addr[1] - PtrSize, Exec!Pointer(0))
    BY <1>9, <1>11 DEF p
  <2> QED  BY <2>1, <2>2, <2>3, <2>4, <1>1, <1>8 DEF ImageIntact, Exec!ImageIntact
<1> QED  BY <1>1, <1>2, <1>5, <1>13 DEF ImageInv

LEMMA ImageStays ==
  ASSUME Exec!ExecAssumption, ImageInv, [Exec!Next]_ExecVars
  PROVE  ImageInv'
<1>1. CASE /\ UNCHANGED <<argv, argc, nul, stack, argv_addr, umem>>
           /\ pc' = pc \/ (pc = "load" /\ pc' = "failed")
                       \/ (pc \notin {"load", "failed", "copy"} /\ pc' \notin {"load", "failed", "copy"})
  <2>1. \A i : Exec!Text(i)' = Exec!Text(i) /\ Exec!Number(i)' = Exec!Number(i)
               /\ Exec!Pointer(i)' = Exec!Pointer(i)
    BY <1>1 DEF Exec!Text, Exec!LengthOf, Exec!Number, Exec!Pointer
  <2>2. \A a, b : Exec!Holds(a, b)' <=> Exec!Holds(a, b)  BY <1>1 DEF Exec!Holds
  <2>3. ImageIntact'
    BY <1>1, <2>1, <2>2 DEF ImageInv, ImageIntact, Exec!ImageIntact
  <2>4. \A k : CopiedBehind(k)' <=> CopiedBehind(k)
    BY <1>1, <2>1 DEF CopiedBehind
  <2> QED  BY <1>1, <2>3, <2>4 DEF ImageInv
<1>2. CASE Exec!count
  <2>1. /\ pc = "load" /\ pc' = "copy" /\ argc' = Exec!Counted(Len(argv))
        /\ UNCHANGED <<argv, nul, stack, argv_addr, umem>>
    BY <1>2 DEF Exec!count, Exec!Transition
  <2>2. DOMAIN argv_addr' = {} /\ argc' \in Nat
    BY <2>1 DEF ImageInv, Exec!Counted
  <2>3. CopiedBehind(argc)'
    <3>1. \A n \in Nat : (n + 1)..n = {}  OBVIOUS
    <3>2. (argc' + 1)..argc' = {}  BY <2>2, <3>1
    <3>3. argc' \in 0..argc' /\ ~(argc' < argc')  BY <2>2
    <3> QED  BY <2>2, <3>2, <3>3 DEF CopiedBehind
  <2>4. argc' \in 0..argc'  BY <2>2
  <2>5. ImageIntact'  BY <2>1 DEF ImageIntact, Exec!ImageIntact
  <2> QED  BY <2>1, <2>3, <2>4, <2>5 DEF ImageInv
<1> QED  BY <1>1, <1>2, CopyStep, ImageStep DEF ExecVars, Exec!Next, Exec!not_found,
     Exec!x0, Exec!x1, Exec!sp_el0, Exec!elr_el1, Exec!kernel_exit, Exec!tick,
     Exec!Unmoved, Exec!Transition

LEMMA ImageInit == Exec!ExecAssumption /\ Exec!Init => FrameInv /\ ImageInv
<1> SUFFICES ASSUME Exec!ExecAssumption, Exec!Init PROVE FrameInv /\ ImageInv  OBVIOUS
<1>1. FrameInv  BY DEF Exec!Init, FrameInv, After
<1>2. PICK n \in 0..MaxArgs : argv \in [1..n -> Lengths]  BY DEF Exec!Init
<1>3. n \in Nat /\ Len(argv) = n  BY <1>2 DEF Exec!ExecAssumption
<1>4. ImageIntact  BY DEF Exec!Init, ImageIntact, Exec!ImageIntact
<1> QED  BY <1>1, <1>2, <1>3, <1>4 DEF Exec!Init, ImageInv
-----------------------------------------------------------------------------
(* The parts next to each other: each takes its own steps or none.          *)
LEMMA MachineSteps ==
  ASSUME [boot \/ shell \/ convert \/ start \/ call \/ print]_<<
            vars, ArchiveVars, last, ExecVars, CallVars, PrintVars>>
  PROVE  /\ [Exec!Next]_ExecVars
         /\ [Next]_vars
         /\ [Calls!Next]_CallVars
<1>1. CASE boot     BY <1>1 DEF boot, vars, ExecVars, CallVars
<1>2. CASE shell    BY <1>2 DEF shell, ExecVars, CallVars
<1>3. CASE convert  BY <1>3 DEF convert, vars, ExecVars, CallVars
<1>4. CASE start    BY <1>4 DEF start, vars, CallVars
<1>5. CASE call     BY <1>5 DEF call, vars, ExecVars
<1>6. CASE print    BY <1>6 DEF print, vars, ExecVars, CallVars
<1>7. CASE UNCHANGED <<vars, ArchiveVars, last, ExecVars, CallVars, PrintVars>>
  BY <1>7
<1> QED  BY <1>1, <1>2, <1>3, <1>4, <1>5, <1>6, <1>7

(* Wherever ticks have come while do_exec was at work, a program that is    *)
(* entered starts at the first ".text" section of its file with the whole   *)
(* stack page; x0 and x1 are what do_exec wrote if no tick came in between. *)
THEOREM ProgramEntersRight == MachineSpec => []EntersRight
<1>1. Exec!ExecAssumption  BY MachineAssumption
<1>2. MachineInit => FrameInv  BY <1>1, ImageInit DEF MachineInit
<1>3. FrameInv /\ [boot \/ shell \/ convert \/ start \/ call \/ print]_<<
        vars, ArchiveVars, last, ExecVars, CallVars, PrintVars>> => FrameInv'
  BY <1>1, FrameStep, MachineSteps
<1>4. FrameInv => EntersRight  BY <1>1, FrameIsRight
<1> QED  BY <1>2, <1>3, <1>4, PTL DEF MachineSpec

(* Every argument stands complete and terminated where argv_addr says, for  *)
(* any number of arguments of any lengths, although the padding is computed *)
(* from the length of the string without its first character.               *)
THEOREM ArgumentsAreWhole == MachineSpec => []ImageIntact
<1>1. Exec!ExecAssumption  BY MachineAssumption
<1>2. MachineInit => ImageInv  BY <1>1, ImageInit DEF MachineInit
<1>3. ImageInv /\ [boot \/ shell \/ convert \/ start \/ call \/ print]_<<
        vars, ArchiveVars, last, ExecVars, CallVars, PrintVars>> => ImageInv'
  BY <1>1, ImageStays, MachineSteps
<1>4. ImageInv => ImageIntact  BY DEF ImageInv
<1> QED  BY <1>2, <1>3, <1>4, PTL DEF MachineSpec
-----------------------------------------------------------------------------
(* The line: the buffer up to index is what the screen shows up to its      *)
(* cursor, behind which the screen is blank.                                *)
LineInv ==
  /\ index = cursor /\ cursor \in Cells
  /\ input \in [Cells -> Letters \cup {Space, NUL}]
  /\ screen \in [Cells -> Letters \cup {Space}]
  /\ \A i \in Cells : i < index => input[i] = screen[i]
  /\ \A i \in Cells : i >= cursor => screen[i] = Space

LEMMA LineInit == Init => LineInv
<1> SUFFICES ASSUME Init PROVE LineInv  OBVIOUS
<1>1. 0 \in Cells /\ \A i \in Cells : ~(i < 0)  BY ShellAssumption DEF Cells
<1>2. screen \in [Cells -> Letters \cup {Space}] /\ \A i \in Cells : screen[i] = Space
  BY DEF Init, Blank
<1> QED  BY <1>1, <1>2 DEF Init, LineInv

LEMMA LineStep == LineInv /\ [Next]_vars => LineInv'
<1> SUFFICES ASSUME LineInv, [Next]_vars PROVE LineInv'  OBVIOUS
<1> USE DEF LineInv
<1>1. Cells \subseteq Nat /\ 0 \in Cells /\ \A i \in Nat : i \in Cells <=> i <= BufSize - 1
  BY ShellAssumption DEF Cells
<1>2. CASE enter
  <2>1. input' \in [Cells -> Letters \cup {Space, NUL}]  BY <1>2 DEF enter, Terminated
  <2>2. screen' \in [Cells -> Letters \cup {Space}] /\ \A i \in Cells : screen'[i] = Space
    BY <1>2 DEF enter, Blank
  <2>3. index' = 0 /\ cursor' = 0 /\ \A i \in Cells : ~(i < 0)  BY <1>1, <1>2 DEF enter
  <2> QED  BY <2>1, <2>2, <2>3, <1>1
<1>3. CASE erase
  <2>1. /\ index > 0 /\ index' = index - 1 /\ cursor' = cursor - 1
        /\ input' = [input EXCEPT ![index] = NUL]
        /\ screen' = [screen EXCEPT ![cursor - 1] = Space]
    BY <1>3 DEF erase, Terminated, EchoErase
  <2>2. index \in Nat /\ index - 1 \in Cells
    <3>1. index \in Nat /\ BufSize \in Nat /\ index <= BufSize - 1  BY <1>1, ShellAssumption
    <3>2. index - 1 \in Nat /\ index - 1 <= BufSize - 1  BY <2>1, <3>1
    <3> QED  BY <1>1, <3>1, <3>2
  <2>3. /\ input' \in [Cells -> Letters \cup {Space, NUL}]
        /\ screen' \in [Cells -> Letters \cup {Space}]
    BY <2>1
  <2>4. ASSUME NEW i \in Cells
        PROVE  /\ i < index' => input'[i] = screen'[i]
               /\ i >= cursor' => screen'[i] = Space
    <3>1. i \in Nat  BY <1>1
    <3>2. CASE i < index - 1
      <4>1. i # index /\ i # cursor - 1 /\ i < index /\ ~(i >= cursor - 1)
        BY <2>2, <3>1, <3>2
      <4> QED  BY <2>1, <4>1
    <3>3. CASE ~(i < index - 1)
      <4>1. i = cursor - 1 \/ i >= cursor  BY <2>2, <3>1, <3>3
      <4> QED  BY <2>1, <3>3, <4>1
    <3> QED  BY <3>2, <3>3
  <2> QED  BY <2>1, <2>2, <2>3, <2>4
<1>4. ASSUME NEW c \in Letters \cup {Space}, letter(c) PROVE LineInv'
  <2>1. /\ index < BufSize - 1 /\ index' = index + 1 /\ cursor' = cursor + 1
        /\ input' = [input EXCEPT ![index] = c]
        /\ screen' = [screen EXCEPT ![cursor] = c]
    BY <1>4 DEF letter
  <2>2. index \in Nat /\ index + 1 \in Cells
    <3>1. index \in Nat /\ BufSize \in Nat  BY <1>1, ShellAssumption
    <3>2. index + 1 \in Nat /\ index + 1 <= BufSize - 1  BY <2>1, <3>1
    <3> QED  BY <1>1, <3>1, <3>2
  <2>3. /\ input' \in [Cells -> Letters \cup {Space, NUL}]
        /\ screen' \in [Cells -> Letters \cup {Space}]
    BY <2>1
  <2>4. ASSUME NEW i \in Cells
        PROVE  /\ i < index' => input'[i] = screen'[i]
               /\ i >= cursor' => screen'[i] = Space
    <3>1. i \in Nat  BY <1>1
    <3>2. CASE i = index  BY <2>1, <2>2, <3>2
    <3>3. CASE i # index
      <4>1. (i < index + 1 => i < index) /\ (i >= cursor + 1 => i >= cursor)
        BY <2>2, <3>1, <3>3
      <4> QED  BY <2>1, <3>3, <4>1
    <3> QED  BY <3>2, <3>3
  <2> QED  BY <2>1, <2>2, <2>3, <2>4
<1>5. CASE UNCHANGED vars  BY <1>5 DEF vars
<1> QED  BY <1>2, <1>3, <1>4, <1>5 DEF Next

(* The text handed to exec_cmd ends at the NUL that uart_get_cmd has just   *)
(* put behind what is shown, since nothing before it is a NUL.              *)
LEMMA TextIsShown ==
  ASSUME LineInv, enter
  PROVE  executed'.text = Upto(screen, cursor)
<1> USE DEF LineInv
<1>1. Cells \subseteq Nat /\ \A i \in Nat : i \in Cells <=> i <= BufSize - 1
  BY ShellAssumption DEF Cells
<1>2. input' = [input EXCEPT ![index] = NUL] /\ executed'.text = Text(input')
  BY DEF enter, Terminated, exec_cmd
<1>3. input'[index] = NUL /\ \A i \in 0..(index - 1) : input'[i] = screen[i] /\ input'[i] # NUL
  <2>1. \A x \in Letters \cup {Space} : x # NUL
    BY CharsAreDistinct DEF Space, NUL
  <2>2. ASSUME NEW i \in 0..(index - 1)
        PROVE  i \in Cells /\ i # index /\ i < index
    <3>1. index \in Nat /\ BufSize \in Nat /\ index <= BufSize - 1
      BY <1>1, ShellAssumption
    <3>2. i \in Nat /\ i <= BufSize - 1 /\ i # index /\ i < index  BY <3>1
    <3> QED  BY <1>1, <3>2
  <2> QED  BY <1>2, <2>1, <2>2
<1> DEFINE First(n) == input'[n] = NUL /\ \A i \in 0..(n - 1) : input'[i] # NUL
<1>4. First(index)  BY <1>3
<1>5. ASSUME NEW n \in Cells, First(n) PROVE n = index
  <2>1. n \in Nat /\ index \in Nat  BY <1>1
  <2>2. ~(n < index)  BY <2>1, <1>3, <1>5
  <2>3. ~(index < n)  BY <2>1, <1>3, <1>5
  <2> QED  BY <2>1, <2>2, <2>3
<1>6. (CHOOSE n \in Cells : First(n)) = index
  <2> HIDE DEF First
  <2> QED  BY <1>4, <1>5
<1>7. Text(input') = Upto(input', index)  BY <1>6 DEF Text
<1>8. Upto(input', index) = Upto(screen, cursor)
  <2>1. \A i \in 1..index : i - 1 \in 0..(index - 1)  BY <1>1
  <2> QED  BY <2>1, <1>3 DEF Upto
<1> QED  BY <1>2, <1>7, <1>8

(* What the screen shows when enter is pressed is what is executed, for     *)
(* every length of the buffer, every line and every way it was edited.      *)
THEOREM ShownIsWhatRuns == MachineSpec => ShownIsExecuted
<1>1. MachineInit => LineInv  BY LineInit DEF MachineInit
<1>2. LineInv /\ [boot \/ shell \/ convert \/ start \/ call \/ print]_<<
        vars, ArchiveVars, last, ExecVars, CallVars, PrintVars>> => LineInv'
  BY LineStep, MachineSteps
<1>3. LineInv /\ [boot \/ shell \/ convert \/ start \/ call \/ print]_<<
        vars, ArchiveVars, last, ExecVars, CallVars, PrintVars>>
      => [enter => /\ executed'.text = Upto(screen, cursor)
                   /\ \A i \in Cells : i >= cursor => screen[i] = Space]_vars
  BY TextIsShown DEF LineInv
<1> QED  BY <1>1, <1>2, <1>3, PTL DEF MachineSpec, ShownIsExecuted
-----------------------------------------------------------------------------
(* System calls: numbers modulo the register's width.                       *)
Residue(n, m, r) == r \in 0..(m - 1) /\ \E q \in Int : n = m * q + r

LEMMA ResidueIsMod ==
  ASSUME NEW n \in Nat, NEW m \in Nat \ {0}, NEW r, Residue(n, m, r)
  PROVE  n % m = r
<1>1. PICK q \in Int : n = m * q + r  BY DEF Residue
<1>2. r \in Int /\ 0 <= r /\ r < m  BY DEF Residue
<1>3. /\ n % m \in Int /\ 0 <= n % m /\ n % m < m
      /\ n \div m \in Int /\ n = m * (n \div m) + (n % m)
  OBVIOUS
<1> DEFINE p == n \div m
           s == n % m
<1>4. p \in Int /\ s \in Int /\ 0 <= s /\ s < m /\ m * q + r = m * p + s  BY <1>1, <1>3
<1> HIDE DEF p, s
<1>5. m * (q - p) = s - r  BY <1>2, <1>4
<1>6. CASE q = p  BY <1>2, <1>4, <1>6 DEF s
<1>7. CASE q > p
  <2>1. m * (q - p) >= m
    <3>1. q - p \in Nat /\ q - p >= 1  BY <1>4, <1>7
    <3>2. \A x \in Nat : x >= 1 => m * x >= m  OBVIOUS
    <3> QED  BY <3>1, <3>2
  <2> QED  BY <2>1, <1>2, <1>4, <1>5
<1>8. CASE q < p
  <2>1. m * (p - q) >= m
    <3>1. p - q \in Nat /\ p - q >= 1  BY <1>4, <1>8
    <3>2. \A x \in Nat : x >= 1 => m * x >= m  OBVIOUS
    <3> QED  BY <3>1, <3>2
  <2>2. m * (p - q) = r - s  BY <1>2, <1>4
  <2> QED  BY <2>1, <2>2, <1>2, <1>4
<1> QED  BY <1>4, <1>6, <1>7, <1>8

LEMMA ModIsResidue ==
  ASSUME NEW n \in Nat, NEW m \in Nat \ {0}
  PROVE  n % m \in Nat /\ Residue(n, m, n % m)
<1>1. /\ n % m \in Int /\ 0 <= n % m /\ n % m < m
      /\ n \div m \in Int /\ n = m * (n \div m) + (n % m)
  OBVIOUS
<1> DEFINE p == n \div m
           s == n % m
<1>2. p \in Int /\ s \in Int /\ 0 <= s /\ s < m /\ n = m * p + s  BY <1>1
<1> HIDE DEF p, s
<1>3. s \in Nat /\ Residue(n, m, s)  BY <1>2 DEF Residue
<1> QED  BY <1>3 DEF s

LEMMA MultipleMod ==
  ASSUME NEW k \in Nat, NEW q \in Nat \ {0}, NEW e \in Nat \ {0}
  PROVE  (k * e) % (q * e) = (k % q) * e
<1>1. PICK a \in Int : k = q * a + (k % q)  BY ModIsResidue DEF Residue
<1>2. k % q \in Nat /\ k % q <= q - 1  BY ModIsResidue DEF Residue
<1> DEFINE r == k % q
<1> HIDE DEF r
<1>3. k * e = (q * e) * a + r * e
  <2>1. k = q * a + r  BY <1>1 DEF r
  <2>2. r \in Int  BY <1>2 DEF r
  <2> QED  BY <2>1, <2>2
<1>4. r * e \in 0..(q * e - 1)
  <2>1. r \in Nat /\ r + 1 <= q  BY <1>2 DEF r
  <2>2. r * e \in Nat /\ q * e \in Nat  BY <2>1
  <2>3. \A x, y \in Nat : x <= y => x * e <= y * e  OBVIOUS
  <2>4. (r + 1) * e <= q * e  BY <2>1, <2>3
  <2>5. (r + 1) * e = r * e + e  BY <2>1
  <2> QED  BY <2>2, <2>4, <2>5
<1>5. k * e \in Nat /\ q * e \in Nat \ {0}
  <2>1. \A x, y \in Nat \ {0} : x * y \in Nat \ {0}  OBVIOUS
  <2>2. \A x, y \in Nat : x * y \in Nat  OBVIOUS
  <2> QED  BY <2>1, <2>2
<1>6. Residue(k * e, q * e, r * e)  BY <1>3, <1>4 DEF Residue
<1>7. (k * e) % (q * e) = r * e  BY <1>5, <1>6, ResidueIsMod
<1> QED  BY <1>7 DEF r

(* The table in entries: where it starts and how many the register spans.   *)
Slot  == Table \div EntrySize
Slots == RegisterRange \div EntrySize
Fits(e, t, q) ==
  /\ e \in Nat \ {0} /\ t \in Nat /\ q \in Nat /\ 2 * (t + 7) < q
  /\ RegisterRange = q * e /\ Table = t * e /\ Calls!TableEnd = (t + 7) * e

LEMMA SevenEntries ==
  /\ Len(Calls!Entries) = 7 /\ DOMAIN Calls!Entries = 1..7 /\ DOMAIN Calls!Stubs = 1..7
  /\ \A i \in 1..7 : /\ Calls!Entries[i] = Calls!Stubs[i]
                     /\ Calls!Entries[i] \notin {"none", "stray", "asm", "syscall_number_error"}
                     /\ \A j \in 1..7 : Calls!Stubs[i] = Calls!Stubs[j] => i = j
                     /\ Calls!Stubs[i] = "exit" <=> i = 5
BY DEF Calls!Entries, Calls!Stubs

LEMMA TableFits ==
  ASSUME Calls!TableAssumption
  PROVE  Fits(EntrySize, Slot, Slots)
<1>1. /\ EntrySize \in Nat \ {0} /\ RegisterRange \in Nat /\ Table \in Nat
      /\ RegisterRange % EntrySize = 0 /\ Table % EntrySize = 0
      /\ Calls!TableEnd < RegisterRange \div 2 /\ Calls!TableEnd = Table + EntrySize * 7
  BY SevenEntries DEF Calls!TableAssumption, Calls!TableEnd
<1>2. \A n \in Nat : n % EntrySize = 0 =>
        n \div EntrySize \in Nat /\ n = EntrySize * (n \div EntrySize)
  BY <1>1
<1>3. /\ Slots \in Nat /\ RegisterRange = EntrySize * Slots
      /\ Slot \in Nat /\ Table = EntrySize * Slot
  BY <1>1, <1>2 DEF Slot, Slots
<1>4. /\ RegisterRange = Slots * EntrySize /\ Table = Slot * EntrySize
      /\ Calls!TableEnd = (Slot + 7) * EntrySize
  BY <1>1, <1>3
<1>5. 2 * (Slot + 7) < Slots
  <2>1. 2 * Calls!TableEnd < RegisterRange  BY <1>1, <1>4, <1>3
  <2>2. (2 * (Slot + 7)) * EntrySize = 2 * Calls!TableEnd  BY <1>1, <1>3, <1>4
  <2>3. \A x, y \in Nat : x <= y => x * EntrySize <= y * EntrySize  BY <1>1
  <2>4. CASE Slots <= 2 * (Slot + 7)
    <3>1. Slots * EntrySize <= (2 * (Slot + 7)) * EntrySize  BY <1>3, <2>3, <2>4
    <3> QED  BY <3>1, <2>1, <2>2, <1>1, <1>3, <1>4
  <2> QED  BY <2>4, <1>3
<1> QED  BY <1>1, <1>3, <1>4, <1>5 DEF Fits

LEMMA Dispatched ==
  ASSUME NEW e, NEW t, NEW q, Fits(e, t, q), e = EntrySize, NEW n \in Nat
  PROVE  /\ n % q < 7 => /\ Calls!InTable(Calls!Shifted(n))
                         /\ Calls!At(Calls!Shifted(n)) = Calls!Entries[(n % q) + 1]
         /\ n % q >= 7 => ~Calls!InTable(Calls!Shifted(n))
<1> USE DEF Fits
<1>0. q # 0 /\ q \in Nat \ {0} /\ t \in Nat /\ e \in Nat \ {0}  OBVIOUS
<1> DEFINE b == (n + t) % q
           m == n % q
<1>1. b \in Nat /\ b < q /\ m \in Nat /\ m < q
  <2>1. n + t \in Nat  BY <1>0
  <2> QED  BY <1>0, <2>1, ModIsResidue DEF Residue
<1>2. Calls!Shifted(n) = b * e
  <2>1. n * e + t * e = (n + t) * e  BY <1>0
  <2>2. n + t \in Nat  BY <1>0
  <2>3. ((n + t) * e) % (q * e) = b * e  BY <1>0, <2>2, MultipleMod
  <2> QED  BY <2>1, <2>3 DEF Calls!Shifted
<1>3. b = m + t \/ b = m + t - q
  <2>1. PICK a \in Int : n = q * a + m  BY <1>0, ModIsResidue DEF Residue
  <2>2. n + t = q * a + (m + t) /\ n + t = q * (a + 1) + (m + t - q)
    BY <1>0, <1>1, <2>1
  <2> HIDE DEF m
  <2>3. CASE m + t < q
    <3>1. Residue(n + t, q, m + t)  BY <1>0, <1>1, <2>1, <2>2, <2>3 DEF Residue
    <3>2. n + t \in Nat  BY <1>0
    <3> QED  BY <3>1, <3>2, <1>0, ResidueIsMod
  <2>4. CASE m + t >= q
    <3>1. m + t - q \in 0..(q - 1)  BY <1>0, <1>1, <2>4
    <3>2. a + 1 \in Int  BY <2>1
    <3>3. Residue(n + t, q, m + t - q)  BY <2>2, <3>1, <3>2 DEF Residue
    <3>4. n + t \in Nat  BY <1>0
    <3> QED  BY <3>3, <3>4, <1>0, ResidueIsMod
  <2> QED  BY <2>3, <2>4, <1>0, <1>1
<1> HIDE DEF b, m
<1>4. /\ m < 7 => b = m + t
      /\ m >= 7 => ~(t <= b /\ b < t + 7)
  BY <1>0, <1>1, <1>3
<1>5. \A x, y \in Nat : x * e <= y * e <=> x <= y
  <2>1. \A x, y \in Nat : x <= y => x * e <= y * e  BY <1>0
  <2>2. ASSUME NEW x \in Nat, NEW y \in Nat, y < x PROVE y * e < x * e
    <3>1. (y + 1) * e <= x * e /\ (y + 1) * e = y * e + e  BY <1>0, <2>1, <2>2
    <3> QED  BY <3>1, <1>0
  <2>3. \A x, y \in Nat : x * e \in Nat /\ y * e \in Nat  BY <1>0
  <2> QED  BY <2>1, <2>2, <2>3
<1>6. /\ b * e \in Nat /\ t * e \in Nat /\ (t + 7) * e \in Nat /\ q * e \in Nat
      /\ 2 * ((t + 7) * e) < q * e
  <2>1. \A x \in Nat : x * e \in Nat  BY <1>0
  <2>2. ~(q * e <= (2 * (t + 7)) * e)
    <3>1. q \in Nat /\ 2 * (t + 7) \in Nat  BY <1>0
    <3> QED  BY <3>1, <1>5
  <2>3. (2 * (t + 7)) * e = 2 * ((t + 7) * e)  BY <1>0
  <2> QED  BY <2>1, <2>2, <2>3, <1>0, <1>1
<1>7. Calls!InTable(b * e) <=> t <= b /\ b < t + 7
  <2>1. t * e <= b * e <=> t <= b  BY <1>0, <1>1, <1>5
  <2>2. b * e < (t + 7) * e <=> b < t + 7
    <3>1. t + 7 \in Nat  BY <1>0
    <3>2. (t + 7) * e <= b * e <=> t + 7 <= b  BY <1>1, <3>1, <1>5
    <3> QED  BY <3>1, <3>2, <1>1, <1>6
  <2> DEFINE x == b * e
             y == t * e
             z == (t + 7) * e
             r == q * e
  <2>3. /\ x \in Nat /\ y \in Nat /\ z \in Nat /\ r \in Nat /\ 2 * z < r
        /\ RegisterRange = r /\ Table = y /\ Calls!TableEnd = z /\ x < r
    <3>1. ~(q * e <= b * e)  BY <1>0, <1>1, <1>5
    <3> QED  BY <3>1, <1>6
  <2> HIDE DEF x, y, z, r
  <2>4. Calls!InTable(x) <=> y <= x /\ x < z
    <3> DEFINE h == r \div 2
    <3>1. h \in Nat /\ 2 * h <= r /\ r <= 2 * h + 1  BY <2>3
    <3> HIDE DEF h
    <3>2. RegisterRange \div 2 = h  BY <2>3 DEF h
    <3>3. CASE x < h
      <4>1. Calls!Signed(x) = x  BY <3>2, <3>3 DEF Calls!Signed
      <4> QED  BY <4>1, <2>3 DEF Calls!InTable
    <3>4. CASE ~(x < h)
      <4>1. Calls!Signed(x) = x - r  BY <2>3, <3>2, <3>4 DEF Calls!Signed
      <4>2. ~(x - r >= y) /\ ~(x < z)  BY <2>3, <3>1, <3>4
      <4> QED  BY <4>1, <4>2, <2>3 DEF Calls!InTable
    <3> QED  BY <3>3, <3>4
  <2> QED  BY <2>1, <2>2, <2>4 DEF x, y, z, r
<1>8. ASSUME m < 7 PROVE Calls!At(b * e) = Calls!Entries[m + 1]
  <2>1. b * e = Table + EntrySize * m  BY <1>0, <1>1, <1>4, <1>8
  <2>2. m \in 0..(Len(Calls!Entries) - 1)  BY <1>1, <1>8, SevenEntries
  <2>3. (b * e - Table) \div EntrySize = m
    <3>1. b * e - Table = EntrySize * m  BY <2>1, <1>0, <1>1
    <3>2. (EntrySize * m) \div EntrySize = m  BY <1>0, <1>1
    <3> QED  BY <3>1, <3>2
  <2> QED  BY <2>1, <2>2, <2>3 DEF Calls!At
<1> QED  BY <1>1, <1>2, <1>4, <1>7, <1>8 DEF m

CallInv ==
  /\ x8 \in Nat
  /\ \A i \in 1..7 : caller = Calls!Stubs[i] => x8 = i - 1
  /\ ran # "none" => ran = IF Calls!InTable(Calls!Shifted(x8)) THEN Calls!At(Calls!Shifted(x8))
                           ELSE "syscall_number_error"

LEMMA CallStep ==
  ASSUME Calls!TableAssumption, CallInv, [Calls!Next]_CallVars
  PROVE  CallInv'
<1> USE DEF CallInv
<1>1. ASSUME NEW i \in DOMAIN Calls!Stubs, Calls!stub(Calls!Stubs[i]) PROVE CallInv'
  <2>1. i \in 1..7  BY SevenEntries
  <2>2. Calls!Number(Calls!Stubs[i]) = i - 1
    <3>1. \A j \in DOMAIN Calls!Stubs : Calls!Stubs[j] = Calls!Stubs[i] => j = i
      BY <2>1, SevenEntries
    <3>2. (CHOOSE j \in DOMAIN Calls!Stubs : Calls!Stubs[j] = Calls!Stubs[i]) = i
      BY <3>1
    <3> QED  BY <3>2 DEF Calls!Number
  <2> QED  BY <1>1, <2>1, <2>2, SevenEntries DEF Calls!stub
<1>2. ASSUME NEW n \in 0..(RegisterRange - 1), Calls!own_svc(n) PROVE CallInv'
  <2>1. n \in Nat  BY DEF Calls!TableAssumption
  <2>2. \A i \in 1..7 : Calls!Stubs[i] # "asm"  BY SevenEntries
  <2> QED  BY <1>2, <2>1, <2>2 DEF Calls!own_svc
<1>3. CASE Calls!kernel_stub
  BY <1>3, SevenEntries DEF Calls!kernel_stub, Calls!KernelExit
<1>4. CASE Calls!syscall  BY <1>4 DEF Calls!syscall
<1>5. CASE UNCHANGED CallVars  BY <1>5 DEF CallVars
<1> QED  BY <1>1, <1>2, <1>3, <1>4, <1>5 DEF Calls!Next

LEMMA CallsAreRight ==
  ASSUME Calls!TableAssumption, CallInv
  PROVE  EndsInItsFunction
<1> DEFINE q == RegisterRange \div EntrySize
<1>1. Fits(EntrySize, Slot, q)  BY TableFits DEF Slots
<1>2. q \in Nat \ {0} /\ x8 \in Nat /\ x8 % q \in Nat
  <2>1. q \in Nat \ {0} /\ x8 \in Nat  BY <1>1 DEF Fits, CallInv
  <2> HIDE DEF q
  <2> QED  BY <2>1, ModIsResidue
<1> HIDE DEF q
<1>3. /\ x8 % q < 7 => /\ Calls!InTable(Calls!Shifted(x8))
                       /\ Calls!At(Calls!Shifted(x8)) = Calls!Entries[(x8 % q) + 1]
      /\ x8 % q >= 7 => ~Calls!InTable(Calls!Shifted(x8))
  BY <1>1, <1>2, Dispatched
<1>4. ASSUME ran # "none"
      PROVE  /\ ran # "stray"
             /\ ran = "syscall_number_error" <=> x8 % q >= 7
             /\ x8 % q < 7 => ran = Calls!Stubs[(x8 % q) + 1]
  <2>1. CASE x8 % q < 7
    <3>1. (x8 % q) + 1 \in 1..7  BY <1>2, <2>1
    <3>2. ran = Calls!Entries[(x8 % q) + 1]  BY <1>3, <1>4, <2>1 DEF CallInv
    <3> QED  BY <3>1, <3>2, <1>2, <2>1, SevenEntries
  <2>2. CASE x8 % q >= 7  BY <1>2, <1>3, <1>4, <2>2 DEF CallInv
  <2> QED  BY <2>1, <2>2, <1>2
<1>5. ASSUME NEW i \in 1..7, caller = Calls!Stubs[i] PROVE x8 % q = i - 1
  <2>1. x8 = i - 1 /\ x8 \in 0..6  BY <1>5 DEF CallInv
  <2>2. Residue(x8, q, x8)
    <3>1. x8 = q * 0 + x8 /\ x8 \in 0..(q - 1)  BY <1>1, <1>2, <2>1 DEF Fits
    <3> QED  BY <3>1 DEF Residue
  <2>3. x8 % q = x8  BY <1>2, <2>2, ResidueIsMod
  <2> QED  BY <2>1, <2>3
<1>6. ASSUME ran # "none", NEW i \in DOMAIN Calls!Stubs, caller = Calls!Stubs[i]
      PROVE  ran = Calls!Stubs[i]
  <2>1. i \in 1..7  BY SevenEntries
  <2>2. x8 % q = i - 1  BY <1>5, <1>6, <2>1
  <2> QED  BY <1>4, <1>6, <2>1, <2>2
<1> QED  BY <1>4, <1>6, SevenEntries DEF EndsInItsFunction, Calls!EndsInItsFunction, q

(* Every call of the user library ends in its function of the kernel, and   *)
(* no number, however large, leads out of the table, for every width of     *)
(* the register and every place of the table in its lower half.             *)
THEOREM CallsEndInTheirFunctions == MachineSpec => []EndsInItsFunction
<1>1. Calls!TableAssumption  BY MachineAssumption
<1>2. MachineInit => CallInv
  BY SevenEntries DEF MachineInit, Calls!Init, CallInv
<1>3. CallInv /\ [boot \/ shell \/ convert \/ start \/ call \/ print]_<<
        vars, ArchiveVars, last, ExecVars, CallVars, PrintVars>> => CallInv'
  BY <1>1, CallStep, MachineSteps
<1>4. CallInv => EndsInItsFunction  BY <1>1, CallsAreRight
<1> QED  BY <1>2, <1>3, <1>4, PTL DEF MachineSpec
-----------------------------------------------------------------------------
(* Folds over a sequence: FoldLeft is a function on sets of positions; it   *)
(* exists, and on the positions up to k it makes one step from k - 1.       *)
Fold(g, n, F, base, seq) ==
  \A s \in SUBSET (1..n) :
    g[s] = IF s = {} THEN base ELSE F[<<g[s \ {Max(s)}], seq[Max(s)]>>]

LEMMA MaxIs ==
  ASSUME NEW n \in Nat, NEW s \in SUBSET (1..n), s # {}
  PROVE  /\ Max(s) \in s
         /\ \A x \in s : (\A y \in s : x >= y) => Max(s) = x
<1> DEFINE Top(x) == \A y \in s : x >= y
<1>1. \E x \in s : Top(x)
  <2> DEFINE D == {n - x : x \in s}
  <2>1. D \subseteq Nat /\ D # {}
    <3>1. ASSUME NEW x \in s PROVE n - x \in Nat
      <4>1. x \in 1..n  OBVIOUS
      <4> QED  BY <4>1
    <3>2. D # {}  OBVIOUS
    <3> QED  BY <3>1, <3>2
  <2> HIDE DEF D
  <2>2. PICK d \in D : \A e \in D : d <= e  BY <2>1, LeastNat
  <2>3. PICK x \in s : d = n - x  BY <2>2 DEF D
  <2>4. ASSUME NEW y \in s PROVE x >= y
    <3>1. n - y \in D  BY DEF D
    <3>2. n - x <= n - y  BY <2>2, <2>3, <3>1
    <3>3. x \in Int /\ y \in Int  OBVIOUS
    <3> QED  BY <3>2, <3>3
  <2> QED  BY <2>4
<1>2. \A x, y \in s : Top(x) /\ Top(y) => x = y
  <2>1. s \subseteq Int  OBVIOUS
  <2> QED  BY <2>1
<1>3. Max(s) = CHOOSE x \in s : Top(x)  BY DEF Max
<1> HIDE DEF Top
<1>4. Max(s) \in s /\ Top(Max(s))  BY <1>1, <1>3
<1>5. \A x \in s : Top(x) => Max(s) = x  BY <1>2, <1>4
<1> QED  BY <1>4, <1>5 DEF Top

(* What is folded: values in V, by F, with n elements of X.                 *)
Foldable(n, V, X, F, base, seq) ==
  n \in Nat /\ F \in [V \X X -> V] /\ base \in V /\ \A i \in 1..n : seq[i] \in X

HasFold(n, V, F, base, seq) == \E g \in [SUBSET (1..n) -> V] : Fold(g, n, F, base, seq)

LEMMA FoldExists ==
  ASSUME NEW n, NEW V, NEW X, NEW F, NEW base, NEW seq, Foldable(n, V, X, F, base, seq)
  PROVE  HasFold(n, V, F, base, seq)
<1> USE DEF Foldable
<1> DEFINE Good(m) == \E g \in [SUBSET (1..m) -> V] : Fold(g, m, F, base, seq)
           Bad == {m \in 0..n : ~Good(m)}
<1>1. SUFFICES ASSUME Bad # {} PROVE FALSE
  <2>1. n \in 0..n  OBVIOUS
  <2>2. Good(n)
    <3> HIDE DEF Good
    <3> QED  BY <1>1, <2>1
  <2> QED  BY <2>2 DEF HasFold
<1>2. PICK m \in Bad : \A k \in Bad : m <= k
  <2>1. Bad \subseteq Nat  OBVIOUS
  <2> HIDE DEF Bad
  <2> QED  BY <1>1, <2>1, LeastNat
<1>3. m \in 0..n /\ ~Good(m)  BY <1>2
<1>4. CASE m = 0
  <2> DEFINE g == [s \in SUBSET (1..0) |-> base]
  <2>1. g \in [SUBSET (1..0) -> V]  OBVIOUS
  <2>2. \A s \in SUBSET (1..0) : s = {} /\ g[s] = base  OBVIOUS
  <2> HIDE DEF g
  <2>3. Good(0)  BY <2>1, <2>2 DEF Fold
  <2> QED  BY <1>3, <1>4, <2>3
<1>5. CASE m # 0
  <2>1. m - 1 \in 0..n /\ m \in 1..n /\ m \in Nat  BY <1>3, <1>5
  <2>2. Good(m - 1)
    <3> HIDE DEF Good
    <3> QED  BY <1>2, <2>1
  <2>3. PICK f \in [SUBSET (1..(m - 1)) -> V] : Fold(f, m - 1, F, base, seq)  BY <2>2
  <2>4. \A s \in SUBSET (1..m) : s \ {m} \in SUBSET (1..(m - 1))  BY <2>1
  <2> DEFINE g == [s \in SUBSET (1..m) |-> IF m \in s THEN F[<<f[s \ {m}], seq[m]>>] ELSE f[s]]
  <2>5. \A s \in SUBSET (1..m) : m \notin s => s \in SUBSET (1..(m - 1))  BY <2>1
  <2>6. g \in [SUBSET (1..m) -> V]
    <3>1. ASSUME NEW s \in SUBSET (1..m)
          PROVE  (IF m \in s THEN F[<<f[s \ {m}], seq[m]>>] ELSE f[s]) \in V
      <4>1. f[s \ {m}] \in V  BY <2>4
      <4>2. seq[m] \in X  BY <2>1
      <4> QED  BY <4>1, <4>2, <2>5
    <3> QED  BY <3>1
  <2>7. ASSUME NEW s \in SUBSET (1..m)
        PROVE  g[s] = IF s = {} THEN base ELSE F[<<g[s \ {Max(s)}], seq[Max(s)]>>]
    <3>1. CASE m \in s
      <4>1. Max(s) = m
        <5>1. ASSUME NEW y \in s PROVE m >= y
          <6>1. y \in 1..m  OBVIOUS
          <6> QED  BY <2>1, <6>1
        <5> QED  BY <2>1, <3>1, <5>1, MaxIs
      <4>2. s \ {m} \in SUBSET (1..m) /\ m \notin s \ {m}  OBVIOUS
      <4>3. g[s \ {m}] = f[s \ {m}]  BY <4>2
      <4>4. g[s] = F[<<f[s \ {m}], seq[m]>>]  BY <3>1
      <4> QED  BY <3>1, <4>1, <4>3, <4>4
    <3>2. CASE m \notin s
      <4>1. s \in SUBSET (1..(m - 1)) /\ g[s] = f[s]  BY <2>5, <3>2
      <4>2. f[s] = IF s = {} THEN base ELSE F[<<f[s \ {Max(s)}], seq[Max(s)]>>]
        BY <2>3, <4>1 DEF Fold
      <4>3. s \ {Max(s)} \in SUBSET (1..m) /\ m \notin s \ {Max(s)}  BY <3>2
      <4>4. g[s \ {Max(s)}] = f[s \ {Max(s)}]  BY <4>3
      <4> QED  BY <4>1, <4>2, <4>4
    <3> QED  BY <3>1, <3>2
  <2> HIDE DEF g
  <2>8. Good(m)  BY <2>6, <2>7 DEF Fold
  <2> QED  BY <1>3, <2>8
<1> QED  BY <1>4, <1>5

(* The state of parse, before its first character and in general.           *)
Typed == Letters \cup {Space}
Begun == [flag |-> FALSE, arg_flag |-> FALSE, cmdline |-> <<>>, args |-> <<>>, arg |-> <<>>]
ParseState == [flag : BOOLEAN, arg_flag : BOOLEAN, cmdline : Seq(Typed),
               args : Seq(Seq(Typed)), arg : Seq(Typed)]

LEMMA ParsedIs ==
  ASSUME NEW p \in ParseState, NEW c \in Typed
  PROVE  /\ ~p.flag /\ c = Space =>
              Parsed(p, c) = [flag |-> TRUE, arg_flag |-> p.arg_flag, cmdline |-> p.cmdline,
                              args |-> p.args, arg |-> p.arg]
         /\ ~p.flag /\ c # Space =>
              Parsed(p, c) = [flag |-> p.flag, arg_flag |-> p.arg_flag,
                              cmdline |-> Append(p.cmdline, c), args |-> p.args, arg |-> p.arg]
         /\ p.flag /\ c = Space =>
              Parsed(p, c) = [flag |-> p.flag, arg_flag |-> p.arg_flag, cmdline |-> p.cmdline,
                              args |-> Append(p.args, p.arg), arg |-> <<>>]
         /\ p.flag /\ c # Space =>
              Parsed(p, c) = [flag |-> p.flag, arg_flag |-> TRUE, cmdline |-> p.cmdline,
                              args |-> p.args, arg |-> Append(p.arg, c)]
BY DEF Parsed, ParseState

LEMMA ParsedTypes ==
  ASSUME NEW p \in ParseState, NEW c \in Typed
  PROVE  Parsed(p, c) \in ParseState
<1>1. /\ p.flag \in BOOLEAN /\ p.arg_flag \in BOOLEAN /\ p.cmdline \in Seq(Typed)
      /\ p.args \in Seq(Seq(Typed)) /\ p.arg \in Seq(Typed)
  BY DEF ParseState
<1>2. /\ Append(p.cmdline, c) \in Seq(Typed) /\ Append(p.arg, c) \in Seq(Typed)
      /\ Append(p.args, p.arg) \in Seq(Seq(Typed)) /\ <<>> \in Seq(Typed)
  BY <1>1
<1>3. CASE ~p.flag /\ c = Space
  <2>1. Parsed(p, c) = [flag |-> TRUE, arg_flag |-> p.arg_flag, cmdline |-> p.cmdline,
                        args |-> p.args, arg |-> p.arg]
    BY <1>3, ParsedIs
  <2>2. [flag |-> TRUE, arg_flag |-> p.arg_flag, cmdline |-> p.cmdline,
         args |-> p.args, arg |-> p.arg] \in ParseState
    BY <1>1 DEF ParseState
  <2> QED  BY <2>1, <2>2
<1>4. CASE ~p.flag /\ c # Space
  <2>1. Parsed(p, c) = [flag |-> p.flag, arg_flag |-> p.arg_flag,
                        cmdline |-> Append(p.cmdline, c), args |-> p.args, arg |-> p.arg]
    BY <1>4, ParsedIs
  <2>2. [flag |-> p.flag, arg_flag |-> p.arg_flag, cmdline |-> Append(p.cmdline, c),
         args |-> p.args, arg |-> p.arg] \in ParseState
    BY <1>1, <1>2 DEF ParseState
  <2> QED  BY <2>1, <2>2
<1>5. CASE p.flag /\ c = Space
  <2>1. Parsed(p, c) = [flag |-> p.flag, arg_flag |-> p.arg_flag, cmdline |-> p.cmdline,
                        args |-> Append(p.args, p.arg), arg |-> <<>>]
    BY <1>5, ParsedIs
  <2>2. [flag |-> p.flag, arg_flag |-> p.arg_flag, cmdline |-> p.cmdline,
         args |-> Append(p.args, p.arg), arg |-> <<>>] \in ParseState
    BY <1>1, <1>2 DEF ParseState
  <2> QED  BY <2>1, <2>2
<1>6. CASE p.flag /\ c # Space
  <2>1. Parsed(p, c) = [flag |-> p.flag, arg_flag |-> TRUE, cmdline |-> p.cmdline,
                        args |-> p.args, arg |-> Append(p.arg, c)]
    BY <1>6, ParsedIs
  <2>2. [flag |-> p.flag, arg_flag |-> TRUE, cmdline |-> p.cmdline, args |-> p.args,
         arg |-> Append(p.arg, c)] \in ParseState
    BY <1>1, <1>2 DEF ParseState
  <2> QED  BY <2>1, <2>2
<1> QED  BY <1>3, <1>4, <1>5, <1>6

(* The steps of a fold, h[k] being what it has made of the first k.         *)
ParseFolds(g, text) ==
  g = [s \in SUBSET (DOMAIN text) |->
         IF s = {} THEN Begun ELSE Parsed(g[s \ {Max(s)}], text[Max(s)])]

LEMMA InitialSets ==
  ASSUME NEW n \in Nat, NEW k \in 1..n
  PROVE  /\ 1..k \in SUBSET (1..n) /\ 1..k # {} /\ Max(1..k) = k
         /\ (1..k) \ {k} = 1..(k - 1)
<1>1. 1..k \in SUBSET (1..n) /\ k \in 1..k  OBVIOUS
<1>2. \A y \in 1..k : k >= y  OBVIOUS
<1>3. Max(1..k) = k
  <2> DEFINE s == 1..k
  <2>1. s \in SUBSET (1..n) /\ k \in s /\ \A y \in s : k >= y  BY <1>1, <1>2
  <2> HIDE DEF s
  <2>2. Max(s) = k  BY <2>1, MaxIs
  <2> QED  BY <2>2 DEF s
<1> QED  BY <1>1, <1>3

LEMMA ParseSteps ==
  ASSUME NEW text \in Seq(Typed)
  PROVE  \E h : /\ h[0] = Begun
                /\ \A k \in 1..Len(text) : h[k] = Parsed(h[k - 1], text[k])
                /\ parse(text) = [cmdline |-> h[Len(text)].cmdline,
                                  args |-> IF h[Len(text)].arg_flag
                                           THEN Append(h[Len(text)].args, h[Len(text)].arg)
                                           ELSE h[Len(text)].args]
<1> DEFINE n == Len(text)
           F == [x \in ParseState \X Typed |-> Parsed(x[1], x[2])]
<1>1. n \in Nat /\ DOMAIN text = 1..n /\ \A i \in 1..n : text[i] \in Typed  OBVIOUS
<1>2. F \in [ParseState \X Typed -> ParseState]  BY ParsedTypes
<1>3. Begun \in ParseState  BY DEF Begun, ParseState
<1>4. \A p \in ParseState, c \in Typed : F[<<p, c>>] = Parsed(p, c)  OBVIOUS
<1> HIDE DEF n, F
<1>5. PICK f \in [SUBSET (1..n) -> ParseState] : Fold(f, n, F, Begun, text)
  <2>1. Foldable(n, ParseState, Typed, F, Begun, text)  BY <1>1, <1>2, <1>3 DEF Foldable
  <2>2. HasFold(n, ParseState, F, Begun, text)  BY ONLY <2>1, FoldExists
  <2> QED  BY ONLY <2>2 DEF HasFold
<1>6. ParseFolds(f, text)
  <2> DEFINE e == [s \in SUBSET (1..n) |->
                     IF s = {} THEN Begun ELSE Parsed(f[s \ {Max(s)}], text[Max(s)])]
  <2>1. ASSUME NEW s \in SUBSET (1..n) PROVE f[s] = e[s]
    <3>1. CASE s = {}  BY <3>1, <1>5 DEF Fold
    <3>2. CASE s # {}
      <4>1. Max(s) \in 1..n /\ s \ {Max(s)} \in SUBSET (1..n)  BY <1>1, <3>2, MaxIs
      <4>2. f[s \ {Max(s)}] \in ParseState /\ text[Max(s)] \in Typed  BY <4>1, <1>1
      <4>3. f[s] = F[<<f[s \ {Max(s)}], text[Max(s)]>>]  BY <1>5, <3>2 DEF Fold
      <4> QED  BY <3>2, <4>2, <4>3, <1>4
    <3> QED  BY <3>1, <3>2
  <2> HIDE DEF e
  <2>2. f = [s \in SUBSET (1..n) |-> f[s]] /\ e = [s \in SUBSET (1..n) |-> e[s]]  BY DEF e
  <2>3. f = e  BY <2>1, <2>2
  <2> QED  BY <2>3, <1>1 DEF e, ParseFolds
<1> DEFINE g == CHOOSE g : ParseFolds(g, text)
<1>7. ParseFolds(g, text)  BY <1>6
<1>8. FoldLeft(Parsed, Begun, text) = g[DOMAIN text]
  BY DEF FoldLeft, MapThenFoldSet, ParseFolds
<1> HIDE DEF g
<1>9. \A s \in SUBSET (1..n) :
        g[s] = IF s = {} THEN Begun ELSE Parsed(g[s \ {Max(s)}], text[Max(s)])
  BY <1>1, <1>7 DEF ParseFolds
<1> DEFINE h == [k \in 0..n |-> g[1..k]]
<1>10. h[0] = Begun
  <2>1. 1..0 = {} /\ {} \in SUBSET (1..n)  OBVIOUS
  <2>2. h[0] = g[{}]  BY <1>1, <2>1
  <2> QED  BY <1>9, <2>1, <2>2
<1>11. ASSUME NEW k \in 1..n PROVE h[k] = Parsed(h[k - 1], text[k])
  <2>1. k \in 0..n /\ k - 1 \in 0..n  BY <1>1
  <2>2. h[k] = g[1..k] /\ h[k - 1] = g[1..(k - 1)]  BY <2>1
  <2> HIDE DEF h
  <2>3. g[1..k] = Parsed(g[(1..k) \ {Max(1..k)}], text[Max(1..k)])
    BY <1>1, <1>9, InitialSets
  <2> QED  BY <1>1, <2>2, <2>3, InitialSets
<1>12. FoldLeft(Parsed, Begun, text) = h[n]
  <2>1. n \in 0..n  BY <1>1
  <2> QED  BY <1>1, <1>8, <2>1
<1> HIDE DEF h
<1>13. parse(text) = [cmdline |-> h[n].cmdline,
                      args |-> IF h[n].arg_flag THEN Append(h[n].args, h[n].arg) ELSE h[n].args]
  BY <1>12 DEF parse, Begun
<1> QED  BY <1>10, <1>11, <1>13 DEF n

(* The words joined again, step by step.                                    *)
Joins(h, c, as, n) ==
  /\ h[0] = c
  /\ \A k \in 1..n : h[k] = (h[k - 1] \o <<Space>>) \o as[k]
JoinFolds(g, c, as) ==
  g = [s \in SUBSET (DOMAIN as) |->
         IF s = {} THEN c ELSE (g[s \ {Max(s)}] \o <<Space>>) \o as[Max(s)]]

LEMMA JoinSteps ==
  ASSUME NEW e, e.cmdline \in Seq(Typed), e.args \in Seq(Seq(Typed))
  PROVE  \E h : Joins(h, e.cmdline, e.args, Len(e.args)) /\ Joined(e) = h[Len(e.args)]
<1> DEFINE V == Seq(Typed)
           c == e.cmdline
           as == e.args
           n == Len(as)
           F == [x \in V \X V |-> (x[1] \o <<Space>>) \o x[2]]
<1>1. n \in Nat /\ DOMAIN as = 1..n /\ \A i \in 1..n : as[i] \in V
  <2>1. as \in Seq(V)  OBVIOUS
  <2> HIDE DEF V, as
  <2> QED  BY <2>1, LenProperties, ElementOfSeq
<1>2. F \in [V \X V -> V]
  <2>1. <<Space>> \in V  BY DEF Typed
  <2>2. \A x, y \in V : (x \o <<Space>>) \o y \in V  BY <2>1, ConcatProperties
  <2> QED  BY <2>2
<1>3. c \in V  OBVIOUS
<1>4. \A x, y \in V : F[<<x, y>>] = (x \o <<Space>>) \o y  OBVIOUS
<1> HIDE DEF n, F, V
<1>5. PICK f \in [SUBSET (1..n) -> V] : Fold(f, n, F, c, as)
  <2>1. Foldable(n, V, V, F, c, as)  BY <1>1, <1>2, <1>3 DEF Foldable
  <2>2. HasFold(n, V, F, c, as)  BY ONLY <2>1, FoldExists
  <2> QED  BY ONLY <2>2 DEF HasFold
<1>6. JoinFolds(f, c, as)
  <2> DEFINE r == [s \in SUBSET (1..n) |->
                     IF s = {} THEN c ELSE (f[s \ {Max(s)}] \o <<Space>>) \o as[Max(s)]]
  <2>1. ASSUME NEW s \in SUBSET (1..n) PROVE f[s] = r[s]
    <3>1. CASE s = {}  BY <3>1, <1>5 DEF Fold
    <3>2. CASE s # {}
      <4>1. Max(s) \in 1..n /\ s \ {Max(s)} \in SUBSET (1..n)  BY <1>1, <3>2, MaxIs
      <4>2. f[s \ {Max(s)}] \in V /\ as[Max(s)] \in V  BY <4>1, <1>1
      <4>3. f[s] = F[<<f[s \ {Max(s)}], as[Max(s)]>>]  BY <1>5, <3>2 DEF Fold
      <4> QED  BY <3>2, <4>2, <4>3, <1>4
    <3> QED  BY <3>1, <3>2
  <2> HIDE DEF r
  <2>2. f = [s \in SUBSET (1..n) |-> f[s]] /\ r = [s \in SUBSET (1..n) |-> r[s]]  BY DEF r
  <2>3. f = r  BY <2>1, <2>2
  <2> QED  BY <2>3, <1>1 DEF r, JoinFolds
<1> DEFINE g == CHOOSE g : JoinFolds(g, c, as)
<1>7. JoinFolds(g, c, as)  BY <1>6
<1>8. Joined(e) = g[DOMAIN as]
  BY DEF Joined, FoldLeft, MapThenFoldSet, JoinFolds
<1> HIDE DEF g
<1>9. \A s \in SUBSET (1..n) :
        g[s] = IF s = {} THEN c ELSE (g[s \ {Max(s)}] \o <<Space>>) \o as[Max(s)]
  BY <1>1, <1>7 DEF JoinFolds
<1> DEFINE h == [k \in 0..n |-> g[1..k]]
<1>10. h[0] = c
  <2>1. 1..0 = {} /\ {} \in SUBSET (1..n)  OBVIOUS
  <2>2. h[0] = g[{}]  BY <1>1, <2>1
  <2> QED  BY <1>9, <2>1, <2>2
<1>11. ASSUME NEW k \in 1..n PROVE h[k] = (h[k - 1] \o <<Space>>) \o as[k]
  <2>1. k \in 0..n /\ k - 1 \in 0..n  BY <1>1
  <2>2. h[k] = g[1..k] /\ h[k - 1] = g[1..(k - 1)]  BY <2>1
  <2> HIDE DEF h
  <2>3. g[1..k] = (g[(1..k) \ {Max(1..k)}] \o <<Space>>) \o as[Max(1..k)]
    BY <1>1, <1>9, InitialSets
  <2> QED  BY <1>1, <2>2, <2>3, InitialSets
<1>12. Joined(e) = h[n]
  <2>1. n \in 0..n  BY <1>1
  <2> QED  BY <1>1, <1>8, <2>1
<1> HIDE DEF h
<1>13. Joins(h, c, as, n)  BY <1>10, <1>11 DEF Joins
<1> QED  BY <1>12, <1>13 DEF n

Agree(as, bs, n) == \A k \in 1..n : as[k] = bs[k]
LEMMA JoinsUnique ==
  ASSUME NEW h, NEW j, NEW c, NEW as, NEW bs, NEW n \in Nat,
         Joins(h, c, as, n), Joins(j, c, bs, n), Agree(as, bs, n)
  PROVE  h[n] = j[n]
<1> DEFINE Bad == {k \in 0..n : h[k] # j[k]}
<1>1. ASSUME Bad # {} PROVE FALSE
  <2>1. Bad \subseteq Nat  OBVIOUS
  <2>2. PICK m \in Bad : \A k \in Bad : m <= k  BY <1>1, <2>1, LeastNat
  <2>3. m # 0  BY <2>2 DEF Joins
  <2>4. m - 1 \in 0..n /\ m \in 1..n /\ m - 1 \notin Bad  BY <2>2, <2>3
  <2>5. h[m - 1] = j[m - 1]  BY <2>4
  <2> QED  BY <2>2, <2>4, <2>5 DEF Joins, Agree
<1> QED  BY <1>1

(* What parse has read so far, t: the command, and behind the first space   *)
(* the arguments joined by spaces.                                          *)
Starts(t, c) == /\ Len(t) > Len(c) /\ t[Len(c) + 1] = Space
                /\ \A i \in 1..Len(c) : t[i] = c[i]
Spelled(p, t) ==
  /\ p \in ParseState /\ t \in Seq(Typed) /\ p.cmdline \in Seq(Letters)
  /\ ~p.arg_flag => p.arg = <<>>
  /\ ~p.flag => p.args = <<>> /\ ~p.arg_flag /\ t = p.cmdline
  /\ p.flag => /\ Starts(t, p.cmdline)
               /\ \E j : /\ Joins(j, p.cmdline, p.args, Len(p.args))
                         /\ j[Len(p.args)] \in Seq(Typed)
                         /\ t = (j[Len(p.args)] \o <<Space>>) \o p.arg

LEMMA StartsGrows ==
  ASSUME NEW t \in Seq(Typed), NEW c \in Seq(Typed), NEW x \in Typed, Starts(t, c)
  PROVE  Starts(Append(t, x), c)
<1>1. /\ Len(t) \in Nat /\ Len(c) \in Nat /\ Len(Append(t, x)) = Len(t) + 1
      /\ \A i \in 1..Len(t) : Append(t, x)[i] = t[i]
  BY AppendProperties, LenProperties
<1>2. \A i \in 1..Len(c) : i \in 1..Len(t)  BY <1>1 DEF Starts
<1>3. Len(c) + 1 \in 1..Len(t)  BY <1>1 DEF Starts
<1> QED  BY <1>1, <1>2, <1>3 DEF Starts

LEMMA SpelledStep ==
  ASSUME NEW p, NEW t, Spelled(p, t), NEW c \in Typed
  PROVE  Spelled(Parsed(p, c), Append(t, c))
<1> DEFINE q == Parsed(p, c)
           u == Append(t, c)
<1>1. /\ p \in ParseState /\ t \in Seq(Typed) /\ p.cmdline \in Seq(Letters)
      /\ ~p.arg_flag => p.arg = <<>>
  BY DEF Spelled
<1>2. /\ p.cmdline \in Seq(Typed) /\ p.args \in Seq(Seq(Typed)) /\ p.arg \in Seq(Typed)
      /\ p.flag \in BOOLEAN /\ p.arg_flag \in BOOLEAN
  BY <1>1 DEF ParseState
<1>3. q \in ParseState /\ u \in Seq(Typed)  BY <1>1, ParsedTypes, AppendProperties
<1>4. /\ Len(t) \in Nat /\ Len(u) = Len(t) + 1 /\ u[Len(t) + 1] = c
      /\ \A i \in 1..Len(t) : u[i] = t[i]
  BY <1>1, AppendProperties, LenProperties
<1>5. <<Space>> \in Seq(Typed) /\ <<c>> \in Seq(Typed) /\ <<>> \in Seq(Typed)  BY DEF Typed
<1>6. CASE ~p.flag /\ c = Space
  <2>1. q = [flag |-> TRUE, arg_flag |-> p.arg_flag, cmdline |-> p.cmdline,
             args |-> p.args, arg |-> p.arg]
    BY <1>1, <1>6, ParsedIs
  <2>2. t = p.cmdline /\ p.args = <<>> /\ p.arg = <<>>  BY <1>1, <1>6 DEF Spelled
  <2> DEFINE j == [k \in {0} |-> p.cmdline]
  <2>3. Len(p.args) = 0 /\ j[0] = p.cmdline  BY <2>2
  <2>4. Joins(j, p.cmdline, p.args, Len(p.args))  BY <2>3 DEF Joins
  <2>5. u = (j[0] \o <<Space>>) \o p.arg
    <3>1. u = t \o <<Space>>  BY <1>1, <1>6, AppendIsConcat
    <3>2. t \o <<Space>> \in Seq(Typed)  BY <1>1, <1>5, ConcatProperties
    <3>3. (t \o <<Space>>) \o <<>> = t \o <<Space>>  BY <3>2, ConcatEmptySeq
    <3> QED  BY <3>1, <3>3, <2>2, <2>3
  <2> HIDE DEF j
  <2>6. Starts(u, p.cmdline)  BY <1>4, <1>6, <2>2 DEF Starts
  <2>7. j[0] \in Seq(Typed)  BY <2>3, <1>2
  <2> HIDE DEF u
  <2>8. \E i : /\ Joins(i, p.cmdline, p.args, Len(p.args)) /\ i[Len(p.args)] \in Seq(Typed)
               /\ u = (i[Len(p.args)] \o <<Space>>) \o p.arg
    BY <2>3, <2>4, <2>5, <2>7
  <2> HIDE DEF q
  <2>9. /\ q.flag = TRUE /\ q.arg_flag = p.arg_flag /\ q.cmdline = p.cmdline
        /\ q.args = p.args /\ q.arg = p.arg
    BY <2>1
  <2>10. Spelled(q, u)  BY <1>1, <1>3, <2>6, <2>8, <2>9 DEF Spelled
  <2> QED  BY <2>10 DEF q, u
<1>7. CASE ~p.flag /\ c # Space
  <2>1. q = [flag |-> p.flag, arg_flag |-> p.arg_flag, cmdline |-> Append(p.cmdline, c),
             args |-> p.args, arg |-> p.arg]
    BY <1>1, <1>7, ParsedIs
  <2>2. t = p.cmdline /\ p.args = <<>> /\ ~p.arg_flag  BY <1>1, <1>7 DEF Spelled
  <2>3. c \in Letters  BY <1>7 DEF Typed
  <2>4. Append(p.cmdline, c) \in Seq(Letters)  BY <1>1, <2>3, AppendProperties
  <2>5. u = Append(p.cmdline, c)  BY <2>2
  <2> HIDE DEF q, u
  <2>6. /\ q.flag = p.flag /\ q.arg_flag = p.arg_flag /\ q.cmdline = Append(p.cmdline, c)
        /\ q.args = p.args /\ q.arg = p.arg
    BY <2>1
  <2>7. Spelled(q, u)  BY <1>1, <1>3, <1>7, <2>2, <2>4, <2>5, <2>6 DEF Spelled
  <2> QED  BY <2>7 DEF q, u
<1>8. CASE p.flag
  <2>1. Starts(t, p.cmdline)  BY <1>8 DEF Spelled
  <2>2. Starts(u, p.cmdline)  BY <1>1, <1>2, <2>1, StartsGrows
  <2>3. PICK j : /\ Joins(j, p.cmdline, p.args, Len(p.args))
                 /\ j[Len(p.args)] \in Seq(Typed)
                 /\ t = (j[Len(p.args)] \o <<Space>>) \o p.arg
    BY <1>8 DEF Spelled
  <2> DEFINE n == Len(p.args)
             w == j[n]
  <2>4. n \in Nat /\ w \in Seq(Typed) /\ t = (w \o <<Space>>) \o p.arg
    BY <1>2, <2>3, LenProperties
  <2>5. w \o <<Space>> \in Seq(Typed)  BY <1>5, <2>4, ConcatProperties
  <2> HIDE DEF w, n
  <2>6. CASE c = Space
    <3>1. q = [flag |-> p.flag, arg_flag |-> p.arg_flag, cmdline |-> p.cmdline,
               args |-> Append(p.args, p.arg), arg |-> <<>>]
      BY <1>1, <1>8, <2>6, ParsedIs
    <3> DEFINE as == Append(p.args, p.arg)
               i == [k \in 0..(n + 1) |-> IF k <= n THEN j[k] ELSE t]
    <3>2. Len(as) = n + 1 /\ as[n + 1] = p.arg /\ \A k \in 1..n : as[k] = p.args[k]
      BY <1>2, AppendProperties DEF n
    <3>3. (\A k \in 0..n : i[k] = j[k]) /\ i[n + 1] = t
      <4>1. \A k \in 0..n : k \in 0..(n + 1) /\ k <= n  BY <2>4
      <4>2. n + 1 \in 0..(n + 1) /\ ~(n + 1 <= n)  BY <2>4
      <4> QED  BY <4>1, <4>2
    <3> HIDE DEF i, as
    <3>4. Joins(i, p.cmdline, as, n + 1)
      <4>1. i[0] = p.cmdline  BY <2>3, <2>4, <3>3 DEF Joins
      <4>2. ASSUME NEW k \in 1..(n + 1) PROVE i[k] = (i[k - 1] \o <<Space>>) \o as[k]
        <5>1. CASE k = n + 1
          <6>1. k - 1 = n /\ n \in 0..n  BY <2>4, <5>1
          <6> QED  BY <2>4, <3>2, <3>3, <5>1, <6>1 DEF w
        <5>2. CASE k # n + 1
          <6>1. k \in 1..n /\ k \in 0..n /\ k - 1 \in 0..n  BY <2>4, <5>2
          <6>2. j[k] = (j[k - 1] \o <<Space>>) \o p.args[k]  BY <2>3, <6>1 DEF Joins, n
          <6> QED  BY <3>2, <3>3, <6>1, <6>2
        <5> QED  BY <5>1, <5>2
      <4> QED  BY <4>1, <4>2 DEF Joins
    <3>5. u = (t \o <<Space>>) \o <<>>
      <4>1. u = t \o <<Space>>  BY <1>1, <2>6, AppendIsConcat
      <4>2. t \o <<Space>> \in Seq(Typed)  BY <1>1, <1>5, ConcatProperties
      <4> QED  BY <4>1, <4>2, ConcatEmptySeq
    <3>6. \E l : /\ Joins(l, p.cmdline, as, Len(as)) /\ l[Len(as)] \in Seq(Typed)
                 /\ u = (l[Len(as)] \o <<Space>>) \o <<>>
      <4> HIDE DEF u
      <4> QED  BY <1>1, <3>2, <3>3, <3>4, <3>5
    <3> HIDE DEF q, u
    <3>7. /\ q.flag = p.flag /\ q.arg_flag = p.arg_flag /\ q.cmdline = p.cmdline
          /\ q.args = as /\ q.arg = <<>>
      BY <3>1 DEF as
    <3>8. Spelled(q, u)  BY <1>1, <1>3, <1>8, <2>2, <3>6, <3>7 DEF Spelled
    <3> QED  BY <3>8 DEF q, u
  <2>7. CASE c # Space
    <3>1. q = [flag |-> p.flag, arg_flag |-> TRUE, cmdline |-> p.cmdline,
               args |-> p.args, arg |-> Append(p.arg, c)]
      BY <1>1, <1>8, <2>7, ParsedIs
    <3>2. u = (w \o <<Space>>) \o Append(p.arg, c)
      <4>1. u = ((w \o <<Space>>) \o p.arg) \o <<c>>  BY <1>1, <2>4, AppendIsConcat
      <4>2. ((w \o <<Space>>) \o p.arg) \o <<c>> = (w \o <<Space>>) \o (p.arg \o <<c>>)
        <5>1. \A x, y, z \in Seq(Typed) : (x \o y) \o z = x \o (y \o z)  BY ConcatAssociative
        <5> QED  BY <1>2, <1>5, <2>5, <5>1
      <4>3. p.arg \o <<c>> = Append(p.arg, c)  BY <1>2, AppendIsConcat
      <4> QED  BY <4>1, <4>2, <4>3
    <3>3. \E l : /\ Joins(l, p.cmdline, p.args, Len(p.args)) /\ l[Len(p.args)] \in Seq(Typed)
                 /\ u = (l[Len(p.args)] \o <<Space>>) \o Append(p.arg, c)
      <4> HIDE DEF u
      <4> QED  BY <2>3, <3>2 DEF w, n
    <3> HIDE DEF q, u
    <3>4. /\ q.flag = p.flag /\ q.arg_flag = TRUE /\ q.cmdline = p.cmdline
          /\ q.args = p.args /\ q.arg = Append(p.arg, c)
      BY <3>1
    <3>5. Spelled(q, u)  BY <1>1, <1>3, <1>8, <2>2, <3>3, <3>4 DEF Spelled
    <3> QED  BY <3>5 DEF q, u
  <2> QED  BY <2>6, <2>7
<1> QED  BY <1>2, <1>6, <1>7, <1>8

LEMMA ParseSpelled ==
  ASSUME NEW text \in Seq(Typed)
  PROVE  \E p : /\ Spelled(p, text)
                /\ parse(text) = [cmdline |-> p.cmdline,
                                  args |-> IF p.arg_flag THEN Append(p.args, p.arg) ELSE p.args]
<1> DEFINE n == Len(text)
<1>1. n \in Nat /\ \A k \in 1..n : text[k] \in Typed  BY LenProperties, ElementOfSeq
<1>2. PICK h : /\ h[0] = Begun
               /\ \A k \in 1..n : h[k] = Parsed(h[k - 1], text[k])
               /\ parse(text) = [cmdline |-> h[n].cmdline,
                                 args |-> IF h[n].arg_flag THEN Append(h[n].args, h[n].arg)
                                          ELSE h[n].args]
  BY ParseSteps
<1> HIDE DEF n
<1> DEFINE Bad == {k \in 0..n : ~Spelled(h[k], SubSeq(text, 1, k))}
<1>3. ASSUME Bad # {} PROVE FALSE
  <2>1. Bad \subseteq Nat  OBVIOUS
  <2>2. PICK m \in Bad : \A k \in Bad : m <= k  BY <1>3, <2>1, LeastNat
  <2>3. CASE m = 0
    <3>1. SubSeq(text, 1, 0) = <<>>  BY SubSeqEmpty
    <3>2. Begun \in ParseState /\ <<>> \in Seq(Typed) /\ <<>> \in Seq(Letters)
      BY DEF Begun, ParseState
    <3>3. /\ Begun.flag = FALSE /\ Begun.arg_flag = FALSE /\ Begun.cmdline = <<>>
          /\ Begun.args = <<>> /\ Begun.arg = <<>>
      BY DEF Begun
    <3>4. Spelled(Begun, <<>>)  BY <3>2, <3>3 DEF Spelled
    <3> QED  BY <1>2, <2>2, <2>3, <3>1, <3>4
  <2>4. CASE m # 0
    <3>1. m - 1 \in 0..n /\ m \in 1..n /\ m - 1 \notin Bad  BY <1>1, <2>2, <2>4
    <3>2. Spelled(h[m - 1], SubSeq(text, 1, m - 1))  BY <3>1
    <3>3. h[m] = Parsed(h[m - 1], text[m]) /\ text[m] \in Typed  BY <1>1, <1>2, <3>1
    <3>4. SubSeq(text, 1, m) = Append(SubSeq(text, 1, m - 1), text[m])
      <4>1. 1 \in 1..Len(text) /\ m \in 1..Len(text)  BY <1>1, <3>1 DEF n
      <4>2. SubSeq(text, 1, m) = SubSeq(text, 1, m - 1) \o <<text[m]>>
        BY <4>1, SubSeqRecursiveSecond
      <4>3. SubSeq(text, 1, m - 1) \in Seq(Typed)  BY <3>2 DEF Spelled
      <4> QED  BY <3>3, <4>2, <4>3, AppendIsConcat
    <3>5. Spelled(h[m], SubSeq(text, 1, m))  BY <3>2, <3>3, <3>4, SpelledStep
    <3> QED  BY <2>2, <3>5
  <2> QED  BY <2>3, <2>4
<1>4. SubSeq(text, 1, n) = text  BY SubSeqFull DEF n
<1>5. Spelled(h[n], text)
  <2>1. n \in 0..n  BY <1>1
  <2> QED  BY <1>3, <1>4, <2>1
<1> QED  BY <1>2, <1>5

(* LineUnderstood, of a line e.                                             *)
Understood(e) ==
  /\ e.text \in {Joined(e), Append(Joined(e), Space)}
  /\ \A c \in Commands :
       e.function = c <=> \/ e.text = c
                          \/ IsPrefix(Append(c, Space), e.text)

(* What joins the words of a line that was parsed.                          *)
LEMMA JoinedIs ==
  ASSUME NEW p, NEW e, Spelled(p, e.text), e.cmdline = p.cmdline,
         e.args = IF p.arg_flag THEN Append(p.args, p.arg) ELSE p.args
  PROVE  e.text \in {Joined(e), Append(Joined(e), Space)}
<1>1. /\ p.cmdline \in Seq(Typed) /\ p.args \in Seq(Seq(Typed)) /\ p.arg \in Seq(Typed)
      /\ e.text \in Seq(Typed)
  BY DEF Spelled, ParseState
<1>2. e.args \in Seq(Seq(Typed))  BY <1>1, AppendProperties
<1>3. PICK h : Joins(h, e.cmdline, e.args, Len(e.args)) /\ Joined(e) = h[Len(e.args)]
  BY <1>1, <1>2, JoinSteps
<1> DEFINE n == Len(p.args)
<1>4. n \in Nat  BY <1>1, LenProperties
<1> HIDE DEF n
<1>5. CASE ~p.flag
  <2>1. p.args = <<>> /\ ~p.arg_flag /\ e.text = p.cmdline  BY <1>5 DEF Spelled
  <2>2. e.args = <<>> /\ Len(e.args) = 0  BY <2>1
  <2> QED  BY <1>3, <2>1, <2>2 DEF Joins
<1>6. CASE p.flag
  <2>1. PICK j : /\ Joins(j, p.cmdline, p.args, n) /\ j[n] \in Seq(Typed)
                 /\ e.text = (j[n] \o <<Space>>) \o p.arg
    BY <1>6 DEF Spelled, n
  <2>2. CASE p.arg_flag
    <3>1. /\ Len(e.args) = n + 1 /\ e.args[n + 1] = p.arg
          /\ \A k \in 1..n : e.args[k] = p.args[k]
      BY <1>1, <2>2, AppendProperties DEF n
    <3>2. Joins(h, p.cmdline, e.args, n)
      <4>1. \A k \in 1..n : k \in 1..(n + 1)  BY <1>4
      <4> QED  BY <1>3, <3>1, <4>1 DEF Joins
    <3>3. h[n] = j[n]
      <4>1. Agree(e.args, p.args, n)  BY <3>1 DEF Agree
      <4>2. Joins(j, e.cmdline, p.args, n)  BY <2>1
      <4> QED  BY <1>4, <3>2, <4>1, <4>2, JoinsUnique
    <3>4. h[n + 1] = (h[(n + 1) - 1] \o <<Space>>) \o e.args[n + 1]
      <4>1. n + 1 \in 1..(n + 1)  BY <1>4
      <4> QED  BY <1>3, <3>1, <4>1 DEF Joins
    <3>5. (n + 1) - 1 = n  BY <1>4
    <3> QED  BY <1>3, <2>1, <3>1, <3>3, <3>4, <3>5
  <2>3. CASE ~p.arg_flag
    <3>1. e.args = p.args /\ p.arg = <<>>  BY <2>3 DEF Spelled
    <3>2. h[n] = j[n] /\ Joined(e) = h[n]
      <4>1. Joins(h, p.cmdline, p.args, n) /\ Joined(e) = h[n]  BY <1>3, <3>1 DEF n
      <4>2. Agree(p.args, p.args, n)  BY DEF Agree
      <4> QED  BY <1>4, <2>1, <4>1, <4>2, JoinsUnique
    <3>3. <<Space>> \in Seq(Typed)  BY DEF Typed
    <3>4. j[n] \o <<Space>> \in Seq(Typed)  BY <2>1, <3>3, ConcatProperties
    <3>5. (j[n] \o <<Space>>) \o <<>> = j[n] \o <<Space>>  BY <3>4, ConcatEmptySeq
    <3>6. j[n] \o <<Space>> = Append(j[n], Space)
      BY <2>1, AppendIsConcat DEF Typed
    <3> QED  BY <2>1, <3>1, <3>2, <3>5, <3>6
  <2> QED  BY <2>2, <2>3
<1> QED  BY <1>5, <1>6

(* The command of a line is what it starts with, up to its first space.     *)
LEMMA PrefixIsStart ==
  ASSUME NEW t \in Seq(Typed), NEW c \in Seq(Typed)
  PROVE  IsPrefix(Append(c, Space), t) <=> Starts(t, c)
<1> DEFINE s == Append(c, Space)
           l == Len(c) + 1
<1>1. Space \in Typed  BY DEF Typed
<1>2. /\ s \in Seq(Typed) /\ Len(s) = l /\ s[l] = Space /\ l \in Nat /\ Len(t) \in Nat
      /\ \A i \in 1..Len(c) : s[i] = c[i]
  BY <1>1, AppendProperties, LenProperties
<1>3. SubSeq(s, 1, l) = s  BY <1>2, SubSeqFull
<1>4. IsPrefix(s, t) <=> l <= Len(t) /\ s = SubSeq(t, 1, l)
  BY <1>2, <1>3 DEF IsPrefix
<1>5. ASSUME l <= Len(t)
      PROVE  s = SubSeq(t, 1, l) <=> \A i \in 1..l : t[i] = s[i]
  <2>1. \A i \in 1..l : t[i] \in Typed
    <3>1. \A i \in 1..l : i \in 1..Len(t)  BY <1>2, <1>5
    <3> QED  BY <3>1, ElementOfSeq
  <2>2. 1 \in Int /\ l \in Int /\ 1 <= l /\ l - 1 + 1 = l
    <3>1. Len(c) \in Nat  BY LenProperties
    <3> QED  BY <3>1
  <2>3. /\ SubSeq(t, 1, l) \in Seq(Typed) /\ Len(SubSeq(t, 1, l)) = l
        /\ \A i \in 1..l : SubSeq(t, 1, l)[i] = t[1 + i - 1]
    <3> HIDE DEF l, s
    <3> QED  BY <2>1, <2>2, SubSeqProperties
  <2>4. \A i \in 1..l : SubSeq(t, 1, l)[i] = t[i]
    <3>1. \A i \in 1..l : 1 + i - 1 = i  BY <1>2
    <3> QED  BY <2>3, <3>1
  <2> HIDE DEF s, l
  <2>5. ASSUME \A i \in 1..l : t[i] = s[i] PROVE s = SubSeq(t, 1, l)
    <3>1. \A i \in 1..Len(s) : s[i] = SubSeq(t, 1, l)[i]  BY <1>2, <2>4, <2>5
    <3> QED  BY <1>2, <2>3, <3>1, SeqEqual
  <2> QED  BY <2>4, <2>5
<1>6. (\A i \in 1..l : t[i] = s[i]) <=> t[Len(c) + 1] = Space /\ \A i \in 1..Len(c) : t[i] = c[i]
  <2>1. Len(c) \in Nat  BY LenProperties
  <2>2. \A i \in 1..l : i = l \/ i \in 1..Len(c)  BY <2>1
  <2>3. l \in 1..l /\ \A i \in 1..Len(c) : i \in 1..l  BY <2>1
  <2> QED  BY <1>2, <2>2, <2>3
<1>7. l <= Len(t) <=> Len(t) > Len(c)
  <2>1. Len(c) \in Nat  BY LenProperties
  <2> QED  BY <1>2, <2>1
<1> QED  BY <1>4, <1>5, <1>6, <1>7 DEF Starts

LEMMA FunctionIs ==
  ASSUME NEW p, NEW e, Spelled(p, e.text), e.cmdline = p.cmdline,
         e.function = cmd_state_machine(e.cmdline), NEW c \in Commands
  PROVE  e.function = c <=> \/ e.text = c
                            \/ IsPrefix(Append(c, Space), e.text)
<1> DEFINE t == e.text
           w == p.cmdline
<1>1. /\ w \in Seq(Letters) /\ c \in Seq(Letters) /\ t \in Seq(Typed) /\ Space \notin Letters
  BY ShellAssumption, CharsAreDistinct DEF Spelled
<1>2. w \in Seq(Typed) /\ c \in Seq(Typed)
  <2>1. Letters \subseteq Typed  BY DEF Typed
  <2> QED  BY <1>1, <2>1
<1>3. Len(w) \in Nat /\ Len(c) \in Nat /\ Len(t) \in Nat  BY <1>1, LenProperties
<1>4. (\A i \in 1..Len(w) : w[i] # Space) /\ (\A i \in 1..Len(c) : c[i] # Space)
  BY <1>1, ElementOfSeq
<1>5. e.function = c <=> w = c
  BY ShellAssumption DEF cmd_state_machine
<1>6. IsPrefix(Append(c, Space), t) <=> Starts(t, c)  BY <1>1, <1>2, PrefixIsStart
<1>7. CASE ~p.flag
  <2>1. t = w  BY <1>7 DEF Spelled
  <2> HIDE DEF t, w
  <2>2. ~Starts(t, c)
    <3>1. ASSUME Starts(t, c) PROVE FALSE
      <4>1. Len(c) + 1 \in 1..Len(w) /\ w[Len(c) + 1] = Space
        BY <1>3, <2>1, <3>1 DEF Starts
      <4> QED  BY <1>4, <4>1
    <3> QED  BY <3>1
  <2> QED  BY <1>5, <1>6, <2>1, <2>2 DEF t
<1>8. CASE p.flag
  <2>1. Starts(t, w)  BY <1>8 DEF Spelled
  <2> HIDE DEF t, w
  <2>2. t # c
    <3>1. ASSUME t = c PROVE FALSE
      <4>1. Len(w) + 1 \in 1..Len(c) /\ c[Len(w) + 1] = Space
        BY <1>3, <2>1, <3>1 DEF Starts
      <4> QED  BY <1>4, <4>1
    <3> QED  BY <3>1
  <2>3. ASSUME Starts(t, c) PROVE w = c
    <3>1. ~(Len(c) < Len(w))
      <4>1. ASSUME Len(c) < Len(w) PROVE FALSE
        <5>1. Len(c) + 1 \in 1..Len(w)  BY <1>3, <4>1
        <5>2. t[Len(c) + 1] = w[Len(c) + 1]  BY <2>1, <5>1 DEF Starts
        <5> QED  BY <1>4, <2>3, <5>1, <5>2 DEF Starts
      <4> QED  BY <4>1
    <3>2. ~(Len(w) < Len(c))
      <4>1. ASSUME Len(w) < Len(c) PROVE FALSE
        <5>1. Len(w) + 1 \in 1..Len(c)  BY <1>3, <4>1
        <5>2. t[Len(w) + 1] = c[Len(w) + 1]  BY <2>3, <5>1 DEF Starts
        <5> QED  BY <1>4, <2>1, <5>1, <5>2 DEF Starts
      <4> QED  BY <4>1
    <3>3. Len(w) = Len(c)  BY <1>3, <3>1, <3>2
    <3>4. \A i \in 1..Len(w) : w[i] = c[i]  BY <2>1, <2>3, <3>3 DEF Starts
    <3> QED  BY <1>1, <3>3, <3>4, SeqEqual
  <2> QED  BY <1>5, <1>6, <2>1, <2>2, <2>3 DEF t
<1> QED  BY <1>7, <1>8

LEMMA ExecutedUnderstood ==
  ASSUME NEW e, e.text \in Seq(Typed), e.cmdline = parse(e.text).cmdline,
         e.args = parse(e.text).args, e.function = cmd_state_machine(e.cmdline)
  PROVE  Understood(e)
<1>1. PICK p : /\ Spelled(p, e.text)
               /\ parse(e.text) = [cmdline |-> p.cmdline,
                                   args |-> IF p.arg_flag THEN Append(p.args, p.arg)
                                            ELSE p.args]
  BY ParseSpelled
<1>2. /\ e.cmdline = p.cmdline
      /\ e.args = IF p.arg_flag THEN Append(p.args, p.arg) ELSE p.args
  BY <1>1
<1>3. e.text \in {Joined(e), Append(Joined(e), Space)}  BY <1>1, <1>2, JoinedIs
<1>4. \A c \in Commands : e.function = c <=> \/ e.text = c
                                             \/ IsPrefix(Append(c, Space), e.text)
  BY <1>1, <1>2, FunctionIs
<1> QED  BY <1>3, <1>4 DEF Understood

LEMMA InitUnderstood == Init => Understood(executed)
<1> SUFFICES ASSUME Init PROVE Understood(executed)  OBVIOUS
<1>1. /\ executed.text = <<>> /\ executed.cmdline = <<>> /\ executed.args = <<>>
      /\ executed.function = <<"none">>
  BY DEF Init
<1>2. <<>> \in Seq(Typed) /\ <<>> \in Seq(Seq(Typed)) /\ Len(<<>>) = 0  OBVIOUS
<1>3. PICK h : Joins(h, <<>>, <<>>, 0) /\ Joined(executed) = h[0]
  BY <1>1, <1>2, JoinSteps
<1>4. executed.text = Joined(executed)  BY <1>1, <1>3 DEF Joins
<1>5. ASSUME NEW c \in Commands
      PROVE  /\ executed.function # c /\ executed.text # c
             /\ ~IsPrefix(Append(c, Space), executed.text)
  <2>1. c \in Seq(Letters) /\ c # <<>> /\ c # <<"none">>  BY ShellAssumption
  <2>2. c \in Seq(Typed)
    <3>1. Letters \subseteq Typed  BY DEF Typed
    <3> QED  BY <2>1, <3>1
  <2>3. ~Starts(<<>>, c)
    <3>1. Len(c) \in Nat  BY <2>1, LenProperties
    <3> QED  BY <1>2, <3>1 DEF Starts
  <2>4. ~IsPrefix(Append(c, Space), <<>>)  BY <1>2, <2>2, <2>3, PrefixIsStart
  <2> QED  BY <1>1, <2>1, <2>4
<1> QED  BY <1>4, <1>5 DEF Understood

LEMMA NextUnderstood ==
  ASSUME LineInv, Understood(executed), [Next]_vars
  PROVE  Understood(executed')
<1>1. CASE enter
  <2>1. PICK text : text = Text(input')  OBVIOUS
  <2>2. executed' = [text |-> text, cmdline |-> parse(text).cmdline, args |-> parse(text).args,
                     function |-> cmd_state_machine(parse(text).cmdline)]
    BY <1>1, <2>1 DEF enter, exec_cmd
  <2>3. text = Upto(screen, cursor)  BY <1>1, <2>2, TextIsShown
  <2>4. text \in Seq(Typed)
    <3>1. BufSize \in Nat /\ cursor \in 0..(BufSize - 1)
      BY ShellAssumption DEF LineInv, Cells
    <3>2. cursor \in Nat /\ \A i \in 1..cursor : i - 1 \in 0..(BufSize - 1)  BY <3>1
    <3>3. \A i \in 1..cursor : screen[i - 1] \in Typed  BY <3>2 DEF LineInv, Cells, Typed
    <3>4. [i \in 1..cursor |-> screen[i - 1]] \in Seq(Typed)  BY <3>2, <3>3
    <3> QED  BY <2>3, <3>4 DEF Upto
  <2>5. PICK e : e = executed'  OBVIOUS
  <2>6. /\ e.text = text /\ e.cmdline = parse(text).cmdline /\ e.args = parse(text).args
        /\ e.function = cmd_state_machine(parse(text).cmdline)
    BY <2>2, <2>5
  <2>7. Understood(e)  BY <2>4, <2>6, ExecutedUnderstood
  <2> QED  BY <2>5, <2>7
<1>2. CASE erase \/ UNCHANGED vars \/ \E c \in Letters \cup {Space} : letter(c)
  <2>1. executed' = executed  BY <1>2 DEF erase, vars, letter
  <2> QED  BY <2>1
<1> QED  BY <1>1, <1>2 DEF Next

(* Whatever is typed, however long and with whatever spaces, the command    *)
(* and its arguments are the words of the line, none lost, and a command    *)
(* runs if and only if the line starts with it as a whole word.             *)
THEOREM LinesAreUnderstood == MachineSpec => []LineUnderstood
<1>1. MachineInit => LineInv /\ Understood(executed)
  BY LineInit, InitUnderstood DEF MachineInit
<1>2. LineInv /\ Understood(executed) /\ [boot \/ shell \/ convert \/ start \/ call \/ print]_<<
        vars, ArchiveVars, last, ExecVars, CallVars, PrintVars>>
      => (LineInv /\ Understood(executed))'
  BY LineStep, NextUnderstood, MachineSteps
<1>3. Understood(executed) => LineUnderstood  BY DEF Understood, LineUnderstood
<1> QED  BY <1>1, <1>2, <1>3, PTL DEF MachineSpec
-----------------------------------------------------------------------------
(* FlattenSeq step by step: h[k] is what the first k parts give.            *)
Flattens(fl, seqs, n) ==
  fl = [i \in 1..n |-> IF i = 1 THEN seqs[i] ELSE fl[i - 1] \o seqs[i]]
Parts(seqs, n, S) == /\ n \in Nat /\ seqs = [k \in 1..n |-> seqs[k]] /\ Len(seqs) = n
                     /\ \A k \in 1..n : seqs[k] \in Seq(S)
Grows(h, seqs, n, S) == /\ h[0] = <<>>
                        /\ \A k \in 1..n : h[k] = h[k - 1] \o seqs[k]
                        /\ \A k \in 0..n : h[k] \in Seq(S)

LEMMA FlattenExists ==
  ASSUME NEW n \in Nat, NEW seqs
  PROVE  \E fl : Flattens(fl, seqs, n)
<1> DEFINE Bad == {m \in Nat : ~ \E fl : Flattens(fl, seqs, m)}
<1>1. SUFFICES ASSUME Bad # {} PROVE FALSE  OBVIOUS
<1>2. PICK m \in Bad : \A k \in Bad : m <= k  BY <1>1, LeastNat
<1>3. CASE m = 0
  <2>1. Flattens([i \in 1..0 |-> 0], seqs, 0)  BY DEF Flattens
  <2> QED  BY <1>2, <1>3, <2>1
<1>4. CASE m # 0
  <2>1. m - 1 \in Nat /\ m - 1 \notin Bad  BY <1>2, <1>4
  <2>2. PICK fl : Flattens(fl, seqs, m - 1)  BY <2>1
  <2>3. /\ DOMAIN fl = 1..(m - 1)
        /\ \A i \in 1..(m - 1) : fl[i] = IF i = 1 THEN seqs[i] ELSE fl[i - 1] \o seqs[i]
    BY <2>2 DEF Flattens
  <2> DEFINE g == [i \in 1..m |-> IF i < m THEN fl[i]
                                  ELSE IF i = 1 THEN seqs[i] ELSE fl[i - 1] \o seqs[i]]
  <2>4. ASSUME NEW i \in 1..m
        PROVE  g[i] = IF i = 1 THEN seqs[i] ELSE g[i - 1] \o seqs[i]
    <3>1. CASE i < m
      <4>1. i \in 1..(m - 1) /\ g[i] = fl[i]  BY <3>1
      <4>2. i # 1 => i - 1 \in 1..(m - 1) /\ g[i - 1] = fl[i - 1]  BY <3>1
      <4> QED  BY <4>1, <4>2, <2>3
    <3>2. CASE i = m
      <4>1. g[i] = IF i = 1 THEN seqs[i] ELSE fl[i - 1] \o seqs[i]  BY <3>2
      <4>2. i # 1 => i - 1 \in 1..m /\ i - 1 < m  BY <3>2
      <4>3. i # 1 => g[i - 1] = fl[i - 1]  BY <4>2
      <4> QED  BY <4>1, <4>3
    <3> QED  BY <3>1, <3>2
  <2>5. Flattens(g, seqs, m)
    <3> HIDE DEF g
    <3> DEFINE h == [i \in 1..m |-> IF i = 1 THEN seqs[i] ELSE g[i - 1] \o seqs[i]]
    <3>1. g = [i \in 1..m |-> g[i]]  BY DEF g
    <3>2. \A i \in 1..m : g[i] = h[i]  BY <2>4
    <3>3. g = h  BY <3>1, <3>2
    <3> QED  BY <3>3 DEF Flattens
  <2> QED  BY <1>2, <2>5
<1> QED  BY <1>3, <1>4

LEMMA FlattenSteps ==
  ASSUME NEW n, NEW seqs, NEW S, Parts(seqs, n, S)
  PROVE  \E h : Grows(h, seqs, n, S) /\ h[n] = FlattenSeq(seqs)
<1>1. /\ n \in Nat /\ seqs = [k \in 1..n |-> seqs[k]] /\ Len(seqs) = n
      /\ \A k \in 1..n : seqs[k] \in Seq(S)
  BY DEF Parts
<1> DEFINE fl == CHOOSE f : Flattens(f, seqs, n)
<1>2. Flattens(fl, seqs, n)  BY <1>1, FlattenExists
<1>3. n # 0 => FlattenSeq(seqs) = fl[n]
  BY <1>1 DEF FlattenSeq, Flattens
<1> HIDE DEF fl
<1>4. \A i \in 1..n : fl[i] = IF i = 1 THEN seqs[i] ELSE fl[i - 1] \o seqs[i]
  BY <1>2 DEF Flattens
<1>5. n = 0 => FlattenSeq(seqs) = <<>>
  <2>1. n = 0 => FlattenSeq(seqs) = seqs  BY <1>1 DEF FlattenSeq
  <2>2. n = 0 => seqs \in Seq(S)  BY <1>1
  <2> QED  BY <1>1, <2>1, <2>2, EmptySeq
<1> DEFINE h == [k \in 0..n |-> IF k = 0 THEN <<>> ELSE fl[k]]
<1>6. h[0] = <<>> /\ (\A k \in 1..n : h[k] = fl[k]) /\ h[n] = FlattenSeq(seqs)
  BY <1>1, <1>3, <1>5
<1> HIDE DEF h
<1>7. ASSUME NEW k \in 1..n PROVE h[k] = h[k - 1] \o seqs[k]
  <2>1. CASE k = 1
    <3>1. <<>> \o seqs[k] = seqs[k]  BY <1>1, ConcatEmptySeq
    <3>2. fl[k] = seqs[k] /\ h[k] = fl[k] /\ h[k - 1] = <<>>
      <4>1. k - 1 = 0  BY <2>1
      <4> QED  BY <1>4, <1>6, <2>1, <4>1
    <3> QED  BY <3>1, <3>2
  <2>2. CASE k # 1
    <3>1. k - 1 \in 1..n  BY <1>1, <2>2
    <3> QED  BY <1>4, <1>6, <2>2, <3>1
  <2> QED  BY <2>1, <2>2
<1> DEFINE Bad == {k \in 0..n : h[k] \notin Seq(S)}
<1>8. ASSUME Bad # {} PROVE FALSE
  <2>1. Bad \subseteq Nat  OBVIOUS
  <2>2. PICK m \in Bad : \A k \in Bad : m <= k  BY <1>8, <2>1, LeastNat
  <2>3. m # 0
    <3>1. <<>> \in Seq(S)  OBVIOUS
    <3> QED  BY <1>6, <2>2, <3>1
  <2>4. m - 1 \in 0..n /\ m \in 1..n /\ m - 1 \notin Bad  BY <1>1, <2>2, <2>3
  <2>5. h[m - 1] \in Seq(S) /\ seqs[m] \in Seq(S)  BY <1>1, <2>4
  <2>6. h[m - 1] \o seqs[m] \in Seq(S)  BY <2>5, ConcatProperties
  <2> QED  BY <1>7, <2>2, <2>4, <2>6
<1> QED  BY <1>6, <1>7, <1>8 DEF Grows

(* The run of '%' that ends before i has m of them.  Whether a '%' opens a  *)
(* directive depends on nothing else.                                       *)
RunOf(f, i, m) == /\ m \in 0..(i - 1) /\ \A k \in 1..m : f[i - k] = "%"
                  /\ m < i - 1 => f[i - m - 1] # "%"

LEMMA RunUnique ==
  ASSUME NEW f, NEW i \in Nat, NEW a, NEW b, RunOf(f, i, a), RunOf(f, i, b)
  PROVE  a = b
<1>1. \A x, y : RunOf(f, i, x) /\ RunOf(f, i, y) => ~(x < y)
  <2> SUFFICES ASSUME NEW x, NEW y, RunOf(f, i, x), RunOf(f, i, y), x < y PROVE FALSE
    OBVIOUS
  <2>1. x \in 0..(i - 1) /\ y \in 0..(i - 1) /\ x + 1 \in 1..y /\ x < i - 1
    BY DEF RunOf
  <2>2. i - (x + 1) = i - x - 1  BY <2>1
  <2>3. f[i - (x + 1)] = "%"  BY <2>1 DEF RunOf
  <2>4. f[i - x - 1] # "%"  BY <2>1 DEF RunOf
  <2> QED  BY <2>2, <2>3, <2>4
<1>2. a \in Int /\ b \in Int  BY DEF RunOf
<1> QED  BY <1>1, <1>2

LEMMA OpensIs ==
  ASSUME NEW f, NEW i \in Nat, NEW m, RunOf(f, i, m)
  PROVE  Printing!Opens(f, i) <=> f[i] = "%" /\ m % 2 = 0
<1> DEFINE P(n) == /\ \A k \in 1..n : f[i - k] = "%"
                   /\ n < i - 1 => f[i - n - 1] # "%"
<1>1. \A n \in 0..(i - 1) : P(n) <=> RunOf(f, i, n)  BY DEF RunOf
<1>2. m \in 0..(i - 1) /\ P(m) /\ \A n \in 0..(i - 1) : P(n) => n = m
  BY <1>1, RunUnique DEF RunOf
<1>3. (CHOOSE n \in 0..(i - 1) : P(n)) = m
  <2> HIDE DEF P
  <2> QED  BY <1>2
<1> QED  BY <1>3 DEF Printing!Opens

LEMMA RunStep ==
  ASSUME NEW f, NEW i \in Nat \ {0}, NEW m, RunOf(f, i, m)
  PROVE  /\ f[i] = "%" => RunOf(f, i + 1, m + 1)
         /\ f[i] # "%" => RunOf(f, i + 1, 0)
<1>1. m \in 0..(i - 1)  BY DEF RunOf
<1>2. ASSUME f[i] = "%" PROVE RunOf(f, i + 1, m + 1)
  <2>1. ASSUME NEW k \in 1..(m + 1) PROVE f[i + 1 - k] = "%"
    <3>1. CASE k = 1
      <4>1. i + 1 - k = i  BY <3>1
      <4> QED  BY <1>2, <4>1
    <3>2. CASE k # 1
      <4>1. k - 1 \in 1..m /\ i - (k - 1) = i + 1 - k  BY <1>1, <3>2
      <4> QED  BY <4>1 DEF RunOf
    <3> QED  BY <3>1, <3>2
  <2>2. m + 1 \in 0..(i + 1 - 1) /\ i + 1 - (m + 1) - 1 = i - m - 1
    BY <1>1
  <2>3. m + 1 < i + 1 - 1 => f[i + 1 - (m + 1) - 1] # "%"
    <3>1. m + 1 < i + 1 - 1 => m < i - 1  BY <1>1
    <3> QED  BY <2>2, <3>1 DEF RunOf
  <2> QED  BY <2>1, <2>2, <2>3 DEF RunOf
<1>3. ASSUME f[i] # "%" PROVE RunOf(f, i + 1, 0)
  <2>1. 0 \in 0..(i + 1 - 1) /\ i + 1 - 0 - 1 = i  BY <1>1
  <2> QED  BY <1>3, <2>1 DEF RunOf
<1> QED  BY <1>2, <1>3

LEMMA OperandIs ==
  ASSUME NEW f, NEW i \in Nat, DOMAIN f \subseteq Nat
  PROVE  i + 1 \in Printing!Operands(f) <=> i \in DOMAIN f /\ Printing!Opens(f, i)
<1> DEFINE O == {j \in DOMAIN f : Printing!Opens(f, j)}
<1>0. Printing!Operands(f) = {j + 1 : j \in O}  BY DEF Printing!Operands
<1> QED  BY <1>0

(* How many arguments have been taken grows at the operands alone.          *)
LEMMA TakenIs == \A c : Printing!Taken(c) \in {0, 1, 2}
BY DEF Printing!Taken

Pairs(f, i) == {p \in (1..(i - 1)) \X (1..2) :
                 p[1] \in Printing!Operands(f) /\ p[2] <= Printing!Taken(f[p[1]])}

LEMMA PairsStep ==
  ASSUME NEW f, NEW i \in Nat \ {0}
  PROVE  Pairs(f, i + 1) =
           IF i \notin Printing!Operands(f) THEN Pairs(f, i)
           ELSE Pairs(f, i) \cup {<<i, k>> : k \in 1..Printing!Taken(f[i])}
<1> DEFINE t == Printing!Taken(f[i])
           more == IF i \notin Printing!Operands(f) THEN {} ELSE {<<i, k>> : k \in 1..t}
<1>1. t \in {0, 1, 2}  BY TakenIs
<1>2. 1..(i + 1 - 1) = (1..(i - 1)) \cup {i} /\ i \notin 1..(i - 1)  OBVIOUS
<1>3. 1..t = {k \in 1..2 : k <= t}  BY <1>1
<1> HIDE DEF t
<1>4. ASSUME NEW x, NEW y
      PROVE  <<x, y>> \in Pairs(f, i + 1) <=> <<x, y>> \in Pairs(f, i) \cup more
  <2>1. CASE x = i
    <3>1. <<x, y>> \notin Pairs(f, i)  BY <1>2, <2>1 DEF Pairs
    <3>2. <<x, y>> \in more <=> i \in Printing!Operands(f) /\ y \in 1..t  BY <2>1
    <3>3. <<x, y>> \in Pairs(f, i + 1) <=> i \in Printing!Operands(f) /\ y \in 1..2 /\ y <= t
      BY <1>2, <2>1 DEF Pairs, t
    <3> QED  BY <1>3, <3>1, <3>2, <3>3
  <2>2. CASE x # i
    <3>1. <<x, y>> \notin more  BY <2>2
    <3> QED  BY <1>2, <2>2, <3>1 DEF Pairs
  <2> QED  BY <2>1, <2>2
<1>5. \A p \in Pairs(f, i + 1) : p = <<p[1], p[2]>>  BY DEF Pairs
<1>6. \A p \in Pairs(f, i) \cup more : p = <<p[1], p[2]>>  BY DEF Pairs
<1>7. Pairs(f, i + 1) = Pairs(f, i) \cup more
  <2> HIDE DEF more
  <2>1. \A p \in Pairs(f, i + 1) : p \in Pairs(f, i) \cup more  BY <1>4, <1>5
  <2>2. \A p \in Pairs(f, i) \cup more : p \in Pairs(f, i + 1)  BY <1>4, <1>6
  <2> QED  BY <2>1, <2>2
<1> QED  BY <1>7 DEF t

LEMMA BeforeStep ==
  ASSUME NEW f, NEW i \in Nat \ {0}
  PROVE  /\ Printing!Before(f, i) \in Nat
         /\ Printing!Before(f, 1) = 0
         /\ Printing!Before(f, i + 1) =
              Printing!Before(f, i)
                + IF i \in Printing!Operands(f) THEN Printing!Taken(f[i]) ELSE 0
<1>1. \A k : Printing!Before(f, k) = Cardinality(Pairs(f, k))
  <2>1. \A S : Printing!Cardinality(S) = Cardinality(S)
    BY DEF Cardinality, Printing!Cardinality
  <2> QED  BY <2>1 DEF Printing!Before, Pairs
<1>2. IsFiniteSet(Pairs(f, i)) /\ Cardinality(Pairs(f, i)) \in Nat
  <2>1. i - 1 \in Int /\ 1 \in Int /\ 2 \in Int  OBVIOUS
  <2>4. IsFiniteSet(1..(i - 1)) /\ IsFiniteSet(1..2)  BY <2>1, FS_Interval
  <2>2. IsFiniteSet((1..(i - 1)) \X (1..2))  BY <2>4, FS_Product
  <2>3. Pairs(f, i) \in SUBSET ((1..(i - 1)) \X (1..2))  BY DEF Pairs
  <2> QED  BY <2>2, <2>3, FS_Subset, FS_CardinalityType
<1>3. Cardinality(Pairs(f, 1)) = 0
  <2>1. Pairs(f, 1) = {}  BY DEF Pairs
  <2> QED  BY <2>1, FS_EmptySet
<1>4. Cardinality(Pairs(f, i + 1)) =
        Cardinality(Pairs(f, i)) + IF i \in Printing!Operands(f) THEN Printing!Taken(f[i]) ELSE 0
  <2>1. CASE i \notin Printing!Operands(f)
    <3>1. Pairs(f, i + 1) = Pairs(f, i)  BY <2>1, PairsStep
    <3> QED  BY <1>2, <2>1, <3>1
  <2>2. CASE i \in Printing!Operands(f)
    <3> DEFINE P == Pairs(f, i)
    <3>1. \A k : <<i, k>> \notin P  BY DEF Pairs
    <3>2. Pairs(f, i + 1) = P \cup {<<i, k>> : k \in 1..Printing!Taken(f[i])}
      BY <2>2, PairsStep
    <3> HIDE DEF P
    <3>3. /\ IsFiniteSet(P \cup {<<i, 1>>}) /\ Cardinality(P \cup {<<i, 1>>}) = Cardinality(P) + 1
      BY <1>2, <3>1, FS_AddElement DEF P
    <3>4. Cardinality((P \cup {<<i, 1>>}) \cup {<<i, 2>>}) = Cardinality(P) + 2
      <4>1. <<i, 2>> \notin P \cup {<<i, 1>>}  BY <3>1
      <4>2. Cardinality(P) \in Nat  BY <1>2 DEF P
      <4> DEFINE Q == P \cup {<<i, 1>>}
      <4> HIDE DEF Q
      <4>3. IsFiniteSet(Q) /\ <<i, 2>> \notin Q /\ Cardinality(Q) = Cardinality(P) + 1
        BY <3>3, <4>1 DEF Q
      <4>4. Cardinality(Q \cup {<<i, 2>>}) = Cardinality(Q) + 1  BY <4>3, FS_AddElement
      <4> QED  BY <4>2, <4>3, <4>4 DEF Q
    <3>5. CASE Printing!Taken(f[i]) = 0
      <4>1. {<<i, k>> : k \in 1..Printing!Taken(f[i])} = {}  BY <3>5
      <4>3. Pairs(f, i + 1) = P
        <5> DEFINE M == {<<i, k>> : k \in 1..Printing!Taken(f[i])}
        <5> HIDE DEF M
        <5>1. M = {} /\ Pairs(f, i + 1) = P \cup M  BY <3>2, <4>1 DEF M
        <5> QED  BY <5>1
      <4> QED  BY <1>2, <2>2, <3>5, <4>3 DEF P
    <3>6. CASE Printing!Taken(f[i]) = 1
      <4>1. 1..1 = {1}  OBVIOUS
      <4>2. Pairs(f, i + 1) = P \cup {<<i, 1>>}  BY <3>2, <3>6, <4>1
      <4> QED  BY <2>2, <3>3, <3>6, <4>2 DEF P
    <3>7. CASE Printing!Taken(f[i]) = 2
      <4>1. 1..2 = {1, 2}  OBVIOUS
      <4>2. Pairs(f, i + 1) = (P \cup {<<i, 1>>}) \cup {<<i, 2>>}  BY <3>2, <3>7, <4>1
      <4> QED  BY <2>2, <3>4, <3>7, <4>2 DEF P
    <3> QED  BY <3>5, <3>6, <3>7, TakenIs
  <2> QED  BY <2>1, <2>2
<1> QED  BY <1>1, <1>2, <1>3, <1>4

(* What each character of the format f contributes, with txt the text of    *)
(* the argument of a "%s".                                                  *)
Signs == Symbols \cup {"%", Printing!LF, Printing!CR}
           \cup UNION {Printing!ToSet(s) : s \in Strings}
Marks == ({"d", "q", "f", "x", "high"} \X Nat) \cup {Printing!Char(c) : c \in Signs}
ShownOf(c, n, txt) == CASE c \in {"d", "q", "f", "x"} -> << <<c, n>> >>
                        [] c = "p" -> << <<"high", n>>, <<"x", n>> >>
                        [] c = "s" -> txt
                        [] c = "%" -> <<Printing!Char("%")>>
                        [] OTHER -> <<>>
Piece(f, i, txt) ==
  IF i \in Printing!Operands(f) THEN ShownOf(f[i], Printing!Before(f, i) + 1, txt)
  ELSE IF Printing!Opens(f, i) THEN <<>> ELSE Printing!Returned(f[i])
Pieces(f, txt) == [i \in 1..Len(f) |-> Piece(f, i, txt)]
TextOf(lib, s) == IF lib = "kernel" THEN Printing!uart_put(s) ELSE Printing!putstr(s)

LEMMA ReturnedMarks ==
  ASSUME NEW c \in Signs
  PROVE  Printing!Returned(c) \in Seq(Marks)
<1>1. Printing!Char(c) \in Marks /\ Printing!Char(Printing!LF) \in Marks
      /\ Printing!Char(Printing!CR) \in Marks
  BY DEF Marks, Signs
<1>2. \A x, y \in Marks : <<x>> \in Seq(Marks) /\ <<x, y>> \in Seq(Marks)  OBVIOUS
<1> QED  BY <1>1, <1>2 DEF Printing!Returned

LEMMA ShownMarks ==
  ASSUME NEW c, NEW n \in Nat, NEW txt \in Seq(Marks)
  PROVE  ShownOf(c, n, txt) \in Seq(Marks)
<1>1. \A x, y \in Marks : <<x>> \in Seq(Marks) /\ <<x, y>> \in Seq(Marks)  OBVIOUS
<1>2. /\ c \in {"d", "q", "f", "x"} => <<c, n>> \in Marks
      /\ <<"high", n>> \in Marks /\ <<"x", n>> \in Marks /\ Printing!Char("%") \in Marks
  BY DEF Marks, Signs
<1>3. <<>> \in Seq(Marks)  OBVIOUS
<1> QED  BY <1>1, <1>2, <1>3 DEF ShownOf

LEMMA FlattenIs == \A seqs : Printing!FlattenSeq(seqs) = FlattenSeq(seqs)
BY DEF Printing!FlattenSeq, FlattenSeq

LEMMA TextMarks ==
  ASSUME Printing!PrintfAssumption, NEW s \in Strings, NEW lib
  PROVE  TextOf(lib, s) \in Seq(Marks)
<1>1. s \in Seq(Printing!ToSet(s))  BY DEF Printing!PrintfAssumption
<1>2. /\ Len(s) \in Nat /\ DOMAIN s = 1..Len(s)
      /\ \A k \in 1..Len(s) : s[k] \in Signs
  <2>1. Len(s) \in Nat /\ DOMAIN s = 1..Len(s)  BY <1>1, LenProperties
  <2>2. \A k \in 1..Len(s) : s[k] \in Printing!ToSet(s)  BY <1>1, ElementOfSeq
  <2> QED  BY <2>1, <2>2 DEF Signs
<1>3. Printing!putstr(s) \in Seq(Marks)
  <2>1. \A k \in 1..Len(s) : Printing!Char(s[k]) \in Marks  BY <1>2 DEF Marks
  <2>2. Printing!putstr(s) = [k \in 1..Len(s) |-> Printing!Char(s[k])]
    BY <1>2 DEF Printing!putstr
  <2> QED  BY <1>2, <2>1, <2>2
<1>4. Printing!uart_put(s) \in Seq(Marks)
  <2> DEFINE seqs == [k \in DOMAIN s |-> Printing!Returned(s[k])]
             n == Len(s)
  <2>1. \A k \in 1..n : Printing!Returned(s[k]) \in Seq(Marks)  BY <1>2, ReturnedMarks
  <2>2. Parts(seqs, n, Marks)
    <3>1. seqs = [k \in 1..n |-> Printing!Returned(s[k])]  BY <1>2
    <3>2. Len(seqs) = n  BY <1>2, <3>1
    <3> QED  BY <1>2, <2>1, <3>1, <3>2 DEF Parts
  <2>3. Printing!uart_put(s) = FlattenSeq(seqs)  BY FlattenIs DEF Printing!uart_put
  <2> HIDE DEF seqs, n
  <2>4. PICK h : Grows(h, seqs, n, Marks) /\ h[n] = FlattenSeq(seqs)  BY <2>2, FlattenSteps
  <2>5. n \in 0..n  BY <2>2 DEF Parts
  <2> QED  BY <2>3, <2>4, <2>5 DEF Grows
<1> QED  BY <1>3, <1>4 DEF TextOf

LEMMA PiecesAreParts ==
  ASSUME NEW f \in Seq(Symbols), NEW txt \in Seq(Marks)
  PROVE  Parts(Pieces(f, txt), Len(f), Marks)
<1>1. Len(f) \in Nat /\ \A i \in 1..Len(f) : f[i] \in Signs
  BY LenProperties, ElementOfSeq DEF Signs
<1>2. ASSUME NEW i \in 1..Len(f) PROVE Piece(f, i, txt) \in Seq(Marks)
  <2>1. i \in Nat \ {0}  BY <1>1
  <2>2. Printing!Before(f, i) + 1 \in Nat
    <3>1. Printing!Before(f, i) \in Nat  BY <2>1, BeforeStep
    <3> QED  BY <3>1
  <2>3. ShownOf(f[i], Printing!Before(f, i) + 1, txt) \in Seq(Marks)  BY <2>2, ShownMarks
  <2>4. Printing!Returned(f[i]) \in Seq(Marks)  BY <1>1, ReturnedMarks
  <2>5. <<>> \in Seq(Marks)  OBVIOUS
  <2> QED  BY <2>3, <2>4, <2>5 DEF Piece
<1>3. Len(Pieces(f, txt)) = Len(f)  BY <1>1 DEF Pieces
<1> QED  BY <1>1, <1>2, <1>3 DEF Parts, Pieces

(* The memory that the pointer runs through.                                *)
LEMMA MemoryIs ==
  ASSUME Printing!PrintfAssumption, NEW f \in Seq(Symbols), NEW m,
         m = f \o <<Printing!Terminator>> \o Behind \o <<Printing!Terminator>>
  PROVE  /\ Len(f) \in Nat /\ Len(m) \in Nat /\ Len(m) >= Len(f) + 2 /\ DOMAIN m = 1..Len(m)
         /\ \A i \in 1..Len(f) : m[i] = f[i] /\ m[i] # Printing!Terminator
         /\ m[Len(f) + 1] = Printing!Terminator
<1> DEFINE NL == Printing!Terminator
           S == Symbols \cup {NL} \cup Printing!ToSet(Behind)
           t == <<NL>>
           u == f \o t
           v == u \o Behind
<1>1. f \in Seq(S) /\ t \in Seq(S) /\ Behind \in Seq(S) /\ Len(t) = 1 /\ t[1] = NL
  <2>1. Behind \in Seq(Printing!ToSet(Behind))  BY DEF Printing!PrintfAssumption
  <2> QED  BY <2>1
<1>2. m = v \o t /\ v = u \o Behind  OBVIOUS
<1> HIDE DEF S, t, v
<1>0. \A x, y \in Seq(S) :
        /\ x \o y \in Seq(S) /\ Len(x \o y) = Len(x) + Len(y)
        /\ \A i \in 1..(Len(x) + Len(y)) :
             (x \o y)[i] = IF i <= Len(x) THEN x[i] ELSE y[i - Len(x)]
  BY ConcatProperties
<1>3. /\ Len(f) \in Nat /\ Len(Behind) \in Nat /\ DOMAIN f = 1..Len(f)  BY <1>1, LenProperties
<1>4. /\ u \in Seq(S) /\ Len(u) = Len(f) + Len(t)
      /\ \A i \in 1..(Len(f) + Len(t)) : u[i] = IF i <= Len(f) THEN f[i] ELSE t[i - Len(f)]
  BY <1>1, ConcatProperties
<1> HIDE DEF u
<1>5. /\ v \in Seq(S) /\ Len(v) = Len(u) + Len(Behind)
      /\ \A i \in 1..(Len(u) + Len(Behind)) :
           v[i] = IF i <= Len(u) THEN u[i] ELSE Behind[i - Len(u)]
  BY <1>0, <1>1, <1>2, <1>4
<1>6. /\ m \in Seq(S) /\ Len(m) = Len(v) + Len(t)
      /\ \A i \in 1..(Len(v) + Len(t)) : m[i] = IF i <= Len(v) THEN v[i] ELSE t[i - Len(v)]
  <2> DEFINE w == v \o t
  <2>1. w = v \o t /\ m = w  BY <1>2
  <2> HIDE DEF w
  <2>2. /\ w \in Seq(S) /\ Len(w) = Len(v) + Len(t)
        /\ \A i \in 1..(Len(v) + Len(t)) : w[i] = IF i <= Len(v) THEN v[i] ELSE t[i - Len(v)]
    BY <1>0, <1>1, <1>5, <2>1
  <2> QED  BY <2>1, <2>2
<1>7. Len(m) \in Nat /\ Len(m) >= Len(f) + 2 /\ DOMAIN m = 1..Len(m)
  BY <1>1, <1>3, <1>4, <1>5, <1>6, LenProperties
<1>8. \A i \in 1..(Len(f) + 1) : m[i] = u[i]
  <2>1. \A i \in 1..(Len(f) + 1) :
          i \in 1..(Len(u) + Len(Behind)) /\ i <= Len(u) /\ i \in 1..(Len(v) + Len(t)) /\ i <= Len(v)
    BY <1>1, <1>3, <1>4, <1>5
  <2> QED  BY <1>5, <1>6, <2>1
<1>9. ASSUME NEW i \in 1..Len(f) PROVE m[i] = f[i] /\ f[i] # NL
  <2>1. i \in 1..(Len(f) + 1) /\ i <= Len(f)  BY <1>3
  <2>2. f[i] \in Symbols  BY ElementOfSeq
  <2> QED  BY <1>1, <1>4, <1>8, <2>1, <2>2 DEF Printing!PrintfAssumption
<1>10. m[Len(f) + 1] = NL
  <2>1. Len(f) + 1 \in 1..(Len(f) + 1) /\ ~(Len(f) + 1 <= Len(f)) /\ Len(f) + 1 - Len(f) = 1
    BY <1>3
  <2> QED  BY <1>1, <1>4, <1>8, <2>1
<1> QED  BY <1>3, <1>7, <1>9, <1>10

(* The loop has walked through f up to i: it stands behind no open '%', and *)
(* has taken and printed what stands before i.                              *)
Walked(f, i, txt, a, out) ==
  /\ i \notin Printing!Operands(f) /\ \E m \in Nat : RunOf(f, i, 2 * m)
  /\ a = Printing!Before(f, i)
  /\ \E h : /\ Grows(h, Pieces(f, txt), Len(f), Marks)
            /\ h[Len(f)] = FlattenSeq(Pieces(f, txt)) /\ out = h[i - 1]

LEMMA WalkedPlain ==
  ASSUME NEW f \in Seq(Symbols), NEW i \in 1..Len(f), NEW txt, NEW a, NEW out,
         Walked(f, i, txt, a, out), f[i] # "%"
  PROVE  Walked(f, i + 1, txt, a, out \o Printing!Returned(f[i]))
<1>1. Len(f) \in Nat /\ DOMAIN f = 1..Len(f) /\ i \in Nat \ {0}
  <2>1. Len(f) \in Nat /\ DOMAIN f = 1..Len(f)  BY LenProperties
  <2> QED  BY <2>1
<1>2. PICK m \in Nat : RunOf(f, i, 2 * m)  BY DEF Walked
<1>3. ~Printing!Opens(f, i)  BY <1>1, <1>2, OpensIs
<1>4. i + 1 \notin Printing!Operands(f)
  <2>1. DOMAIN f \subseteq Nat  BY <1>1
  <2> QED  BY <1>1, <1>3, <2>1, OperandIs
<1>5. RunOf(f, i + 1, 2 * 0)
  <2>1. RunOf(f, i + 1, 0)  BY <1>1, <1>2, RunStep
  <2>2. 2 * 0 = 0  OBVIOUS
  <2> QED  BY <2>1, <2>2
<1>6. a = Printing!Before(f, i + 1)
  <2>1. /\ Printing!Before(f, i) \in Nat
        /\ Printing!Before(f, i + 1) = Printing!Before(f, i) + 0
    BY <1>1, BeforeStep DEF Walked
  <2> QED  BY <2>1 DEF Walked
<1>7. PICK h : /\ Grows(h, Pieces(f, txt), Len(f), Marks)
               /\ h[Len(f)] = FlattenSeq(Pieces(f, txt)) /\ out = h[i - 1]
  BY DEF Walked
<1>8. Pieces(f, txt)[i] = Printing!Returned(f[i])
  BY <1>3 DEF Pieces, Piece, Walked
<1>9. out \o Printing!Returned(f[i]) = h[(i + 1) - 1]
  <2>1. (i + 1) - 1 = i  BY <1>1
  <2> QED  BY <1>7, <1>8, <2>1 DEF Grows
<1> QED  BY <1>4, <1>5, <1>6, <1>7, <1>9 DEF Walked

LEMMA DirectiveOpens ==
  ASSUME NEW f \in Seq(Symbols), NEW i \in 1..Len(f), NEW txt, NEW a, NEW out,
         Walked(f, i, txt, a, out), f[i] = "%"
  PROVE  /\ Printing!Opens(f, i) /\ i + 1 \in Printing!Operands(f)
         /\ i + 2 \notin Printing!Operands(f) /\ \E m \in Nat : RunOf(f, i + 2, 2 * m)
         /\ a \in Nat /\ Printing!Before(f, i + 1) = a
         /\ Printing!Before(f, i + 2) = a + Printing!Taken(f[i + 1])
<1>1. /\ Len(f) \in Nat /\ DOMAIN f \subseteq Nat
      /\ i \in DOMAIN f /\ i \in Nat \ {0} /\ i + 1 \in Nat \ {0} /\ (i + 1) + 1 = i + 2
  <2>1. Len(f) \in Nat /\ DOMAIN f = 1..Len(f)  BY LenProperties
  <2> QED  BY <2>1
<1>2. PICK m \in Nat : RunOf(f, i, 2 * m)  BY DEF Walked
<1>3. Printing!Opens(f, i)
  <2>1. (2 * m) % 2 = 0  OBVIOUS
  <2> QED  BY <1>1, <1>2, <2>1, OpensIs
<1>4. i + 1 \in Printing!Operands(f)  BY <1>1, <1>3, OperandIs
<1>5. RunOf(f, i + 1, 2 * m + 1)  BY <1>1, <1>2, RunStep
<1>6. ~Printing!Opens(f, i + 1)
  <2>1. (2 * m + 1) % 2 = 1  OBVIOUS
  <2> QED  BY <1>1, <1>5, <2>1, OpensIs
<1>7. i + 2 \notin Printing!Operands(f)
  <2>1. (i + 1) + 1 \notin Printing!Operands(f)  BY <1>1, <1>6, OperandIs
  <2> QED  BY <1>1, <2>1
<1>8. \E k \in Nat : RunOf(f, i + 2, 2 * k)
  <2>1. CASE f[i + 1] = "%"
    <3>1. RunOf(f, (i + 1) + 1, (2 * m + 1) + 1)  BY <1>1, <1>5, <2>1, RunStep
    <3>2. m + 1 \in Nat /\ (2 * m + 1) + 1 = 2 * (m + 1)  OBVIOUS
    <3>3. RunOf(f, i + 2, 2 * (m + 1))  BY <1>1, <3>1, <3>2
    <3> QED  BY <3>2, <3>3
  <2>2. CASE f[i + 1] # "%"
    <3>1. RunOf(f, (i + 1) + 1, 0)  BY <1>1, <1>5, <2>2, RunStep
    <3>2. 2 * 0 = 0 /\ 0 \in Nat  OBVIOUS
    <3>3. RunOf(f, i + 2, 2 * 0)  BY <1>1, <3>1, <3>2
    <3> QED  BY <3>2, <3>3
  <2> QED  BY <2>1, <2>2
<1>9. a \in Nat /\ Printing!Before(f, i + 1) = a
  <2>1. /\ Printing!Before(f, i) \in Nat
        /\ Printing!Before(f, i + 1) = Printing!Before(f, i) + 0
    BY <1>1, BeforeStep DEF Walked
  <2> QED  BY <2>1 DEF Walked
<1>10. Printing!Before(f, i + 2) = a + Printing!Taken(f[i + 1])
  <2>1. Printing!Before(f, (i + 1) + 1) = Printing!Before(f, i + 1) + Printing!Taken(f[i + 1])
    BY <1>1, <1>4, BeforeStep
  <2> QED  BY <1>1, <1>9, <2>1
<1> QED  BY <1>3, <1>4, <1>7, <1>8, <1>9, <1>10

LEMMA WalkedDirective ==
  ASSUME NEW f \in Seq(Symbols), NEW i \in 1..Len(f), NEW txt, NEW a, NEW out,
         Walked(f, i, txt, a, out), f[i] = "%", i + 1 <= Len(f)
  PROVE  Walked(f, i + 2, txt, a + Printing!Taken(f[i + 1]),
                out \o ShownOf(f[i + 1], a + 1, txt))
<1>1. Len(f) \in Nat /\ i \in 1..Len(f) /\ i + 1 \in 1..Len(f)
  <2>1. Len(f) \in Nat  BY LenProperties
  <2> QED  BY <2>1
<1>2. /\ Printing!Opens(f, i) /\ i + 1 \in Printing!Operands(f)
      /\ i + 2 \notin Printing!Operands(f) /\ \E m \in Nat : RunOf(f, i + 2, 2 * m)
      /\ a \in Nat /\ Printing!Before(f, i + 1) = a
      /\ Printing!Before(f, i + 2) = a + Printing!Taken(f[i + 1])
  BY DirectiveOpens
<1>3. PICK h : /\ Grows(h, Pieces(f, txt), Len(f), Marks)
               /\ h[Len(f)] = FlattenSeq(Pieces(f, txt)) /\ out = h[i - 1]
  BY DEF Walked
<1>4. Pieces(f, txt)[i] = <<>>  BY <1>1, <1>2 DEF Pieces, Piece, Walked
<1>5. Pieces(f, txt)[i + 1] = ShownOf(f[i + 1], a + 1, txt)
  BY <1>1, <1>2 DEF Pieces, Piece
<1>6. h[i] = out
  <2>1. i - 1 \in 0..Len(f)  BY <1>1
  <2>2. h[i - 1] \in Seq(Marks) /\ h[i] = h[i - 1] \o <<>>  BY <1>1, <1>3, <1>4, <2>1 DEF Grows
  <2>3. h[i - 1] \o <<>> = h[i - 1]  BY <2>2, ConcatEmptySeq
  <2> QED  BY <1>3, <2>2, <2>3
<1>7. out \o ShownOf(f[i + 1], a + 1, txt) = h[(i + 2) - 1]
  <2>1. (i + 2) - 1 = i + 1 /\ (i + 1) - 1 = i  BY <1>1
  <2>2. h[i + 1] = h[(i + 1) - 1] \o Pieces(f, txt)[i + 1]  BY <1>1, <1>3 DEF Grows
  <2> QED  BY <1>5, <1>6, <2>1, <2>2
<1> QED  BY <1>2, <1>3, <1>7 DEF Walked

(* The pointer stands in the format, or has been led out of it by an open   *)
(* '%' at its end.                                                          *)
PrintInv ==
  /\ format = 0 => memory = <<>> /\ printed = <<>> /\ args = 0
  /\ format # 0 =>
       LET f == given[1] IN
       /\ format \in Nat \ {0} /\ f \in Seq(Symbols) /\ given[2] \in Strings
       /\ memory = f \o <<Printing!Terminator>> \o Behind \o <<Printing!Terminator>>
       /\ IF format <= Len(f) + 1
          THEN Walked(f, format, TextOf(library, given[2]), args, printed)
          ELSE Len(f) > 0 /\ Printing!Opens(f, Len(f))

LEMMA ShownIs == \A c, n : Printing!Shown(c, n) = ShownOf(c, n, TextOf(library, given[2]))
<1>1. Printing!Text(given[2]) = TextOf(library, given[2])  BY DEF Printing!Text, TextOf
<1> QED  BY <1>1 DEF Printing!Shown, ShownOf

LEMMA PrintBegins ==
  ASSUME Printing!PrintfAssumption, PrintInv, NEW f \in Seq(Symbols), NEW s \in Strings,
         Printing!call(f, s)
  PROVE  PrintInv'
<1>1. /\ format = 0 /\ format' = 1 /\ given' = <<f, s>> /\ args' = args /\ printed' = printed
      /\ memory' = f \o <<Printing!Terminator>> \o Behind \o <<Printing!Terminator>>
  BY DEF Printing!call
<1>2. PICK lib, txt : lib = library' /\ txt = TextOf(lib, s)  OBVIOUS
<1>3. printed = <<>> /\ args = 0  BY <1>1 DEF PrintInv
<1>4. txt \in Seq(Marks)  BY <1>2, TextMarks
<1>5. Len(f) \in Nat /\ DOMAIN f \subseteq Nat /\ 0 \notin DOMAIN f
  <2>1. Len(f) \in Nat /\ DOMAIN f = 1..Len(f)  BY LenProperties
  <2> QED  BY <2>1
<1>6. PICK h : Grows(h, Pieces(f, txt), Len(f), Marks) /\ h[Len(f)] = FlattenSeq(Pieces(f, txt))
  BY <1>4, PiecesAreParts, FlattenSteps
<1>7. 1 \notin Printing!Operands(f)
  <2>1. 0 \in Nat /\ 0 + 1 = 1  OBVIOUS
  <2>2. 0 + 1 \notin Printing!Operands(f)  BY <1>5, <2>1, OperandIs
  <2> QED  BY <2>1, <2>2
<1>8. RunOf(f, 1, 2 * 0)
  <2>1. 2 * 0 = 0 /\ 0 \in 0..(1 - 1) /\ ~(0 < 1 - 1) /\ 1..0 = {}  OBVIOUS
  <2>2. RunOf(f, 1, 0)  BY <2>1 DEF RunOf
  <2> QED  BY <2>1, <2>2
<1>9. args' = Printing!Before(f, 1)
  <2>1. 1 \in Nat \ {0}  OBVIOUS
  <2> QED  BY <1>1, <1>3, <2>1, BeforeStep
<1>10. printed' = h[1 - 1]
  <2>1. 1 - 1 = 0  OBVIOUS
  <2> QED  BY <1>1, <1>3, <1>6, <2>1 DEF Grows
<1>11. PICK a, out : a = args' /\ out = printed'  OBVIOUS
<1>12. Walked(f, 1, txt, a, out)
  <2>1. 0 \in Nat  OBVIOUS
  <2> QED  BY <1>6, <1>7, <1>8, <1>9, <1>10, <1>11, <2>1 DEF Walked
<1>13. 1 <= Len(f) + 1 /\ 1 \in Nat \ {0}  BY <1>5
<1>14. given'[1] = f /\ given'[2] = s  BY <1>1
<1> QED  BY <1>1, <1>2, <1>11, <1>12, <1>13, <1>14 DEF PrintInv

LEMMA PrintGoesOn ==
  ASSUME Printing!PrintfAssumption, PrintInv, Printing!print_char \/ Printing!directive
  PROVE  PrintInv'
<1>1. format # 0
  <2>1. format \in DOMAIN memory
    BY DEF Printing!print_char, Printing!directive, Printing!Directive
  <2>2. format = 0 => DOMAIN memory = {}  BY DEF PrintInv
  <2> QED  BY <2>1, <2>2
<1>2. PICK f, i, txt, a, out, s, m :
        /\ f = given[1] /\ i = format /\ s = given[2] /\ txt = TextOf(library, given[2])
        /\ a = args /\ out = printed /\ m = memory
  OBVIOUS
<1>3. /\ i \in Nat \ {0} /\ f \in Seq(Symbols) /\ s \in Strings
      /\ m = f \o <<Printing!Terminator>> \o Behind \o <<Printing!Terminator>>
      /\ i <= Len(f) + 1 => Walked(f, i, txt, a, out)
      /\ i > Len(f) + 1 => Len(f) > 0 /\ Printing!Opens(f, Len(f))
  <2>1. Len(given[1]) \in Nat  BY <1>1, LenProperties DEF PrintInv
  <2> QED  BY <1>1, <1>2, <2>1 DEF PrintInv
<1>4. /\ Len(f) \in Nat /\ \A k \in 1..Len(f) : m[k] = f[k]
      /\ m[Len(f) + 1] = Printing!Terminator
  BY <1>3, MemoryIs
<1>5. /\ given' = given /\ library' = library /\ memory' = memory
      /\ Printing!print_char => /\ m[i] # "%" /\ m[i] # Printing!Terminator /\ format' = i + 1
                                /\ args' = a /\ printed' = out \o Printing!Returned(m[i])
      /\ Printing!directive =>
           /\ m[i] = "%" /\ format' = i + 2 /\ args' = a + Printing!Taken(m[i + 1])
           /\ printed' = out \o ShownOf(m[i + 1], a + 1, txt)
  BY <1>2, ShownIs DEF Printing!print_char, Printing!directive, Printing!Directive
<1>6. PICK j, b, o : j = format' /\ b = args' /\ o = printed'  OBVIOUS
<1>7. /\ j \in Nat \ {0}
      /\ j <= Len(f) + 1 => Walked(f, j, txt, b, o)
      /\ ~(j <= Len(f) + 1) => Len(f) > 0 /\ Printing!Opens(f, Len(f))
  <2>1. CASE i > Len(f) + 1  BY <1>3, <1>4, <1>5, <1>6, <2>1
  <2>2. CASE i <= Len(f) + 1 /\ Printing!print_char
    <3>1. i # Len(f) + 1  BY <1>4, <1>5, <2>2
    <3>2. i \in 1..Len(f)  BY <1>3, <1>4, <2>2, <3>1
    <3>3. f[i] # "%" /\ j = i + 1 /\ b = a /\ o = out \o Printing!Returned(f[i])
      BY <1>4, <1>5, <1>6, <2>2, <3>2
    <3>4. Walked(f, i + 1, txt, a, out \o Printing!Returned(f[i]))
      BY <1>3, <2>2, <3>2, <3>3, WalkedPlain
    <3>5. Walked(f, j, txt, b, o)  BY <3>3, <3>4
    <3>6. j \in Nat \ {0} /\ j <= Len(f) + 1  BY <1>4, <3>2, <3>3
    <3> QED  BY <3>5, <3>6
  <2>3. CASE i <= Len(f) + 1 /\ Printing!directive
    <3>1. i # Len(f) + 1  BY <1>4, <1>5, <2>3 DEF Printing!Terminator
    <3>2. i \in 1..Len(f)  BY <1>3, <1>4, <2>3, <3>1
    <3>3. f[i] = "%" /\ j = i + 2  BY <1>4, <1>5, <1>6, <2>3, <3>2
    <3>4. Walked(f, i, txt, a, out)  BY <1>3, <2>3
    <3>5. CASE i + 1 <= Len(f)
      <4>1. i + 1 \in 1..Len(f)  BY <1>4, <3>2, <3>5
      <4>2. b = a + Printing!Taken(f[i + 1]) /\ o = out \o ShownOf(f[i + 1], a + 1, txt)
        BY <1>4, <1>5, <1>6, <2>3, <4>1
      <4>3. Walked(f, i + 2, txt, a + Printing!Taken(f[i + 1]),
                   out \o ShownOf(f[i + 1], a + 1, txt))
        BY <1>3, <3>2, <3>3, <3>4, <3>5, WalkedDirective
      <4>4. Walked(f, j, txt, b, o)  BY <3>3, <4>2, <4>3
      <4>5. j \in Nat \ {0} /\ j <= Len(f) + 1  BY <1>3, <1>4, <3>3, <4>1
      <4> QED  BY <4>4, <4>5
    <3>6. CASE ~(i + 1 <= Len(f))
      <4>1. i = Len(f) /\ Len(f) > 0 /\ ~(j <= Len(f) + 1) /\ j \in Nat \ {0}
        BY <1>4, <3>2, <3>3, <3>6
      <4>2. Printing!Opens(f, i)  BY <1>3, <3>2, <3>3, <3>4, DirectiveOpens
      <4> QED  BY <4>1, <4>2
    <3> QED  BY <3>5, <3>6
  <2> QED  BY <1>3, <1>4, <2>1, <2>2, <2>3
<1>8. j # 0  BY <1>7
<1> QED  BY <1>2, <1>3, <1>5, <1>6, <1>7, <1>8 DEF PrintInv

LEMMA PrintIsRight ==
  ASSUME Printing!PrintfAssumption, PrintInv
  PROVE  PrintsTheFormat
<1> DEFINE f == given[1]
           n == Len(f)
           txt == TextOf(library, given[2])
           open == n > 0 /\ Printing!Opens(f, n)
<1>1. SUFFICES ASSUME format > 0,
                      memory[Printing!Min({format, Len(memory)})] = Printing!Terminator
               PROVE  IF open THEN format > n + 1
                      ELSE /\ format = n + 1 /\ printed = FlattenSeq(Pieces(f, txt))
                           /\ args = Printing!Before(f, n + 1)
  <2>1. FlattenSeq(Pieces(f, txt)) =
          Printing!FlattenSeq([i \in 1..n |->
             IF i \in Printing!Operands(f) THEN Printing!Shown(f[i], Printing!Before(f, i) + 1)
             ELSE IF Printing!Opens(f, i) THEN <<>> ELSE Printing!Returned(f[i])])
    BY FlattenIs, ShownIs DEF Pieces, Piece
  <2> HIDE DEF txt
  <2> QED  BY <2>1 DEF PrintsTheFormat, Printing!PrintsTheFormat
<1>2. /\ format \in Nat \ {0} /\ f \in Seq(Symbols)
      /\ memory = f \o <<Printing!Terminator>> \o Behind \o <<Printing!Terminator>>
      /\ IF format <= n + 1 THEN Walked(f, format, txt, args, printed) ELSE open
  BY <1>1 DEF PrintInv
<1> HIDE DEF f, txt
<1>3. /\ n \in Nat /\ Len(memory) \in Nat /\ Len(memory) >= n + 2
      /\ \A k \in 1..n : memory[k] # Printing!Terminator
  BY <1>2, MemoryIs
<1>4. CASE format <= n + 1
  <2>1. Walked(f, format, txt, args, printed)  BY <1>2, <1>4
  <2>2. Printing!Min({format, Len(memory)}) = format
    <3>1. format \in Int /\ Len(memory) \in Int /\ format < Len(memory)  BY <1>2, <1>3, <1>4
    <3>2. \A x, y \in Int : x < y => Printing!Min({x, y}) = x  BY DEF Printing!Min
    <3> QED  BY <3>1, <3>2
  <2>3. format = n + 1
    <3>1. memory[format] = Printing!Terminator  BY <1>1, <2>2
    <3> QED  BY <1>2, <1>3, <1>4, <3>1
  <2>4. ~open
    <3>1. ASSUME open PROVE n + 1 \in Printing!Operands(f)
      <4>1. n \in DOMAIN f /\ DOMAIN f \subseteq Nat
        <5>1. DOMAIN f = 1..n  BY <1>2, LenProperties
        <5> QED  BY <1>3, <3>1, <5>1
      <4> QED  BY <1>3, <3>1, <4>1, OperandIs
    <3> QED  BY <2>1, <2>3, <3>1 DEF Walked
  <2>5. printed = FlattenSeq(Pieces(f, txt))
    <3>1. (n + 1) - 1 = n  BY <1>3
    <3> QED  BY <2>1, <2>3, <3>1 DEF Walked
  <2>6. args = Printing!Before(f, n + 1)  BY <2>1, <2>3 DEF Walked
  <2> QED  BY <2>3, <2>4, <2>5, <2>6
<1>5. CASE ~(format <= n + 1)  BY <1>2, <1>3, <1>5
<1> QED  BY <1>4, <1>5

(* For every format, of any length and with directives in any order, printf *)
(* prints its text with each directive replaced by the next arguments and   *)
(* stops at its end, unless it ends in a '%' of no directive.               *)
THEOREM FormatsArePrinted == MachineSpec => []PrintsTheFormat
<1>1. Printing!PrintfAssumption  BY MachineAssumption
<1>2. MachineInit => PrintInv  BY DEF MachineInit, Printing!Init, PrintInv
<1>3. PrintInv /\ [boot \/ shell \/ convert \/ start \/ call \/ print]_<<
        vars, ArchiveVars, last, ExecVars, CallVars, PrintVars>> => PrintInv'
  <2> SUFFICES ASSUME PrintInv,
                      [boot \/ shell \/ convert \/ start \/ call \/ print]_<<
                         vars, ArchiveVars, last, ExecVars, CallVars, PrintVars>>
               PROVE  PrintInv'
    OBVIOUS
  <2>1. [Printing!Next]_PrintVars
    <3>1. boot \/ shell \/ convert \/ start \/ call => UNCHANGED PrintVars
      BY DEF boot, shell, convert, start, call, PrintVars
    <3>2. print => Printing!Next  BY DEF print
    <3> QED  BY <3>1, <3>2
  <2>2. CASE UNCHANGED PrintVars  BY <2>2 DEF PrintVars, PrintInv
  <2>3. CASE Printing!print_char \/ Printing!directive  BY <1>1, <2>3, PrintGoesOn
  <2>4. ASSUME NEW f \in Printing!BoundedSeq(Symbols, MaxFormat), NEW s \in Strings,
               Printing!call(f, s)
        PROVE  PrintInv'
    <3>1. f \in Seq(Symbols)
      <4>1. PICK k \in 0..MaxFormat : f \in [1..k -> Symbols]
        BY DEF Printing!BoundedSeq, Printing!SeqOf
      <4>2. k \in Nat  BY <1>1 DEF Printing!PrintfAssumption
      <4> QED  BY <4>1, <4>2
    <3> QED  BY <1>1, <2>4, <3>1, PrintBegins
  <2> QED  BY <2>1, <2>2, <2>3, <2>4 DEF Printing!Next
<1>4. PrintInv => PrintsTheFormat  BY <1>1, PrintIsRight
<1> QED  BY <1>2, <1>3, <1>4, PTL DEF MachineSpec
-----------------------------------------------------------------------------
(* A file's contents in memory from f on, and nothing but NULs behind them  *)
(* up to e.                                                                 *)
Placed(m, f, e, body) ==
  /\ f \in Nat \ {0} /\ e \in Nat /\ f + Len(body) <= e + 1
  /\ \A j \in 1..Len(body) : m[f + j - 1] = body[j]
  /\ \A c \in (f + Len(body))..e : m[c] = Cpio!NUL

(* The cells of a sequence made of two.                                     *)
LEMMA TwoParts ==
  ASSUME NEW S, NEW a \in Seq(S), NEW b \in Seq(S)
  PROVE  /\ a \o b \in Seq(S) /\ Len(a \o b) = Len(a) + Len(b)
         /\ Len(a) \in Nat /\ Len(b) \in Nat
         /\ \A j \in 1..Len(a) : (a \o b)[j] = a[j]
         /\ \A j \in 1..Len(b) : (a \o b)[Len(a) + j] = b[j]
<1>1. a \o b \in Seq(S) /\ Len(a \o b) = Len(a) + Len(b) /\ Len(a) \in Nat /\ Len(b) \in Nat
  BY ConcatProperties
<1>2. \A j \in 1..(Len(a) + Len(b)) : (a \o b)[j] = IF j <= Len(a) THEN a[j] ELSE b[j - Len(a)]
  BY ConcatProperties
<1>3. ASSUME NEW j \in 1..Len(a) PROVE (a \o b)[j] = a[j]  BY <1>1, <1>2
<1>4. ASSUME NEW j \in 1..Len(b) PROVE (a \o b)[Len(a) + j] = b[j]
  <2>1. /\ Len(a) + j \in 1..(Len(a) + Len(b)) /\ ~(Len(a) + j <= Len(a))
        /\ Len(a) + j - Len(a) = j
    BY <1>1
  <2> QED  BY <2>1, <1>2
<1> QED  BY <1>1, <1>3, <1>4

(* What lies in memory between b and e for one entry of an archive.         *)
Lies(m, b, e, name, body) ==
  /\ b \in Nat /\ e \in Nat /\ b + 2 + Len(name) <= e
  /\ m[b + 1] = <<Len(name) + 1, Len(body)>>
  /\ \A j \in 1..Len(name) : m[b + 1 + j] = name[j]
  /\ m[b + 2 + Len(name)] = Cpio!NUL
  /\ \E f \in Nat : /\ b + 3 + Len(name) <= f /\ Placed(m, f, e, body)
                    /\ \A c \in (b + 3 + Len(name))..(f - 1) : m[c] = Cpio!NUL

(* s with NULs behind it.                                                   *)
PaddedTo(x, s) == /\ Len(s) <= Len(x) /\ \A j \in 1..Len(s) : x[j] = s[j]
                  /\ \A j \in (Len(s) + 1)..Len(x) : x[j] = Cpio!NUL

LEMMA PaddedIs ==
  ASSUME Cpio!ArchiveAssumption, NEW S, Cpio!NUL \in S, NEW s \in Seq(S)
  PROVE  Cpio!Padded(s) \in Seq(S) /\ PaddedTo(Cpio!Padded(s), s)
<1> DEFINE r == (-Len(s)) % Align
           z == [i \in 1..r |-> Cpio!NUL]
<1>1. r \in Nat  BY DEF Cpio!ArchiveAssumption
<1> HIDE DEF r
<1>2. z \in Seq(S) /\ Len(z) = r /\ \A j \in 1..r : z[j] = Cpio!NUL  BY <1>1
<1>3. Cpio!Padded(s) = s \o z  BY DEF Cpio!Padded, Cpio!NUL, r
<1> HIDE DEF z
<1>4. s \o z \in Seq(S) /\ Len(s \o z) = Len(s) + r  BY <1>2, ConcatProperties
<1>5. \A j \in 1..(Len(s) + Len(z)) : (s \o z)[j] = IF j <= Len(s) THEN s[j] ELSE z[j - Len(s)]
  BY <1>2, ConcatProperties
<1>6. Len(s) \in Nat  OBVIOUS
<1>7. ASSUME NEW j \in (Len(s) + 1)..(Len(s) + r) PROVE (s \o z)[j] = Cpio!NUL
  <2>1. j \in 1..(Len(s) + Len(z)) /\ ~(j <= Len(s)) /\ j - Len(s) \in 1..r
    BY <1>1, <1>2, <1>6
  <2> QED  BY <2>1, <1>2, <1>5
<1>8. \A j \in 1..Len(s) : (s \o z)[j] = s[j]  BY <1>1, <1>2, <1>5, <1>6
<1> QED  BY <1>1, <1>3, <1>4, <1>6, <1>7, <1>8 DEF PaddedTo

(* Two sequences put together.                                              *)
Together(c, a, b, S) ==
  /\ c \in Seq(S) /\ Len(c) = Len(a) + Len(b)
  /\ \A i \in 1..(Len(a) + Len(b)) : c[i] = IF i <= Len(a) THEN a[i] ELSE b[i - Len(a)]

LEMMA ConcatIs ==
  ASSUME NEW S, NEW a \in Seq(S), NEW b \in Seq(S)
  PROVE  Together(a \o b, a, b, S)
BY ConcatProperties DEF Together

(* A cell of memory: a character, a NUL or a header.                        *)
Memory == Seq(STRING) \cup Seq(Nat)

LEMMA EntryLies ==
  ASSUME Cpio!ArchiveAssumption, NEW name \in Seq(Memory), NEW body \in Seq(Memory)
  PROVE  LET x == Cpio!Entry(name, body)
         IN  x \in Seq(Memory) /\ Lies(x, 0, Len(x), name, body)
<1> DEFINE hd == << <<Len(name) + 1, Len(body)>> >>
           nn == hd \o name
           s == nn \o <<Cpio!NUL>>
           u == Cpio!Padded(s)
           v == Cpio!Padded(body)
           x == Cpio!Entry(name, body)
<1>1. Cpio!NUL \in Memory
  <2>1. <<>> \in Seq(STRING)  BY EmptySeq
  <2> QED  BY <2>1 DEF Memory, Cpio!NUL
<1>2. hd \in Seq(Memory) /\ Len(hd) = 1 /\ hd[1] = <<Len(name) + 1, Len(body)>>
  <2>1. <<Len(name) + 1, Len(body)>> \in Seq(Nat)  OBVIOUS
  <2> QED  BY <2>1 DEF Memory
<1>3. x = u \o v  BY DEF Cpio!Entry, Cpio!NUL
<1> HIDE DEF hd, x
<1>4. nn \in Seq(Memory) /\ Len(nn) = 1 + Len(name)
  <2>1. hd \in Seq(Memory) /\ name \in Seq(Memory) /\ Len(hd) = 1  BY <1>2
  <2>2. hd \o name \in Seq(Memory) /\ Len(hd \o name) = Len(hd) + Len(name)
    BY ONLY <2>1, ConcatProperties
  <2> QED  BY <2>1, <2>2
<1>5. \A j \in 1..(Len(hd) + Len(name)) : nn[j] = IF j <= Len(hd) THEN hd[j] ELSE name[j - Len(hd)]
  BY <1>2, ConcatProperties
<1>6. <<Cpio!NUL>> \in Seq(Memory) /\ Len(<<Cpio!NUL>>) = 1 /\ <<Cpio!NUL>>[1] = Cpio!NUL  BY <1>1
<1> HIDE DEF nn
<1>7. s \in Seq(Memory) /\ Len(s) = 2 + Len(name)  BY <1>4, <1>6, ConcatProperties
<1>8. \A j \in 1..(Len(nn) + Len(<<Cpio!NUL>>)) :
         s[j] = IF j <= Len(nn) THEN nn[j] ELSE <<Cpio!NUL>>[j - Len(nn)]
  BY <1>4, <1>6, ConcatProperties
<1>9. Len(name) \in Nat /\ Len(body) \in Nat  OBVIOUS
<1>10. /\ s[1] = <<Len(name) + 1, Len(body)>>
       /\ \A j \in 1..Len(name) : s[1 + j] = name[j]
       /\ s[2 + Len(name)] = Cpio!NUL
  <2>1. s[1] = nn[1] /\ nn[1] = hd[1]  BY <1>2, <1>4, <1>5, <1>6, <1>8, <1>9
  <2>2. ASSUME NEW j \in 1..Len(name) PROVE s[1 + j] = name[j]
    <3>1. s[1 + j] = nn[1 + j]  BY <1>4, <1>6, <1>8, <1>9
    <3>2. 1 + j \in 1..(Len(hd) + Len(name)) /\ ~(1 + j <= Len(hd)) /\ 1 + j - Len(hd) = j
      BY <1>2, <1>9
    <3>3. nn[1 + j] = name[1 + j - Len(hd)]  BY <3>2, <1>5
    <3> QED  BY <3>1, <3>2, <3>3
  <2>3. s[2 + Len(name)] = Cpio!NUL
    <3>1. /\ 2 + Len(name) \in 1..(Len(nn) + Len(<<Cpio!NUL>>)) /\ ~(2 + Len(name) <= Len(nn))
          /\ 2 + Len(name) - Len(nn) = 1
      BY <1>4, <1>6, <1>9
    <3> QED  BY <3>1, <1>6, <1>8
  <2> QED  BY <1>2, <2>1, <2>2, <2>3
<1> HIDE DEF s
<1>11. /\ u \in Seq(Memory) /\ PaddedTo(u, s)
       /\ v \in Seq(Memory) /\ PaddedTo(v, body)
  BY <1>1, <1>7, PaddedIs
<1> HIDE DEF u, v
<1>12. u \o v \in Seq(Memory) /\ Len(u \o v) = Len(u) + Len(v)  BY <1>11, ConcatProperties
<1>13. \A j \in 1..(Len(u) + Len(v)) : (u \o v)[j] = IF j <= Len(u) THEN u[j] ELSE v[j - Len(u)]
  BY <1>11, ConcatProperties
<1>14. Len(u) \in Nat /\ Len(v) \in Nat /\ 2 + Len(name) <= Len(u) /\ Len(body) <= Len(v)
  BY <1>7, <1>11 DEF PaddedTo
<1> DEFINE f == Len(u) + 1
           e == Len(u) + Len(v)
<1>15. /\ x[1] = <<Len(name) + 1, Len(body)>>
       /\ \A j \in 1..Len(name) : x[1 + j] = name[j]
       /\ x[2 + Len(name)] = Cpio!NUL
       /\ \A c \in (3 + Len(name))..Len(u) : x[c] = Cpio!NUL
  <2>1. \A c \in 1..Len(u) : x[c] = u[c]  BY <1>3, <1>13, <1>14
  <2>2. \A c \in 1..(2 + Len(name)) : x[c] = s[c]
    <3> TAKE c \in 1..(2 + Len(name))
    <3>1. c \in 1..Len(u) /\ c \in 1..Len(s)  BY <1>7, <1>9, <1>14
    <3>2. u[c] = s[c]  BY <3>1, <1>11 DEF PaddedTo
    <3> QED  BY <2>1, <3>1, <3>2
  <2>3. \A c \in (3 + Len(name))..Len(u) : u[c] = Cpio!NUL
    <3>1. 3 + Len(name) = Len(s) + 1  BY <1>7, <1>9
    <3> QED  BY <3>1, <1>11 DEF PaddedTo
  <2>4. \A c \in (3 + Len(name))..Len(u) : x[c] = Cpio!NUL  BY <2>1, <2>3, <1>9, <1>14
  <2>5. \A j \in 1..Len(name) : x[1 + j] = s[1 + j]  BY <2>2, <1>9
  <2>6. x[1] = s[1] /\ x[2 + Len(name)] = s[2 + Len(name)]  BY <2>2, <1>9
  <2> QED  BY <2>4, <2>5, <2>6, <1>10
<1>16. Placed(x, f, e, body)
  <2>1. \A c \in 1..Len(v) : x[Len(u) + c] = v[c]
    <3> TAKE c \in 1..Len(v)
    <3>1. Len(u) + c \in 1..(Len(u) + Len(v)) /\ ~(Len(u) + c <= Len(u)) /\ Len(u) + c - Len(u) = c
      BY <1>14
    <3> QED  BY <3>1, <1>3, <1>13
  <2>2. ASSUME NEW j \in 1..Len(body) PROVE x[f + j - 1] = body[j]
    <3>1. f + j - 1 = Len(u) + j /\ j \in 1..Len(v)  BY <1>9, <1>14
    <3>2. v[j] = body[j]  BY <1>11 DEF PaddedTo
    <3> QED  BY <3>1, <3>2, <2>1
  <2>3. ASSUME NEW c \in (f + Len(body))..e PROVE x[c] = Cpio!NUL
    <3>1. c - Len(u) \in 1..Len(v) /\ Len(u) + (c - Len(u)) = c
          /\ c - Len(u) \in (Len(body) + 1)..Len(v)
      BY <1>9, <1>14
    <3>2. v[c - Len(u)] = Cpio!NUL  BY <3>1, <1>11 DEF PaddedTo
    <3>3. x[Len(u) + (c - Len(u))] = v[c - Len(u)]  BY <3>1, <2>1
    <3> QED  BY <3>1, <3>2, <3>3
  <2>4. f \in Nat \ {0} /\ e \in Nat /\ f + Len(body) <= e + 1  BY <1>9, <1>14
  <2> QED  BY <2>2, <2>3, <2>4 DEF Placed
<1>17. Len(x) = e /\ x \in Seq(Memory)  BY <1>3, <1>12
<1>18. f \in Nat /\ 3 + Len(name) <= f /\ \A c \in (3 + Len(name))..(f - 1) : x[c] = Cpio!NUL
  <2>1. f \in Nat /\ 3 + Len(name) <= f /\ f - 1 = Len(u)  BY <1>9, <1>14
  <2> QED  BY <2>1, <1>15
<1> HIDE DEF f, e
<1>19. e \in Nat /\ 2 + Len(name) <= e  BY <1>9, <1>14 DEF e
<1>20. \E g \in Nat : /\ 0 + 3 + Len(name) <= g /\ Placed(x, g, e, body)
                      /\ \A c \in (0 + 3 + Len(name))..(g - 1) : x[c] = Cpio!NUL
  <2>1. 0 + 3 + Len(name) = 3 + Len(name)  BY <1>9
  <2> QED  BY <2>1, <1>16, <1>18
<1>21. Lies(x, 0, e, name, body)
  <2>1. 0 + 1 = 1 /\ 0 + 2 + Len(name) = 2 + Len(name)  BY <1>9
  <2>2. \A j \in 1..Len(name) : 0 + 1 + j = 1 + j  BY <1>9
  <2>3. \A j \in 1..Len(name) : x[0 + 1 + j] = name[j]  BY <1>15, <2>2
  <2> QED  BY <2>1, <2>3, <1>15, <1>19, <1>20 DEF Lies
<1> QED  BY <1>17, <1>21 DEF x

LEMMA LiesShift ==
  ASSUME NEW m, NEW x, NEW b \in Nat, NEW name, NEW body, Len(x) \in Nat,
         Len(name) \in Nat, Len(body) \in Nat, Lies(x, 0, Len(x), name, body),
         \A j \in 1..Len(x) : m[b + j] = x[j]
  PROVE  Lies(m, b, b + Len(x), name, body)
<1> DEFINE n == Len(name)
           e == Len(x)
<1>1. /\ 2 + n <= e /\ x[1] = <<n + 1, Len(body)>>
      /\ \A j \in 1..n : x[1 + j] = name[j]
      /\ x[2 + n] = Cpio!NUL
  <2>1. 0 + 1 = 1 /\ 0 + 2 + n = 2 + n  OBVIOUS
  <2> QED  BY <2>1 DEF Lies
<1>2. PICK f \in Nat : /\ 3 + n <= f /\ Placed(x, f, e, body)
                       /\ \A c \in (3 + n)..(f - 1) : x[c] = Cpio!NUL
  <2>1. 0 + 3 + n = 3 + n  OBVIOUS
  <2> QED  BY <2>1 DEF Lies
<1>3. /\ f \in Nat \ {0} /\ e \in Nat /\ f + Len(body) <= e + 1
      /\ \A j \in 1..Len(body) : x[f + j - 1] = body[j]
      /\ \A c \in (f + Len(body))..e : x[c] = Cpio!NUL
  BY <1>2 DEF Placed
<1>4. m[b + 1] = x[1] /\ m[b + 2 + n] = x[2 + n]
  <2>1. b + (2 + n) = b + 2 + n /\ 1 \in 1..e /\ 2 + n \in 1..e  BY <1>1
  <2>2. m[b + (2 + n)] = x[2 + n]  BY <2>1
  <2> QED  BY <2>1, <2>2
<1>5. ASSUME NEW j \in 1..n PROVE m[b + 1 + j] = name[j]
  <2>1. b + (1 + j) = b + 1 + j /\ 1 + j \in 1..e  BY <1>1
  <2>2. m[b + (1 + j)] = x[1 + j]  BY <2>1
  <2> QED  BY <2>1, <2>2, <1>1
<1>6. ASSUME NEW c \in (b + 3 + n)..(b + f - 1) PROVE m[c] = Cpio!NUL
  <2>1. c - b \in (3 + n)..(f - 1) /\ b + (c - b) = c /\ c - b \in 1..e  BY <1>3
  <2>2. m[b + (c - b)] = x[c - b]  BY <2>1
  <2>3. x[c - b] = Cpio!NUL  BY <2>1, <1>2
  <2> QED  BY <2>1, <2>2, <2>3
<1>7. Placed(m, b + f, b + e, body)
  <2>1. ASSUME NEW j \in 1..Len(body) PROVE m[b + f + j - 1] = body[j]
    <3>1. b + (f + j - 1) = b + f + j - 1 /\ f + j - 1 \in 1..e  BY <1>3
    <3>2. m[b + (f + j - 1)] = x[f + j - 1]  BY <3>1
    <3> QED  BY <3>1, <3>2, <1>3
  <2>2. ASSUME NEW c \in (b + f + Len(body))..(b + e) PROVE m[c] = Cpio!NUL
    <3>1. c - b \in (f + Len(body))..e /\ b + (c - b) = c /\ c - b \in 1..e  BY <1>3
    <3>2. m[b + (c - b)] = x[c - b]  BY <3>1
    <3>3. x[c - b] = Cpio!NUL  BY <3>1, <1>3
    <3> QED  BY <3>1, <3>2, <3>3
  <2>3. b + f \in Nat \ {0} /\ b + e \in Nat /\ b + f + Len(body) <= b + e + 1  BY <1>3
  <2> QED  BY <2>1, <2>2, <2>3 DEF Placed
<1>8. \E g \in Nat : /\ b + 3 + n <= g /\ Placed(m, g, b + e, body)
                     /\ \A c \in (b + 3 + n)..(g - 1) : m[c] = Cpio!NUL
  <2>1. b + f \in Nat /\ b + 3 + n <= b + f  BY <1>2
  <2> QED  BY <2>1, <1>6, <1>7
<1>9. b \in Nat /\ b + e \in Nat /\ b + 2 + n <= b + e  BY <1>1
<1> QED  BY <1>1, <1>4, <1>5, <1>8, <1>9 DEF Lies

(* Each h[k] begins h[n], and depends on the first k parts only.            *)
LEMMA GrowsPrefix ==
  ASSUME NEW n, NEW seqs, NEW S, NEW h, Parts(seqs, n, S), Grows(h, seqs, n, S),
         NEW k \in 0..n
  PROVE  Len(h[k]) <= Len(h[n]) /\ \A j \in 1..Len(h[k]) : h[n][j] = h[k][j]
<1> DEFINE Pre(i) == Len(h[i]) <= Len(h[n]) /\ \A j \in 1..Len(h[i]) : h[n][j] = h[i][j]
           Bad == {d \in 0..n : ~Pre(n - d)}
<1>1. n \in Nat /\ (\A i \in 1..n : seqs[i] \in Seq(S)) /\ \A i \in 0..n : h[i] \in Seq(S)
  BY DEF Parts, Grows
<1>2. \A i \in 1..n : h[i] = h[i - 1] \o seqs[i]  BY DEF Grows
<1>3. ASSUME Bad # {} PROVE FALSE
  <2>1. Bad \subseteq Nat  OBVIOUS
  <2>2. PICK d \in Bad : \A c \in Bad : d <= c
    <3> HIDE DEF Bad
    <3> QED  BY <1>3, <2>1, LeastNat
  <2>3. d \in 0..n /\ ~Pre(n - d)  BY <2>2
  <2>4. d # 0
    <3>1. h[n] \in Seq(S)  BY <1>1
    <3>2. Len(h[n]) \in Nat  BY <3>1
    <3>3. Pre(n)  BY <3>2
    <3>4. n - 0 = n  BY <1>1
    <3> QED  BY <2>3, <3>3, <3>4
  <2> DEFINE i == n - d + 1
  <2>5. d - 1 \in 0..n /\ d - 1 < d /\ n - (d - 1) = i /\ i \in 1..n /\ i - 1 = n - d
        /\ i - 1 \in 0..n /\ i \in 0..n
    BY <1>1, <2>3, <2>4
  <2>6. Pre(i)
    <3>1. d - 1 \notin Bad  BY <2>2, <2>5
    <3>2. Pre(n - (d - 1))
      <4> HIDE DEF Pre, i
      <4> QED  BY <3>1, <2>5
    <3> QED  BY <3>2, <2>5
  <2> HIDE DEF i
  <2>7. h[i - 1] \in Seq(S) /\ seqs[i] \in Seq(S) /\ h[i] = h[i - 1] \o seqs[i]
    BY <1>1, <1>2, <2>5
  <2>8. /\ Len(h[i - 1]) \in Nat /\ Len(h[i - 1]) <= Len(h[i])
        /\ \A j \in 1..Len(h[i - 1]) : h[i][j] = h[i - 1][j]
    <3>1. \A a \in Seq(S), b \in Seq(S) : \A c : c = a \o b =>
             Len(a) \in Nat /\ Len(a) <= Len(c) /\ \A j \in 1..Len(a) : c[j] = a[j]
      BY TwoParts
    <3> QED  BY <3>1, <2>7
  <2>11. Len(h[n]) \in Nat  BY <1>1
  <2>12. Pre(i - 1)
    <3>1. Len(h[i]) \in Nat  BY <1>1, <2>5
    <3>2. Len(h[i - 1]) <= Len(h[n])  BY <2>6, <2>8, <2>11, <3>1
    <3>3. ASSUME NEW j \in 1..Len(h[i - 1]) PROVE h[n][j] = h[i - 1][j]
      <4>1. j \in 1..Len(h[i])  BY <2>8, <3>1
      <4> QED  BY <4>1, <2>6, <2>8
    <3> QED  BY <3>2, <3>3
  <2> QED  BY <2>3, <2>5, <2>12
<1>4. n - k \in 0..n /\ n - (n - k) = k  BY <1>1
<1>5. Pre(n - (n - k))
  <2> HIDE DEF Pre
  <2> QED  BY <1>3, <1>4
<1>6. Pre(k)
  <2> HIDE DEF Pre
  <2> QED  BY <1>4, <1>5
<1> QED  BY <1>6

LEMMA GrowsUnique ==
  ASSUME NEW n, NEW s, NEW t, NEW S, NEW h, NEW g, NEW k \in Nat, n \in Nat, k <= n,
         Grows(h, s, n, S), Grows(g, t, k, S), \A i \in 1..k : s[i] = t[i]
  PROVE  g[k] = h[k]
<1> DEFINE Bad == {i \in 0..k : g[i] # h[i]}
<1>1. ASSUME Bad # {} PROVE FALSE
  <2>1. Bad \subseteq Nat  OBVIOUS
  <2>2. PICK i \in Bad : \A j \in Bad : i <= j  BY <1>1, <2>1, LeastNat
  <2>3. i # 0  BY <2>2 DEF Grows
  <2>4. i \in 1..k /\ i \in 1..n /\ i - 1 \in 0..k /\ i - 1 \notin Bad  BY <2>2, <2>3
  <2>5. g[i] = g[i - 1] \o t[i] /\ h[i] = h[i - 1] \o s[i]  BY <2>4 DEF Grows
  <2> QED  BY <2>2, <2>4, <2>5
<1> QED  BY <1>1

(* The entries in memory, the trailer's included: the k-th lies behind p[k], *)
(* where the entries before it end.                                         *)
NameAt(k) == IF k <= Len(files) THEN files[k].name ELSE Trailer
BodyAt(k) == IF k <= Len(files) THEN files[k].body ELSE <<>>
Laid(p) ==
  /\ Len(files) \in Nat /\ Len(mem) \in Nat /\ DOMAIN mem = 1..Len(mem)
  /\ p[1] = 0 /\ p[Len(files) + 2] = Len(mem)
  /\ \A k \in 1..(Len(files) + 1) :
       /\ p[k + 1] <= Len(mem) /\ Lies(mem, p[k], p[k + 1], NameAt(k), BodyAt(k))
       /\ Len(Cpio!Entries(SubSeq(files, 1, k - 1))) = p[k]
GivenFiles   == [name : Names, body : Bodies]
ArchiveFiles == files \in Seq(GivenFiles)

LEMMA Letters1 ==
  ASSUME Cpio!ArchiveAssumption, ArchiveFiles, NEW k \in 1..(Len(files) + 1)
  PROVE  /\ NameAt(k) \in Names \cup {Trailer} /\ BodyAt(k) \in Bodies \cup {<<>>}
         /\ NameAt(k) \in Seq(Memory) /\ BodyAt(k) \in Seq(Memory)
         /\ Len(NameAt(k)) \in Nat \ {0} /\ Len(BodyAt(k)) \in Nat
         /\ \A j \in 1..Len(NameAt(k)) : Len(NameAt(k)[j]) = 1
         /\ \A j \in 1..Len(BodyAt(k)) : Len(BodyAt(k)[j]) <= 1
         /\ DOMAIN NameAt(k) = 1..Len(NameAt(k)) /\ DOMAIN BodyAt(k) = 1..Len(BodyAt(k))
<1>1. NameAt(k) \in Names \cup {Trailer} /\ BodyAt(k) \in Bodies \cup {<<>>}
  <2>1. CASE k <= Len(files)
    <3>1. Len(files) \in Nat /\ k \in 1..Len(files)  BY <2>1 DEF ArchiveFiles
    <3>2. files[k] \in GivenFiles  BY <3>1 DEF ArchiveFiles
    <3> QED  BY <2>1, <3>2 DEF NameAt, BodyAt, GivenFiles
  <2>2. CASE ~(k <= Len(files))  BY <2>2 DEF NameAt, BodyAt
  <2> QED  BY <2>1, <2>2
<1>2. /\ NameAt(k) \in Seq(Seq(STRING)) /\ BodyAt(k) \in Seq(Seq(STRING)) /\ NameAt(k) # <<>>
      /\ \A j \in DOMAIN NameAt(k) : Len(NameAt(k)[j]) = 1
      /\ \A j \in DOMAIN BodyAt(k) : Len(BodyAt(k)[j]) <= 1
  <2>1. <<>> \in Seq(Seq(STRING)) /\ \A j \in DOMAIN <<>> : FALSE  OBVIOUS
  <2> HIDE DEF NameAt, BodyAt
  <2> QED  BY <1>1, <2>1 DEF Cpio!ArchiveAssumption
<1>3. NameAt(k) \in Seq(Memory) /\ BodyAt(k) \in Seq(Memory)  BY <1>2 DEF Memory
<1>4. Len(NameAt(k)) # 0  BY <1>2, EmptySeq
<1>5. DOMAIN NameAt(k) = 1..Len(NameAt(k)) /\ DOMAIN BodyAt(k) = 1..Len(BodyAt(k))  BY <1>3
<1>6. Len(NameAt(k)) \in Nat \ {0} /\ Len(BodyAt(k)) \in Nat  BY <1>3, <1>4
<1>7. /\ \A j \in 1..Len(NameAt(k)) : Len(NameAt(k)[j]) = 1
      /\ \A j \in 1..Len(BodyAt(k)) : Len(BodyAt(k)[j]) <= 1
  <2> HIDE DEF NameAt, BodyAt
  <2> QED  BY <1>2, <1>5
<1> QED  BY <1>1, <1>3, <1>5, <1>6, <1>7

LEMMA CpioFlattenIs == \A seqs : Cpio!FlattenSeq(seqs) = FlattenSeq(seqs)
BY DEF Cpio!FlattenSeq, FlattenSeq

(* The entries of a list of files.                                          *)
EntriesOf(fs) == [i \in DOMAIN fs |-> Cpio!Entry(fs[i].name, fs[i].body)]

LEMMA EntriesParts ==
  ASSUME Cpio!ArchiveAssumption, ArchiveFiles, NEW k \in 0..Len(files)
  PROVE  /\ Parts(EntriesOf(SubSeq(files, 1, k)), k, Memory)
         /\ \A i \in 1..k : EntriesOf(SubSeq(files, 1, k))[i] = Cpio!Entry(NameAt(i), BodyAt(i))
         /\ SubSeq(files, 1, Len(files)) = files
<1>1. files \in Seq(GivenFiles) /\ Len(files) \in Nat /\ k \in Nat /\ k <= Len(files)  BY DEF ArchiveFiles
<1>2. /\ SubSeq(files, 1, k) \in Seq(GivenFiles) /\ Len(SubSeq(files, 1, k)) = k
      /\ \A i \in 1..k : SubSeq(files, 1, k)[i] = files[i]
  <2>1. SubSeq(files, 1, k) = [i \in 1..k |-> files[i]]  BY <1>1
  <2>2. \A i \in 1..k : files[i] \in GivenFiles  BY <1>1
  <2>3. SubSeq(files, 1, k) \in Seq(GivenFiles)  BY <1>1, <2>1, <2>2
  <2> QED  BY <1>1, <2>1, <2>3
<1>3. DOMAIN SubSeq(files, 1, k) = 1..k  BY <1>2
<1> DEFINE e == EntriesOf(SubSeq(files, 1, k))
<1>4. e = [i \in 1..k |-> Cpio!Entry(SubSeq(files, 1, k)[i].name, SubSeq(files, 1, k)[i].body)]
  BY <1>3 DEF EntriesOf
<1>5. ASSUME NEW i \in 1..k PROVE e[i] = Cpio!Entry(NameAt(i), BodyAt(i)) /\ e[i] \in Seq(Memory)
  <2>1. i \in 1..(Len(files) + 1) /\ i <= Len(files)  BY <1>1
  <2>2. e[i] = Cpio!Entry(NameAt(i), BodyAt(i))  BY <1>2, <1>4, <2>1 DEF NameAt, BodyAt
  <2>3. NameAt(i) \in Seq(Memory) /\ BodyAt(i) \in Seq(Memory)  BY <2>1, Letters1
  <2> QED  BY <2>2, <2>3, EntryLies
<1>6. e = [i \in 1..k |-> e[i]] /\ Len(e) = k  BY <1>1, <1>4
<1>7. SubSeq(files, 1, Len(files)) = files  BY <1>1
<1> QED  BY <1>1, <1>5, <1>6, <1>7 DEF Parts

LEMMA ArchiveLaid ==
  ASSUME Cpio!ArchiveAssumption, ArchiveFiles, mem = Cpio!Image(files)
  PROVE  \E p : Laid(p)
<1> DEFINE n == Len(files)
           seqs == EntriesOf(files)
           t == Cpio!Entry(Trailer, <<>>)
<1>1. n \in Nat /\ n \in 0..n  BY DEF ArchiveFiles
<1>2. /\ Parts(seqs, n, Memory)
      /\ \A i \in 1..n : seqs[i] = Cpio!Entry(NameAt(i), BodyAt(i))
  BY <1>1, EntriesParts
<1> HIDE DEF seqs
<1>3. PICK h : Grows(h, seqs, n, Memory) /\ h[n] = FlattenSeq(seqs)  BY <1>2, FlattenSteps
<1>4. mem = h[n] \o t
  BY <1>3, CpioFlattenIs DEF Cpio!Image, Cpio!Entries, EntriesOf, seqs
<1>5. NameAt(n + 1) = Trailer /\ BodyAt(n + 1) = <<>>  BY <1>1 DEF NameAt, BodyAt
<1>6. t \in Seq(Memory) /\ Lies(t, 0, Len(t), Trailer, <<>>)
  <2>1. Trailer \in Seq(Memory) /\ <<>> \in Seq(Memory)  BY <1>1, <1>5, Letters1
  <2> QED  BY <2>1, EntryLies
<1> HIDE DEF t
<1>7. \A k \in 0..n : h[k] \in Seq(Memory)  BY <1>3 DEF Grows
<1>8. /\ mem \in Seq(Memory) /\ Len(mem) = Len(h[n]) + Len(t) /\ Len(h[n]) \in Nat /\ Len(t) \in Nat
      /\ \A j \in 1..Len(h[n]) : mem[j] = h[n][j]
      /\ \A j \in 1..Len(t) : mem[Len(h[n]) + j] = t[j]
  BY <1>1, <1>4, <1>6, <1>7, TwoParts
<1>9. \A k \in 0..n : Len(h[k]) \in Nat  BY <1>7
<1> DEFINE p == [k \in 1..(n + 2) |-> IF k = n + 2 THEN Len(mem) ELSE Len(h[k - 1])]
<1>10. \A k \in 1..(n + 1) : p[k] = Len(h[k - 1]) /\ k - 1 \in 0..n /\ p[k] \in Nat
  BY <1>1, <1>9
<1>11. p[n + 2] = Len(mem)  BY <1>1
<1> HIDE DEF p
<1>12. p[1] = 0
  <2>1. 1 - 1 = 0 /\ 1 \in 1..(n + 1)  BY <1>1
  <2> QED  BY <1>3, <1>10, <2>1, EmptySeq DEF Grows
<1>13. ASSUME NEW k \in 1..n
       PROVE  p[k + 1] <= Len(mem) /\ Lies(mem, p[k], p[k + 1], NameAt(k), BodyAt(k))
  <2>1. k \in 1..(n + 1) /\ k - 1 \in 0..n /\ k \in 0..n /\ k + 1 \in 1..(n + 1) /\ k + 1 - 1 = k
    BY <1>1
  <2>2. p[k] = Len(h[k - 1]) /\ p[k + 1] = Len(h[k]) /\ p[k] \in Nat /\ p[k + 1] \in Nat
    BY <1>10, <2>1
  <2>3. /\ NameAt(k) \in Seq(Memory) /\ BodyAt(k) \in Seq(Memory)
        /\ Len(NameAt(k)) \in Nat /\ Len(BodyAt(k)) \in Nat
    BY <2>1, Letters1
  <2> DEFINE x == Cpio!Entry(NameAt(k), BodyAt(k))
  <2>4. x \in Seq(Memory) /\ Lies(x, 0, Len(x), NameAt(k), BodyAt(k)) /\ seqs[k] = x
    BY <1>2, <2>3, EntryLies
  <2> HIDE DEF x
  <2>5. h[k] = h[k - 1] \o x  BY <1>3, <2>4 DEF Grows
  <2>6. /\ Len(h[k]) = Len(h[k - 1]) + Len(x) /\ Len(x) \in Nat
        /\ \A j \in 1..Len(x) : h[k][Len(h[k - 1]) + j] = x[j]
    <3>1. h[k - 1] \in Seq(Memory)  BY <1>7, <2>1
    <3> QED  BY <3>1, <2>4, <2>5, TwoParts
  <2>7. Len(h[k]) <= Len(h[n]) /\ \A j \in 1..Len(h[k]) : h[n][j] = h[k][j]
    BY <1>2, <1>3, <2>1, GrowsPrefix
  <2>8. ASSUME NEW j \in 1..Len(x) PROVE mem[p[k] + j] = x[j]
    <3>1. p[k] + j \in 1..Len(h[k]) /\ p[k] + j \in 1..Len(h[n])  BY <1>8, <2>2, <2>6, <2>7
    <3>2. mem[p[k] + j] = h[n][p[k] + j]  BY <3>1, <1>8
    <3>3. h[n][p[k] + j] = h[k][p[k] + j]  BY <3>1, <2>7
    <3>4. h[k][p[k] + j] = x[j]  BY <2>2, <2>6
    <3> QED  BY <3>2, <3>3, <3>4
  <2>9. Lies(mem, p[k], p[k] + Len(x), NameAt(k), BodyAt(k))
    BY <2>2, <2>3, <2>4, <2>6, <2>8, LiesShift
  <2>10. p[k] + Len(x) = p[k + 1] /\ p[k + 1] <= Len(mem)  BY <1>8, <2>2, <2>6, <2>7
  <2> QED  BY <2>9, <2>10
<1>14. p[n + 1 + 1] <= Len(mem) /\ Lies(mem, p[n + 1], p[n + 1 + 1], NameAt(n + 1), BodyAt(n + 1))
  <2>1. n + 1 + 1 = n + 2 /\ n + 1 - 1 = n /\ n + 1 \in 1..(n + 1)  BY <1>1
  <2>2. p[n + 1] = Len(h[n]) /\ p[n + 1] \in Nat  BY <1>10, <2>1
  <2>3. Len(Trailer) \in Nat /\ Len(<<>>) \in Nat  BY <2>1, <1>5, Letters1
  <2>4. Lies(mem, p[n + 1], p[n + 1] + Len(t), Trailer, <<>>)
    BY <1>6, <1>8, <2>2, <2>3, LiesShift
  <2>5. p[n + 1] + Len(t) = p[n + 1 + 1]  BY <1>8, <1>11, <2>1, <2>2
  <2>6. p[n + 1 + 1] <= Len(mem)  BY <1>8, <1>11, <2>1
  <2> QED  BY <2>4, <2>5, <2>6, <1>5
<1>15. ASSUME NEW k \in 1..(n + 1) PROVE Len(Cpio!Entries(SubSeq(files, 1, k - 1))) = p[k]
  <2>1. k - 1 \in 0..n /\ k - 1 \in Nat /\ k - 1 <= n  BY <1>1
  <2> DEFINE part == EntriesOf(SubSeq(files, 1, k - 1))
  <2>2. /\ Parts(part, k - 1, Memory)
        /\ \A i \in 1..(k - 1) : part[i] = Cpio!Entry(NameAt(i), BodyAt(i))
    BY <2>1, EntriesParts
  <2>3. Cpio!Entries(SubSeq(files, 1, k - 1)) = FlattenSeq(part)
    BY CpioFlattenIs DEF Cpio!Entries, EntriesOf
  <2> HIDE DEF part
  <2>4. PICK g : Grows(g, part, k - 1, Memory) /\ g[k - 1] = FlattenSeq(part)
    BY <2>2, FlattenSteps
  <2>5. \A i \in 1..(k - 1) : seqs[i] = part[i]  BY <1>1, <1>2, <2>1, <2>2
  <2>6. g[k - 1] = h[k - 1]  BY <1>1, <1>3, <2>1, <2>4, <2>5, GrowsUnique
  <2> QED  BY <1>10, <2>3, <2>4, <2>6
<1>16. ASSUME NEW k \in 1..(n + 1)
       PROVE  p[k + 1] <= Len(mem) /\ Lies(mem, p[k], p[k + 1], NameAt(k), BodyAt(k))
  <2>1. k \in 1..n \/ k = n + 1  BY <1>1
  <2> QED  BY <2>1, <1>13, <1>14
<1>17. Len(mem) \in Nat /\ DOMAIN mem = 1..Len(mem)  BY <1>8
<1> QED  BY <1>1, <1>11, <1>12, <1>15, <1>16, <1>17 DEF Laid

LEMMA PrefixMeans ==
  ASSUME NEW S, NEW s \in Seq(S), NEW t \in Seq(S)
  PROVE  Cpio!IsPrefix(s, t) <=> Len(s) <= Len(t) /\ \A i \in 1..Len(s) : s[i] = t[i]
<1> DEFINE u == SubSeq(s, 1, Len(s))
           v == SubSeq(t, 1, Len(s))
<1>1. Cpio!IsPrefix(s, t) <=> Len(s) <= Len(t) /\ u = v  BY DEF Cpio!IsPrefix
<1>2. Len(s) \in Nat /\ u = [i \in 1..Len(s) |-> s[i]] /\ v = [i \in 1..Len(s) |-> t[i]]
  OBVIOUS
<1> HIDE DEF u, v
<1> QED  BY <1>1, <1>2

(* padding stops at the first cell that holds something.                    *)
LEMMA AfterIs ==
  ASSUME Len(mem) \in Nat, NEW a \in Nat, NEW b \in Nat, a <= b, b <= Len(mem) + 1,
         \A c \in a..(b - 1) : mem[c] = Cpio!NUL,
         b <= Len(mem) => mem[b] # Cpio!NUL
  PROVE  Cpio!AfterPadding(a) = b
<1> DEFINE P(d) == /\ \A c \in a..(d - 1) : mem[c] = Cpio!NUL
                   /\ d <= Len(mem) => mem[d] # Cpio!NUL
<1>1. b \in a..(Len(mem) + 1) /\ P(b)  OBVIOUS
<1>2. ASSUME NEW d \in a..(Len(mem) + 1), P(d) PROVE d = b
  <2>1. CASE d < b
    <3>1. d \in a..(b - 1) /\ d <= Len(mem)  BY <2>1
    <3> QED  BY <1>2, <3>1
  <2>2. CASE b < d
    <3>1. b \in a..(d - 1) /\ b <= Len(mem)  BY <2>2
    <3> QED  BY <1>2, <3>1
  <2> QED  BY <2>1, <2>2
<1>3. (CHOOSE d \in a..(Len(mem) + 1) : P(d)) = b
  <2> HIDE DEF P
  <2> QED  BY <1>1, <1>2
<1> QED  BY <1>3 DEF Cpio!AfterPadding

(* Behind an entry comes a header, or nothing.                              *)
LEMMA NextHeader ==
  ASSUME NEW p, Laid(p), NEW k \in 1..(Len(files) + 1)
  PROVE  /\ p[k] \in Nat /\ p[k + 1] \in Nat /\ p[k] + 2 + Len(NameAt(k)) <= p[k + 1]
         /\ p[k + 1] <= Len(mem) /\ mem[p[k] + 1] = <<Len(NameAt(k)) + 1, Len(BodyAt(k))>>
         /\ p[k + 1] + 1 <= Len(mem) => Len(mem[p[k + 1] + 1]) = 2
         /\ k <= Len(files) => p[k + 1] + 1 <= Len(mem)
<1>1. Lies(mem, p[k], p[k + 1], NameAt(k), BodyAt(k)) /\ p[k + 1] <= Len(mem)  BY DEF Laid
<1>2. Len(files) \in Nat /\ Len(mem) \in Nat  BY DEF Laid
<1>3. CASE k <= Len(files)
  <2>1. k + 1 \in 1..(Len(files) + 1)  BY <1>2, <1>3
  <2>2. Lies(mem, p[k + 1], p[k + 1 + 1], NameAt(k + 1), BodyAt(k + 1)) /\ p[k + 1 + 1] <= Len(mem)
    BY <2>1 DEF Laid
  <2>3. mem[p[k + 1] + 1] = <<Len(NameAt(k + 1)) + 1, Len(BodyAt(k + 1))>>  BY <2>2 DEF Lies
  <2>4. Len(NameAt(k + 1)) \in Nat => p[k + 1] + 1 <= Len(mem)
    <3>1. PICK b, e \in Nat : /\ b = p[k + 1] /\ b + 2 + Len(NameAt(k + 1)) <= e
                              /\ e <= Len(mem)
      BY <2>2 DEF Lies
    <3>2. PICK z \in Nat : z = Len(mem) /\ e <= z  BY <1>2, <3>1
    <3>3. \A n \in Nat : b + 2 + n <= e => b + 1 <= z  BY ONLY <3>2, b \in Nat, e \in Nat
    <3> QED  BY <3>1, <3>2, <3>3
  <2>5. Len(mem[p[k + 1] + 1]) = 2  BY <2>3
  <2>6. p[k + 1] + 2 + Len(NameAt(k + 1)) <= p[k + 1 + 1]  BY <2>2 DEF Lies
  <2> QED  BY <1>1, <2>4, <2>5 DEF Lies
<1>4. CASE ~(k <= Len(files))
  <2>1. k = Len(files) + 1 /\ k + 1 = Len(files) + 2  BY <1>2, <1>4
  <2>2. p[k + 1] = Len(mem)  BY <2>1 DEF Laid
  <2> QED  BY <1>1, <1>2, <1>4, <2>2 DEF Lies
<1> QED  BY <1>3, <1>4

(* What the walk makes of the k-th entry.                                   *)
LEMMA EntryFound ==
  ASSUME Cpio!ArchiveAssumption, ArchiveFiles, Cpio!PlainBodies, NEW p, Laid(p),
         NEW k \in 1..(Len(files) + 1)
  PROVE  LET e == Cpio!EntryAt(p[k] + 1)
         IN  /\ e.name_address = p[k] + 2 /\ e.name_size = Len(NameAt(k)) + 1
             /\ e.file_size = Len(BodyAt(k))
             /\ Placed(mem, e.file_address, p[k + 1], BodyAt(k))
             /\ Cpio!AfterPadding(e.file_address + e.file_size) = p[k + 1] + 1
             /\ e \in [name_address : Nat, file_address : Nat, name_size : Nat, file_size : Nat]
<1> DEFINE b == p[k]
           z == p[k + 1]
           nl == Len(NameAt(k))
           body == BodyAt(k)
           bl == Len(body)
           e == Cpio!EntryAt(b + 1)
           after == Cpio!AfterPadding(b + 3 + nl)
<1>1. /\ b \in Nat /\ z \in Nat /\ b + 2 + nl <= z /\ z <= Len(mem) /\ Len(mem) \in Nat
      /\ mem[b + 1] = <<nl + 1, bl>>
      /\ z + 1 <= Len(mem) => Len(mem[z + 1]) = 2
  BY NextHeader DEF Laid
<1>2. nl \in Nat /\ bl \in Nat /\ body \in Seq(Memory)  BY Letters1
<1>3. body # <<>> => body[1] # Cpio!NUL
  <2>1. k \in DOMAIN files \/ body = <<>>
    <3>1. Len(files) \in Nat /\ DOMAIN files = 1..Len(files)  BY DEF ArchiveFiles
    <3> QED  BY <3>1 DEF BodyAt
  <2>2. CASE k \in DOMAIN files
    <3>1. body = files[k].body
      <4>1. DOMAIN files = 1..Len(files)  BY DEF ArchiveFiles
      <4> QED  BY <2>2, <4>1 DEF BodyAt
    <3> QED  BY <2>2, <3>1 DEF Cpio!PlainBodies
  <2> QED  BY <2>1, <2>2
<1>4. PICK f \in Nat : /\ b + 3 + nl <= f /\ Placed(mem, f, z, body)
                       /\ \A c \in (b + 3 + nl)..(f - 1) : mem[c] = Cpio!NUL
  <2>1. Lies(mem, b, z, NameAt(k), body)  BY DEF Laid
  <2> QED  BY <2>1 DEF Lies
<1>5. bl = Len(body)  OBVIOUS
<1> HIDE DEF b, z, nl, bl, body
<1>6. z + 1 <= Len(mem) => mem[z + 1] # Cpio!NUL
  <2>1. ASSUME z + 1 <= Len(mem), mem[z + 1] = Cpio!NUL PROVE FALSE
    <3>1. Len(mem[z + 1]) = 2 /\ mem[z + 1] = <<>>  BY <1>1, <2>1 DEF Cpio!NUL
    <3> QED  BY <3>1
  <2> QED  BY <2>1
<1>7. /\ e.name_address = b + 2 /\ e.name_size = nl + 1 /\ e.file_size = bl
      /\ e.file_address = after
      /\ e = [name_address |-> b + 2, file_address |-> after, name_size |-> nl + 1, file_size |-> bl]
  <2>1. b + 1 + 1 = b + 2 /\ b + 2 + (nl + 1) = b + 3 + nl
    <3>1. b \in Nat /\ nl \in Nat  BY <1>1, <1>2
    <3> QED  BY <3>1
  <2>2. mem[b + 1][1] = nl + 1 /\ mem[b + 1][2] = bl  BY <1>1
  <2> QED  BY <2>1, <2>2 DEF Cpio!EntryAt
<1> HIDE DEF e, after
<1>8. Placed(mem, after, z, body)
  <2>1. CASE body = <<>>
    <3>1. bl = 0  BY <2>1 DEF bl
    <3>2. \A c \in f..z : mem[c] = Cpio!NUL
      <4>1. f + bl = f  BY <3>1
      <4> QED  BY <1>4, <4>1 DEF Placed, bl
    <3>3. \A c \in (b + 3 + nl)..z : mem[c] = Cpio!NUL
      <4> TAKE c \in (b + 3 + nl)..z
      <4>1. c \in (b + 3 + nl)..(f - 1) \/ c \in f..z  BY <1>1, <1>2
      <4> QED  BY <4>1, <1>4, <3>2
    <3>4. after = z + 1
      <4>1. b + 3 + nl \in Nat /\ z + 1 \in Nat /\ b + 3 + nl <= z + 1 /\ z + 1 <= Len(mem) + 1
            /\ z + 1 - 1 = z
        BY <1>1, <1>2
      <4>2. Len(mem) \in Nat /\ (z + 1 <= Len(mem) => mem[z + 1] # Cpio!NUL)  BY <1>1, <1>6
      <4>3. PICK u, v : u = b + 3 + nl /\ v = z + 1  OBVIOUS
      <4>4. u \in Nat /\ v \in Nat /\ u <= v /\ v <= Len(mem) + 1  BY <4>1, <4>3
      <4>5. \A c \in u..(v - 1) : mem[c] = Cpio!NUL
        <5> TAKE c \in u..(v - 1)
        <5>1. c \in (b + 3 + nl)..z
          <6>1. v - 1 = z  BY <1>1, <4>3
          <6> QED  BY <6>1, <4>3
        <5> QED  BY <5>1, <3>3
      <4>6. Len(mem) \in Nat /\ (v <= Len(mem) => mem[v] # Cpio!NUL)  BY <4>2, <4>3
      <4>7. Cpio!AfterPadding(u) = v  BY ONLY <4>4, <4>5, <4>6, AfterIs
      <4> QED  BY <4>3, <4>7 DEF after
    <3>5. /\ z + 1 \in Nat \ {0} /\ z + 1 + Len(body) <= z + 1
          /\ \A j \in 1..Len(body) : FALSE
          /\ \A c \in (z + 1 + Len(body))..z : FALSE
      BY <1>1, <3>1 DEF bl
    <3> QED  BY <1>1, <3>4, <3>5 DEF Placed
  <2>2. CASE body # <<>>
    <3>1. bl # 0  BY <1>2, <2>2, EmptySeq DEF bl
    <3>2. /\ f \in Nat \ {0} /\ f + bl <= z + 1 /\ \A j \in 1..bl : mem[f + j - 1] = body[j]
      BY <1>4 DEF Placed, bl
    <3>3. mem[f] = body[1] /\ f <= Len(mem)
      <4>1. 1 \in 1..bl /\ f + 1 - 1 = f  BY <1>2, <3>1
      <4>2. mem[f + 1 - 1] = body[1]  BY <3>2, <4>1
      <4> QED  BY <1>1, <1>2, <3>1, <3>2, <4>1, <4>2
    <3>4. after = f
      <4>1. b + 3 + nl \in Nat /\ f <= Len(mem) + 1  BY <1>1, <1>2, <3>3
      <4>2. mem[f] # Cpio!NUL  BY <1>3, <2>2, <3>3
      <4> QED  BY <4>1, <4>2, <1>1, <1>4, AfterIs DEF after
    <3> QED  BY <1>4, <3>4
  <2> QED  BY <2>1, <2>2
<1>9. Cpio!AfterPadding(after + bl) = z + 1
  <2>1. /\ after \in Nat /\ after + bl <= z + 1
        /\ \A c \in (after + bl)..z : mem[c] = Cpio!NUL
    BY <1>8 DEF Placed, bl
  <2>2. after + bl \in Nat /\ z + 1 \in Nat /\ z + 1 <= Len(mem) + 1 /\ z + 1 - 1 = z
    BY <1>1, <1>2, <2>1
  <2> QED  BY <1>1, <1>6, <2>1, <2>2, AfterIs
<1>10. after \in Nat /\ b + 2 \in Nat /\ nl + 1 \in Nat /\ bl \in Nat
  BY <1>1, <1>2, <1>8 DEF Placed
<1>11. e \in [name_address : Nat, file_address : Nat, name_size : Nat, file_size : Nat]
  BY <1>7, <1>10
<1> QED  BY <1>7, <1>8, <1>9, <1>11 DEF e, b, z, nl, bl, body

(* The text of a file's contents is not the trailer's name.                 *)
LEMMA NotTrailer ==
  ASSUME Cpio!ArchiveAssumption, ArchiveFiles, Cpio!PlainBodies, NEW p, Laid(p),
         NEW i \in 1..Len(files), NEW f, Placed(mem, f, p[i + 1], files[i].body)
  PROVE  ~Cpio!Begins(f, Trailer)
<1> SUFFICES ASSUME Cpio!Begins(f, Trailer) PROVE FALSE  OBVIOUS
<1> DEFINE n == Len(files)
           body == BodyAt(i)
           bl == Len(body)
<1>1. n \in Nat /\ DOMAIN files = 1..n  BY DEF ArchiveFiles
<1>2. i \in 1..(n + 1) /\ body = files[i].body  BY <1>1 DEF BodyAt
<1>3. /\ body \in Seq(Memory) /\ bl \in Nat /\ DOMAIN body = 1..bl
  BY <1>2, Letters1
<1>4. /\ Trailer \in Seq(Memory) /\ Len(Trailer) \in Nat /\ DOMAIN Trailer = 1..Len(Trailer)
      /\ \A j \in 1..Len(Trailer) : Len(Trailer[j]) = 1
  <2>1. n + 1 \in 1..(n + 1) /\ NameAt(n + 1) = Trailer  BY <1>1 DEF NameAt
  <2> QED  BY <2>1, Letters1
<1>5. PICK z \in Nat : z = p[i + 1] /\ z + 1 <= Len(mem) /\ Len(mem[z + 1]) = 2
  <2>1. i <= Len(files)  BY <1>1
  <2>2. p[i + 1] \in Nat /\ p[i + 1] + 1 <= Len(mem) /\ Len(mem[p[i + 1] + 1]) = 2
    BY <1>2, <2>1, NextHeader
  <2> QED  BY <2>2
<1>6. ~Cpio!IsPrefix(Trailer, body)  BY <1>1, <1>2 DEF Cpio!PlainBodies
<1>7. /\ f \in Nat \ {0} /\ f + bl <= z + 1
      /\ \A j \in 1..bl : mem[f + j - 1] = body[j]
      /\ \A c \in (f + bl)..z : mem[c] = Cpio!NUL
  BY <1>2, <1>5 DEF Placed
<1>8. \A j \in 1..Len(Trailer) : mem[f + j - 1] = Trailer[j]  BY <1>4 DEF Cpio!Begins
<1>9. CASE bl < Len(Trailer)
  <2>1. bl + 1 \in 1..Len(Trailer) /\ f + (bl + 1) - 1 = f + bl  BY <1>3, <1>4, <1>7, <1>9
  <2>2. mem[f + bl] = Trailer[bl + 1]  BY <1>8, <2>1
  <2>3. PICK c : c = mem[f + bl] /\ Len(c) = 1  BY <1>4, <2>1, <2>2
  <2>4. f + bl \in (f + bl)..z \/ f + bl = z + 1  BY <1>3, <1>5, <1>7
  <2>5. CASE f + bl \in (f + bl)..z
    <3>1. c = <<>>  BY <1>7, <2>3, <2>5 DEF Cpio!NUL
    <3> QED  BY <2>3, <3>1
  <2>6. CASE f + bl = z + 1
    <3>1. c = mem[z + 1]  BY <2>3, <2>6
    <3>2. Len(c) = 2  BY <1>5, <3>1
    <3>3. \A l : l = 1 /\ l = 2 => FALSE  OBVIOUS
    <3> QED  BY <2>3, <3>2, <3>3
  <2> QED  BY <2>4, <2>5, <2>6
<1>10. CASE ~(bl < Len(Trailer))
  <2>1. Len(Trailer) <= bl  BY <1>3, <1>4, <1>10
  <2>2. \A j \in 1..Len(Trailer) : Trailer[j] = body[j]
    <3> TAKE j \in 1..Len(Trailer)
    <3>1. j \in 1..bl  BY <1>3, <1>4, <2>1
    <3> QED  BY <3>1, <1>7, <1>8
  <2>3. Cpio!IsPrefix(Trailer, body)  BY <1>3, <1>4, <2>1, <2>2, PrefixMeans DEF bl
  <2> QED  BY <2>3, <1>6
<1> QED  BY <1>9, <1>10

(* A name is found where a file's name begins with it.                      *)
LEMMA NameBegins ==
  ASSUME Cpio!ArchiveAssumption, ArchiveFiles, NEW p, Laid(p), NEW i \in 1..Len(files),
         NEW name \in Names \cup {Trailer}
  PROVE  /\ Cpio!Begins(p[i] + 2, name) <=> Cpio!IsPrefix(name, files[i].name)
         /\ Cpio!Begins(p[i] + 2, Append(files[i].name, Cpio!NUL))
<1> DEFINE n == Len(files)
           own == NameAt(i)
           nl == Len(own)
           b == p[i]
<1>1. n \in Nat /\ DOMAIN files = 1..n  BY DEF ArchiveFiles
<1>2. i \in 1..(n + 1) /\ own = files[i].name  BY <1>1 DEF NameAt
<1>3. own \in Seq(Memory) /\ nl \in Nat  BY <1>2, Letters1
<1>4. /\ name \in Seq(Memory) /\ Len(name) \in Nat /\ DOMAIN name = 1..Len(name)
      /\ \A j \in 1..Len(name) : Len(name[j]) = 1
  <2>1. name \in Seq(Seq(STRING)) /\ \A j \in DOMAIN name : Len(name[j]) = 1
    BY DEF Cpio!ArchiveAssumption
  <2>2. name \in Seq(Memory) /\ DOMAIN name = 1..Len(name) /\ Len(name) \in Nat
    BY <2>1 DEF Memory
  <2> QED  BY <2>1, <2>2
<1>5. /\ b \in Nat /\ b + 2 + nl <= Len(mem) /\ DOMAIN mem = 1..Len(mem) /\ Len(mem) \in Nat
      /\ \A j \in 1..nl : mem[b + 1 + j] = own[j]
      /\ mem[b + 2 + nl] = Cpio!NUL
  <2>1. Lies(mem, b, p[i + 1], own, BodyAt(i)) /\ p[i + 1] <= Len(mem)  BY <1>2 DEF Laid
  <2>2. p[i + 1] \in Nat /\ DOMAIN mem = 1..Len(mem) /\ Len(mem) \in Nat  BY <2>1 DEF Lies, Laid
  <2> QED  BY <1>3, <2>1, <2>2 DEF Lies
<1> HIDE DEF own, nl, b
<1>6. ASSUME NEW j \in 1..nl
      PROVE  b + 2 + j - 1 \in DOMAIN mem /\ mem[b + 2 + j - 1] = own[j]
  <2>1. b \in Nat /\ b + 2 + nl <= Len(mem) /\ Len(mem) \in Nat  BY <1>5
  <2>2. b + 2 + j - 1 = b + 1 + j  BY <1>3, <2>1
  <2>3. b + 1 + j \in 1..Len(mem)  BY <1>3, <2>1
  <2> QED  BY <2>2, <2>3, <1>5
<1>7. b + 2 + (nl + 1) - 1 = b + 2 + nl /\ b + 2 + nl \in DOMAIN mem  BY <1>3, <1>5
<1>8. ASSUME Cpio!Begins(b + 2, name) PROVE Cpio!IsPrefix(name, own)
  <2>1. \A j \in 1..Len(name) : mem[b + 2 + j - 1] = name[j]  BY <1>4, <1>8 DEF Cpio!Begins
  <2>2. Len(name) <= nl
    <3>1. SUFFICES ASSUME nl < Len(name) PROVE FALSE  BY <1>3, <1>4
    <3>2. nl + 1 \in 1..Len(name)  BY <1>3, <1>4, <3>1
    <3>3. name[nl + 1] = <<>>  BY <1>5, <1>7, <2>1, <3>2 DEF Cpio!NUL
    <3>4. Len(name[nl + 1]) = 0  BY <3>3
    <3> QED  BY <1>4, <3>2, <3>4
  <2>3. \A j \in 1..Len(name) : name[j] = own[j]
    <3> TAKE j \in 1..Len(name)
    <3>1. j \in 1..nl  BY <1>3, <1>4, <2>2
    <3> QED  BY <3>1, <1>6, <2>1
  <2> QED  BY <1>3, <1>4, <2>2, <2>3, PrefixMeans DEF nl
<1>9. ASSUME Cpio!IsPrefix(name, own) PROVE Cpio!Begins(b + 2, name)
  <2>1. Len(name) <= nl /\ \A j \in 1..Len(name) : name[j] = own[j]
    BY <1>3, <1>4, <1>9, PrefixMeans DEF nl
  <2>2. ASSUME NEW j \in 1..Len(name)
        PROVE  b + 2 + j - 1 \in DOMAIN mem /\ mem[b + 2 + j - 1] = name[j]
    <3>1. j \in 1..nl  BY <1>3, <1>4, <2>1
    <3> QED  BY <3>1, <1>6, <2>1
  <2> QED  BY <1>4, <2>2 DEF Cpio!Begins
<1>10. Cpio!Begins(b + 2, Append(own, Cpio!NUL))
  <2> DEFINE text == Append(own, Cpio!NUL)
  <2>1. /\ DOMAIN text = 1..(nl + 1) /\ text[nl + 1] = Cpio!NUL
        /\ \A j \in 1..nl : text[j] = own[j]
    <3>1. Cpio!NUL \in Memory
      <4>1. <<>> \in Seq(STRING)  BY EmptySeq
      <4> QED  BY <4>1 DEF Memory, Cpio!NUL
    <3>2. /\ text \in Seq(Memory) /\ Len(text) = Len(own) + 1 /\ text[Len(own) + 1] = Cpio!NUL
          /\ \A j \in 1..Len(own) : text[j] = own[j]
      BY <1>3, <3>1, AppendProperties
    <3> QED  BY <3>2 DEF nl
  <2> HIDE DEF text
  <2>2. ASSUME NEW j \in 1..(nl + 1)
        PROVE  b + 2 + j - 1 \in DOMAIN mem /\ mem[b + 2 + j - 1] = text[j]
    <3>1. j \in 1..nl \/ j = nl + 1  BY <1>3
    <3> QED  BY <3>1, <1>5, <1>6, <1>7, <2>1
  <2> QED  BY <2>1, <2>2 DEF Cpio!Begins, text
<1> QED  BY <1>2, <1>8, <1>9, <1>10 DEF b

(* The walk: the entries it has made, and where it stands.                  *)
Headers == [name_address : Nat, file_address : Nat, name_size : Nat, file_size : Nat]
EntryInv(p, i) ==
  /\ header[i].name_address = p[i] + 2 /\ header[i].name_size = Len(files[i].name) + 1
  /\ header[i].file_size = Len(files[i].body)
  /\ Placed(mem, header[i].file_address, p[i + 1], files[i].body)
WalkInv(p) ==
  /\ Laid(p)
  /\ header \in Seq(Headers) /\ Len(header) <= Len(files) + 1
  /\ Len(files) > 0 => Len(header) <= Len(files)
  /\ \A i \in 1..Len(header) : i <= Len(files) => EntryInv(p, i)
  /\ cur_address = p[Len(header) + 1] + 1
  /\ file_address = IF Len(header) = 0 THEN 0 ELSE header[Len(header)].file_address
  /\ phase \in {"walk", "done", "lost"} /\ (phase # "done" => found[1] = "none")

(* At the k-th entry: whether the walk ends, and whether it may go on.      *)
LEMMA WalkStands ==
  ASSUME Cpio!ArchiveAssumption, ArchiveFiles, Cpio!PlainBodies, NEW p, WalkInv(p),
         NEW k, k = Len(header) + 1
  PROVE  /\ k \in Nat \ {0}
         /\ Cpio!OnHeader <=> k <= Len(files) + 1
         /\ k <= Len(files) + 1 => mem[cur_address][1] = Len(NameAt(k)) + 1
         /\ Cpio!OnHeader => (Cpio!AtEnd <=> Len(NameAt(k)) = Len(Trailer))
         /\ k # 1 /\ k <= Len(files) + 1 => file_address # 0
<1> DEFINE n == Len(files)
<1>1. n \in Nat /\ Len(mem) \in Nat /\ DOMAIN files = 1..n  BY DEF ArchiveFiles, WalkInv, Laid
<1>2. Len(header) \in Nat /\ k \in Nat \ {0} /\ k <= n + 2  BY <1>1 DEF WalkInv
<1>3. Laid(p) /\ cur_address = p[k] + 1  BY DEF WalkInv
<1>4. ASSUME k <= n + 1
      PROVE  /\ p[k] \in Nat /\ cur_address <= Len(mem) /\ Len(mem[cur_address]) = 2
             /\ mem[cur_address][1] = Len(NameAt(k)) + 1
             /\ Len(NameAt(k)) \in Nat
  <2>1. k \in 1..(n + 1)  BY <1>1, <1>2, <1>4
  <2>2. /\ p[k] \in Nat /\ p[k + 1] \in Nat /\ p[k] + 2 + Len(NameAt(k)) <= p[k + 1]
        /\ p[k + 1] <= Len(mem) /\ mem[p[k] + 1] = <<Len(NameAt(k)) + 1, Len(BodyAt(k))>>
    BY <1>3, <2>1, NextHeader
  <2>3. Len(NameAt(k)) \in Nat  BY <2>1, Letters1
  <2>4. p[k] + 1 <= Len(mem)  BY <1>1, <2>2, <2>3
  <2>5. Len(mem[p[k] + 1]) = 2 /\ mem[p[k] + 1][1] = Len(NameAt(k)) + 1  BY <2>2
  <2> QED  BY <1>3, <2>2, <2>3, <2>4, <2>5
<1>5. ASSUME ~(k <= n + 1) PROVE ~Cpio!OnHeader
  <2>1. k = n + 2  BY <1>1, <1>2, <1>5
  <2>2. p[k] = Len(mem)  BY <1>3, <2>1 DEF Laid
  <2>3. ~(cur_address <= Len(mem))  BY <1>1, <1>3, <2>2
  <2> QED  BY <2>3 DEF Cpio!OnHeader
<1>6. Cpio!OnHeader <=> k <= n + 1  BY <1>4, <1>5 DEF Cpio!OnHeader
<1>7. ASSUME k # 1, k <= n + 1
      PROVE  file_address # 0 /\ ~Cpio!Begins(file_address, Trailer)
  <2>1. Len(header) # 0 /\ Len(header) \in 1..Len(header) /\ Len(header) \in 1..n
    BY <1>1, <1>2, <1>7
  <2>2. EntryInv(p, Len(header))  BY <2>1 DEF WalkInv
  <2>3. file_address = header[Len(header)].file_address  BY <2>1 DEF WalkInv
  <2>4. Placed(mem, file_address, p[Len(header) + 1], files[Len(header)].body)
    BY <2>2, <2>3 DEF EntryInv
  <2>5. file_address # 0  BY <2>4 DEF Placed
  <2> QED  BY <1>3, <2>1, <2>4, <2>5, NotTrailer
<1>8. k = 1 => file_address = 0  BY <1>2 DEF WalkInv
<1>9. ASSUME k <= n + 1 PROVE Cpio!AtEnd <=> Len(NameAt(k)) = Len(Trailer)
  <2>1. n + 1 \in 1..(n + 1) /\ NameAt(n + 1) = Trailer  BY <1>1 DEF NameAt
  <2>2. Len(Trailer) \in Nat  BY <2>1, Letters1
  <2>3. file_address # 0 => ~Cpio!Begins(file_address, Trailer)  BY <1>7, <1>8, <1>9
  <2>4. Cpio!LengthOf(mem[cur_address][1]) <=> Len(NameAt(k)) = Len(Trailer)
    BY <1>4, <1>9, <2>2 DEF Cpio!LengthOf
  <2> QED  BY <2>3, <2>4 DEF Cpio!AtEnd
<1> QED  BY <1>2, <1>4, <1>6, <1>7, <1>9

LEMMA WalkStarts ==
  ASSUME Cpio!ArchiveAssumption, Cpio!Init
  PROVE  ArchiveFiles /\ \E p : WalkInv(p)
<1>1. PICK m \in 0..MaxFiles : files \in [1..m -> GivenFiles]
  BY DEF Cpio!Init, GivenFiles
<1>2. m \in Nat  BY DEF Cpio!ArchiveAssumption
<1>3. ArchiveFiles  BY <1>1, <1>2 DEF ArchiveFiles
<1>4. PICK p : Laid(p)  BY <1>3, ArchiveLaid DEF Cpio!Init
<1>5. header = <<>> /\ Len(header) = 0 /\ header \in Seq(Headers)  BY DEF Cpio!Init
<1>6. p[Len(header) + 1] = 0  BY <1>4, <1>5 DEF Laid
<1>7. cur_address = 1 /\ file_address = 0 /\ phase = "walk" /\ found[1] = "none"
  BY DEF Cpio!Init
<1>8. Len(files) \in Nat  BY <1>4 DEF Laid
<1>9. \A i \in 1..Len(header) : FALSE  BY <1>5
<1>10. WalkInv(p)  BY <1>4, <1>5, <1>6, <1>7, <1>8, <1>9 DEF WalkInv
<1> QED  BY <1>3, <1>10

(* Every operation leaves the archive alone.                                *)
LEMMA WalkSteps ==
  ASSUME Cpio!ArchiveAssumption, ArchiveFiles, Cpio!PlainBodies, NEW p, WalkInv(p),
         [Cpio!Next]_ArchiveVars
  PROVE  ArchiveFiles' /\ Cpio!PlainBodies' /\ WalkInv(p)'
<1>1. UNCHANGED <<files, mem>>
  BY DEF Cpio!Next, Cpio!parse_entry, Cpio!parse_end, Cpio!lost, Cpio!ls, Cpio!load_file, Cpio!cat,
         ArchiveVars
<1>2. ArchiveFiles' /\ Cpio!PlainBodies' /\ Laid(p)'
  <2>1. ArchiveFiles' /\ Cpio!PlainBodies'  BY <1>1 DEF ArchiveFiles, Cpio!PlainBodies
  <2>2. \A k : NameAt(k)' = NameAt(k) /\ BodyAt(k)' = BodyAt(k)  BY <1>1 DEF NameAt, BodyAt
  <2>3. Laid(p)  BY DEF WalkInv
  <2>4. Laid(p)'  BY <1>1, <2>2, <2>3 DEF Laid
  <2> QED  BY <2>1, <2>4
<1>3. CASE Cpio!parse_entry
  <2> DEFINE n == Len(files)
             k == Len(header) + 1
             e == Cpio!EntryAt(cur_address)
  <2>1. /\ phase = "walk" /\ Cpio!OnHeader /\ Cpio!MayGoOn
        /\ header' = Append(header, e) /\ file_address' = e.file_address
        /\ cur_address' = Cpio!AfterPadding(e.file_address + e.file_size)
        /\ phase' = phase /\ found' = found
    BY <1>3 DEF Cpio!parse_entry
  <2>2. /\ k \in Nat \ {0} /\ k <= n + 1
        /\ Cpio!AtEnd <=> Len(NameAt(k)) = Len(Trailer)
        /\ k # 1 => file_address # 0
    BY <2>1, WalkStands
  <2>3. n \in Nat /\ header \in Seq(Headers) /\ Len(header) \in Nat  BY DEF WalkInv, ArchiveFiles
  <2>4. n > 0 => k <= n
    <3>1. SUFFICES ASSUME n > 0, k = n + 1 PROVE FALSE  BY <2>2, <2>3
    <3>2. NameAt(k) = Trailer  BY <2>3, <3>1 DEF NameAt
    <3>3. Cpio!AtEnd /\ file_address # 0
      <4>1. Cpio!AtEnd  BY <2>2, <3>2
      <4>2. k # 1  BY <2>3, <3>1
      <4> QED  BY <2>2, <4>1, <4>2
    <3> QED  BY <2>1, <3>3 DEF Cpio!MayGoOn
  <2>5. k \in 1..(n + 1) /\ cur_address = p[k] + 1 /\ Laid(p)  BY <2>2, <2>3 DEF WalkInv
  <2>6. /\ e.name_address = p[k] + 2 /\ e.name_size = Len(NameAt(k)) + 1
        /\ e.file_size = Len(BodyAt(k))
        /\ Placed(mem, e.file_address, p[k + 1], BodyAt(k))
        /\ Cpio!AfterPadding(e.file_address + e.file_size) = p[k + 1] + 1
        /\ e \in Headers
    BY <2>5, EntryFound DEF Headers
  <2> HIDE DEF e
  <2>7. /\ header' \in Seq(Headers) /\ Len(header') = k /\ header'[k] = e
        /\ \A i \in 1..Len(header) : header'[i] = header[i]
    BY <2>1, <2>3, <2>6, AppendProperties
  <2>8. ASSUME NEW i \in 1..Len(header'), i <= n PROVE EntryInv(p, i)'
    <3>1. i \in 1..Len(header) \/ i = k  BY <2>3, <2>7
    <3>2. CASE i \in 1..Len(header)
      <4>1. EntryInv(p, i)  BY <2>8, <3>2 DEF WalkInv
      <4>2. header'[i] = header[i]  BY <2>7, <3>2
      <4> QED  BY <1>1, <4>1, <4>2 DEF EntryInv
    <3>3. CASE i = k
      <4>1. NameAt(k) = files[k].name /\ BodyAt(k) = files[k].body  BY <2>8, <3>3 DEF NameAt, BodyAt
      <4> QED  BY <1>1, <2>6, <2>7, <3>3, <4>1 DEF EntryInv
    <3> QED  BY <3>1, <3>2, <3>3
  <2>9. cur_address' = p[Len(header') + 1] + 1  BY <2>1, <2>6, <2>7
  <2>10. /\ Len(header') <= n + 1 /\ (n > 0 => Len(header') <= n)
         /\ file_address' = IF Len(header') = 0 THEN 0 ELSE header'[Len(header')].file_address
    BY <2>1, <2>2, <2>4, <2>7
  <2>11. phase' \in {"walk", "done", "lost"} /\ (phase' # "done" => found'[1] = "none")
    BY <2>1 DEF WalkInv
  <2>12. Len(files') = n  BY <1>1
  <2> HIDE DEF n, k
  <2> QED  BY <1>2, <2>7, <2>8, <2>9, <2>10, <2>11, <2>12 DEF WalkInv, n
<1>4. CASE ~Cpio!parse_entry
  <2>1. /\ UNCHANGED <<header, cur_address, file_address>>
        /\ phase' \in {"walk", "done", "lost"} /\ (phase' # "done" => found'[1] = "none")
    BY <1>4 DEF WalkInv, Cpio!Next, Cpio!parse_end, Cpio!lost, Cpio!ls, Cpio!load_file, Cpio!cat,
         ArchiveVars
  <2>2. \A i : EntryInv(p, i) => EntryInv(p, i)'  BY <1>1, <2>1 DEF EntryInv
  <2> QED  BY <1>1, <1>2, <2>1, <2>2 DEF WalkInv
<1> QED  BY <1>2, <1>3, <1>4

(* Each entry made is the file's.                                           *)
LEMMA EntryIs ==
  ASSUME Cpio!ArchiveAssumption, ArchiveFiles, Cpio!PlainBodies, NEW p, WalkInv(p),
         NEW i \in DOMAIN header, i <= Len(files)
  PROVE  /\ i \in 1..Len(files) /\ i \in DOMAIN files
         /\ header[i].name_address = p[i] + 2 /\ header[i].name_size = Len(files[i].name) + 1
         /\ header[i].file_size = Len(files[i].body)
         /\ Placed(mem, header[i].file_address, p[i + 1], files[i].body)
         /\ Cpio!Begins(header[i].file_address, files[i].body)
<1>1. /\ Len(files) \in Nat /\ DOMAIN files = 1..Len(files) /\ DOMAIN header = 1..Len(header)
      /\ Len(header) \in Nat /\ i \in 1..Len(files)
  BY DEF ArchiveFiles, WalkInv
<1>2. EntryInv(p, i)  BY <1>1 DEF WalkInv
<1>3. i \in 1..(Len(files) + 1) /\ BodyAt(i) = files[i].body  BY <1>1 DEF BodyAt
<1>4. Len(files[i].body) \in Nat /\ DOMAIN files[i].body = 1..Len(files[i].body)
  BY <1>3, Letters1
<1>5. p[i + 1] \in Nat /\ p[i + 1] <= Len(mem) /\ Len(mem) \in Nat /\ DOMAIN mem = 1..Len(mem)
  BY <1>3, NextHeader DEF WalkInv, Laid
<1> DEFINE f == header[i].file_address
<1>6. /\ f \in Nat \ {0} /\ f + Len(files[i].body) <= p[i + 1] + 1
      /\ \A j \in 1..Len(files[i].body) : mem[f + j - 1] = files[i].body[j]
  BY <1>2 DEF EntryInv, Placed
<1> HIDE DEF f
<1>7. Cpio!Begins(f, files[i].body)
  <2>1. ASSUME NEW j \in 1..Len(files[i].body) PROVE f + j - 1 \in DOMAIN mem
    <3>1. PICK l : l = Len(files[i].body)  OBVIOUS
    <3>2. PICK e : e = p[i + 1]  OBVIOUS
    <3>3. PICK m : m = Len(mem)  OBVIOUS
    <3>4. f \in Nat \ {0} /\ l \in Nat /\ e \in Nat /\ m \in Nat
      BY <1>4, <1>5, <1>6, <3>1, <3>2, <3>3
    <3>5. f + l <= e + 1 /\ e <= m /\ j \in 1..l  BY <1>5, <1>6, <3>1, <3>2, <3>3
    <3>6. f + j - 1 \in 1..m  BY ONLY <3>4, <3>5
    <3> QED  BY <1>5, <3>3, <3>6
  <2> QED  BY <1>4, <1>6, <2>1 DEF Cpio!Begins
<1> QED  BY <1>1, <1>2, <1>7 DEF EntryInv, f

LEMMA NothingIsInvented ==
  ASSUME Cpio!ArchiveAssumption, ArchiveFiles, NEW p, Cpio!PlainBodies => WalkInv(p)
  PROVE  Cpio!NothingInvented
<1> SUFFICES ASSUME Cpio!PlainBodies
    PROVE  /\ Len(header) <= Len(files) + 1
           /\ \A i \in DOMAIN header \cap DOMAIN files :
                /\ Cpio!Begins(header[i].name_address, Append(files[i].name, Cpio!NUL))
                /\ Cpio!Begins(header[i].file_address, files[i].body)
                /\ header[i].file_size = Len(files[i].body)
           /\ Len(header) <= Len(files) =>
                cur_address = 1 + Len(Cpio!Entries(SubSeq(files, 1, Len(header))))
  BY DEF Cpio!NothingInvented
<1>1. WalkInv(p) /\ Laid(p)  BY DEF WalkInv
<1>2. /\ Len(files) \in Nat /\ DOMAIN files = 1..Len(files) /\ DOMAIN header = 1..Len(header)
      /\ Len(header) \in Nat
  BY <1>1 DEF ArchiveFiles, WalkInv
<1>3. ASSUME NEW i \in DOMAIN header \cap DOMAIN files
      PROVE  /\ Cpio!Begins(header[i].name_address, Append(files[i].name, Cpio!NUL))
             /\ Cpio!Begins(header[i].file_address, files[i].body)
             /\ header[i].file_size = Len(files[i].body)
  <2>1. i \in DOMAIN header /\ i \in 1..Len(files) /\ i <= Len(files)  BY <1>2
  <2>2. Trailer \in Names \cup {Trailer}  OBVIOUS
  <2>3. Cpio!Begins(p[i] + 2, Append(files[i].name, Cpio!NUL))  BY <1>1, <2>1, <2>2, NameBegins
  <2> QED  BY <1>1, <2>1, <2>3, EntryIs
<1>4. ASSUME Len(header) <= Len(files)
      PROVE  cur_address = 1 + Len(Cpio!Entries(SubSeq(files, 1, Len(header))))
  <2>1. Len(header) + 1 \in 1..(Len(files) + 1) /\ Len(header) + 1 - 1 = Len(header)
    BY <1>2, <1>4
  <2>2. Len(Cpio!Entries(SubSeq(files, 1, Len(header)))) = p[Len(header) + 1]
    BY <1>1, <2>1 DEF Laid
  <2>3. cur_address = p[Len(header) + 1] + 1  BY <1>1 DEF WalkInv
  <2>4. p[Len(header) + 1] \in Nat  BY <1>1, <2>1, NextHeader
  <2> QED  BY <2>2, <2>3, <2>4
<1> QED  BY <1>1, <1>3, <1>4 DEF WalkInv

LEMMA NoneMissed ==
  ASSUME Cpio!ArchiveAssumption, ArchiveFiles, Cpio!PlainBodies, NEW p, WalkInv(p),
         Cpio!AllFilesFound, [Cpio!Next]_ArchiveVars
  PROVE  Cpio!AllFilesFound'
<1> SUFFICES ASSUME (Cpio!PlainNames /\ Len(files) \in 1..ArraySize)'
             PROVE  (phase # "lost" /\ (phase = "done" => Len(header) = Len(files)))'
  BY DEF Cpio!AllFilesFound
<1>1. UNCHANGED files
  BY DEF Cpio!Next, Cpio!parse_entry, Cpio!parse_end, Cpio!lost, Cpio!ls, Cpio!load_file, Cpio!cat,
         ArchiveVars
<1>2. Cpio!PlainNames /\ Len(files) \in 1..ArraySize  BY <1>1 DEF Cpio!PlainNames
<1>3. phase # "lost" /\ (phase = "done" => Len(header) = Len(files))
  BY <1>2 DEF Cpio!AllFilesFound
<1> DEFINE n == Len(files)
           k == Len(header) + 1
<1>4. /\ n \in Nat /\ DOMAIN files = 1..n /\ Len(header) \in Nat /\ Len(header) <= n
      /\ ArraySize \in Nat
  BY <1>2 DEF ArchiveFiles, WalkInv, Cpio!ArchiveAssumption
<1>5. /\ Cpio!OnHeader /\ (Cpio!AtEnd <=> Len(NameAt(k)) = Len(Trailer))
      /\ k # 1 => file_address # 0
  BY <1>4, WalkStands
<1>6. Cpio!AtEnd <=> k = n + 1
  <2>1. k <= n => Len(NameAt(k)) # Len(Trailer)
    BY <1>2, <1>4 DEF NameAt, Cpio!PlainNames
  <2>2. k = n + 1 => NameAt(k) = Trailer  BY <1>4 DEF NameAt
  <2> QED  BY <1>4, <1>5, <2>1, <2>2
<1>7. CASE Cpio!parse_end  BY <1>1, <1>4, <1>6, <1>7 DEF Cpio!parse_end
<1>8. CASE Cpio!lost
  <2>1. Cpio!MayGoOn /\ Len(header) = ArraySize  BY <1>5, <1>8 DEF Cpio!lost
  <2>2. k = n + 1 /\ k # 1  BY <1>2, <1>4, <2>1
  <2> QED  BY <1>5, <1>6, <2>1, <2>2 DEF Cpio!MayGoOn
<1>9. CASE ~(Cpio!parse_end \/ Cpio!lost)
  <2>1. phase' = phase /\ (phase = "done" => header' = header)
    BY <1>9 DEF Cpio!Next, Cpio!parse_entry, Cpio!ls, Cpio!load_file, Cpio!cat, ArchiveVars
  <2> QED  BY <1>1, <1>3, <2>1
<1> QED  BY <1>7, <1>8, <1>9

(* What get_content copies: up to the first NUL, or to the size given.      *)
LEMMA ContentIs ==
  ASSUME NEW a \in Nat, NEW size \in Nat, NEW n \in 0..size,
         \A k \in 0..(n - 1) : a + k \in DOMAIN mem /\ mem[a + k] # Cpio!NUL,
         n < size => (a + n \in DOMAIN mem => mem[a + n] = Cpio!NUL)
  PROVE  Cpio!get_content(a, size) = [k \in 1..n |-> mem[a + k - 1]]
<1> DEFINE P(m) == /\ \A k \in 0..(m - 1) : Cpio!CellAt(a + k) # Cpio!NUL
                   /\ m < size => Cpio!CellAt(a + m) = Cpio!NUL
<1>1. P(n)  BY DEF Cpio!CellAt
<1>2. ASSUME NEW m \in 0..size, P(m) PROVE m = n
  <2>1. CASE m < n
    <3>1. m \in 0..(n - 1) /\ m < size  BY <2>1
    <3> QED  BY <1>1, <1>2, <3>1
  <2>2. CASE n < m
    <3>1. n \in 0..(m - 1) /\ n < size  BY <2>2
    <3> QED  BY <1>1, <1>2, <3>1
  <2> QED  BY <2>1, <2>2
<1> DEFINE c == CHOOSE m \in 0..size : P(m)
<1>3. Cpio!get_content(a, size) = [k \in 1..c |-> mem[a + k - 1]]  BY DEF Cpio!get_content
<1>4. c = n
  <2> HIDE DEF P
  <2> QED  BY <1>1, <1>2
<1> HIDE DEF c
<1> QED  BY <1>3, <1>4

LEMMA NameShown ==
  ASSUME Cpio!ArchiveAssumption, ArchiveFiles, Cpio!PlainBodies, NEW p, WalkInv(p),
         NEW i \in DOMAIN header, i <= Len(files)
  PROVE  Cpio!NameOf(i) = files[i].name
<1> DEFINE own == NameAt(i)
           nl == Len(own)
           a == p[i] + 2
<1>1. /\ i \in 1..Len(files) /\ header[i].name_address = a
      /\ header[i].name_size = Len(files[i].name) + 1
  BY EntryIs
<1>2. i \in 1..(Len(files) + 1) /\ own = files[i].name
  <2>1. Len(files) \in Nat  BY DEF ArchiveFiles
  <2> QED  BY <1>1, <2>1 DEF NameAt
<1>3. own \in Seq(Memory) /\ nl \in Nat /\ \A j \in 1..nl : Len(own[j]) = 1
  BY <1>2, Letters1
<1>4. /\ p[i] \in Nat /\ p[i] + 2 + nl <= Len(mem) /\ DOMAIN mem = 1..Len(mem) /\ Len(mem) \in Nat
      /\ \A j \in 1..nl : mem[p[i] + 1 + j] = own[j]
      /\ mem[p[i] + 2 + nl] = Cpio!NUL
  <2>1. Lies(mem, p[i], p[i + 1], own, BodyAt(i)) /\ p[i + 1] <= Len(mem)
    BY <1>2 DEF WalkInv, Laid
  <2>2. p[i + 1] \in Nat /\ DOMAIN mem = 1..Len(mem) /\ Len(mem) \in Nat
    BY <2>1 DEF Lies, WalkInv, Laid
  <2> QED  BY <1>3, <2>1, <2>2 DEF Lies
<1>5. ASSUME NEW k \in 1..nl
      PROVE  /\ a + k - 1 \in DOMAIN mem /\ mem[a + k - 1] = own[k] /\ own[k] # Cpio!NUL
  <2>1. p[i] \in Nat /\ p[i] + 2 + nl <= Len(mem) /\ Len(mem) \in Nat  BY <1>4
  <2>2. a + k - 1 = p[i] + 1 + k /\ p[i] + 1 + k \in 1..Len(mem)
    <3>1. p[i] + 2 + k - 1 = p[i] + 1 + k  BY <1>3, <2>1
    <3>2. p[i] + 1 + k \in 1..Len(mem)  BY <1>3, <2>1
    <3> QED  BY <3>1, <3>2
  <2>3. own[k] = <<>> => Len(own[k]) = 0  OBVIOUS
  <2>4. own[k] # Cpio!NUL  BY <1>3, <2>3 DEF Cpio!NUL
  <2> QED  BY <1>4, <2>2, <2>4
<1> HIDE DEF own, nl, a
<1>6. a \in Nat /\ nl + 1 \in Nat /\ nl \in 0..(nl + 1)  BY <1>3, <1>4 DEF a
<1>7. ASSUME NEW k \in 0..(nl - 1) PROVE a + k \in DOMAIN mem /\ mem[a + k] # Cpio!NUL
  <2>1. k + 1 \in 1..nl /\ a + (k + 1) - 1 = a + k  BY <1>3, <1>6
  <2>2. a + (k + 1) - 1 \in DOMAIN mem /\ mem[a + (k + 1) - 1] # Cpio!NUL  BY <1>5, <2>1
  <2> QED  BY <2>1, <2>2
<1>8. mem[a + nl] = Cpio!NUL  BY <1>4 DEF a
<1>9. Cpio!get_content(a, nl + 1) = [k \in 1..nl |-> mem[a + k - 1]]
  BY <1>6, <1>7, <1>8, ContentIs
<1>10. own = [k \in 1..nl |-> own[k]]  BY <1>3 DEF nl
<1>11. Cpio!get_content(a, nl + 1) = own  BY <1>5, <1>9, <1>10
<1> QED  BY <1>1, <1>2, <1>11 DEF Cpio!NameOf, nl

LEMMA BodyShown ==
  ASSUME Cpio!ArchiveAssumption, ArchiveFiles, Cpio!PlainBodies, NEW p, WalkInv(p),
         NEW i \in DOMAIN header, i <= Len(files)
  PROVE  LET r == Cpio!get_content(header[i].file_address, header[i].file_size)
         IN  /\ Cpio!IsPrefix(r, files[i].body)
             /\ r = files[i].body \/ files[i].body[Len(r) + 1] = Cpio!NUL
<1> DEFINE body == BodyAt(i)
           bl == Len(body)
           f == header[i].file_address
<1>1. /\ i \in 1..Len(files) /\ header[i].file_size = Len(files[i].body)
      /\ Placed(mem, f, p[i + 1], files[i].body) /\ Cpio!Begins(f, files[i].body)
  BY EntryIs
<1>2. i \in 1..(Len(files) + 1) /\ body = files[i].body
  <2>1. Len(files) \in Nat  BY DEF ArchiveFiles
  <2> QED  BY <1>1, <2>1 DEF BodyAt
<1>3. body \in Seq(Memory) /\ bl \in Nat /\ DOMAIN body = 1..bl  BY <1>2, Letters1
<1>4. /\ f \in Nat
      /\ \A j \in 1..bl : f + j - 1 \in DOMAIN mem /\ mem[f + j - 1] = body[j]
  BY <1>1, <1>2, <1>3 DEF Placed, Cpio!Begins
<1> HIDE DEF body, bl, f
<1> DEFINE Stops == {k \in 0..bl : k = bl \/ body[k + 1] = Cpio!NUL}
<1>5. PICK n \in Stops : \A k \in Stops : n <= k
  <2>1. Stops \subseteq Nat /\ bl \in Stops  BY <1>3
  <2> HIDE DEF Stops
  <2> QED  BY <2>1, LeastNat
<1>6. n \in 0..bl /\ (n = bl \/ body[n + 1] = Cpio!NUL)  BY <1>5
<1>7. ASSUME NEW k \in 0..(n - 1) PROVE f + k \in DOMAIN mem /\ mem[f + k] # Cpio!NUL
  <2>1. k \in 0..bl /\ k < n /\ k + 1 \in 1..bl /\ f + (k + 1) - 1 = f + k  BY <1>3, <1>4, <1>6
  <2>2. k \notin Stops
    <3> HIDE DEF Stops
    <3> QED  BY <1>5, <1>6, <2>1
  <2>3. body[k + 1] # Cpio!NUL  BY <2>1, <2>2
  <2>4. f + (k + 1) - 1 \in DOMAIN mem /\ mem[f + (k + 1) - 1] = body[k + 1]  BY <1>4, <2>1
  <2> QED  BY <2>1, <2>3, <2>4
<1>8. n < bl => mem[f + n] = Cpio!NUL
  <2> SUFFICES ASSUME n < bl PROVE mem[f + n] = Cpio!NUL  OBVIOUS
  <2>1. n + 1 \in 1..bl /\ f + (n + 1) - 1 = f + n /\ body[n + 1] = Cpio!NUL  BY <1>3, <1>4, <1>6
  <2>2. mem[f + (n + 1) - 1] = body[n + 1]  BY <1>4, <2>1
  <2> QED  BY <2>1, <2>2
<1> DEFINE r == Cpio!get_content(f, bl)
<1>9. r = [k \in 1..n |-> mem[f + k - 1]]  BY <1>3, <1>4, <1>6, <1>7, <1>8, ContentIs
<1> HIDE DEF r, Stops
<1>10. \A k \in 1..n : mem[f + k - 1] = body[k] /\ body[k] \in Memory
  <2> TAKE k \in 1..n
  <2>1. k \in 1..bl  BY <1>3, <1>6
  <2> QED  BY <1>3, <1>4, <2>1 DEF bl
<1>11. r = [k \in 1..n |-> body[k]]  BY <1>9, <1>10
<1>12. r \in Seq(Memory) /\ Len(r) = n /\ \A k \in 1..n : r[k] = body[k]
  BY <1>6, <1>10, <1>11
<1>13. Cpio!IsPrefix(r, body)
  <2>1. Len(r) <= Len(body)  BY <1>3, <1>6, <1>12 DEF bl
  <2> QED  BY <1>3, <1>12, <2>1, PrefixMeans
<1>14. n = bl => r = body
  <2>1. body = [k \in 1..bl |-> body[k]]  BY <1>3 DEF bl
  <2> QED  BY <1>11, <2>1
<1>15. r = body \/ body[Len(r) + 1] = Cpio!NUL  BY <1>6, <1>12, <1>14
<1>16. bl = header[i].file_size  BY <1>1, <1>2 DEF bl
<1> QED  BY <1>2, <1>13, <1>15, <1>16 DEF r, f

(* The first of some indices of header[].                                   *)
LEMMA FirstHit ==
  ASSUME NEW p, WalkInv(p), NEW R, R \subseteq DOMAIN header, R # {},
         NEW i, i = CHOOSE k \in R : \A j \in R : k <= j
  PROVE  i \in R /\ \A j \in R : i <= j
<1>1. R \subseteq Nat
  <2>1. DOMAIN header = 1..Len(header) /\ Len(header) \in Nat  BY DEF WalkInv
  <2> QED  BY <2>1
<1>2. \E k \in R : \A j \in R : k <= j  BY <1>1, LeastNat
<1> QED  BY <1>2

LEMMA WithFiles ==
  ASSUME ArchiveFiles, NEW p, WalkInv(p), Len(files) > 0
  PROVE  \A i \in DOMAIN header : i <= Len(files)
<1>1. Len(files) \in Nat /\ DOMAIN header = 1..Len(header) /\ Len(header) \in Nat
      /\ Len(header) <= Len(files)
  BY DEF ArchiveFiles, WalkInv
<1> QED  BY <1>1

LEMMA FileLoaded ==
  ASSUME Cpio!ArchiveAssumption, ArchiveFiles, Cpio!PlainBodies, NEW p, WalkInv(p),
         Cpio!LoadsTheFile, [Cpio!Next]_ArchiveVars
  PROVE  Cpio!LoadsTheFile'
<1>1. UNCHANGED <<files, mem>>
  BY DEF Cpio!Next, Cpio!parse_entry, Cpio!parse_end, Cpio!lost, Cpio!ls, Cpio!load_file, Cpio!cat,
         ArchiveVars
<1>2. CASE Len(files) > 0 /\ \E name \in Names \cup {Trailer} : Cpio!load_file(name)
  <2>1. PICK name \in Names \cup {Trailer} : Cpio!load_file(name)  BY <1>2
  <2>2. header' = header /\ found' = <<"load_file", name, Cpio!Lookup(name)>>
    BY <2>1 DEF Cpio!load_file
  <2> DEFINE alike == {i \in DOMAIN header : Cpio!IsPrefix(name, files[i].name)}
             hits == {i \in DOMAIN header : Cpio!Begins(header[i].name_address, name)}
  <2>3. ASSUME NEW i \in DOMAIN header
        PROVE  /\ Cpio!Begins(header[i].name_address, name) <=> Cpio!IsPrefix(name, files[i].name)
               /\ Cpio!Begins(header[i].file_address, files[i].body)
    <3>1. i <= Len(files)  BY <1>2, WithFiles
    <3>2. /\ i \in 1..Len(files) /\ header[i].name_address = p[i] + 2
          /\ Cpio!Begins(header[i].file_address, files[i].body)
      BY <3>1, EntryIs
    <3>3. Laid(p)  BY DEF WalkInv
    <3>4. Cpio!Begins(p[i] + 2, name) <=> Cpio!IsPrefix(name, files[i].name)
      BY <3>2, <3>3, NameBegins
    <3> QED  BY <3>2, <3>4
  <2>4. hits = alike  BY <2>3
  <2> DEFINE first == CHOOSE i \in hits : \A j \in hits : i <= j
  <2>5. Cpio!Lookup(name) = IF hits = {} THEN 0 ELSE header[first].file_address
    BY DEF Cpio!Lookup
  <2>6. hits # {} => first \in hits /\ \A j \in hits : first <= j
    <3>1. hits \subseteq DOMAIN header  OBVIOUS
    <3> HIDE DEF hits
    <3> QED  BY <3>1, FirstHit
  <2>7. hits # {} => Cpio!Begins(header[first].file_address, files[first].body)
    <3>1. hits \subseteq DOMAIN header  OBVIOUS
    <3> HIDE DEF hits, first
    <3> QED  BY <2>3, <2>6, <3>1
  <2> HIDE DEF hits, first
  <2>8. IF alike = {} THEN Cpio!Lookup(name) = 0
        ELSE \E i \in alike : /\ \A j \in alike : i <= j
                              /\ Cpio!Lookup(name) = header[i].file_address
                              /\ Cpio!Begins(Cpio!Lookup(name), files[i].body)
    <3> HIDE DEF alike
    <3> QED  BY <2>4, <2>5, <2>6, <2>7
  <2>9. found'[2] = name /\ found'[3] = Cpio!Lookup(name)  BY <2>2
  <2>10. \A a, text : Cpio!Begins(a, text)' = Cpio!Begins(a, text)  BY <1>1 DEF Cpio!Begins
  <2> HIDE DEF alike
  <2>11. alike = {i \in DOMAIN header' : Cpio!IsPrefix(found'[2], files'[i].name)}
    BY <1>1, <2>2, <2>9 DEF alike
  <2> QED  BY <1>1, <2>2, <2>8, <2>9, <2>10, <2>11 DEF Cpio!LoadsTheFile
<1>3. CASE Len(files) > 0 /\ ~\E name \in Names \cup {Trailer} : Cpio!load_file(name)
  <2>1. found' = found \/ found'[1] # "load_file"
    BY <1>3 DEF Cpio!Next, Cpio!parse_entry, Cpio!parse_end, Cpio!lost, Cpio!ls, Cpio!cat, ArchiveVars
  <2>2. header' = header \/ found[1] = "none"
    BY <1>3 DEF WalkInv, Cpio!Next, Cpio!parse_entry, Cpio!parse_end, Cpio!lost, Cpio!ls, Cpio!cat,
                ArchiveVars
  <2>3. SUFFICES ASSUME found'[1] = "load_file" PROVE Cpio!LoadsTheFile'
    BY DEF Cpio!LoadsTheFile
  <2>4. UNCHANGED <<files, mem, header, found>>  BY <1>1, <2>1, <2>2, <2>3
  <2> QED  BY <2>4 DEF Cpio!LoadsTheFile, Cpio!PlainBodies, Cpio!Begins
<1>4. CASE ~(Len(files) > 0)  BY <1>1, <1>4 DEF Cpio!LoadsTheFile
<1> QED  BY <1>2, <1>3, <1>4

LEMMA FilesShown ==
  ASSUME Cpio!ArchiveAssumption, ArchiveFiles, Cpio!PlainBodies, NEW p, WalkInv(p),
         Cpio!ShowsTheFiles, [Cpio!Next]_ArchiveVars
  PROVE  Cpio!ShowsTheFiles'
<1>1. UNCHANGED <<files, mem>>
  BY DEF Cpio!Next, Cpio!parse_entry, Cpio!parse_end, Cpio!lost, Cpio!ls, Cpio!load_file, Cpio!cat,
         ArchiveVars
<1>2. ASSUME Len(files) > 0, NEW i \in DOMAIN header
      PROVE  /\ Cpio!NameOf(i) = files[i].name
             /\ LET r == Cpio!get_content(header[i].file_address, header[i].file_size)
                IN  /\ Cpio!IsPrefix(r, files[i].body)
                    /\ r = files[i].body \/ files[i].body[Len(r) + 1] = Cpio!NUL
  <2>1. i <= Len(files)  BY <1>2, WithFiles
  <2> QED  BY <2>1, NameShown, BodyShown
<1>3. CASE Len(files) > 0 /\ \E name \in Names \cup {Trailer} : Cpio!cat(name)
  <2>1. PICK name \in Names \cup {Trailer} : Cpio!cat(name)  BY <1>3
  <2> DEFINE named == {i \in DOMAIN header : files[i].name = name}
             first == CHOOSE i \in named : \A j \in named : i <= j
             shown == IF named = {} THEN Cpio!Message
                      ELSE Cpio!get_content(header[first].file_address, header[first].file_size)
  <2>2. Cpio!Named(name) = named  BY <1>2, <1>3 DEF Cpio!Named
  <2>3. header' = header /\ found' = <<"cat", name, shown>>
    <3> HIDE DEF named
    <3> QED  BY <2>1, <2>2 DEF Cpio!cat
  <2>4. named # {} => first \in named /\ \A j \in named : first <= j
    <3>1. named \subseteq DOMAIN header  OBVIOUS
    <3> HIDE DEF named
    <3> QED  BY <3>1, FirstHit
  <2>5. named # {} => /\ Cpio!IsPrefix(shown, files[first].body)
                      /\ \/ shown = files[first].body
                         \/ files[first].body[Len(shown) + 1] = Cpio!NUL
    <3>1. named \subseteq DOMAIN header  OBVIOUS
    <3> HIDE DEF named, first
    <3> QED  BY <1>2, <1>3, <2>4, <3>1
  <2> HIDE DEF first
  <2>6. IF named = {} THEN shown = Cpio!Message
        ELSE \E i \in named : /\ \A j \in named : i <= j
                              /\ Cpio!IsPrefix(shown, files[i].body)
                              /\ \/ shown = files[i].body
                                 \/ files[i].body[Len(shown) + 1] = Cpio!NUL
    <3>1. named = {} => shown = Cpio!Message  OBVIOUS
    <3> HIDE DEF named, shown
    <3> QED  BY <2>4, <2>5, <3>1
  <2> HIDE DEF shown, named
  <2>7. found'[1] = "cat" /\ found'[2] = name /\ found'[3] = shown  BY <2>3
  <2>8. named = {i \in DOMAIN header' : files'[i].name = found'[2]}
    BY <1>1, <2>3, <2>7 DEF named
  <2> QED  BY <1>1, <2>6, <2>7, <2>8 DEF Cpio!ShowsTheFiles
<1>4. CASE Len(files) > 0 /\ Cpio!ls
  <2>1. header' = header /\ found' = <<"ls", Cpio!NUL, [i \in DOMAIN header |-> Cpio!NameOf(i)]>>
    BY <1>4 DEF Cpio!ls
  <2>2. [i \in DOMAIN header |-> Cpio!NameOf(i)] = [i \in DOMAIN header |-> files[i].name]
    BY <1>2, <1>4
  <2>3. found'[1] = "ls" /\ found'[3] = [i \in DOMAIN header' |-> files'[i].name]
    BY <1>1, <2>1, <2>2
  <2> QED  BY <2>3 DEF Cpio!ShowsTheFiles
<1>5. CASE Len(files) > 0 /\ ~Cpio!ls /\ ~\E name \in Names \cup {Trailer} : Cpio!cat(name)
  <2>1. found' = found \/ (found'[1] # "cat" /\ found'[1] # "ls")
    BY <1>5 DEF Cpio!Next, Cpio!parse_entry, Cpio!parse_end, Cpio!lost, Cpio!load_file, ArchiveVars
  <2>2. header' = header \/ found[1] = "none"
    BY <1>5 DEF WalkInv, Cpio!Next, Cpio!parse_entry, Cpio!parse_end, Cpio!lost, Cpio!load_file,
                ArchiveVars
  <2>3. SUFFICES ASSUME found'[1] = "cat" \/ found'[1] = "ls" PROVE Cpio!ShowsTheFiles'
    BY DEF Cpio!ShowsTheFiles
  <2>4. UNCHANGED <<files, header, found>>  BY <1>1, <2>1, <2>2, <2>3
  <2> QED  BY <2>4 DEF Cpio!ShowsTheFiles, Cpio!PlainBodies
<1>6. CASE ~(Len(files) > 0)  BY <1>1, <1>6 DEF Cpio!ShowsTheFiles
<1> QED  BY <1>3, <1>4, <1>5, <1>6

(* The archive's steps in those of the machine.                             *)
LEMMA ArchiveSteps ==
  ASSUME [boot \/ shell \/ convert \/ start \/ call \/ print]_<<
            vars, ArchiveVars, last, ExecVars, CallVars, PrintVars>>
  PROVE  [Cpio!Next]_ArchiveVars
BY DEF boot, shell, convert, start, call, print, ArchiveVars

ArchiveInv ==
  /\ ArchiveFiles
  /\ Cpio!PlainBodies => /\ \E p : WalkInv(p)
                         /\ Cpio!AllFilesFound /\ Cpio!LoadsTheFile /\ Cpio!ShowsTheFiles

LEMMA ArchiveInit == Cpio!ArchiveAssumption /\ Cpio!Init => ArchiveInv
<1> SUFFICES ASSUME Cpio!ArchiveAssumption, Cpio!Init PROVE ArchiveInv  OBVIOUS
<1>1. ArchiveFiles /\ \E p : WalkInv(p)  BY WalkStarts
<1>2. phase = "walk" /\ found[1] = "none"  BY DEF Cpio!Init
<1>3. Cpio!AllFilesFound /\ Cpio!LoadsTheFile /\ Cpio!ShowsTheFiles
  BY <1>2 DEF Cpio!AllFilesFound, Cpio!LoadsTheFile, Cpio!ShowsTheFiles
<1> QED  BY <1>1, <1>3 DEF ArchiveInv

LEMMA ArchiveStep ==
  ASSUME Cpio!ArchiveAssumption, ArchiveInv, [Cpio!Next]_ArchiveVars
  PROVE  ArchiveInv'
<1>1. UNCHANGED files
  BY DEF Cpio!Next, Cpio!parse_entry, Cpio!parse_end, Cpio!lost, Cpio!ls, Cpio!load_file, Cpio!cat,
         ArchiveVars
<1>2. ArchiveFiles /\ ArchiveFiles' /\ (Cpio!PlainBodies' => Cpio!PlainBodies)
  BY <1>1 DEF ArchiveInv, ArchiveFiles, Cpio!PlainBodies
<1>3. ASSUME Cpio!PlainBodies
      PROVE  /\ \E p : WalkInv(p)'
             /\ Cpio!AllFilesFound' /\ Cpio!LoadsTheFile' /\ Cpio!ShowsTheFiles'
  <2>1. Cpio!AllFilesFound /\ Cpio!LoadsTheFile /\ Cpio!ShowsTheFiles  BY <1>3 DEF ArchiveInv
  <2>2. PICK p : WalkInv(p)  BY <1>3 DEF ArchiveInv
  <2>3. WalkInv(p)'  BY <1>2, <1>3, <2>2, WalkSteps
  <2>4. Cpio!AllFilesFound'  BY <1>2, <1>3, <2>1, <2>2, NoneMissed
  <2>5. Cpio!LoadsTheFile'  BY <1>2, <1>3, <2>1, <2>2, FileLoaded
  <2>6. Cpio!ShowsTheFiles'  BY <1>2, <1>3, <2>1, <2>2, FilesShown
  <2> QED  BY <2>3, <2>4, <2>5, <2>6
<1> QED  BY <1>2, <1>3 DEF ArchiveInv

LEMMA ArchiveAlways == MachineSpec => []ArchiveInv
<1>1. Cpio!ArchiveAssumption  BY MachineAssumption
<1>2. MachineInit => ArchiveInv  BY <1>1, ArchiveInit DEF MachineInit
<1>3. ArchiveInv /\ [boot \/ shell \/ convert \/ start \/ call \/ print]_<<
        vars, ArchiveVars, last, ExecVars, CallVars, PrintVars>> => ArchiveInv'
  BY <1>1, ArchiveStep, ArchiveSteps
<1> QED  BY <1>2, <1>3, PTL DEF MachineSpec

(* Each entry of header[] is the archive's file of that number, with its    *)
(* name and its contents, and the walk stands on the header that comes      *)
(* next: for any names, contents, number of files and alignment.            *)
THEOREM NothingIsMadeUp == MachineSpec => []NothingInvented
<1>1. ArchiveInv => NothingInvented
  <2>1. Cpio!ArchiveAssumption  BY MachineAssumption
  <2> SUFFICES ASSUME ArchiveInv PROVE NothingInvented  OBVIOUS
  <2>2. PICK p : Cpio!PlainBodies => WalkInv(p)  BY DEF ArchiveInv
  <2> QED  BY <2>1, <2>2, NothingIsInvented DEF ArchiveInv, NothingInvented
<1> QED  BY <1>1, ArchiveAlways, PTL

(* Of the archives that fit header[] and have no name as long as the        *)
(* trailer's, the walk reaches the end, with every file.                    *)
THEOREM EveryFileIsFound == MachineSpec => []AllFilesFound
<1>1. ArchiveInv => AllFilesFound  BY DEF ArchiveInv, AllFilesFound, Cpio!AllFilesFound
<1> QED  BY <1>1, ArchiveAlways, PTL

(* load_file gives the contents of the first file whose name begins with    *)
(* the name asked for, and 0 if there is none.                              *)
THEOREM NamesLeadToFiles == MachineSpec => []LoadsTheFile
<1>1. ArchiveInv => LoadsTheFile  BY DEF ArchiveInv, LoadsTheFile, Cpio!LoadsTheFile
<1> QED  BY <1>1, ArchiveAlways, PTL

(* cat shows the contents up to a NUL of the first file of exactly that     *)
(* name, and its message only if there is none; ls shows all names in order. *)
THEOREM FilesAreShown == MachineSpec => []ShowsTheFiles
<1>1. ArchiveInv => ShowsTheFiles  BY DEF ArchiveInv, ShowsTheFiles, Cpio!ShowsTheFiles
<1> QED  BY <1>1, ArchiveAlways, PTL
-----------------------------------------------------------------------------
(* What holds at 0 and goes on from each number to the next holds up to n.  *)
LEMMA Climb ==
  ASSUME NEW n \in Nat, NEW S, 0 \in S, \A k \in 1..n : k - 1 \in S => k \in S
  PROVE  \A k \in 0..n : k \in S
<1> DEFINE Bad == {k \in 0..n : k \notin S}
<1>1. SUFFICES ASSUME Bad # {} PROVE FALSE  OBVIOUS
<1>2. PICK m \in Bad : \A k \in Bad : m <= k
  <2>1. Bad \subseteq Nat  OBVIOUS
  <2> QED  BY <1>1, <2>1, LeastNat
<1>3. m \in 1..n /\ m - 1 \in 0..n  BY <1>2
<1>4. m - 1 \in S  BY <1>2, <1>3
<1> QED  BY <1>2, <1>3, <1>4

(* A function of the numbers is given by its first value and its step.      *)
Recurs(p, n, c, F) == p[0] = c /\ \A k \in 1..n : p[k] = F[<<k, p[k - 1]>>]

LEMMA Recursion ==
  ASSUME NEW V, NEW c \in V, NEW F \in [Nat \X V -> V]
  PROVE  \E p \in [Nat -> V] : \A n \in Nat : Recurs(p, n, c, F)
<1> DEFINE Good(n) == \E f \in [0..n -> V] : Recurs(f, n, c, F)
           f(n) == CHOOSE f \in [0..n -> V] : Recurs(f, n, c, F)
           p == [n \in Nat |-> f(n)[n]]
<1>1. ASSUME NEW n \in Nat PROVE Good(n)
  <2> DEFINE S == {m \in 0..n : Good(m)}
  <2>1. 0 \in S
    <3> DEFINE g == [i \in 0..0 |-> c]
    <3>1. g \in [0..0 -> V] /\ g[0] = c  OBVIOUS
    <3>2. Recurs(g, 0, c, F)  BY <3>1 DEF Recurs
    <3> QED  BY <3>1, <3>2
  <2>2. ASSUME NEW k \in 1..n, k - 1 \in S PROVE k \in S
    <3>1. PICK g \in [0..(k - 1) -> V] : Recurs(g, k - 1, c, F)  BY <2>2
    <3>2. /\ g[0] = c /\ \A i \in 1..(k - 1) : g[i] = F[<<i, g[i - 1]>>]
          /\ g[k - 1] \in V
      BY <3>1 DEF Recurs
    <3>3. F[<<k, g[k - 1]>>] \in V  BY <3>2
    <3> DEFINE h == [i \in 0..k |-> IF i = k THEN F[<<k, g[k - 1]>>] ELSE g[i]]
    <3>4. h \in [0..k -> V]  BY <3>1, <3>3
    <3>5. h[0] = c  BY <3>2
    <3>6. ASSUME NEW i \in 1..k PROVE h[i] = F[<<i, h[i - 1]>>]
      <4>1. i - 1 \in 0..k /\ i - 1 # k /\ h[i - 1] = g[i - 1]  OBVIOUS
      <4>2. CASE i = k  BY <4>1, <4>2
      <4>3. CASE i # k
        <5>1. i \in 1..(k - 1) /\ h[i] = g[i]  BY <4>3
        <5> QED  BY <4>1, <5>1, <3>2
      <4> QED  BY <4>2, <4>3
    <3> HIDE DEF h
    <3>7. Recurs(h, k, c, F)  BY <3>5, <3>6 DEF Recurs
    <3> QED  BY <3>4, <3>7
  <2> HIDE DEF S
  <2>3. \A k \in 0..n : k \in S  BY <2>1, <2>2, Climb
  <2> QED  BY <2>3 DEF S
<1>2. ASSUME NEW n \in Nat PROVE f(n) \in [0..n -> V] /\ Recurs(f(n), n, c, F)  BY <1>1
<1> HIDE DEF f
<1>3. ASSUME NEW n \in Nat \ {0} PROVE f(n)[n - 1] = f(n - 1)[n - 1]
  <2>1. n - 1 \in Nat  OBVIOUS
  <2> DEFINE S == {m \in 0..(n - 1) : f(n)[m] = f(n - 1)[m]}
  <2>2. 0 \in S  BY <1>2, <2>1 DEF Recurs
  <2>3. ASSUME NEW k \in 1..(n - 1), k - 1 \in S PROVE k \in S
    <3>1. k \in 1..n /\ f(n)[k - 1] = f(n - 1)[k - 1]  BY <2>3
    <3>2. f(n)[k] = F[<<k, f(n)[k - 1]>>]  BY <1>2, <3>1 DEF Recurs
    <3>3. f(n - 1)[k] = F[<<k, f(n - 1)[k - 1]>>]  BY <1>2, <2>1 DEF Recurs
    <3> QED  BY <3>1, <3>2, <3>3
  <2> HIDE DEF S
  <2>4. n - 1 \in S  BY <2>1, <2>2, <2>3, Climb
  <2> QED  BY <2>4 DEF S
<1>4. p \in [Nat -> V]  BY <1>2
<1>5. p[0] = c  BY <1>2 DEF Recurs
<1>6. ASSUME NEW k \in Nat \ {0} PROVE p[k] = F[<<k, p[k - 1]>>]
  <2>1. k \in 1..k /\ k - 1 \in Nat  OBVIOUS
  <2>2. f(k)[k] = F[<<k, f(k)[k - 1]>>]  BY <1>2, <2>1 DEF Recurs
  <2>3. p[k] = f(k)[k] /\ p[k - 1] = f(k - 1)[k - 1]  BY <2>1
  <2> QED  BY <1>3, <2>2, <2>3
<1> HIDE DEF p
<1> QED  BY <1>4, <1>5, <1>6 DEF Recurs

(* Power is the power, and grows.                                           *)
Powers(p, b, n) == p = [k \in 0..n |-> IF k = 0 THEN 1 ELSE b * p[k - 1]]

LEMMA PowersExist ==
  ASSUME NEW b \in Nat \ {0}
  PROVE  \E q \in [Nat -> Nat \ {0}] :
           /\ q[0] = 1 /\ \A k \in Nat \ {0} : q[k] = b * q[k - 1]
           /\ \A n \in Nat : Convert!Power(b, n) = q[n]
<1> DEFINE V == Nat \ {0}
           F == [x \in Nat \X V |-> b * x[2]]
<1>1. F \in [Nat \X V -> V]
  <2>1. \A x \in V : b * x \in V  OBVIOUS
  <2> QED  BY <2>1
<1>2. \A k \in Nat, x \in V : F[<<k, x>>] = b * x  OBVIOUS
<1>3. 1 \in V  OBVIOUS
<1> HIDE DEF F, V
<1>4. PICK q \in [Nat -> V] : \A n \in Nat : Recurs(q, n, 1, F)  BY <1>1, <1>3, Recursion
<1>5. q[0] = 1
  <2>1. 0 \in Nat  OBVIOUS
  <2> QED  BY <1>4, <2>1 DEF Recurs
<1>6. ASSUME NEW k \in Nat \ {0} PROVE q[k] = b * q[k - 1]
  <2>1. k \in 1..k /\ k - 1 \in Nat /\ q[k - 1] \in V  BY <1>4
  <2>2. q[k] = F[<<k, q[k - 1]>>]  BY <1>4, <2>1 DEF Recurs
  <2> QED  BY <1>2, <2>1, <2>2
<1>7. ASSUME NEW n \in Nat PROVE Convert!Power(b, n) = q[n]
  <2>1. Powers([k \in 0..n |-> q[k]], b, n)
    <3> DEFINE w == [k \in 0..n |-> q[k]]
               e == [k \in 0..n |-> IF k = 0 THEN 1 ELSE b * w[k - 1]]
    <3>1. ASSUME NEW k \in 0..n PROVE w[k] = e[k]
      <4>1. CASE k = 0  BY <4>1, <1>5
      <4>2. CASE k # 0
        <5>1. k \in Nat \ {0} /\ k - 1 \in 0..n  BY <4>2
        <5> QED  BY <4>2, <5>1, <1>6
      <4> QED  BY <4>1, <4>2
    <3>2. w = e  BY <3>1
    <3> HIDE DEF w
    <3> QED  BY <3>2 DEF Powers, w
  <2> DEFINE p == CHOOSE p : Powers(p, b, n)
  <2>2. Powers(p, b, n)  BY <2>1
  <2>3. Convert!Power(b, n) = p[n]  BY DEF Convert!Power, Powers
  <2> HIDE DEF p
  <2>4. \A k \in 0..n : p[k] = IF k = 0 THEN 1 ELSE b * p[k - 1]  BY <2>2 DEF Powers
  <2> DEFINE S == {k \in 0..n : p[k] = q[k]}
  <2>5. 0 \in S  BY <1>5, <2>4
  <2>6. ASSUME NEW k \in 1..n, k - 1 \in S PROVE k \in S
    <3>1. k \in 0..n /\ k \in Nat \ {0} /\ k # 0 /\ p[k - 1] = q[k - 1]  BY <2>6
    <3> QED  BY <3>1, <1>6, <2>4
  <2> HIDE DEF S
  <2>7. n \in S  BY <2>5, <2>6, Climb
  <2> QED  BY <2>3, <2>7 DEF S
<1> QED  BY <1>4, <1>5, <1>6, <1>7 DEF V

LEMMA PowerIs ==
  ASSUME NEW b \in Nat \ {0}
  PROVE  /\ Convert!Power(b, 0) = 1
         /\ \A n \in Nat : /\ Convert!Power(b, n) \in Nat \ {0}
                           /\ Convert!Power(b, n + 1) = b * Convert!Power(b, n)
<1>1. PICK q \in [Nat -> Nat \ {0}] :
           /\ q[0] = 1 /\ \A k \in Nat \ {0} : q[k] = b * q[k - 1]
           /\ \A n \in Nat : Convert!Power(b, n) = q[n]
  BY PowersExist
<1>2. Convert!Power(b, 0) = 1  BY <1>1
<1>3. ASSUME NEW n \in Nat
      PROVE  /\ Convert!Power(b, n) \in Nat \ {0}
             /\ Convert!Power(b, n + 1) = b * Convert!Power(b, n)
  <2>1. n + 1 \in Nat \ {0} /\ n + 1 - 1 = n  OBVIOUS
  <2>2. q[n] \in Nat \ {0} /\ q[n + 1] = b * q[n]  BY <1>1, <2>1
  <2> QED  BY <1>1, <2>1, <2>2
<1> QED  BY <1>2, <1>3

LEMMA PowerGrows ==
  ASSUME NEW b \in {10, 16}, NEW m \in Nat, NEW n \in Nat, m <= n
  PROVE  Convert!Power(b, m) <= Convert!Power(b, n)
<1> DEFINE S == {d \in 0..(n - m) : Convert!Power(b, m) <= Convert!Power(b, m + d)}
<1>1. b \in Nat \ {0}  OBVIOUS
<1>2. 0 \in S
  <2>1. m + 0 = m /\ Convert!Power(b, m) \in Nat  BY <1>1, PowerIs
  <2> QED  BY <2>1
<1>3. ASSUME NEW d \in 1..(n - m), d - 1 \in S PROVE d \in S
  <2>1. m + (d - 1) \in Nat /\ m + (d - 1) + 1 = m + d  OBVIOUS
  <2> DEFINE x == Convert!Power(b, m + (d - 1))
  <2>2. x \in Nat /\ Convert!Power(b, m + d) = b * x  BY <1>1, <2>1, PowerIs
  <2>3. Convert!Power(b, m) <= x /\ Convert!Power(b, m) \in Nat  BY <1>1, <1>3, PowerIs
  <2> HIDE DEF x
  <2>4. Convert!Power(b, m) <= b * x
    <3>1. CASE b = 10  BY <3>1, <2>2, <2>3
    <3>2. CASE b = 16  BY <3>2, <2>2, <2>3
    <3> QED  BY <3>1, <3>2
  <2> QED  BY <2>2, <2>4
<1> HIDE DEF S
<1>4. n - m \in 0..(n - m) /\ n - m \in Nat  OBVIOUS
<1>5. n - m \in S  BY <1>2, <1>3, <1>4, Climb
<1>6. m + (n - m) = n  OBVIOUS
<1> QED  BY <1>5, <1>6 DEF S

(* Every number has a number of decimal places, and only one.               *)
Places(n, l) == /\ l \in Nat \ {0} /\ n < Convert!Power(10, l)
                /\ l = 1 \/ Convert!Power(10, l - 1) <= n

LEMMA PlacesExist ==
  ASSUME NEW n \in Nat
  PROVE  \E l : Places(n, l)
<1>1. 10 \in Nat \ {0}  OBVIOUS
<1> DEFINE P(k) == Convert!Power(10, k)
<1>2. P(0) = 1 /\ \A k \in Nat : P(k) \in Nat \ {0} /\ P(k + 1) = 10 * P(k)
  BY <1>1, PowerIs
<1> HIDE DEF P
<1> DEFINE S == {k \in 0..n : k < P(k)}
<1>3. n \in S
  <2>1. 0 \in S  BY <1>2
  <2>2. ASSUME NEW k \in 1..n, k - 1 \in S PROVE k \in S
    <3>1. k - 1 \in Nat /\ k - 1 + 1 = k /\ k - 1 < P(k - 1)  BY <2>2
    <3>2. P(k) = 10 * P(k - 1) /\ P(k - 1) \in Nat  BY <1>2, <3>1
    <3> QED  BY <3>1, <3>2
  <2> HIDE DEF S
  <2> QED  BY <2>1, <2>2, Climb
<1> DEFINE R == {l \in Nat \ {0} : n < P(l)}
<1>4. n + 1 \in R
  <2>1. n < P(n) /\ P(n) \in Nat /\ P(n + 1) = 10 * P(n)  BY <1>2, <1>3
  <2> QED  BY <2>1
<1>5. PICK l \in R : \A k \in R : l <= k
  <2>1. R \subseteq Nat /\ R # {}  BY <1>4
  <2> QED  BY <2>1, LeastNat
<1>6. l = 1 \/ P(l - 1) <= n
  <2>1. SUFFICES ASSUME l # 1 PROVE P(l - 1) <= n  OBVIOUS
  <2>2. l - 1 \in Nat \ {0} /\ ~(l <= l - 1)  BY <2>1
  <2>3. P(l - 1) \in Nat /\ ~(n < P(l - 1))  BY <1>2, <1>5, <2>2
  <2> QED  BY <2>3
<1> QED  BY <1>5, <1>6 DEF Places, P

LEMMA PlacesUnique ==
  ASSUME NEW n \in Nat, NEW k, NEW l, Places(n, k), Places(n, l)
  PROVE  k = l
<1> DEFINE P(j) == Convert!Power(10, j)
<1>1. ASSUME NEW x, NEW y, Places(n, x), Places(n, y), x < y PROVE FALSE
  <2>1. x \in Nat \ {0} /\ y \in Nat \ {0} /\ n < P(x) /\ P(y - 1) <= n
    BY <1>1 DEF Places
  <2>2. x <= y - 1 /\ y - 1 \in Nat  BY <1>1, <2>1
  <2>3. P(x) <= P(y - 1)  BY <2>1, <2>2, PowerGrows
  <2>4. P(x) \in Nat /\ P(y - 1) \in Nat
    <3>1. 10 \in Nat \ {0}  OBVIOUS
    <3> QED  BY <2>1, <2>2, <3>1, PowerIs
  <2> HIDE DEF P
  <2> QED  BY <2>1, <2>3, <2>4
<1>2. k \in Nat /\ l \in Nat  BY DEF Places
<1> QED  BY <1>1, <1>2

(* A tenth has a place less.                                                *)
LEMMA PlacesTenth ==
  ASSUME NEW n \in Nat, n >= 10, NEW l, Places(n, l)
  PROVE  l - 1 \in Nat \ {0} /\ Places(n \div 10, l - 1)
<1> DEFINE P(j) == Convert!Power(10, j)
<1>1. P(0) = 1 /\ \A k \in Nat : P(k) \in Nat \ {0} /\ P(k + 1) = 10 * P(k)
  <2>1. 10 \in Nat \ {0}  OBVIOUS
  <2> QED  BY <2>1, PowerIs
<1>2. l \in Nat \ {0} /\ n < P(l) /\ (l = 1 \/ P(l - 1) <= n)  BY DEF Places
<1> HIDE DEF P
<1>3. l # 1
  <2>1. P(0 + 1) = 10 * P(0)  BY <1>1
  <2>2. P(1) = 10  BY <1>1, <2>1
  <2> QED  BY <1>2, <2>2
<1>4. l - 1 \in Nat \ {0} /\ l - 1 - 1 \in Nat /\ l - 1 - 1 + 1 = l - 1 /\ l - 1 + 1 = l
  BY <1>2, <1>3
<1>5. P(l) = 10 * P(l - 1) /\ P(l - 1) = 10 * P(l - 1 - 1)
      /\ P(l - 1) \in Nat /\ P(l - 1 - 1) \in Nat
  BY <1>1, <1>4
<1>6. n \div 10 < P(l - 1)  BY <1>2, <1>5
<1>7. P(l - 1 - 1) <= n \div 10  BY <1>2, <1>3, <1>5
<1> QED  BY <1>4, <1>6, <1>7 DEF Places, P

(* v[m] is the number that the m characters of s from i on stand for.       *)
ValueOf(v, s, i, b) ==
  /\ v \in [Nat -> Nat] /\ v[0] = 0
  /\ \A m \in Nat : v[m + 1] = v[m] * b + Convert!DigitOf(s[i + m])

(* From i on s has k digits, and no more.                                   *)
DigitsAt(s, i, k, b) ==
  /\ i \in Nat \ {0} /\ k \in Nat /\ i + k - 1 <= Len(s)
  /\ \A j \in 0..(k - 1) : Convert!DigitOf(s[i + j]) < b
  /\ Convert!DigitOf(Convert!At(s, i + k)) >= b

LEMMA DigitType == \A c : Convert!DigitOf(c) \in 0..36
<1> TAKE c
<1>1. CASE c \in 48..57
  <2>1. Convert!DigitOf(c) = c - 48  BY <1>1 DEF Convert!DigitOf
  <2> QED  BY <1>1, <2>1
<1>2. CASE c \notin 48..57 /\ c \in 97..122
  <2>1. Convert!DigitOf(c) = c - 97 + 10  BY <1>2 DEF Convert!DigitOf
  <2> QED  BY <1>2, <2>1
<1>3. CASE c \notin 48..57 /\ c \notin 97..122 /\ c \in 65..90
  <2>1. Convert!DigitOf(c) = c - 65 + 10  BY <1>3 DEF Convert!DigitOf
  <2> QED  BY <1>3, <2>1
<1>4. CASE c \notin 48..57 /\ c \notin 97..122 /\ c \notin 65..90
  <2>1. Convert!DigitOf(c) = 36  BY <1>4 DEF Convert!DigitOf
  <2> QED  BY <2>1
<1> QED  BY <1>1, <1>2, <1>3, <1>4

LEMMA ValueExists ==
  ASSUME NEW s, NEW i \in Nat, NEW b \in Nat
  PROVE  \E v : ValueOf(v, s, i, b)
<1> DEFINE F == [x \in Nat \X Nat |-> x[2] * b + Convert!DigitOf(s[i + x[1] - 1])]
<1>1. F \in [Nat \X Nat -> Nat]
  <2>1. \A x, y \in Nat : y * b + Convert!DigitOf(s[i + x - 1]) \in Nat
    <3> TAKE x, y \in Nat
    <3>1. y * b \in Nat /\ Convert!DigitOf(s[i + x - 1]) \in Nat  BY DigitType
    <3> QED  BY <3>1
  <2> QED  BY <2>1
<1>2. \A k, x \in Nat : F[<<k, x>>] = x * b + Convert!DigitOf(s[i + k - 1])  OBVIOUS
<1> HIDE DEF F
<1>3. PICK v \in [Nat -> Nat] : \A n \in Nat : Recurs(v, n, 0, F)  BY <1>1, Recursion
<1>4. v[0] = 0
  <2>1. 0 \in Nat  OBVIOUS
  <2> QED  BY <1>3, <2>1 DEF Recurs
<1>5. ASSUME NEW m \in Nat PROVE v[m + 1] = v[m] * b + Convert!DigitOf(s[i + m])
  <2>1. m + 1 \in 1..(m + 1) /\ m + 1 - 1 = m /\ m + 1 \in Nat /\ i + (m + 1) - 1 = i + m
    OBVIOUS
  <2>2. v[m + 1] = F[<<m + 1, v[m]>>]  BY <1>3, <2>1 DEF Recurs
  <2>3. v[m] \in Nat  OBVIOUS
  <2> QED  BY <1>2, <2>1, <2>2, <2>3
<1> QED  BY <1>4, <1>5 DEF ValueOf

(* Read gives that number if none before the last is at the bound.          *)
LEMMA ReadIs ==
  ASSUME Convert!NumbersAssumption, NEW s, Len(s) \in Nat, DOMAIN s = 1..Len(s),
         NEW i, NEW k, NEW b \in Nat, NEW neg, NEW v,
         DigitsAt(s, i, k, b), ValueOf(v, s, i, b), Convert!Overflow(neg) \in Nat,
         \A m \in 0..(k - 1) : v[m] < Convert!Overflow(neg) /\ v[m] < Word,
         v[k] < Word
  PROVE  Convert!Read(s, i, b, neg) = v[k]
<1> DEFINE Ends(n) == /\ Convert!DigitOf(Convert!At(s, i + n)) >= b
                      /\ \A j \in 0..(n - 1) : Convert!DigitOf(s[i + j]) < b
           n == CHOOSE n \in 0..(Len(s) + 1 - i) : Ends(n)
           Sums(f, l) == f = [m \in 0..l |-> IF m = 0 THEN 0
                               ELSE (f[m - 1] * b + Convert!DigitOf(s[i + m - 1])) % Word]
           acc == CHOOSE f : Sums(f, n)
<1>1. Convert!Read(s, i, b, neg) =
        IF \E m \in 0..(n - 1) : acc[m] >= Convert!Overflow(neg) THEN 0 ELSE acc[n]
  BY DEF Convert!Read
<1>2. /\ i \in Nat \ {0} /\ k \in Nat /\ i + k - 1 <= Len(s)
      /\ k \in 0..(Len(s) + 1 - i) /\ Ends(k)
  BY DEF DigitsAt
<1>3. ASSUME NEW m \in 0..(Len(s) + 1 - i), Ends(m) PROVE m = k
  <2>1. CASE m < k
    <3>1. m \in 0..(k - 1) /\ i + m \in 1..Len(s)  BY <1>2, <2>1
    <3>2. Convert!At(s, i + m) = s[i + m]  BY <3>1 DEF Convert!At
    <3>3. Convert!DigitOf(s[i + m]) < b  BY <1>2, <3>1
    <3>4. Convert!DigitOf(s[i + m]) >= b  BY <1>3, <3>2
    <3>5. Convert!DigitOf(s[i + m]) \in 0..36  BY DigitType
    <3>6. \A d \in 0..36 : ~(d < b /\ d >= b)  OBVIOUS
    <3> QED  BY <3>3, <3>4, <3>5, <3>6
  <2>2. CASE k < m
    <3>1. k \in 0..(m - 1) /\ i + k \in 1..Len(s)  BY <1>2, <2>2
    <3>2. Convert!At(s, i + k) = s[i + k]  BY <3>1 DEF Convert!At
    <3>3. Convert!DigitOf(s[i + k]) < b  BY <1>3, <3>1
    <3>4. Convert!DigitOf(s[i + k]) >= b  BY <1>2, <3>2
    <3>5. Convert!DigitOf(s[i + k]) \in 0..36  BY DigitType
    <3>6. \A d \in 0..36 : ~(d < b /\ d >= b)  OBVIOUS
    <3> QED  BY <3>3, <3>4, <3>5, <3>6
  <2> QED  BY <1>2, <2>1, <2>2
<1> HIDE DEF Ends
<1>4. n = k  BY <1>2, <1>3
<1> HIDE DEF n
<1>5. /\ v \in [Nat -> Nat] /\ v[0] = 0
      /\ \A m \in Nat : v[m + 1] = v[m] * b + Convert!DigitOf(s[i + m])
  BY DEF ValueOf
<1>6. Word \in Nat \ {0}  BY DEF Convert!NumbersAssumption
<1>7. ASSUME NEW m \in 1..k
      PROVE  v[m] = (v[m - 1] * b + Convert!DigitOf(s[i + m - 1])) % Word
  <2>1. m - 1 \in Nat /\ m - 1 + 1 = m /\ i + (m - 1) = i + m - 1 /\ m \in Nat
    BY <1>2
  <2>2. v[m] < Word /\ v[m] \in Nat
    <3>1. m = k \/ m \in 0..(k - 1)  BY <1>2
    <3> QED  BY <3>1, <1>5, <2>1
  <2>3. v[m] % Word = v[m]  BY <1>6, <2>2
  <2>4. v[m] = v[m - 1] * b + Convert!DigitOf(s[i + m - 1])  BY <1>5, <2>1
  <2> QED  BY <2>3, <2>4
<1>8. Sums([m \in 0..k |-> v[m]], k)
  <2> DEFINE w == [m \in 0..k |-> v[m]]
             e == [m \in 0..k |-> IF m = 0 THEN 0
                     ELSE (w[m - 1] * b + Convert!DigitOf(s[i + m - 1])) % Word]
  <2>1. ASSUME NEW m \in 0..k PROVE w[m] = e[m]
    <3>1. CASE m = 0  BY <3>1, <1>5
    <3>2. CASE m # 0
      <4>1. m \in 1..k /\ m - 1 \in 0..k  BY <1>2, <3>2
      <4>2. w[m - 1] = v[m - 1] /\ w[m] = v[m]  BY <4>1
      <4>3. e[m] = (w[m - 1] * b + Convert!DigitOf(s[i + m - 1])) % Word  BY <3>2
      <4> QED  BY <4>1, <4>2, <4>3, <1>7
    <3> QED  BY <3>1, <3>2
  <2>2. w = e  BY <2>1
  <2> HIDE DEF w
  <2> QED  BY <2>2 DEF w
<1>9. Sums(acc, k)  BY <1>4, <1>8
<1> HIDE DEF acc
<1>10. acc[0] = 0 /\ \A m \in 1..k : acc[m] = (acc[m - 1] * b + Convert!DigitOf(s[i + m - 1])) % Word
  <2>1. 0 \in 0..k /\ \A m \in 1..k : m \in 0..k /\ m # 0  BY <1>2
  <2> QED  BY <1>9, <2>1
<1>11. \A m \in 0..k : acc[m] = v[m]
  <2> DEFINE S == {m \in 0..k : acc[m] = v[m]}
  <2>1. 0 \in S
    <3>1. 0 \in 0..k  BY <1>2
    <3> QED  BY <1>5, <1>10, <3>1
  <2>2. ASSUME NEW m \in 1..k, m - 1 \in S PROVE m \in S
    <3>1. m \in 0..k /\ acc[m - 1] = v[m - 1]  BY <1>2, <2>2
    <3> QED  BY <1>7, <1>10, <3>1
  <2> HIDE DEF S
  <2>3. \A m \in 0..k : m \in S  BY <1>2, <2>1, <2>2, Climb
  <2> QED  BY <2>3 DEF S
<1>12. \A m \in 0..(k - 1) : ~(acc[m] >= Convert!Overflow(neg))
  <2> TAKE m \in 0..(k - 1)
  <2>1. m \in 0..k /\ v[m] \in Nat
    <3>1. k \in Nat /\ v \in [Nat -> Nat]  BY <1>2, <1>5
    <3>2. m \in 0..k /\ m \in Nat  BY <3>1
    <3> QED  BY <3>1, <3>2
  <2>2. acc[m] = v[m] /\ v[m] < Convert!Overflow(neg)  BY <1>11, <2>1
  <2> QED  BY <2>1, <2>2
<1>13. acc[k] = v[k]  BY <1>2, <1>11
<1> QED  BY <1>1, <1>4, <1>12, <1>13

(* An int has at least one hexadecimal digit; both widths hold what they    *)
(* should.                                                                  *)
LEMMA Widths ==
  ASSUME Convert!NumbersAssumption
  PROVE  /\ IntMax \in Nat /\ IntMax >= 7 /\ HexDigits \in Nat \ {0}
         /\ Convert!Power(16, HexDigits) = 2 * (IntMax + 1)
         /\ Word \in Nat /\ Word > 16 * (IntMax + 1)
         /\ \A n \in 0..IntMax : Convert!ToInt(n) = n
         /\ \A n \in 0..(2 * IntMax + 1) : Convert!ToLong(n) = n /\ Convert!ToLong(-n) = -n
<1>1. /\ IntMax \in Nat /\ HexDigits \in Nat
      /\ Convert!Power(16, HexDigits) = 2 * (IntMax + 1)
      /\ Word \in Nat /\ Word > 16 * (IntMax + 1)
  BY DEF Convert!NumbersAssumption
<1>2. 16 \in Nat \ {0} /\ 16 \in {10, 16}  OBVIOUS
<1>3. Convert!Power(16, 0) = 1  BY <1>2, PowerIs
<1>4. HexDigits # 0
  <2>1. 2 * (IntMax + 1) # 1  BY <1>1
  <2> QED  BY <1>1, <1>3, <2>1
<1>5. IntMax >= 7
  <2>1. HexDigits - 1 \in Nat /\ HexDigits - 1 + 1 = HexDigits  BY <1>1, <1>4
  <2>2. /\ Convert!Power(16, HexDigits - 1) \in Nat \ {0}
        /\ Convert!Power(16, HexDigits - 1 + 1) = 16 * Convert!Power(16, HexDigits - 1)
    BY <1>2, <2>1, PowerIs
  <2>3. PICK x \in Nat \ {0} : 2 * (IntMax + 1) = 16 * x  BY <1>1, <2>1, <2>2
  <2> QED  BY <1>1, <2>3
<1>6. ASSUME NEW n \in 0..IntMax PROVE Convert!ToInt(n) = n
  <2>1. n + IntMax + 1 \in 0..(2 * (IntMax + 1) - 1) /\ 2 * (IntMax + 1) \in Nat \ {0}
    BY <1>1
  <2>2. PICK w : w = (n + IntMax + 1) % (2 * (IntMax + 1)) /\ w = n + IntMax + 1  BY <2>1
  <2>3. w - (IntMax + 1) = n  BY <1>1, <2>2
  <2>4. Convert!ToInt(n) = ((n + IntMax + 1) % (2 * (IntMax + 1))) - (IntMax + 1)
    BY DEF Convert!ToInt
  <2> QED  BY <2>2, <2>3, <2>4
<1>7. \A n \in Int : -(2 * IntMax + 1) <= n /\ n <= 2 * IntMax + 1 => Convert!ToLong(n) = n
  <2> TAKE n \in Int
  <2> HAVE -(2 * IntMax + 1) <= n /\ n <= 2 * IntMax + 1
  <2>1. PICK h \in Nat : h = Word \div 2 /\ h >= 8 * (IntMax + 1) /\ 2 * h <= Word  BY <1>1
  <2>2. n + h \in 0..(Word - 1)  BY <1>1, <2>1
  <2>3. (n + h) % Word = n + h  BY <1>1, <2>2
  <2>4. n + h - h = n  BY <2>1
  <2> QED  BY <2>1, <2>3, <2>4 DEF Convert!ToLong
<1>8. ASSUME NEW n \in 0..(2 * IntMax + 1)
      PROVE  Convert!ToLong(n) = n /\ Convert!ToLong(-n) = -n
  <2>1. /\ n \in Int /\ -n \in Int /\ -(2 * IntMax + 1) <= n /\ n <= 2 * IntMax + 1
        /\ -(2 * IntMax + 1) <= -n /\ -n <= 2 * IntMax + 1
    BY <1>1
  <2> QED  BY <1>7, <2>1
<1> QED  BY <1>1, <1>4, <1>5, <1>6, <1>8

(* The base that strtol takes, and numbers within its bounds.               *)
Radix(base, b) == base \in {0, 10, 16} /\ b = IF base = 0 THEN 10 ELSE base
WithinInt(v, k) == (\A m \in 0..(k - 1) : v[m] < IntMax) /\ v[k] <= 2 * IntMax + 1

(* Spaces up to a, a sign or not, and what is to be read from i on.         *)
StandsBefore(s, a, i) ==
  /\ a \in 1..(Len(s) + 1) /\ Convert!At(s, a) # Convert!Space
  /\ \A j \in 1..(a - 1) : s[j] = Convert!Space
  /\ i = IF Convert!At(s, a) \in {Convert!Minus, Convert!Plus} THEN a + 1 ELSE a

(* strtol passes over spaces and a sign, and then reads.                    *)
LEMMA StrtolIs ==
  ASSUME Convert!NumbersAssumption, NEW s, Len(s) \in Nat, DOMAIN s = 1..Len(s),
         NEW base, NEW b, Radix(base, b),
         NEW a, NEW i, NEW k, NEW v, StandsBefore(s, a, i),
         ~Convert!PrefixAt(s, i, base), DigitsAt(s, i, k, b), ValueOf(v, s, i, b),
         WithinInt(v, k)
  PROVE  Convert!strtol(s, base) =
           IF Convert!At(s, a) = Convert!Minus THEN -v[k] ELSE v[k]
<1> USE DEF StandsBefore, Radix, WithinInt
<1> DEFINE neg == Convert!At(s, a) = Convert!Minus
<1>1. Convert!SkipSpaces(s) = a
  <2> DEFINE P(x) == Convert!At(s, x) # Convert!Space /\ \A j \in 1..(x - 1) : s[j] = Convert!Space
  <2>1. P(a)  OBVIOUS
  <2>2. ASSUME NEW x \in 1..(Len(s) + 1), P(x) PROVE x = a
    <3>1. CASE x < a
      <4>1. x \in 1..(a - 1) /\ x \in DOMAIN s  BY <3>1
      <4>2. Convert!At(s, x) = s[x]  BY <4>1 DEF Convert!At
      <4> QED  BY <2>2, <4>1, <4>2
    <3>2. CASE a < x
      <4>1. a \in 1..(x - 1) /\ a \in DOMAIN s  BY <3>2
      <4>2. Convert!At(s, a) = s[a]  BY <4>1 DEF Convert!At
      <4> QED  BY <2>1, <2>2, <4>1, <4>2
    <3> QED  BY <3>1, <3>2
  <2>3. Convert!SkipSpaces(s) = CHOOSE x \in 1..(Len(s) + 1) : P(x)
    BY DEF Convert!SkipSpaces
  <2> HIDE DEF P
  <2> QED  BY <2>1, <2>2, <2>3
<1>2. b \in {10, 16} /\ b \in Nat /\ b \in 2..36  OBVIOUS
<1>3. Convert!strtol(s, base) =
        Convert!ToLong(IF neg THEN -Convert!Read(s, i, b, neg) ELSE Convert!Read(s, i, b, neg))
  BY <1>1, <1>2 DEF Convert!strtol
<1>4. /\ v \in [Nat -> Nat] /\ k \in Nat  BY DEF ValueOf, DigitsAt
<1>5. /\ IntMax \in Nat /\ Word \in Nat /\ Word > 16 * (IntMax + 1)
      /\ \A n \in 0..(2 * IntMax + 1) : Convert!ToLong(n) = n /\ Convert!ToLong(-n) = -n
  BY Widths
<1>6. Convert!Overflow(neg) \in Nat /\ Convert!Overflow(neg) >= IntMax
  <2>1. CASE neg
    <3>1. Convert!Overflow(neg) = IntMax  BY <2>1 DEF Convert!Overflow
    <3> QED  BY <3>1, <1>5
  <2>2. CASE ~neg
    <3>1. Convert!Overflow(neg) = Word + (-(IntMax + 1))
      BY <2>2 DEF Convert!Overflow, Convert!IntMin
    <3> QED  BY <3>1, <1>5
  <2> QED  BY <2>1, <2>2
<1> HIDE DEF neg
<1>7. \A m \in 0..(k - 1) : v[m] < Convert!Overflow(neg) /\ v[m] < Word
  <2> TAKE m \in 0..(k - 1)
  <2>1. m \in Nat  BY <1>4
  <2>2. v[m] \in Nat /\ v[m] < IntMax  BY <1>4, <2>1
  <2> QED  BY <1>5, <1>6, <2>2
<1>8. v[k] \in 0..(2 * IntMax + 1) /\ v[k] < Word
  <2>1. v[k] \in Nat  BY <1>4
  <2> QED  BY <1>5, <2>1
<1>9. Convert!Read(s, i, b, neg) = v[k]  BY <1>2, <1>6, <1>7, <1>8, ReadIs
<1> QED  BY <1>3, <1>5, <1>8, <1>9 DEF neg

(* The fold of Denotes, step by step, is ValueOf.                           *)
DenoteFolds(g, d, b) ==
  g = [t \in SUBSET (DOMAIN d) |->
         IF t = {} THEN 0 ELSE g[t \ {Max(t)}] * b + Convert!DigitOf(d[Max(t)])]

LEMMA ConvertMax == \A t : Convert!Max(t) = Max(t)  BY DEF Convert!Max, Max

LEMMA DenotesIs ==
  ASSUME NEW d, NEW n \in Nat, DOMAIN d = 1..n, NEW b \in Nat, NEW v, ValueOf(v, d, 1, b)
  PROVE  Convert!Denotes(d, b) = v[n]
<1> DEFINE X == {d[i] : i \in 1..n}
           F == [x \in Nat \X X |-> x[1] * b + Convert!DigitOf(x[2])]
<1>1. F \in [Nat \X X -> Nat]
  <2>1. \A x \in Nat : \A c : x * b + Convert!DigitOf(c) \in Nat
    <3> TAKE x \in Nat
    <3> TAKE c
    <3>1. x * b \in Nat  OBVIOUS
    <3>2. Convert!DigitOf(c) \in 0..36  BY DigitType
    <3>3. \A y \in Nat, z \in 0..36 : y + z \in Nat  OBVIOUS
    <3> QED  BY <3>1, <3>2, <3>3
  <2> QED  BY <2>1
<1>2. \A i \in 1..n : d[i] \in X  OBVIOUS
<1>3. \A x \in Nat, c \in X : F[<<x, c>>] = x * b + Convert!DigitOf(c)  OBVIOUS
<1> HIDE DEF F, X
<1>4. PICK f \in [SUBSET (1..n) -> Nat] : Fold(f, n, F, 0, d)
  <2>1. Foldable(n, Nat, X, F, 0, d)  BY <1>1, <1>2 DEF Foldable
  <2>2. HasFold(n, Nat, F, 0, d)  BY ONLY <2>1, FoldExists
  <2> QED  BY ONLY <2>2 DEF HasFold
<1>5. DenoteFolds(f, d, b)
  <2> DEFINE e == [t \in SUBSET (1..n) |->
                     IF t = {} THEN 0 ELSE f[t \ {Max(t)}] * b + Convert!DigitOf(d[Max(t)])]
  <2>1. ASSUME NEW t \in SUBSET (1..n) PROVE f[t] = e[t]
    <3>1. CASE t = {}  BY <3>1, <1>4 DEF Fold
    <3>2. CASE t # {}
      <4>1. Max(t) \in 1..n /\ t \ {Max(t)} \in SUBSET (1..n)  BY <3>2, MaxIs
      <4>2. f[t \ {Max(t)}] \in Nat /\ d[Max(t)] \in X  BY <4>1, <1>2
      <4>3. f[t] = F[<<f[t \ {Max(t)}], d[Max(t)]>>]  BY <1>4, <3>2 DEF Fold
      <4> QED  BY <3>2, <4>2, <4>3, <1>3
    <3> QED  BY <3>1, <3>2
  <2> HIDE DEF e
  <2>2. f = [t \in SUBSET (1..n) |-> f[t]] /\ e = [t \in SUBSET (1..n) |-> e[t]]  BY DEF e
  <2>3. f = e  BY <2>1, <2>2
  <2> QED  BY <2>3 DEF e, DenoteFolds
<1> DEFINE g == CHOOSE g : DenoteFolds(g, d, b)
<1>6. DenoteFolds(g, d, b)  BY <1>5
<1>7. Convert!Denotes(d, b) = g[DOMAIN d]
  BY ConvertMax DEF Convert!Denotes, Convert!FoldLeft, Convert!MapThenFoldSet, DenoteFolds
<1> HIDE DEF g
<1>8. \A t \in SUBSET (1..n) :
        g[t] = IF t = {} THEN 0 ELSE g[t \ {Max(t)}] * b + Convert!DigitOf(d[Max(t)])
  BY <1>6 DEF DenoteFolds
<1>9. /\ v \in [Nat -> Nat] /\ v[0] = 0
      /\ \A m \in Nat : v[m + 1] = v[m] * b + Convert!DigitOf(d[1 + m])
  BY DEF ValueOf
<1> DEFINE S == {m \in 0..n : g[1..m] = v[m]}
<1>10. 0 \in S
  <2>1. 1..0 = {} /\ {} \in SUBSET (1..n) /\ 0 \in 0..n  OBVIOUS
  <2>2. g[1..0] = 0  BY <1>8, <2>1
  <2> QED  BY <1>9, <2>1, <2>2
<1>11. ASSUME NEW m \in 1..n, m - 1 \in S PROVE m \in S
  <2>1. g[1..m] = g[(1..m) \ {Max(1..m)}] * b + Convert!DigitOf(d[Max(1..m)])
    BY <1>8, InitialSets
  <2>2. g[1..m] = g[1..(m - 1)] * b + Convert!DigitOf(d[m])  BY <2>1, InitialSets
  <2>3. m - 1 \in Nat /\ m - 1 + 1 = m /\ 1 + (m - 1) = m /\ m \in 0..n  OBVIOUS
  <2>4. v[m] = v[m - 1] * b + Convert!DigitOf(d[m])  BY <1>9, <2>3
  <2> QED  BY <1>11, <2>2, <2>3, <2>4
<1> HIDE DEF S
<1>12. n \in S  BY <1>10, <1>11, Climb
<1>13. g[1..n] = v[n]  BY <1>12 DEF S
<1> QED  BY <1>7, <1>13

(* k digits are worth less than the k-th power of 16.                       *)
LEMMA ValueSmall ==
  ASSUME NEW s, NEW i, NEW k \in Nat, NEW b \in {10, 16}, NEW v, ValueOf(v, s, i, b),
         \A j \in 0..(k - 1) : Convert!DigitOf(s[i + j]) < b
  PROVE  \A m \in 0..k : v[m] + 1 <= Convert!Power(16, m)
<1> DEFINE P(m) == Convert!Power(16, m)
           S == {m \in 0..k : v[m] + 1 <= P(m)}
<1>1. P(0) = 1 /\ \A m \in Nat : P(m) \in Nat \ {0} /\ P(m + 1) = 16 * P(m)
  <2>1. 16 \in Nat \ {0}  OBVIOUS
  <2> QED  BY <2>1, PowerIs
<1>2. /\ v \in [Nat -> Nat] /\ v[0] = 0
      /\ \A m \in Nat : v[m + 1] = v[m] * b + Convert!DigitOf(s[i + m])
  BY DEF ValueOf
<1> HIDE DEF P
<1>3. 0 \in S  BY <1>1, <1>2
<1>4. ASSUME NEW m \in 1..k, m - 1 \in S PROVE m \in S
  <2>1. m - 1 \in Nat /\ m - 1 + 1 = m /\ m - 1 \in 0..(k - 1) /\ m \in 0..k  OBVIOUS
  <2>2. PICK d \in 0..36 : d = Convert!DigitOf(s[i + (m - 1)]) /\ d < b
    <3>1. Convert!DigitOf(s[i + (m - 1)]) < b  BY <2>1
    <3> QED  BY <3>1, DigitType
  <2>3. v[m] = v[m - 1] * b + d /\ P(m) = 16 * P(m - 1) /\ P(m - 1) \in Nat
        /\ v[m - 1] \in Nat /\ v[m - 1] + 1 <= P(m - 1)
    BY <1>1, <1>2, <1>4, <2>1, <2>2
  <2>4. v[m] + 1 <= P(m)
    <3>1. CASE b = 10  BY <2>2, <2>3, <3>1
    <3>2. CASE b = 16  BY <2>2, <2>3, <3>2
    <3> QED  BY <3>1, <3>2
  <2> QED  BY <2>1, <2>4
<1> HIDE DEF S
<1>5. \A m \in 0..k : m \in S  BY <1>3, <1>4, Climb
<1> QED  BY <1>5 DEF S, P

(* So no more digits than an unsigned int has stay within the bounds.       *)
LEMMA ValueFits ==
  ASSUME Convert!NumbersAssumption, NEW s, NEW i, NEW k \in 1..HexDigits, NEW b \in {10, 16},
         NEW v, ValueOf(v, s, i, b), \A j \in 0..(k - 1) : Convert!DigitOf(s[i + j]) < b
  PROVE  WithinInt(v, k)
<1> DEFINE P(m) == Convert!Power(16, m)
<1>1. P(0) = 1 /\ \A m \in Nat : P(m) \in Nat \ {0} /\ P(m + 1) = 16 * P(m)
  <2>1. 16 \in Nat \ {0}  OBVIOUS
  <2> QED  BY <2>1, PowerIs
<1>2. HexDigits \in Nat /\ IntMax \in Nat /\ IntMax >= 7 /\ P(HexDigits) = 2 * (IntMax + 1)
  BY Widths
<1>3. k \in Nat /\ v \in [Nat -> Nat]  BY <1>2 DEF ValueOf
<1>4. \A m \in 0..k : v[m] + 1 <= P(m)  BY <1>3, ValueSmall
<1>5. \A m \in 0..HexDigits : P(m) <= P(HexDigits)
  <2> TAKE m \in 0..HexDigits
  <2>1. m \in Nat /\ m <= HexDigits /\ 16 \in {10, 16}  BY <1>2
  <2> QED  BY <1>2, <2>1, PowerGrows
<1> HIDE DEF P
<1>6. ASSUME NEW m \in 0..(k - 1) PROVE v[m] < IntMax
  <2>1. m \in Nat /\ m \in 0..k /\ m + 1 \in 0..HexDigits  BY <1>2, <1>3
  <2>2. v[m] + 1 <= P(m) /\ P(m + 1) = 16 * P(m) /\ P(m + 1) <= 2 * (IntMax + 1)
    BY <1>1, <1>2, <1>4, <1>5, <2>1
  <2>3. v[m] \in Nat /\ P(m) \in Nat  BY <1>1, <1>3, <2>1
  <2>4. 16 * P(m) <= 2 * (IntMax + 1)  BY <2>2
  <2> QED  BY <1>2, <2>2, <2>3, <2>4
<1>7. v[k] <= 2 * IntMax + 1
  <2>1. k \in 0..k /\ k \in 0..HexDigits  BY <1>2, <1>3
  <2>2. v[k] + 1 <= P(k) /\ P(k) <= 2 * (IntMax + 1)  BY <1>2, <1>4, <1>5, <2>1
  <2>3. v[k] \in Nat /\ P(k) \in Nat  BY <1>1, <1>3
  <2> QED  BY <1>2, <2>2, <2>3
<1> QED  BY <1>6, <1>7 DEF WithinInt

(* What may stand before the digits is passed over, and gives the sign.     *)
Prefixed(s, i, before) ==
  /\ before = SubSeq(s, 1, i - 1)
  /\ before \in {<<>>, <<Convert!Space>>, <<Convert!Plus>>, <<Convert!Minus>>,
                 <<Convert!Space, Convert!Minus>>}
SignIn(s, a, before) ==
  (Convert!At(s, a) = Convert!Minus) <=> (Convert!Minus \in Convert!ToSet(before))

SignAt(s, a, i, before) ==
  \/ /\ Convert!At(s, a) \notin {32, 43, 45} /\ i = a /\ 45 \notin Convert!ToSet(before)
  \/ /\ Convert!At(s, a) = 43 /\ i = a + 1 /\ 45 \notin Convert!ToSet(before)
  \/ /\ Convert!At(s, a) = 45 /\ i = a + 1 /\ 45 \in Convert!ToSet(before)

LEMMA Stands ==
  ASSUME NEW s, NEW a, a \in 1..(Len(s) + 1), \A j \in 1..(a - 1) : s[j] = 32,
         NEW i, NEW before, SignAt(s, a, i, before)
  PROVE  StandsBefore(s, a, i) /\ SignIn(s, a, before)
BY DEF SignAt, StandsBefore, SignIn, Convert!Space, Convert!Plus, Convert!Minus

LEMMA BeforeDigits ==
  ASSUME NEW s \in Seq(Nat), NEW i \in 1..Len(s), NEW k \in Nat \ {0}, NEW b \in {10, 16},
         DigitsAt(s, i, k, b), NEW before, Prefixed(s, i, before)
  PROVE  \E a : StandsBefore(s, a, i) /\ SignIn(s, a, before)
<1> USE DEF Convert!Space, Convert!Plus, Convert!Minus, Prefixed
<1>1. /\ Len(s) \in Nat /\ DOMAIN s = 1..Len(s)
      /\ Len(before) = i - 1 /\ DOMAIN before = 1..(i - 1)
      /\ \A j \in 1..(i - 1) : before[j] = s[j]
  <2>1. Len(s) \in Nat /\ DOMAIN s = 1..Len(s) /\ i - 1 \in 0..Len(s)  OBVIOUS
  <2>2. before = [j \in 1..(i - 1) |-> s[j]]  BY <2>1
  <2> QED  BY <2>1, <2>2
<1>2. \A j \in 1..Len(s) : Convert!At(s, j) = s[j]  BY <1>1 DEF Convert!At
<1>3. s[i] \notin {32, 43, 45}
  <2>1. 0 \in 0..(k - 1) /\ i + 0 = i  OBVIOUS
  <2>2. Convert!DigitOf(s[i]) < b  BY <2>1 DEF DigitsAt
  <2>3. Convert!DigitOf(32) = 36 /\ Convert!DigitOf(43) = 36 /\ Convert!DigitOf(45) = 36
    BY DEF Convert!DigitOf
  <2>4. ~(36 < b)  OBVIOUS
  <2> QED  BY <2>2, <2>3, <2>4
<1>4. \A m \in Convert!ToSet(before) : \E j \in 1..(i - 1) : m = s[j]
  BY <1>1 DEF Convert!ToSet
<1>5. \A j \in 1..(i - 1) : s[j] \in Convert!ToSet(before)  BY <1>1 DEF Convert!ToSet
<1>6. \A x : Len(<<x>>) = 1 /\ <<x>>[1] = x  OBVIOUS
<1>7. \A x, y : Len(<<x, y>>) = 2 /\ <<x, y>>[1] = x /\ <<x, y>>[2] = y  OBVIOUS
<1>8. ASSUME Len(before) = 1 PROVE i = 2 /\ before[1] = s[1]
  <2>1. i - 1 = 1  BY <1>1, <1>8
  <2>2. i = 2 /\ 1 \in 1..(i - 1)  BY <2>1
  <2> QED  BY <1>1, <2>2
<1>9. ASSUME Len(before) = 2 PROVE i = 3 /\ before[1] = s[1] /\ before[2] = s[2]
  <2>1. i - 1 = 2  BY <1>1, <1>9
  <2>2. i = 3 /\ 1 \in 1..(i - 1) /\ 2 \in 1..(i - 1)  BY <2>1
  <2> QED  BY <1>1, <2>2
<1>10. CASE before = <<>>
  <2>1. i = 1  BY <1>1, <1>10
  <2>2. 45 \notin Convert!ToSet(before)  BY <1>4, <2>1
  <2>3. 1 \in 1..(Len(s) + 1) /\ Convert!At(s, 1) = s[1]  BY <1>1, <1>2, <2>1
  <2>4. \A j \in 1..(1 - 1) : s[j] = 32  OBVIOUS
  <2>5. Convert!At(s, 1) \notin {32, 43, 45}  BY <1>3, <2>1, <2>3
  <2>6. SignAt(s, 1, i, before)  BY <2>1, <2>2, <2>3, <2>5 DEF SignAt
  <2>7. StandsBefore(s, 1, i) /\ SignIn(s, 1, before)  BY <2>3, <2>4, <2>6, Stands
  <2> QED  BY <2>7
<1>11. CASE before = <<32>>
  <2>1. i = 2 /\ s[1] = 32
    <3>1. Len(before) = 1 /\ before[1] = 32  BY ONLY <1>11
    <3> QED  BY <1>8, <3>1
  <2>2. 45 \notin Convert!ToSet(before)  BY <1>4, <2>1
  <2>3. 2 \in 1..(Len(s) + 1) /\ Convert!At(s, 2) = s[2]  BY <1>1, <1>2, <2>1
  <2>4. \A j \in 1..(2 - 1) : s[j] = 32  BY <2>1
  <2>5. Convert!At(s, 2) \notin {32, 43, 45}  BY <1>3, <2>1, <2>3
  <2>6. SignAt(s, 2, i, before)  BY <2>1, <2>2, <2>3, <2>5 DEF SignAt
  <2>7. StandsBefore(s, 2, i) /\ SignIn(s, 2, before)  BY <2>3, <2>4, <2>6, Stands
  <2> QED  BY <2>7
<1>12. CASE before = <<43>>
  <2>1. i = 2 /\ s[1] = 43
    <3>1. Len(before) = 1 /\ before[1] = 43  BY ONLY <1>12
    <3> QED  BY <1>8, <3>1
  <2>2. 45 \notin Convert!ToSet(before)  BY <1>4, <2>1
  <2>3. 1 \in 1..(Len(s) + 1) /\ Convert!At(s, 1) = 43  BY <1>1, <1>2, <2>1
  <2>4. \A j \in 1..(1 - 1) : s[j] = 32  OBVIOUS
  <2>5. SignAt(s, 1, i, before)  BY <2>1, <2>2, <2>3 DEF SignAt
  <2>6. StandsBefore(s, 1, i) /\ SignIn(s, 1, before)  BY <2>3, <2>4, <2>5, Stands
  <2> QED  BY <2>6
<1>13. CASE before = <<45>>
  <2>1. i = 2 /\ s[1] = 45
    <3>1. Len(before) = 1 /\ before[1] = 45  BY ONLY <1>13
    <3> QED  BY <1>8, <3>1
  <2>2. 45 \in Convert!ToSet(before)
    <3>1. 1 \in 1..(i - 1)  BY <2>1
    <3> QED  BY <1>5, <2>1, <3>1
  <2>3. 1 \in 1..(Len(s) + 1) /\ Convert!At(s, 1) = 45  BY <1>1, <1>2, <2>1
  <2>4. \A j \in 1..(1 - 1) : s[j] = 32  OBVIOUS
  <2>5. SignAt(s, 1, i, before)  BY <2>1, <2>2, <2>3 DEF SignAt
  <2>6. StandsBefore(s, 1, i) /\ SignIn(s, 1, before)  BY <2>3, <2>4, <2>5, Stands
  <2> QED  BY <2>6
<1>14. CASE before = <<32, 45>>
  <2>1. i = 3 /\ s[1] = 32 /\ s[2] = 45
    <3>1. Len(before) = 2 /\ before[1] = 32 /\ before[2] = 45  BY ONLY <1>14
    <3> QED  BY <1>9, <3>1
  <2>2. 45 \in Convert!ToSet(before)
    <3>1. 2 \in 1..(i - 1)  BY <2>1
    <3> QED  BY <1>5, <2>1, <3>1
  <2>3. 2 \in 1..(Len(s) + 1) /\ Convert!At(s, 2) = 45  BY <1>1, <1>2, <2>1
  <2>4. \A j \in 1..(2 - 1) : s[j] = 32  BY <2>1
  <2>5. SignAt(s, 2, i, before)  BY <2>1, <2>2, <2>3 DEF SignAt
  <2>6. StandsBefore(s, 2, i) /\ SignIn(s, 2, before)  BY <2>3, <2>4, <2>5, Stands
  <2> QED  BY <2>6
<1> QED  BY <1>10, <1>11, <1>12, <1>13, <1>14

LEMMA ExactlyRead ==
  ASSUME Convert!NumbersAssumption, NEW s \in Seq(Nat), NEW base, NEW b, Radix(base, b),
         NEW i \in 1..Len(s), NEW k \in 1..HexDigits, DigitsAt(s, i, k, b),
         ~Convert!PrefixAt(s, i, base), NEW before, Prefixed(s, i, before)
  PROVE  Convert!strtol(s, base) =
           (IF Convert!Minus \in Convert!ToSet(before) THEN -1 ELSE 1)
             * Convert!Denotes(SubSeq(s, i, i + k - 1), b)
<1>1. /\ Len(s) \in Nat /\ DOMAIN s = 1..Len(s) /\ b \in {10, 16} /\ HexDigits \in Nat
      /\ i + k - 1 <= Len(s) /\ \A j \in 0..(k - 1) : Convert!DigitOf(s[i + j]) < b
  BY Widths DEF DigitsAt, Radix
<1>2. PICK v : ValueOf(v, s, i, b)
  <2>1. i \in Nat /\ b \in Nat  BY <1>1
  <2> QED  BY <2>1, ValueExists
<1>3. WithinInt(v, k)
  BY <1>1, <1>2, ValueFits
<1>4. PICK a : StandsBefore(s, a, i) /\ SignIn(s, a, before)
  <2>1. k \in Nat \ {0}  BY <1>1
  <2>2. b \in {10, 16}  BY <1>1
  <2>3. s \in Seq(Nat) /\ i \in 1..Len(s) /\ DigitsAt(s, i, k, b) /\ Prefixed(s, i, before)
    OBVIOUS
  <2> QED  BY ONLY <2>1, <2>2, <2>3, BeforeDigits
<1>5. Convert!strtol(s, base) = IF Convert!At(s, a) = Convert!Minus THEN -v[k] ELSE v[k]
  <2>1. Len(s) \in Nat /\ DOMAIN s = 1..Len(s)  BY <1>1
  <2>2. StandsBefore(s, a, i)  BY <1>4
  <2>3. /\ Convert!NumbersAssumption /\ Radix(base, b) /\ ~Convert!PrefixAt(s, i, base)
        /\ DigitsAt(s, i, k, b)
    OBVIOUS
  <2> QED  BY ONLY <1>2, <1>3, <2>1, <2>2, <2>3, StrtolIs
<1>6. Convert!Denotes(SubSeq(s, i, i + k - 1), b) = v[k]
  <2> DEFINE d == SubSeq(s, i, i + k - 1)
  <2>1. k \in Nat /\ d = [j \in 1..k |-> s[i + j - 1]]
    <3>1. i \in Nat /\ k \in Nat /\ i + k - 1 \in Nat /\ i + k - 1 - i + 1 = k  BY <1>1
    <3>2. d = [j \in 1..(i + k - 1 - i + 1) |-> s[i + j - 1]]  BY <1>1, <3>1
    <3> QED  BY <3>1, <3>2
  <2>2. DOMAIN d = 1..k /\ \A j \in 1..k : d[j] = s[i + j - 1]  BY <2>1
  <2> HIDE DEF d
  <2>3. PICK w : ValueOf(w, d, 1, b)
    <3>1. 1 \in Nat /\ b \in Nat  BY <1>1
    <3> QED  BY <3>1, ValueExists
  <2>4. Convert!Denotes(d, b) = w[k]
    <3>1. b \in Nat  BY <1>1
    <3> QED  BY <2>1, <2>2, <2>3, <3>1, DenotesIs
  <2> DEFINE S == {m \in 0..k : w[m] = v[m]}
  <2>5. 0 \in S
    <3>1. 0 \in 0..k /\ w[0] = 0 /\ v[0] = 0  BY <1>2, <2>1, <2>3 DEF ValueOf
    <3> QED  BY <3>1
  <2>6. ASSUME NEW m \in 1..k, m - 1 \in S PROVE m \in S
    <3>1. m - 1 \in Nat /\ m - 1 + 1 = m /\ 1 + (m - 1) = m /\ i + (m - 1) = i + m - 1
          /\ m \in 0..k
      BY <2>1
    <3>2. w[m] = w[m - 1] * b + Convert!DigitOf(d[m])  BY <2>3, <3>1 DEF ValueOf
    <3>3. v[m] = v[m - 1] * b + Convert!DigitOf(s[i + m - 1])  BY <1>2, <3>1 DEF ValueOf
    <3> QED  BY <2>2, <2>6, <3>1, <3>2, <3>3
  <2> HIDE DEF S
  <2>7. k \in S
    <3>1. \A m \in 0..k : m \in S  BY <2>1, <2>5, <2>6, Climb
    <3> QED  BY <2>1, <3>1
  <2>8. w[k] = v[k]  BY <2>7 DEF S
  <2> QED  BY <2>4, <2>8 DEF d
<1>7. v[k] \in Nat
  <2>1. k \in Nat  BY <1>1
  <2> QED  BY <1>2, <2>1 DEF ValueOf
<1>8. -v[k] = (-1) * v[k] /\ v[k] = 1 * v[k]  BY <1>7
<1> QED  BY <1>4, <1>5, <1>6, <1>8 DEF SignIn

(* What one call has left, if there has been one.                           *)
NumberInv ==
  \/ last = <<"none", 0, 0>>
  \/ \E s \in Seq(Chars), base \in {0, 10, 16} :
       last = <<"strtol", <<s, base>>, Convert!strtol(s, base)>>
  \/ \E n \in Convert!Ints : last = <<"uart_int", n, Convert!uart_int(n)>>
  \/ \E d \in 0..(Convert!Power(16, HexDigits) - 1) : last = <<"uart_hex", d, Convert!uart_hex(d)>>
  \/ \E val \in 0..(Word - 1) : last = <<"ltoa", val, Convert!ltoa(val)>>
  \/ \E q \in Quotients : last = <<"fdivtoa", q, Convert!fdivtoa(q[1], q[2])>>

LEMMA NumberStep ==
  ASSUME Convert!NumbersAssumption, NumberInv, [Convert!Next]_last
  PROVE  NumberInv'
<1>1. MaxLen \in Nat  BY DEF Convert!NumbersAssumption
<1>2. Convert!Texts \subseteq Seq(Chars)
  <2>1. \A m \in Nat : [1..m -> Chars] \subseteq Seq(Chars)  OBVIOUS
  <2>2. \A m \in 0..MaxLen : m \in Nat  BY <1>1
  <2> QED  BY <2>1, <2>2 DEF Convert!Texts, Convert!BoundedSeq, Convert!SeqOf
<1>3. CASE UNCHANGED last  BY <1>3 DEF NumberInv
<1>4. CASE Convert!Next
  <2>1. \/ \E s \in Seq(Chars), base \in {0, 10, 16} :
             last' = <<"strtol", <<s, base>>, Convert!strtol(s, base)>>
        \/ \E n \in Convert!Ints : last' = <<"uart_int", n, Convert!uart_int(n)>>
        \/ \E d \in 0..(Convert!Power(16, HexDigits) - 1) :
             last' = <<"uart_hex", d, Convert!uart_hex(d)>>
        \/ \E val \in 0..(Word - 1) : last' = <<"ltoa", val, Convert!ltoa(val)>>
        \/ \E q \in Quotients : last' = <<"fdivtoa", q, Convert!fdivtoa(q[1], q[2])>>
    BY <1>2, <1>4 DEF Convert!Next
  <2> QED  BY <2>1 DEF NumberInv
<1> QED  BY <1>3, <1>4

LEMMA ReadsRight ==
  ASSUME Convert!NumbersAssumption, NEW s \in Seq(Chars), NEW base \in {0, 10, 16},
         last = <<"strtol", <<s, base>>, Convert!strtol(s, base)>>
  PROVE  ReadsExactly
<1>1. Chars \subseteq Nat  BY DEF Convert!NumbersAssumption
<1>2. s \in Seq(Nat) /\ Len(s) \in Nat /\ DOMAIN s = 1..Len(s)
  <2>1. Len(s) \in Nat /\ DOMAIN s = 1..Len(s) /\ s \in [1..Len(s) -> Chars]  OBVIOUS
  <2>2. s \in [1..Len(s) -> Nat]  BY <1>1, <2>1
  <2> QED  BY <2>1, <2>2
<1>3. last[2][1] = s /\ last[2][2] = base /\ last[3] = Convert!strtol(s, base)  OBVIOUS
<1> DEFINE b == IF base = 0 THEN 10 ELSE base
<1>4. Radix(base, b) /\ b \in {10, 16}  BY DEF Radix
<1>5. HexDigits \in Nat  BY Widths
<1> HIDE DEF b
<1>6. ASSUME NEW i \in 1..Len(s), NEW k \in 1..HexDigits, i + k - 1 <= Len(s),
             \A j \in 1..k : Convert!DigitOf(SubSeq(s, i, i + k - 1)[j]) < b,
             Convert!DigitOf(Convert!At(s, i + k)) >= b,
             SubSeq(s, 1, i - 1) \in {<<>>, <<Convert!Space>>, <<Convert!Plus>>, <<Convert!Minus>>,
                                      <<Convert!Space, Convert!Minus>>},
             ~Convert!PrefixAt(s, i, base)
      PROVE  Convert!strtol(s, base) =
               (IF Convert!Minus \in Convert!ToSet(SubSeq(s, 1, i - 1)) THEN -1 ELSE 1)
                 * Convert!Denotes(SubSeq(s, i, i + k - 1), b)
  <2>1. DigitsAt(s, i, k, b)
    <3>1. i \in Nat \ {0} /\ k \in Nat  BY <1>5
    <3>2. ASSUME NEW j \in 0..(k - 1) PROVE Convert!DigitOf(s[i + j]) < b
      <4>1. j + 1 \in 1..k /\ i + (j + 1) - 1 = i + j /\ i + k - 1 \in i..Len(s)
        BY <1>2, <1>6, <3>1
      <4>2. SubSeq(s, i, i + k - 1)[j + 1] = s[i + (j + 1) - 1]
        <5>1. PICK e : e = i + k - 1 /\ e \in Int /\ j + 1 \in 1..(e - i + 1)
          BY <3>1, <4>1
        <5>2. SubSeq(s, i, e) = [m \in 1..(e - i + 1) |-> s[i + m - 1]]
          BY <1>2, <3>1, <5>1
        <5> QED  BY <5>1, <5>2
      <4> QED  BY <1>6, <4>1, <4>2
    <3> QED  BY <1>6, <3>1, <3>2 DEF DigitsAt
  <2> DEFINE before == SubSeq(s, 1, i - 1)
  <2>2. Prefixed(s, i, before)  BY <1>6 DEF Prefixed
  <2> HIDE DEF before
  <2>3. Convert!strtol(s, base) =
          (IF Convert!Minus \in Convert!ToSet(before) THEN -1 ELSE 1)
            * Convert!Denotes(SubSeq(s, i, i + k - 1), b)
    BY <1>2, <1>4, <1>6, <2>1, <2>2, ExactlyRead
  <2> QED  BY <2>3 DEF before
<1> QED  BY <1>3, <1>6 DEF ReadsExactly, Convert!ReadsExactly, b

(* From i on s has the l digits of n.                                       *)
Spells(s, i, l, b, n) ==
  /\ \A j \in 0..(l - 1) :
       Convert!DigitOf(s[i + j]) = (n \div Convert!Power(b, l - 1 - j)) % b
  /\ i \in Nat \ {0} /\ l \in Nat \ {0} /\ Len(s) \in Nat /\ DOMAIN s = 1..Len(s)

LEMMA SpelledValue ==
  ASSUME NEW b \in {10, 16}, NEW n \in Nat, NEW l, n < Convert!Power(b, l),
         NEW s, NEW i, Spells(s, i, l, b, n), NEW v, ValueOf(v, s, i, b)
  PROVE  \A m \in 0..l : v[m] = n \div Convert!Power(b, l - m)
<1> DEFINE P(m) == Convert!Power(b, m)
           S == {m \in 0..l : v[m] = n \div P(l - m)}
<1>1. \A m \in Nat : P(m) \in Nat \ {0} /\ P(m + 1) = b * P(m)
  <2>1. b \in Nat \ {0}  OBVIOUS
  <2> QED  BY <2>1, PowerIs
<1>2. l \in Nat \ {0}  BY DEF Spells
<1>3. n < P(l)  OBVIOUS
<1>4. \A j \in 0..(l - 1) : Convert!DigitOf(s[i + j]) = (n \div P(l - 1 - j)) % b
  BY DEF Spells
<1>5. /\ v \in [Nat -> Nat] /\ v[0] = 0
      /\ \A m \in Nat : v[m + 1] = v[m] * b + Convert!DigitOf(s[i + m])
  BY DEF ValueOf
<1> HIDE DEF P
<1>6. 0 \in S
  <2>1. l - 0 = l /\ l \in Nat /\ 0 \in 0..l  BY <1>2
  <2>2. P(l) \in Nat \ {0}  BY <1>1, <2>1
  <2>3. n \div P(l) = 0  BY <1>3, <2>2
  <2> QED  BY <1>5, <2>1, <2>3
<1>7. ASSUME NEW m \in 1..l, m - 1 \in S PROVE m \in S
  <2>1. /\ m - 1 \in Nat /\ m - 1 + 1 = m /\ m \in 0..l /\ m - 1 \in 0..(l - 1) /\ l - m \in Nat
        /\ l - 1 - (m - 1) = l - m /\ l - (m - 1) = l - m + 1
    BY <1>2
  <2> DEFINE q == P(l - m)
  <2>2. q \in Nat \ {0} /\ P(l - (m - 1)) = b * q  BY <1>1, <2>1
  <2>3. v[m] = v[m - 1] * b + ((n \div q) % b)  BY <1>4, <1>5, <2>1
  <2>4. v[m - 1] = n \div (b * q)  BY <1>7, <2>2
  <2> HIDE DEF q
  <2>5. (n \div (b * q)) * b + ((n \div q) % b) = n \div q
    <3>1. CASE b = 10
      <4>1. n \div (10 * q) = (n \div q) \div 10  BY <2>2
      <4>2. \A x \in Nat : (x \div 10) * 10 + (x % 10) = x  OBVIOUS
      <4>3. n \div q \in Nat  BY <2>2
      <4> QED  BY <3>1, <4>1, <4>2, <4>3
    <3>2. CASE b = 16
      <4>1. n \div (16 * q) = (n \div q) \div 16  BY <2>2
      <4>2. \A x \in Nat : (x \div 16) * 16 + (x % 16) = x  OBVIOUS
      <4>3. n \div q \in Nat  BY <2>2
      <4> QED  BY <3>2, <4>1, <4>2, <4>3
    <3> QED  BY <3>1, <3>2
  <2>6. v[m] = n \div P(l - m)  BY <2>3, <2>4, <2>5 DEF q
  <2> QED  BY <2>1, <2>6
<1> HIDE DEF S
<1>8. l \in Nat  BY <1>2
<1>9. \A m \in 0..l : m \in S  BY <1>6, <1>7, <1>8, Climb
<1> QED  BY <1>9 DEF S, P

(* strtol reads the digits of n as n, whatever stands before them, if they  *)
(* are the end of the text.                                                 *)
LEMMA SpelledRead ==
  ASSUME Convert!NumbersAssumption, NEW base, NEW b, Radix(base, b), NEW n \in Nat,
         n <= 2 * IntMax + 1, NEW l, n < Convert!Power(b, l), NEW s, NEW i,
         Spells(s, i, l, b, n), i + l = Len(s) + 1, NEW a, StandsBefore(s, a, i),
         ~Convert!PrefixAt(s, i, base)
  PROVE  Convert!strtol(s, base) = IF Convert!At(s, a) = Convert!Minus THEN -n ELSE n
<1>1. /\ i \in Nat \ {0} /\ l \in Nat \ {0} /\ Len(s) \in Nat /\ DOMAIN s = 1..Len(s)
      /\ b \in {10, 16} /\ b \in Nat \ {0}
  BY DEF Spells, Radix
<1>2. PICK v : ValueOf(v, s, i, b)  BY <1>1, ValueExists
<1>3. \A m \in 0..l : v[m] = n \div Convert!Power(b, l - m)  BY <1>1, <1>2, SpelledValue
<1>4. v[l] = n
  <2>1. l \in 0..l /\ l - l = 0  BY <1>1
  <2>2. Convert!Power(b, 0) = 1 /\ n \div 1 = n  BY <1>1, PowerIs
  <2> QED  BY <1>3, <2>1, <2>2
<1>5. IntMax \in Nat /\ IntMax >= 7  BY Widths
<1>6. ASSUME NEW m \in 0..(l - 1) PROVE v[m] < IntMax
  <2>1. m \in 0..l /\ l - m - 1 \in Nat /\ l - m - 1 + 1 = l - m  BY <1>1
  <2>2. PICK q \in Nat \ {0} : Convert!Power(b, l - m) = b * q
    <3>1. /\ Convert!Power(b, l - m - 1) \in Nat \ {0}
          /\ Convert!Power(b, l - m - 1 + 1) = b * Convert!Power(b, l - m - 1)
      BY <1>1, <2>1, PowerIs
    <3> QED  BY <2>1, <3>1
  <2>3. v[m] = n \div (b * q)  BY <1>3, <2>1, <2>2
  <2>4. n \div q \in Nat /\ n \div q <= n  BY <2>2
  <2>5. n \div (b * q) < IntMax
    <3>1. CASE b = 10
      <4>1. n \div (10 * q) = (n \div q) \div 10  BY <2>2
      <4>2. (n \div q) \div 10 < IntMax  BY <1>5, <2>4
      <4> QED  BY <3>1, <4>1, <4>2
    <3>2. CASE b = 16
      <4>1. n \div (16 * q) = (n \div q) \div 16  BY <2>2
      <4>2. (n \div q) \div 16 < IntMax  BY <1>5, <2>4
      <4> QED  BY <3>2, <4>1, <4>2
    <3> QED  BY <1>1, <3>1, <3>2
  <2> QED  BY <2>3, <2>5
<1>7. WithinInt(v, l)  BY <1>4, <1>6 DEF WithinInt
<1>8. DigitsAt(s, i, l, b)
  <2>1. i + l - 1 <= Len(s) /\ l \in Nat  BY <1>1
  <2>2. ASSUME NEW j \in 0..(l - 1) PROVE Convert!DigitOf(s[i + j]) < b
    <3>1. Convert!DigitOf(s[i + j]) = (n \div Convert!Power(b, l - 1 - j)) % b  BY DEF Spells
    <3>2. l - 1 - j \in Nat  BY <1>1
    <3>3. PICK q \in Nat \ {0} : q = Convert!Power(b, l - 1 - j)  BY <1>1, <3>2, PowerIs
    <3>4. (n \div q) % b < b
      <4>1. n \div q \in Nat  BY <3>3
      <4>2. \A x \in Nat : x % 10 < 10 /\ x % 16 < 16  OBVIOUS
      <4> QED  BY <1>1, <4>1, <4>2
    <3> QED  BY <3>1, <3>3, <3>4
  <2>3. Convert!DigitOf(Convert!At(s, i + l)) >= b
    <3>1. i + l \notin DOMAIN s  BY <1>1
    <3>2. Convert!At(s, i + l) = 0  BY <3>1 DEF Convert!At
    <3>3. Convert!DigitOf(0) = 36  BY DEF Convert!DigitOf
    <3>4. 36 >= b  BY <1>1
    <3> QED  BY <3>2, <3>3, <3>4
  <2> QED  BY <1>1, <2>1, <2>2, <2>3 DEF DigitsAt
<1>9. Convert!strtol(s, base) = IF Convert!At(s, a) = Convert!Minus THEN -v[l] ELSE v[l]
  <2>1. Len(s) \in Nat /\ DOMAIN s = 1..Len(s)  BY <1>1
  <2>2. /\ Convert!NumbersAssumption /\ Radix(base, b) /\ ~Convert!PrefixAt(s, i, base)
        /\ StandsBefore(s, a, i)
    OBVIOUS
  <2> QED  BY ONLY <1>2, <1>7, <1>8, <2>1, <2>2, StrtolIs
<1> QED  BY <1>4, <1>9

(* uart_hex writes the hexadecimal digits, and strtol reads them.           *)
LEMMA HexDigitIs ==
  ASSUME NEW x \in 0..15
  PROVE  /\ Convert!DigitOf(Convert!HexDigit(x)) = x
         /\ Convert!HexDigit(x) \in 48..57 \/ Convert!HexDigit(x) \in 65..70
<1>1. CASE x > 9
  <2>1. Convert!HexDigit(x) = x + 55  BY <1>1 DEF Convert!HexDigit
  <2>2. x + 55 \in 65..70 /\ x + 55 - 65 + 10 = x  BY <1>1
  <2>3. x + 55 \notin 48..57 /\ x + 55 \notin 97..122 /\ x + 55 \in 65..90  BY <2>2
  <2>4. Convert!DigitOf(x + 55) = x + 55 - 65 + 10  BY <2>3 DEF Convert!DigitOf
  <2> QED  BY <2>1, <2>2, <2>4
<1>2. CASE ~(x > 9)
  <2>1. Convert!HexDigit(x) = x + 48  BY <1>2 DEF Convert!HexDigit, Convert!Zero
  <2>2. x + 48 \in 48..57 /\ x + 48 - 48 = x  BY <1>2
  <2>3. Convert!DigitOf(x + 48) = x + 48 - 48  BY <2>2 DEF Convert!DigitOf
  <2> QED  BY <2>1, <2>2, <2>3
<1> QED  BY <1>1, <1>2

LEMMA HexReadsBack ==
  ASSUME Convert!NumbersAssumption, NEW d \in 0..(Convert!Power(16, HexDigits) - 1)
  PROVE  Convert!strtol(Convert!uart_hex(d), 16) = d
<1> DEFINE s == Convert!uart_hex(d)
           l == HexDigits
           x(j) == (d \div Convert!Power(16, l - j)) % 16
<1>1. /\ l \in Nat \ {0} /\ IntMax \in Nat /\ Convert!Power(16, l) = 2 * (IntMax + 1)
      /\ d \in Nat /\ d < Convert!Power(16, l) /\ d <= 2 * IntMax + 1
  <2>1. l \in Nat \ {0} /\ IntMax \in Nat /\ Convert!Power(16, l) = 2 * (IntMax + 1)
    BY Widths
  <2>2. d \in 0..(2 * (IntMax + 1) - 1)  BY <2>1
  <2>3. d \in Nat /\ d < 2 * (IntMax + 1) /\ d <= 2 * IntMax + 1  BY <2>1, <2>2
  <2> QED  BY <2>1, <2>3
<1>2. s = [j \in 1..l |-> Convert!HexDigit(x(j))]  BY DEF Convert!uart_hex
<1>3. Len(s) = l /\ DOMAIN s = 1..l
  <2>1. l \in Nat  BY <1>1
  <2> QED  BY <1>2, <2>1
<1>4. \A j \in 1..l : s[j] = Convert!HexDigit(x(j))  BY <1>2
<1>5. \A j \in 1..l : x(j) \in 0..15
  <2> TAKE j \in 1..l
  <2>1. l - j \in Nat /\ 16 \in Nat \ {0}  BY <1>1
  <2>2. PICK q \in Nat \ {0} : q = Convert!Power(16, l - j)  BY <2>1, PowerIs
  <2>3. (d \div q) % 16 \in 0..15
    <3>1. d \div q \in Nat  BY <1>1, <2>2
    <3> QED  BY <3>1
  <2> QED  BY <2>2, <2>3
<1> HIDE DEF s, l
<1>6. Spells(s, 1, l, 16, d)
  <2>1. ASSUME NEW j \in 0..(l - 1)
        PROVE  Convert!DigitOf(s[1 + j]) = (d \div Convert!Power(16, l - 1 - j)) % 16
    <3>1. 1 + j \in 1..l /\ l - (1 + j) = l - 1 - j  BY <1>1
    <3>2. s[1 + j] = Convert!HexDigit(x(1 + j)) /\ x(1 + j) \in 0..15  BY <1>4, <1>5, <3>1
    <3>3. Convert!DigitOf(s[1 + j]) = x(1 + j)
      <4> HIDE DEF x
      <4> QED  BY <3>2, HexDigitIs
    <3> QED  BY <3>1, <3>3
  <2> QED  BY <1>1, <1>3, <2>1 DEF Spells
<1> HIDE DEF x
<1>7. \A j \in 1..l : s[j] \in 48..57 \/ s[j] \in 65..70  BY <1>4, <1>5, HexDigitIs
<1>8. StandsBefore(s, 1, 1) /\ Convert!At(s, 1) # Convert!Minus
  <2>1. 1 \in 1..l /\ Len(s) + 1 \in Nat /\ 1 \in 1..(Len(s) + 1)  BY <1>1, <1>3
  <2>2. Convert!At(s, 1) = s[1]  BY <1>3, <2>1 DEF Convert!At
  <2>3. s[1] \notin {32, 43, 45}
    <3>1. \A y : y \in 48..57 \/ y \in 65..70 => y \notin {32, 43, 45}  OBVIOUS
    <3> QED  BY ONLY <1>7, <2>1, <3>1
  <2>4. \A j \in 1..(1 - 1) : s[j] = Convert!Space  OBVIOUS
  <2> QED  BY <2>1, <2>2, <2>3, <2>4
           DEF StandsBefore, Convert!Space, Convert!Plus, Convert!Minus
<1>9. ~Convert!PrefixAt(s, 1, 16)
  <2>1. Convert!At(s, 2) \notin {88, 120}
    <3>1. CASE 2 \in 1..l
      <4>1. Convert!At(s, 2) = s[2]  BY <1>3, <3>1 DEF Convert!At
      <4>2. s[2] \notin {88, 120}  BY <1>7, <3>1
      <4> QED  BY <4>1, <4>2
    <3>2. CASE 2 \notin 1..l
      <4>1. Convert!At(s, 2) = 0  BY <1>3, <3>2 DEF Convert!At
      <4> QED  BY <4>1
    <3> QED  BY <3>1, <3>2
  <2>2. 1 + 1 = 2  OBVIOUS
  <2> QED  BY <2>1, <2>2 DEF Convert!PrefixAt
<1>10. Radix(16, 16) /\ 1 + l = Len(s) + 1
  <2>1. Radix(16, 16)  BY DEF Radix
  <2> QED  BY <1>1, <1>3, <2>1
<1>11. Convert!strtol(s, 16) = d
  BY <1>1, <1>6, <1>8, <1>9, <1>10, SpelledRead
<1> QED  BY <1>11 DEF s

(* The decimal text of n in l places.                                       *)
Decimal(n, l) == [i \in 1..l |-> Convert!Zero + Convert!Digit(n, l - i)]

LEMMA DecimalIs ==
  ASSUME NEW n \in Nat, NEW l \in Nat
  PROVE  /\ Decimal(n, l) \in Seq(48..57) /\ Len(Decimal(n, l)) = l
         /\ DOMAIN Decimal(n, l) = 1..l
         /\ \A i \in 1..l : /\ Decimal(n, l)[i] = 48 + ((n \div Convert!Power(10, l - i)) % 10)
                            /\ Convert!DigitOf(Decimal(n, l)[i])
                                 = (n \div Convert!Power(10, l - i)) % 10
                            /\ Decimal(n, l)[i] \in 48..57
<1> DEFINE x(i) == (n \div Convert!Power(10, l - i)) % 10
<1>1. Decimal(n, l) = [i \in 1..l |-> 48 + x(i)]
  BY DEF Decimal, Convert!Digit, Convert!Zero
<1>2. ASSUME NEW i \in 1..l PROVE x(i) \in 0..9
  <2>1. l - i \in Nat /\ 10 \in Nat \ {0}  OBVIOUS
  <2>2. PICK q \in Nat \ {0} : q = Convert!Power(10, l - i)  BY <2>1, PowerIs
  <2>3. (n \div q) % 10 \in 0..9
    <3>1. n \div q \in Nat  BY <2>2
    <3> QED  BY <3>1
  <2> QED  BY <2>2, <2>3
<1> HIDE DEF x
<1>3. ASSUME NEW y \in 0..9 PROVE 48 + y \in 48..57 /\ Convert!DigitOf(48 + y) = y
  <2>1. 48 + y \in 48..57 /\ 48 + y - 48 = y  OBVIOUS
  <2>2. Convert!DigitOf(48 + y) = 48 + y - 48  BY <2>1 DEF Convert!DigitOf
  <2> QED  BY <2>1, <2>2
<1>4. \A i \in 1..l : 48 + x(i) \in 48..57 /\ Convert!DigitOf(48 + x(i)) = x(i)
  BY <1>2, <1>3
<1>5. Decimal(n, l) \in Seq(48..57) /\ Len(Decimal(n, l)) = l /\ DOMAIN Decimal(n, l) = 1..l
  <2> DEFINE y == [i \in 1..l |-> 48 + x(i)]
  <2>1. y \in [1..l -> 48..57]  BY <1>4
  <2> HIDE DEF y
  <2>2. y \in Seq(48..57) /\ Len(y) = l /\ DOMAIN y = 1..l  BY <2>1
  <2> QED  BY <1>1, <2>2 DEF y
<1>6. \A i \in 1..l : Decimal(n, l)[i] = 48 + x(i)  BY <1>1
<1>7. \A i \in 1..l : /\ Decimal(n, l)[i] = 48 + x(i) /\ Convert!DigitOf(Decimal(n, l)[i]) = x(i)
                      /\ Decimal(n, l)[i] \in 48..57
  BY <1>4, <1>6
<1> QED  BY <1>5, <1>7 DEF x

LEMMA DecimalSpells ==
  ASSUME NEW n \in Nat, NEW l \in Nat \ {0}
  PROVE  Spells(Decimal(n, l), 1, l, 10, n)
<1>1. l \in Nat  OBVIOUS
<1>2. ASSUME NEW j \in 0..(l - 1)
      PROVE  Convert!DigitOf(Decimal(n, l)[1 + j]) = (n \div Convert!Power(10, l - 1 - j)) % 10
  <2>1. 1 + j \in 1..l /\ l - (1 + j) = l - 1 - j  OBVIOUS
  <2> QED  BY <1>1, <2>1, DecimalIs
<1>3. Len(Decimal(n, l)) = l /\ DOMAIN Decimal(n, l) = 1..l  BY <1>1, DecimalIs
<1> QED  BY <1>2, <1>3 DEF Spells

(* string_to_int reads a decimal text, character by character.              *)
IntFolds(g, d) ==
  g = [t \in SUBSET (DOMAIN d) |->
         IF t = {} THEN 0
         ELSE Convert!ToInt(g[t \ {Max(t)}] * 10 + d[Max(t)] - Convert!Zero)]

LEMMA DecimalInt ==
  ASSUME Convert!NumbersAssumption, NEW n \in 0..IntMax, NEW l \in Nat \ {0},
         n < Convert!Power(10, l)
  PROVE  Convert!string_to_int(Decimal(n, l)) = n
<1> DEFINE d == Decimal(n, l)
           F == [x \in Int \X Int |-> Convert!ToInt(x[1] * 10 + x[2] - Convert!Zero)]
<1>1. /\ IntMax \in Nat /\ (\A m \in 0..IntMax : Convert!ToInt(m) = m) /\ n \in Nat
      /\ l \in Nat
  BY Widths
<1>2. /\ DOMAIN d = 1..l /\ \A i \in 1..l : d[i] \in 48..57 /\ d[i] - 48 = Convert!DigitOf(d[i])
  <2>1. DOMAIN d = 1..l  BY <1>1, DecimalIs
  <2>2. ASSUME NEW i \in 1..l PROVE d[i] \in 48..57 /\ d[i] - 48 = Convert!DigitOf(d[i])
    <3>1. d[i] \in 48..57  BY <1>1, DecimalIs
    <3>2. Convert!DigitOf(d[i]) = d[i] - 48  BY <3>1 DEF Convert!DigitOf
    <3> QED  BY <3>1, <3>2
  <2> QED  BY <2>1, <2>2
<1>3. PICK v : ValueOf(v, d, 1, 10)
  <2>1. 1 \in Nat /\ 10 \in Nat  OBVIOUS
  <2> QED  BY <2>1, ValueExists
<1>4. \A m \in 0..l : v[m] = n \div Convert!Power(10, l - m)
  <2>1. 10 \in {10, 16} /\ Spells(d, 1, l, 10, n)  BY <1>1, DecimalSpells
  <2> QED  BY <1>1, <1>3, <2>1, SpelledValue
<1>5. ASSUME NEW m \in 0..l PROVE v[m] \in 0..IntMax
  <2>1. l - m \in Nat /\ 10 \in Nat \ {0}  BY <1>1
  <2>2. PICK q \in Nat \ {0} : q = Convert!Power(10, l - m)  BY <2>1, PowerIs
  <2>3. n \div q \in 0..IntMax  BY <1>1, <2>2
  <2> QED  BY <1>4, <2>2, <2>3
<1>6. v[l] = n
  <2>1. l \in 0..l /\ l - l = 0 /\ 10 \in Nat \ {0}  BY <1>1
  <2>2. Convert!Power(10, 0) = 1 /\ n \div 1 = n  BY <1>1, <2>1, PowerIs
  <2> QED  BY <1>4, <2>1, <2>2
<1>7. F \in [Int \X Int -> Int]
  <2>1. \A x, y \in Int : Convert!ToInt(x * 10 + y - Convert!Zero) \in Int
    <3> TAKE x, y \in Int
    <3>1. PICK z \in Int : z = x * 10 + y - Convert!Zero  BY DEF Convert!Zero
    <3>2. Convert!ToInt(z) = ((z + IntMax + 1) % (2 * (IntMax + 1))) - (IntMax + 1)
      BY DEF Convert!ToInt
    <3>3. z + IntMax + 1 \in Int /\ 2 * (IntMax + 1) \in Nat \ {0}  BY <1>1
    <3>4. (z + IntMax + 1) % (2 * (IntMax + 1)) \in Int  BY <3>3
    <3>5. PICK w \in Int : w = (z + IntMax + 1) % (2 * (IntMax + 1))  BY <3>4
    <3>6. Convert!ToInt(z) \in Int  BY <1>1, <3>2, <3>5
    <3> QED  BY <3>1, <3>6
  <2> QED  BY <2>1
<1>8. \A x, y \in Int : F[<<x, y>>] = Convert!ToInt(x * 10 + y - Convert!Zero)  OBVIOUS
<1>9. \A i \in 1..l : d[i] \in Int  BY <1>2
<1> HIDE DEF F, d
<1>10. PICK f \in [SUBSET (1..l) -> Int] : Fold(f, l, F, 0, d)
  <2>1. Foldable(l, Int, Int, F, 0, d)  BY <1>1, <1>7, <1>9 DEF Foldable
  <2>2. HasFold(l, Int, F, 0, d)  BY ONLY <2>1, FoldExists
  <2> QED  BY ONLY <2>2 DEF HasFold
<1>11. IntFolds(f, d)
  <2> DEFINE e == [t \in SUBSET (1..l) |->
                     IF t = {} THEN 0
                     ELSE Convert!ToInt(f[t \ {Max(t)}] * 10 + d[Max(t)] - Convert!Zero)]
  <2>1. ASSUME NEW t \in SUBSET (1..l) PROVE f[t] = e[t]
    <3>1. CASE t = {}  BY <3>1, <1>10 DEF Fold
    <3>2. CASE t # {}
      <4>1. Max(t) \in 1..l /\ t \ {Max(t)} \in SUBSET (1..l)  BY <1>1, <3>2, MaxIs
      <4>2. f[t \ {Max(t)}] \in Int /\ d[Max(t)] \in Int  BY <4>1, <1>9
      <4>3. f[t] = F[<<f[t \ {Max(t)}], d[Max(t)]>>]  BY <1>10, <3>2 DEF Fold
      <4> QED  BY <3>2, <4>2, <4>3, <1>8
    <3> QED  BY <3>1, <3>2
  <2> HIDE DEF e
  <2>2. f = [t \in SUBSET (1..l) |-> f[t]] /\ e = [t \in SUBSET (1..l) |-> e[t]]  BY DEF e
  <2>3. f = e  BY <2>1, <2>2
  <2> QED  BY <1>2, <2>3 DEF e, IntFolds
<1> DEFINE g == CHOOSE g : IntFolds(g, d)
<1>12. IntFolds(g, d)  BY <1>11
<1>13. Convert!string_to_int(d) = g[DOMAIN d]
  BY ConvertMax DEF Convert!string_to_int, Convert!FoldLeft, Convert!MapThenFoldSet, IntFolds
<1> HIDE DEF g
<1>14. \A t \in SUBSET (1..l) :
        g[t] = IF t = {} THEN 0
               ELSE Convert!ToInt(g[t \ {Max(t)}] * 10 + d[Max(t)] - Convert!Zero)
  BY <1>2, <1>12 DEF IntFolds
<1> DEFINE S == {m \in 0..l : g[1..m] = v[m]}
<1>15. 0 \in S
  <2>1. 1..0 = {} /\ {} \in SUBSET (1..l) /\ 0 \in 0..l  BY <1>1
  <2>2. g[1..0] = 0  BY <1>14, <2>1
  <2>3. v[0] = 0  BY <1>3 DEF ValueOf
  <2> QED  BY <2>1, <2>2, <2>3
<1>16. ASSUME NEW m \in 1..l, m - 1 \in S PROVE m \in S
  <2>1. g[1..m] = Convert!ToInt(g[(1..m) \ {Max(1..m)}] * 10 + d[Max(1..m)] - Convert!Zero)
    BY <1>1, <1>14, InitialSets
  <2>2. g[1..m] = Convert!ToInt(v[m - 1] * 10 + d[m] - Convert!Zero)
    <3>1. Max(1..m) = m /\ (1..m) \ {m} = 1..(m - 1) /\ g[1..(m - 1)] = v[m - 1]
      BY <1>1, <1>16, InitialSets
    <3> QED  BY <2>1, <3>1
  <2>3. m - 1 \in Nat /\ m - 1 + 1 = m /\ 1 + (m - 1) = m /\ m \in 0..l /\ m - 1 \in 0..l
    BY <1>1
  <2>4. v[m] = v[m - 1] * 10 + Convert!DigitOf(d[m])  BY <1>3, <2>3 DEF ValueOf
  <2>5. v[m - 1] * 10 + d[m] - Convert!Zero = v[m]
    <3>1. v[m - 1] \in Int /\ d[m] \in Int /\ d[m] - 48 = Convert!DigitOf(d[m])
      BY <1>1, <1>2, <1>5, <2>3
    <3>2. PICK p, c \in Int : p = v[m - 1] /\ c = d[m]  BY <3>1
    <3>3. p * 10 + c - 48 = p * 10 + (c - 48)  OBVIOUS
    <3>4. v[m] = p * 10 + (c - 48)  BY <2>4, <3>1, <3>2
    <3> QED  BY <3>2, <3>3, <3>4 DEF Convert!Zero
  <2>6. Convert!ToInt(v[m]) = v[m]  BY <1>1, <1>5, <2>3
  <2> QED  BY <2>2, <2>3, <2>5, <2>6
<1> HIDE DEF S
<1>17. l \in S
  <2>1. \A m \in 0..l : m \in S  BY <1>1, <1>15, <1>16, Climb
  <2> QED  BY <1>1, <2>1
<1>18. g[1..l] = n  BY <1>6, <1>17 DEF S
<1> QED  BY <1>2, <1>13, <1>18 DEF d

(* strtol reads a decimal text, and one behind a minus.                     *)
LEMMA DecimalRead ==
  ASSUME Convert!NumbersAssumption, NEW n \in 0..IntMax, NEW l \in Nat \ {0},
         n < Convert!Power(10, l)
  PROVE  /\ Convert!strtol(Decimal(n, l), 10) = n
         /\ Convert!strtol(<<Convert!Minus>> \o Decimal(n, l), 10) = -n
<1> DEFINE d == Decimal(n, l)
<1>1. IntMax \in Nat /\ n \in Nat /\ l \in Nat /\ n <= 2 * IntMax + 1  BY Widths
<1>2. Radix(10, 10) /\ \A s, i : ~Convert!PrefixAt(s, i, 10)
  BY DEF Radix, Convert!PrefixAt
<1>3. /\ d \in Seq(48..57) /\ Len(d) = l /\ DOMAIN d = 1..l /\ \A i \in 1..l : d[i] \in 48..57
  BY <1>1, DecimalIs
<1>4. Spells(d, 1, l, 10, n)  BY <1>1, DecimalSpells
<1> HIDE DEF d
<1>5. d[1] \notin {32, 43, 45}
  <2>1. d[1] \in 48..57  BY <1>3
  <2> QED  BY <2>1
<1>6. \A s : \A j \in 1..(1 - 1) : s[j] = Convert!Space  OBVIOUS
<1>7. Convert!strtol(d, 10) = n
  <2>1. Convert!At(d, 1) = d[1]
    <3>1. 1 \in DOMAIN d  BY <1>3
    <3> QED  BY <3>1 DEF Convert!At
  <2>2. StandsBefore(d, 1, 1) /\ Convert!At(d, 1) # Convert!Minus
    <3>1. 1 \in 1..(Len(d) + 1)  BY <1>1, <1>3
    <3> QED  BY <1>5, <1>6, <2>1, <3>1
             DEF StandsBefore, Convert!Space, Convert!Plus, Convert!Minus
  <2>3. 1 + l = Len(d) + 1  BY <1>1, <1>3
  <2>4. Convert!strtol(d, 10) = IF Convert!At(d, 1) = Convert!Minus THEN -n ELSE n
    BY <1>1, <1>2, <1>4, <2>2, <2>3, SpelledRead
  <2> QED  BY <2>2, <2>4
<1>8. Convert!strtol(<<Convert!Minus>> \o d, 10) = -n
  <2> DEFINE s == <<Convert!Minus>> \o d
  <2>1. /\ Len(s) = l + 1 /\ DOMAIN s = 1..(l + 1) /\ s[1] = 45
        /\ \A i \in 1..l : s[1 + i] = d[i]
    <3>1. <<Convert!Minus>> \in Seq(Nat) /\ Len(<<Convert!Minus>>) = 1 /\ <<Convert!Minus>>[1] = 45
      BY DEF Convert!Minus
    <3>2. d \in Seq(Nat)
      <4>1. d \in [1..l -> Nat]
        <5>1. d \in [1..Len(d) -> 48..57]  BY <1>3
        <5> QED  BY <1>3, <5>1
      <4> QED  BY <1>1, <4>1
    <3>3. PICK m : m = <<Convert!Minus>>  OBVIOUS
    <3>4. m \in Seq(Nat) /\ Len(m) = 1 /\ m[1] = 45  BY <3>1, <3>3
    <3>5. /\ Len(m \o d) = 1 + l /\ DOMAIN (m \o d) = 1..(1 + l)
          /\ \A i \in 1..(1 + l) : (m \o d)[i] = IF i <= 1 THEN m[i] ELSE d[i - 1]
      <4>1. /\ Len(m \o d) = Len(m) + Len(d) /\ m \o d \in Seq(Nat)
            /\ \A i \in 1..(Len(m) + Len(d)) :
                 (m \o d)[i] = IF i <= Len(m) THEN m[i] ELSE d[i - Len(m)]
        <5>1. Together(m \o d, m, d, Nat)  BY ONLY <3>2, <3>4, ConcatIs
        <5> QED  BY ONLY <5>1 DEF Together
      <4>2. DOMAIN (m \o d) = 1..Len(m \o d)  BY <4>1
      <4> QED  BY <1>3, <3>4, <4>1, <4>2
    <3>6. s = m \o d  BY <3>3
    <3>7. \A i \in 1..l : 1 + i \in 1..(1 + l) /\ ~(1 + i <= 1) /\ 1 + i - 1 = i  BY <1>1
    <3>8. 1 \in 1..(1 + l) /\ 1 + l = l + 1  BY <1>1
    <3> QED  BY <3>4, <3>5, <3>6, <3>7, <3>8
  <2> HIDE DEF s
  <2>2. Spells(s, 2, l, 10, n)
    <3>1. ASSUME NEW j \in 0..(l - 1)
          PROVE  Convert!DigitOf(s[2 + j]) = (n \div Convert!Power(10, l - 1 - j)) % 10
      <4>1. 1 + j \in 1..l /\ 1 + (1 + j) = 2 + j  BY <1>1
      <4>2. s[2 + j] = d[1 + j]  BY <2>1, <4>1
      <4> QED  BY <1>4, <4>2 DEF Spells
    <3>2. Len(s) \in Nat /\ DOMAIN s = 1..Len(s)  BY <1>1, <2>1
    <3> QED  BY <3>1, <3>2 DEF Spells
  <2>3. Convert!At(s, 1) = 45
    <3>1. 1 \in DOMAIN s  BY <1>1, <2>1
    <3> QED  BY <2>1, <3>1 DEF Convert!At
  <2>4. StandsBefore(s, 1, 2) /\ Convert!At(s, 1) = Convert!Minus
    <3>1. 1 \in 1..(Len(s) + 1) /\ 1 + 1 = 2  BY <1>1, <2>1
    <3> QED  BY <1>6, <2>3, <3>1
             DEF StandsBefore, Convert!Space, Convert!Plus, Convert!Minus
  <2>5. 2 + l = Len(s) + 1  BY <1>1, <2>1
  <2>6. Convert!strtol(s, 10) = IF Convert!At(s, 1) = Convert!Minus THEN -n ELSE n
    BY <1>1, <1>2, <2>2, <2>4, <2>5, SpelledRead
  <2> QED  BY <2>4, <2>6 DEF s
<1> QED  BY <1>7, <1>8 DEF d

(* The digits that uart_int stores: the decimal text from its end.          *)
Stored10(n, l) == [j \in 1..l |-> Convert!Zero + ((n \div Convert!Power(10, j - 1)) % 10)]
Outputs(o) == o = [m \in 0..IntMax |-> IF m = 0 THEN <<>>
                                       ELSE <<Convert!Zero + (m % 10)>> \o o[m \div 10]]

(* Nothing for 0, otherwise all places.                                     *)
Filled(n, l) == IF n = 0 THEN l = 0 ELSE Places(n, l)

LEMMA FilledStep ==
  ASSUME NEW n \in Nat \ {0}, NEW l, Filled(n, l)
  PROVE  /\ l \in Nat \ {0} /\ Filled(n \div 10, l - 1)
         /\ Stored10(n, l) = <<Convert!Zero + (n % 10)>> \o Stored10(n \div 10, l - 1)
<1>1. Places(n, l) /\ l \in Nat \ {0}  BY DEF Filled, Places
<1>2. /\ Convert!Power(10, 0) = 1
      /\ \A k \in Nat : /\ Convert!Power(10, k) \in Nat \ {0}
                        /\ Convert!Power(10, k + 1) = 10 * Convert!Power(10, k)
  <2>1. 10 \in Nat \ {0}  OBVIOUS
  <2> QED  BY <2>1, PowerIs
<1>3. Filled(n \div 10, l - 1)
  <2>1. CASE n >= 10
    <3>1. n \div 10 # 0  BY <2>1
    <3> QED  BY <1>1, <2>1, <3>1, PlacesTenth DEF Filled
  <2>2. CASE n < 10
    <3>1. Places(n, 1)
      <4>1. Convert!Power(10, 0 + 1) = 10 * Convert!Power(10, 0)  BY <1>2
      <4>2. Convert!Power(10, 1) = 10  BY <1>2, <4>1
      <4> QED  BY <2>2, <4>2 DEF Places
    <3>2. l = 1  BY <1>1, <3>1, PlacesUnique
    <3>3. n \div 10 = 0 /\ l - 1 = 0  BY <2>2, <3>2
    <3> QED  BY <3>3 DEF Filled
  <2> QED  BY <2>1, <2>2
<1> DEFINE u == <<Convert!Zero + (n % 10)>>
           w == Stored10(n \div 10, l - 1)
           t == Stored10(n, l)
<1>4. ASSUME NEW m \in Nat, NEW k \in Nat
      PROVE  /\ Stored10(m, k) \in Seq(Nat) /\ Len(Stored10(m, k)) = k
             /\ \A j \in 1..k : Stored10(m, k)[j] = 48 + ((m \div Convert!Power(10, j - 1)) % 10)
  <2> DEFINE x == [j \in 1..k |-> 48 + ((m \div Convert!Power(10, j - 1)) % 10)]
  <2>1. Stored10(m, k) = x  BY DEF Stored10, Convert!Zero
  <2>2. ASSUME NEW j \in 1..k PROVE 48 + ((m \div Convert!Power(10, j - 1)) % 10) \in Nat
    <3>1. j - 1 \in Nat  OBVIOUS
    <3>2. PICK q \in Nat \ {0} : q = Convert!Power(10, j - 1)  BY <1>2, <3>1
    <3>3. m \div q \in Nat  BY <3>2
    <3>4. 48 + ((m \div q) % 10) \in Nat  BY <3>3
    <3> QED  BY <3>2, <3>4
  <2>3. x \in [1..k -> Nat] /\ \A j \in 1..k : x[j] = 48 + ((m \div Convert!Power(10, j - 1)) % 10)
    BY <2>2
  <2> HIDE DEF x
  <2>4. x \in Seq(Nat) /\ Len(x) = k  BY <2>3
  <2> QED  BY <2>1, <2>3, <2>4
<1>5. n \in Nat /\ n \div 10 \in Nat /\ l \in Nat /\ l - 1 \in Nat  BY <1>1
<1>6. /\ w \in Seq(Nat) /\ Len(w) = l - 1
      /\ \A j \in 1..(l - 1) : w[j] = 48 + (((n \div 10) \div Convert!Power(10, j - 1)) % 10)
  BY <1>4, <1>5
<1>7. /\ t \in Seq(Nat) /\ Len(t) = l
      /\ \A j \in 1..l : t[j] = 48 + ((n \div Convert!Power(10, j - 1)) % 10)
  BY <1>4, <1>5
<1>8. u \in Seq(Nat) /\ Len(u) = 1 /\ u[1] = 48 + (n % 10)
  <2>1. PICK x \in Nat : x = Convert!Zero + (n % 10) /\ x = 48 + (n % 10)  BY DEF Convert!Zero
  <2>2. <<x>> \in Seq(Nat) /\ Len(<<x>>) = 1 /\ <<x>>[1] = x  OBVIOUS
  <2> QED  BY <2>1, <2>2
<1> HIDE DEF u, w, t
<1>9. /\ u \o w \in Seq(Nat) /\ Len(u \o w) = l
      /\ \A j \in 1..l : (u \o w)[j] = IF j <= 1 THEN u[j] ELSE w[j - 1]
  <2>1. /\ u \o w \in Seq(Nat) /\ Len(u \o w) = Len(u) + Len(w)
        /\ \A j \in 1..(Len(u) + Len(w)) :
             (u \o w)[j] = IF j <= Len(u) THEN u[j] ELSE w[j - Len(u)]
    BY <1>6, <1>8, ConcatProperties
  <2>2. Len(u) + Len(w) = l  BY <1>1, <1>6, <1>8
  <2> QED  BY <1>8, <2>1, <2>2
<1>10. ASSUME NEW j \in 1..l PROVE t[j] = (u \o w)[j]
  <2>1. CASE j = 1
    <3>1. t[j] = 48 + ((n \div 1) % 10) /\ n \div 1 = n
      <4>1. j - 1 = 0 /\ n \div 1 = n  BY <2>1
      <4> QED  BY <1>2, <1>7, <4>1
    <3>2. (u \o w)[j] = u[1]  BY <1>9, <2>1
    <3> QED  BY <1>8, <3>1, <3>2
  <2>2. CASE j # 1
    <3>1. j - 1 \in 1..(l - 1) /\ j - 2 \in Nat /\ j - 1 - 1 = j - 2 /\ j - 2 + 1 = j - 1
          /\ ~(j <= 1)
      BY <1>1, <2>2
    <3>2. PICK q \in Nat \ {0} : q = Convert!Power(10, j - 2) /\ Convert!Power(10, j - 1) = 10 * q
      BY <1>2, <3>1
    <3>3. t[j] = 48 + ((n \div (10 * q)) % 10)  BY <1>7, <3>2
    <3>4. w[j - 1] = 48 + (((n \div 10) \div q) % 10)  BY <1>6, <3>1, <3>2
    <3>5. n \div (10 * q) = (n \div 10) \div q  BY <3>2
    <3>6. (u \o w)[j] = w[j - 1]  BY <1>9, <3>1
    <3> QED  BY <3>3, <3>4, <3>5, <3>6
  <2> QED  BY <2>1, <2>2
<1>11. t = u \o w
  <2>1. PICK c : c = u \o w  OBVIOUS
  <2>2. c \in Seq(Nat) /\ Len(c) = Len(t) /\ \A j \in 1..Len(t) : t[j] = c[j]
    BY <1>7, <1>9, <1>10, <2>1
  <2>3. t = c  BY <1>7, <2>2, SeqEqual
  <2> QED  BY <2>1, <2>3
<1> QED  BY <1>1, <1>3, <1>11 DEF t, u, w

LEMMA FilledOne ==
  ASSUME NEW n \in Nat
  PROVE  /\ \E l : Filled(n, l)
         /\ \A k, l : Filled(n, k) /\ Filled(n, l) => k = l
<1>1. CASE n = 0  BY <1>1 DEF Filled
<1>2. CASE n # 0  BY <1>2, PlacesExist, PlacesUnique DEF Filled
<1> QED  BY <1>1, <1>2

LEMMA OutputIs ==
  ASSUME Convert!NumbersAssumption, NEW n \in 1..IntMax, NEW l, Places(n, l)
  PROVE  Convert!Output(n) = Stored10(n, l)
<1>1. IntMax \in Nat  BY Widths
<1> DEFINE place(m) == CHOOSE k : Filled(m, k)
           w == [m \in 0..IntMax |-> Stored10(m, place(m))]
           o == CHOOSE o : Outputs(o)
<1>2. \A m \in Nat : Filled(m, place(m))  BY FilledOne
<1> HIDE DEF place
<1>3. ASSUME NEW m \in 1..IntMax
      PROVE  m \div 10 \in 0..IntMax /\ m \div 10 < m /\ m \in 0..IntMax /\ m # 0 /\ m \in Nat \ {0}
  BY <1>1
<1>4. w[0] = <<>>
  <2>1. Filled(0, 0)  BY DEF Filled
  <2>2. place(0) = 0
    <3>1. 0 \in Nat  OBVIOUS
    <3> QED  BY <1>2, <2>1, <3>1, FilledOne
  <2>3. Stored10(0, 0) = <<>>  BY DEF Stored10
  <2>4. 0 \in 0..IntMax  BY <1>1
  <2> QED  BY <2>2, <2>3, <2>4
<1>5. ASSUME NEW m \in 1..IntMax PROVE w[m] = <<Convert!Zero + (m % 10)>> \o w[m \div 10]
  <2>1. m \in Nat /\ m \div 10 \in Nat /\ m \div 10 \in 0..IntMax  BY <1>1, <1>3
  <2>2. Filled(m, place(m)) /\ Filled(m \div 10, place(m \div 10))  BY <1>2, <2>1
  <2>3. /\ Filled(m \div 10, place(m) - 1)
        /\ Stored10(m, place(m)) =
             <<Convert!Zero + (m % 10)>> \o Stored10(m \div 10, place(m) - 1)
    BY <1>3, <2>2, FilledStep
  <2>4. place(m) - 1 = place(m \div 10)  BY <2>1, <2>2, <2>3, FilledOne
  <2> QED  BY <1>3, <2>1, <2>3, <2>4
<1>6. Outputs(w)
  <2> DEFINE e == [m \in 0..IntMax |-> IF m = 0 THEN <<>>
                                       ELSE <<Convert!Zero + (m % 10)>> \o w[m \div 10]]
  <2>1. ASSUME NEW m \in 0..IntMax PROVE w[m] = e[m]
    <3>1. CASE m = 0
      <4>1. e[m] = <<>>  BY <3>1
      <4> QED  BY <1>4, <3>1, <4>1
    <3>2. CASE m # 0
      <4>1. m \in 1..IntMax  BY <1>1, <3>2
      <4>2. e[m] = <<Convert!Zero + (m % 10)>> \o w[m \div 10]  BY <3>2
      <4> QED  BY <1>5, <4>1, <4>2
    <3> QED  BY <3>1, <3>2
  <2>2. w = [m \in 0..IntMax |-> w[m]] /\ e = [m \in 0..IntMax |-> e[m]]  OBVIOUS
  <2> HIDE DEF w
  <2>3. w = e
    <3> HIDE DEF e
    <3> QED  BY <2>1, <2>2
  <2> QED  BY <2>3 DEF Outputs
<1> HIDE DEF w
<1>7. Outputs(o)  BY <1>6
<1>8. Convert!Output(n) = o[n]  BY DEF Convert!Output, Outputs
<1> HIDE DEF o
<1>9. /\ o[0] = <<>>
      /\ \A m \in 1..IntMax : o[m] = <<Convert!Zero + (m % 10)>> \o o[m \div 10]
  <2>1. 0 \in 0..IntMax  BY <1>1
  <2>2. \A m \in 0..IntMax : o[m] = IF m = 0 THEN <<>>
                                    ELSE <<Convert!Zero + (m % 10)>> \o o[m \div 10]
    BY <1>7 DEF Outputs
  <2> QED  BY <1>3, <2>1, <2>2
<1>10. \A m \in 0..IntMax : o[m] = w[m]
  <2> DEFINE Bad == {m \in 0..IntMax : o[m] # w[m]}
  <2>1. SUFFICES ASSUME Bad # {} PROVE FALSE  OBVIOUS
  <2>2. PICK m \in Bad : \A k \in Bad : m <= k
    <3>1. Bad \subseteq Nat  OBVIOUS
    <3> QED  BY <2>1, <3>1, LeastNat
  <2>3. m \in 1..IntMax /\ o[m] # w[m]  BY <1>1, <1>4, <1>9, <2>2
  <2>4. m \div 10 \in 0..IntMax /\ ~(m <= m \div 10)  BY <1>3, <2>3
  <2>5. o[m \div 10] = w[m \div 10]  BY <2>2, <2>4
  <2> QED  BY <1>5, <1>9, <2>3, <2>5
<1>11. w[n] = Stored10(n, l)
  <2>1. n \in 0..IntMax /\ n \in Nat /\ n # 0  BY <1>1
  <2>2. Filled(n, place(n)) /\ Filled(n, l)  BY <1>2, <2>1 DEF Filled
  <2>3. place(n) = l  BY <2>1, <2>2, FilledOne
  <2> QED  BY <2>1, <2>3 DEF w
<1>12. n \in 0..IntMax  BY <1>1
<1> QED  BY <1>8, <1>10, <1>11, <1>12

LEMMA OutputReversed ==
  ASSUME NEW n \in Nat, NEW l \in Nat
  PROVE  Convert!Reverse(Stored10(n, l)) = Decimal(n, l)
<1> DEFINE t == Stored10(n, l)
<1>1. t = [j \in 1..l |-> Convert!Zero + ((n \div Convert!Power(10, j - 1)) % 10)]
  BY DEF Stored10
<1>2. Len(t) = l  BY <1>1
<1>3. \A j \in 1..l : t[j] = Convert!Zero + ((n \div Convert!Power(10, j - 1)) % 10)  BY <1>1
<1> HIDE DEF t
<1>4. ASSUME NEW i \in 1..l
      PROVE  t[Len(t) - i + 1] = Convert!Zero + ((n \div Convert!Power(10, l - i)) % 10)
  <2>1. Len(t) - i + 1 \in 1..l /\ Len(t) - i + 1 - 1 = l - i  BY <1>2
  <2> QED  BY <1>3, <2>1
<1>5. Convert!Reverse(t) = [i \in 1..Len(t) |-> t[Len(t) - i + 1]]  BY DEF Convert!Reverse
<1>6. Convert!Reverse(t) = [i \in 1..l |-> Convert!Zero + ((n \div Convert!Power(10, l - i)) % 10)]
  BY <1>2, <1>4, <1>5
<1> QED  BY <1>6 DEF t, Decimal, Convert!Digit

(* uart_int writes the decimal text of its number.                          *)
LEMMA IntText ==
  ASSUME Convert!NumbersAssumption, NEW n \in 0..IntMax, NEW l, Places(n, l)
  PROVE  /\ Convert!uart_int(n) = Decimal(n, l)
         /\ n # 0 => Convert!uart_int(-n) = <<Convert!Minus>> \o Decimal(n, l)
<1>1. IntMax \in Nat /\ n \in Nat /\ Convert!ToInt(n) = n  BY Widths
<1>2. l \in Nat \ {0}  BY DEF Places
<1>3. CASE n = 0
  <2>1. Places(0, 1)
    <3>1. 10 \in Nat \ {0} /\ 0 \in Nat /\ 0 + 1 = 1  OBVIOUS
    <3>2. Convert!Power(10, 1) \in Nat \ {0}  BY <3>1, PowerIs
    <3> QED  BY <3>2 DEF Places
  <2>2. l = 1  BY <1>1, <1>3, <2>1, PlacesUnique
  <2>3. Decimal(0, 1) = <<Convert!Zero>>
    <3>1. 1 \in Nat /\ 0 \in Nat /\ 1 \in 1..1 /\ 1 - 1 = 0  OBVIOUS
    <3>2. Convert!Power(10, 0) = 1  BY PowerIs
    <3>3. Len(Decimal(0, 1)) = 1 /\ Decimal(0, 1) \in Seq(48..57)
          /\ Decimal(0, 1)[1] = 48 + ((0 \div 1) % 10)
      <4>1. Len(Decimal(0, 1)) = 1 /\ Decimal(0, 1) \in Seq(48..57)  BY <3>1, DecimalIs
      <4>2. Decimal(0, 1)[1] = 48 + ((0 \div Convert!Power(10, 1 - 1)) % 10)
        BY <3>1, DecimalIs
      <4> QED  BY <3>1, <3>2, <4>1, <4>2
    <3>4. (0 \div 1) % 10 = 0  OBVIOUS
    <3>5. PICK c : c = Decimal(0, 1)  OBVIOUS
    <3>6. c \in Seq(48..57) /\ Len(c) = 1 /\ c[1] = 48  BY <3>3, <3>4, <3>5
    <3>7. c = <<48>>  BY <3>6
    <3> QED  BY <3>5, <3>7 DEF Convert!Zero
  <2>4. Convert!uart_int(0) = <<Convert!Zero>>  BY DEF Convert!uart_int
  <2> QED  BY <1>3, <2>2, <2>3, <2>4
<1>4. CASE n # 0
  <2>1. n \in 1..IntMax /\ n > 0 /\ ~(n < 0) /\ -n < 0 /\ -n # 0 /\ -(-n) = n  BY <1>1, <1>4
  <2>2. Convert!Reverse(Convert!Output(n)) = Decimal(n, l)
    BY <1>1, <1>2, <2>1, OutputIs, OutputReversed
  <2>3. <<>> \o Decimal(n, l) = Decimal(n, l)
    <3>1. Decimal(n, l) \in Seq(48..57)  BY <1>1, <1>2, DecimalIs
    <3> QED  BY <3>1, ConcatEmptySeq
  <2>4. Convert!uart_int(n) = <<>> \o Convert!Reverse(Convert!Output(n))
    BY <1>1, <1>4, <2>1 DEF Convert!uart_int
  <2>5. Convert!uart_int(-n) = <<Convert!Minus>> \o Convert!Reverse(Convert!Output(n))
    BY <1>1, <1>4, <2>1 DEF Convert!uart_int
  <2> QED  BY <2>2, <2>3, <2>4, <2>5
<1> QED  BY <1>3, <1>4

(* ltoa writes it too, for every unsigned long.                             *)
LEMMA LongText ==
  ASSUME Convert!NumbersAssumption, NEW n \in 0..(Word - 1), NEW l, Places(n, l)
  PROVE  Convert!ltoa(n) = Decimal(n, l)
<1> DEFINE P(k) == Convert!Power(10, k)
<1>1. P(0) = 1 /\ \A k \in Nat : P(k) \in Nat \ {0} /\ P(k + 1) = 10 * P(k)
  <2>1. 10 \in Nat \ {0}  OBVIOUS
  <2> QED  BY <2>1, PowerIs
<1>2. Word \in Nat /\ TopPower \in Nat /\ Word <= P(TopPower + 1)
  BY DEF Convert!NumbersAssumption
<1>3. l \in Nat \ {0} /\ n < P(l) /\ (l = 1 \/ P(l - 1) <= n)  BY DEF Places
<1>4. n \in Nat /\ n < P(TopPower + 1)
  <2>1. P(TopPower + 1) \in Nat
    <3>1. TopPower + 1 \in Nat  BY <1>2
    <3> QED  BY <1>1, <3>1
  <2> QED  BY <1>2, <2>1
<1>5. \A m, k \in Nat : m <= k => P(m) <= P(k)
  <2>1. 10 \in {10, 16}  OBVIOUS
  <2> QED  BY <2>1, PowerGrows
<1>6. \A k : Convert!Digit(n, k) = (n \div P(k)) % 10  BY DEF Convert!Digit
<1> HIDE DEF P
<1>7. ASSUME NEW k \in Nat, l <= k PROVE Convert!Digit(n, k) = 0
  <2>1. PICK q \in Nat \ {0} : q = P(k) /\ n < q
    <3>1. P(k) \in Nat \ {0} /\ P(l) \in Nat /\ P(l) <= P(k)  BY <1>1, <1>3, <1>5, <1>7
    <3> QED  BY <1>3, <1>4, <3>1
  <2>2. n \div q = 0 /\ 0 % 10 = 0  BY <1>4, <2>1
  <2> QED  BY <1>6, <2>1, <2>2
<1> DEFINE Lead(k) == /\ Convert!Digit(n, k - 1) # 0
                      /\ \A j \in k..TopPower : Convert!Digit(n, j) = 0
           count == CHOOSE k \in 1..(TopPower + 1) : Lead(k)
<1>8. Convert!ltoa(n) =
        IF \A k \in 0..TopPower : Convert!Digit(n, k) = 0 THEN <<Convert!Zero>>
        ELSE Decimal(n, count)
  BY DEF Convert!ltoa, Decimal
<1>9. CASE n = 0
  <2>1. \A k \in 0..TopPower : Convert!Digit(n, k) = 0
    <3> TAKE k \in 0..TopPower
    <3>1. k \in Nat  BY <1>2
    <3>2. PICK q \in Nat \ {0} : q = P(k)  BY <1>1, <3>1
    <3>3. (0 \div q) % 10 = 0  BY <3>2
    <3> QED  BY <1>6, <1>9, <3>2, <3>3
  <2>2. Convert!ltoa(n) = <<Convert!Zero>>  BY <1>8, <2>1
  <2>3. 0 \in 0..IntMax
    <3>1. IntMax \in Nat  BY Widths
    <3> QED  BY <3>1
  <2>4. Convert!uart_int(0) = Decimal(0, l)  BY <1>9, <2>3, IntText
  <2>5. Convert!uart_int(0) = <<Convert!Zero>>  BY DEF Convert!uart_int
  <2> QED  BY <1>9, <2>2, <2>4, <2>5
<1>10. CASE n # 0
  <2>1. l - 1 \in Nat /\ l - 1 + 1 = l /\ P(l - 1) <= n
    <3>1. l - 1 \in Nat /\ l - 1 + 1 = l  BY <1>3
    <3>2. l = 1 => P(l - 1) = 1  BY <1>1
    <3> QED  BY <1>3, <1>4, <1>10, <3>1, <3>2
  <2>2. Convert!Digit(n, l - 1) # 0
    <3>1. PICK q \in Nat \ {0} : q = P(l - 1) /\ P(l) = 10 * q  BY <1>1, <2>1
    <3>2. q <= n /\ n < 10 * q  BY <1>3, <2>1, <3>1
    <3>3. n \div q \in 1..9
      <4>1. n \div q \in Nat /\ n \div q >= 1  BY <1>4, <3>2
      <4>2. n \div q < 10  BY <1>4, <3>2
      <4> QED  BY <4>1, <4>2
    <3>4. \A x \in 1..9 : x % 10 # 0  OBVIOUS
    <3> QED  BY <1>6, <3>1, <3>3, <3>4
  <2>3. l - 1 \in 0..TopPower
    <3>1. ASSUME ~(l - 1 <= TopPower) PROVE FALSE
      <4>1. TopPower + 1 <= l - 1 /\ TopPower + 1 \in Nat  BY <1>2, <2>1, <3>1
      <4>2. P(TopPower + 1) <= P(l - 1)  BY <1>5, <2>1, <4>1
      <4>3. P(TopPower + 1) \in Nat /\ P(l - 1) \in Nat  BY <1>1, <2>1, <4>1
      <4> QED  BY <1>4, <2>1, <4>2, <4>3
    <3> QED  BY <1>2, <2>1, <3>1
  <2>4. Lead(l) /\ l \in 1..(TopPower + 1)
    <3>1. \A j \in l..TopPower : j \in Nat /\ l <= j  BY <1>2, <1>3
    <3>2. l \in 1..(TopPower + 1)  BY <1>2, <1>3, <2>3
    <3> QED  BY <1>7, <2>2, <3>1, <3>2
  <2>5. ASSUME NEW k \in 1..(TopPower + 1), Lead(k) PROVE k = l
    <3>1. CASE k < l
      <4>1. l - 1 \in k..TopPower  BY <1>2, <2>1, <2>3, <3>1
      <4> QED  BY <2>2, <2>5, <4>1
    <3>2. CASE l < k
      <4>1. k - 1 \in Nat /\ l <= k - 1  BY <1>2, <1>3, <3>2
      <4> QED  BY <1>7, <2>5, <4>1
    <3> QED  BY <1>2, <1>3, <3>1, <3>2
  <2> HIDE DEF Lead
  <2>6. count = l  BY <2>4, <2>5
  <2> HIDE DEF count
  <2>7. Convert!ltoa(n) = Decimal(n, count)  BY <1>8, <2>2, <2>3
  <2> QED  BY <2>6, <2>7
<1> QED  BY <1>9, <1>10

(* Digits behind digits: the number that all of them stand for.             *)
GoesOn(v, w, l, f) == v[l + f] = v[l] * Convert!Power(10, f) + w[f]

LEMMA ValueGoesOn ==
  ASSUME NEW e, NEW l \in Nat, NEW f \in Nat, NEW v, ValueOf(v, e, 1, 10),
         NEW i, i = l + 1, NEW w, ValueOf(w, e, i, 10)
  PROVE  GoesOn(v, w, l, f)
<1> DEFINE P(m) == Convert!Power(10, m)
           S == {m \in 0..f : v[l + m] = v[l] * P(m) + w[m]}
<1>1. P(0) = 1 /\ \A m \in Nat : P(m) \in Nat \ {0} /\ P(m + 1) = 10 * P(m)
  <2>1. 10 \in Nat \ {0}  OBVIOUS
  <2> QED  BY <2>1, PowerIs
<1>2. /\ v \in [Nat -> Nat] /\ w \in [Nat -> Nat] /\ w[0] = 0
      /\ \A m \in Nat : v[m + 1] = v[m] * 10 + Convert!DigitOf(e[1 + m])
      /\ \A m \in Nat : w[m + 1] = w[m] * 10 + Convert!DigitOf(e[l + 1 + m])
  BY DEF ValueOf
<1> HIDE DEF P
<1>3. 0 \in S
  <2>1. l + 0 = l /\ v[l] \in Nat /\ 0 \in 0..f
    <3>1. l \in Nat /\ l + 0 = l /\ 0 \in 0..f  OBVIOUS
    <3>2. v \in [Nat -> Nat]  BY <1>2
    <3> QED  BY ONLY <3>1, <3>2
  <2>2. v[l] = v[l] * 1 + 0  BY <2>1
  <2> QED  BY <1>1, <1>2, <2>1, <2>2
<1>4. ASSUME NEW m \in 1..f, m - 1 \in S PROVE m \in S
  <2>1. /\ m - 1 \in Nat /\ m - 1 + 1 = m /\ l + (m - 1) \in Nat /\ l + (m - 1) + 1 = l + m
        /\ 1 + (l + (m - 1)) = l + m /\ l + 1 + (m - 1) = l + m /\ m \in 0..f
    OBVIOUS
  <2>2. PICK d \in 0..36 : d = Convert!DigitOf(e[l + m])  BY DigitType
  <2>3. v[l + m] = v[l + (m - 1)] * 10 + d /\ w[m] = w[m - 1] * 10 + d
    BY <1>2, <2>1, <2>2
  <2>4. PICK x, y, z \in Nat : x = v[l] /\ y = P(m - 1) /\ z = w[m - 1]  BY <1>1, <1>2, <2>1
  <2>5. v[l + (m - 1)] = x * y + z /\ P(m) = 10 * y  BY <1>1, <1>4, <2>1, <2>4
  <2>6. x * (10 * y) = 10 * (x * y)  OBVIOUS
  <2>7. (x * y + z) * 10 + d = x * (10 * y) + (z * 10 + d)
    <3>1. x * y \in Nat  OBVIOUS
    <3> QED  BY <2>6, <3>1
  <2>8. v[l + m] = v[l] * P(m) + w[m]  BY <2>3, <2>4, <2>5, <2>7
  <2> QED  BY <2>1, <2>8
<1> HIDE DEF S
<1>5. f \in S
  <2>1. \A m \in 0..f : m \in S  BY <1>3, <1>4, Climb
  <2> QED  BY <2>1
<1> QED  BY <1>5 DEF S, P, GoesOn

(* Division with the remainder carried into p further places.               *)
LEMMA DividesOn ==
  ASSUME NEW n \in Nat, NEW c \in Nat \ {0}, NEW p \in Nat \ {0}
  PROVE  /\ (n * p) \div c = (n \div c) * p + (((n % c) * p) \div c)
         /\ ((n % c) * p) \div c \in Nat /\ ((n % c) * p) \div c < p
<1>1. PICK q, r \in Nat : q = n \div c /\ r = n % c /\ n = c * q + r /\ r < c  OBVIOUS
<1>2. r * p \in Nat  OBVIOUS
<1>3. PICK x, y \in Nat : x = (r * p) \div c /\ y = (r * p) % c /\ r * p = c * x + y /\ y < c
  BY <1>2
<1>4. n * p = c * (q * p + x) + y
  <2>1. n * p = (c * q) * p + r * p  BY <1>1
  <2>2. (c * q) * p = c * (q * p)  OBVIOUS
  <2>3. c * (q * p + x) = c * (q * p) + c * x  OBVIOUS
  <2> QED  BY <1>3, <2>1, <2>2, <2>3
<1>5. \A u \in Nat : (c * u + y) \div c = u
  <2> TAKE u \in Nat
  <2>1. c * u \in Nat  OBVIOUS
  <2> QED  BY <1>3, <2>1
<1>6. x < p
  <2>1. ASSUME p <= x PROVE FALSE
    <3>1. c * p <= c * x  BY <2>1
    <3>2. r * p < c * p  BY <1>1
    <3>3. c * x <= r * p
      <4>1. c * x \in Nat  OBVIOUS
      <4> QED  BY <1>2, <1>3, <4>1
    <3>4. c * p \in Nat /\ c * x \in Nat  OBVIOUS
    <3> QED  BY <1>2, <3>1, <3>2, <3>3, <3>4
  <2> QED  BY <2>1
<1>7. q * p + x \in Nat  OBVIOUS
<1>8. (n * p) \div c = q * p + x  BY <1>4, <1>5, <1>7
<1> QED  BY <1>1, <1>3, <1>6, <1>8

(* The places of a number in a row, those of a second behind a point.       *)
PointAt(t, l, f, e) == /\ Len(t) - f = l + 1 /\ t[l + 1] = Convert!Point
                       /\ Convert!RemoveAt(t, l + 1) = e
Pointed(n, l, x, f) == (Decimal(n, l) \o <<Convert!Point>>) \o Decimal(x, f)

Long(t, l) == t \in Seq(Int) /\ Len(t) = l /\ l \in Nat
Row(t, a, l, b, k) == /\ Long(t, l + k) /\ \A i \in 1..l : t[i] = a[i]
                      /\ \A i \in 1..k : t[l + i] = b[i]

LEMMA PartsLie ==
  ASSUME NEW a, NEW l, Long(a, l), NEW b, NEW k, Long(b, k)
  PROVE  Row(a \o b, a, l, b, k)
<1>1. a \in Seq(Int) /\ Len(a) = l /\ l \in Nat /\ b \in Seq(Int) /\ Len(b) = k /\ k \in Nat
  BY DEF Long
<1>2. /\ a \o b \in Seq(Int) /\ Len(a \o b) = Len(a) + Len(b)
      /\ \A j \in 1..Len(a) : (a \o b)[j] = a[j]
      /\ \A j \in 1..Len(b) : (a \o b)[Len(a) + j] = b[j]
  <2>1. /\ a \o b \in Seq(Int) /\ Len(a \o b) = Len(a) + Len(b)
        /\ \A j \in 1..(Len(a) + Len(b)) :
             (a \o b)[j] = IF j <= Len(a) THEN a[j] ELSE b[j - Len(a)]
    BY <1>1, ConcatProperties
  <2>2. \A j \in 1..Len(a) : j \in 1..(Len(a) + Len(b)) /\ j <= Len(a)  BY <1>1
  <2>3. \A j \in 1..Len(b) : /\ Len(a) + j \in 1..(Len(a) + Len(b))
                             /\ ~(Len(a) + j <= Len(a)) /\ Len(a) + j - Len(a) = j
    BY <1>1
  <2> QED  BY <2>1, <2>2, <2>3
<1>3. l + k \in Nat  BY <1>1
<1> QED  BY <1>1, <1>2, <1>3 DEF Long, Row

LEMMA PartCut ==
  ASSUME NEW n, NEW t, Long(t, n), NEW a \in Nat \ {0}, NEW k \in Nat, a + k - 1 <= n
  PROVE  /\ Long(SubSeq(t, a, a + k - 1), k)
         /\ \A i \in 1..k : SubSeq(t, a, a + k - 1)[i] = t[a + i - 1]
<1>1. n \in Nat /\ t \in Seq(Int) /\ Len(t) = n /\ \A j \in 1..n : t[j] \in Int  BY DEF Long
<1>2. \A i \in 1..k : a + i - 1 \in 1..n  BY <1>1
<1>3. a + k - 1 - a + 1 = k  OBVIOUS
<1>4. SubSeq(t, a, a + k - 1) = [i \in 1..(a + k - 1 - a + 1) |-> t[a + i - 1]]
  BY <1>1
<1>5. PICK c : c = [i \in 1..k |-> t[a + i - 1]]  OBVIOUS
<1>6. SubSeq(t, a, a + k - 1) = c  BY <1>3, <1>4, <1>5
<1>7. c \in [1..k -> Int] /\ \A i \in 1..k : c[i] = t[a + i - 1]  BY <1>1, <1>2, <1>5
<1>8. Long(c, k)  BY <1>7 DEF Long
<1> QED  BY <1>6, <1>7, <1>8

LEMMA LongEqual ==
  ASSUME NEW a, NEW b, NEW l, Long(a, l), Long(b, l), \A i \in 1..l : a[i] = b[i]
  PROVE  a = b
BY SeqEqual DEF Long

LEMMA DecimalLong ==
  ASSUME NEW n \in Nat, NEW l \in Nat
  PROVE  Long(Decimal(n, l), l)
<1>1. PICK y : y = Decimal(n, l) /\ y \in Seq(48..57) /\ Len(y) = l  BY DecimalIs
<1>2. y \in [1..Len(y) -> 48..57] /\ Len(y) \in Nat  BY <1>1
<1>3. y \in [1..Len(y) -> Int]  BY <1>2
<1>4. y \in Seq(Int)  BY <1>2, <1>3
<1> QED  BY <1>1, <1>4 DEF Long

LEMMA PointTaken ==
  ASSUME NEW n \in Nat, NEW l \in Nat \ {0}, NEW x \in Nat, NEW f \in Nat \ {0}
  PROVE  PointAt(Pointed(n, l, x, f), l, f, Decimal(n, l) \o Decimal(x, f))
<1>1. l \in Nat /\ f \in Nat /\ 1 \in Nat /\ l + 1 \in Nat  OBVIOUS
<1>2. PICK u, w, p : u = Decimal(n, l) /\ w = Decimal(x, f) /\ p = <<Convert!Point>>  OBVIOUS
<1>3. Long(u, l) /\ Long(w, f) /\ Long(p, 1) /\ p[1] = Convert!Point
  <2>1. Long(u, l) /\ Long(w, f)  BY <1>1, <1>2, DecimalLong
  <2>2. Long(<<46>>, 1) /\ <<46>>[1] = 46  BY DEF Long
  <2> QED  BY <1>2, <2>1, <2>2 DEF Convert!Point
<1>4. PICK c, t : c = u \o p /\ t = c \o w  OBVIOUS
<1>5. t = Pointed(n, l, x, f)  BY <1>2, <1>4 DEF Pointed
<1>6. Row(c, u, l, p, 1)  BY <1>3, <1>4, PartsLie
<1>7. Long(c, l + 1) /\ (\A i \in 1..l : c[i] = u[i]) /\ \A i \in 1..1 : c[l + i] = p[i]
  BY <1>6 DEF Row
<1>8. Row(t, c, l + 1, w, f)  BY <1>3, <1>4, <1>7, PartsLie
<1>9. /\ Long(t, l + 1 + f) /\ Len(t) = l + 1 + f
      /\ \A i \in 1..(l + 1) : t[i] = c[i]
      /\ \A i \in 1..f : t[l + 1 + i] = w[i]
  BY <1>8 DEF Row, Long
<1>10. t[l + 1] = Convert!Point /\ \A i \in 1..l : t[i] = u[i]
  <2>1. l + 1 \in 1..(l + 1) /\ 1 \in 1..1 /\ \A i \in 1..l : i \in 1..(l + 1)  BY <1>1
  <2>2. c[l + 1] = p[1]  BY <1>7, <2>1
  <2> QED  BY <1>3, <1>7, <1>9, <2>1, <2>2
<1>11. SubSeq(t, 1, l) = u
  <2>1. 1 \in Nat \ {0} /\ 1 + l - 1 = l /\ 1 + l - 1 <= l + 1 + f /\ \A i \in 1..l : 1 + i - 1 = i
    BY <1>1
  <2>2. /\ Long(SubSeq(t, 1, 1 + l - 1), l)
        /\ \A i \in 1..l : SubSeq(t, 1, 1 + l - 1)[i] = t[1 + i - 1]
    BY <1>1, <1>9, <2>1, PartCut
  <2>3. PICK b : b = SubSeq(t, 1, l)  OBVIOUS
  <2>4. Long(b, l) /\ \A i \in 1..l : b[i] = u[i]  BY <1>10, <2>1, <2>2, <2>3
  <2> QED  BY <1>3, <2>3, <2>4, LongEqual
<1>12. SubSeq(t, l + 2, Len(t)) = w
  <2>1. /\ l + 2 \in Nat \ {0} /\ (l + 2) + f - 1 = l + 1 + f
        /\ (l + 2) + f - 1 <= l + 1 + f
        /\ \A i \in 1..f : (l + 2) + i - 1 = l + 1 + i
    BY <1>1
  <2>2. /\ Long(SubSeq(t, l + 2, (l + 2) + f - 1), f)
        /\ \A i \in 1..f : SubSeq(t, l + 2, (l + 2) + f - 1)[i] = t[(l + 2) + i - 1]
    BY <1>1, <1>9, <2>1, PartCut
  <2>3. PICK b : b = SubSeq(t, l + 2, Len(t))  OBVIOUS
  <2>4. Long(b, f) /\ \A i \in 1..f : b[i] = w[i]
    <3>1. b = SubSeq(t, l + 2, (l + 2) + f - 1)  BY <1>9, <2>1, <2>3
    <3>2. Long(b, f) /\ \A i \in 1..f : b[i] = t[(l + 2) + i - 1]  BY ONLY <2>2, <3>1
    <3>3. \A i \in 1..f : t[(l + 2) + i - 1] = w[i]
      <4>1. \A i \in 1..f : t[(l + 2) + i - 1] = t[l + 1 + i]  BY ONLY <2>1
      <4> QED  BY <1>9, <4>1
    <3> QED  BY ONLY <3>2, <3>3
  <2> QED  BY <1>3, <2>3, <2>4, LongEqual
<1>13. l + 1 - 1 = l /\ l + 1 + 1 = l + 2 /\ l + 1 + f - f = l + 1  BY <1>1
<1>14. Convert!RemoveAt(t, l + 1) = u \o w
  <2>1. PICK k : k = l + 1 /\ k - 1 = l /\ k + 1 = l + 2  BY <1>1
  <2>2. Convert!RemoveAt(t, k) = SubSeq(t, 1, k - 1) \o SubSeq(t, k + 1, Len(t))
    BY DEF Convert!RemoveAt
  <2> QED  BY <1>11, <1>12, <2>1, <2>2
<1> QED  BY <1>2, <1>5, <1>9, <1>10, <1>13, <1>14 DEF PointAt

(* Two decimal texts in a row denote one number after the other.            *)
LEMMA RowDenotes ==
  ASSUME NEW n \in Nat, NEW l \in Nat \ {0}, n < Convert!Power(10, l),
         NEW x \in Nat, NEW f \in Nat \ {0}, x < Convert!Power(10, f)
  PROVE  Convert!Denotes(Decimal(n, l) \o Decimal(x, f), 10) = n * Convert!Power(10, f) + x
<1>1. l \in Nat /\ f \in Nat /\ l + f \in Nat /\ 10 \in {10, 16} /\ 10 \in Nat \ {0} /\ 10 \in Nat
  OBVIOUS
<1>2. PICK u, w, e : u = Decimal(n, l) /\ w = Decimal(x, f) /\ e = u \o w  OBVIOUS
<1>3. /\ Long(u, l) /\ Spells(u, 1, l, 10, n)
      /\ Long(w, f) /\ Spells(w, 1, f, 10, x)
  BY <1>1, <1>2, DecimalLong, DecimalSpells
<1>4. Row(e, u, l, w, f)  BY <1>2, <1>3, PartsLie
<1>5. /\ Len(e) \in Nat /\ DOMAIN e = 1..Len(e) /\ DOMAIN e = 1..(l + f)
      /\ \A i \in 1..l : e[i] = u[i]
      /\ \A i \in 1..f : e[l + i] = w[i]
  BY <1>1, <1>4 DEF Row, Long
<1>6. Spells(e, 1, l, 10, n)
  <2>1. \A j \in 0..(l - 1) : 1 + j \in 1..l  BY <1>1
  <2>2. \A j \in 0..(l - 1) : e[1 + j] = u[1 + j]  BY <1>5, <2>1
  <2> QED  BY <1>3, <1>5, <2>2 DEF Spells
<1>7. Spells(e, l + 1, f, 10, x)
  <2>1. \A j \in 0..(f - 1) : 1 + j \in 1..f /\ l + (1 + j) = l + 1 + j  BY <1>1
  <2>2. \A j \in 0..(f - 1) : e[l + 1 + j] = w[1 + j]  BY <1>5, <2>1
  <2>3. l + 1 \in Nat \ {0}  BY <1>1
  <2> QED  BY <1>3, <1>5, <2>2, <2>3 DEF Spells
<1>8. PICK v : ValueOf(v, e, 1, 10)
  <2>1. 1 \in Nat  OBVIOUS
  <2> QED  BY <1>1, <2>1, ValueExists
<1>9. PICK i, z : i = l + 1 /\ ValueOf(z, e, i, 10)
  <2>1. l + 1 \in Nat  BY <1>1
  <2> QED  BY <1>1, <2>1, ValueExists
<1>10. Convert!Power(10, 0) = 1 /\ n \div 1 = n /\ x \div 1 = x  BY <1>1, PowerIs
<1>11. v[l] = n
  <2>1. \A m \in 0..l : v[m] = n \div Convert!Power(10, l - m)  BY <1>1, <1>6, <1>8, SpelledValue
  <2>2. l \in 0..l /\ l - l = 0  BY <1>1
  <2> QED  BY <1>10, <2>1, <2>2
<1>12. z[f] = x
  <2>1. \A m \in 0..f : z[m] = x \div Convert!Power(10, f - m)  BY <1>1, <1>7, <1>9, SpelledValue
  <2>2. f \in 0..f /\ f - f = 0  BY <1>1
  <2> QED  BY <1>10, <2>1, <2>2
<1>13. GoesOn(v, z, l, f)  BY <1>1, <1>8, <1>9, ValueGoesOn
<1>14. Convert!Denotes(e, 10) = v[l + f]  BY <1>1, <1>5, <1>8, DenotesIs
<1> QED  BY <1>2, <1>11, <1>12, <1>13, <1>14 DEF GoesOn

(* fdivtoa writes the quotient, the point, and the remainder's digits.      *)
LEMMA FdivReadsBack ==
  ASSUME Convert!NumbersAssumption, NEW q \in Quotients,
         (q[1] % q[2]) * Convert!Power(10, Fraction) < Word
  PROVE  LET t     == Convert!fdivtoa(q[1], q[2])
             point == Len(t) - Fraction
         IN  /\ t[point] = Convert!Point
             /\ Convert!Denotes(Convert!RemoveAt(t, point), 10)
                  = (q[1] * Convert!Power(10, Fraction)) \div q[2]
<1>1. /\ Fraction \in Nat \ {0} /\ Word \in Nat
      /\ q \in (0..(Word - 1)) \X (1..(Word - 1))
  BY DEF Convert!NumbersAssumption
<1>2. PICK n, c : n = q[1] /\ c = q[2] /\ n \in 0..(Word - 1) /\ c \in 1..(Word - 1)  BY <1>1
<1>3. n \in Nat /\ c \in Nat \ {0}  BY <1>1, <1>2
<1>4. PICK p \in Nat \ {0} : p = Convert!Power(10, Fraction)
  <2>1. 10 \in Nat \ {0} /\ Fraction \in Nat  BY <1>1
  <2> QED  BY <2>1, PowerIs
<1>5. PICK x : x = ((n % c) * p) \div c  OBVIOUS
<1>6. /\ (n * p) \div c = (n \div c) * p + x
      /\ x \in Nat /\ x < p
  BY <1>3, <1>5, DividesOn
<1>7. ((n % c) * p) % Word = (n % c) * p
  <2>1. n % c \in Nat  BY <1>3
  <2>2. PICK r \in Nat : r = (n % c) * p  BY <2>1
  <2>3. r < Word  BY <1>2, <1>4, <2>2
  <2>4. r % Word = r  BY <1>1, <2>3
  <2> QED  BY <2>2, <2>4
<1>8. PICK m : m = n \div c /\ m \in Nat /\ m \in 0..(Word - 1)
  <2>1. n \div c \in Nat /\ n \div c <= n  BY <1>3
  <2> QED  BY <1>1, <1>2, <2>1
<1>9. PICK l : Places(m, l)  BY <1>8, PlacesExist
<1>10. l \in Nat \ {0} /\ m < Convert!Power(10, l)  BY <1>9 DEF Places
<1>11. Convert!ltoa(m) = Decimal(m, l)  BY <1>8, <1>9, LongText
<1>12. Convert!fdivtoa(n, c) = Pointed(m, l, x, Fraction)
  <2>1. Convert!fdivtoa(n, c) = (Convert!ltoa(n \div c) \o <<Convert!Point>>) \o Decimal(x, Fraction)
    BY <1>4, <1>5, <1>7 DEF Convert!fdivtoa, Decimal
  <2> QED  BY <1>8, <1>11, <2>1 DEF Pointed
<1> DEFINE t == Convert!fdivtoa(n, c)
<1>13. PointAt(Pointed(m, l, x, Fraction), l, Fraction, Decimal(m, l) \o Decimal(x, Fraction))
  BY <1>1, <1>6, <1>8, <1>10, PointTaken
<1>14. /\ Len(t) - Fraction = l + 1 /\ t[l + 1] = Convert!Point
       /\ Convert!RemoveAt(t, l + 1) = Decimal(m, l) \o Decimal(x, Fraction)
  BY <1>12, <1>13 DEF PointAt
<1>15. Convert!Denotes(Decimal(m, l) \o Decimal(x, Fraction), 10) = m * p + x
  <2>1. x < Convert!Power(10, Fraction) /\ x \in Nat  BY <1>4, <1>6
  <2> QED  BY <1>1, <1>4, <1>8, <1>10, <2>1, RowDenotes
<1> HIDE DEF t
<1>16. Convert!Denotes(Convert!RemoveAt(t, Len(t) - Fraction), 10) = (n * p) \div c
       /\ t[Len(t) - Fraction] = Convert!Point
  BY <1>6, <1>8, <1>14, <1>15
<1> QED  BY <1>2, <1>4, <1>16 DEF t

(* string_to_int and strtol read what uart_int writes.                      *)
LEMMA IntReadsBack ==
  ASSUME Convert!NumbersAssumption, NEW n \in Convert!Ints
  PROVE  /\ n >= 0 => Convert!string_to_int(Convert!uart_int(n)) = n
         /\ n # Convert!IntMin => Convert!strtol(Convert!uart_int(n), 10) = n
<1>1. IntMax \in Nat  BY Widths
<1>2. n \in Int /\ n >= -(IntMax + 1) /\ n <= IntMax /\ Convert!IntMin = -(IntMax + 1)
  BY <1>1 DEF Convert!Ints, Convert!IntMin
<1>3. CASE n >= 0
  <2>1. n \in 0..IntMax /\ n \in Nat  BY <1>1, <1>2, <1>3
  <2>2. PICK l : Places(n, l)  BY <2>1, PlacesExist
  <2>3. l \in Nat \ {0} /\ n < Convert!Power(10, l)  BY <2>2 DEF Places
  <2>4. Convert!uart_int(n) = Decimal(n, l)  BY <2>1, <2>2, IntText
  <2> QED  BY <2>1, <2>3, <2>4, DecimalInt, DecimalRead
<1>4. CASE n < 0 /\ n # Convert!IntMin
  <2>1. PICK m : m = -n /\ m \in 0..IntMax /\ m \in Nat /\ m # 0 /\ -m = n  BY <1>1, <1>2, <1>4
  <2>2. PICK l : Places(m, l)  BY <2>1, PlacesExist
  <2>3. l \in Nat \ {0} /\ m < Convert!Power(10, l)  BY <2>2 DEF Places
  <2>4. Convert!uart_int(-m) = <<Convert!Minus>> \o Decimal(m, l)  BY <2>1, <2>2, IntText
  <2>5. Convert!strtol(<<Convert!Minus>> \o Decimal(m, l), 10) = -m  BY <2>1, <2>3, DecimalRead
  <2>6. ~(n >= 0)  BY <1>2, <1>4
  <2> QED  BY <2>1, <2>4, <2>5, <2>6
<1>5. CASE ~(n >= 0) /\ n = Convert!IntMin  BY <1>5
<1> QED  BY <1>2, <1>3, <1>4, <1>5

LEMMA LongReadsBack ==
  ASSUME Convert!NumbersAssumption, NEW n \in 0..(Word - 1), n <= IntMax
  PROVE  /\ Convert!string_to_int(Convert!ltoa(n)) = n
         /\ Convert!ltoa(n) = Convert!uart_int(n)
<1>1. IntMax \in Nat /\ Word \in Nat  BY Widths
<1>2. n \in 0..IntMax /\ n \in Nat  BY <1>1
<1>3. PICK l : Places(n, l)  BY <1>2, PlacesExist
<1>4. l \in Nat \ {0} /\ n < Convert!Power(10, l)  BY <1>3 DEF Places
<1>5. Convert!uart_int(n) = Decimal(n, l) /\ Convert!ltoa(n) = Decimal(n, l)
  BY <1>2, <1>3, IntText, LongText
<1> QED  BY <1>2, <1>4, <1>5, DecimalInt

(* Whatever has been called, its text and its number belong together.       *)
LEMMA NumbersAreRight ==
  ASSUME Convert!NumbersAssumption, NumberInv
  PROVE  ReadsExactly /\ ReadsBack
<1> USE DEF ReadsExactly, Convert!ReadsExactly, ReadsBack, Convert!ReadsBack
<1>1. CASE last = <<"none", 0, 0>>  BY <1>1
<1>2. ASSUME NEW s \in Seq(Chars), NEW base \in {0, 10, 16},
             last = <<"strtol", <<s, base>>, Convert!strtol(s, base)>>
      PROVE  ReadsExactly /\ ReadsBack
  <2>1. ReadsExactly  BY <1>2, ReadsRight
  <2>2. last[1] = "strtol"  BY <1>2
  <2>3. ReadsBack  BY <2>2
  <2> QED  BY <2>1, <2>3
<1>3. ASSUME NEW n \in Convert!Ints, last = <<"uart_int", n, Convert!uart_int(n)>>
      PROVE  ReadsExactly /\ ReadsBack
  <2>1. last[1] = "uart_int" /\ last[2] = n /\ last[3] = Convert!uart_int(n)  BY <1>3
  <2> QED  BY <2>1, IntReadsBack
<1>4. ASSUME NEW d \in 0..(Convert!Power(16, HexDigits) - 1),
             last = <<"uart_hex", d, Convert!uart_hex(d)>>
      PROVE  ReadsExactly /\ ReadsBack
  <2>1. last[1] = "uart_hex" /\ last[2] = d /\ last[3] = Convert!uart_hex(d)  BY <1>4
  <2> QED  BY <2>1, HexReadsBack
<1>5. ASSUME NEW n \in 0..(Word - 1), last = <<"ltoa", n, Convert!ltoa(n)>>
      PROVE  ReadsExactly /\ ReadsBack
  <2>1. last[1] = "ltoa" /\ last[2] = n /\ last[3] = Convert!ltoa(n)  BY <1>5
  <2> QED  BY <2>1, LongReadsBack
<1>6. ASSUME NEW q \in Quotients, last = <<"fdivtoa", q, Convert!fdivtoa(q[1], q[2])>>
      PROVE  ReadsExactly /\ ReadsBack
  <2>1. last[1] = "fdivtoa" /\ last[2] = q /\ last[3] = Convert!fdivtoa(q[1], q[2])  BY <1>6
  <2> QED  BY <2>1, FdivReadsBack
<1> QED  BY <1>1, <1>2, <1>3, <1>4, <1>5, <1>6 DEF NumberInv

LEMMA NumbersAlways == MachineSpec => []NumberInv
<1>1. Convert!NumbersAssumption  BY MachineAssumption
<1>2. MachineInit => NumberInv  BY DEF MachineInit, Convert!Init, NumberInv
<1>3. ASSUME [boot \/ shell \/ convert \/ start \/ call \/ print]_<<
               vars, ArchiveVars, last, ExecVars, CallVars, PrintVars>>
      PROVE  [Convert!Next]_last
  BY <1>3 DEF boot, shell, convert, start, call, print
<1>4. NumberInv /\ [boot \/ shell \/ convert \/ start \/ call \/ print]_<<
        vars, ArchiveVars, last, ExecVars, CallVars, PrintVars>> => NumberInv'
  BY <1>1, <1>3, NumberStep
<1> QED  BY <1>2, <1>4, PTL DEF MachineSpec

(* For any widths, texts and numbers of digits: strtol gives what a text    *)
(* denotes, up to as many digits as an unsigned int has.                    *)
THEOREM TextsAreRead == MachineSpec => []ReadsExactly
<1>1. NumberInv => ReadsExactly
  <2>1. Convert!NumbersAssumption  BY MachineAssumption
  <2> QED  BY <2>1, NumbersAreRight
<1> QED  BY <1>1, NumbersAlways, PTL

(* What uart_hex, uart_int and ltoa write is read back as the number they   *)
(* were given, and what fdivtoa writes is the quotient to its last digit.   *)
THEOREM NumbersReadBack == MachineSpec => []ReadsBack
<1>1. NumberInv => ReadsBack
  <2>1. Convert!NumbersAssumption  BY MachineAssumption
  <2> QED  BY <2>1, NumbersAreRight
<1> QED  BY <1>1, NumbersAlways, PTL
=============================================================================

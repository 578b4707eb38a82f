-------------------------------- MODULE Exec --------------------------------
(***************************************************************************)
(* do_exec and set_argv of kernel/syscall.c with elf_header_parse of        *)
(* libs/elf.c: how user_task turns into a user program.  A step is a        *)
(* stretch of the function between two places where a tick is told apart.   *)
(*                                                                         *)
(* The user stack is a map from addresses, counted down from the top of     *)
(* the page (0), to the bytes stored there.  Of the kernel stack only the   *)
(* words of the trapframe that do_exec writes are kept; a word is known by  *)
(* its distance from the top of the page.  The page is long enough: nothing *)
(* in the code looks at its end.                                            *)
(***************************************************************************)
EXTENDS SequencesExt, Integers

CONSTANTS
  StringAlign, \* 16: strings are padded to it
  PtrSize,    \* sizeof(char*)
  IntSize,    \* sizeof(int)
  Lengths,    \* lengths of the arguments
  MaxArgs,    \* bound on their number
  Files,      \* the section names of each file that may be found
  TextNames,  \* the section names that begin with ".text"
  FrameWords, \* 34: words in a trapframe
  Depth       \* words on the kernel stack when do_exec writes the trapframe

ExecAssumption ==
  /\ StringAlign \in Nat /\ PtrSize \in Nat /\ IntSize \in Nat /\ IntSize > 0
  /\ PtrSize + IntSize <= StringAlign /\ IntSize < StringAlign
  /\ Lengths \subseteq Nat /\ MaxArgs \in Nat
  /\ \A f \in Files : f \in Seq(ToSet(f))
  /\ FrameWords \in Nat /\ FrameWords > 4 /\ Depth \in 3..FrameWords

VARIABLES
  pc,         \* what runs next; "user": the program has been entered
  file,       \* what load_file has found
  argv,       \* the lengths of the strings of the caller's argv
  argc,
  nul,        \* what strlen sees at address 0
  stack,      \* the local variable of set_argv
  argv_addr,  \* the array from kmalloc
  umem,       \* the user stack
  kmem,       \* the trapframe's words on the kernel stack
  window      \* not in the code: a tick has come since x0 was written

vars == <<pc, file, argv, argc, nul, stack, argv_addr, umem, kmem, window>>

Missing == <<"missing">>          \* no such file
Garbage == -1                     \* whatever a register held
NUL     == <<"NUL", 0, 0>>
(* Distances of the trapframe's members from the top of the kernel stack.   *)
X0 == FrameWords
X1 == FrameWords - 1
SpEl0 == 3
ElrEl1 == 2
Words == {X0, X1, SpEl0, ElrEl1}

Init ==
  /\ pc = "load" /\ file \in Files \cup {Missing}
  /\ \E n \in 0..MaxArgs : argv \in [1..n -> Lengths]
  /\ argc = 0 /\ nul \in Lengths
  /\ stack = 0 /\ argv_addr = <<>> /\ umem = <<>>
  /\ kmem = [w \in Words |-> Garbage] /\ window = FALSE

Transition(from, to) == pc = from /\ pc' = to
-----------------------------------------------------------------------------
(* The address of the first section whose name begins with ".text" (here,   *)
(* its number), or NULL.                                                    *)
elf_header_parse(sections) ==
  LET hits == {i \in DOMAIN sections : sections[i] \in TextNames}
  IN  IF hits = {} THEN 0 ELSE CHOOSE i \in hits : \A j \in hits : i <= j

(* The file is missing: do_exec returns -1 and changes nothing.             *)
not_found ==
  /\ file = Missing /\ Transition("load", "failed")
  /\ UNCHANGED <<file, argv, argc, nul, stack, argv_addr, umem, kmem, window>>

(* The loop over argv reads the element and then advances, so that its      *)
(* terminating NULL is counted too, unless it is the first.                 *)
Counted(n) == IF n = 0 THEN 0 ELSE n + 1

count ==
  /\ file # Missing /\ Transition("load", "copy")
  /\ argc' = Counted(Len(argv))
  /\ UNCHANGED <<file, argv, nul, stack, argv_addr, umem, kmem, window>>
-----------------------------------------------------------------------------
(* The next argument to be copied, from the last on; the one behind the     *)
(* arguments is the string at address 0.                                    *)
Copying == argc - Cardinality(DOMAIN argv_addr)
LengthOf(i) == IF i > Len(argv) THEN nul ELSE argv[i]

(* strlen(argv[i] + 1) is one less than the length; of an empty string it   *)
(* is whatever follows it.  So a string whose length is one more than a     *)
(* multiple of StringAlign is not padded.                                   *)
NoPadding(len) == {len}                                   \* the NUL forgotten
Offsets(len) == IF len = 0 THEN {1, StringAlign}
                ELSE IF (len - 1) % StringAlign = 0 THEN {len + 1}
                ELSE {StringAlign * (len \div StringAlign + 1)}

(* The bytes b at address a and above, over what was there.                 *)
Stored(mem, a, b) ==
  [x \in DOMAIN mem \cup (a..(a + Len(b) - 1)) |->
     IF x \in a..(a + Len(b) - 1) THEN b[x - a + 1] ELSE mem[x]]

Text(i) == Append([j \in 1..LengthOf(i) |-> <<"text", i, j>>], NUL)
Pointer(p) == [j \in 1..PtrSize |-> <<"pointer", p, j>>]
Number(n) == [j \in 1..IntSize |-> <<"int", n, j>>]

copy ==
  /\ pc = "copy" /\ Copying > 0
  /\ \E offset \in Offsets(LengthOf(Copying)) :
       /\ stack' = stack - offset
       /\ argv_addr' = [i \in DOMAIN argv_addr \cup {Copying} |->
                          IF i = Copying THEN stack' ELSE argv_addr[i]]
       /\ umem' = Stored(umem, stack', Text(Copying))
  /\ UNCHANGED <<pc, file, argv, argc, nul, kmem, window>>

(* The rest of set_argv: a NULL below the strings, then argc.  The second   *)
(* loop stores nothing and takes stack back to the first string, if there   *)
(* is one.  The value returned is ignored.                                  *)
image ==
  /\ Copying = 0 /\ Transition("copy", "x0")
  /\ stack' = (IF argc = 0 THEN stack - PtrSize ELSE stack)
                - (StringAlign - (IntSize % StringAlign)) - IntSize
  /\ umem' = Stored(Stored(umem, stack - PtrSize, Pointer(0)), stack', Number(argc))
  /\ UNCHANGED <<file, argv, argc, nul, argv_addr, kmem, window>>
-----------------------------------------------------------------------------
(* do_exec writes the trapframe, member by member.  Its own stack is the    *)
(* top of the page: set_argv's result is not used.                          *)
Assign(w, v) == kmem' = [kmem EXCEPT ![w] = v]
Unmoved == UNCHANGED <<file, argv, argc, nul, stack, argv_addr, umem>>

x0 == /\ Transition("x0", "x1") /\ Assign(X0, argc)
      /\ window' = FALSE /\ Unmoved
x1 == /\ Transition("x1", "sp_el0") /\ Assign(X1, StringAlign)
      /\ UNCHANGED window /\ Unmoved
sp_el0 == /\ Transition("sp_el0", "elr_el1") /\ Assign(SpEl0, 0)
          /\ UNCHANGED window /\ Unmoved
elr_el1 == /\ Transition("elr_el1", "exit") /\ Assign(ElrEl1, elf_header_parse(file))
           /\ UNCHANGED window /\ Unmoved

(* disable_interrupt; sp is set to the trapframe and kernel_exit loads it.  *)
kernel_exit ==
  /\ Transition("exit", "user")
  /\ UNCHANGED <<kmem, window>> /\ Unmoved

BelowTop(w) == TRUE                                       \* sp taken for the top
(* A tick's frame and the handler's own lie below sp.                       *)
Overwritten(w) == w > Depth
tick ==
  /\ pc \notin {"load", "failed", "user"}
  /\ kmem' = [w \in Words |-> IF Overwritten(w) THEN Garbage ELSE kmem[w]]
  /\ window' = TRUE
  /\ UNCHANGED pc /\ Unmoved

Next == \/ not_found \/ count \/ copy \/ image
        \/ x0 \/ x1 \/ sp_el0 \/ elr_el1 \/ kernel_exit \/ tick

Spec == Init /\ [][Next]_vars
-----------------------------------------------------------------------------
Holds(a, b) == \A x \in DOMAIN b : a + x - 1 \in DOMAIN umem /\ umem[a + x - 1] = b[x]

(***************************************************************************)
(* Once set_argv is done, every argument stands complete and terminated     *)
(* where argv_addr says, whatever the lengths are, though the padding is    *)
(* computed from the wrong length; and neither the NULL nor argc, which     *)
(* lies at the address returned, has been written over one of them.         *)
(***************************************************************************)
ImageIntact ==
  pc \notin {"load", "failed", "copy"} =>
    /\ \A i \in 1..Len(argv) : Holds(argv_addr[i], Text(i))
    /\ Holds(stack, Number(argc))
    /\ argc > 0 => Holds(argv_addr[1] - PtrSize, Pointer(0))

(***************************************************************************)
(* Wherever ticks have come, the program starts at its first ".text"        *)
(* section with the whole stack page: these two words of the trapframe lie  *)
(* above do_exec's stack pointer although do_exec has not left yet.  x0 and *)
(* x1 lie below it, where a tick builds its frame: they reach the program   *)
(* if no tick comes between line 104 and the mask of line 109.              *)
(***************************************************************************)
EntersRight ==
  pc = "user" =>
    /\ kmem[SpEl0] = 0
    /\ \A i \in DOMAIN file :
         file[i] \in TextNames /\ (\A j \in 1..(i - 1) : file[j] \notin TextNames)
         => kmem[ElrEl1] = i
    /\ ~window => kmem[X0] = argc /\ kmem[X1] = StringAlign

(***************************************************************************)
(* main's parameters, as src/user/program/main.c declares and uses them:    *)
(* argv[i] is the i-th string, which its loop prints.                       *)
(***************************************************************************)
ArgvDelivered ==
  pc = "user" /\ ~window =>
    \A i \in 1..Len(argv) : Holds(kmem[X1] + PtrSize * (i - 1), Pointer(argv_addr[i]))
=============================================================================

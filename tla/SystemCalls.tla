---------------------------- MODULE SystemCalls -----------------------------
(***************************************************************************)
(* The dispatcher of kernel/asm/syscall.S: from the number in x8 to the     *)
(* kernel's function, and the stubs of src/user/lib/asm/syscall.S that put  *)
(* the numbers there.  Registers hold numbers of a fixed width; an address  *)
(* in the upper half of it is negative where the code compares as signed.   *)
(***************************************************************************)
EXTENDS SequencesExt, Integers

CONSTANTS
  RegisterRange, \* 2^64
  EntrySize,     \* 16: a table entry after .align 4
  Table          \* the address of syscall_table

(* The entries, each a branch to the function sys_... of the kernel with    *)
(* this name, and the functions of the user library with their numbers.     *)
Entries == <<"getpid", "uart_read", "uart_write", "exec", "exit", "fork", "get_time">>
TableEnd == Table + EntrySize * Len(Entries)

TableAssumption ==
  /\ RegisterRange \in Nat /\ EntrySize \in Nat \ {0} /\ RegisterRange % EntrySize = 0
  /\ Table \in Nat /\ Table % EntrySize = 0 /\ TableEnd < RegisterRange \div 2

Stubs == <<"getpid", "uart_read", "uart_write", "exec", "exit", "fork", "get_time">>
Number(name) == (CHOOSE i \in DOMAIN Stubs : Stubs[i] = name) - 1
KernelExit == 4               \* exit in kernel/asm/syscall.S

VARIABLES
  x8,       \* the register at the svc
  caller,   \* the stub that loaded it; "asm": the program itself
  ran       \* where the dispatcher has branched; "none": not yet

vars == <<x8, caller, ran>>

Init == x8 = 0 /\ caller = "asm" /\ ran = "none"
-----------------------------------------------------------------------------
(* A program calls a stub, or has an svc of its own.                        *)
stub(name) == /\ ran = "none" /\ caller = "asm"
              /\ x8' = Number(name) /\ caller' = name /\ UNCHANGED ran
kernel_stub == /\ ran = "none" /\ caller = "asm"
               /\ x8' = KernelExit /\ caller' = "exit" /\ UNCHANGED ran
own_svc(n) == /\ ran = "none" /\ caller = "asm"
              /\ x8' = n /\ UNCHANGED <<caller, ran>>

Signed(a)  == IF a < RegisterRange \div 2 THEN a ELSE a - RegisterRange
Shifted(n) == (n * EntrySize + Table) % RegisterRange

EndIncluded(a) == Signed(a) >= Table /\ Signed(a) <= TableEnd   \* bgt for bge
InTable(a) == Signed(a) >= Table /\ Signed(a) < TableEnd

At(a) == IF a \in {Table + EntrySize * i : i \in 0..(Len(Entries) - 1)}
         THEN Entries[(a - Table) \div EntrySize + 1] ELSE "stray"

syscall ==
  /\ ran = "none"
  /\ ran' = IF InTable(Shifted(x8)) THEN At(Shifted(x8)) ELSE "syscall_number_error"
  /\ UNCHANGED <<x8, caller>>

Next == \/ \E i \in DOMAIN Stubs : stub(Stubs[i])
        \/ \E n \in 0..(RegisterRange - 1) : own_svc(n)
        \/ kernel_stub \/ syscall

Spec == Init /\ [][Next]_vars
-----------------------------------------------------------------------------
(***************************************************************************)
(* The numbers of src/user/lib/asm/syscall.h, kept apart from the table,    *)
(* agree with it: each function of the user library ends in the function of *)
(* the kernel that has its name.  Whatever else is in x8, also where        *)
(* shifting and adding wrap or the sum is negative, the dispatcher branches *)
(* to an entry or reports a wrong number; the only wrong numbers that it    *)
(* takes for a call agree with its number in all but the bits that the      *)
(* shift drops.                                                             *)
(***************************************************************************)
EndsInItsFunction ==
  ran # "none" =>
    /\ ran # "stray"
    /\ \A i \in DOMAIN Stubs : caller = Stubs[i] => ran = Stubs[i]
    /\ ran = "syscall_number_error" <=> x8 % (RegisterRange \div EntrySize) >= Len(Entries)
=============================================================================

------------------------------- MODULE Printf -------------------------------
(***************************************************************************)
(* printf and printk of libs/stdio.c, and the user library's copy of it     *)
(* (src/user/lib/printf.c): one step is one turn of the loop over the       *)
(* format.  What is printed is a sequence of pairs: a character and 0, or a *)
(* conversion and the number of the argument that it shows; the conversions *)
(* themselves are in module Numbers.  The user's copy hands its characters  *)
(* to the system call uart_write, whose handler prints a message of its own *)
(* instead: there, printed is what has been handed over.                    *)
(***************************************************************************)
EXTENDS SequencesExt, Integers

CONSTANTS
  Symbols,    \* bound: the characters that formats are made of
  MaxFormat,  \* bound: their length
  Strings,    \* what the arguments of %s point to
  Behind      \* what lies behind the format in memory

LF == "LF"
CR == "CR"
Terminator == "NUL"

PrintfAssumption ==
  /\ Terminator \notin Symbols /\ MaxFormat \in Nat
  /\ \A s \in Strings \cup {Behind} : s \in Seq(ToSet(s))
  /\ Terminator \notin ToSet(Behind)

VARIABLES
  memory,     \* the format, what lies behind it, and their terminators
  format,     \* the pointer into it; 0: printf has not been called
  args,       \* how many arguments va_arg has taken
  printed,
  library,    \* "kernel" or "user": which copy of the function
  given       \* not in the code: the format and the string that were passed

vars == <<memory, format, args, printed, library, given>>

Init == /\ memory = <<>> /\ format = 0 /\ args = 0 /\ printed = <<>>
        /\ library = "kernel" /\ given = <<<<>>, <<>>>>
-----------------------------------------------------------------------------
Char(c) == <<c, 0>>
(* The kernel's functions send a carriage return before each line feed; so  *)
(* does the user's printf with those of the format, putstr does not.        *)
Returned(c) == IF c = LF THEN <<Char(CR), Char(LF)>> ELSE <<Char(c)>>
putstr(s) == [k \in DOMAIN s |-> Char(s[k])]
uart_put(s) == FlattenSeq([k \in DOMAIN s |-> Returned(s[k])])
Text(s) == IF library = "kernel" THEN uart_put(s) ELSE putstr(s)

Taken(c) == CASE c = "q" -> 2
              [] c \in {"d", "f", "s", "x", "p"} -> 1
              [] OTHER -> 0

(* What conversion c shows of argument n (of n and the next).               *)
Shown(c, n) == CASE c \in {"d", "q", "f", "x"} -> << <<c, n>> >>
                 [] c = "p" -> << <<"high", n>>, <<"x", n>> >>
                 [] c = "s" -> Text(given[2])
                 [] c = "%" -> <<Char("%")>>
                 [] OTHER -> <<>>

call(f, s) ==
  /\ format = 0 /\ format' = 1 /\ library' \in {"kernel", "user"}
  /\ memory' = f \o <<Terminator>> \o Behind \o <<Terminator>>
  /\ given' = <<f, s>> /\ UNCHANGED <<args, printed>>

print_char ==
  /\ format \in DOMAIN memory /\ memory[format] \notin {"%", Terminator}
  /\ printed' = printed \o Returned(memory[format])
  /\ format' = format + 1 /\ UNCHANGED <<memory, args, library, given>>

(* The character behind '%' is skipped whatever it is, the terminator too.  *)
Directive(skipped) ==
  /\ format \in DOMAIN memory /\ memory[format] = "%"
  /\ printed' = printed \o Shown(memory[format + 1], args + 1)
  /\ args' = args + Taken(memory[format + 1])
  /\ format' = format + skipped /\ UNCHANGED <<memory, library, given>>
SecondNotSkipped == Directive(1)                          \* ++format once
directive == Directive(2)

Next == print_char \/ directive
        \/ \E f \in BoundedSeq(Symbols, MaxFormat), s \in Strings : call(f, s)

Spec == Init /\ [][Next]_vars
-----------------------------------------------------------------------------
(* A '%' begins a directive unless it is the end of one.                    *)
Opens(f, i) == LET run == CHOOSE n \in 0..(i - 1) : /\ \A k \in 1..n : f[i - k] = "%"
                                                    /\ n < i - 1 => f[i - n - 1] # "%"
               IN  f[i] = "%" /\ run % 2 = 0
Operands(f) == {i + 1 : i \in {j \in DOMAIN f : Opens(f, j)}}
(* How many arguments the directives before i take: a pair for each.        *)
Before(f, i) == Cardinality({p \in (1..(i - 1)) \X (1..2) :
                              p[1] \in Operands(f) /\ p[2] <= Taken(f[p[1]])})

(***************************************************************************)
(* printf stops at the end of its format, and what it has printed is the    *)
(* text between the directives with each directive replaced by the next     *)
(* arguments; unknown directives show nothing and take none.  The exception *)
(* is a format that ends in a '%' of no directive: the terminator is        *)
(* skipped, and printf goes on behind it.                                   *)
(***************************************************************************)
PrintsTheFormat ==
  LET f == given[1]
      n == Len(f)
      open == n > 0 /\ Opens(f, n)
  IN  format > 0 /\ memory[Min({format, Len(memory)})] = Terminator =>
        IF open THEN format > n + 1
        ELSE /\ format = n + 1
             /\ printed = FlattenSeq([i \in 1..n |->
                            IF i \in Operands(f) THEN Shown(f[i], Before(f, i) + 1)
                            ELSE IF Opens(f, i) THEN <<>> ELSE Returned(f[i])])
             /\ args = Before(f, n + 1)
=============================================================================

------------------------------- MODULE Shell --------------------------------
(***************************************************************************)
(* The command line: uart_get_cmd of peripheral/uart.c with the terminal at *)
(* the other end of the line, and exec_cmd, parse and cmd_state_machine of  *)
(* shell/shell.c.  One step is one character received.                      *)
(***************************************************************************)
EXTENDS SequencesExt, Integers

CONSTANTS Letters,    \* characters that are neither a space nor a control
          Commands,   \* the words that cmd_state_machine knows
          BufSize     \* bound: input[100]; longer lines overrun it unnoticed

ASSUME ShellAssumption ==
  /\ Commands \subseteq Seq(Letters) /\ <<>> \notin Commands
  /\ {<<"none">>, <<"nop">>, <<"error_cmd">>} \cap Commands = {}
  /\ BufSize \in Nat \ {0}

Space == " "
NUL   == "NUL"

ASSUME CharsAreDistinct == {Space, NUL} \cap Letters = {}

VARIABLES
  input,     \* the buffer: its content is kept from line to line
  index,
  screen,    \* the terminal: what stands right of the prompt
  cursor,
  executed   \* the last line: its text, cmdline, argc[0..argv) and function

vars == <<input, index, screen, cursor, executed>>

Cells  == 0..(BufSize - 1)
Blank  == [i \in Cells |-> Space]
Upto(buf, n) == [i \in 1..n |-> buf[i - 1]]
(* The text in the buffer: up to its first NUL.                             *)
Text(buf) == Upto(buf, CHOOSE n \in Cells : buf[n] = NUL /\ \A i \in 0..(n - 1) : buf[i] # NUL)

Init ==
  /\ input \in [Cells -> Letters \cup {NUL}] /\ index = 0     \* whatever the stack held
  /\ screen = Blank /\ cursor = 0
  /\ executed = [text |-> <<>>, cmdline |-> <<>>, args |-> <<>>, function |-> <<"none">>]
-----------------------------------------------------------------------------
(* parse: the first space ends the command, each further one an argument;   *)
(* the last argument is counted once any character of one has been seen.    *)
SkipsSpaces(p, c) ==                                      \* no empty arguments
  IF ~p.flag THEN IF c = Space THEN [p EXCEPT !.flag = TRUE]
                  ELSE [p EXCEPT !.cmdline = Append(@, c)]
  ELSE IF c = Space THEN IF p.arg = <<>> THEN p
                         ELSE [p EXCEPT !.args = Append(@, p.arg), !.arg = <<>>]
  ELSE [p EXCEPT !.arg = Append(@, c), !.arg_flag = TRUE]
Parsed(p, c) ==
  IF ~p.flag THEN IF c = Space THEN [p EXCEPT !.flag = TRUE]
                  ELSE [p EXCEPT !.cmdline = Append(@, c)]
  ELSE IF c = Space THEN [p EXCEPT !.args = Append(@, p.arg), !.arg = <<>>]
  ELSE [p EXCEPT !.arg = Append(@, c), !.arg_flag = TRUE]

parse(text) ==
  LET p == FoldLeft(Parsed, [flag |-> FALSE, arg_flag |-> FALSE, cmdline |-> <<>>,
                             args |-> <<>>, arg |-> <<>>], text)
  IN  [cmdline |-> p.cmdline,
       args    |-> IF p.arg_flag THEN Append(p.args, p.arg) ELSE p.args]

cmd_state_machine(cmdline) == IF cmdline \in Commands THEN cmdline
                              ELSE IF cmdline = <<>> THEN <<"nop">> ELSE <<"error_cmd">>

exec_cmd(text) ==
  executed' = [text |-> text, cmdline |-> parse(text).cmdline, args |-> parse(text).args,
               function |-> cmd_state_machine(parse(text).cmdline)]
-----------------------------------------------------------------------------
(* uart_get_cmd, one character at a time.  The end of the line:             *)
OneTooFar  == [input EXCEPT ![index + 1] = NUL]           \* ret[++index] = 0
Terminated == [input EXCEPT ![index] = NUL]

enter ==
  /\ input' = Terminated
  /\ exec_cmd(Text(input'))
  /\ index' = 0 /\ screen' = Blank /\ cursor' = 0

(* Backspace or delete, echoed as '\b', ' ', '\b':                          *)
EchoErase == screen' = [screen EXCEPT ![cursor - 1] = Space] /\ cursor' = cursor - 1

erase ==
  /\ index > 0
  /\ input' = Terminated /\ index' = index - 1
  /\ EchoErase
  /\ UNCHANGED executed

(* A letter or a space; the guard is the bound on the length of a line.     *)
letter(c) ==
  /\ index < BufSize - 1
  /\ screen' = [screen EXCEPT ![cursor] = c] /\ cursor' = cursor + 1
  /\ input' = [input EXCEPT ![index] = c]
  /\ index' = index + 1
  /\ UNCHANGED executed

Next == enter \/ erase \/ \E c \in Letters \cup {Space} : letter(c)

Spec == Init /\ [][Next]_vars
-----------------------------------------------------------------------------
(***************************************************************************)
(* What the screen shows, and nothing that has been erased from it, is what *)
(* is executed, however the line has been edited and whatever the buffer    *)
(* held before.                                                             *)
(***************************************************************************)
ShownIsExecuted ==
  [][enter => /\ executed'.text = Upto(screen, cursor)
              /\ \A i \in Cells : i >= cursor => screen[i] = Space]_vars

(***************************************************************************)
(* No text is lost between words: the command and its arguments, joined by  *)
(* single spaces, are the line again, empty arguments included; only a      *)
(* space at its end may be missing.  A command runs if and only if it is    *)
(* what the line starts with, and a space or the end of the line follows.   *)
(***************************************************************************)
Joined(e) == FoldLeft(LAMBDA s, arg : s \o <<Space>> \o arg, e.cmdline, e.args)
LineUnderstood ==
  /\ executed.text \in {Joined(executed), Append(Joined(executed), Space)}
  /\ \A c \in Commands :
       executed.function = c <=> \/ executed.text = c
                                 \/ IsPrefix(Append(c, Space), executed.text)
=============================================================================

------------------------------ MODULE MCMachine ------------------------------
(* The sequential parts of the kernel for TLC, in the order in which they   *)
(* run: kernel_main reads the archive (Archive); then the shell reads lines *)
(* (Shell), a command calls a conversion (Numbers), or user_task starts a   *)
(* program (Exec), which makes a system call (SystemCalls) or prints        *)
(* (Printf).  What one of them does depends on none of the others' choices, *)
(* so each part is explored with one choice for the parts before it.        *)
EXTENDS Shell

CONSTANTS Names, Bodies, Trailer, MaxFiles, ArraySize, Align
VARIABLES files, mem, cur_address, file_address, header, phase, found

CONSTANTS IntMax, Word, HexDigits, TopPower, Fraction, Quotients, Chars, MaxLen
VARIABLE last

CONSTANTS StringAlign, PtrSize, IntSize, Lengths, MaxArgs, Files, TextNames,
          FrameWords, Depth
VARIABLES pc, file, argv, argc, nul, stack, argv_addr, umem, kmem, window

CONSTANTS RegisterRange, EntrySize, Table
VARIABLES x8, caller, ran

CONSTANTS Symbols, MaxFormat, Strings, Behind
VARIABLES memory, format, args, printed, library, given

Cpio     == INSTANCE Archive
Convert  == INSTANCE Numbers
Exec     == INSTANCE Exec
Calls    == INSTANCE SystemCalls
Printing == INSTANCE Printf

ASSUME MachineAssumption ==
  /\ Cpio!ArchiveAssumption /\ Convert!NumbersAssumption /\ Exec!ExecAssumption
  /\ Calls!TableAssumption /\ Printing!PrintfAssumption
-----------------------------------------------------------------------------
(* Two letters, and two commands of which one begins with the other.        *)
MCCommands == {<<"a">>, <<"a", "b">>}

(* Names of one and two letters, the trailer's being of one letter;         *)
(* contents of up to three cells.                                           *)
A == <<"a">>
T == <<"t">>
NoChar    == <<>>
MCNames   == {<<A>>, <<A, A>>, <<A, T>>, <<T, A>>, <<T, T>>}
MCBodies  == {<<>>, <<A>>, <<T>>, <<NoChar>>, <<A, NoChar, A>>}
MCTrailer == <<T>>

(* Remainders up to where their product wraps.                              *)
MCQuotients == (0..150) \X (1..60)

(* Files with the text section first, behind another, twice, and without.   *)
MCFiles     == {<<".text">>, <<".data", ".text">>, <<".text.boot", ".text">>, <<".data">>}
MCTextNames == {".text", ".text.boot"}
MCStrings   == {<<"a", "LF">>}
MCBehind    == <<"%", "d">>
-----------------------------------------------------------------------------
ArchiveVars == <<files, mem, cur_address, file_address, header, phase, found>>
ExecVars    == <<pc, file, argv, argc, nul, stack, argv_addr, umem, kmem, window>>
CallVars    == <<x8, caller, ran>>
PrintVars   == <<memory, format, args, printed, library, given>>

(* The choices that are kept while other parts are explored.                *)
OneArchive == files = <<[name |-> <<A>>, body |-> <<T>>]>>
OneBuffer  == input = [i \in Cells |-> NUL]
OneProgram == argv = <<>> /\ nul = 0 /\ file = <<".text">>

Booted   == phase = "done" /\ OneArchive /\ found[1] = "none"
Untyped  == OneBuffer /\ index = 0 /\ executed.function = <<"none">>
Unloaded == pc = "load" /\ OneProgram
Entered  == pc = "user" /\ OneProgram /\ ~window

MachineInit ==
  /\ Exec!Init
  /\ (~OneProgram => OneBuffer) /\ Init
  /\ (~(OneProgram /\ OneBuffer) => OneArchive) /\ Cpio!Init
  /\ Convert!Init /\ Calls!Init /\ Printing!Init

boot    == /\ phase = "walk" \/ (Untyped /\ Unloaded /\ last[1] = "none")
           /\ Cpio!Next /\ UNCHANGED <<vars, last, ExecVars, CallVars, PrintVars>>
shell   == /\ Booted /\ Unloaded /\ last[1] = "none"
           /\ Next /\ UNCHANGED <<ArchiveVars, last, ExecVars, CallVars, PrintVars>>
convert == /\ Booted /\ Untyped /\ Unloaded
           /\ Convert!Next
           /\ UNCHANGED <<vars, ArchiveVars, ExecVars, CallVars, PrintVars>>
start   == /\ Booted /\ Untyped /\ last[1] = "none"
           /\ Exec!Next /\ UNCHANGED <<vars, ArchiveVars, last, CallVars, PrintVars>>
call    == /\ Entered /\ format = 0
           /\ Calls!Next /\ UNCHANGED <<vars, ArchiveVars, last, ExecVars, PrintVars>>
print   == /\ Entered /\ caller = "asm" /\ x8 = 0 /\ ran = "none"
           /\ Printing!Next
           /\ UNCHANGED <<vars, ArchiveVars, last, ExecVars, CallVars>>

MachineSpec ==
  MachineInit /\ [][boot \/ shell \/ convert \/ start \/ call \/ print]_<<
                     vars, ArchiveVars, last, ExecVars, CallVars, PrintVars>>
-----------------------------------------------------------------------------
(* Entries of the table are files of the archive, in order (Archive).       *)
NothingInvented == Cpio!NothingInvented

(* No file is missed (Archive).                                             *)
AllFilesFound == Cpio!AllFilesFound

(* A name leads to its file's contents (Archive).                           *)
LoadsTheFile == Cpio!LoadsTheFile

(* cat and ls show what is in the archive (Archive).                        *)
ShowsTheFiles == Cpio!ShowsTheFiles

(* What is printed is read back as the same number (Numbers).               *)
ReadsBack == Convert!ReadsBack

(* strtol gives what the text denotes (Numbers).                            *)
ReadsExactly == Convert!ReadsExactly

(* set_argv leaves every argument complete on the user's stack (Exec).      *)
ImageIntact == Exec!ImageIntact

(* The program starts at its text with its stack, whatever ticks come       *)
(* (Exec).                                                                  *)
EntersRight == Exec!EntersRight

(* main's argv leads to the arguments (Exec).                               *)
ArgvDelivered == Exec!ArgvDelivered

(* System calls end in the functions of their names (SystemCalls).          *)
EndsInItsFunction == Calls!EndsInItsFunction

(* printf prints its format with the arguments in order (Printf).           *)
PrintsTheFormat == Printing!PrintsTheFormat
=============================================================================

------------------------------ MODULE Archive -------------------------------
(***************************************************************************)
(* libs/cpio.c: the walk over the archive in memory and the lookup of a     *)
(* file by name, for do_exec and for the commands ls, cat and run of        *)
(* shell/cmd.c.  A cell of memory is a character, <<c>>, a NUL, <<>>, or a *)
(* whole header, <<name size, file size>>; the sizes are eight hexadecimal  *)
(* digits, which strtol reads exactly (module Numbers).                     *)
(*                                                                         *)
(* Where the walk no longer stands on a header, or has filled header[], the *)
(* program reads and writes what happens to be there: state "lost".         *)
(***************************************************************************)
EXTENDS SequencesExt, Integers

CONSTANTS Names,      \* names of files, as sequences of characters
          Bodies,     \* contents of files, as sequences of cells
          Trailer,    \* the name "TRAILER!!!"
          MaxFiles,   \* bound: files in an archive
          ArraySize,  \* CPIO_ARRAY_SIZE
          Align       \* the archive's alignment

(* A name is at least one character; contents may have NULs, and no cell of *)
(* a name or of contents is a header.                                       *)
ArchiveAssumption ==
  /\ Trailer \notin Names /\ <<>> \notin Names \cup {Trailer}
  /\ Names \cup Bodies \cup {Trailer} \subseteq Seq(Seq(STRING))
  /\ \A name \in Names \cup {Trailer} : \A i \in DOMAIN name : Len(name[i]) = 1
  /\ \A body \in Bodies : \A i \in DOMAIN body : Len(body[i]) <= 1
  /\ MaxFiles \in Nat /\ ArraySize \in Nat /\ Align \in Nat \ {0}

VARIABLES
  files,          \* the archive, as cpio was given it
  mem,            \* the archive in memory, from address 1
  cur_address,
  file_address,   \* of the entry before; 0: not assigned yet
  header,         \* header[0..header_index]
  phase,          \* "walk", "done" or "lost"
  found           \* the last lookup: by what, of which name, and its result

vars == <<files, mem, cur_address, file_address, header, phase, found>>

NUL == <<>>
Padded(s) == s \o [i \in 1..((-Len(s)) % Align) |-> NUL]
Entry(name, body) ==
  Padded(<< <<Len(name) + 1, Len(body)>> >> \o name \o <<NUL>>) \o Padded(body)

Entries(fs) == FlattenSeq([i \in DOMAIN fs |-> Entry(fs[i].name, fs[i].body)])
Image(fs)   == Entries(fs) \o Entry(Trailer, <<>>)

Init ==
  /\ \E n \in 0..MaxFiles : files \in [1..n -> [name : Names, body : Bodies]]
  /\ mem = Image(files)
  /\ cur_address = 1 /\ file_address = 0 /\ header = <<>>
  /\ phase = "walk" /\ found = <<"none", NUL, 0>>
-----------------------------------------------------------------------------
(* strncmp(address, text, strlen(text)) = 0                                 *)
Begins(a, text) == \A i \in DOMAIN text :
                     a + i - 1 \in DOMAIN mem /\ mem[a + i - 1] = text[i]

NotPadded(a) == a                                         \* padding forgotten
AfterPadding(a) == CHOOSE b \in a..(Len(mem) + 1) :
                     /\ \A c \in a..(b - 1) : mem[c] = NUL
                     /\ b <= Len(mem) => mem[b] # NUL

OnHeader == cur_address <= Len(mem) /\ Len(mem[cur_address]) = 2

(* The text is looked for in the contents of the file before, and the end   *)
(* is reported when it is not there; before the first file the address is   *)
(* whatever the stack holds.                                                *)
NameOnly(size) == TRUE                                    \* length not looked at
LengthOf(size) == size = Len(Trailer) + 1
AtEnd == /\ LengthOf(mem[cur_address][1])
         /\ file_address # 0 => ~Begins(file_address, Trailer)
MayGoOn == AtEnd => file_address = 0

EntryAt(h) ==
  LET name == h + 1
      file == AfterPadding(name + mem[h][1])
  IN  [name_address |-> name, file_address |-> file,
       name_size |-> mem[h][1], file_size |-> mem[h][2]]

parse_entry ==
  /\ phase = "walk" /\ OnHeader /\ MayGoOn /\ Len(header) < ArraySize
  /\ LET e == EntryAt(cur_address)
     IN  /\ header' = Append(header, e)
         /\ file_address' = e.file_address
         /\ cur_address' = AfterPadding(e.file_address + e.file_size)
  /\ UNCHANGED <<files, mem, phase, found>>

parse_end ==
  /\ phase = "walk" /\ OnHeader /\ AtEnd
  /\ phase' = "done"
  /\ UNCHANGED <<files, mem, cur_address, file_address, header, found>>

lost ==
  /\ phase = "walk"
  /\ ~OnHeader \/ (OnHeader /\ MayGoOn /\ Len(header) = ArraySize)
  /\ phase' = "lost"
  /\ UNCHANGED <<files, mem, cur_address, file_address, header, found>>

(* The first file whose name begins with the name asked for.                *)
FromSecond(name) ==                                       \* i = 1
  LET hits == {i \in DOMAIN header : i > 1 /\ Begins(header[i].name_address, name)}
  IN  IF hits = {} THEN 0
      ELSE header[CHOOSE i \in hits : \A j \in hits : i <= j].file_address
Lookup(name) ==
  LET hits == {i \in DOMAIN header : Begins(header[i].name_address, name)}
  IN  IF hits = {} THEN 0
      ELSE header[CHOOSE i \in hits : \A j \in hits : i <= j].file_address

load_file(name) ==
  /\ phase = "done"
  /\ found' = <<"load_file", name, Lookup(name)>>
  /\ UNCHANGED <<files, mem, cur_address, file_address, header, phase>>

(* The text that get_content copies: up to a NUL, or to the size given.     *)
CellAt(a) == IF a \in DOMAIN mem THEN mem[a] ELSE NUL
get_content(a, size) ==
  LET n == CHOOSE n \in 0..size : /\ \A k \in 0..(n - 1) : CellAt(a + k) # NUL
                                  /\ n < size => CellAt(a + n) = NUL
  IN  [k \in 1..n |-> mem[a + k - 1]]
NameOf(i) == get_content(header[i].name_address, header[i].name_size)

(* cat compares the whole name; what it shows when there is no such file is *)
(* a message.                                                               *)
Message == <<"can't find file">>
ByPrefix(name) == {i \in DOMAIN header : IsPrefix(name, NameOf(i))}      \* strncmp
Named(name) == {i \in DOMAIN header : NameOf(i) = name}
cat(name) ==
  /\ phase = "done"
  /\ found' = <<"cat", name,
                IF Named(name) = {} THEN Message
                ELSE LET i == CHOOSE i \in Named(name) : \A j \in Named(name) : i <= j
                     IN  get_content(header[i].file_address, header[i].file_size)>>
  /\ UNCHANGED <<files, mem, cur_address, file_address, header, phase>>

ls ==
  /\ phase = "done"
  /\ found' = <<"ls", NUL, [i \in DOMAIN header |-> NameOf(i)]>>
  /\ UNCHANGED <<files, mem, cur_address, file_address, header, phase>>

Next == \/ parse_entry \/ parse_end \/ lost \/ ls
        \/ \E name \in Names \cup {Trailer} : load_file(name) \/ cat(name)

Spec == Init /\ [][Next]_vars
-----------------------------------------------------------------------------
(* The contents that the walk understands: padding and a leading NUL of a   *)
(* file look the same, and the trailer's name must not be a file's text.    *)
PlainBodies == \A i \in DOMAIN files : LET body == files[i].body
                                        IN  /\ body # <<>> => body[1] # NUL
                                            /\ ~IsPrefix(Trailer, body)
PlainNames == \A i \in DOMAIN files : Len(files[i].name) # Len(Trailer)

(***************************************************************************)
(* Each entry of header[] is a file of the archive, in order, with its name *)
(* and its contents, whatever the names are, and the walk stands on the     *)
(* header that comes next: no size or padding ever leads it astray.         *)
(***************************************************************************)
NothingInvented ==
  PlainBodies =>
    /\ Len(header) <= Len(files) + 1
    /\ \A i \in DOMAIN header \cap DOMAIN files :
         /\ Begins(header[i].name_address, Append(files[i].name, NUL))
         /\ Begins(header[i].file_address, files[i].body)
         /\ header[i].file_size = Len(files[i].body)
    /\ Len(header) <= Len(files) => 
         cur_address = 1 + Len(Entries(SubSeq(files, 1, Len(header))))

(***************************************************************************)
(* A file's name may not be as long as the trailer's; of the archives where *)
(* none is, and that fit header[], no file is missed.                       *)
(***************************************************************************)
AllFilesFound ==
  PlainBodies /\ PlainNames /\ Len(files) \in 1..ArraySize =>
    /\ phase # "lost"
    /\ phase = "done" => Len(header) = Len(files)

(***************************************************************************)
(* Who asks for a file that was entered gets its contents, unless a file    *)
(* before it has a longer name that begins alike; who gets an address gets  *)
(* that of a file whose name begins with the name asked for.                *)
(***************************************************************************)
LoadsTheFile ==
  PlainBodies /\ Len(files) > 0 /\ found[1] = "load_file" =>
    LET alike == {i \in DOMAIN header : IsPrefix(found[2], files[i].name)}
    IN  IF alike = {} THEN found[3] = 0
        ELSE \E i \in alike : /\ \A j \in alike : i <= j
                              /\ found[3] = header[i].file_address
                              /\ Begins(found[3], files[i].body)

(***************************************************************************)
(* cat shows the contents, up to a NUL, of the first file that has exactly  *)
(* the name typed, whichever other names begin alike, and its message only  *)
(* if there is none; ls shows the names in the archive's order.             *)
(***************************************************************************)
ShowsTheFiles ==
  PlainBodies /\ Len(files) > 0 =>
    LET named == {i \in DOMAIN header : files[i].name = found[2]}
    IN  /\ found[1] = "cat" =>
             IF named = {} THEN found[3] = Message
             ELSE \E i \in named : /\ \A j \in named : i <= j
                                   /\ IsPrefix(found[3], files[i].body)
                                   /\ \/ found[3] = files[i].body
                                      \/ files[i].body[Len(found[3]) + 1] = NUL
        /\ found[1] = "ls" => found[3] = [i \in DOMAIN header |-> files[i].name]
=============================================================================

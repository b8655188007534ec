------------------------------- MODULE ElfFile -------------------------------
(***************************************************************************)
(* The ELF file that make-elf.py makes of binary files, debug data and     *)
(* options: the tables in memory, the file as they are written to it, and  *)
(* the fields of headers that are corrected in the file afterwards.        *)
(*                                                                         *)
(* The file is a sequence of pieces of known sizes.  Strings count as many *)
(* bytes as they have characters.                                          *)
(***************************************************************************)
EXTENDS Integers, Sequences, SequencesExt

CONSTANTS
  Commands \* the command lines, with what the files they name contain:
           \*   bins: the binary files, each [name, addr, size, entry],
           \*   map: the ranges of the map file, [code, data],
           \*   entry, bss: what --entry and --bss say,
           \*   imageDef, boot2, main, prefix: the options of these names,
           \*   level: "none", "symbols" or "debug",
           \*   rdb: what the listings hold, [procs, vars, sections];
           \* <<>> stands for what is not given

VARIABLES
  step,     \* "main", then how far make() is, and "exit"
  command,  \* the command line
  job,      \* what main() makes of it
  sections, \* the section header table
  segments, \* the program header table
  nameTable,    \* .shstrtab
  stringTable,  \* .strtab
  symbols,  \* .symtab
  locals,   \* how many of its first entries are local
  file,     \* the pieces written
  header    \* the fields of the file header that are corrected

tables == <<sections, segments, nameTable, stringTable, symbols, locals>>
fileVars == <<step, command, job, tables, file, header>>

Given(x) == x # <<>>
Keep(xs, Test(_)) == FlattenSeq([i \in DOMAIN xs |-> IF Test(xs[i]) THEN <<xs[i]>> ELSE <<>>])
Mapped(xs, F(_)) == [i \in DOMAIN xs |-> F(xs[i])]

\* Where each of some things of these sizes ends; the first starts at end 0
Ends(sizes) ==
  LET end[k \in 0 .. Len(sizes)] == IF k = 0 THEN 0 ELSE end[k - 1] + sizes[k] IN end

-----------------------------------------------------------------------------
(* A string table: its first string is a NUL of its own.                   *)

Nul == "-"

AddString(table, s) ==
  IF s \in DOMAIN table.at THEN table
  ELSE [at |-> [x \in DOMAIN table.at \cup {s} |-> IF x = s THEN table.size ELSE table.at[x]],
        size |-> table.size + (Len(s) + 1), order |-> Append(table.order, s)]

EmptyTable == AddString([at |-> <<>>, size |-> 0, order |-> <<>>], Nul)
AddStrings(table, ss) ==
  LET after[k \in 0 .. Len(ss)] == IF k = 0 THEN table ELSE AddString(after[k - 1], ss[k])
  IN  after[Len(ss)]

StringSizes(table) == [k \in DOMAIN table.order |-> Len(table.order[k]) + 1]
Written(table) == Ends(StringSizes(table))[Len(table.order)]

-----------------------------------------------------------------------------
(* main(): addresses, ranges and validity.                                 *)

HeadSize == 52
SegmentSize == 32
SectionSize == 40
SymbolSize == 16
BlockSize == 256

\* Binary files with their addresses: the one file may have its from the map
Located(c) ==
  IF Len(c.bins) = 1 /\ ~Given(c.bins[1].addr) THEN <<[c.bins[1] EXCEPT !.addr = c.map.code]>> ELSE c.bins

Boot2(bins) == [name |-> "boot2", addr |-> <<bins[1].addr[1] - BlockSize>>, size |-> BlockSize, entry |-> 0]

EntryAddr(c) == IF Given(c.entry) THEN c.entry[1] ELSE IF c.bins = <<>> THEN 0 ELSE c.bins[1].entry

\* The data in memory, from the option, else from the map
BssRange(c) ==
  LET range == IF Given(c.bss) THEN c.bss ELSE c.map.data
  IN  IF Given(range) /\ range[2] > range[1] THEN <<[addr |-> range[1], size |-> range[2] - range[1]]>> ELSE <<>>

\* Without binary files debug data are what the file is for
Level(c) == IF c.bins = <<>> THEN "debug" ELSE c.level

Refused(c) ==
  \/ \E b \in Range(c.bins) : ~Given(b.addr) /\ (Len(c.bins) > 1 \/ ~Given(c.map.code))
  \/ c.imageDef /\ (c.bins = <<>> \/ c.boot2)
  \/ c.boot2 /\ c.bins = <<>>
  \/ Given(c.bss) /\ c.bss[2] <= c.bss[1]
  \/ Level(c) # "none" /\ ~Given(c.rdb)

JobOf(c) ==
  LET bins == Located(c) IN
    [bins |-> bins \o (IF c.boot2 THEN <<Boot2(bins)>> ELSE <<>>),
     entry |-> EntryAddr(c), bss |-> BssRange(c),
     debug |-> Level(c) = "debug", rdb |-> IF Level(c) = "none" THEN <<>> ELSE c.rdb]

Main ==
  /\ step = "main"
  /\ \/ Refused(command) /\ step' = "exit" /\ UNCHANGED job
     \/ ~Refused(command) /\ step' = "headers" /\ job' = JobOf(command)
  /\ UNCHANGED <<command, tables, file, header>>

-----------------------------------------------------------------------------
(* make(): sections and segments, each with the data it stands for.        *)

SectionHeader(name, kind, addr, size, data) ==
  [name |-> nameTable.at[name], kind |-> kind, addr |-> addr, offset |-> 0, size |-> size,
   link |-> 0, info |-> 0, data |-> data]

SectionName(j, i) == IF i = 1 THEN ".text" ELSE "." \o j.bins[i].name

\* What is loaded, in the order of its headers: the block before the code,
\* the binary files, and the data in memory, of which the file has nothing
LoadedOf(c, j) ==
  (IF c.imageDef
   THEN <<[name |-> ".image_def", kind |-> "bits", addr |-> j.bins[1].addr[1] - BlockSize, size |-> BlockSize]>>
   ELSE <<>>)
  \o [i \in DOMAIN j.bins |->
       [name |-> SectionName(j, i), kind |-> "bits", addr |-> j.bins[i].addr[1], size |-> j.bins[i].size]]
  \o Mapped(j.bss, LAMBDA b : [name |-> ".bss", kind |-> "nobits", addr |-> b.addr, size |-> b.size])

\* Debug sections only if they are asked for, and none that is empty
DebugOf(j) ==
  IF ~Given(j.rdb) THEN <<>>
  ELSE Keep(j.rdb[1].sections, LAMBDA s : s.size > 0 /\ (j.debug \/ s.name = ".ARM.attributes"))

ContentsOf(c, j) == Mapped(LoadedOf(c, j), LAMBDA x : x.name) \o Mapped(DebugOf(j), LAMBDA x : x.name)

Loaded == LoadedOf(command, job)
Debug == DebugOf(job)
Contents == ContentsOf(command, job)

NameSections ==
  /\ step = "headers" /\ step' = "sections"
  /\ nameTable' = AddStrings(nameTable, Contents \o <<".strtab", ".symtab">>)
  /\ UNCHANGED <<command, job, sections, segments, stringTable, symbols, locals, file, header>>

\* .shstrtab is the last section
AddSections ==
  /\ step = "sections" /\ step' = "symbols"
  /\ LET loaded == Mapped(Loaded, LAMBDA x : SectionHeader(x.name, x.kind, x.addr, x.size, x.name))
         debug == Mapped(Debug, LAMBDA x : SectionHeader(x.name, "bits", 0, x.size, x.name))
         before == sections \o loaded \o debug
     IN  sections' = before \o
           <<SectionHeader(".strtab", "strings", 0, 0, ".strtab"),
             [SectionHeader(".symtab", "symbols", 0, 0, ".symtab") EXCEPT !.link = Len(before)],
             SectionHeader(".shstrtab", "strings", 0, 0, ".shstrtab")>>
  /\ segments' = Mapped(Loaded, LAMBDA x :
       [addr |-> x.addr, offset |-> 0, filesz |-> IF x.kind = "bits" THEN x.size ELSE 0, memsz |-> x.size])
  /\ UNCHANGED <<command, job, nameTable, stringTable, symbols, locals, file, header>>

-----------------------------------------------------------------------------
(* Symbols.  A section is told by its index, from 0.                       *)

Absolute == -1

CodeIndex == IF job.bins = <<>> THEN Absolute ELSE IF command.imageDef THEN 2 ELSE 1

\* Of sections of one name it is the last
VarIndex ==
  LET bss == {i \in DOMAIN sections : sections[i].data = ".bss"}
  IN  IF bss = {} THEN Absolute ELSE Max(bss) - 1

Prefixed(c, name) == IF c.prefix = "" THEN name ELSE c.prefix \o "_" \o name
SymtabName(c, qualified) == Prefixed(c, qualified[1] \o "_" \o qualified[2])

Symbol(text, value, size, local, index) ==
  [text |-> text, value |-> value, size |-> size, local |-> local, index |-> index]

\* The address of a procedure, with the bit that says Thumb
Thumb(addr) == IF addr % 2 = 0 THEN addr + 1 ELSE addr

LocalSymbols ==
  IF ~Given(job.rdb) THEN <<>>
  ELSE Mapped(job.rdb[1].procs, LAMBDA p : Symbol("$t", p.addr, 0, TRUE, CodeIndex))

GlobalSymbols ==
  (IF command.main /\ job.entry # 0
   THEN Mapped(<<"main", "startup">>, LAMBDA n : Symbol(Prefixed(command, n), Thumb(job.entry), 0, FALSE, CodeIndex))
   ELSE <<>>)
  \o (IF ~Given(job.rdb) THEN <<>>
      ELSE Mapped(job.rdb[1].procs, LAMBDA p : Symbol(SymtabName(command, p.name), Thumb(p.addr), p.size, FALSE, CodeIndex))
           \o Mapped(job.rdb[1].vars, LAMBDA v : Symbol(SymtabName(command, v.name), v.addr, v.size, FALSE, VarIndex)))

\* With debug data the string of the local symbols is there, used or not
AddSymbols ==
  /\ step = "symbols" /\ step' = "write"
  /\ LET all == LocalSymbols \o GlobalSymbols
         table == AddStrings(stringTable, (IF Given(job.rdb) THEN <<"$t">> ELSE <<>>) \o Mapped(all, LAMBDA x : x.text))
     IN  /\ stringTable' = table
         /\ symbols' = symbols \o
              Mapped(all, LAMBDA x : [name |-> table.at[x.text], value |-> x.value, local |-> x.local, index |-> x.index])
  /\ locals' = locals + Len(LocalSymbols)
  /\ UNCHANGED <<command, job, sections, segments, nameTable, file, header>>

-----------------------------------------------------------------------------
(* What fits together in the files a command line names.                   *)

Binaries == [name : STRING, addr : Seq(Nat), size : Nat, entry : Nat]
Places == [name : Seq(STRING), addr : Nat, size : Nat]
Listings == [procs : Seq(Places), vars : Seq(Places), sections : Seq([name : STRING, size : Nat])]
CommandLines ==
  [bins : Seq(Binaries), map : [code : Seq(Nat), data : Seq(Nat)], entry : Seq(Nat), bss : Seq(Nat),
   imageDef : BOOLEAN, boot2 : BOOLEAN, main : BOOLEAN, prefix : STRING,
   level : {"none", "symbols", "debug"}, rdb : Seq(Listings)]

\* The names of all sections but the first, which has none
NamesOf(c) == ContentsOf(c, JobOf(c)) \o <<".strtab", ".symtab", ".shstrtab">>

\* The strings the tables hold, whatever the command line
FixedTexts == {Nul, ".shstrtab", ".strtab", ".symtab", "$t"}

\* No two sections have one name, nor one of those of the other pieces; .bss is
\* the data in memory
WellNamed(c) ==
  LET names == NamesOf(c) IN
    /\ ~Given(JobOf(c).bss) => ".bss" \notin Range(names)
    /\ \A i, k \in DOMAIN names : names[i] = names[k] => i = k
    /\ \A i \in DOMAIN names : names[i] \notin {"header", "segments", "sections"} /\ Len(names[i]) \in Nat
    /\ \A name \in {"main", "startup"} : Len(Prefixed(c, name)) \in Nat
    /\ \A l \in Range(c.rdb) : \A x \in Range(l.procs) \cup Range(l.vars) : Len(SymtabName(c, x.name)) \in Nat

LiesIn(addr, from, size) == from <= addr /\ addr < from + size

\* The listings are those of the first binary file and of its data in memory
WellPlaced(c) ==
  LET j == JobOf(c) IN
    /\ Given(j.bins) =>
         /\ c.main /\ j.entry # 0 => LiesIn(Thumb(j.entry), j.bins[1].addr[1], j.bins[1].size)
         /\ \A l \in Range(j.rdb) : \A p \in Range(l.procs) : \A addr \in {p.addr, Thumb(p.addr)} :
              LiesIn(addr, j.bins[1].addr[1], j.bins[1].size)
    /\ Given(j.bss) =>
         \A l \in Range(j.rdb) : \A v \in Range(l.vars) : LiesIn(v.addr, j.bss[1].addr, j.bss[1].size)

ASSUME CommandsAssumption ==
  /\ \A s \in FixedTexts : Len(s) \in Nat
  /\ \A c \in Commands :
       /\ c \in CommandLines
       /\ \A range \in {c.bss, c.map.data} : Given(range) => Len(range) = 2
       /\ ~Refused(c) => WellNamed(c) /\ WellPlaced(c)

-----------------------------------------------------------------------------
(* Writing.                                                                *)

Piece(data, size) == [data |-> data, size |-> size]
HasSegments == segments # <<>>

\* Each piece comes to the end of those before
WriteFile ==
  /\ step = "write" /\ step' = "fix up"
  /\ LET bits == Keep(sections, LAMBDA s : s.kind = "bits")
         pieces == <<Piece("header", HeadSize)>>
           \o (IF HasSegments THEN <<Piece("segments", SegmentSize * Len(segments))>> ELSE <<>>)
           \o Mapped(bits, LAMBDA s : Piece(s.data, s.size))
           \o <<Piece(".shstrtab", Written(nameTable)), Piece(".strtab", Written(stringTable)),
                Piece(".symtab", SymbolSize * Len(symbols)), Piece("sections", SectionSize * Len(sections))>>
         ends == Ends(Mapped(pieces, LAMBDA p : p.size))
     IN  file' = [k \in DOMAIN pieces |-> [data |-> pieces[k].data, size |-> pieces[k].size, at |-> ends[k - 1]]]
  /\ UNCHANGED <<command, job, tables, header>>

PieceOf(data) == file[SelectInSeq(file, LAMBDA p : p.data = data)]

\* Mutant of Corrected: the number of local symbols without the empty one
Corrected_Info(s) ==
  CASE s.kind = "bits" -> [s EXCEPT !.offset = PieceOf(s.data).at]
    [] s.kind = "strings" -> [s EXCEPT !.offset = PieceOf(s.data).at, !.size = PieceOf(s.data).size]
    [] s.kind = "symbols" -> [s EXCEPT !.offset = PieceOf(s.data).at, !.size = PieceOf(s.data).size, !.info = locals - 1]
    [] OTHER -> s

Corrected(s) ==
  CASE s.kind = "bits" -> [s EXCEPT !.offset = PieceOf(s.data).at]
    [] s.kind = "strings" -> [s EXCEPT !.offset = PieceOf(s.data).at, !.size = PieceOf(s.data).size]
    [] s.kind = "symbols" -> [s EXCEPT !.offset = PieceOf(s.data).at, !.size = PieceOf(s.data).size, !.info = locals]
    [] OTHER -> s

FixUp ==
  /\ step = "fix up" /\ step' = "done"
  /\ sections' = Mapped(sections, Corrected)
  /\ segments' = [i \in DOMAIN segments |->
       IF Loaded[i].kind = "bits" THEN [segments[i] EXCEPT !.offset = PieceOf(Loaded[i].name).at] ELSE segments[i]]
  /\ header' = [shnum |-> Len(sections), phnum |-> Len(segments), shoff |-> PieceOf("sections").at,
                phoff |-> IF HasSegments THEN PieceOf("segments").at ELSE 0, shstrndx |-> Len(sections) - 1]
  /\ UNCHANGED <<command, job, nameTable, stringTable, symbols, locals, file>>

-----------------------------------------------------------------------------
FileInit ==
  /\ step = "main" /\ command \in Commands /\ job = <<>>
  /\ nameTable = AddString(EmptyTable, ".shstrtab") /\ stringTable = EmptyTable
  /\ sections = <<[name |-> 0, kind |-> "null", addr |-> 0, offset |-> 0, size |-> 0,
                   link |-> 0, info |-> 0, data |-> ""]>>
  /\ segments = <<>>
  /\ symbols = <<[name |-> 0, value |-> 0, local |-> TRUE, index |-> 0]>> /\ locals = 1
  /\ file = <<>> /\ header = <<>>

FileNext == Main \/ NameSections \/ AddSections \/ AddSymbols \/ WriteFile \/ FixUp
FileSpec == FileInit /\ [][FileNext]_fileVars

-----------------------------------------------------------------------------
(* What a reader finds: it starts at the header and follows the offsets.   *)

At(offset, size) == {p.data : p \in {q \in Range(file) : q.at = offset /\ q.size = size}}

TableOf(data) == CASE data = ".shstrtab" -> nameTable [] data = ".strtab" -> stringTable

\* The string at an offset: where a string begins, counting what is written
StringAt(section, offset) ==
  LET table == TableOf(CHOOSE d \in At(section.offset, section.size) : TRUE)
      ends == Ends(StringSizes(table))
  IN  {table.order[k] : k \in {j \in DOMAIN table.order : ends[j - 1] = offset}}

\* A reader finds each section under its name and with its bytes, and the
\* section header table itself; a loader puts each binary file, and the
\* block before it, at its address.
FileReadsBack ==
  step = "done" =>
    /\ "sections" \in At(header.shoff, SectionSize * header.shnum)
    /\ HasSegments => "segments" \in At(header.phoff, SegmentSize * header.phnum)
    /\ \A i \in 2 .. Len(sections) :
         LET s == sections[i] IN
           /\ StringAt(sections[header.shstrndx + 1], s.name) = {s.data}
           /\ s.kind # "nobits" => s.data \in At(s.offset, s.size)
    /\ \A b \in Range(job.bins) : \E s \in Range(segments) :
         s.addr = b.addr[1] /\ s.filesz = b.size /\ (s.filesz = s.memsz) /\ At(s.offset, s.filesz) # {}
    /\ (command.imageDef \/ command.boot2) => \E s, t \in Range(segments) :
         t.addr = job.bins[1].addr[1] /\ s.addr + s.memsz = t.addr /\ s.filesz = BlockSize

\* Local symbols come first and are as many as the table's header says; each
\* procedure and variable has a symbol by its name, which belongs to the
\* section its address lies in.
SymbolsResolve ==
  step = "done" =>
    LET table == CHOOSE s \in Range(sections) : s.kind = "symbols"
        Text(x) == StringAt(sections[table.link + 1], x.name)
        Inside(x) == x.index = Absolute \/
          LET s == sections[x.index + 1] IN s.addr <= x.value /\ x.value < s.addr + s.size
    IN  /\ \A i \in DOMAIN symbols : symbols[i].local <=> i <= table.info
        /\ \A i \in 2 .. Len(symbols) : Inside(symbols[i])
        /\ Given(job.rdb) =>
             /\ \A p \in Range(job.rdb[1].procs) : \E x, y \in Range(symbols) :
                  /\ x.local /\ x.value = p.addr /\ "$t" \in Text(x)
                  /\ ~y.local /\ y.value = Thumb(p.addr) /\ SymtabName(command, p.name) \in Text(y)
             /\ \A v \in Range(job.rdb[1].vars) : \E x \in Range(symbols) :
                  ~x.local /\ x.value = v.addr /\ SymtabName(command, v.name) \in Text(x)

\* Readers of the file, a loader and a debugger, find in it what was meant.
FileSound == FileReadsBack /\ SymbolsResolve
=============================================================================

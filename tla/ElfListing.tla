----------------------------- MODULE ElfListing ------------------------------
(***************************************************************************)
(* The code of a listing in pylib/elfdata.py: procedures, frames and lines *)
(* from parse_listing, and the line program and the frame entries made of  *)
(* them, against what a debugger reads from these.                         *)
(*                                                                         *)
(* A line of a listing is an instruction, a word of data, or text.  A line *)
(* of text may declare a procedure.                                        *)
(***************************************************************************)
EXTENDS Integers, FiniteSets, Sequences, SequencesExt

CONSTANTS
  AddrSteps, LineSteps, \* distances between two rows of a line table
  MaxRows,              \* bound: rows
  Blocks, BodyBlocks,   \* lines of a procedure, of a body of a module
  Names,                \* of procedures: a sequence, and a bound
  BodyName              \* the name the tool gives to the body of a module

VARIABLES
  rows,         \* a line table: addresses and lines
  listing,      \* lines
  starts,       \* the first line of each procedure
  ended         \* the body of the module is compiled

listingVars == <<rows, listing, starts, ended>>

-----------------------------------------------------------------------------
(* Numbers in bytes of seven bits, from the low end, all but the last with *)
(* the high bit set; a signed number ends when the rest is its sign.       *)

RECURSIVE Uleb128(_), Sleb128(_)
Uleb128(value) ==
  IF value \div 128 = 0 THEN <<value % 128>>
  ELSE <<(value % 128) + 128>> \o Uleb128(value \div 128)

EndsSigned(byte, rest) == (rest = 0 /\ byte < 64) \/ (rest = -1 /\ byte >= 64)

Sleb128(value) ==
  IF EndsSigned(value % 128, value \div 128) THEN <<value % 128>>
  ELSE <<(value % 128) + 128>> \o Sleb128(value \div 128)

\* What a reader makes of the bytes
SevenBits(bytes) == FoldRight(LAMBDA b, n : n * 128 + (b % 128), bytes, 0)
Range7(bytes) == FoldRight(LAMBDA b, n : n * 128, bytes, 1)
Unsigned(bytes) == SevenBits(bytes)
Signed(bytes) == IF Last(bytes) < 64 THEN SevenBits(bytes) ELSE SevenBits(bytes) - Range7(bytes)

-----------------------------------------------------------------------------
(* The line program: a row in one opcode if its distances are small        *)
(* enough, else in up to three.                                            *)

LineBase == -5
LineRange == 14
OpcodeBase == 13
MinLength == 2

Code(op, arg) == [op |-> op, arg |-> arg]

Fits(lines, special) ==
  /\ 0 <= lines - LineBase /\ lines - LineBase < LineRange
  /\ OpcodeBase <= special /\ special < 256

Advance(addr, lines) ==
  LET special == (lines - LineBase) + LineRange * (addr \div MinLength) + OpcodeBase IN
    IF Fits(lines, special) THEN <<Code("special", special)>>
    ELSE (IF addr > 0 THEN <<Code("advance_pc", addr \div MinLength)>> ELSE <<>>)
           \o (IF lines # 0 THEN <<Code("advance_line", lines)>> ELSE <<>>) \o <<Code("copy", 0)>>

FirstRow(row) ==
  <<Code("set_address", row.addr)>>
    \o (IF row.line # 1 THEN <<Code("advance_line", row.line - 1)>> ELSE <<>>) \o <<Code("copy", 0)>>

LineProgram(table) ==
  IF table = <<>> THEN <<>>
  ELSE FlattenSeq([i \in DOMAIN table |->
         IF i = 1 THEN FirstRow(table[i])
         ELSE Advance(table[i].addr - table[i - 1].addr, table[i].line - table[i - 1].line)])
       \o <<Code("end_sequence", 0)>>

\* The registers of the reader, and the rows it has found
Execute(s, x) ==
  LET Row(t) == [t EXCEPT !.table = Append(@, [addr |-> t.addr, line |-> t.line])]
      Special(n) == Row([s EXCEPT !.addr = @ + MinLength * (n \div LineRange),
                                  !.line = @ + LineBase + (n % LineRange)])
  IN  CASE x.op = "special" -> Special(x.arg - OpcodeBase)
        [] x.op = "set_address" -> [s EXCEPT !.addr = x.arg]
        [] x.op = "advance_pc" -> [s EXCEPT !.addr = @ + MinLength * x.arg]
        [] x.op = "advance_line" -> [s EXCEPT !.line = @ + x.arg]
        [] x.op = "copy" -> Row(s)
        [] x.op = "end_sequence" -> s

Decoded(program) == FoldLeft(Execute, [addr |-> 0, line |-> 1, table |-> <<>>], program).table

-----------------------------------------------------------------------------
(* Procedures.  A procedure begins at the first instruction at or behind   *)
(* its declaration; the body of the module begins at the last push of the  *)
(* return address before the last return, if that is not a procedure.  A   *)
(* procedure ends where the next one begins.                               *)

IsAsm(l) == l.kind # "text"
IsData(l) == l.kind = "data"
PushesLR(l) == l.kind = "push" /\ 14 \in l.regs
AsmIndices(ls) == {i \in DOMAIN ls : IsAsm(ls[i])}
EndOf(ls) == Max({ls[i].addr + ls[i].size : i \in AsmIndices(ls)})

ProcStarts(ls) ==
  LET From(d) == {i \in AsmIndices(ls) : i >= d} IN
    {[name |-> ls[d].declares, addr |-> ls[Min(From(d))].addr] :
       d \in {i \in DOMAIN ls : ls[i].kind = "text" /\ ls[i].declares # "" /\ From(i) # {}}}

\* Mutant of InitStart: the first push of the return address
InitStart_First(ls) ==
  LET pushes == {i \in DOMAIN ls : PushesLR(ls[i])} IN
    IF pushes = {} THEN {} ELSE {ls[Min(pushes)].addr}

InitStart(ls) ==
  LET pops == {i \in DOMAIN ls : ls[i].kind = "pop_pc"}
      pushes == {i \in DOMAIN ls : PushesLR(ls[i]) /\ i < Max(pops)}
  IN  IF pops = {} \/ pushes = {} THEN {} ELSE {ls[Max(pushes)].addr}

Procedures(ls) ==
  LET procs == ProcStarts(ls)
      init == {a \in InitStart(ls) : \A p \in procs : p.addr # a}
      all == procs \cup {[name |-> BodyName, addr |-> a] : a \in init}
      EndFrom(a) == Min({q.addr : q \in {p \in all : p.addr > a}} \cup {EndOf(ls)})
  IN  {[name |-> p.name, addr |-> p.addr, size |-> EndFrom(p.addr) - p.addr] : p \in all}

\* The line a source line entry tells: the last line of text above
LineEntries(ls) ==
  LET Above(i) == Max({j \in 1 .. i - 1 : ls[j].kind = "text"} \cup {1})
      Entry(i) == [addr |-> ls[i].addr, line |-> Above(i)]
  IN  FoldLeft(LAMBDA es, i : IF IsAsm(ls[i]) /\ ~IsData(ls[i]) THEN Append(es, Entry(i)) ELSE es,
               <<>>, [i \in DOMAIN ls |-> i])

-----------------------------------------------------------------------------
(* Frames.  The first push in a procedure, and a subtraction from the      *)
(* stack pointer right behind it.                                          *)

FrameOf(ls, p) ==
  LET pushes == {i \in DOMAIN ls : ls[i].kind = "push" /\ p.addr <= ls[i].addr /\ ls[i].addr < p.addr + p.size}
      Sub(i) == i \in DOMAIN ls /\ ls[i].kind = "sub_sp"
      Frame(i) ==
        [addr |-> p.addr, size |-> p.size, push |-> ls[i].size, regs |-> ls[i].regs,
         adjust |-> IF Sub(i + 1) THEN ls[i + 1].n ELSE 0, sub |-> IF Sub(i + 1) THEN ls[i + 1].size ELSE 0]
  IN  IF pushes = {} THEN {} ELSE {Frame(Min(pushes))}
Frames(ls) == UNION {FrameOf(ls, p) : p \in Procedures(ls)}

\* The entry of a frame: the canonical address is the stack pointer, then so
\* much above it; registers are found below it, in words
FrameProgram(f) ==
  LET regs == SetToSortSeq(f.regs, <)
      n == Len(regs)
  IN  <<Code("advance", f.push), Code("cfa_offset", 4 * n)>>
        \o [k \in DOMAIN regs |-> [op |-> "saved", arg |-> n - k + 1, reg |-> regs[k]]]
        \o (IF f.adjust > 0 THEN <<Code("advance", f.sub), Code("cfa_offset", 4 * n + f.adjust)>> ELSE <<>>)

\* What a reader knows at an address: the offset, and where registers are
Unwind(f, addr) ==
  FoldLeft(LAMBDA s, x :
      CASE x.op = "advance" -> [s EXCEPT !.at = @ + x.arg]
        [] x.op = "cfa_offset" /\ s.at <= addr -> [s EXCEPT !.cfa = x.arg]
        [] x.op = "saved" /\ s.at <= addr -> [s EXCEPT !.saved = @ \cup {[reg |-> x.reg, below |-> 4 * x.arg]}]
        [] OTHER -> s,
    [at |-> f.addr, cfa |-> 0, saved |-> {}], FrameProgram(f))
-----------------------------------------------------------------------------
ListingInit == rows = <<>> /\ listing = <<>> /\ starts = <<>> /\ ended = FALSE

AddRow ==
  /\ listing = <<>> /\ Len(rows) < MaxRows
  /\ \E da \in AddrSteps, dl \in LineSteps :
       LET before == IF rows = <<>> THEN [addr |-> 0, line |-> 1] ELSE Last(rows)
           row == [addr |-> before.addr + da, line |-> before.line + dl]
       IN  row.line > 0 /\ rows' = Append(rows, row)
  /\ UNCHANGED <<listing, starts, ended>>

\* The lines of a block, at the next addresses
Placed(block, ls) ==
  LET start == IF AsmIndices(ls) = {} THEN 0 ELSE EndOf(ls) IN
    FoldLeft(LAMBDA s, l : [next |-> s.next + l.size, lines |-> Append(s.lines, l @@ [addr |-> s.next])],
             [next |-> start, lines |-> <<>>], block).lines

CompileProcedure ==
  /\ rows = <<>> /\ ~ended /\ Len(starts) < Len(Names)
  /\ \E b \in Blocks :
       listing' = listing \o Placed([b EXCEPT ![1].declares = Names[Len(starts) + 1]], listing)
  /\ starts' = Append(starts, Len(listing) + 1)
  /\ UNCHANGED <<rows, ended>>

CompileBody ==
  /\ rows = <<>> /\ ~ended /\ ended' = TRUE
  /\ \E b \in BodyBlocks : listing' = listing \o Placed(b, listing)
  /\ starts' = Append(starts, Len(listing) + 1)
  /\ UNCHANGED rows

ListingNext == AddRow \/ CompileProcedure \/ CompileBody
ListingSpec == ListingInit /\ [][ListingNext]_listingVars

-----------------------------------------------------------------------------
(* Properties.                                                             *)

\* A debugger reads from the line program the rows it was made from.
RowsKept ==
  /\ Decoded(LineProgram(rows)) = rows
  /\ ended => Decoded(LineProgram(LineEntries(listing))) = LineEntries(listing)

\* Numbers in the debug data have the value they were given, also where the
\* number of bytes changes.
NumbersKept ==
  \A r \in Range(rows) : \A n \in {r.addr, r.line, r.line - r.addr} :
    Signed(Sleb128(n)) = n /\ (n >= 0 => Unsigned(Uleb128(n)) = n)

Owner(i) == Max({k \in DOMAIN starts : starts[k] <= i})
OwnerName(i) == IF ended /\ Owner(i) = Len(starts) THEN BodyName ELSE Names[Owner(i)]

\* Every instruction belongs to the procedure it was compiled for: the tool
\* knows the starts only from the lines of the declarations, and the body of
\* the module from its instructions.
OwnersFound ==
  ended => \A i \in AsmIndices(listing) :
    \E p \in Procedures(listing) :
      p.name = OwnerName(i) /\ p.addr <= listing[i].addr /\ listing[i].addr < p.addr + p.size

\* Before the epilogue, the caller's stack pointer and registers are found
\* where the instructions have put them.
FrameUnwinds ==
  ended => \A i \in AsmIndices(listing) :
    LET before == {j \in starts[Owner(i)] .. i - 1 : IsAsm(listing[j])}
        pushed == UNION {listing[j].regs : j \in {k \in before : listing[k].kind = "push"}}
        reserved == FoldLeft(LAMBDA n, j : IF j \in before THEN n + listing[j].n ELSE n, 0,
                             [j \in DOMAIN listing |-> j])
        depth == 4 * Cardinality(pushed) + reserved
        above(r) == 4 * Cardinality({q \in pushed : q >= r})
    IN  \A f \in {g \in Frames(listing) : g.addr <= listing[i].addr /\ listing[i].addr < g.addr + g.size} :
          (\A j \in before : listing[j].kind \notin {"add_sp", "pop_pc"}) =>
            Unwind(f, listing[i].addr)
              = [at |-> Unwind(f, listing[i].addr).at, cfa |-> depth,
                 saved |-> {[reg |-> r, below |-> above(r)] : r \in pushed}]

\* The debug data made from a listing says of each instruction its line, its
\* procedure and its frame.
ListingKept == RowsKept /\ NumbersKept /\ OwnersFound /\ FrameUnwinds
=============================================================================

--------------------------- MODULE GeneratedCode ---------------------------
(***************************************************************************)
(* Two tools that write code into the programmer's source file, between    *)
(* markers, and replace it on each run:                                    *)
(*   gen-asm       translates (* ASM ... END ASM *) blocks;                *)
(*   sec-epilogue  puts the return to the Non-secure caller before the END *)
(*                 of each exported procedure, from the stack frame it     *)
(*                 finds in the listing of the compiler.                   *)
(*                                                                         *)
(* The file is a sequence of lines, each known by what the tools see in    *)
(* it; what stands on the line of a marker is a line of its own.  The      *)
(* programmer edits and compiles between the runs of the tools.            *)
(***************************************************************************)
EXTENDS InlineAsm, SequencesExt

CONSTANTS
  Sources,  \* the files to begin with
  Listings, \* what the compiler may list for a procedure: [nested, own]
  AsmLines, \* lines the programmer writes into an ASM block
  MaxEdits  \* bound: edits and compilations

VARIABLES
  text,    \* the file
  listing, \* the listing of each exported procedure
  hand,    \* history: what the programmer wrote
  last,    \* the last tool that ran since an edit, and whether it succeeded
  edits
codeVars == <<text, listing, hand, last, edits>>

Mark(kind) == [kind |-> kind]
Statement(id) == [kind |-> "stmt", id |-> id]
Heading(name, function) == [kind |-> "proc", name |-> name, function |-> function]
EndOf(name) == [kind |-> "end", name |-> name]
Import(names, open) == [kind |-> "import", names |-> names, open |-> open]
MoreImports(names) == [kind |-> "more", names |-> names, open |-> FALSE]
Operation(l) == [kind |-> "op", line |-> l]
Generated(call) == [kind |-> "call", call |-> call]

OfKind(lines, kinds) == {i \in DOMAIN lines : lines[i].kind \in kinds}
FirstOf(lines, kind) ==
  LET Is(l) == l.kind = kind IN SelectInSeq(lines, Is)
From(lines, i) == SubSeq(lines, i, Len(lines))

ToGenerated(calls) == [i \in DOMAIN calls |-> Generated(calls[i])]

-----------------------------------------------------------------------------
(* gen-asm.                                                                *)

(* Comments and empty lines of a block translate to nothing; any line that *)
(* is no instruction is an error.                                          *)
Silent == {"comment", "blank", "+asm", "-asm", "+sec", "-sec"}
AllTranslate(body) ==
  \A i \in DOMAIN body : \/ body[i].kind \in Silent
                         \/ body[i].kind = "op" /\ Translates(body[i].line)
Translation(body) ==
  LET Of(l) == IF l.kind = "op" THEN ToGenerated(Calls(l.line)) ELSE <<>>
  IN FlattenSeq([i \in DOMAIN body |-> Of(body[i])])

(* The code of the last run, if it follows directly.                       *)
WithoutOld(lines) ==
  IF lines = <<>> \/ FirstOf(lines, "+asm") # 1 THEN lines
  ELSE IF FirstOf(lines, "-asm") = 0 THEN <<>>
  ELSE From(lines, FirstOf(lines, "-asm") + 1)

Marked(calls) ==
  IF calls = <<>> THEN <<>> ELSE <<Mark("+asm")>> \o calls \o <<Mark("-asm")>>

RECURSIVE AsmScan(_, _)
AsmScan(lines, done) ==
  LET end == FirstOf(lines, "endasm")
      body == SubSeq(lines, 2, end - 1)
      Keep(errors) ==
        AsmScan(Tail(lines), [done EXCEPT !.lines = Append(@, Head(lines)),
                                          !.errors = @ + errors])
  IN IF lines = <<>> THEN done
     ELSE IF Head(lines).kind # "asm" THEN Keep(0)
     ELSE IF end = 0 THEN Keep(1)
     ELSE IF ~AllTranslate(body) THEN
       AsmScan(WithoutOld(From(lines, end + 1)),
               [done EXCEPT !.lines = @ \o SubSeq(lines, 1, end), !.errors = @ + 1])
     ELSE
       AsmScan(WithoutOld(From(lines, end + 1)),
               [done EXCEPT !.lines = @ \o SubSeq(lines, 1, end) \o Marked(Translation(body)),
                            !.modified = @ \/ Translation(body) # <<>>])

MentionsSystem(l) ==
  \/ l.kind = "call"
  \/ l.kind \in {"import", "more"} /\ "SYSTEM" \in ToSet(l.names)
EndsStatement(l) ==
  \/ l.kind \in {"stmt", "proc", "end", "call"}
  \/ l.kind = "more" /\ ~l.open

AddSystem(lines, i) ==
  [lines EXCEPT ![i].names = <<"SYSTEM">> \o @]

(* gen-asm looks on to the next semicolon after the line of the IMPORT.    *)
EnsureSystemAsm(lines) ==
  LET i == FirstOf(lines, "import")
      upTo == CHOOSE j \in i + 1 .. Len(lines) :
                /\ EndsStatement(lines[j])
                /\ \A k \in i + 1 .. j - 1 : ~EndsStatement(lines[k])
  IN IF i = 0 \/ \E k \in i .. upTo : MentionsSystem(lines[k])
     THEN lines ELSE AddSystem(lines, i)

GenAsm(lines) ==
  LET scan == AsmScan(lines, [lines |-> <<>>, errors |-> 0, modified |-> FALSE])
      write == scan.modified /\ scan.errors = 0
  IN [ok |-> scan.errors = 0,
      lines |-> IF write THEN EnsureSystemAsm(scan.lines) ELSE lines]

-----------------------------------------------------------------------------
(* sec-epilogue: the source and the listing.                               *)

(* The exported procedures, with the line of their END, in file order.     *)
ParseProcs(lines) ==
  LET Ends(i, j) == /\ lines[i].kind = "proc" /\ lines[j].kind = "end"
                    /\ i < j /\ lines[j].name = lines[i].name
                    /\ \A k \in i + 1 .. j - 1 :
                         /\ lines[k].kind # "proc"
                         /\ lines[k] # lines[j]
      ends == {j \in DOMAIN lines : \E i \in DOMAIN lines : Ends(i, j)}
      ProcAt(j) ==
        LET i == CHOOSE i \in DOMAIN lines : Ends(i, j)
        IN [name |-> lines[i].name, function |-> lines[i].function, end |-> j]
      order == SetToSortSeq(ends, <)
  IN [n \in DOMAIN order |-> ProcAt(order[n])]

(* Mutant of ParseListing: a subtraction of a register is not seen.        *)
ParseListing_NoMove(list) ==
  LET asm == list.nested \o list.own
      Push(x) == x.op = "push"
      push == SelectInSeq(asm, Push)
  IN IF push = 0 THEN [pushed |-> 0, sub |-> 0, fpu |-> FALSE]
     ELSE [pushed |-> asm[push].n,
           sub |-> IF push < Len(asm) /\ asm[push + 1].op = "sub"
                   THEN asm[push + 1].n ELSE 0,
           fpu |-> \E i \in DOMAIN asm : asm[i].op = "fpu"]

(* The first push, then a subtraction from SP: immediate, or of a register *)
(* that the instruction before has loaded.  Only moves may come between.   *)
(* The search begins at the heading, so that the code of the procedures    *)
(* declared inside comes first.                                            *)
ParseListing(list) ==
  LET asm == list.nested \o list.own
      Push(x) == x.op = "push"
      Stop(x) == x.op \notin {"mov", "movreg"}
      push == SelectInSeq(asm, Push)
      sub == push + SelectInSeq(From(asm, push + 1), Stop)
      value == IF asm[sub].op = "sub" THEN asm[sub].n
               ELSE IF asm[sub].op = "subreg" /\ asm[sub - 1].op = "mov"
                       /\ asm[sub - 1].reg = asm[sub].reg
               THEN asm[sub - 1].n ELSE 0
  IN IF push = 0 THEN [pushed |-> 0, sub |-> 0, fpu |-> FALSE]
     ELSE [pushed |-> asm[push].n,
           sub |-> IF sub = push THEN 0 ELSE value,
           fpu |-> \E i \in DOMAIN asm : asm[i].op = "fpu"]

-----------------------------------------------------------------------------
(* sec-epilogue: the code.                                                 *)

ByteAt(v, k) == (v \div 256 ^ k) % 256

(* The modified immediate of Thumb-2, or -1.  Stack frames are far below   *)
(* 2^24 bytes, so that a rotation by less than 8 cannot be the answer.     *)
ModImm(v) ==
  LET Rotated(r) == /\ v % 2 ^ (32 - r) = 0
                    /\ v \div 2 ^ (32 - r) \in 128 .. 255
      even == ByteAt(v, 1) = 0 /\ ByteAt(v, 3) = 0 /\ ByteAt(v, 0) = ByteAt(v, 2)
      odd  == ByteAt(v, 0) = 0 /\ ByteAt(v, 2) = 0 /\ ByteAt(v, 1) = ByteAt(v, 3)
  IN CASE v < 256 -> v
       [] v >= 256 /\ even -> 256 + ByteAt(v, 0)
       [] v >= 256 /\ ~even /\ odd -> 512 + ByteAt(v, 1)
       [] v >= 256 /\ ~even /\ ~odd ->
            IF \E r \in 9 .. 31 : Rotated(r)
            THEN LET r == CHOOSE r \in 9 .. 31 : Rotated(r)
                 IN r * 128 + v \div 2 ^ (32 - r) - 128
            ELSE -1

AddW(v) ==
  LET imm12 == ModImm(v)
  IN Emit(<<\hF10D + (imm12 \div 2048) * 1024,
            ((imm12 \div 256) % 8) * 4096 + \hD00 + (imm12 % 256)>>)

MaxNarrow == 508
RECURSIVE AddSp(_)
AddSp(n) ==
  LET chunks == {c \in {256 * k : k \in 1 .. n \div 256} : ModImm(c) # -1}
      chunk  == CHOOSE c \in chunks : \A d \in chunks : d <= c
  IN IF n <= 0 THEN <<>>
     ELSE IF n <= MaxNarrow THEN <<Emit(<<\hB000 + n \div 4>>)>>
     ELSE IF ModImm(n) # -1 THEN <<AddW(n)>>
     ELSE <<AddW(chunk)>> \o AddSp(n - chunk)

(* Clear the registers, except the result in r0, the flags and, if it has  *)
(* used them, the floating-point registers; drop the frame; return.  The   *)
(* lines that clear a range of registers stand as one.                     *)
Clear(from, to) == [call |-> "clear", regs |-> <<from, to>>]
Clearing(function, fpu) ==
  LET first == IF function THEN 1 ELSE 0
  IN <<Clear(R(first), R(11)), Emit(Encoded("msr", <<Sys("APSR"), R(first)>>))>>
       \o (IF fpu THEN <<Clear(D(0), D(15)), Emit(Encoded("vmsr", <<Named("FPSCR"), R(1)>>))>>
           ELSE <<>>)

Epilogue(proc, frame, noClear) ==
  (IF noClear THEN <<>> ELSE Clearing(proc.function, frame.fpu))
    \o AddSp((frame.pushed - 1) * 4 + frame.sub)
    \o <<Emit(PopLR), Emit(BxnsLR)>>

Formatted(calls) == <<Mark("+sec")>> \o ToGenerated(calls) \o <<Mark("-sec")>>

(* The block of the last run: only comments and empty lines may stand      *)
(* between it and END.  0 if there is none.                                *)
BlockEnd(lines, end) ==
  LET Passed(i) == lines[i].kind \in {"blank", "comment", "asm", "+asm", "-asm", "+sec"}
      found == {j \in OfKind(lines, {"-sec"}) : j < end /\ \A i \in j + 1 .. end - 1 : Passed(i)}
  IN IF found = {} THEN 0 ELSE CHOOSE j \in found : TRUE

BlockStart(lines, blockEnd) ==
  LET starts == {j \in OfKind(lines, {"+sec"}) : j < blockEnd}
  IN IF starts = {} THEN 0 ELSE CHOOSE j \in starts : \A k \in starts : k <= j

Replace(lines, first, end, block) ==
  SubSeq(lines, 1, first - 1) \o block \o From(lines, end + 1)

PutEpilogue(lines, proc, frame, noClear) ==
  LET block == Formatted(Epilogue(proc, frame, noClear))
      old == BlockEnd(lines, proc.end)
      start == BlockStart(lines, old)
  IN IF old # 0 /\ start # 0 THEN Replace(lines, start, old, block)
     ELSE Replace(lines, proc.end, proc.end - 1, <<Mark("blank")>> \o block)

(* Mutant of InOrder: the first procedure first.                           *)
InOrder_Forward(procs) == procs

(* The last procedure first, so that the line numbers stay valid.          *)
InOrder(procs) == Reverse(procs)
EnsureSystemSec(lines) ==
  LET i == FirstOf(lines, "import")
  IN IF i = 0 \/ MentionsSystem(lines[i]) THEN lines ELSE AddSystem(lines, i)

SecEpilogue(lines, list, noClear) ==
  LET procs == ParseProcs(lines)
      frame == [p \in DOMAIN list |-> ParseListing(list[p])]
      ok == \A n \in DOMAIN procs : frame[procs[n].name].pushed # 0
      Put(ls, proc) == PutEpilogue(ls, proc, frame[proc.name], noClear)
      put == FoldLeft(Put, lines, InOrder(procs))
  IN [ok |-> ok,
      lines |-> IF ok /\ put # lines THEN EnsureSystemSec(put) ELSE lines]

-----------------------------------------------------------------------------
(* The programmer and the runs of the tools.                               *)

(* What the programmer wrote: the file without what the tools put there.   *)
RECURSIVE HandWritten(_)
HandWritten(lines) ==
  LET Written(l) ==
        IF l.kind = "import" THEN [l EXCEPT !.names = SelectSeq(@, LAMBDA m : m # "SYSTEM")]
        ELSE l
      Skip(end) == HandWritten(From(lines, FirstOf(lines, end) + 1))
  IN IF lines = <<>> THEN <<>>
     ELSE CASE Head(lines).kind = "+asm" -> Skip("-asm")
            [] Head(lines).kind = "+sec" -> Skip("-sec")
            [] Head(lines).kind = "blank" -> HandWritten(Tail(lines))
            [] OTHER -> <<Written(Head(lines))>> \o HandWritten(Tail(lines))

NoRun == [tool |-> "none", ok |-> TRUE, noClear |-> FALSE]

CodeInit ==
  /\ text \in Sources
  /\ listing \in [{text[i].name : i \in OfKind(text, {"proc"})} -> Listings]
  /\ hand = HandWritten(text)
  /\ last = NoRun
  /\ edits = 0

Edit(lines) ==
  /\ edits < MaxEdits
  /\ edits' = edits + 1
  /\ text' = lines
  /\ hand' = HandWritten(lines)
  /\ last' = NoRun
  /\ UNCHANGED listing

ChangeOperation ==
  \E i \in OfKind(text, {"op"}), l \in AsmLines :
    text[i] # Operation(l) /\ Edit([text EXCEPT ![i] = Operation(l)])

DropOperation ==
  \E i \in OfKind(text, {"op"}) : Edit(SubSeq(text, 1, i - 1) \o From(text, i + 1))

AddAsmBlock ==
  \E i \in OfKind(text, {"stmt"}), l \in AsmLines :
    Edit(Replace(text, i, i - 1, <<Mark("asm"), Operation(l), Mark("endasm")>>))

AddComment ==
  \E i \in OfKind(text, {"end"}) :
    text[i - 1] # Mark("comment") /\ Edit(Replace(text, i, i - 1, <<Mark("comment")>>))

Compile ==
  /\ edits < MaxEdits
  /\ edits' = edits + 1
  /\ \E p \in DOMAIN listing, asm \in Listings :
       listing[p] # asm /\ listing' = [listing EXCEPT ![p] = asm]
  /\ last' = NoRun
  /\ UNCHANGED <<text, hand>>

RunGenAsm ==
  /\ text' = GenAsm(text).lines
  /\ last' = [tool |-> "asm", ok |-> GenAsm(text).ok, noClear |-> FALSE]
  /\ UNCHANGED <<listing, hand, edits>>

RunSecEpilogue ==
  \E noClear \in BOOLEAN :
    LET run == SecEpilogue(text, listing, noClear)
    IN /\ text' = run.lines
       /\ last' = [tool |-> "sec", ok |-> run.ok, noClear |-> noClear]
       /\ UNCHANGED <<listing, hand, edits>>

CodeNext ==
  \/ ChangeOperation \/ DropOperation \/ AddAsmBlock \/ AddComment \/ Compile
  \/ RunGenAsm \/ RunSecEpilogue

-----------------------------------------------------------------------------
(* Properties.                                                             *)

(* No run of a tool loses, moves or doubles a line of the programmer, in   *)
(* whatever order the tools run and the file is edited.                    *)
HandKept == hand = HandWritten(text)

(* The stack depth after a call, by the meaning of the instruction; -1 if  *)
(* the return address is popped from anywhere but its place, or if the     *)
(* return is made from any other depth than the caller's.                  *)
Expanded(imm12) ==
  IF imm12 < 256 THEN imm12
  ELSE IF imm12 < 512 THEN (imm12 % 256) * 65537
  ELSE (128 + (imm12 % 128)) * 2 ^ (32 - imm12 \div 128)
DepthAfter(depth, c) ==
  IF c.call # "emit" \/ depth = -1 THEN depth
  ELSE CASE c.words = PopLR -> IF depth = 4 THEN 0 ELSE -1
         [] c.words = BxnsLR -> IF depth = 0 THEN 0 ELSE -1
         [] Len(c.words) = 1 /\ c.words # BxnsLR ->
              depth - (IF Bits(c.words[1], 15, 7) = \h160
                       THEN 4 * Bits(c.words[1], 6, 0) ELSE -4 * Bits(c.words[1], 6, 0))
         [] Len(c.words) = 2 /\ Bits(c.words[1], 15, 11) = 30 /\ Bits(c.words[1], 9, 0) = \h10D ->
              depth - Expanded(Bits(c.words[1], 10, 10) * 2048 + Bits(c.words[2], 14, 12) * 256
                                 + Bits(c.words[2], 7, 0))
         [] OTHER -> depth

(* What the prologue in the listing takes from the stack.                  *)
Taken(asm) ==
  LET InBody(i) == \E j \in 1 .. i : asm[j].op \notin {"push", "mov", "movreg", "sub", "subreg"}
      Of(i) == CASE asm[i].op = "push" -> 4 * asm[i].n
                 [] asm[i].op = "sub" -> asm[i].n
                 [] asm[i].op = "subreg" ->
                      asm[CHOOSE j \in 1 .. i - 1 : /\ asm[j].op = "mov"
                                                    /\ asm[j].reg = asm[i].reg].n
                 [] asm[i].op \in {"mov", "movreg"} -> 0
      prologue == {i \in DOMAIN asm : ~InBody(i)}
  IN FoldLeft(LAMBDA x, y : x + y, 0, [i \in 1 .. Cardinality(prologue) |-> Of(i)])

(* After a run of sec-epilogue each exported procedure ends with one block *)
(* of its own, and no other is in the file.                                *)
OneBlockEach ==
  last.tool = "sec" /\ last.ok =>
    LET procs == ParseProcs(text)
    IN /\ Cardinality(OfKind(text, {"+sec"})) = Len(procs)
       /\ \A n \in DOMAIN procs : BlockEnd(text, procs[n].end) # 0

(* The block of proc takes exactly the frame that the procedure's own code *)
(* has built, in instructions that mean what the tool intends, pops the    *)
(* return address from its place and leaves a function its result.         *)
Returned(proc) ==
  LET e == BlockEnd(text, proc.end)
      b == SubSeq(text, BlockStart(text, e) + 1, e - 1)
      calls == [i \in DOMAIN b |-> b[i].call]
  IN /\ FoldLeft(DepthAfter, Taken(listing[proc.name].own), calls) = 0
     /\ proc.function => \A i \in DOMAIN calls : calls[i] # Clear(R(0), R(11))

(* "Parse .lst for a specific procedure's stack frame", of any procedure.  *)
EachReturned ==
  last.tool = "sec" /\ last.ok => \A proc \in ToSet(ParseProcs(text)) : Returned(proc)

(* The frame is the procedure's own if none declared inside pushes.        *)
FramesReturned ==
  /\ OneBlockEach
  /\ last.tool = "sec" /\ last.ok =>
       \A proc \in ToSet(ParseProcs(text)) :
         (\A x \in ToSet(listing[proc.name].nested) : x.op # "push") => Returned(proc)

(* What the ASM block at line i says now, and the line of its end.         *)
AsmEnd(i) == i - 1 + FirstOf(From(text, i), "endasm")
AsmMeans(i) == Marked(Translation(SubSeq(text, i + 1, AsmEnd(i) - 1)))

(* "The ASM block is the source of truth": each ASM block is followed by   *)
(* the translation of what it says now, and no code of an earlier run is   *)
(* left.                                                                   *)
AsmAsWritten ==
  LET blocks == OfKind(text, {"asm"})
  IN /\ Cardinality(OfKind(text, {"+asm"})) = Cardinality({i \in blocks : AsmMeans(i) # <<>>})
     /\ \A i \in blocks :
          SubSeq(text, AsmEnd(i) + 1, AsmEnd(i) + Len(AsmMeans(i))) = AsmMeans(i)

(* It is so after a run of gen-asm, in a file with a block that says       *)
(* anything.                                                               *)
AsmCurrent ==
  /\ last.tool = "asm" /\ last.ok
  /\ \E i \in OfKind(text, {"asm"}) : AsmMeans(i) # <<>>
  => AsmAsWritten

(* A second run of a tool changes nothing: the file is settled.            *)
Settled ==
  /\ last.tool = "asm" => GenAsm(text).lines = text
  /\ last.tool = "sec" => SecEpilogue(text, listing, last.noClear).lines = text

(* A file with generated code imports SYSTEM, and once: the compiler takes *)
(* no other.                                                               *)
SystemOnce ==
  LET Systems(i) == Len(SelectSeq(text[i].names, LAMBDA m : m = "SYSTEM"))
      times == FoldLeft(LAMBDA x, y : x + y, 0,
                        [i \in DOMAIN text |->
                          IF text[i].kind \in {"import", "more"} THEN Systems(i) ELSE 0])
  IN IF OfKind(text, {"call"}) # {} /\ OfKind(text, {"import"}) # {}
     THEN times = 1 ELSE times <= 1

(* It does if the programmer names SYSTEM on the first line of the list or *)
(* not at all.                                                             *)
ImportedOnce ==
  (\A i \in OfKind(text, {"more"}) : "SYSTEM" \notin ToSet(text[i].names)) => SystemOnce

(* The file stays what the programmer and the tools mean it to be: no line *)
(* of the programmer is lost and a second run changes nothing; nothing is  *)
(* out of date or there twice, but for the files that AsmCurrent and       *)
(* ImportedOnce leave out.                                                 *)
SourceKept == HandKept /\ AsmCurrent /\ Settled /\ ImportedOnce
=============================================================================

------------------------------ MODULE MC_Tools ------------------------------
(***************************************************************************)
(* Instances of the tools, but for make-elf.  A part of the model is one   *)
(* tool, or one question about it; the others stay as they begin.          *)
(***************************************************************************)
EXTENDS GeneratedCode, SecureGates, RdbCalls, GdbTest, ElfTest

VARIABLES
  part,     \* "code", "gates", "rdb", "asm", "gdb", "elf", "text", "consts"
  instr,    \* an instruction for the assembler
  size,     \* the size of a stack frame
  lines,    \* a test specification being written
  constMods \* modules with constants being written, in the order of the program

-----------------------------------------------------------------------------
(* Sources with ASM blocks and exported procedures, and what the compiler  *)
(* may list for a procedure.                                               *)

Dsb == AsmLine(Instr("dsb", <<>>), "no", "x")
ReadPSP == AsmLine(Instr("mrs", <<R(11), Sys("PSP")>>), "out", "x")
Wrong == AsmLine(Instr("svc", <<Imm(256)>>), "no", "x")
mcAsmLines == {Dsb, ReadPSP, Wrong}

Push(n) == [op |-> "push", n |-> n]
Sub(n) == [op |-> "sub", n |-> n]
Mov(r, n) == [op |-> "mov", reg |-> r, n |-> n]
MovReg(r) == [op |-> "movreg", reg |-> r]
SubReg(r) == [op |-> "subreg", reg |-> r]
Plain(name) == [op |-> name]

List(nested, own) == [nested |-> nested, own |-> own]
Leaf == List(<<>>, <<Plain("str")>>)
mcListings ==
  { Leaf,
    List(<<>>, <<Push(1), MovReg(0), Plain("str"), Push(2)>>),
    List(<<>>, <<Push(3), Sub(8), Plain("fpu")>>),
    List(<<Plain("fpu")>>, <<Push(2), Mov(11, 4380), SubReg(11), Plain("str")>>),
    List(<<Push(4), Plain("str")>>, <<Push(1), Sub(512), Plain("str")>>) }

P == <<Heading("P", FALSE), Mark("asm"), Operation(Dsb), Mark("endasm"), Statement(1), EndOf("P")>>
Q == <<Heading("Q", TRUE), Statement(2), EndOf("Q")>>

mcSources ==
  { <<Import(<<"LED">>, FALSE)>> \o P \o Q,
    <<Import(<<"SYSTEM", "LED">>, TRUE), MoreImports(<<"Out">>)>> \o Q \o P,
    <<Import(<<"LED">>, TRUE), MoreImports(<<"Out">>), Mark("comment")>> \o P,
    <<Import(<<"LED">>, TRUE), MoreImports(<<"SYSTEM">>)>> \o Q }

-----------------------------------------------------------------------------
(* A Secure program of two modules to expose, which refer to each other,   *)
(* and to T, U, X (which has no listing) and BASE (the constant leaf).     *)

Listed(name, exported, function) ==
  [kind |-> "proc", name |-> name, exported |-> exported, function |-> function, leaf |-> FALSE, refs |-> {}]
LeafOf(proc) == [proc EXCEPT !.leaf = TRUE]
Naming(proc, m) == [proc EXCEPT !.refs = {m}]
EndLine(name) == [kind |-> "end", name |-> name]
PushLine(rel, count) == [kind |-> "push", rel |-> rel, count |-> count]
CodeLine(rel) == [kind |-> "code", rel |-> rel]
OtherLine == [kind |-> "text"]

(* Plain ones P and R, a leaf Q; N with a procedure inside, and S with a   *)
(* long declaration part.                                                  *)
LinesA == << Listed("P", TRUE, FALSE), OtherLine, PushLine(0, 3), CodeLine(2), EndLine("P"),
             LeafOf(Listed("Q", TRUE, FALSE)), CodeLine(20), EndLine("Q"),
             Listed("h", FALSE, FALSE), PushLine(40, 1), EndLine("h") >>
LinesB == << OtherLine, Listed("f", TRUE, TRUE), PushLine(0, 2), EndLine("f"),
             Naming(Listed("R", TRUE, FALSE), "T"), OtherLine, OtherLine, PushLine(8, 2), EndLine("R"),
             Listed("N", TRUE, FALSE), Listed("in", FALSE, FALSE), PushLine(20, 1), EndLine("in"),
             PushLine(30, 2), EndLine("N"),
             Listed("S", TRUE, FALSE), OtherLine, OtherLine, OtherLine, OtherLine, OtherLine,
             PushLine(50, 3), EndLine("S") >>

Module(code, there, consts, types, text0) ==
  [code |-> code, listed |-> there, consts |-> consts, types |-> types, lines |-> text0]

mcPrograms ==
  { [exposed |-> exposed,
     modules |-> [ A |-> Module(1000, TRUE, ca, ta, LinesA),
                   B |-> Module(2000, TRUE, cb, {"U"}, LinesB),
                   T |-> Module(3000, TRUE, ct, {}, <<>>),
                   U |-> Module(4000, TRUE, {}, {"BASE"}, <<>>),
                   X |-> Module(5000, FALSE, {}, {}, <<>>),
                   BASE |-> Module(900, TRUE, {}, {}, <<>>) ]] :
      exposed \in {<<"A", "B">>, <<"B", "A">>, <<"A">>},
      ca \in {{"T"}, {"U", "T"}}, ta \in {{}, {"T", "X"}}, cb \in {{"BASE", "A"}},
      ct \in {{"U"}, {"BASE"}} }

-----------------------------------------------------------------------------
(* A program of two modules, close by and as far apart as a call reaches.  *)

mcModuleNames == <<"A", "B">>
mcProcNames == <<"p", "q">>
mcGaps == {0, 4194300, 16000000}

-----------------------------------------------------------------------------
(* Every instruction, with registers and immediates at the boundaries of   *)
(* their fields; and frames at the boundaries of the immediates of add.    *)

Regs == {R(n) : n \in {0, 1, 7, 8, 11, 15}}
Imms == {Imm(n) : n \in {0, 1, 4, 255, 256, 508, 512, 2048, 4095, 32768, 43981, 65535}}
Operands == Regs \cup Imms \cup Sysreg \cup {S(n) : n \in {0, 1, 14, 31, 32}} \cup {D(n) : n \in {0, 15}}
              \cup {Named(n) : n \in {"LR", "I", "F", "SP", "FPSCR"}}
Mnemonics == DOMAIN Fixed32 \cup DOMAIN Fixed16 \cup {"pop.w", "bxns", "cpsie", "cpsid", "bx", "blxns",
  "svc", "mrs", "msr", "tt", "add", "mov", "mov.w", "vmov", "vmsr"}
NoOperands == DOMAIN Fixed32 \cup DOMAIN Fixed16

Instructions ==
  {Instr(op, <<>>) : op \in NoOperands}
    \cup {Instr(op, <<a>>) : op \in Mnemonics \ NoOperands, a \in Operands}
    \cup {Instr(op, <<a, b>>) : op \in Mnemonics \ NoOperands, a \in Operands, b \in Operands}
    \cup {Instr("vmov", <<a, b, c>>) : a \in Operands, b \in Regs, c \in Regs}

FrameSizes == {4 * n : n \in 1 .. 320} \cup {4092, 4096, 4100, 5000, 8188, 16380, 65532}

WriteInstruction ==
  \E i \in {j \in Instructions : Accepts(j.op, j.args)} : instr' = i /\ UNCHANGED <<size, lines, constMods>>
TakeFrame == \E n \in FrameSizes : size' = n /\ UNCHANGED <<instr, lines, constMods>>

\* What the assembler writes for an instruction it accepts is, by the
\* encodings of the Arm manual, that instruction.
InstructionsKept == Decode(Encoded(instr.op, instr.args)) = instr

\* The instructions that release a frame add up to its size, whatever the
\* size is.
FrameReleased == FoldLeft(DepthAfter, size, AddSp(size)) = 0

-----------------------------------------------------------------------------
(* Tests with GDB: specifications, and what the target does.               *)

W(w) == Word(w)
N(n) == Token("INTEGER", n)
H(n) == Token("HEX", n)
Eq == Sign("EQUALS")
Dot == Sign("DOT")
Text(ls) == [i \in DOMAIN ls |-> Line(ls[i][1], Tokenise(ls[i][2]))]

Proc(p) == <<W("M"), Dot, W(p)>>

(* Two modules; procedure P has a frame, Q has none.                       *)
MCModules ==
  <<[name |-> "M", imports |-> [a \in {"L"} |-> "Lib"], base |-> <<8>>, listed |-> TRUE,
     parsed |-> [n \in {"two"} |-> 2],
     decls |-> <<[name |-> "five", expr |-> Op("+", Name("two"), Literal(3))],
                 [name |-> "two", expr |-> Literal(2)],
                 [name |-> "top", expr |-> Foreign("L", "max")]>>,
     asm |-> <<[addr |-> 10, op |-> "push"], [addr |-> 12, op |-> "sub_sp"],
               [addr |-> 14, op |-> "other"], [addr |-> 16, op |-> "add_sp"],
               [addr |-> 18, op |-> "pop_pc"], [addr |-> 20, op |-> "pop_pc"]>>,
     lines |-> <<[line |-> 3, addr |-> 14], [line |-> 5, addr |-> 20]>>,
     frames |-> <<[addr |-> 10, push |-> 2, sub |-> 2]>>,
     procs |-> <<[name |-> Proc("P"), addr |-> 10, size |-> 10],
                 [name |-> Proc("Q"), addr |-> 20, size |-> 2]>>],
    [name |-> "Lib", imports |-> [a \in {} |-> ""], base |-> None, listed |-> TRUE,
     parsed |-> NoConsts, decls |-> <<[name |-> "max", expr |-> Literal(7)]>>,
     asm |-> <<>>, lines |-> <<>>, frames |-> <<>>, procs |-> <<>>]>>

MCTable == ConstTable(MCModules)

(* Frames: a word in x (14, or -2), printed both ways; y and r differ.     *)
Frame(w, p, y) ==
  [args |-> [n \in {"x"} |-> p], locals |-> [n \in {"y"} |-> Printed("dec", y)],
   exprs |-> [n \in {<<W("y"), Dot, W("f")>>} |-> Printed("hex", y)],
   globals |-> [n \in {<<W("Lib"), W("g")>>} |-> Printed("struct", 4)],
   r0 |-> y, mem |-> [a \in 4..6 |-> w], words |-> <<w, y>>]

MCFrames == {Frame(14, Printed("dec", 0 - 2), 1), Frame(14, Printed("hex", 14), 1),
             Frame(5, Printed("dec", 5), 5), Frame(6, Printed("sym", 6), 1)}

Atx(rest) == <<2, <<W("check"), W("x")>> \o rest>>

MCTexts == {
  \* a check that halts, and two breakpoints at one address
  <<<<0, <<W("stop"), W("after"), N(3), W("hits")>>>>,
    <<0, <<W("proc")>> \o Proc("P")>>, <<1, <<W("at"), W("entry")>>>>,
    Atx(<<Sign("GREATER"), H(9), W("halt")>>), <<2, <<W("check"), W("return"), Eq, N(1)>>>>,
    <<0, <<W("proc")>> \o Proc("P")>>, <<1, <<W("at"), W("line"), N(3)>>>>,
    <<2, <<W("trace"), W("mem"), Sign("LBRACKET"), W("y"), Sign("PLUS"), N(1), Sign("RBRACKET")>>>>>>,
  \* a window, and all checks
  <<<<0, <<W("start"), W("proc")>> \o Proc("P") \o <<W("at"), W("line"), N(3), W("when"),
                W("hits"), Eq, N(2)>>>>,
    <<0, <<W("stop"), W("after"), W("all"), W("checks")>>>>,
    <<0, <<W("proc")>> \o Proc("P")>>, <<1, <<W("at"), W("exit")>>>>,
    <<2, <<W("trace"), W("Lib"), Dot, W("g")>>>>, Atx(<<Sign("LESS"), N(3)>>),
    Atx(<<Sign("HASH"), W("M"), Dot, W("top")>>),
    <<1, <<W("at"), W("entry")>>>>, <<2, <<W("check"), W("local"), W("y"), Eq, W("M"), Dot, W("five")>>>>>>,
  \* stop sentinels with conditions, and an address
  <<<<0, <<W("stop"), W("proc")>> \o Proc("Q") \o <<W("at"), W("exit"), W("when"),
                W("x"), Eq, N(0 - 2)>>>>,
    <<0, <<W("stop"), W("proc")>> \o Proc("P") \o <<W("at"), W("exit"), W("when"),
                W("hits"), Eq, N(2)>>>>,
    <<0, <<W("proc")>> \o Proc("Q")>>, <<1, <<W("at"), W("exit")>>>>,
    <<2, <<W("check"), W("y"), Dot, W("f"), Sign("LESSEQUAL"), H(3)>>>>,
    <<2, <<W("trace"), Sign("LBRACKET"), H(4), Sign("RBRACKET")>>>>>>}

MCPlans ==
  {[bps |-> r.bps, dirs |-> r.dirs, max |-> 4, haltEnabled |-> h, haltOnFail |-> f] :
     r \in {p \in {Resolve(ParseSpec(Text(t)), MCModules) : t \in MCTexts} : p.ok}, h \in BOOLEAN, f \in BOOLEAN}

(* Four procedures: two to test, one without variables, one init.          *)
MCProcs == {[addr |-> 1, vars |-> {"a"}, init |-> FALSE], [addr |-> 2, vars |-> {"b", "c"}, init |-> FALSE],
            [addr |-> 3, vars |-> {}, init |-> FALSE], [addr |-> 4, vars |-> {"a"}, init |-> TRUE],
            [addr |-> 5, vars |-> {"d"}, init |-> FALSE]}

-----------------------------------------------------------------------------
(* Specifications, a line at a time; lines that the parser refuses are not *)
(* gone on with.                                                           *)

Index(n) == <<Sign("LBRACKET"), N(n), Sign("RBRACKET")>>
Rel(sign, tokens) == <<Sign(sign)>> \o tokens
Checked(target, rest) == <<2, <<W("check")>> \o target \o rest>>

MCLines == {
  <<0, <<W("proc")>> \o Proc("P")>>,
  <<0, <<W("option"), W("a"), Sign("MINUS"), W("b"), Eq, N(7)>>>>,
  <<0, <<W("stop"), W("proc")>> \o Proc("Q") \o <<W("at"), W("exit"), W("when"), W("x"), Dot, W("f"), Eq,
         Token("NEG", 2)>>>>,
  <<0, <<W("start"), W("proc")>> \o Proc("P") \o <<W("at"), W("line"), N(3), W("when"), W("hits"), Eq, N(2)>>>>,
  <<0, <<W("stop"), W("after"), N(2), W("s")>>>>,
  <<0, <<>>>>,
  <<1, <<W("at"), W("entry")>>>>, <<1, <<W("at"), W("line"), N(5)>>>>,
  <<1, <<W("at"), H(4)>>>>, <<1, <<W("at"), N(4)>>>>,
  <<2, <<W("trace"), W("return")>>>>,
  Checked(<<W("local"), W("x")>> \o Index(2) \o <<Dot, W("f")>>, Rel("LESS", <<Token("NEG", 3)>>)),
  Checked(<<W("x"), Sign("LBRACKET"), N(7), Sign("COLON"), N(4), Sign("RBRACKET")>>, Rel("HASH", <<H(9)>>)),
  Checked(<<W("mem"), H(4)>>, Rel("EQUALS", Proc("c") \o <<W("halt")>>)),
  Checked(<<Sign("LBRACKET"), W("arg"), W("x"), Token("NEG", 1), Sign("RBRACKET")>>,
          Rel("GREATER", <<Token("NEG", 5), W("as"), W("signed"), W("halt")>>)),
  Checked(<<Sign("LBRACKET"), W("x"), Sign("PLUS"), H(4), Sign("RBRACKET")>>,
          Rel("EQUALS", <<W("TRUE"), Token("COMMENT", "")>>)),
  Checked(<<Sign("LBRACKET"), H(4), Sign("PLUS"), N(1), Sign("RBRACKET")>>, Rel("EQUALS", <<W("NIL")>>)) }

Spelt == ParseSpec(Text(lines))
WriteLine ==
  /\ Len(lines) < 4 /\ Spelt.ok
  /\ \E line \in MCLines : lines' = Append(lines, line)
  /\ UNCHANGED <<instr, size, constMods>>

\* A specification without addresses can be formatted and parsed again, and
\* it is the same; whatever its signs, comments and optional parts are.
FormatKeeps == Symbolic(Spelt) => Stable(Spelt)

\* "--- Round-trip output ---": any specification that the parser takes can
\* be formatted and parsed again, and it is the same.
RoundTrip == Stable(Spelt)

-----------------------------------------------------------------------------
(* Modules with constants: M imports Lib as L, and there is a module L.    *)

Empty(name, imports) ==
  [name |-> name, imports |-> imports, listed |-> TRUE, parsed |-> NoConsts, decls |-> <<>>]
ModuleM == Empty("M", [a \in {"L"} |-> "Lib"])
ModuleL == Empty("L", [a \in {} |-> ""])
ModuleLib == Empty("Lib", [a \in {} |-> ""])

Declaration(name, expr) == [name |-> name, expr |-> expr]
MCDecls ==
  {Declaration(n, e) : n \in {"a", "b"}, e \in {Literal(3), Op("*", Name("b"), Literal(2)), Op("-", Name("a"), Name("a"))}}
MCImported == {Declaration(n, Foreign("L", "a")) : n \in {"a", "b"}} \cup {Declaration("b", Name("a"))}

Declare ==
  /\ Len(FlattenSeq([i \in DOMAIN constMods |-> constMods[i].decls])) < 3
  /\ \E i \in DOMAIN constMods :
       /\ Len(constMods[i].decls) < 2
       /\ \E d \in IF constMods[i].name = "M" THEN MCDecls \cup MCImported ELSE MCDecls :
            constMods' = [constMods EXCEPT ![i].decls = Append(@, d)]
  /\ UNCHANGED <<instr, size, lines>>

\* What the table of constants says is what the declarations mean; a constant
\* of literals and constants of its own module is there, and so is one that
\* is nothing but such a constant of another module.
ConstTrue ==
  LET table == ConstTable(constMods)
      true == TrueConsts(constMods)
      OfModule(i) == constMods[i].name
      Own(i) == {n \in DOMAIN true[OfModule(i)] :
                   n \in DOMAIN TrueConsts(<<[constMods[i] EXCEPT !.decls =
                                               SelectSeq(@, LAMBDA d : d.expr.k # "of")]>>)[OfModule(i)]}
  IN  (\A i \in DOMAIN constMods : DeclaredOnce(constMods[i])) =>
        \A i \in DOMAIN constMods :
          /\ \A n \in DOMAIN table[OfModule(i)] :
               n \in DOMAIN true[OfModule(i)] /\ table[OfModule(i)][n] = true[OfModule(i)][n]
          /\ Own(i) \subseteq DOMAIN table[OfModule(i)]
          /\ \A d \in Range(constMods[i].decls) :
               d.expr.k = "of" /\ d.name \in DOMAIN true[OfModule(i)] => d.name \in DOMAIN table[OfModule(i)]

-----------------------------------------------------------------------------
writerVars == <<instr, size, lines, constMods>>
toolVars == <<part, codeVars, gateVars, rdbVars, vars, elfVars, writerVars>>
OneSource == <<Import(<<"LED">>, FALSE)>> \o P \o Q
OneProgram == CHOOSE p \in Programs : TRUE
OnePlan == CHOOSE p \in Plans : TRUE
OneFrame == CHOOSE f \in Frames : TRUE

ToolsInit ==
  /\ part \in {"code", "gates", "rdb", "asm", "gdb", "elf", "text", "consts"}
  /\ CodeInit /\ (part # "code" => text = OneSource /\ Range(listing) = {Leaf})
  /\ GatesInit /\ (part # "gates" => program = OneProgram)
  /\ RdbInit
  /\ Init /\ (part # "gdb" => plan = OnePlan /\ frame = OneFrame)
  /\ ElfInit /\ (part # "elf" => server = "JLink")
  /\ instr = Instr("nop", <<>>) /\ size = 4 /\ lines = <<>>
  /\ constMods \in {<<ModuleM, ModuleL, ModuleLib>>, <<ModuleLib, ModuleL, ModuleM>>}
  /\ (part # "consts" => constMods[1] = ModuleM)

CodePart == part = "code" /\ CodeNext /\ UNCHANGED <<part, gateVars, rdbVars, vars, elfVars, writerVars>>
GatesPart == part = "gates" /\ GatesNext /\ UNCHANGED <<part, codeVars, rdbVars, vars, elfVars, writerVars>>
RdbPart == part = "rdb" /\ RdbNext /\ UNCHANGED <<part, codeVars, gateVars, vars, elfVars, writerVars>>
GdbPart(A) == part = "gdb" /\ A /\ UNCHANGED <<part, codeVars, gateVars, rdbVars, elfVars, writerVars>>
ElfPart == part = "elf" /\ ElfNext /\ UNCHANGED <<part, codeVars, gateVars, rdbVars, vars, writerVars>>
Writer ==
  /\ \/ part = "asm" /\ size = 4 /\ instr.op = "nop" /\ WriteInstruction
     \/ part = "asm" /\ size = 4 /\ instr.op = "nop" /\ TakeFrame
     \/ part = "text" /\ WriteLine
     \/ part = "consts" /\ Declare
  /\ UNCHANGED <<part, codeVars, gateVars, rdbVars, vars, elfVars>>

\* A tool that has done its work, and the writer, who may stop
Ended ==
  /\ \/ part = "gates" /\ todo = "done"
     \/ part = "rdb" /\ status = "done"
     \/ part \in {"asm", "text", "consts"}
  /\ UNCHANGED toolVars

ToolsNext == CodePart \/ GatesPart \/ RdbPart \/ GdbPart(Next) \/ ElfPart \/ Writer \/ Ended

\* The fairness of GdbTest
ToolsSpec ==
  /\ ToolsInit /\ [][ToolsNext]_toolVars
  /\ WF_phase(part = "gdb" /\ GoesOn)
  /\ WF_toolVars(GdbPart(Interrupt))
  /\ WF_toolVars(GdbPart(Timer))

-----------------------------------------------------------------------------
(* What the runs check, in parts that are named where they are defined.    *)

\* The code that gen-asm and sec-epilogue write is the code they mean.
CodeMeantIt == InstructionsKept /\ FrameReleased /\ FramesReturned

\* A run of the engine ends, even when the target reaches no breakpoint.
Terminated == part = "gdb" ~> (phase = "done")
=============================================================================

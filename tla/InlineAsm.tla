----------------------------- MODULE InlineAsm -----------------------------
(***************************************************************************)
(* The assembler of gen-asm (tools/gen-asm.py): one line of an ASM block   *)
(* becomes calls of SYSTEM.EMIT, EMITH, LDREG and REG, which are put into  *)
(* the Oberon source.                                                      *)
(*                                                                         *)
(* An operand is a record: a register r0 to r15, a register d0 to   *)
(* d15 or s0 to s31, a system register, an immediate, or a name (SP, LR,   *)
(* FPSCR, I, F).  A 32-bit instruction is a pair of halfwords.             *)
(***************************************************************************)
EXTENDS Integers, Sequences

R(n) == [k |-> "r", n |-> n]
D(n) == [k |-> "d", n |-> n]
S(n) == [k |-> "s", n |-> n]
Sys(name) == [k |-> "sys", name |-> name]
Imm(n) == [k |-> "imm", n |-> n]
Named(name) == [k |-> "name", name |-> name]

Instr(op, args) == [op |-> op, args |-> args]

-----------------------------------------------------------------------------
(* Encodings.                                                              *)

SysM == [ APSR |-> 0, XPSR |-> 3, IPSR |-> 5, MSP |-> 8, PSP |-> 9, MSPLIM |-> 10,
          PSPLIM |-> 11, PRIMASK |-> 16, BASEPRI |-> 17, FAULTMASK |-> 19,
          CONTROL |-> 20, MSP_NS |-> \h88, PSP_NS |-> \h89, MSPLIM_NS |-> \h8A,
          PSPLIM_NS |-> \h8B, CONTROL_NS |-> \h94, SP_NS |-> \h98 ]

Fixed32 == [ dsb |-> <<\hF3BF, \h8F4F>>, isb |-> <<\hF3BF, \h8F6F>>,
             dmb |-> <<\hF3BF, \h8F5F>> ]

Fixed16 == [ nop |-> \hBF00, wfi |-> \hBF30, wfe |-> \hBF20, sev |-> \hBF40 ]

Cps == [ cpsie |-> [I |-> \hB662, F |-> \hB661],
         cpsid |-> [I |-> \hB672, F |-> \hB671] ]

PopLR == <<\hE8BD, \h4000>>
BxnsLR == <<\h4774>>

MovW(rd, imm) ==
  IF imm = 0 THEN <<\hF04F, rd * 256>>
  ELSE <<\hF240 + ((imm \div 2048) % 2) * 1024 + imm \div 4096,
         ((imm \div 256) % 8) * 4096 + rd * 256 + (imm % 256)>>

(* The operands an instruction takes: what the parsing functions accept.   *)
Reg == [k : {"r"}, n : 0 .. 15]
Sysreg == {Sys(name) : name \in DOMAIN SysM}
IsImm(a, from, to) == a.k = "imm" /\ a.n \in from .. to

Accepts(op, a) ==
  \/ op \in DOMAIN Fixed32 \cup DOMAIN Fixed16
  \/ op = "pop.w" /\ a = <<Named("LR")>>
  \/ op = "bxns" /\ a = <<Named("LR")>>
  \/ op \in {"cpsie", "cpsid"} /\ Len(a) = 1 /\ a[1] \in {Named("I"), Named("F")}
  \/ op \in {"bx", "blxns"} /\ Len(a) = 1 /\ a[1] \in Reg
  \/ op = "svc" /\ Len(a) = 1 /\ IsImm(a[1], 0, 255)
  \/ /\ Len(a) = 2
     /\ \/ op = "mrs" /\ a[1] \in Reg /\ a[2] \in Sysreg
        \/ op = "msr" /\ a[1] \in Sysreg /\ a[2] \in Reg
        \/ op = "tt" /\ a[1] \in Reg /\ a[2] \in Reg
        \/ op = "add" /\ a[1] = Named("SP") /\ IsImm(a[2], 0, 508) /\ a[2].n % 4 = 0
        \/ op = "mov" /\ a[1] \in Reg /\ a[1].n <= 7 /\ IsImm(a[2], 0, 255)
        \/ op = "mov.w" /\ a[1] \in Reg /\ IsImm(a[2], 0, 65535)
        \/ op = "vmov" /\ a[1].k = "s" /\ a[1].n <= 31 /\ a[2] \in Reg
        \/ op = "vmsr" /\ a[1] = Named("FPSCR") /\ a[2] \in Reg
  \/ /\ op = "vmov" /\ Len(a) = 3
     /\ a[1].k = "d" /\ a[1].n <= 15 /\ a[2] \in Reg /\ a[3] \in Reg

Encoded(op, a) ==
  CASE op \in DOMAIN Fixed32 -> Fixed32[op]
    [] op \in DOMAIN Fixed16 -> <<Fixed16[op]>>
    [] op = "pop.w" -> PopLR
    [] op = "bxns" -> BxnsLR
    [] op \in {"cpsie", "cpsid"} -> <<Cps[op][a[1].name]>>
    [] op = "mrs" -> <<\hF3EF, \h8000 + a[1].n * 256 + SysM[a[2].name]>>
    [] op = "msr" -> <<\hF380 + a[2].n, \h8800 + SysM[a[1].name]>>
    [] op = "bx" -> <<\h4700 + a[1].n * 8>>
    [] op = "blxns" -> <<\h4784 + a[1].n * 8>>
    [] op = "svc" -> <<\hDF00 + a[1].n>>
    [] op = "add" -> <<\hB000 + a[2].n \div 4>>
    [] op = "tt" -> <<\hE840 + a[2].n, \hF000 + a[1].n * 256>>
    [] op = "mov" -> <<\h2000 + a[1].n * 256 + a[2].n>>
    [] op = "mov.w" -> MovW(a[1].n, a[2].n)
    [] op = "vmov" /\ Len(a) = 2 ->
         <<\hEE00 + a[1].n \div 2, \h0A10 + a[2].n * 4096 + (a[1].n % 2) * 128>>
    [] op = "vmov" /\ Len(a) = 3 ->
         <<\hEC40 + a[3].n, \h0B10 + a[2].n * 4096 + a[1].n>>
    [] op = "vmsr" -> <<\hEEE1, \h0A10 + a[2].n * 4096>>

(* The register an instruction gives to a binding, or -1.                  *)
Bound(op, a) ==
  IF op \in {"mrs", "tt", "mov", "mov.w", "blxns"} THEN a[1].n
  ELSE IF op = "msr" THEN a[2].n ELSE -1

-----------------------------------------------------------------------------
(* Lines of an ASM block.                                                  *)

Emit(words) == [call |-> "emit", words |-> words]
LdReg(reg, var) == [call |-> "ldreg", reg |-> reg, var |-> var]
RegTo(reg, var) == [call |-> "reg", reg |-> reg, var |-> var]

(* A line is an instruction, with a variable bound to its register before  *)
(* ("in") or after it ("out"), or not ("no").                              *)
AsmLine(instr, dir, var) == [instr |-> instr, dir |-> dir, var |-> var]

Translates(l) == Accepts(l.instr.op, l.instr.args)

Calls(l) ==
  LET op == l.instr.op
      a  == l.instr.args
      Binding(dir, call) == IF l.dir = dir /\ Bound(op, a) # -1 THEN <<call>> ELSE <<>>
  IN Binding("in", LdReg(Bound(op, a), l.var)) \o <<Emit(Encoded(op, a))>>
       \o Binding("out", RegTo(Bound(op, a), l.var))

-----------------------------------------------------------------------------
(* The reference: the fields of the encodings, as the Arm manual has them. *)

Bits(w, hi, lo) == (w \div 2 ^ lo) % 2 ^ (hi - lo + 1)
SysOf(m) == CHOOSE name \in DOMAIN SysM : SysM[name] = m

Decode16(h) ==
  CASE \E op \in DOMAIN Fixed16 : Fixed16[op] = h ->
         Instr(CHOOSE op \in DOMAIN Fixed16 : Fixed16[op] = h, <<>>)
    [] Bits(h, 15, 5) = \h5B3 /\ Bits(h, 3, 0) \in {1, 2} ->
         Instr(IF Bits(h, 4, 4) = 0 THEN "cpsie" ELSE "cpsid",
               <<Named(IF Bits(h, 3, 0) = 1 THEN "F" ELSE "I")>>)
    [] Bits(h, 15, 7) = \h8E /\ Bits(h, 2, 0) = 0 -> Instr("bx", <<R(Bits(h, 6, 3))>>)
    [] Bits(h, 15, 7) = \h8E /\ Bits(h, 2, 0) = 4 -> Instr("bxns", <<Named("LR")>>)
    [] Bits(h, 15, 7) = \h8F /\ Bits(h, 2, 0) = 4 -> Instr("blxns", <<R(Bits(h, 6, 3))>>)
    [] Bits(h, 15, 8) = \hDF -> Instr("svc", <<Imm(Bits(h, 7, 0))>>)
    [] Bits(h, 15, 7) = \h160 -> Instr("add", <<Named("SP"), Imm(4 * Bits(h, 6, 0))>>)
    [] Bits(h, 15, 11) = 4 -> Instr("mov", <<R(Bits(h, 10, 8)), Imm(Bits(h, 7, 0))>>)
    [] OTHER -> Instr("undefined", <<>>)

Decode32(h, l) ==
  CASE \E op \in DOMAIN Fixed32 : Fixed32[op] = <<h, l>> ->
         Instr(CHOOSE op \in DOMAIN Fixed32 : Fixed32[op] = <<h, l>>, <<>>)
    [] <<h, l>> = <<\hE8BD, \h4000>> -> Instr("pop.w", <<Named("LR")>>)
    [] h = \hF3EF /\ Bits(l, 15, 12) = 8 ->
         Instr("mrs", <<R(Bits(l, 11, 8)), Sys(SysOf(Bits(l, 7, 0)))>>)
    [] Bits(h, 15, 4) = \hF38 /\ Bits(l, 15, 8) = \h88 ->
         Instr("msr", <<Sys(SysOf(Bits(l, 7, 0))), R(Bits(h, 3, 0))>>)
    [] Bits(h, 15, 4) = \hE84 /\ Bits(l, 15, 12) = 15 /\ Bits(l, 7, 0) = 0 ->
         Instr("tt", <<R(Bits(l, 11, 8)), R(Bits(h, 3, 0))>>)
    [] h = \hF04F /\ Bits(l, 15, 12) = 0 /\ Bits(l, 7, 0) = 0 ->
         Instr("mov.w", <<R(Bits(l, 11, 8)), Imm(0)>>)
    [] Bits(h, 15, 11) = 30 /\ Bits(h, 9, 4) = 36 /\ Bits(l, 15, 15) = 0 ->
         Instr("mov.w", <<R(Bits(l, 11, 8)),
                          Imm(Bits(h, 3, 0) * 4096 + Bits(h, 10, 10) * 2048
                                + Bits(l, 14, 12) * 256 + Bits(l, 7, 0))>>)
    [] Bits(h, 15, 4) = \hEE0 /\ Bits(l, 11, 8) = 10 /\ Bits(l, 6, 0) = 16 ->
         Instr("vmov", <<S(Bits(h, 3, 0) * 2 + Bits(l, 7, 7)), R(Bits(l, 15, 12))>>)
    [] Bits(h, 15, 4) = \hEC4 /\ Bits(l, 11, 6) = 44 /\ Bits(l, 4, 4) = 1 ->
         Instr("vmov", <<D(Bits(l, 5, 5) * 16 + Bits(l, 3, 0)), R(Bits(l, 15, 12)),
                         R(Bits(h, 3, 0))>>)
    [] h = \hEEE1 /\ Bits(l, 11, 0) = \hA10 ->
         Instr("vmsr", <<Named("FPSCR"), R(Bits(l, 15, 12))>>)
    [] OTHER -> Instr("undefined", <<>>)

Decode(words) == IF Len(words) = 1 THEN Decode16(words[1]) ELSE Decode32(words[1], words[2])
=============================================================================

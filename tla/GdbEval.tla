------------------------------- MODULE GdbEval -------------------------------
(***************************************************************************)
(* How pylib/gdbtestengine.py evaluates an action where the target has     *)
(* stopped: it asks GDB for a variable, the return register or a word of   *)
(* memory, takes the number out of what GDB prints, and compares.          *)
(*                                                                         *)
(* What GDB knows at a stop is a record:                                   *)
(*   args, locals   from the name of a variable to what is printed,        *)
(*   exprs          from base and suffix to what is printed,               *)
(*   globals        from module, name and suffix to what is printed,       *)
(*   r0             the word in the return register,                       *)
(*   mem            from an address to the word there.                     *)
(* A print is hexadecimal, decimal, an address with a symbol behind it, a  *)
(* pointer with its type in front, a structure (with its address), a text, *)
(* or an error.                                                            *)
(***************************************************************************)
EXTENDS GdbResolve

CONSTANT WordBits
ASSUME WordBitsAssumption == WordBits \in Nat \ {0}

Printed(k, v) == [k |-> k, v |-> v]

-----------------------------------------------------------------------------
(* Numbers.                                                                *)

\* The number at the start of a print, if there is one.  From "0x20 <symbol>"
\* it is not taken: the conversion raises an exception.
Unparsable(p) == p.k = "sym"
NumberIn(p) == IF p.k \in {"hex", "dec"} THEN <<p.v>> ELSE None

AsSigned(n) == IF n < 2^(WordBits - 1) THEN n ELSE n - 2^WordBits
AsUnsigned(n) == n % 2^WordBits

IsUnsigned(expected) ==
  \/ expected.as = "unsigned"
  \/ expected.as = "default" /\ expected.kind # "integer"

Holds(a, e, op) ==
  CASE op = "EQUALS" -> a = e
    [] op = "HASH" -> a # e
    [] op = "GREATER" -> a > e
    [] op = "LESS" -> a < e
    [] op = "GREATEREQUAL" -> a >= e
    [] op = "LESSEQUAL" -> a <= e

\* Mutant of Compare: the numbers as GDB prints them
Compare_Raw(actual, expected, op, unsigned) == Holds(actual, expected, op)

Compare(actual, expected, op, unsigned) ==
  IF unsigned THEN Holds(AsUnsigned(actual), AsUnsigned(expected), op)
  ELSE Holds(AsSigned(actual), AsSigned(expected), op)

\* The bits hi to lo
BitField(n, bits) == (n \div 2^bits[2]) % 2^(bits[1] - bits[2] + 1)

-----------------------------------------------------------------------------
(* What is there.  A read is a print, or an error.                         *)

Failure == Printed("error", 0)

Find(f, key) == IF key \in DOMAIN f THEN f[key] ELSE Failure

\* A module's variable: what is behind the first dot is its name, and the
\* rest a suffix.  A whole structure is read as its address.
ReadGlobal(s, ref, proc) ==
  LET Known(p, suffix) ==
        CASE p.k \in {"hex", "dec"} -> p
          [] p.k = "struct" /\ ~suffix -> Printed("hex", p.v)
          [] OTHER -> Failure
      Split(dot) ==
        IF dot = 0 THEN Known(Find(s.globals, <<proc[1]>> \o ref), FALSE)
        ELSE Known(Find(s.globals, SubSeq(ref, 1, dot - 1) \o SubSeq(ref, dot + 1, Len(ref))),
                   Len(ref) > dot + 1)
  IN  Split(SelectInSeq(ref, LAMBDA x : x.k = "DOT"))

\* Arguments first, then local variables; <<>> when the name is in neither
ScopeOf(s, name, type) ==
  IF type # "local" /\ name \in DOMAIN s.args THEN s.args
  ELSE IF type # "arg" /\ name \in DOMAIN s.locals THEN s.locals ELSE <<>>

ReadVar(s, type, ref, proc) ==
  LET Field(p, whole) ==
        IF p.k = "error" \/ whole.k \notin {"hex", "dec"} THEN Failure ELSE whole
      In(scope) ==
        IF Len(ref) = 1 THEN scope[ref[1].v] ELSE Field(scope[ref[1].v], Find(s.exprs, ref))
      From(scope) ==
        IF scope # <<>> THEN In(scope)
        ELSE IF type = "var" THEN ReadGlobal(s, ref, proc) ELSE Failure
  IN  From(ScopeOf(s, ref[1].v, type))

\* The address an indirect target starts from.  A field is read as an
\* expression and must print as a hexadecimal number; of a print with a type
\* in front, the pointer counts.  Global variables are not looked up.
BasePrint(s, ind) ==
  LET scope == ScopeOf(s, ind.name[1].v, ind.type)
  IN  IF Len(ind.name) # 1 \/ scope = <<>> THEN Failure ELSE scope[ind.name[1].v]

IndirectBase(s, ind) ==
  LET field == \E i \in DOMAIN ind.name : ind.name[i].k = "DOT"
      Of(p, kinds) == IF p.k \in kinds THEN <<p.v>> ELSE None
  IN  CASE field -> Of(Find(s.exprs, ind.name), {"hex"})
        [] ~field /\ Len(ind.name) = 1 -> Of(BasePrint(s, ind), {"hex", "dec", "ptr"})
        [] OTHER -> None

Displaced(base, sign, offset) ==
  IF sign = "PLUS" THEN <<base[1] + offset[1]>> ELSE <<base[1] - offset[1]>>

AddressOf(s, t, table) ==
  LET From(base) ==
        IF base = None \/ t.ref.sign = "none" THEN base
        ELSE Displaced(base, t.ref.sign, IntOf(t.ref.offset, table))
  IN  IF t.type = "mem" THEN IntOf(t.ref, table) ELSE From(IndirectBase(s, t.ref))

ReadMem(s, addr) ==
  IF addr = None THEN Failure
  ELSE IF addr[1] \in DOMAIN s.mem THEN Printed("hex", s.mem[addr[1]]) ELSE Failure

Read(s, t, proc, table) ==
  CASE t.type = "return" -> Printed("hex", s.r0)
    [] t.type \in {"arg", "local", "var"} -> ReadVar(s, t.type, t.ref, proc)
    [] t.type \in {"mem", "indirect"} -> ReadMem(s, AddressOf(s, t, table))

-----------------------------------------------------------------------------
(* The outcome of an action: TRACE, PASS, FAIL, ERROR.  An address in      *)
(* brackets leaves the evaluation with an exception, and so does a number  *)
(* to be taken out of an address with a symbol; nothing catches it, and    *)
(* the engine stops.                                                       *)

Raises(t) == t.type = "indirect" /\ t.ref.type = "address"

RaisesAt(s, a, proc, table) ==
  LET t == a.target
  IN  \/ Raises(t)
      \/ t.type = "indirect" /\ ~Raises(t) /\ Unparsable(BasePrint(s, t.ref))
      \/ (a.kind = "check" \/ t.bits # None) /\ Unparsable(Read(s, t, proc, table))

\* The bits asked for, if any
BitsOf(p, bits) ==
  IF bits = None THEN p
  ELSE IF NumberIn(p) = None THEN Failure ELSE Printed("hex", BitField(p.v, bits))

Verdict(p, a, expected) ==
  CASE p.k = "error" -> "ERROR"
    [] p.k # "error" /\ a.kind = "trace" -> "TRACE"
    [] p.k # "error" /\ a.kind = "check" /\ NumberIn(p) = None -> "ERROR"
    [] OTHER -> IF Compare(p.v, expected[1], a.op, IsUnsigned(a.expected)) THEN "PASS" ELSE "FAIL"

Outcome(s, a, proc, table) ==
  Verdict(BitsOf(Read(s, a.target, proc, table), a.target.bits), a, IntOf(a.expected, table))

\* The condition of a start or stop directive, which has been reached as
\* often as hits says.  A variable is looked up by its whole reference, so
\* that a field is never found; its number must be the one expected as it is
\* printed.
ConditionHolds(s, c, hits, table) ==
  LET Number(scope) == IF scope = <<>> THEN None ELSE NumberIn(scope[c.ref[1].v]) IN
    CASE c.kind = "none" -> TRUE
      [] c.kind = "hits" -> hits >= c.n
      [] c.kind = "var" ->
           Len(c.ref) = 1 /\ Number(ScopeOf(s, c.ref[1].v, "var")) = IntOf(c.value, table)

ConditionRaises(s, c) ==
  LET scope == ScopeOf(s, c.ref[1].v, "var")
  IN  c.kind = "var" /\ Len(c.ref) = 1 /\ scope # <<>> /\ Unparsable(scope[c.ref[1].v])

-----------------------------------------------------------------------------
(* The reference: a word, and what a check says about it.                  *)

\* GDB prints a signed variable as a decimal number, and with print/x or
\* from memory the word
PrintsOf(w) == {Printed("hex", w), Printed("dec", AsSigned(w))}

Means(w, e, op, signed) ==
  Holds(IF signed THEN AsSigned(w) ELSE w,
        IF signed THEN AsSigned(AsUnsigned(e)) ELSE AsUnsigned(e), op)
=============================================================================

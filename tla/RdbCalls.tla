------------------------------ MODULE RdbCalls ------------------------------
(***************************************************************************)
(* The listings with absolute addresses that gen-rdb.py makes of what the  *)
(* compiler and the linker leave: it finds out again which procedure each  *)
(* call goes to, which module a global belongs to, and where the calls of  *)
(* the start-up code are.                                                  *)
(*                                                                         *)
(* A module is a base address, a block of data, and procedures; a          *)
(* procedure may hold another one, whose code comes first.  A call in the  *)
(* listing has its instruction, or, to another module, only in the binary. *)
(***************************************************************************)
EXTENDS Integers, Sequences, SequencesExt

CONSTANTS
  Gaps,       \* distances between the codes of two modules
  ModuleNames,\* a sequence, and a bound: the modules
  ProcNames,  \* a sequence, and a bound: the procedures of a module
  MaxCalls,   \* bound: calls of a procedure
  DataTop,    \* where the data of the modules begin, downwards
  DataSizes   \* sizes of the data of a module

VARIABLES
  status,    \* "program", "listings", "calls", "startup", "done"
  modules,  \* the program
  listings, \* the lines of each listing
  startup   \* the listing of the start-up code

rdbVars == <<status, modules, listings, startup>>

(* The names are different.  The code, with that of the start-up, is within *)
(* reach of a call, and below the data.                                    *)
Different(names) == names \in Seq(Range(names)) /\ IsInjective(names)
CodeLimit(gap) ==
  (Len(ModuleNames) - 1) * gap + Len(ModuleNames) * (Len(ProcNames) * (8 + 4 * MaxCalls)) + 4 * (Len(ModuleNames) + 1)

ASSUME RdbAssumption ==
  /\ Different(ModuleNames) /\ Different(ProcNames) /\ MaxCalls \in Nat /\ DataTop \in Int
  /\ \E gap \in Gaps, size \in DataSizes :
       /\ \A g \in Gaps : g \in 0 .. gap /\ g % 2 = 0
       /\ \A d \in DataSizes : d \in 4 .. size
       /\ CodeLimit(gap) <= 2^24 /\ CodeLimit(gap) + Len(ModuleNames) * size < DataTop

-----------------------------------------------------------------------------
(* A call: two half-words with the distance in bits spread over them.      *)

Bit(n, k) == (n \div 2^k) % 2
Turned(a, b) == (a + b + 1) % 2

EncodeBl(pc, target) ==
  LET n == (target - (pc + 4)) % 2^25
      s == Bit(n, 24)
  IN  <<61440 + (s * 2^10) + ((n \div 2^12) % 2^10),
        53248 + (Turned(Bit(n, 23), s) * 2^13) + (Turned(Bit(n, 22), s) * 2^11) + ((n \div 2) % 2^11)>>

\* The distance in half-words of a call, and of nothing else
IsBl(code) == code[1] \div 2^11 = 30 /\ code[2] \div 2^14 = 3 /\ Bit(code[2], 12) = 1

Distance(code) ==
  LET s == Bit(code[1], 10)
  IN  (s * 2^23) + (Turned(Bit(code[2], 13), s) * 2^22) + (Turned(Bit(code[2], 11), s) * 2^21)
        + ((code[1] % 2^10) * 2^11) + (code[2] % 2^11)

DecodeBl(code) == IF Distance(code) >= 2^23 THEN Distance(code) - 2^24 ELSE Distance(code)

-----------------------------------------------------------------------------
(* The program, and where the linker puts its code.                        *)

Size(p) == 8 + 4 * Len(p.calls)
Length(ps) == 8 * Len(ps) + 4 * Len(FlattenSeq([k \in DOMAIN ps |-> ps[k].calls]))
PlaceOf(m, k) == m.base + Length(SubSeq(m.procs, 1, k - 1))
CalleeAt(c) == PlaceOf(modules[c[1]], c[2])

\* Each procedure: what is declared above its code, an instruction, its
\* calls, an instruction, and a word with the address of a global
Declared(m, k) ==
  IF m.procs[k].inner THEN <<m.procs[k + 1].name, m.procs[k].name>>
  ELSE IF k > 1 /\ m.procs[k - 1].inner THEN <<>> ELSE <<m.procs[k].name>>

Row(kind, at, value) == [kind |-> kind, at |-> at, value |-> value]

Compiled(x, k) ==
  LET m == modules[x]
      start == Length(SubSeq(m.procs, 1, k - 1))
      calls == m.procs[k].calls
      Call(i) ==
        LET at == start + 4 * i IN
          IF calls[i][1] = x THEN Row("call", at, EncodeBl(m.base + at, CalleeAt(calls[i])))
          ELSE Row("ext call", at, <<>>)
  IN  [i \in DOMAIN Declared(m, k) |-> Row("procedure", 0, Declared(m, k)[i])]
        \o <<Row("other", start, <<>>)>> \o [i \in DOMAIN calls |-> Call(i)]
        \o <<Row("global", start + 4 + 4 * Len(calls), <<>>)>>

Listing(x) == FlattenSeq([k \in DOMAIN modules[x].procs |-> Compiled(x, k)])

\* The binary: the calls with their targets, and the addresses of globals,
\* of which the lowest of the module called last is as good as any
CallsIn(x, k) ==
  {[at |-> PlaceOf(modules[x], k) + 4 * i, to |-> modules[x].procs[k].calls[i]] :
     i \in DOMAIN modules[x].procs[k].calls}
AllCalls == UNION {UNION {CallsIn(x, k) : k \in DOMAIN modules[x].procs} : x \in DOMAIN modules}
CallAt(at) == CHOOSE c \in AllCalls : c.at = at
GlobalAt(x, k) ==
  LET calls == modules[x].procs[k].calls
      owner == IF calls = <<>> THEN x ELSE Last(calls)[1]
  IN  modules[owner].top - modules[owner].size

AddModule ==
  /\ status = "program" /\ Len(modules) < Len(ModuleNames)
  /\ \A m \in Range(modules) : m.procs # <<>> /\ ~Last(m.procs).inner
  /\ \E gap \in IF modules = <<>> THEN {0} ELSE Gaps, size \in DataSizes :
       LET before == IF modules = <<>> THEN [base |-> 0, procs |-> <<>>, top |-> DataTop, size |-> 0] ELSE Last(modules)
       IN  modules' = Append(modules,
             [name |-> ModuleNames[Len(modules) + 1], base |-> before.base + Length(before.procs) + gap,
              top |-> before.top - before.size, size |-> size, procs |-> <<>>])
  /\ UNCHANGED <<status, listings, startup>>

\* Procedures call those before them, and themselves
Callees(x, k) == {c \in (DOMAIN modules) \X (1 .. Len(ProcNames)) :
  c[2] <= IF c[1] = x THEN k ELSE Len(modules[c[1]].procs)}

AddProcedure ==
  /\ status = "program" /\ modules # <<>>
  /\ LET x == Len(modules)
         procs == Last(modules).procs
         k == Len(procs) + 1
     IN  /\ k <= Len(ProcNames)
         /\ \E calls \in BoundedSeq(Callees(x, k), MaxCalls), inner \in BOOLEAN :
              /\ inner => k < Len(ProcNames) /\ ~(k > 1 /\ procs[k - 1].inner)
              /\ modules' = [modules EXCEPT ![x].procs =
                   Append(@, [name |-> ProcNames[k], calls |-> calls, inner |-> inner])]
  /\ UNCHANGED <<status, listings, startup>>

-----------------------------------------------------------------------------
(* The tool.                                                               *)

DataOf(m) == (m.top - 4 - m.size + 1) .. (m.top - 4)
CodeOf(m) == m.base .. (m.base + Length(m.procs) - 1)

\* The first module that has the address
OwnerOf(addr) ==
  LET owners == {x \in DOMAIN modules : addr \in DataOf(modules[x]) \cup CodeOf(modules[x])} IN
    IF owners = {} THEN "Unknown" ELSE modules[Min(owners)].name

\* make_alst: absolute addresses, and from the binary what the listing lacks
ProcedureAt(x, at) == CHOOSE k \in DOMAIN modules[x].procs :
  PlaceOf(modules[x], k) <= at /\ at < PlaceOf(modules[x], k) + Size(modules[x].procs[k])

Absolute(x, l) ==
  LET at == l.at + modules[x].base IN
    CASE l.kind = "procedure" -> l
      [] l.kind \in {"call", "other"} -> Row(l.kind, at, l.value)
      [] l.kind = "ext call" -> Row("call", at, EncodeBl(at, CalleeAt(CallAt(at).to)))
      [] l.kind = "global" -> Row("global", at, OwnerOf(GlobalAt(x, ProcedureAt(x, at))))

MakeAlst ==
  /\ status = "program" /\ modules # <<>> /\ Last(modules).procs # <<>> /\ ~Last(Last(modules).procs).inner
  /\ status' = "calls"
  /\ listings' = [x \in DOMAIN modules |-> [i \in DOMAIN Listing(x) |-> Absolute(x, Listing(x)[i])]]
  /\ UNCHANGED <<modules, startup>>

\* build_proc_db: the name read last, and the first code behind it
\* Mutant of Begins: the name stays for all the code that follows
Begins_All(ls, i) ==
  /\ ls[i].kind # "procedure"
  /\ \E j \in 1 .. i - 1 : ls[j].kind = "procedure"

Begins(ls, i) == i > 1 /\ ls[i].kind # "procedure" /\ ls[i - 1].kind = "procedure"

Above(ls, i) == ls[Max({j \in 1 .. i - 1 : ls[j].kind = "procedure"})].value
ProcDb ==
  UNION {{[at |-> listings[x][i].at, module |-> modules[x].name, name |-> Above(listings[x], i)] :
            i \in {j \in DOMAIN listings[x] : Begins(listings[x], j)}} : x \in DOMAIN modules}

\* patch_bl_calls: a call that goes to the begin of a procedure gets its name
Goal(l) == l.at + 4 + 2 * DecodeBl(l.value)
WithName(db, x, l) ==
  LET found == {p \in db : p.at = Goal(l)} IN
    IF l.kind # "call" \/ ~IsBl(l.value) \/ found = {} THEN l
    ELSE LET p == CHOOSE q \in found : TRUE IN
      Row("named call", l.at, IF p.module = modules[x].name THEN <<p.name>> ELSE <<p.module, p.name>>)

PatchBlCalls ==
  /\ status = "calls" /\ status' = "startup"
  /\ LET db == ProcDb
     IN  listings' = [x \in DOMAIN modules |-> [i \in DOMAIN listings[x] |-> WithName(db, x, listings[x][i])]]
  /\ UNCHANGED <<modules, startup>>

\* generate_startup: calls behind the code, one for each module, and a loop;
\* the entry of a module is its last procedure here
CodeEnd == Last(modules).base + Length(Last(modules).procs)
EntryOf(m) == PlaceOf(m, Len(m.procs))
StartAt(i) == CodeEnd + 4 * (i - 1)
GenerateStartup ==
  /\ status = "startup" /\ status' = "done"
  /\ startup' = [i \in 1 .. Len(modules) + 1 |->
       Row("call", StartAt(i), EncodeBl(StartAt(i), IF i > Len(modules) THEN StartAt(i) ELSE EntryOf(modules[i])))]
  /\ UNCHANGED <<modules, listings>>

RdbInit == status = "program" /\ modules = <<>> /\ listings = <<>> /\ startup = <<>>
RdbNext == AddModule \/ AddProcedure \/ MakeAlst \/ PatchBlCalls \/ GenerateStartup
RdbSpec == RdbInit /\ [][RdbNext]_rdbVars

-----------------------------------------------------------------------------
\* A name shown at a call is that of the procedure called, and each call has
\* one, but for those of procedures that hold another one.
CallsNamed ==
  status \in {"startup", "done"} => \A x \in DOMAIN modules : \A l \in Range(listings[x]) :
    l.kind \in {"call", "named call"} =>
      LET c == CallAt(l.at).to
          m == modules[c[1]]
          holds == c[2] > 1 /\ m.procs[c[2] - 1].inner
      IN  IF l.kind = "call" THEN holds
          ELSE l.value = (IF c[1] = x THEN <<>> ELSE <<m.name>>) \o <<m.procs[c[2]].name>>

\* A word that points to data is told to belong to the module whose data it
\* points into, also the lowest word.
GlobalsOwned ==
  status # "program" => \A x \in DOMAIN modules : \A k \in DOMAIN modules[x].procs :
    \A l \in Range(listings[x]) :
      l.kind = "global" /\ l.at = PlaceOf(modules[x], k) + Size(modules[x].procs[k]) - 4 =>
        \E y \in DOMAIN modules :
          /\ l.value = modules[y].name
          /\ GlobalAt(x, k) >= modules[y].top - modules[y].size /\ GlobalAt(x, k) < modules[y].top

\* Run from the end of the code, the start-up code calls the body of each
\* module in turn, whatever the distance, and then stays where it is.
StartupRuns ==
  status = "done" => \A i \in DOMAIN startup :
    LET at == CodeEnd + 4 * (i - 1) IN
      at + 4 + 2 * DecodeBl(startup[i].value) = (IF i > Len(modules) THEN at ELSE EntryOf(modules[i]))

\* What the listings say of the program is true of it.
ListingsTrue == CallsNamed /\ GlobalsOwned /\ StartupRuns
=============================================================================

------------------------------ MODULE MC_Build ------------------------------
(***************************************************************************)
(* The build of a Secure program, from one tool to the next, with a source *)
(* and a listing that the premises of SourceKept, FramesReturned and       *)
(* GatesSound leave out: SYSTEM is imported on a second line, the one ASM  *)
(* block is emptied between two builds, a procedure is declared inside the *)
(* exported one, and its signature names a type of another module.         *)
(***************************************************************************)
EXTENDS GeneratedCode, SecureGates

Dsb == AsmLine(Instr("dsb", <<>>), "no", "x")
mcAsmLines == {Dsb}
mcSources ==
  {<<Import(<<"LED">>, TRUE), MoreImports(<<"SYSTEM">>),
     Heading("P", FALSE), Mark("asm"), Operation(Dsb), Mark("endasm"), Statement(1), EndOf("P")>>}

\* P saves two registers; the procedure inside it saves four.
mcListings ==
  {[nested |-> <<[op |-> "push", n |-> 4], [op |-> "str"]>>,
    own |-> <<[op |-> "push", n |-> 2], [op |-> "str"]>>]}
Proc(name, exported, refs) ==
  [kind |-> "proc", name |-> name, exported |-> exported, function |-> FALSE, leaf |-> FALSE, refs |-> refs]
End(name) == [kind |-> "end", name |-> name]
PushAt(rel, count) == [kind |-> "push", rel |-> rel, count |-> count]
mcPrograms ==
  {[exposed |-> <<"A">>,
    modules |-> [ A |-> [code |-> 1000, listed |-> TRUE, consts |-> {}, types |-> {},
                         lines |-> <<Proc("P", TRUE, {"T"}), Proc("in", FALSE, {}), PushAt(0, 4), End("in"),
                                     PushAt(8, 2), End("P")>>],
                  T |-> [code |-> 3000, listed |-> TRUE, consts |-> {}, types |-> {}, lines |-> <<>>] ]]}

VARIABLE step

Do(from, to, A) == step = from /\ A /\ step' = to /\ UNCHANGED gateVars
BuildInit == step = "asm" /\ CodeInit /\ GatesInit
BuildNext ==
  \/ Do("asm", "edit", RunGenAsm)
  \/ Do("edit", "asm again", DropOperation)
  \/ Do("asm again", "epilogue", RunGenAsm)
  \/ Do("epilogue", "gates", RunSecEpilogue)
  \/ step = "gates" /\ GatesNext /\ UNCHANGED <<step, codeVars>>
BuildSpec == BuildInit /\ [][BuildNext]_<<step, codeVars, gateVars>>

\* What the headers and comments of gen-asm, sec-epilogue and gen-secure say
\* of what they write, when all three have run.
BuiltAsDocumented ==
  todo = "done" =>
    /\ AsmAsWritten    \* "The ASM block is the source of truth"
    /\ SystemOnce      \* "Ensure SYSTEM is in the IMPORT list"
    /\ EachReturned    \* "push instruction (first one is the prologue)"
    /\ EachStubArrives \* "NS interface modules with stub procedures"
    /\ SignaturesClosed \* "... dependency modules as needed"
=============================================================================

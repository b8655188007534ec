------------------------------- MODULE MC_Elf -------------------------------
(***************************************************************************)
(* ElfData, ElfListing and ElfFile side by side for TLC: each behaviour is *)
(* one of one of the three, and the others stay in their initial states.   *)
(***************************************************************************)
EXTENDS ElfData, ElfListing, ElfFile

\* ElfData: a library L and a program M that uses it, in either order
Mod(name, imports, consts) ==
  [name |-> name, imports |-> imports, consts |-> consts, types |-> <<>>, vars |-> <<>>, procs |-> <<>>]
C(name, value) == [name |-> name, value |-> value]
D(name, type) == [name |-> name, type |-> type]
V(names, type) == [names |-> names, type |-> type]
Ch(module, kind, decl) == [module |-> module, kind |-> kind, decl |-> decl]
Integer == Named(<<"INTEGER">>)
Char == Named(<<"CHAR">>)

mcLibrary == Mod("L", <<>>, <<C("n", Number(3)), C("size", Constant(<<"n">>))>>)
mcProgram == Mod("M", <<[alias |-> "l", module |-> "L"]>>, <<C("len", Constant(<<"l", "size">>))>>)
mcPrograms == {<<mcLibrary, mcProgram>>, <<mcProgram, mcLibrary>>}

mcMenu ==
  <<Ch("L", "types", D("U", Record(None, <<V(<<"a", "b">>, Char)>>))),
    Ch("L", "types", D("A", ArrayN(Constant(<<"size">>), Integer))),
    Ch("L", "types", D("P", Pointer(Named(<<"Q">>)))),
    Ch("L", "types", D("Q", Record(None, <<V(<<"next">>, Named(<<"P">>)), V(<<"v">>, ArrayN(Number(2), Char))>>))),
    Ch("L", "types", D("W", Record(<<"U">>, <<V(<<"t">>, Named(<<"A">>))>>))),
    Ch("M", "types", D("G", Record(<<"l", "W">>, <<V(<<"h">>, Named(<<"l", "U">>))>>))),
    Ch("M", "types", D("A", Record(None, <<V(<<"n">>, Integer)>>))),
    Ch("M", "types", D("E", Record(<<"l", "U">>, <<V(<<"c">>, ArrayN(Constant(<<"l", "n">>), Named(<<"l", "U">>)))>>))),
    Ch("M", "types", D("F", Record(<<"E">>, <<V(<<"r">>, Record(None, <<V(<<"s">>, Integer)>>))>>))),
    Ch("M", "types", D("H", Procedure)),
    Ch("M", "vars", V(<<"x", "y">>, Named(<<"l", "P">>))),
    Ch("M", "vars", V(<<"z">>, ArrayN(Constant(<<"len">>), Named(<<"l", "U">>)))),
    Ch("M", "vars", V(<<"c", "d">>, Char)),
    Ch("M", "vars", V(<<"w">>, Integer)),
    Ch("M", "procs", [name |-> "p", leaf |-> FALSE, body |-> <<>>,
       params |-> <<[names |-> <<"i">>, byRef |-> TRUE, type |-> Named(<<"F">>)],
                    [names |-> <<"s">>, byRef |-> FALSE, type |-> OpenArray(Char)]>>,
       locals |-> <<V(<<"f">>, Named(<<"H">>)), V(<<"k">>, Integer)>>]),
    Ch("M", "procs", [name |-> "q", leaf |-> TRUE, body |-> <<>>,
       params |-> <<[names |-> <<"o">>, byRef |-> FALSE, type |-> OpenArray(Char)],
                    [names |-> <<"e">>, byRef |-> TRUE, type |-> Named(<<"E">>)],
                    [names |-> <<"j">>, byRef |-> FALSE, type |-> Integer]>>,
       locals |-> <<V(<<"g">>, Named(<<"BOOLEAN">>)), V(<<"t">>, Named(<<"E">>)), V(<<"m">>, Integer)>>])>>
mcWords == {"IF", "CASE", "END"}
mcSizes == [n \in {} |-> 0]

\* A program that is there from the beginning, its file before that of the
\* library: an array of arrays z, an extension G of a record of the library
\* that names a type, and two records of one name
mcWholeLibrary ==
  [mcLibrary EXCEPT !.types =
     <<D("A", ArrayN(Constant(<<"size">>), Integer)),
       D("U", Record(None, <<V(<<"a", "b">>, Char)>>)),
       D("W", Record(None, <<V(<<"t">>, Named(<<"A">>))>>))>>]
mcWholeProgram ==
  [mcProgram EXCEPT
     !.types = <<D("G", Record(<<"l", "W">>, <<V(<<"h">>, Integer)>>)),
                 D("U", Record(None, <<V(<<"n">>, Integer)>>))>>,
     !.vars = <<V(<<"x">>, Named(<<"l", "U">>)), V(<<"y">>, Named(<<"U">>)),
                V(<<"z">>, ArrayN(Constant(<<"len">>), Named(<<"l", "A">>)))>>]
mcWhole == {<<mcWholeProgram, mcWholeLibrary>>}
mcNoMenu == <<>>

\* ElfListing: blocks of lines
L(kind, size, n, regs) == [kind |-> kind, size |-> size, n |-> n, regs |-> regs, declares |-> ""]
Text == L("text", 0, 0, {})
I(kind, size) == L(kind, size, 0, {})
mcBlocks ==
  {<<Text, I("other", 2), Text, I("other", 4)>>,
   <<Text, L("push", 2, 0, {4, 14}), Text, I("other", 2), I("pop_pc", 2), I("data", 4)>>,
   <<Text, L("push", 4, 0, {0, 8, 14}), L("sub_sp", 2, 12, {}), Text, I("other", 4), I("pop_pc", 4), Text,
     I("other", 2), I("add_sp", 2), I("pop_pc", 4)>>}
mcBodyBlocks == {<<Text, L("push", 2, 0, {14}), Text, I("other", 2), I("pop_pc", 2)>>}
mcNames == <<"p", "q", "r">>
mcLineSteps == {-6, -5, 0, 8, 9, 63, 64}
mcAddrSteps == {2, 32, 34, 36, 126, 128}

\* ElfFile: one or two binary files, with their addresses or without
Bin(name, addr, size, entry) == [name |-> name, addr |-> addr, size |-> size, entry |-> entry]
mcBinFiles ==
  {<<>>, <<Bin("M", <<>>, 400, 1001)>>, <<Bin("M", <<1000>>, 400, 1001)>>,
   <<Bin("M", <<1000>>, 400, 1001), Bin("NS", <<3000>>, 256, 3001)>>,
   <<Bin("M", <<1000>>, 400, 1001), Bin("NS", <<>>, 256, 3001)>>}
mcListings ==
  [procs |-> <<[name |-> <<"M", "p">>, addr |-> 1100, size |-> 40], [name |-> <<"M", ".init">>, addr |-> 1140, size |-> 20]>>,
   vars |-> <<[name |-> <<"M", "x">>, addr |-> 5004, size |-> 4]>>,
   sections |-> <<[name |-> ".debug_line", size |-> 100], [name |-> ".debug_info", size |-> 256],
                  [name |-> ".debug_str", size |-> 0], [name |-> ".ARM.attributes", size |-> 30]>>]
mcCommands ==
  [bins : mcBinFiles, map : {[code |-> <<>>, data |-> <<>>], [code |-> <<1000>>, data |-> <<5000, 5100>>]},
   entry : {<<>>, <<1100>>}, bss : {<<>>, <<5000, 5200>>, <<5200, 5000>>}, imageDef : BOOLEAN, boot2 : BOOLEAN,
   main : BOOLEAN, prefix : {"", "S"}, level : {"none", "symbols", "debug"}, rdb : {<<>>, <<mcListings>>}]

VARIABLE part \* which of the three

ElfInit == part \in {"data", "listing", "file"} /\ DataInit /\ ListingInit
  /\ FileInit /\ (part # "file" => command = CHOOSE c \in Commands : TRUE)

DataPart == part = "data" /\ DataNext /\ UNCHANGED <<part, listingVars, fileVars>>
ListingPart == part = "listing" /\ ListingNext /\ UNCHANGED <<part, dataVars, fileVars>>
FilePart == part = "file" /\ FileNext /\ UNCHANGED <<part, dataVars, listingVars>>

ElfNext == DataPart \/ ListingPart \/ FilePart

ElfSpec == ElfInit /\ [][ElfNext]_<<part, dataVars, listingVars, fileVars>>
=============================================================================

----------------------------- MODULE MC_Memory ------------------------------
(***************************************************************************)
(* An instance of Memory for TLC: 14 words for heap and stacks, records of *)
(* one and two words, stacks of two and three words.                       *)
(***************************************************************************)
EXTENDS Memory
=============================================================================

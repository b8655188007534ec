---------------------------- MODULE MC_UARTstrK -----------------------------
(***************************************************************************)
(* Instances of UARTstrK for TLC: two messages, up to three strings of up  *)
(* to three chunks of different lengths.                                   *)
(***************************************************************************)
EXTENDS UARTstrK

CONSTANTS m1, m2

MCPoolOrder == <<m1, m2>>
MCChunkLen == <<2, 1, 3, 2, 1, 1, 2, 2, 3>>
=============================================================================

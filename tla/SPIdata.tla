------------------------------ MODULE SPIdata -------------------------------
(***************************************************************************)
(* Transfers of bytes over SPI (SPIdata.mod).  For each byte that goes out *)
(* one comes in; the controller has a transmit FIFO, a shift register and  *)
(* a receive FIFO, and drops a byte that finds the receive FIFO full.  The *)
(* driver polls: it keeps writing while fewer than FifoDepth bytes are on  *)
(* their way, and reads one byte per round.                                *)
(*                                                                         *)
(* PutBytes, GetBytes and PutGetBytes have the same loop, and PutByte and  *)
(* GetByte are the case of one byte.  They differ in where the bytes come  *)
(* from and go to.  A byte is known here by its index in the call.         *)
(***************************************************************************)
EXTENDS Integers, Sequences

CONSTANTS
  FifoDepth, \* SPI.FifoDepth, of each FIFO
  Counts     \* arguments n of the calls

ASSUME SPIAssumption == FifoDepth \in Nat \ {0} /\ Counts \subseteq Nat

VARIABLES
  loop,      \* "idle", or where the loop is: "write", "read"
  n,       \* bytes of this call
  nw, nr,  \* bytes yet to be written, and to be read
  tx,      \* transmit FIFO
  shift,   \* bytes in the shift register, one at most
  rx,      \* receive FIFO
  rxData,  \* the bytes read by this call
  overrun  \* a received byte has been dropped

spiDriver == <<loop, n, nw, nr, rxData>>
controller == <<tx, shift, rx, overrun>>
spiVars == <<spiDriver, controller>>

SPIInit ==
  /\ loop = "idle"
  /\ n = 0 /\ nw = 0 /\ nr = 0
  /\ tx = <<>> /\ shift = <<>> /\ rx = <<>>
  /\ rxData = <<>>
  /\ overrun = FALSE

-----------------------------------------------------------------------------
(* The driver                                                              *)

Transfer ==
  /\ loop = "idle"
  /\ n' \in Counts
  /\ nw' = n' /\ nr' = n'
  /\ rxData' = <<>>
  /\ loop' = IF n' > 0 THEN "write" ELSE "idle"
  /\ UNCHANGED controller

\* Mutant of MayWrite: one byte too many on its way
MayWrite_OneMore == nw > 0 /\ nr <= nw + FifoDepth /\ Len(tx) < FifoDepth

MayWrite == nw > 0 /\ nr < nw + FifoDepth /\ Len(tx) < FifoDepth

Write ==
  /\ loop = "write"
  /\ MayWrite
  /\ tx' = Append(tx, n - nw)
  /\ nw' = nw - 1
  /\ UNCHANGED <<loop, n, nr, rxData, shift, rx, overrun>>

WriteNoMore ==
  /\ loop = "write"
  /\ ~MayWrite
  /\ loop' = "read"
  /\ UNCHANGED <<n, nw, nr, rxData, controller>>

\* Mutant of AfterRead: the loop ends when all bytes are written
AfterRead_Written == loop' = IF nw > 0 THEN "write" ELSE "idle"

\* The loop goes on with bytes to write or to read
AfterRead == loop' = IF nw > 0 \/ nr' > 0 THEN "write" ELSE "idle"

Read ==
  /\ loop = "read"
  /\ \/ /\ nr > 0 /\ rx # <<>>
        /\ rxData' = Append(rxData, Head(rx))
        /\ rx' = Tail(rx)
        /\ nr' = nr - 1
     \/ /\ nr = 0 \/ rx = <<>>
        /\ UNCHANGED <<rxData, rx, nr>>
  /\ AfterRead
  /\ UNCHANGED <<n, nw, tx, shift, overrun>>

-----------------------------------------------------------------------------
(* The controller, a PL022                                                 *)

StartFrame ==
  /\ shift = <<>> /\ tx # <<>>
  /\ shift' = <<Head(tx)>>
  /\ tx' = Tail(tx)
  /\ UNCHANGED <<spiDriver, rx, overrun>>

EndFrame ==
  /\ shift # <<>>
  /\ shift' = <<>>
  /\ \/ Len(rx) < FifoDepth /\ rx' = rx \o shift /\ UNCHANGED overrun
     \/ Len(rx) >= FifoDepth /\ overrun' = TRUE /\ UNCHANGED rx
  /\ UNCHANGED <<spiDriver, tx>>

-----------------------------------------------------------------------------
SPIDriver == Write \/ WriteNoMore \/ Read
Controller == StartFrame \/ EndFrame

SPINext == Transfer \/ SPIDriver \/ Controller

SPISpec == SPIInit /\ [][SPINext]_spiVars

(* The driver polls without a pause, and the controller has its clock.     *)
FairSPISpec == SPISpec /\ WF_spiVars(SPIDriver) /\ WF_spiVars(Controller)

-----------------------------------------------------------------------------
(* The receive FIFO never overruns, however slow the driver reads.         *)
NoOverrun == ~overrun

(* Each byte that is read is the answer to the byte of the same index that *)
(* was written by this call, and a call returns after all of them: nothing *)
(* is left that a later call would take for its own.                       *)
BytesMatch ==
  /\ \A i \in DOMAIN rxData : rxData[i] = i - 1
  /\ loop = "idle" => Len(rxData) = n /\ tx \o shift \o rx = <<>>

(* Every call returns.                                                     *)
Returns == loop # "idle" ~> loop = "idle"

-----------------------------------------------------------------------------
(* Why: the bytes on their way, in order, are those written and not read,  *)
(* and there are at most FifoDepth of them.                                *)
SPITypeOK ==
  /\ loop \in {"idle", "write", "read"}
  /\ n \in Nat /\ nw \in 0..n /\ nr \in 0..n
  /\ tx \in Seq(Nat) /\ shift \in Seq(Nat) /\ rx \in Seq(Nat)
  /\ rxData \in Seq(Nat)
  /\ overrun \in BOOLEAN

InFlight == rx \o shift \o tx

Credit ==
  /\ Len(shift) <= 1
  /\ Len(rx) + Len(shift) + Len(tx) = nr - nw
  /\ nr - nw <= FifoDepth

InOrder ==
  /\ Len(rxData) = n - nr
  /\ \A i \in DOMAIN rxData : rxData[i] = i - 1
  /\ \A i \in DOMAIN rx : rx[i] = n - nr + i - 1
  /\ shift # <<>> => shift[1] = n - nr + Len(rx)
  /\ \A i \in DOMAIN tx : tx[i] = n - nr + Len(rx) + Len(shift) + i - 1

SPIInv ==
  /\ SPITypeOK
  /\ Credit
  /\ InOrder
  /\ NoOverrun
  /\ loop = "idle" => nr = 0 /\ nw = 0
=============================================================================

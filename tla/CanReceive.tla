----------------------------- MODULE CanReceive -----------------------------
(***************************************************************************)
(* The receive half of the MCP2515 CAN controller on the CAN-BUS shield,   *)
(* as the driver libraries/CAN_BUS_Shield-master/mcp_can.cpp configures    *)
(* and reads it.                                                           *)
(*                                                                         *)
(* mcp2515_init lets both receive buffers accept every frame and turns the *)
(* rollover on: a frame that finds RXB0 taken goes to RXB1, and one that   *)
(* finds both taken is lost.  checkReceive looks at the two RXnIF bits;    *)
(* readMsgBuf looks at them again and reads RXB0 in preference to RXB1,    *)
(* which clears the flag of the buffer it read.  Each of those looks is an *)
(* SPI transfer of its own, so frames arrive between them.                 *)
(***************************************************************************)
EXTENDS Naturals, FiniteSets

CONSTANTS
    Frames,    (* the frames the chargers put on the bus                   *)
    NoFrame    (* the content of a receive buffer whose RXnIF is clear     *)

ASSUME NoFrameAssumption == NoFrame \notin Frames

VARIABLES
    rxb,       (* the two receive buffers, RXB0 and RXB1                   *)
    rxSelect   (* the buffer readMsgBuf has decided to read                *)

rxVars == <<rxb, rxSelect>>

RxBuffers == 0..1

EmptyBuffers == [i \in RxBuffers |-> NoFrame]

RxTypeOK == /\ rxb \in [RxBuffers -> Frames \cup {NoFrame}]
            /\ rxSelect \in RxBuffers

(* RXnIF of some buffer is set.  CANINTE is RX0IE|RX1IE, so this is also   *)
(* the condition under which the INT pin is held low.                      *)
Pending == \E i \in RxBuffers : rxb[i] # NoFrame

(* The value of rxb once frame f has come in from the bus.                 *)
Accept(f) ==
    IF rxb[0] = NoFrame THEN [rxb EXCEPT ![0] = f]
    ELSE IF rxb[1] = NoFrame THEN [rxb EXCEPT ![1] = f]
    ELSE rxb

(* Mutant of SelectBuffer: the two RXnIF bits swapped.                     *)
SelectOtherBuffer == IF rxb[0] # NoFrame THEN 1 ELSE 0

(* readRxTxStatus and the choice readMsgBufID makes from it.               *)
SelectBuffer == IF rxb[0] # NoFrame THEN 0 ELSE 1

(* The value of rxb once the selected buffer has been read.                *)
AfterRead == [rxb EXCEPT ![rxSelect] = NoFrame]

=============================================================================

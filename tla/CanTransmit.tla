---------------------------- MODULE CanTransmit -----------------------------
(***************************************************************************)
(* The transmit half of the MCP2515 and the driver call the sketches send  *)
(* their heartbeat with: MCP_CAN::sendMsg, which polls for a free transmit *)
(* buffer, loads it, and polls until the frame has gone out.  The sketches *)
(* ignore what it returns.                                                 *)
(*                                                                         *)
(* The chip sends what is pending in its three buffers while the sketch is *)
(* elsewhere.  All buffers have the same priority (mcp2515_initCANBuffers  *)
(* zeroes TXBnCTRL), so the chip takes the highest numbered one first; a   *)
(* frame no charger acknowledges stays pending and is tried again.         *)
(*                                                                         *)
(* The loop sends for ever.  The first MaxBeats heartbeats are numbered in *)
(* the order they are sent, and the history keeps what became of each; all *)
(* later ones are alike, with one number Beyond those.                     *)
(***************************************************************************)
EXTENDS Naturals, SequencesExt

CONSTANTS
    TIMEOUTVALUE,  (* 50, the polls of each of the two loops               *)
    MaxBeats       (* bound: heartbeats told apart, not heartbeats sent    *)

ASSUME TransmitAssumption ==
    /\ TIMEOUTVALUE \in Nat \ {0}
    /\ MaxBeats \in Nat

VARIABLES
    pc,            (* "loop" outside sendMsg, "free" and "sent" in its loops *)
    beat,          (* the number of the heartbeat sent last, or Beyond     *)
    uiTimeOut,     (* polls made in the current loop                       *)
    txbuf_n,       (* the buffer sendMsg has loaded                        *)
    result,        (* result[n]: what sendMsg returned for heartbeat n     *)
    txb,           (* the heartbeat pending in each buffer, 0 if none      *)
    wire,          (* the buffer the chip is putting on the bus            *)
    log,           (* history: the numbered ones the chargers have received *)
    crowded,       (* history: a heartbeat was loaded beside a pending one *)
    beyondHeard    (* history: the chargers have received one Beyond       *)

history == <<log, crowded, beyondHeard>>
vars == <<pc, beat, uiTimeOut, txbuf_n, result, txb, wire, history>>

Numbered == 1..MaxBeats
Beyond == MaxBeats + 1

TxBuffers == 0..2
Idle == 3           (* wire: nothing is being sent *)

Busy == {i \in TxBuffers : txb[i] # 0}
Free == TxBuffers \ Busy

Init == /\ pc = "loop"
        /\ beat = 0
        /\ uiTimeOut = 0
        /\ txbuf_n = 0
        /\ result = <<>>
        /\ txb = [i \in TxBuffers |-> 0]
        /\ wire = Idle
        /\ log = <<>>
        /\ crowded = FALSE
        /\ beyondHeard = FALSE

-----------------------------------------------------------------------------
(* sendMsg *)

(* Mutant of SendMsg: a heartbeat that timed out is sent again.            *)
SendMsgAgain ==
    /\ pc = "loop"
    /\ beat' = IF beat \in Numbered /\ Last(result) = "CAN_SENDMSGTIMEOUT"
               THEN beat
               ELSE Min({beat + 1, Beyond})
    /\ uiTimeOut' = 0
    /\ pc' = "free"
    /\ UNCHANGED <<txbuf_n, result, txb, wire, history>>

SendMsg == /\ pc = "loop"
           /\ beat' = IF beat = Beyond THEN Beyond ELSE beat + 1
           /\ uiTimeOut' = 0
           /\ pc' = "free"
           /\ UNCHANGED <<txbuf_n, result, txb, wire, history>>

Return(code) == /\ pc' = "loop"
                /\ result' = IF beat \in Numbered THEN Append(result, code)
                             ELSE result

(* Mutant of NextFreeTXBuf: the pending bits are not looked at.            *)
FirstTXBuf == 0

(* mcp2515_getNextFreeTXBuf: the lowest numbered free buffer.              *)
NextFreeTXBuf == Min(Free)

(* A poll that finds a free buffer before the last: load it, request its   *)
(* transmission and go on to wait for that.                                *)
LoadBuffer ==
    /\ pc = "free"
    /\ Free # {}
    /\ uiTimeOut + 1 < TIMEOUTVALUE
    /\ txbuf_n' = NextFreeTXBuf
    /\ txb' = [txb EXCEPT ![NextFreeTXBuf] = beat]
    /\ crowded' = (crowded \/ Busy # {})
    /\ uiTimeOut' = 0
    /\ pc' = "sent"
    /\ UNCHANGED <<beat, result, wire, log, beyondHeard>>

(* Mutant of AllTxBusy: no timeout.                                        *)
AllTxBusyForever ==
    /\ pc = "free"
    /\ Free = {}
    /\ uiTimeOut' = uiTimeOut + 1
    /\ UNCHANGED <<pc, beat, txbuf_n, result, txb, wire, history>>

AllTxBusy ==
    /\ pc = "free"
    /\ Free = {}
    /\ uiTimeOut + 1 < TIMEOUTVALUE
    /\ uiTimeOut' = uiTimeOut + 1
    /\ UNCHANGED <<pc, beat, txbuf_n, result, txb, wire, history>>

(* The last poll times out whatever it finds, and the heartbeat is dropped.*)
GetTxBufTimeout ==
    /\ pc = "free"
    /\ uiTimeOut + 1 = TIMEOUTVALUE
    /\ uiTimeOut' = uiTimeOut + 1
    /\ Return("CAN_GETTXBFTIMEOUT")
    /\ UNCHANGED <<beat, txbuf_n, txb, wire, history>>

(* A poll of the buffer's TXREQ bit.                                       *)
CheckSent ==
    /\ pc = "sent"
    /\ uiTimeOut' = uiTimeOut + 1
    /\ \/ /\ uiTimeOut' = TIMEOUTVALUE
          /\ Return("CAN_SENDMSGTIMEOUT")
       \/ /\ uiTimeOut' < TIMEOUTVALUE
          /\ txbuf_n \in Free
          /\ Return("CAN_OK")
       \/ /\ uiTimeOut' < TIMEOUTVALUE
          /\ txbuf_n \in Busy
          /\ UNCHANGED <<pc, result>>
    /\ UNCHANGED <<beat, txbuf_n, txb, wire, history>>

-----------------------------------------------------------------------------
(* The chip *)

StartFrame == /\ wire = Idle
              /\ Busy # {}
              /\ wire' = Max(Busy)
              /\ UNCHANGED <<pc, beat, uiTimeOut, txbuf_n, result, txb,
                             history>>

(* A charger acknowledges the frame: its TXREQ bit clears.                 *)
FrameSent == /\ wire # Idle
             /\ log' = IF txb[wire] \in Numbered THEN Append(log, txb[wire])
                       ELSE log
             /\ beyondHeard' = (beyondHeard \/ txb[wire] = Beyond)
             /\ txb' = [txb EXCEPT ![wire] = 0]
             /\ wire' = Idle
             /\ UNCHANGED <<pc, beat, uiTimeOut, txbuf_n, result, crowded>>

(* Nobody acknowledges it, or it loses arbitration.                        *)
FrameFails == /\ wire # Idle
              /\ wire' = Idle
              /\ UNCHANGED <<pc, beat, uiTimeOut, txbuf_n, result, txb,
                             history>>

Driver == SendMsg \/ LoadBuffer \/ AllTxBusy \/ GetTxBufTimeout \/ CheckSent

Next == Driver \/ StartFrame \/ FrameSent \/ FrameFails

Spec == Init /\ [][Next]_vars

(* The sketch keeps sending, the chip keeps trying, and chargers that are  *)
(* on the bus again and again acknowledge in the end.                      *)
FairSpec == /\ Spec
            /\ WF_vars(Driver)
            /\ WF_vars(StartFrame)
            /\ SF_vars(FrameSent)

-----------------------------------------------------------------------------
TypeOK ==
    /\ pc \in {"loop", "free", "sent"}
    /\ beat \in 0..Beyond
    /\ uiTimeOut \in 0..TIMEOUTVALUE
    /\ txbuf_n \in TxBuffers
    /\ result \in Seq({"CAN_OK", "CAN_GETTXBFTIMEOUT", "CAN_SENDMSGTIMEOUT"})
    /\ txb \in [TxBuffers -> 0..Beyond]
    /\ wire \in TxBuffers \cup {Idle}
    /\ log \in Seq(Numbered)
    /\ crowded \in BOOLEAN
    /\ beyondHeard \in BOOLEAN

Heard == {log[i] : i \in DOMAIN log}
Waiting == {txb[i] : i \in Busy} \cap Numbered

(* sendMsg's answer tells the truth about heartbeat n, although it looks   *)
(* at a buffer the chip empties behind its back: after CAN_OK the chargers *)
(* have it; after CAN_GETTXBFTIMEOUT they will never; after                *)
(* CAN_SENDMSGTIMEOUT it is out or still on its way.                       *)
ResultTellsTruth ==
    \A n \in DOMAIN result :
        /\ result[n] = "CAN_OK" => n \in Heard
        /\ result[n] = "CAN_GETTXBFTIMEOUT" => n \notin Heard \cup Waiting
        /\ result[n] = "CAN_SENDMSGTIMEOUT" => n \in Heard \cup Waiting

(* No heartbeat reaches the chargers twice, and none that did is pending.  *)
HeardOnce == /\ \A i, j \in DOMAIN log : i # j => log[i] # log[j]
             /\ Heard \cap Waiting = {}

(* Heartbeats overtake each other only among frames that were pending      *)
(* together: while each is out before the next is loaded, the chargers     *)
(* hear them in the order they were sent.                                  *)
InOrderUnlessCrowded ==
    ~crowded => \A i, j \in DOMAIN log : i < j => log[i] < log[j]

(* The chargers have received a heartbeat sent later than n.               *)
Overtaken(n) == beyondHeard \/ \E m \in Heard : m > n

(* What is loaded gets out, or waits while later heartbeats do, however    *)
(* long the sketch goes on sending: nothing replaces it.  More cannot be   *)
(* said of buffers 0 and 1: the chip takes the highest pending one first,  *)
(* and newer heartbeats loaded above it again and again may keep an old    *)
(* one waiting for ever.  The one in buffer 2 is heard.                    *)
HeardOrOvertaken ==
    \A n \in Numbered :
        /\ n \in Waiting ~> n \in Heard \/ (n \in Waiting /\ Overtaken(n))
        /\ txb[2] = n ~> n \in Heard

-----------------------------------------------------------------------------
(* sendMsg and the chip's buffers implement the channel: a heartbeat gets  *)
(* on its way at most once and only while sendMsg is at it, three fit, and *)
(* each is answered once, truthfully, in turn; what is under way is not    *)
(* lost or replaced by a later one.  What gets out is HeardOrOvertaken.    *)
Channel == INSTANCE HeartbeatChannel WITH
    Capacity <- Cardinality(TxBuffers),
    sent     <- IF beat = Beyond THEN MaxBeats ELSE beat,
    answers  <- result,
    underWay <- Waiting,
    heard    <- log

ImplementsChannel == Channel!Spec
=============================================================================

-------------------------- MODULE CanTransmitProofs --------------------------
(***************************************************************************)
(* Theorems about CanTransmit, for any number of polls and of heartbeats   *)
(* told apart.                                                             *)
(***************************************************************************)
EXTENDS CanTransmit, FiniteSetTheorems, TLAPS

USE DEF history, Numbered, Beyond

(* Every numbered heartbeat but the one being sent has its answer, and a   *)
(* loop of sendMsg that is still running has polls left.                   *)
Answered ==
    /\ Len(result) = IF beat = Beyond THEN MaxBeats
                     ELSE IF pc = "loop" THEN beat ELSE beat - 1
    /\ pc # "loop" => beat > 0 /\ uiTimeOut < TIMEOUTVALUE

(* The chip sends only what is pending.                                    *)
WireIsBusy == wire # Idle => wire \in Busy

(* A numbered heartbeat is in one buffer at most.                          *)
InOneBuffer == \A i, j \in Busy : txb[i] = txb[j] /\ txb[i] \in Numbered => i = j

(* Heartbeats on their way or received are those sent so far.              *)
SentSoFar == \A n \in Heard \cup Waiting : n <= beat

(* The one being sent: not loaded yet, or in the buffer sendMsg has loaded *)
(* it in until the chargers have it.                                       *)
BeatInHand ==
    /\ pc = "free" => beat \notin Heard \cup Waiting
    /\ pc = "sent" => \/ txb[txbuf_n] = beat
                      \/ txb[txbuf_n] = 0 /\ (beat = Beyond \/ beat \in Heard)

(* Not crowded: one pending at most, and it is later than all received.    *)
OneAtATime ==
    ~crowded => /\ \A i, j \in Busy : i = j
                /\ \A i \in Busy, k \in DOMAIN log : log[k] < txb[i]

TransmitInv == /\ TypeOK /\ Answered /\ WireIsBusy /\ InOneBuffer /\ SentSoFar
               /\ BeatInHand /\ OneAtATime
               /\ ResultTellsTruth /\ HeardOnce /\ InOrderUnlessCrowded

-----------------------------------------------------------------------------
(* Where there is a free buffer, or a pending one, the driver finds the    *)
(* lowest, and the chip the highest.                                       *)
LEMMA LowestFree == ASSUME Free # {} PROVE NextFreeTXBuf \in Free
  <1>1. \A S \in SUBSET TxBuffers : S # {} => \E x \in S : \A y \in S : x <= y
    <2> SUFFICES ASSUME NEW S \in SUBSET TxBuffers, S # {}
                 PROVE  \E x \in S : \A y \in S : x <= y
      OBVIOUS
    <2>1. CASE 0 \in S BY <2>1 DEF TxBuffers
    <2>2. CASE 0 \notin S /\ 1 \in S BY <2>2 DEF TxBuffers
    <2>3. CASE 0 \notin S /\ 1 \notin S
      <3>1. \A x \in S : x = 2
        BY <2>3 DEF TxBuffers
      <3> QED BY <3>1
    <2> QED BY <2>1, <2>2, <2>3
  <1> QED BY <1>1 DEF NextFreeTXBuf, Min, Free

LEMMA HighestBusy == ASSUME Busy # {} PROVE Max(Busy) \in Busy
  <1>1. \A S \in SUBSET TxBuffers : S # {} => \E x \in S : \A y \in S : x >= y
    <2> SUFFICES ASSUME NEW S \in SUBSET TxBuffers, S # {}
                 PROVE  \E x \in S : \A y \in S : x >= y
      OBVIOUS
    <2>1. CASE 2 \in S BY <2>1 DEF TxBuffers
    <2>2. CASE 2 \notin S /\ 1 \in S BY <2>2 DEF TxBuffers
    <2>3. CASE 2 \notin S /\ 1 \notin S
      <3>1. \A x \in S : x = 0
        BY <2>3 DEF TxBuffers
      <3> QED BY <3>1
    <2> QED BY <2>1, <2>2, <2>3
  <1> QED BY <1>1 DEF Max, Busy

(* What the log and the buffers hold after a step.                         *)
LEMMA HeardAppend ==
    ASSUME NEW x \in Numbered, TypeOK, log' = Append(log, x)
    PROVE  Heard' = Heard \cup {x}
  <1>1. /\ DOMAIN log = 1..Len(log) /\ DOMAIN log' = 1..(Len(log) + 1)
        /\ \A i \in 1..Len(log) : log'[i] = log[i]
        /\ log'[Len(log) + 1] = x
        /\ Len(log) \in Nat
    BY DEF TypeOK
  <1> QED BY <1>1 DEF Heard

LEMMA NumbersType ==
    ASSUME TypeOK
    PROVE  /\ \A k \in DOMAIN log : log[k] \in Nat /\ log[k] \in Heard
           /\ \A n \in Heard \cup Waiting : n \in Nat /\ n \in Numbered
  <1>1. \A k \in DOMAIN log : log[k] \in Numbered
    <2>1. DOMAIN log = 1..Len(log)
      BY DEF TypeOK
    <2>2. \A k \in 1..Len(log) : log[k] \in Numbered
      <3>1. \A S, s : s \in Seq(S) => \A k \in 1..Len(s) : s[k] \in S
        OBVIOUS
      <3> QED BY <3>1, Zenon DEF TypeOK
    <2> QED BY <2>1, <2>2
  <1> QED BY <1>1, TransmitAssumption DEF Heard, Waiting, Numbered

LEMMA WaitingLoaded ==
    ASSUME TypeOK, NEW b \in Free, beat # 0, txb' = [txb EXCEPT ![b] = beat]
    PROVE  /\ Busy' = Busy \cup {b}
           /\ Waiting' = Waiting \cup ({beat} \cap Numbered)
  <1>1. Busy' = Busy \cup {b}
    BY DEF TypeOK, Busy, Free
  <1>2. txb'[b] = beat /\ \A i \in Busy : txb'[i] = txb[i]
    BY DEF TypeOK, Busy, Free
  <1>3. {txb'[i] : i \in Busy'} = {txb[i] : i \in Busy} \cup {beat}
    BY <1>1, <1>2
  <1> QED BY <1>1, <1>3 DEF Waiting

LEMMA WaitingSent ==
    ASSUME TypeOK, InOneBuffer, NEW b \in Busy, txb' = [txb EXCEPT ![b] = 0]
    PROVE  /\ Busy' = Busy \ {b}
           /\ Waiting' = Waiting \ {txb[b]}
  <1>1. Busy' = Busy \ {b} /\ \A i \in Busy' : txb'[i] = txb[i]
    BY DEF TypeOK, Busy
  <1>2. ASSUME NEW n \in Numbered
        PROVE  n \in Waiting' <=> n \in Waiting \ {txb[b]}
    BY <1>1 DEF Waiting, InOneBuffer
  <1> QED BY <1>1, <1>2 DEF Waiting

-----------------------------------------------------------------------------
LEMMA InitInv == Init => TransmitInv
  <1> SUFFICES ASSUME Init PROVE TransmitInv
    OBVIOUS
  <1>1. Busy = {} /\ Waiting = {} /\ Heard = {}
    BY DEF Init, Busy, Waiting, Heard
  <1>2. TypeOK
    <2>1. crowded \in BOOLEAN /\ beyondHeard \in BOOLEAN
      BY Zenon DEF Init
    <2> QED BY <2>1, TransmitAssumption DEF Init, TypeOK, TxBuffers
  <1>3. Answered /\ WireIsBusy /\ InOneBuffer /\ SentSoFar /\ BeatInHand /\ OneAtATime
    BY <1>1, TransmitAssumption DEF Init, Answered, WireIsBusy, InOneBuffer, SentSoFar, BeatInHand, OneAtATime
  <1>4. ResultTellsTruth /\ HeardOnce /\ InOrderUnlessCrowded
    BY <1>1 DEF Init, ResultTellsTruth, HeardOnce, InOrderUnlessCrowded
  <1> QED BY <1>2, <1>3, <1>4 DEF TransmitInv

(* What the buffers and the log say does not change with anything else.    *)
LEMMA BusUnchanged ==
    ASSUME UNCHANGED <<txb, log, crowded, beyondHeard>>
    PROVE  /\ Busy' = Busy /\ Free' = Free /\ Heard' = Heard /\ Waiting' = Waiting
           /\ InOneBuffer' = InOneBuffer /\ OneAtATime' = OneAtATime
           /\ HeardOnce' = HeardOnce /\ InOrderUnlessCrowded' = InOrderUnlessCrowded
  <1>1. Busy' = Busy /\ Free' = Free /\ Heard' = Heard
    BY DEF Busy, Free, Heard
  <1>2. Waiting' = Waiting
    BY <1>1 DEF Waiting
  <1>3. InOneBuffer' = InOneBuffer /\ OneAtATime' = OneAtATime
    BY <1>1 DEF InOneBuffer, OneAtATime
  <1>4. HeardOnce' = HeardOnce /\ InOrderUnlessCrowded' = InOrderUnlessCrowded
    BY <1>1, <1>2 DEF HeardOnce, InOrderUnlessCrowded
  <1> QED BY <1>1, <1>2, <1>3, <1>4

LEMMA SendMsgStep == ASSUME TransmitInv, SendMsg PROVE TransmitInv'
  <1> USE DEF SendMsg, TransmitInv
  <1>1. TypeOK'
    BY TransmitAssumption DEF TypeOK
  <1>2. Answered'
    BY TransmitAssumption DEF Answered, TypeOK
  <1>3. WireIsBusy' /\ ResultTellsTruth'
    BY BusUnchanged DEF WireIsBusy, ResultTellsTruth
  <1>4. SentSoFar' /\ BeatInHand'
    <2>1. \A n \in Heard \cup Waiting : n \in Nat /\ n <= beat /\ n \in Numbered
      BY NumbersType DEF SentSoFar
    <2>2. beat \in Nat /\ beat' \in {beat + 1, Beyond} /\ beat' > 0 /\ pc' = "free"
          /\ (beat' # Beyond => beat' = beat + 1) /\ beat <= beat'
      BY TransmitAssumption DEF TypeOK
    <2>3. \A n \in Heard \cup Waiting : n <= beat' /\ n # beat'
      BY <2>1, <2>2, TransmitAssumption
    <2> QED BY <2>2, <2>3, BusUnchanged DEF SentSoFar, BeatInHand
  <1> QED BY <1>1, <1>2, <1>3, <1>4, BusUnchanged

LEMMA LoadBufferStep == ASSUME TransmitInv, LoadBuffer PROVE TransmitInv'
  <1> DEFINE b == NextFreeTXBuf
  <1>1. b \in Free /\ b \in TxBuffers /\ txb[b] = 0 /\ b \notin Busy
    BY LowestFree DEF LoadBuffer, Free, Busy
  <1>2. beat \in 1..Beyond /\ beat # 0 /\ beat \in Nat
    BY TransmitAssumption DEF TransmitInv, TypeOK, Answered, LoadBuffer
  <1> HIDE DEF b
  <1>3. /\ txbuf_n' = b /\ txb' = [txb EXCEPT ![b] = beat]
        /\ crowded' = (crowded \/ Busy # {})
        /\ uiTimeOut' = 0 /\ pc = "free" /\ pc' = "sent"
        /\ UNCHANGED <<beat, result, wire, log, beyondHeard>>
    BY DEF LoadBuffer, b
  <1>4. Busy' = Busy \cup {b} /\ Waiting' = Waiting \cup ({beat} \cap Numbered)
    BY <1>1, <1>2, <1>3, WaitingLoaded DEF TransmitInv
  <1>5. Heard' = Heard
    BY <1>3 DEF Heard
  <1>6. beat \notin Heard \cup Waiting
    BY <1>3 DEF TransmitInv, BeatInHand
  <1>7. txb'[b] = beat /\ \A i \in Busy : i \in TxBuffers /\ txb'[i] = txb[i]
    BY <1>1, <1>3 DEF TransmitInv, TypeOK, Busy
  <1> USE DEF TransmitInv
  <1>8. TypeOK'
    <2>1. crowded' \in BOOLEAN
      BY <1>3, Zenon DEF TypeOK
    <2>2. txb' \in [TxBuffers -> 0..Beyond]
      BY <1>2, <1>3 DEF TypeOK
    <2> QED BY <1>1, <1>3, <2>1, <2>2, TransmitAssumption DEF TypeOK
  <1>9. Answered' /\ WireIsBusy' /\ SentSoFar' /\ BeatInHand'
    <2>1. Answered'
      BY <1>2, <1>3, TransmitAssumption DEF Answered
    <2>2. WireIsBusy' /\ BeatInHand'
      BY <1>3, <1>4, <1>7 DEF WireIsBusy, BeatInHand
    <2>3. SentSoFar'
      BY <1>2, <1>3, <1>4, <1>5 DEF SentSoFar
    <2> QED BY <2>1, <2>2, <2>3
  <1>10. InOneBuffer'
    <2>1. \A i \in Busy : txb[i] = beat => beat \notin Numbered
      BY <1>6 DEF Waiting
    <2> QED BY <1>4, <1>7, <2>1 DEF InOneBuffer
  <1>11. OneAtATime' /\ InOrderUnlessCrowded'
    <2> SUFFICES ASSUME ~crowded' PROVE OneAtATime' /\ InOrderUnlessCrowded'
      BY DEF OneAtATime, InOrderUnlessCrowded
    <2>1. ~crowded /\ Busy' = {b}
      BY <1>3, <1>4
    <2>2. \A k \in DOMAIN log : log[k] < beat
      <3> SUFFICES ASSUME NEW k \in DOMAIN log PROVE log[k] < beat
        OBVIOUS
      <3>1. log[k] \in Heard /\ log[k] \in Nat
        BY NumbersType
      <3>2. log[k] <= beat /\ log[k] # beat
        BY <1>6, <3>1 DEF SentSoFar
      <3> QED BY <1>2, <3>1, <3>2
    <2> QED BY <1>3, <1>7, <2>1, <2>2 DEF OneAtATime, InOrderUnlessCrowded
  <1>12. HeardOnce'
    BY <1>3, <1>4, <1>5, <1>6 DEF HeardOnce
  <1>13. ResultTellsTruth'
    <2>1. \A n \in DOMAIN result : n # beat
      BY <1>2, <1>3 DEF Answered, TypeOK
    <2> QED BY <1>3, <1>4, <1>5, <2>1 DEF ResultTellsTruth
  <1> QED BY <1>8, <1>9, <1>10, <1>11, <1>12, <1>13

LEMMA AllTxBusyStep == ASSUME TransmitInv, AllTxBusy PROVE TransmitInv'
  <1> USE DEF AllTxBusy, TransmitInv
  <1>1. TypeOK' /\ Answered'
    BY TransmitAssumption DEF TypeOK, Answered
  <1>2. WireIsBusy' /\ ResultTellsTruth' /\ SentSoFar' /\ BeatInHand'
    BY BusUnchanged DEF WireIsBusy, ResultTellsTruth, SentSoFar, BeatInHand
  <1> QED BY <1>1, <1>2, BusUnchanged

(* An answer to the heartbeat being sent, if it is true, and to one Beyond.*)
LEMMA ReturnStep ==
    ASSUME TransmitInv, pc \in {"free", "sent"},
           NEW code \in {"CAN_OK", "CAN_GETTXBFTIMEOUT", "CAN_SENDMSGTIMEOUT"},
           Return(code), uiTimeOut' = uiTimeOut + 1,
           UNCHANGED <<beat, txbuf_n, txb, wire, history>>, beat \in Numbered,
           code = "CAN_OK" => beat \in Heard,
           code = "CAN_GETTXBFTIMEOUT" => beat \notin Heard \cup Waiting,
           code = "CAN_SENDMSGTIMEOUT" => beat \in Heard \cup Waiting
    PROVE  TransmitInv'
  <1> USE DEF TransmitInv
  <1>1. /\ pc' = "loop" /\ result' = Append(result, code)
        /\ Len(result) = beat - 1 /\ beat \in Nat /\ uiTimeOut < TIMEOUTVALUE
        /\ beat # Beyond
    BY TransmitAssumption DEF Return, Answered, TypeOK
  <1>2. /\ DOMAIN result' = 1..beat /\ Len(result') = beat
        /\ DOMAIN result = 1..(beat - 1)
        /\ result'[beat] = code /\ \A n \in DOMAIN result : result'[n] = result[n]
    BY <1>1 DEF TypeOK, Answered
  <1>3. TypeOK'
    BY <1>1, TransmitAssumption DEF TypeOK
  <1>4. Answered' /\ WireIsBusy' /\ SentSoFar' /\ BeatInHand'
    BY <1>1, <1>2, BusUnchanged DEF Answered, WireIsBusy, SentSoFar, BeatInHand
  <1>5. ResultTellsTruth'
    <2> SUFFICES ASSUME NEW n \in DOMAIN result'
                 PROVE  /\ result'[n] = "CAN_OK" => n \in Heard
                        /\ result'[n] = "CAN_GETTXBFTIMEOUT" => n \notin Heard \cup Waiting
                        /\ result'[n] = "CAN_SENDMSGTIMEOUT" => n \in Heard \cup Waiting
      BY BusUnchanged DEF ResultTellsTruth
    <2>1. CASE n = beat
      BY <1>2, <2>1
    <2>2. CASE n # beat
      BY <1>1, <1>2, <2>2 DEF ResultTellsTruth
    <2> QED BY <2>1, <2>2
  <1> QED BY <1>3, <1>4, <1>5, BusUnchanged

LEMMA ReturnBeyondStep ==
    ASSUME TransmitInv, pc # "loop", beat \notin Numbered,
           NEW code, Return(code), uiTimeOut' = uiTimeOut + 1,
           UNCHANGED <<beat, txbuf_n, txb, wire, history>>
    PROVE  TransmitInv'
  <1> USE DEF TransmitInv
  <1>1. pc' = "loop" /\ result' = result /\ beat = Beyond /\ uiTimeOut < TIMEOUTVALUE
    BY TransmitAssumption DEF Return, Answered, TypeOK
  <1>2. TypeOK' /\ Answered'
    BY <1>1, TransmitAssumption DEF TypeOK, Answered
  <1>3. WireIsBusy' /\ SentSoFar' /\ BeatInHand' /\ ResultTellsTruth'
    BY <1>1, BusUnchanged DEF WireIsBusy, SentSoFar, BeatInHand, ResultTellsTruth
  <1> QED BY <1>2, <1>3, BusUnchanged

LEMMA GetTxBufTimeoutStep == ASSUME TransmitInv, GetTxBufTimeout PROVE TransmitInv'
  <1>1. beat \notin Heard \cup Waiting
    BY DEF GetTxBufTimeout, TransmitInv, BeatInHand
  <1> QED BY <1>1, ReturnStep, ReturnBeyondStep DEF GetTxBufTimeout

LEMMA CheckSentStep == ASSUME TransmitInv, CheckSent PROVE TransmitInv'
  <1>1. txbuf_n \in TxBuffers /\ beat # 0
    BY DEF TransmitInv, TypeOK, Answered, CheckSent
  <1>2. beat \in Numbered =>
            /\ txb[txbuf_n] = beat => beat \in Waiting /\ txbuf_n \notin Free
            /\ txb[txbuf_n] = beat \/ beat \in Heard
    BY <1>1, TransmitAssumption
       DEF TransmitInv, BeatInHand, CheckSent, Waiting, Busy, Free
  <1>3. CASE Return("CAN_SENDMSGTIMEOUT")
    BY <1>2, <1>3, ReturnStep, ReturnBeyondStep DEF CheckSent
  <1>4. CASE txbuf_n \in Free /\ Return("CAN_OK")
    BY <1>2, <1>4, ReturnStep, ReturnBeyondStep DEF CheckSent
  <1>5. CASE uiTimeOut' < TIMEOUTVALUE /\ UNCHANGED <<pc, result>>
    <2> USE <1>5 DEF CheckSent, TransmitInv
    <2>1. TypeOK' /\ Answered'
      BY TransmitAssumption DEF TypeOK, Answered
    <2>2. WireIsBusy' /\ ResultTellsTruth' /\ SentSoFar' /\ BeatInHand'
      BY BusUnchanged DEF WireIsBusy, ResultTellsTruth, SentSoFar, BeatInHand
    <2> QED BY <2>1, <2>2, BusUnchanged
  <1> QED BY <1>3, <1>4, <1>5 DEF CheckSent

-----------------------------------------------------------------------------
LEMMA WireStep == ASSUME TransmitInv, StartFrame \/ FrameFails PROVE TransmitInv'
  <1> USE DEF StartFrame, FrameFails, TransmitInv
  <1>1. wire' \in Busy \/ wire' = Idle
    BY HighestBusy
  <1>2. TypeOK'
    BY <1>1 DEF TypeOK, Busy
  <1>3. WireIsBusy'
    BY <1>1, BusUnchanged DEF WireIsBusy
  <1>4. Answered' /\ ResultTellsTruth' /\ SentSoFar' /\ BeatInHand'
    BY BusUnchanged DEF Answered, ResultTellsTruth, SentSoFar, BeatInHand
  <1> QED BY <1>2, <1>3, <1>4, BusUnchanged

(* A heartbeat Beyond goes out: only its buffer changes.                   *)
LEMMA BeyondSentStep ==
    ASSUME TransmitInv, FrameSent, txb[wire] \notin Numbered PROVE TransmitInv'
  <1> USE DEF TransmitInv
  <1>1. wire \in Busy /\ wire \in TxBuffers /\ txb[wire] = Beyond
    BY TransmitAssumption DEF WireIsBusy, FrameSent, Busy, TypeOK
  <1>2. /\ log' = log /\ txb' = [txb EXCEPT ![wire] = 0] /\ wire' = Idle
        /\ beyondHeard' = (beyondHeard \/ txb[wire] = Beyond)
        /\ UNCHANGED <<pc, beat, uiTimeOut, txbuf_n, result, crowded>>
    BY DEF FrameSent
  <1>3. Heard' = Heard
    BY <1>2 DEF Heard
  <1>4. Busy' = Busy \ {wire} /\ Waiting' = Waiting
    <2>1. Beyond \notin Waiting
      BY TransmitAssumption DEF Waiting
    <2>2. Busy' = Busy \ {wire} /\ Waiting' = Waiting \ {Beyond}
      BY <1>1, <1>2, WaitingSent
    <2> QED BY <2>1, <2>2
  <1>5. \A i \in TxBuffers : txb'[i] = IF i = wire THEN 0 ELSE txb[i]
    BY <1>1, <1>2 DEF TypeOK
  <1>6. TypeOK'
    <2>1. crowded' \in BOOLEAN /\ beyondHeard' \in BOOLEAN
      BY <1>2, Zenon DEF TypeOK
    <2>2. txb' \in [TxBuffers -> 0..Beyond]
      BY <1>1, <1>2, TransmitAssumption DEF TypeOK
    <2> QED BY <1>2, <2>1, <2>2 DEF TypeOK
  <1>7. Answered' /\ WireIsBusy' /\ SentSoFar'
    BY <1>2, <1>3, <1>4 DEF Answered, WireIsBusy, SentSoFar
  <1>8. BeatInHand'
    BY <1>1, <1>2, <1>3, <1>4, <1>5 DEF BeatInHand, TypeOK
  <1>9. InOneBuffer' /\ OneAtATime'
    <2>1. \A i \in Busy' : i \in Busy /\ txb'[i] = txb[i]
      BY <1>4, <1>5 DEF Busy
    <2> QED BY <1>2, <2>1 DEF InOneBuffer, OneAtATime
  <1>10. HeardOnce' /\ InOrderUnlessCrowded' /\ ResultTellsTruth'
    BY <1>2, <1>3, <1>4 DEF HeardOnce, InOrderUnlessCrowded, ResultTellsTruth
  <1> QED BY <1>6, <1>7, <1>8, <1>9, <1>10

LEMMA NumberedSentStep ==
    ASSUME TransmitInv, FrameSent, txb[wire] \in Numbered PROVE TransmitInv'
  <1> DEFINE n == txb[wire]
  <1>1. wire \in Busy /\ wire \in TxBuffers /\ n \in Numbered /\ n \in Waiting
    BY TransmitAssumption DEF TransmitInv, WireIsBusy, FrameSent, Busy, Waiting, TypeOK
  <1>2. /\ log' = Append(log, n) /\ txb' = [txb EXCEPT ![wire] = 0] /\ wire' = Idle
        /\ beyondHeard' = beyondHeard
        /\ UNCHANGED <<pc, beat, uiTimeOut, txbuf_n, result, crowded>>
    <2>1. n # Beyond
      BY <1>1, TransmitAssumption
    <2>2. beyondHeard' = (beyondHeard \/ n = Beyond) /\ beyondHeard \in BOOLEAN
      BY Zenon DEF FrameSent, TransmitInv, TypeOK, n
    <2> QED BY <1>1, <2>1, <2>2 DEF FrameSent
  <1> HIDE DEF n
  <1>3. Heard' = Heard \cup {n}
    BY <1>1, <1>2, HeardAppend DEF TransmitInv
  <1>4. Busy' = Busy \ {wire} /\ Waiting' = Waiting \ {n}
    BY <1>1, <1>2, WaitingSent DEF TransmitInv, n
  <1>5. Heard' \cup Waiting' = Heard \cup Waiting
    BY <1>1, <1>3, <1>4
  <1>6. /\ \A i \in Busy' : i \in TxBuffers /\ i \in Busy /\ txb'[i] = txb[i]
        /\ txb'[wire] = 0 /\ \A i \in TxBuffers : i # wire => txb'[i] = txb[i]
    BY <1>1, <1>2, <1>4 DEF TransmitInv, TypeOK, Busy
  <1>7. /\ DOMAIN log = 1..Len(log) /\ DOMAIN log' = 1..(Len(log) + 1)
        /\ \A i \in 1..Len(log) : log'[i] = log[i]
        /\ log'[Len(log) + 1] = n
        /\ Len(log) \in Nat
    BY <1>2 DEF TransmitInv, TypeOK
  <1>8. n \notin Heard
    BY <1>1 DEF TransmitInv, HeardOnce
  <1> USE DEF TransmitInv
  <1>9. TypeOK'
    <2>1. crowded' \in BOOLEAN /\ beyondHeard' \in BOOLEAN
      BY <1>2, Zenon DEF TypeOK
    <2>2. txb' \in [TxBuffers -> 0..Beyond]
      BY <1>1, <1>2, TransmitAssumption DEF TypeOK
    <2>3. log' \in Seq(Numbered)
      BY <1>1, <1>2 DEF TypeOK
    <2> QED BY <1>2, <2>1, <2>2, <2>3 DEF TypeOK
  <1>10. Answered' /\ WireIsBusy' /\ SentSoFar'
    BY <1>2, <1>5 DEF Answered, WireIsBusy, SentSoFar
  <1>11. BeatInHand'
    <2>1. pc = "sent" => txbuf_n \in TxBuffers
      BY DEF TypeOK
    <2>2. CASE pc = "sent" /\ txbuf_n = wire
      <3>1. n = beat
        BY <1>1, <2>2 DEF BeatInHand, n, Busy
      <3> QED BY <1>2, <1>3, <1>6, <2>2, <3>1 DEF BeatInHand
    <2>3. CASE pc = "sent" /\ txbuf_n # wire
      BY <1>2, <1>3, <1>6, <2>1, <2>3 DEF BeatInHand
    <2>4. CASE pc # "sent"
      BY <1>2, <1>5, <2>4 DEF BeatInHand
    <2> QED BY <2>2, <2>3, <2>4
  <1>12. InOneBuffer'
    BY <1>6 DEF InOneBuffer
  <1>13. OneAtATime' /\ InOrderUnlessCrowded'
    <2> SUFFICES ASSUME ~crowded PROVE OneAtATime' /\ InOrderUnlessCrowded'
      BY <1>2 DEF OneAtATime, InOrderUnlessCrowded
    <2>1. Busy' = {}
      BY <1>1, <1>4 DEF OneAtATime
    <2>2. \A k \in 1..Len(log) : log[k] < n
      BY <1>1, <1>7 DEF OneAtATime, n
    <2>3. InOrderUnlessCrowded'
      <3> SUFFICES ASSUME NEW i \in DOMAIN log', NEW j \in DOMAIN log', i < j
                   PROVE  log'[i] < log'[j]
        BY DEF InOrderUnlessCrowded
      <3>1. i \in 1..Len(log)
        BY <1>7
      <3>2. CASE j \in 1..Len(log)
        BY <1>7, <3>1, <3>2 DEF InOrderUnlessCrowded
      <3>3. CASE j = Len(log) + 1
        BY <1>7, <2>2, <3>1, <3>3
      <3> QED BY <1>7, <3>2, <3>3
    <2> QED BY <2>1, <2>3 DEF OneAtATime
  <1>14. HeardOnce'
    <2>1. \A i \in 1..Len(log) : log[i] # n
      BY <1>7, <1>8 DEF Heard
    <2>2. \A i, j \in DOMAIN log' : i # j => log'[i] # log'[j]
      <3> SUFFICES ASSUME NEW i \in DOMAIN log', NEW j \in DOMAIN log', i # j
                   PROVE  log'[i] # log'[j]
        OBVIOUS
      <3>1. CASE i \in 1..Len(log) /\ j \in 1..Len(log)
        BY <1>7, <3>1 DEF HeardOnce
      <3>2. CASE i = Len(log) + 1 \/ j = Len(log) + 1
        BY <1>7, <2>1, <3>2
      <3> QED BY <1>7, <3>1, <3>2
    <2>3. (Heard \cap Waiting)' = {}
      BY <1>3, <1>4 DEF HeardOnce
    <2> QED BY <2>2, <2>3 DEF HeardOnce
  <1>15. ResultTellsTruth'
    BY <1>2, <1>3, <1>5 DEF ResultTellsTruth
  <1> QED BY <1>9, <1>10, <1>11, <1>12, <1>13, <1>14, <1>15

-----------------------------------------------------------------------------
LEMMA StepInv == TransmitInv /\ [Next]_vars => TransmitInv'
  <1> SUFFICES ASSUME TransmitInv, [Next]_vars PROVE TransmitInv'
    OBVIOUS
  <1>1. CASE Driver
    BY <1>1, SendMsgStep, LoadBufferStep, AllTxBusyStep, GetTxBufTimeoutStep,
       CheckSentStep DEF Driver
  <1>2. CASE StartFrame \/ FrameSent \/ FrameFails
    BY <1>2, WireStep, NumberedSentStep, BeyondSentStep
  <1>3. CASE UNCHANGED vars
    <2> USE <1>3 DEF vars, TransmitInv
    <2>1. TypeOK' /\ Answered'
      BY DEF TypeOK, Answered
    <2>2. WireIsBusy' /\ ResultTellsTruth' /\ SentSoFar' /\ BeatInHand'
      BY BusUnchanged DEF WireIsBusy, ResultTellsTruth, SentSoFar, BeatInHand
    <2> QED BY <2>1, <2>2, BusUnchanged
  <1> QED BY <1>1, <1>2, <1>3 DEF Next

LEMMA InvHolds == Spec => []TransmitInv
  BY InitInv, StepInv, PTL DEF Spec

(* No step leaves the widths of sendMsg's variables: buffer numbers are    *)
(* those of buffers, the polls are within their bound.                     *)
THEOREM TransmitTypeCorrect == Spec => []TypeOK
  <1>1. TransmitInv => TypeOK
    BY DEF TransmitInv
  <1> QED BY <1>1, InvHolds, PTL

(* What sendMsg returned for a heartbeat stays true, whatever the chip     *)
(* sends, drops or tries again behind its back.                            *)
THEOREM ResultsTellTruth == Spec => []ResultTellsTruth
  <1>1. TransmitInv => ResultTellsTruth
    BY DEF TransmitInv
  <1> QED BY <1>1, InvHolds, PTL

(* No heartbeat reaches the chargers twice.                                *)
THEOREM NoneHeardTwice == Spec => []HeardOnce
  <1>1. TransmitInv => HeardOnce
    BY DEF TransmitInv
  <1> QED BY <1>1, InvHolds, PTL

(* Heartbeats arrive in order while no two are pending together.           *)
THEOREM OrderKept == Spec => []InOrderUnlessCrowded
  <1>1. TransmitInv => InOrderUnlessCrowded
    BY DEF TransmitInv
  <1> QED BY <1>1, InvHolds, PTL

-----------------------------------------------------------------------------
(* The refinement: every step of sendMsg or of the chip is one of the      *)
(* channel, or none.                                                       *)

(* With a free buffer fewer heartbeats wait than there are buffers.        *)
LEMMA RoomForOne ==
    ASSUME Free # {}
    PROVE  Channel!Cardinality(Waiting) < Cardinality(TxBuffers)
  <1>0. \A S : Channel!Cardinality(S) = Cardinality(S)
    BY Zenon DEF Channel!Cardinality, Cardinality
  <1>1. IsFiniteSet(TxBuffers) /\ Busy \in SUBSET TxBuffers /\ Busy # TxBuffers
    <2>1. IsFiniteSet(({0} \cup {1}) \cup {2})
      BY FS_Singleton, FS_AddElement
    <2>2. TxBuffers = ({0} \cup {1}) \cup {2}
      BY DEF TxBuffers
    <2> QED BY <2>1, <2>2 DEF Busy, Free
  <1>2. /\ IsFiniteSet(Busy)
        /\ Cardinality(Busy) <= Cardinality(TxBuffers)
        /\ Cardinality(Busy) # Cardinality(TxBuffers)
    BY <1>1, FS_Subset
  <1> DEFINE Loaded == {txb[i] : i \in Busy}
  <1>3. [i \in Busy |-> txb[i]] \in Surjection(Busy, Loaded)
    BY DEF Surjection
  <1>4. IsFiniteSet(Waiting) /\ Cardinality(Waiting) <= Cardinality(Busy)
    <2>1. IsFiniteSet(Loaded) /\ Cardinality(Loaded) <= Cardinality(Busy)
      BY <1>2, <1>3, FS_Surjection
    <2>2. Waiting \in SUBSET Loaded
      BY DEF Waiting
    <2>3. IsFiniteSet(Waiting) /\ Cardinality(Waiting) <= Cardinality(Loaded)
      BY <2>1, <2>2, FS_Subset
    <2> QED BY <1>2, <2>1, <2>3, FS_CardinalityType
  <1>5. /\ Cardinality(Waiting) \in Nat /\ Cardinality(Busy) \in Nat
        /\ Cardinality(TxBuffers) \in Nat
    BY <1>1, <1>2, <1>4, FS_CardinalityType
  <1> QED BY <1>0, <1>2, <1>4, <1>5

(* A numbered heartbeat is open as long as sendMsg is at it.               *)
LEMMA OpenInSendMsg ==
    ASSUME TransmitInv
    PROVE  /\ Channel!Open <=> pc # "loop" /\ beat # Beyond
           /\ Channel!Delivered = Heard
  <1>1. beat \in Nat /\ (pc # "loop" => beat > 0)
        /\ Len(result) = IF beat = Beyond THEN MaxBeats
                         ELSE IF pc = "loop" THEN beat ELSE beat - 1
    BY TransmitAssumption DEF TransmitInv, TypeOK, Answered
  <1> QED BY <1>1, TransmitAssumption DEF Channel!Open, Channel!Delivered, Heard

LEMMA ChannelInit == Init => Channel!Init
  <1> SUFFICES ASSUME Init PROVE Channel!Init
    OBVIOUS
  <1>1. Waiting = {}
    BY DEF Init, Busy, Waiting
  <1> QED BY <1>1, TransmitAssumption DEF Init, Channel!Init

LEMMA ChannelAnswers ==
    ASSUME TransmitInv, GetTxBufTimeout \/ CheckSent
    PROVE  Channel!Truthful \/ UNCHANGED Channel!vars
  <1>1. Waiting' = Waiting /\ UNCHANGED <<beat, log>> /\ pc # "loop"
    BY BusUnchanged DEF GetTxBufTimeout, CheckSent
  <1>2. CASE beat \notin Numbered
    <2>1. result' = result
      BY <1>2 DEF GetTxBufTimeout, CheckSent, Return
    <2> QED BY <1>1, <2>1 DEF Channel!vars
  <1> SUFFICES ASSUME beat \in Numbered PROVE Channel!Truthful \/ UNCHANGED Channel!vars
    BY <1>2
  <1>3. beat # Beyond
    BY TransmitAssumption
  <1>4. \A code : Return(code) => Channel!Answer(code)
    BY <1>1, <1>3, OpenInSendMsg DEF Return, Channel!Answer
  <1>5. CASE GetTxBufTimeout
    <2>1. beat \notin Heard \cup Waiting
      BY <1>5 DEF GetTxBufTimeout, TransmitInv, BeatInHand
    <2> QED BY <1>4, <1>5, <1>3, <2>1, OpenInSendMsg DEF GetTxBufTimeout, Channel!Truthful
  <1>6. CASE CheckSent
    <2>1. txbuf_n \in TxBuffers /\ beat # 0
      BY <1>6 DEF TransmitInv, TypeOK, Answered, CheckSent
    <2>2. /\ txb[txbuf_n] = beat => beat \in Waiting /\ txbuf_n \notin Free
          /\ txb[txbuf_n] = beat \/ beat \in Heard
      BY <1>6, <1>3, <2>1 DEF TransmitInv, BeatInHand, CheckSent, Waiting, Busy, Free
    <2>3. CASE Return("CAN_SENDMSGTIMEOUT")
      BY <1>4, <1>3, <2>2, <2>3, OpenInSendMsg DEF Channel!Truthful
    <2>4. CASE txbuf_n \in Free /\ Return("CAN_OK")
      BY <1>4, <1>3, <2>2, <2>4, OpenInSendMsg DEF Channel!Truthful
    <2>5. CASE UNCHANGED <<pc, result>>
      BY <1>1, <2>5 DEF Channel!vars
    <2> QED BY <1>6, <2>3, <2>4, <2>5 DEF CheckSent
  <1> QED BY <1>5, <1>6

LEMMA ChannelStep ==
    ASSUME TransmitInv, [Next]_vars
    PROVE  [Channel!Next]_Channel!vars
  <1>1. CASE SendMsg
    <2>1. Waiting' = Waiting /\ UNCHANGED <<result, log>>
      BY <1>1, BusUnchanged DEF SendMsg
    <2>2. CASE beat \in 0..(MaxBeats - 1)
      <3>1. beat # Beyond /\ beat + 1 # Beyond
        BY <2>2, TransmitAssumption
      <3>2. Channel!HandOver
        BY <1>1, <2>1, <3>1, OpenInSendMsg DEF SendMsg, Channel!HandOver
      <3> QED BY <3>2 DEF Channel!Next
    <2>3. CASE beat \in {MaxBeats, Beyond}
      BY <1>1, <2>1, <2>3 DEF SendMsg, Channel!vars
    <2> QED BY <2>2, <2>3, TransmitAssumption DEF TransmitInv, TypeOK
  <1>2. CASE LoadBuffer
    <2>1. NextFreeTXBuf \in Free /\ beat # 0
      BY <1>2, LowestFree DEF LoadBuffer, TransmitInv, Answered, TypeOK
    <2>2. Waiting' = Waiting \cup ({beat} \cap Numbered)
      BY <1>2, <2>1, WaitingLoaded DEF LoadBuffer, TransmitInv
    <2>3. CASE beat \notin Numbered
      BY <1>2, <2>2, <2>3 DEF LoadBuffer, Channel!vars
    <2> SUFFICES ASSUME beat \in Numbered PROVE Channel!Next
      BY <2>3
    <2>4. beat # Beyond
      BY TransmitAssumption
    <2>5. beat \notin Heard \cup Waiting
      BY <1>2 DEF LoadBuffer, TransmitInv, BeatInHand
    <2>6. Channel!Open /\ beat \notin Waiting \cup Channel!Delivered
      BY <1>2, <2>5, <2>4, OpenInSendMsg DEF LoadBuffer
    <2>7. /\ Channel!Cardinality(Waiting) < Cardinality(TxBuffers)
          /\ UNCHANGED <<beat, result, log>>
      BY <1>2, RoomForOne DEF LoadBuffer
    <2>8. Channel!Accept
      BY <2>2, <2>6, <2>7, <2>4 DEF Channel!Accept
    <2> QED BY <2>8 DEF Channel!Next
  <1>3. CASE GetTxBufTimeout \/ CheckSent
    BY <1>3, ChannelAnswers DEF Channel!Next
  <1>4. CASE AllTxBusy \/ StartFrame \/ FrameFails
    <2>1. Waiting' = Waiting
      BY <1>4, BusUnchanged DEF AllTxBusy, StartFrame, FrameFails
    <2> QED BY <1>4, <2>1 DEF AllTxBusy, StartFrame, FrameFails, Channel!vars
  <1>5. CASE FrameSent
    <2>1. wire \in Busy /\ (txb[wire] \in Numbered => txb[wire] \in Waiting)
      BY <1>5 DEF FrameSent, TransmitInv, WireIsBusy, Waiting
    <2>2. Waiting' = Waiting \ {txb[wire]}
      BY <1>5, <2>1, WaitingSent DEF FrameSent, TransmitInv
    <2>3. CASE txb[wire] \notin Numbered
      <3>1. Waiting' = Waiting
        BY <2>2, <2>3 DEF Waiting
      <3> QED BY <1>5, <2>3, <3>1 DEF FrameSent, Channel!vars
    <2> SUFFICES ASSUME txb[wire] \in Numbered PROVE Channel!Next
      BY <2>3
    <2>4. Channel!Deliver(txb[wire])
      BY <1>5, <2>1, <2>2 DEF FrameSent, Channel!Deliver
    <2> QED BY <2>1, <2>4 DEF Channel!Next
  <1>6. CASE UNCHANGED vars
    <2>1. Waiting' = Waiting
      BY <1>6, BusUnchanged DEF vars
    <2> QED BY <1>6, <2>1 DEF vars, Channel!vars
  <1> QED BY <1>1, <1>2, <1>3, <1>4, <1>5, <1>6 DEF Next, Driver

(* sendMsg and the chip are the channel: one answer a heartbeat, true when *)
(* it is given, three under way at most, none of them lost, replaced or    *)
(* delivered twice, for any number of polls and heartbeats.                *)
THEOREM SendMsgIsAChannel == Spec => ImplementsChannel
  BY ChannelInit, ChannelStep, InvHolds, PTL DEF Spec, ImplementsChannel, Channel!Spec
=============================================================================

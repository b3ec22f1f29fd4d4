-------------------------- MODULE LoadShareProofs ---------------------------
(***************************************************************************)
(* Theorems about LoadShare, for any set of chargers, of readings and of   *)
(* commands, any bound on the frames of a pass and any values of the       *)
(* #defines that the assumptions admit.                                    *)
(***************************************************************************)
EXTENDS LoadShare, WattLawProofs, FiniteSetTheorems

(* Before attachInterrupt no interrupt is taken and none is latched.       *)
NoInterruptInSetup == ~Attached => flagRecv = 0 /\ ~irq /\ ~armed

(* A drain that found nothing has left the voltage at zero.                *)
EmptyDrainReadsZero == chargerCount = 0 => volts = 0

(* The inductive invariant.  TypeOK alone is not inductive: a read returns *)
(* a frame only because the buffer it chose still holds one, and a current *)
(* is one only because its divisors are above zero.                        *)
IInv == /\ TypeOK
        /\ NoInterruptInSetup
        /\ EmptyDrainReadsZero
        /\ ReadFindsFrame
        /\ NoLostWakeup
        /\ NoTwoEmptyDrains

-----------------------------------------------------------------------------
(* The receive buffers *)

LEMMA AcceptFrame ==
    ASSUME RxTypeOK, NEW f \in Frames
    PROVE  /\ Accept(f) \in [RxBuffers -> Frames \cup {NoFrame}]
           /\ \E i \in RxBuffers : Accept(f)[i] # NoFrame
           /\ \A i \in RxBuffers : rxb[i] # NoFrame => Accept(f)[i] = rxb[i]
  BY NoFrameAssumption DEF Accept, RxTypeOK, RxBuffers

LEMMA SelectFindsFrame ==
    ASSUME RxTypeOK, Pending
    PROVE  SelectBuffer \in RxBuffers /\ rxb[SelectBuffer] # NoFrame
  BY DEF SelectBuffer, Pending, RxTypeOK, RxBuffers

LEMMA AfterReadType ==
    ASSUME RxTypeOK
    PROVE  AfterRead \in [RxBuffers -> Frames \cup {NoFrame}]
  BY DEF AfterRead, RxTypeOK, RxBuffers

(* What the actions that leave the buffers alone keep of them.             *)
LEMMA SameBuffers ==
    ASSUME UNCHANGED rxb
    PROVE  Pending' = Pending
  BY DEF Pending

(* The average of what a drain has summed is a voltage, zero when nothing  *)
(* was read.                                                               *)
LEMMA AverageVoltsType ==
    ASSUME TypeOK
    PROVE  /\ AverageVolts \in UShort
           /\ chargerCount = 0 => AverageVolts = volts
  <1>1. /\ volts \in UShort /\ chargerCount \in Nat /\ USHORT_MOD \in Nat \ {0}
    BY WidthAssumption DEF TypeOK
  <1>2. CASE chargerCount > 1
    <2>1. (volts \div chargerCount) \in Nat /\ (volts \div chargerCount) <= volts
      BY <1>1, <1>2 DEF UShort
    <2> QED BY <1>1, <1>2, <2>1 DEF AverageVolts, UShort
  <1>3. CASE ~(chargerCount > 1)
    BY <1>1, <1>3 DEF AverageVolts
  <1> QED BY <1>2, <1>3

(* What Regulate leaves in the variables it assigns.                       *)
LEMMA RegulateType ==
    ASSUME TypeOK, EmptyDrainReadsZero, Regulate
    PROVE  /\ volts' \in UShort /\ watts' \in ULong /\ chargingAmps' \in UShort
           /\ heartbeat' \in UShort
           /\ volts' = AverageVolts
           /\ watts' > 0 => volts' \in Nat \ {0} /\ chargerCount \in Nat \ {0}
  <1>1. /\ volts' = AverageVolts
        /\ volts' \in UShort
        /\ amps \in UShort /\ watts \in ULong /\ MAX_STATION_WATTS \in ULong
        /\ chargingAmps \in UShort /\ chargerCount \in Nat
    BY AverageVoltsType DEF Regulate, TypeOK
  <1>2. /\ watts' = PassWatts(amps, volts', watts, MAX_STATION_WATTS)
        /\ chargingAmps' = IF watts' > 0
                           THEN ChargingAmps(watts', volts', chargerCount)
                           ELSE chargingAmps
        /\ heartbeat' = chargingAmps'
    BY DEF Regulate
  <1>3. /\ watts' \in ULong
        /\ volts' < OUTPUT_VOLTS_MIN => watts' = 0
    BY <1>1, <1>2, PassWattsType
  <1>4. watts' > 0 => volts' \in Nat \ {0} /\ chargerCount \in Nat \ {0}
    <2> SUFFICES ASSUME watts' > 0
                 PROVE  volts' \in Nat \ {0} /\ chargerCount \in Nat \ {0}
      OBVIOUS
    <2>1. volts' \in Nat /\ OUTPUT_VOLTS_MIN \in Nat \ {0} /\ watts' # 0
      BY <1>1, <1>3, WidthAssumption, LawAssumption DEF UShort, ULong
    <2>2. volts' # 0
      BY <1>3, <2>1
    <2>3. chargerCount # 0
      BY <1>1, <2>2, AverageVoltsType DEF EmptyDrainReadsZero
    <2> QED BY <1>1, <2>1, <2>2, <2>3
  <1>5. chargingAmps' \in UShort
    BY <1>1, <1>2, <1>3, <1>4, ChargingAmpsType
  <1> QED BY <1>1, <1>2, <1>3, <1>4, <1>5

-----------------------------------------------------------------------------
(* The invariant, action by action.  An action that goes from statement to *)
(* statement and touches neither buffers nor signals is dealt with by the  *)
(* definitions; each of the others has a step per conjunct it can disturb. *)

(* What the variables are after power on satisfies the invariant.          *)
LEMMA PowerOnValues ==
    /\ 0 \in UShort /\ 0 \in ULong /\ ULONG_MOD - 1 \in ULong
    /\ HEARTBEAT_CURRENT \in UShort
    /\ FramesPerPass \in 0..FramesPerPass
    /\ EmptyBuffers \in [RxBuffers -> Frames \cup {NoFrame}]
    /\ \A i \in RxBuffers : EmptyBuffers[i] = NoFrame
    /\ 0 \in RxBuffers
  <1>1. 0 \in UShort /\ 0 \in ULong /\ ULONG_MOD - 1 \in ULong
    BY WidthAssumption DEF ULong, UShort
  <1>2. HEARTBEAT_CURRENT \in UShort /\ FramesPerPass \in 0..FramesPerPass
    BY ParameterAssumption
  <1>3. /\ EmptyBuffers \in [RxBuffers -> Frames \cup {NoFrame}]
        /\ \A i \in RxBuffers : EmptyBuffers[i] = NoFrame
    BY DEF EmptyBuffers
  <1> QED BY <1>1, <1>2, <1>3 DEF RxBuffers

LEMMA InitInv == Init => IInv
  <1> SUFFICES ASSUME Init PROVE IInv
    OBVIOUS
  <1>1. TypeOK
    <2>1. quota \in [Chargers -> 0..FramesPerPass]
      BY PowerOnValues DEF Init
    <2>2. RxTypeOK
      BY PowerOnValues DEF Init, RxTypeOK
    <2>3. /\ pc = "get" /\ flagRecv = 0 /\ chargerCount = 0
          /\ irq \in BOOLEAN /\ armed \in BOOLEAN
      BY DEF Init
    <2>4. /\ MAX_STATION_WATTS \in ULong /\ watts \in ULong /\ eeprom \in ULong
          /\ chargingAmps \in UShort /\ volts \in UShort /\ amps \in UShort
          /\ heartbeat \in UShort
      BY PowerOnValues DEF Init
    <2> QED
      BY <2>1, <2>2, <2>3, <2>4 DEF TypeOK
  <1>2. ~Pending
    BY PowerOnValues DEF Init, Pending
  <1> QED
    BY <1>1, <1>2 DEF Init, IInv, NoInterruptInSetup, EmptyDrainReadsZero,
       ReadFindsFrame, NoLostWakeup, NoTwoEmptyDrains, Attached

LEMMA PowerCycleInv == PowerCycle /\ TypeOK => IInv'
  <1> SUFFICES ASSUME PowerCycle, TypeOK PROVE IInv'
    OBVIOUS
  <1>1. TypeOK'
    <2>1. quota' \in [Chargers -> 0..FramesPerPass]
      BY PowerOnValues DEF PowerCycle
    <2>2. RxTypeOK'
      BY PowerOnValues DEF PowerCycle, RxTypeOK
    <2>3. /\ pc' = "get" /\ flagRecv' = 0 /\ chargerCount' = 0
          /\ irq' \in BOOLEAN /\ armed' \in BOOLEAN
      BY DEF PowerCycle
    <2>4. /\ MAX_STATION_WATTS' \in ULong /\ watts' \in ULong /\ eeprom' \in ULong
          /\ chargingAmps' \in UShort /\ volts' \in UShort /\ amps' \in UShort
          /\ heartbeat' \in UShort
      BY PowerOnValues DEF PowerCycle, TypeOK
    <2> QED
      BY <2>1, <2>2, <2>3, <2>4 DEF TypeOK
  <1>2. ~Pending'
    BY PowerOnValues DEF PowerCycle, Pending
  <1> QED
    BY <1>1, <1>2 DEF PowerCycle, IInv, NoInterruptInSetup, EmptyDrainReadsZero,
       ReadFindsFrame, NoLostWakeup, NoTwoEmptyDrains, Attached

LEMMA SetupInv == IInv /\ Setup => IInv'
  <1> SUFFICES ASSUME IInv, Setup PROVE IInv'
    OBVIOUS
  <1> USE DEF IInv, At, Goto, Attached, control, sums, order, signal, target, rxVars
  <1>1. CASE ReadTarget
    <2>1. MAX_STATION_WATTS' \in ULong
      BY <1>1, ParameterAssumption, WidthAssumption DEF ReadTarget, TypeOK, ULong
    <2>2. Pending' = Pending
      BY <1>1, SameBuffers DEF ReadTarget
    <2> QED
      BY <1>1, <2>1, <2>2 DEF ReadTarget, TypeOK, RxTypeOK, NoInterruptInSetup,
         EmptyDrainReadsZero, ReadFindsFrame, NoLostWakeup, NoTwoEmptyDrains
  <1>2. CASE CanBegin
    <2>1. Pending' = Pending
      BY <1>2, SameBuffers DEF CanBegin
    <2> QED
      BY <1>2, <2>1 DEF CanBegin, TypeOK, RxTypeOK, NoInterruptInSetup,
         EmptyDrainReadsZero, ReadFindsFrame, NoLostWakeup, NoTwoEmptyDrains
  <1>3. CASE AttachInterrupt
    <2>1. Pending' = Pending
      BY <1>3, SameBuffers DEF AttachInterrupt
    <2>2. irq' \in BOOLEAN /\ (irq' => Pending) /\ armed' = (Pending => irq')
      BY <1>3 DEF AttachInterrupt
    <2>3. flagRecv = 0 /\ flagRecv' = 0
      BY <1>3 DEF AttachInterrupt, NoInterruptInSetup
    <2>4. TypeOK'
      BY <1>3, <2>2 DEF AttachInterrupt, TypeOK, RxTypeOK
    <2> QED
      BY <1>3, <2>1, <2>2, <2>3, <2>4 DEF AttachInterrupt, NoInterruptInSetup,
         EmptyDrainReadsZero, ReadFindsFrame, NoLostWakeup, NoTwoEmptyDrains, Announced
  <1> QED BY <1>1, <1>2, <1>3 DEF Setup

LEMMA DrainInv == IInv /\ (CheckReceive \/ ReadRxTxStatus \/ ReadMsgBuf) => IInv'
  <1> SUFFICES ASSUME IInv, CheckReceive \/ ReadRxTxStatus \/ ReadMsgBuf PROVE IInv'
    OBVIOUS
  <1> USE DEF IInv, At, Goto, Attached, control, sums, order, signal, target, rxVars
  <1>1. CASE CheckReceive
    <2>1. Pending' = Pending
      BY <1>1, SameBuffers DEF CheckReceive
    <2>2. TypeOK'
      BY <1>1 DEF CheckReceive, TypeOK, RxTypeOK
    <2> QED
      BY <1>1, <2>1, <2>2 DEF CheckReceive, NoInterruptInSetup, EmptyDrainReadsZero,
         ReadFindsFrame, NoLostWakeup, NoTwoEmptyDrains, Announced, Draining
  <1>2. CASE ReadRxTxStatus
    <2>1. Pending' = Pending
      BY <1>2, SameBuffers DEF ReadRxTxStatus
    <2>2. SelectBuffer \in RxBuffers /\ rxb[SelectBuffer] # NoFrame
      BY <1>2, SelectFindsFrame DEF ReadRxTxStatus, ReadFindsFrame, TypeOK
    <2>3. TypeOK'
      BY <1>2, <2>2 DEF ReadRxTxStatus, TypeOK, RxTypeOK
    <2> QED
      BY <1>2, <2>1, <2>2, <2>3 DEF ReadRxTxStatus, NoInterruptInSetup,
         EmptyDrainReadsZero, ReadFindsFrame, NoLostWakeup, NoTwoEmptyDrains,
         Announced, Draining
  <1>3. CASE ReadMsgBuf
    <2> DEFINE frame == rxb[rxSelect]
    <2>1. frame \in Frames
      BY <1>3 DEF ReadMsgBuf, ReadFindsFrame, TypeOK, RxTypeOK
    <2>2. frame.reading.volts \in UShort /\ frame.reading.amps \in UShort
      BY <2>1, ParameterAssumption
    <2>3. volts' = (volts + frame.reading.volts) % USHORT_MOD
          /\ amps' = (amps + frame.reading.amps) % USHORT_MOD
      BY <1>3 DEF ReadMsgBuf
    <2> HIDE DEF frame
    <2>4. volts' \in UShort /\ amps' \in UShort
      <3>1. volts + frame.reading.volts \in Int /\ amps + frame.reading.amps \in Int
        BY <2>2, WidthAssumption DEF TypeOK, UShort
      <3> QED BY <2>3, <3>1, ModRange, WidthAssumption DEF UShort
    <2>5. rxb' \in [RxBuffers -> Frames \cup {NoFrame}]
      BY <1>3, AfterReadType DEF ReadMsgBuf, TypeOK
    <2>6. chargerCount' \in Nat \ {0}
      BY <1>3 DEF ReadMsgBuf, TypeOK
    <2>7. TypeOK'
      BY <1>3, <2>4, <2>5, <2>6 DEF ReadMsgBuf, TypeOK, RxTypeOK, RxBuffers
    <2> QED
      BY <1>3, <2>6, <2>7 DEF ReadMsgBuf, NoInterruptInSetup, EmptyDrainReadsZero,
         ReadFindsFrame, NoLostWakeup, NoTwoEmptyDrains, Announced, Draining
  <1> QED BY <1>1, <1>2, <1>3

LEMMA LoopInv ==
    IInv /\ (NoMoreCommands \/ TakeFlag \/ SkipPass \/ Regulate \/ SendHeartbeat \/ Delay)
      => IInv'
  <1> SUFFICES ASSUME IInv, NoMoreCommands \/ TakeFlag \/ SkipPass \/ Regulate
                            \/ SendHeartbeat \/ Delay
               PROVE  IInv'
    OBVIOUS
  <1> USE DEF IInv, At, Goto, Attached, control, sums, order, signal, target, rxVars
  <1>0. Pending' = Pending
    BY SameBuffers DEF NoMoreCommands, TakeFlag, SkipPass, Regulate, SendHeartbeat, Delay
  <1>1. CASE NoMoreCommands
    BY <1>0, <1>1 DEF NoMoreCommands, TypeOK, RxTypeOK, NoInterruptInSetup,
       EmptyDrainReadsZero, ReadFindsFrame, NoLostWakeup, NoTwoEmptyDrains, Announced, Draining
  <1>2. CASE TakeFlag
    <2>1. TypeOK'
      BY <1>2, WidthAssumption DEF TakeFlag, TypeOK, RxTypeOK, UShort
    <2> QED
      BY <1>0, <1>2, <2>1 DEF TakeFlag, NoInterruptInSetup, EmptyDrainReadsZero,
         ReadFindsFrame, NoLostWakeup, NoTwoEmptyDrains, Announced, Draining
  <1>3. CASE SkipPass
    BY <1>0, <1>3 DEF SkipPass, TypeOK, RxTypeOK, NoInterruptInSetup,
       EmptyDrainReadsZero, ReadFindsFrame, NoLostWakeup, NoTwoEmptyDrains, Announced, Draining
  <1>4. CASE Regulate
    <2>1. /\ volts' \in UShort /\ watts' \in ULong /\ chargingAmps' \in UShort
          /\ heartbeat' \in UShort /\ volts' = AverageVolts
      BY <1>4, RegulateType
    <2>2. TypeOK'
      BY <1>4, <2>1 DEF Regulate, TypeOK, RxTypeOK
    <2>3. EmptyDrainReadsZero'
      BY <1>4, <2>1, AverageVoltsType DEF Regulate, EmptyDrainReadsZero
    <2> QED
      BY <1>0, <1>4, <2>2, <2>3 DEF Regulate, NoInterruptInSetup,
         ReadFindsFrame, NoLostWakeup, NoTwoEmptyDrains, Announced, Draining
  <1>5. CASE SendHeartbeat
    BY <1>0, <1>5, ParameterAssumption DEF SendHeartbeat, TypeOK, RxTypeOK, NoInterruptInSetup,
       EmptyDrainReadsZero, ReadFindsFrame, NoLostWakeup, NoTwoEmptyDrains, Announced, Draining
  <1>6. CASE Delay
    BY <1>0, <1>6 DEF Delay, TypeOK, RxTypeOK, NoInterruptInSetup,
       EmptyDrainReadsZero, ReadFindsFrame, NoLostWakeup, NoTwoEmptyDrains, Announced, Draining
  <1> QED BY <1>1, <1>2, <1>3, <1>4, <1>5, <1>6

LEMMA ReadCommandInv ==
    ASSUME IInv, NEW command \in Commands, ReadCommand(command)
    PROVE  IInv'
  <1> USE DEF IInv, At, Attached, control, sums, order, signal, rxVars
  <1>1. command % ULONG_MOD \in ULong
    BY ModRange, ParameterAssumption, WidthAssumption DEF ULong
  <1>2. /\ MAX_STATION_WATTS' \in ULong /\ eeprom' \in ULong
        /\ Attached
        /\ UNCHANGED <<control, sums, order, signal, quota, rxVars>>
    BY <1>1 DEF ReadCommand
  <1>3. Pending' = Pending
    BY <1>2, SameBuffers
  <1>4. TypeOK'
    BY <1>2 DEF TypeOK, RxTypeOK
  <1>5. ReadFindsFrame'
    BY <1>2, <1>3 DEF ReadFindsFrame
  <1> QED
    BY <1>2, <1>3, <1>4, <1>5 DEF NoInterruptInSetup, EmptyDrainReadsZero,
       NoLostWakeup, NoTwoEmptyDrains, Announced, Draining

LEMMA InterruptInv == IInv /\ MCP2515_ISR => IInv'
  <1> SUFFICES ASSUME IInv, MCP2515_ISR PROVE IInv'
    OBVIOUS
  <1> USE DEF IInv, Attached, control, sums, order, target, rxVars
  <1>1. Pending' = Pending
    BY SameBuffers DEF MCP2515_ISR
  <1>2. TypeOK'
    <2>1. irq' \in BOOLEAN
      BY Zenon DEF MCP2515_ISR
    <2>2. flagRecv' \in 0..1
      BY DEF MCP2515_ISR
    <2>3. UNCHANGED <<control, sums, order, target, quota, rxVars>>
      BY DEF MCP2515_ISR
    <2> QED
      BY <2>1, <2>2, <2>3 DEF TypeOK, RxTypeOK
  <1>3. NoInterruptInSetup' /\ EmptyDrainReadsZero'
    BY DEF MCP2515_ISR, NoInterruptInSetup, EmptyDrainReadsZero
  <1>4. ReadFindsFrame'
    BY <1>1 DEF MCP2515_ISR, ReadFindsFrame
  <1>5. NoLostWakeup' /\ NoTwoEmptyDrains'
    BY <1>1 DEF MCP2515_ISR, NoLostWakeup, NoTwoEmptyDrains, Announced
  <1> QED
    BY <1>2, <1>3, <1>4, <1>5

LEMMA FrameArrivesInv ==
    ASSUME IInv, NEW f \in Frames, FrameArrives(f)
    PROVE  IInv'
  <1> USE DEF IInv, Attached, control, sums, order, target
  <1>1. /\ rxb' \in [RxBuffers -> Frames \cup {NoFrame}]
        /\ Pending'
        /\ \A i \in RxBuffers : rxb[i] # NoFrame => rxb'[i] = rxb[i]
    BY AcceptFrame DEF FrameArrives, TypeOK, Pending
  <1>2. f.from \in Chargers
    BY ParameterAssumption
  <1>3. quota' \in [Chargers -> 0..FramesPerPass]
    BY <1>2, ParameterAssumption DEF FrameArrives, TypeOK
  <1>4. TypeOK'
    BY <1>1, <1>3 DEF FrameArrives, TypeOK, RxTypeOK
  <1>5. ReadFindsFrame'
    BY <1>1 DEF FrameArrives, ReadFindsFrame, TypeOK, RxTypeOK
  <1>6. NoInterruptInSetup'
    BY DEF FrameArrives, NoInterruptInSetup, Listening
  <1>7. NoLostWakeup'
    BY DEF FrameArrives, NoLostWakeup, NoInterruptInSetup, Announced, Draining
  <1> QED
    BY <1>1, <1>4, <1>5, <1>6, <1>7 DEF FrameArrives, EmptyDrainReadsZero, NoTwoEmptyDrains

LEMMA StepInv == IInv /\ [Next]_vars => IInv'
  <1> SUFFICES ASSUME IInv, [Next]_vars PROVE IInv'
    OBVIOUS
  <1>1. CASE Setup
    BY <1>1, SetupInv
  <1>2. CASE Loop
    BY <1>2, DrainInv, LoopInv DEF Loop
  <1>3. CASE MCP2515_ISR
    BY <1>3, InterruptInv
  <1>4. CASE \E command \in Commands : ReadCommand(command)
    BY <1>4, ReadCommandInv
  <1>5. CASE \E f \in Frames : FrameArrives(f)
    BY <1>5, FrameArrivesInv
  <1>6. CASE PowerCycle
    BY <1>6, PowerCycleInv DEF IInv
  <1>7. CASE UNCHANGED vars
    <2>1. Pending' = Pending
      BY <1>7, SameBuffers DEF vars, rxVars
    <2> QED
      BY <1>7, <2>1 DEF vars, control, sums, order, signal, target, rxVars, IInv, TypeOK,
         RxTypeOK, NoInterruptInSetup, EmptyDrainReadsZero, ReadFindsFrame, NoLostWakeup,
         NoTwoEmptyDrains, Announced, Draining, Attached
  <1> QED
    BY <1>1, <1>2, <1>3, <1>4, <1>5, <1>6, <1>7 DEF Next, Environment

LEMMA Invariance == Spec => []IInv
  BY InitInv, StepInv, PTL DEF Spec

-----------------------------------------------------------------------------
(* Every variable keeps to its C type, whatever readings and commands come *)
(* in: no sum, product, ramp, clamp or share leaves its width, and no      *)
(* division is by zero.                                                    *)
THEOREM TypeCorrect == Spec => []TypeOK
  BY Invariance, PTL DEF IInv

(* The interrupt protocol loses no wake-up: with any number of chargers, a *)
(* frame waits unannounced only in a sketch that was deaf from the start.  *)
THEOREM WakeupsKept == Spec => []NoLostWakeup
  BY Invariance, PTL DEF IInv

(* No two passes running drop the wattage for want of a frame to read.     *)
THEOREM EmptyDrainsApart == Spec => []NoTwoEmptyDrains
  BY Invariance, PTL DEF IInv

(* No read of a receive buffer returns anything but a frame.               *)
THEOREM ReadsFindFrames == Spec => []ReadFindsFrame
  BY Invariance, PTL DEF IInv

LEMMA DivisorsFromInv ==
    ASSUME IInv
    PROVE  DivisorsPositive
  <1> SUFFICES ASSUME pc = "regulate", AverageVolts >= OUTPUT_VOLTS_MIN
               PROVE  chargerCount > 0 /\ AverageVolts > 0
    BY DEF DivisorsPositive
  <1>1. OUTPUT_VOLTS_MIN \in Nat \ {0} /\ AverageVolts \in Nat
    BY AverageVoltsType, LawAssumption, WidthAssumption DEF IInv, UShort
  <1>2. AverageVolts > 0
    BY <1>1
  <1>3. chargerCount \in Nat /\ chargerCount # 0
    BY <1>2, AverageVoltsType DEF IInv, TypeOK, EmptyDrainReadsZero
  <1> QED BY <1>2, <1>3

(* setChargingAmps divides by no zero.                                     *)
THEOREM DivisorsArePositive == Spec => []DivisorsPositive
  BY DivisorsFromInv, Invariance, PTL

(* Nothing but a power cycle ends the state of a sketch that has missed    *)
(* the edge.                                                               *)
LEMMA DeafStep ==
    ASSUME IInv, [Next]_vars, Deaf, pc' # "get"
    PROVE  Deaf'
  <1> USE DEF At, Goto, control, sums, order, signal, target, rxVars
  <1>0. Attached /\ Pending /\ ~irq /\ flagRecv # 1 /\ pc \notin {"drain", "select", "read"}
    BY DEF Deaf, Announced, Draining
  <1>1. CASE UNCHANGED rxb
    <2>1. Pending'
      BY <1>0, <1>1, SameBuffers
    <2>2. ~Setup
      BY <1>0 DEF Setup, ReadTarget, CanBegin, AttachInterrupt, Attached
    <2>3. CASE Loop
      BY <1>0, <2>1, <2>3 DEF Loop, NoMoreCommands, TakeFlag, SkipPass, CheckReceive,
         ReadRxTxStatus, ReadMsgBuf, Regulate, SendHeartbeat, Delay,
         Deaf, Announced, Draining, Attached
    <2>4. ~MCP2515_ISR
      BY <1>0 DEF MCP2515_ISR
    <2>5. ASSUME NEW command \in Commands, ReadCommand(command) PROVE Deaf'
      <3>1. UNCHANGED <<pc, irq, flagRecv>>
        BY <2>5 DEF ReadCommand
      <3> QED BY <1>0, <2>1, <3>1 DEF Deaf, Announced, Draining, Attached
    <2>6. ASSUME NEW f \in Frames, FrameArrives(f) PROVE Deaf'
      BY <1>0, <2>1, <2>6 DEF FrameArrives, Deaf, Announced, Draining, Attached
    <2>7. ~PowerCycle
      BY DEF PowerCycle
    <2>8. CASE UNCHANGED vars
      BY <1>0, <2>1, <2>8 DEF vars, Deaf, Announced, Draining, Attached
    <2> QED
      BY <2>2, <2>3, <2>4, <2>5, <2>6, <2>7, <2>8 DEF Next, Environment
  <1>2. CASE ~UNCHANGED rxb
    <2>1. ~ReadMsgBuf /\ ~PowerCycle
      BY <1>0 DEF ReadMsgBuf, PowerCycle
    <2>2. PICK f \in Frames : FrameArrives(f)
      BY <1>2, <2>1 DEF Next, Setup, Loop, Environment, ReadTarget, CanBegin,
         AttachInterrupt, NoMoreCommands, TakeFlag, SkipPass, CheckReceive, ReadRxTxStatus,
         Regulate, SendHeartbeat, Delay, MCP2515_ISR, ReadCommand, vars
    <2>3. Pending'
      BY <2>2, AcceptFrame DEF FrameArrives, Pending, IInv, TypeOK
    <2>4. UNCHANGED <<pc, flagRecv>> /\ ~irq'
      BY <1>0, <2>2 DEF FrameArrives
    <2> QED BY <1>0, <2>3, <2>4 DEF Deaf, Announced, Draining, Attached
  <1> QED BY <1>1, <1>2

(* A sketch that has missed the edge never reads another frame: the        *)
(* interrupt edge is the only thing that makes loop look at the buffers.   *)
THEOREM DeafStaysDeaf == Spec => DeafForever
  <1>1. IInv /\ [Next]_vars => [Deaf => Deaf' \/ pc' = "get"]_vars
    BY DeafStep
  <1> QED BY <1>1, Invariance, PTL DEF Spec, DeafForever
-----------------------------------------------------------------------------
(* The safety part of the refinement: every behaviour of LoadShare is one  *)
(* of ChargerMailbox, step by step, for any chargers and readings.  That   *)
(* the mailbox is not left alone is fairness and is left to TLC.           *)

(* What the mapping needs beyond IInv: a sketch whose interrupt was        *)
(* attached too late is deaf, so that frames are taken only out of a box   *)
(* that is attended.                                                       *)
LateIsDeaf == Attached /\ ~armed => Deaf

RInv == IInv /\ LateIsDeaf

(* How many buffers hold g, when b is what they hold.                      *)
Copied(b, g) == Cardinality({i \in RxBuffers : b[i] = g})

-----------------------------------------------------------------------------
LEMMA CopiedInTwo ==
    ASSUME NEW b, NEW g
    PROVE  Copied(b, g) = (IF b[0] = g THEN 1 ELSE 0) + (IF b[1] = g THEN 1 ELSE 0)
  <1> DEFINE S == {i \in RxBuffers : b[i] = g}
  <1>0. RxBuffers = {0, 1}
    BY DEF RxBuffers
  <1>1. /\ Cardinality({0}) = 1 /\ Cardinality({1}) = 1 /\ Cardinality({}) = 0
    BY FS_Singleton, FS_EmptySet
  <1>2. Cardinality({0, 1}) = 2
    <2>1. IsFiniteSet({0}) /\ 1 \notin {0} /\ {0, 1} = {0} \cup {1}
      BY FS_Singleton
    <2> QED BY <1>1, <2>1, FS_AddElement
  <1>3. CASE b[0] = g /\ b[1] = g
    <2>1. S = {0, 1}
      BY <1>0, <1>3
    <2> QED BY <1>2, <1>3, <2>1 DEF Copied
  <1>4. CASE b[0] = g /\ b[1] # g
    <2>1. S = {0}
      BY <1>0, <1>4
    <2> QED BY <1>1, <1>4, <2>1 DEF Copied
  <1>5. CASE b[0] # g /\ b[1] = g
    <2>1. S = {1}
      BY <1>0, <1>5
    <2> QED BY <1>1, <1>5, <2>1 DEF Copied
  <1>6. CASE b[0] # g /\ b[1] # g
    <2>1. S = {}
      BY <1>0, <1>6
    <2> QED BY <1>1, <1>6, <2>1 DEF Copied
  <1> QED BY <1>3, <1>4, <1>5, <1>6

(* The box of two frames.                                                  *)
LEMMA TwoBuffers == Cardinality(RxBuffers) = 2
  <1>1. IsFiniteSet({0}) /\ Cardinality({0}) = 1
    BY FS_Singleton
  <1>2. 1 \notin {0} /\ RxBuffers = {0} \cup {1}
    BY DEF RxBuffers
  <1> QED BY <1>1, <1>2, FS_AddElement

(* While a buffer is free there is room in the box.                        *)
LEMMA RoomInTheBox ==
    ASSUME RxTypeOK, rxb[0] = NoFrame \/ rxb[1] = NoFrame
    PROVE  Mailbox!Occupancy < Cardinality(RxBuffers)
  <1> DEFINE W == [f \in Frames |-> Cardinality({i \in RxBuffers : rxb[i] = f})]
             C == {copy \in Frames \X (1..Cardinality(RxBuffers)) : copy[2] <= W[copy[1]]}
  <1>0. Mailbox!Copies = C
    BY DEF Mailbox!Copies
  <1>1. Mailbox!Occupancy = Cardinality(C)
    <2>1. Mailbox!Cardinality(C) = Cardinality(C)
      BY Zenon DEF Mailbox!Cardinality, Cardinality
    <2> QED BY <1>0, <2>1 DEF Mailbox!Occupancy
  <1>2. PICK g : \A i \in RxBuffers : rxb[i] # NoFrame => rxb[i] = g
    BY DEF RxBuffers
  <1>3. \A f \in Frames : /\ W[f] \in 0..1
                          /\ W[f] = 1 => f = g
    <2> SUFFICES ASSUME NEW f \in Frames
                 PROVE  W[f] \in 0..1 /\ (W[f] = 1 => f = g)
      OBVIOUS
    <2>1. W[f] = (IF rxb[0] = f THEN 1 ELSE 0) + (IF rxb[1] = f THEN 1 ELSE 0)
      BY CopiedInTwo DEF Copied
    <2>2. f # NoFrame
      BY NoFrameAssumption
    <2> HIDE DEF W
    <2> QED BY <1>2, <2>1, <2>2 DEF RxBuffers
  <1> HIDE DEF W
  <1>4. C = {} \/ C = {<<g, 1>>}
    <2>1. \A copy \in C : copy = <<g, 1>>
      <3> SUFFICES ASSUME NEW copy \in C PROVE copy = <<g, 1>>
        OBVIOUS
      <3>1. PICK f \in Frames, n \in 1..2 : copy = <<f, n>> /\ n <= W[f]
        BY TwoBuffers
      <3> QED BY <1>3, <3>1
    <2> QED BY <2>1
  <1> HIDE DEF C
  <1>5. Cardinality({}) = 0 /\ Cardinality({<<g, 1>>}) = 1
    BY FS_EmptySet, FS_Singleton
  <1>6. Cardinality(C) = 0 \/ Cardinality(C) = 1
    BY <1>4, <1>5
  <1> QED BY <1>1, <1>6, TwoBuffers

-----------------------------------------------------------------------------
(* The invariant *)

LEMMA LateInit == Init => LateIsDeaf
  BY DEF Init, LateIsDeaf, Attached

LEMMA LateStep ==
    ASSUME RInv, [Next]_vars
    PROVE  LateIsDeaf'
  <1> SUFFICES ASSUME Attached', ~armed' PROVE Deaf'
    BY DEF LateIsDeaf
  <1>1. pc' # "get"
    BY DEF Attached
  <1>2. CASE Attached
    <2>1. ~armed
      <3>1. UNCHANGED armed \/ AttachInterrupt \/ PowerCycle
        BY DEF Next, Setup, Loop, Environment, ReadTarget, CanBegin,
           NoMoreCommands, TakeFlag, SkipPass, CheckReceive, ReadRxTxStatus, ReadMsgBuf,
           Regulate, SendHeartbeat, Delay, MCP2515_ISR, ReadCommand, FrameArrives, vars, control
      <3> QED BY <1>1, <1>2, <3>1 DEF AttachInterrupt, PowerCycle, Attached, Goto, At
    <2>2. Deaf
      BY <1>2, <2>1 DEF RInv, LateIsDeaf
    <2> QED BY <1>1, <2>2, DeafStep DEF RInv
  <1>3. CASE ~Attached
    <2>1. AttachInterrupt
      BY <1>3 DEF Next, Setup, Loop, Environment, ReadTarget, CanBegin,
         NoMoreCommands, TakeFlag, SkipPass, CheckReceive, ReadRxTxStatus, ReadMsgBuf,
         Regulate, SendHeartbeat, Delay, MCP2515_ISR, ReadCommand, FrameArrives, PowerCycle,
         vars, control, Goto, At, Attached
    <2>2. flagRecv = 0
      BY <1>3 DEF RInv, IInv, NoInterruptInSetup
    <2>3. Pending /\ ~irq' /\ flagRecv' = 0 /\ pc' = "commands" /\ UNCHANGED rxb
      BY <2>1, <2>2 DEF AttachInterrupt, Goto, rxVars
    <2>4. Pending'
      BY <2>3, SameBuffers
    <2> QED BY <2>3, <2>4 DEF Deaf, Announced, Draining, Attached
  <1> QED BY <1>2, <1>3

-----------------------------------------------------------------------------
(* The steps *)

LEMMA MailboxInit == Init => Mailbox!Init
  <1> SUFFICES ASSUME Init PROVE Mailbox!Init
    OBVIOUS
  <1>1. rxb[0] = NoFrame /\ rxb[1] = NoFrame /\ armed = FALSE
    BY DEF Init, EmptyBuffers, RxBuffers
  <1>2. \A f \in Frames : Copied(rxb, f) = 0
    BY <1>1, CopiedInTwo, NoFrameAssumption
  <1> QED BY <1>1, <1>2 DEF Mailbox!Init, Mailbox!Empty, Copied

(* A frame that arrives is delivered, or finds the box full and is lost.   *)
LEMMA ArrivalDelivers ==
    ASSUME RInv, NEW f \in Frames, FrameArrives(f)
    PROVE  Mailbox!Deliver(f) \/ UNCHANGED Mailbox!vars
  <1>1. rxb' = Accept(f) /\ UNCHANGED armed /\ f # NoFrame
    BY NoFrameAssumption DEF FrameArrives, control
  <1>2. CASE rxb[0] # NoFrame /\ rxb[1] # NoFrame
    <2>1. UNCHANGED rxb
      BY <1>1, <1>2 DEF Accept
    <2> QED BY <1>1, <2>1 DEF Mailbox!vars
  <1>3. CASE rxb[0] = NoFrame \/ rxb[1] = NoFrame
    <2>1. RxTypeOK
      BY DEF RInv, IInv, TypeOK
    <2>2. Mailbox!Occupancy < Cardinality(RxBuffers)
      BY <1>3, <2>1, RoomInTheBox
    <2>3. \/ rxb[0] = NoFrame /\ rxb'[0] = f /\ rxb'[1] = rxb[1]
          \/ rxb[1] = NoFrame /\ rxb'[1] = f /\ rxb'[0] = rxb[0]
      BY <1>1, <1>3, <2>1 DEF Accept, RxTypeOK, RxBuffers
    <2>4. \A g \in Frames : Copied(rxb', g) = IF g = f THEN Copied(rxb, g) + 1
                                                       ELSE Copied(rxb, g)
      BY <1>1, <2>3, CopiedInTwo, NoFrameAssumption
    <2>5. [g \in Frames |-> Copied(rxb', g)]
             = [[g \in Frames |-> Copied(rxb, g)] EXCEPT ![f] = @ + 1]
      BY <2>4
    <2> QED BY <1>1, <2>2, <2>5 DEF Mailbox!Deliver, Copied
  <1> QED BY <1>2, <1>3

(* The read of a buffer takes the frame that was in it, once.              *)
LEMMA ReadTakes ==
    ASSUME RInv, ReadMsgBuf
    PROVE  \E f \in Frames : Mailbox!Take(f)
  <1> DEFINE f == rxb[rxSelect]
  <1>1. /\ rxb' = AfterRead /\ UNCHANGED armed /\ pc = "read"
        /\ rxSelect \in RxBuffers /\ RxTypeOK
    BY DEF ReadMsgBuf, Goto, At, RInv, IInv, TypeOK, RxTypeOK
  <1>2. f # NoFrame /\ f \in Frames
    BY <1>1 DEF RInv, IInv, ReadFindsFrame, RxTypeOK
  <1>3. armed
    BY <1>1 DEF RInv, LateIsDeaf, Deaf, Announced, Draining, Attached
  <1>4. \/ rxSelect = 0 /\ rxb'[0] = NoFrame /\ rxb'[1] = rxb[1] /\ rxb[0] = f
        \/ rxSelect = 1 /\ rxb'[1] = NoFrame /\ rxb'[0] = rxb[0] /\ rxb[1] = f
    BY <1>1 DEF AfterRead, RxTypeOK, RxBuffers
  <1> HIDE DEF f
  <1>5. \A g \in Frames : Copied(rxb', g) = IF g = f THEN Copied(rxb, g) - 1
                                                     ELSE Copied(rxb, g)
    BY <1>2, <1>4, CopiedInTwo, NoFrameAssumption
  <1>6. Copied(rxb, f) > 0
    BY <1>4, CopiedInTwo
  <1>7. [g \in Frames |-> Copied(rxb', g)]
           = [[g \in Frames |-> Copied(rxb, g)] EXCEPT ![f] = @ - 1]
    BY <1>2, <1>5
  <1>8. Mailbox!Take(f)
    BY <1>1, <1>2, <1>3, <1>6, <1>7 DEF Mailbox!Take, Copied
  <1> QED BY <1>2, <1>8

(* Every step of LoadShare is one of the mailbox, or none.                 *)
LEMMA MailboxStep ==
    ASSUME RInv, [Next]_vars
    PROVE  [Mailbox!Next]_Mailbox!vars
  <1>1. CASE UNCHANGED <<rxb, armed>>
    BY <1>1 DEF Mailbox!vars
  <1>2. CASE AttachInterrupt
    <2>1. UNCHANGED rxb /\ ~armed /\ armed' \in BOOLEAN
      <3>1. UNCHANGED rxb /\ armed' = (Pending => irq')
        BY <1>2 DEF AttachInterrupt, rxVars
      <3>2. ~armed
        BY <1>2 DEF AttachInterrupt, Goto, At, RInv, IInv, NoInterruptInSetup, Attached
      <3>3. armed' \in BOOLEAN
        BY <3>1, Zenon
      <3> QED BY <3>1, <3>2, <3>3
    <2>2. CASE armed' = TRUE
      BY <2>1, <2>2 DEF Mailbox!Attend, Mailbox!Next
    <2>3. CASE armed' = FALSE
      <3>1. armed = FALSE
        BY <2>1 DEF RInv, IInv, TypeOK
      <3> QED BY <1>1, <2>1, <2>3, <3>1
    <2> QED BY <2>1, <2>2, <2>3
  <1>3. CASE PowerCycle
    <2>1. rxb'[0] = NoFrame /\ rxb'[1] = NoFrame /\ armed' = FALSE
      BY <1>3 DEF PowerCycle, EmptyBuffers, RxBuffers
    <2>2. \A f \in Frames : Copied(rxb', f) = 0
      BY <2>1, CopiedInTwo, NoFrameAssumption
    <2>3. Mailbox!Reset
      BY <2>1, <2>2 DEF Mailbox!Reset, Mailbox!Empty, Copied
    <2> QED BY <2>3 DEF Mailbox!Next
  <1>4. CASE ReadMsgBuf
    BY <1>4, ReadTakes DEF Mailbox!Next
  <1>5. ASSUME NEW f \in Frames, FrameArrives(f)
        PROVE  [Mailbox!Next]_Mailbox!vars
    BY <1>5, ArrivalDelivers DEF Mailbox!Next
  <1>6. \/ UNCHANGED <<rxb, armed>> \/ AttachInterrupt \/ PowerCycle \/ ReadMsgBuf
        \/ \E f \in Frames : FrameArrives(f)
    BY DEF Next, Setup, Loop, Environment, ReadTarget, CanBegin,
       NoMoreCommands, TakeFlag, SkipPass, CheckReceive, ReadRxTxStatus,
       Regulate, SendHeartbeat, Delay, MCP2515_ISR, ReadCommand, vars, control, rxVars
  <1> QED BY <1>1, <1>2, <1>3, <1>4, <1>5, <1>6

-----------------------------------------------------------------------------
(* The buffers, the interrupt and the drain of loop and mcp_can.cpp are a  *)
(* box of two frames: a frame is lost only when both buffers are full, and *)
(* what is read was sent, once, and is read only by a sketch that attends. *)
THEOREM BuffersAreAMailbox == Spec => Mailbox!Init /\ [][Mailbox!Next]_Mailbox!vars
  <1>1. Init => RInv
    BY InitInv, LateInit DEF RInv
  <1>2. RInv /\ [Next]_vars => RInv'
    BY StepInv, LateStep DEF RInv
  <1>3. RInv /\ [Next]_vars => [Mailbox!Next]_Mailbox!vars
    BY MailboxStep
  <1> QED
    BY <1>1, <1>2, <1>3, MailboxInit, PTL DEF Spec
=============================================================================

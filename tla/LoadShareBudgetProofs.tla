----------------------- MODULE LoadShareBudgetProofs ------------------------
(***************************************************************************)
(* The budget of the station, kept pass by pass, and the current asked for *)
(* in it, for any chargers and readings and for any targets the sketch's   *)
(* unsigned arithmetic has room for.  A target under the 12 V supply is    *)
(* none: the subtraction wraps, as the run zero_target shows.              *)
(***************************************************************************)
EXTENDS LoadShareProofs

(* What is commanded, what setup falls back on and the widths of the       *)
(* types; the values of the source satisfy it for commands between 76 W    *)
(* and 42 MW.                                                              *)
SaneTargets ==
    /\ \A command \in Commands : SaneTarget(command)
    /\ SaneTarget(STATION_WATTS_DEFAULT)
    /\ WATTAGE_MAX_UNSET < ULONG_MOD - 1
    /\ UINT_MOD + MAX_12V_WATTS + RAMP_RATE <= ULONG_MOD

(* The strengthening BudgetKept needs: the target in force is sane once it *)
(* is restored, because what the EEPROM has is either sane or erased, and  *)
(* the wattage of the last pass leaves room for a ramp step.               *)
BudgetInv == /\ eeprom = ULONG_MOD - 1 \/ SaneTarget(eeprom)
             /\ pc # "get" => SaneTarget(MAX_STATION_WATTS)
             /\ SaneWatts(watts)

-----------------------------------------------------------------------------
(* Only Regulate leads from "regulate" to "send".                          *)
LEMMA OnlyRegulate ==
    ASSUME [Next]_vars, pc = "regulate", pc' = "send"
    PROVE  Regulate
  <1>1. ASSUME Setup PROVE FALSE
    BY <1>1 DEF Setup, ReadTarget, CanBegin, AttachInterrupt, Goto, At
  <1>2. ASSUME Loop PROVE Regulate
    BY <1>2 DEF Loop, NoMoreCommands, TakeFlag, SkipPass, CheckReceive, ReadRxTxStatus,
       ReadMsgBuf, SendHeartbeat, Delay, Goto, At
  <1>3. ASSUME MCP2515_ISR PROVE FALSE
    BY <1>3 DEF MCP2515_ISR, control
  <1>4. ASSUME NEW command \in Commands, ReadCommand(command) PROVE FALSE
    BY <1>4 DEF ReadCommand, control
  <1>5. ASSUME NEW f \in Frames, FrameArrives(f) PROVE FALSE
    BY <1>5 DEF FrameArrives, control
  <1>6. ASSUME PowerCycle PROVE FALSE
    BY <1>6 DEF PowerCycle
  <1>7. ASSUME UNCHANGED vars PROVE FALSE
    BY <1>7 DEF vars, control
  <1> QED
    BY <1>1, <1>2, <1>3, <1>4, <1>5, <1>6, <1>7 DEF Next, Environment

(* One pass under a sane target.                                           *)
LEMMA RegulateBudget ==
    ASSUME IInv, BudgetInv, SaneTargets, Regulate
    PROVE  /\ SaneWatts(watts')
           /\ watts' + MAX_12V_WATTS < MAX_STATION_WATTS + RAMP_RATE
           /\ ~WithinBudget(watts) => watts' + MAX_12V_WATTS <= MAX_STATION_WATTS
           /\ watts' <= Held(Measured(amps, volts'), watts) + RAMP_RATE
           /\ OverCutback(volts', Held(Measured(amps, volts'), watts)) =>
                 watts' <= Held(Measured(amps, volts'), watts)
  <1>1. /\ volts' \in UShort /\ amps \in UShort
        /\ watts' = PassWatts(amps, volts', watts, MAX_STATION_WATTS)
    BY RegulateType DEF Regulate, IInv, TypeOK
  <1>2. /\ SaneTarget(MAX_STATION_WATTS) /\ SaneWatts(watts)
        /\ UINT_MOD + MAX_12V_WATTS + RAMP_RATE <= ULONG_MOD
    BY DEF BudgetInv, SaneTargets, Regulate, Goto, At
  <1>3. /\ watts' \in ULong
        /\ watts' <= Held(Measured(amps, volts'), watts) + RAMP_RATE
        /\ OverCutback(volts', Held(Measured(amps, volts'), watts)) =>
              watts' <= Held(Measured(amps, volts'), watts)
        /\ watts' + MAX_12V_WATTS < MAX_STATION_WATTS + RAMP_RATE
        /\ watts + MAX_12V_WATTS > MAX_STATION_WATTS =>
              watts' + MAX_12V_WATTS <= MAX_STATION_WATTS
    BY <1>1, <1>2, PassWattsBudget
  <1>4. /\ watts' \in Nat /\ watts \in Nat /\ MAX_STATION_WATTS \in Nat
        /\ MAX_12V_WATTS \in Nat /\ RAMP_RATE \in Nat /\ ULONG_MOD \in Nat
        /\ MAX_STATION_WATTS + RAMP_RATE + RAMP_RATE <= ULONG_MOD
    BY <1>2, <1>3, WidthAssumption, LawAssumption DEF SaneTarget, SaneWatts, ULong
  <1>5. SaneWatts(watts')
    <2>1. watts' + MAX_12V_WATTS < MAX_STATION_WATTS + RAMP_RATE
      BY <1>3
    <2>2. \A w, m, r, s, u \in Nat :
            w + m < s + r /\ s + r + r <= u => w + m + r < u
      OBVIOUS
    <2>3. watts' + MAX_12V_WATTS + RAMP_RATE < ULONG_MOD
      BY <1>4, <2>1, <2>2
    <2> QED BY <1>4, <2>3 DEF SaneWatts
  <1>6. ~WithinBudget(watts) => watts + MAX_12V_WATTS > MAX_STATION_WATTS
    BY <1>4 DEF WithinBudget
  <1> QED
    BY <1>3, <1>5, <1>6

LEMMA BudgetInit ==
    ASSUME SaneTargets, Init
    PROVE  BudgetInv
  <1>1. SaneWatts(0)
    BY WidthAssumption, LawAssumption DEF SaneTargets, SaneWatts
  <1> QED
    BY <1>1 DEF Init, BudgetInv

LEMMA BudgetStep ==
    ASSUME SaneTargets, IInv, BudgetInv, [Next]_vars
    PROVE  BudgetInv'
  <1> USE DEF control, sums, order, signal, target
  <1>1. CASE ReadTarget
    <2>1. MAX_STATION_WATTS' = IF eeprom > WATTAGE_MAX_UNSET
                               THEN STATION_WATTS_DEFAULT
                               ELSE eeprom
      BY <1>1 DEF ReadTarget
    <2>2. SaneTarget(MAX_STATION_WATTS')
      <3>1. CASE eeprom = ULONG_MOD - 1
        <4>1. eeprom > WATTAGE_MAX_UNSET
          BY <3>1, WidthAssumption, ParameterAssumption DEF SaneTargets, ULong
        <4> QED BY <2>1, <4>1 DEF SaneTargets
      <3>2. CASE SaneTarget(eeprom)
        BY <2>1, <3>2 DEF SaneTargets
      <3> QED BY <3>1, <3>2 DEF BudgetInv
    <2> QED
      BY <1>1, <2>2 DEF ReadTarget, BudgetInv
  <1>2. CASE CanBegin \/ AttachInterrupt
    BY <1>2 DEF CanBegin, AttachInterrupt, Goto, At, BudgetInv
  <1>3. CASE Regulate
    <2>1. SaneWatts(watts')
      BY <1>3, RegulateBudget
    <2> QED
      BY <1>3, <2>1 DEF Regulate, Goto, At, BudgetInv
  <1>4. CASE NoMoreCommands \/ TakeFlag \/ SkipPass \/ SendHeartbeat \/ Delay
    BY <1>4 DEF NoMoreCommands, TakeFlag, SkipPass, SendHeartbeat, Delay, Goto, At, BudgetInv
  <1>5. CASE CheckReceive \/ ReadRxTxStatus
    BY <1>5 DEF CheckReceive, ReadRxTxStatus, Goto, At, BudgetInv
  <1>6. CASE ReadMsgBuf
    <2>1. UNCHANGED <<order, target>> /\ pc = "read"
      BY <1>6 DEF ReadMsgBuf, Goto, At
    <2> QED BY <2>1 DEF BudgetInv
  <1>7. CASE MCP2515_ISR
    BY <1>7 DEF MCP2515_ISR, BudgetInv
  <1>8. ASSUME NEW command \in Commands, ReadCommand(command)
        PROVE  BudgetInv'
    <2>1. SaneTarget(command)
      BY <1>8 DEF SaneTargets
    <2>2. command \in Nat /\ command < ULONG_MOD
      BY <2>1, LawAssumption, WidthAssumption DEF SaneTarget
    <2>3. command % ULONG_MOD = command
      BY <2>2, ModSmall, WidthAssumption
    <2>4. /\ MAX_STATION_WATTS' = command /\ eeprom' = command
          /\ UNCHANGED <<control, order>>
      BY <1>8, <2>3 DEF ReadCommand
    <2> QED
      BY <2>1, <2>4 DEF BudgetInv
  <1>9. ASSUME NEW f \in Frames, FrameArrives(f)
        PROVE  BudgetInv'
    BY <1>9 DEF FrameArrives, BudgetInv
  <1>10. CASE PowerCycle
    <2>1. SaneWatts(0)
      BY WidthAssumption, LawAssumption DEF SaneTargets, SaneWatts
    <2>2. watts' = 0 /\ pc' = "get" /\ UNCHANGED eeprom
      BY <1>10 DEF PowerCycle
    <2> QED
      BY <2>1, <2>2 DEF BudgetInv
  <1>11. CASE UNCHANGED vars
    BY <1>11 DEF vars, BudgetInv
  <1> QED
    BY <1>1, <1>2, <1>3, <1>4, <1>5, <1>6, <1>7, <1>8, <1>9, <1>10, <1>11
    DEF Next, Setup, Loop, Environment

-----------------------------------------------------------------------------
(* Under sane targets a pass never asks for as much as a ramp step over    *)
(* the station's budget, and a wattage over it is back under it in one     *)
(* pass: loop, the clamp to MAX_STATION_WATTS.                             *)
THEOREM BudgetIsKept ==
    ASSUME SaneTargets
    PROVE  Spec => BudgetKept
  <1>1. Init => IInv /\ BudgetInv
    BY InitInv, BudgetInit
  <1>2. IInv /\ BudgetInv /\ [Next]_vars => (IInv /\ BudgetInv)'
    BY StepInv, BudgetStep
  <1>3. IInv /\ BudgetInv /\ [Next]_vars =>
          [ pc = "regulate" /\ pc' = "send" =>
              /\ watts' + MAX_12V_WATTS < MAX_STATION_WATTS + RAMP_RATE
              /\ ~WithinBudget(watts) => WithinBudget(watts') ]_vars
    <2> SUFFICES ASSUME IInv, BudgetInv, [Next]_vars, pc = "regulate", pc' = "send"
                 PROVE  /\ watts' + MAX_12V_WATTS < MAX_STATION_WATTS + RAMP_RATE
                        /\ ~WithinBudget(watts) => WithinBudget(watts')
      OBVIOUS
    <2>1. Regulate
      BY OnlyRegulate
    <2> QED
      BY <2>1, RegulateBudget DEF WithinBudget
  <1> QED
    BY <1>1, <1>2, <1>3, PTL DEF Spec, BudgetKept

(* Under sane targets the branch for what the station cannot deliver does  *)
(* leave what it can, give or take a ramp step: the wrapped subtraction is *)
(* the only way past it ("if we want more than the station can deliver").  *)
THEOREM SaneTargetsNeverMore ==
    ASSUME SaneTargets
    PROVE  Spec => NeverMoreThanStation
  <1>1. Init => IInv /\ BudgetInv
    BY InitInv, BudgetInit
  <1>2. IInv /\ BudgetInv /\ [Next]_vars => (IInv /\ BudgetInv)'
    BY StepInv, BudgetStep
  <1>3. IInv /\ BudgetInv /\ [Next]_vars =>
          [ pc = "regulate" /\ pc' = "send" =>
              watts' <= MAX_STATION_WATTS + RAMP_RATE ]_vars
    <2> SUFFICES ASSUME IInv, BudgetInv, [Next]_vars, pc = "regulate", pc' = "send"
                 PROVE  watts' <= MAX_STATION_WATTS + RAMP_RATE
      OBVIOUS
    <2>1. Regulate
      BY OnlyRegulate
    <2>2. /\ watts' \in Nat
          /\ watts' + MAX_12V_WATTS < MAX_STATION_WATTS + RAMP_RATE
      BY <2>1, RegulateBudget DEF SaneWatts
    <2>3. MAX_STATION_WATTS \in Nat /\ MAX_12V_WATTS \in Nat /\ RAMP_RATE \in Nat
      BY LawAssumption DEF BudgetInv, SaneTarget
    <2>4. \A w, m, t \in Nat : w + m < t => w <= t
      OBVIOUS
    <2>5. MAX_STATION_WATTS + RAMP_RATE \in Nat
      BY <2>3
    <2> QED
      BY <2>2, <2>3, <2>4, <2>5
  <1> QED
    BY <1>1, <1>2, <1>3, PTL DEF Spec, NeverMoreThanStation

(* Under sane targets the heartbeat's current, over all chargers counted   *)
(* and at the voltage read, stands for no more than the wattage of the     *)
(* pass, and that rises by at most one ramp step, and over a cutback point *)
(* not at all: setChargingAmps, the slow ramp and the cutback of loop.     *)
THEOREM RequestsFollowWatts ==
    ASSUME SaneTargets
    PROVE  Spec => RequestFollowsWatts
  <1>1. Init => IInv /\ BudgetInv
    BY InitInv, BudgetInit
  <1>2. IInv /\ BudgetInv /\ [Next]_vars => (IInv /\ BudgetInv)'
    BY StepInv, BudgetStep
  <1>3. IInv /\ BudgetInv /\ [Next]_vars =>
          [ pc = "regulate" /\ pc' = "send" /\ watts' > 0 =>
              /\ heartbeat' * chargerCount * volts' <= watts'
              /\ watts' <= Held(Measured(amps, volts'), watts) + RAMP_RATE
              /\ OverCutback(volts', Held(Measured(amps, volts'), watts)) =>
                    watts' <= Held(Measured(amps, volts'), watts) ]_vars
    <2> SUFFICES ASSUME IInv, BudgetInv, [Next]_vars,
                        pc = "regulate", pc' = "send", watts' > 0
                 PROVE  /\ heartbeat' * chargerCount * volts' <= watts'
                        /\ watts' <= Held(Measured(amps, volts'), watts) + RAMP_RATE
                        /\ OverCutback(volts', Held(Measured(amps, volts'), watts)) =>
                              watts' <= Held(Measured(amps, volts'), watts)
      OBVIOUS
    <2>1. Regulate
      BY OnlyRegulate
    <2>2. /\ watts' <= Held(Measured(amps, volts'), watts) + RAMP_RATE
          /\ OverCutback(volts', Held(Measured(amps, volts'), watts)) =>
                watts' <= Held(Measured(amps, volts'), watts)
      BY <2>1, RegulateBudget
    <2>3. /\ watts' \in ULong
          /\ volts' \in Nat \ {0} /\ chargerCount \in Nat \ {0}
      BY <2>1, RegulateType DEF IInv
    <2>4. heartbeat' = ChargingAmps(watts', volts', chargerCount)
      BY <2>1 DEF Regulate
    <2>5. heartbeat' * chargerCount * volts' <= watts'
      BY <2>3, <2>4, ChargingAmpsShare
    <2> QED
      BY <2>2, <2>5
  <1> QED
    BY <1>1, <1>2, <1>3, PTL DEF Spec, RequestFollowsWatts
=============================================================================

------------------------ MODULE CutbackLatchProofs -------------------------
(***************************************************************************)
(* The variants whose cutback latches the station's target, for any tables *)
(* of cutback points that LatchAssumption admits: what the loop over them  *)
(* returns, the types, and how far the target may go from the order.       *)
(* Everything that does not regulate is an action of LoadShare, so that    *)
(* its invariants are cited, and only RegulateLatch is proved anew.        *)
(***************************************************************************)
EXTENDS CutbackLatch, LoadShareBudgetProofs, WellFoundedInduction

(* Targets that pay for the 12 V supply, among which the cutback's own.    *)
SaneLatch == SaneTargets /\ \A i \in Points : SaneTarget(LATCH_WATTS[i])

(* The points of 13kw_load_share and BAJA-13kw_load_share and of           *)
(* 5.7kw_load_share, in 0.01 W, lie further apart than the overshoot       *)
(* 50000 - 7600 of their ramp and pay for the 12 V supply, as              *)
(* LatchAssumption and SaneLatch ask.                                      *)
SourcePoints == {{2200000, 1600000, 1400000, 1300000, 1000000, 660000, 500000, 400000},
                 {990000, 750000, 660000, 550000, 450000, 330000, 280000, 220000}}

LEMMA SourcePointsApart ==
    \A points \in SourcePoints : \A m, n \in points :
        /\ 7600 <= m
        /\ m < n => m + (50000 - 7600) <= n
  BY DEF SourcePoints

-----------------------------------------------------------------------------
(* The loop over the cutback points *)

(* A set of naturals has a least element, and Min returns it.              *)
LEMMA MinOfNaturals ==
    ASSUME NEW S, S \subseteq Nat, S # {}
    PROVE  Min(S) \in S /\ \A y \in S : Min(S) <= y
  <1> DEFINE R == OpToRel(<, Nat)
  <1>1. IsWellFoundedOn(R, Nat)
    BY NatLessThanWellFounded
  <1>2. \A x, y \in Nat : x < y => <<x, y>> \in R
    BY DEF OpToRel
  <1> HIDE DEF R
  <1>3. PICK x \in S : \A y \in S : ~ (<<y, x>> \in R)
    BY <1>1, WFMin
  <1>4. \A y \in S : x <= y
    <2>1. \A y \in S : y \in Nat /\ ~(y < x)
      BY <1>2, <1>3
    <2> QED
      BY <1>3, <2>1
  <1> QED
    BY <1>3, <1>4 DEF Min

(* The points take the wattage down, and down to one of their own.         *)
LEMMA CutToBounds ==
    ASSUME NEW v \in Nat, NEW w \in Nat
    PROVE  /\ CutTo(v, w) \in Nat
           /\ CutTo(v, w) <= w
           /\ CutTo(v, w) < w => \E i \in Points : CutTo(v, w) = LATCH_WATTS[i]
  <1> DEFINE T == {w} \cup {LATCH_WATTS[i] : i \in {j \in Points : v > LATCH_VOLTS[j]}}
  <1>1. \A i \in Points : LATCH_WATTS[i] \in Nat
    <2>1. \A S, s : s \in Seq(S) => \A i \in DOMAIN s : s[i] \in S
      OBVIOUS
    <2>2. LATCH_WATTS \in Seq(1..(ULONG_MOD - 1))
      BY LatchAssumption
    <2>3. \A i \in Points : LATCH_WATTS[i] \in 1..(ULONG_MOD - 1)
      BY <2>1, <2>2, Zenon DEF Points
    <2> QED
      BY <2>3, WidthAssumption
  <1>2. T \subseteq Nat /\ w \in T
    BY <1>1
  <1>3. CutTo(v, w) = Min(T)
    BY DEF CutTo
  <1> HIDE DEF T
  <1>4. Min(T) \in T /\ Min(T) <= w
    BY <1>2, MinOfNaturals
  <1>5. Min(T) < w => Min(T) # w
    BY <1>2, <1>4
  <1>6. Min(T) # w => \E i \in Points : Min(T) = LATCH_WATTS[i]
    BY <1>4 DEF T
  <1> QED
    BY <1>2, <1>3, <1>4, <1>5, <1>6

-----------------------------------------------------------------------------
(* What a pass of RegulateLatch leaves *)

(* The types, with the divisors of setChargingAmps above zero.             *)
LEMMA RegulateLatchType ==
    ASSUME TypeOK, EmptyDrainReadsZero, RegulateLatch
    PROVE  /\ volts' \in UShort /\ watts' \in ULong /\ chargingAmps' \in UShort
           /\ heartbeat' \in UShort /\ MAX_STATION_WATTS' \in ULong
           /\ volts' = AverageVolts
           /\ watts' > 0 => volts' \in Nat \ {0} /\ chargerCount \in Nat \ {0}
  <1> DEFINE held    == Held(Measured(amps, volts'), watts)
             limited == StationLimited(held, MAX_STATION_WATTS)
             capped  == IF volts' > OUTPUT_VOLTS_MAX THEN 0 ELSE limited
             cut     == CutTo(volts', capped)
  <1>1. /\ volts' = AverageVolts
        /\ volts' \in UShort
        /\ amps \in UShort /\ watts \in ULong /\ MAX_STATION_WATTS \in ULong
        /\ chargingAmps \in UShort /\ chargerCount \in Nat
    BY AverageVoltsType DEF RegulateLatch, TypeOK
  <1>2. /\ MAX_STATION_WATTS' = IF cut < capped THEN cut ELSE MAX_STATION_WATTS
        /\ watts' = IF volts' < OUTPUT_VOLTS_MIN THEN 0 ELSE cut
        /\ chargingAmps' = IF watts' > 0
                           THEN ChargingAmps(watts', volts', chargerCount)
                           ELSE chargingAmps
        /\ heartbeat' = chargingAmps'
    BY DEF RegulateLatch
  <1>3. held \in ULong
    BY <1>1, HeldType
  <1>4. limited \in ULong
    <2> HIDE DEF held
    <2> QED BY <1>1, <1>3, StationLimitedType
  <1>5. capped \in ULong
    <2> HIDE DEF limited
    <2> QED BY <1>4, WidthAssumption DEF ULong
  <1> HIDE DEF capped
  <1>6. cut \in ULong
    <2>1. volts' \in Nat /\ capped \in Nat
      BY <1>1, <1>5, WidthAssumption DEF UShort, ULong
    <2>2. cut \in Nat /\ cut <= capped
      BY <2>1, CutToBounds
    <2> HIDE DEF cut
    <2> QED BY <1>5, <2>2, WidthAssumption DEF ULong
  <1> HIDE DEF cut
  <1>7. /\ watts' \in ULong /\ MAX_STATION_WATTS' \in ULong
        /\ volts' < OUTPUT_VOLTS_MIN => watts' = 0
    BY <1>1, <1>2, <1>6, WidthAssumption DEF ULong
  <1>8. watts' > 0 => volts' \in Nat \ {0} /\ chargerCount \in Nat \ {0}
    <2> SUFFICES ASSUME watts' > 0
                 PROVE  volts' \in Nat \ {0} /\ chargerCount \in Nat \ {0}
      OBVIOUS
    <2>1. volts' \in Nat /\ OUTPUT_VOLTS_MIN \in Nat \ {0} /\ watts' # 0
      BY <1>1, <1>7, WidthAssumption, LawAssumption DEF UShort, ULong
    <2>2. volts' # 0
      BY <1>7, <2>1
    <2>3. chargerCount # 0
      BY <1>1, <2>2, AverageVoltsType DEF EmptyDrainReadsZero
    <2> QED BY <1>1, <2>1, <2>2, <2>3
  <1>9. chargingAmps' \in UShort
    BY <1>1, <1>2, <1>7, <1>8, ChargingAmpsType
  <1> QED BY <1>1, <1>2, <1>7, <1>8, <1>9

(* LoadShare's invariant, as LoopInv has it of Regulate.                   *)
LEMMA RegulateLatchInv == IInv /\ RegulateLatch => IInv'
  <1> SUFFICES ASSUME IInv, RegulateLatch PROVE IInv'
    OBVIOUS
  <1> USE DEF IInv, At, Goto, Attached, control, sums, order, signal, rxVars
  <1>0. Pending' = Pending
    BY SameBuffers DEF RegulateLatch
  <1>1. /\ volts' \in UShort /\ watts' \in ULong /\ chargingAmps' \in UShort
        /\ heartbeat' \in UShort /\ MAX_STATION_WATTS' \in ULong
        /\ volts' = AverageVolts
    BY RegulateLatchType
  <1>2. /\ pc = "regulate" /\ pc' = "send" /\ ~irq
        /\ UNCHANGED <<armed, chargerCount, amps, signal, eeprom, quota, rxVars>>
    BY DEF RegulateLatch
  <1>3. TypeOK'
    BY <1>1, <1>2 DEF TypeOK, RxTypeOK
  <1>4. EmptyDrainReadsZero'
    BY <1>1, <1>2, AverageVoltsType DEF EmptyDrainReadsZero
  <1> QED
    BY <1>0, <1>2, <1>3, <1>4 DEF NoInterruptInSetup,
       ReadFindsFrame, NoLostWakeup, NoTwoEmptyDrains, Announced, Draining

(* The budgets: what is left is under the target in force after the pass   *)
(* plus an overshoot, and that target is the old one or, lower or at most  *)
(* an overshoot higher, the wattage of a point.                            *)
LEMMA RegulateLatchBudget ==
    ASSUME IInv, BudgetInv, SaneLatch, RegulateLatch
    PROVE  /\ watts' < MAX_STATION_WATTS' + Overshoot
           /\ MAX_STATION_WATTS' # MAX_STATION_WATTS =>
                 /\ \E i \in Points : MAX_STATION_WATTS' = LATCH_WATTS[i]
                 /\ MAX_STATION_WATTS' < MAX_STATION_WATTS + Overshoot
           /\ SaneTarget(MAX_STATION_WATTS')
           /\ SaneWatts(watts')
           /\ watts' <= Held(Measured(amps, volts'), watts) + RAMP_RATE
           /\ watts' + MAX_12V_WATTS < MAX_STATION_WATTS + RAMP_RATE
           /\ watts + MAX_12V_WATTS > MAX_STATION_WATTS =>
                 watts' + MAX_12V_WATTS <= MAX_STATION_WATTS
  <1> DEFINE m       == Measured(amps, volts')
             held    == Held(m, watts)
             limited == StationLimited(held, MAX_STATION_WATTS)
             capped  == IF volts' > OUTPUT_VOLTS_MAX THEN 0 ELSE limited
             cut     == CutTo(volts', capped)
  <1>1. /\ SaneTarget(MAX_STATION_WATTS) /\ SaneWatts(watts)
        /\ UINT_MOD + MAX_12V_WATTS + RAMP_RATE <= ULONG_MOD
        /\ \A i \in Points : SaneTarget(LATCH_WATTS[i])
    BY DEF BudgetInv, SaneLatch, SaneTargets, RegulateLatch, Goto, At
  <1>2. /\ MAX_STATION_WATTS' = IF cut < capped THEN cut ELSE MAX_STATION_WATTS
        /\ watts' = IF volts' < OUTPUT_VOLTS_MIN THEN 0 ELSE cut
    BY DEF RegulateLatch
  <1>3. volts' \in UShort /\ amps \in UShort
    BY RegulateLatchType DEF IInv, TypeOK
  <1>4. /\ MAX_STATION_WATTS \in Nat /\ MAX_12V_WATTS \in Nat /\ RAMP_RATE \in Nat
        /\ UINT_MOD \in Nat /\ ULONG_MOD \in Nat /\ watts \in Nat
        /\ MAX_12V_WATTS < RAMP_RATE
        /\ Overshoot = RAMP_RATE - MAX_12V_WATTS
    BY <1>1, WidthAssumption, LawAssumption, LatchAssumption
    DEF SaneTarget, SaneWatts, Overshoot
  <1>5. m \in 0..(UINT_MOD - 1)
    <2>1. amps * volts' \in Int
      BY <1>3, WidthAssumption DEF UShort
    <2> QED BY <2>1, ModRange, WidthAssumption DEF Measured
  <1>6. SaneWatts(held)
    <2> HIDE DEF m
    <2> QED BY <1>1, <1>4, <1>5 DEF Held, SaneWatts
  <1>7. limited \in Nat /\ limited < MAX_STATION_WATTS + Overshoot
    <2> HIDE DEF held
    <2>1. /\ limited \in ULong
          /\ limited + MAX_12V_WATTS < MAX_STATION_WATTS + RAMP_RATE
      BY <1>1, <1>6, StationLimitedBudget
    <2> HIDE DEF limited
    <2> QED BY <1>4, <2>1 DEF ULong
  <1>13. /\ held \in Nat /\ watts <= held
         /\ limited \in Nat /\ limited <= held + RAMP_RATE
         /\ limited + MAX_12V_WATTS < MAX_STATION_WATTS + RAMP_RATE
         /\ held + MAX_12V_WATTS > MAX_STATION_WATTS =>
               limited + MAX_12V_WATTS <= MAX_STATION_WATTS
    <2>1. held \in Nat /\ watts <= held
      <3> HIDE DEF m
      <3> QED BY <1>4, <1>5 DEF Held
    <2> HIDE DEF held
    <2> QED BY <1>1, <1>6, <1>7, <2>1, StationLimitedBudget
  <1> HIDE DEF limited
  <1>8. capped \in Nat /\ capped < MAX_STATION_WATTS + Overshoot
    BY <1>4, <1>7
  <1>14. capped <= limited
    BY <1>13
  <1> HIDE DEF capped
  <1>9. /\ cut \in Nat /\ cut <= capped
        /\ cut < capped => \E i \in Points : cut = LATCH_WATTS[i]
    <2>1. volts' \in Nat
      BY <1>3, WidthAssumption DEF UShort
    <2> QED BY <1>8, <2>1, CutToBounds
  <1> HIDE DEF cut
  <1>10. /\ MAX_STATION_WATTS' # MAX_STATION_WATTS =>
               /\ \E i \in Points : MAX_STATION_WATTS' = LATCH_WATTS[i]
               /\ MAX_STATION_WATTS' < MAX_STATION_WATTS + Overshoot
         /\ SaneTarget(MAX_STATION_WATTS')
    BY <1>1, <1>2, <1>4, <1>8, <1>9
  <1>11. MAX_STATION_WATTS' \in Nat /\ watts' \in Nat /\ watts' < MAX_STATION_WATTS' + Overshoot
    <2>1. MAX_STATION_WATTS' \in Nat
      BY <1>10 DEF SaneTarget
    <2>2. cut < MAX_STATION_WATTS' + Overshoot
      BY <1>2, <1>4, <1>8, <1>9
    <2> QED BY <1>2, <1>4, <1>9, <2>1, <2>2
  <1>12. SaneWatts(watts')
    <2>1. \A w, d, s, r, u \in Nat :
            w < s + (r - d) /\ s + r + r <= u => w + d + r < u
      OBVIOUS
    <2>2. MAX_STATION_WATTS' + RAMP_RATE + RAMP_RATE <= ULONG_MOD
      BY <1>10 DEF SaneTarget
    <2>3. watts' + MAX_12V_WATTS + RAMP_RATE < ULONG_MOD
      BY <1>4, <1>11, <2>1, <2>2
    <2> QED BY <1>11, <2>3 DEF SaneWatts
  <1>15. watts' <= limited
    BY <1>2, <1>8, <1>9, <1>13, <1>14
  <1>16. watts' <= held + RAMP_RATE
    <2> HIDE DEF held
    <2>1. held + RAMP_RATE \in Nat
      BY <1>4, <1>13
    <2> QED BY <1>11, <1>13, <1>15, <2>1
  <1>17. /\ watts' + MAX_12V_WATTS < MAX_STATION_WATTS + RAMP_RATE
         /\ watts + MAX_12V_WATTS > MAX_STATION_WATTS =>
               watts' + MAX_12V_WATTS <= MAX_STATION_WATTS
    <2> HIDE DEF held
    <2>1. \A w, l, d, t \in Nat : w <= l =>
             /\ l + d < t => w + d < t
             /\ l + d <= t => w + d <= t
      OBVIOUS
    <2>2. MAX_STATION_WATTS + RAMP_RATE \in Nat
      BY <1>4
    <2>3. watts + MAX_12V_WATTS > MAX_STATION_WATTS =>
             held + MAX_12V_WATTS > MAX_STATION_WATTS
      BY <1>4, <1>13
    <2> QED BY <1>4, <1>11, <1>13, <1>15, <2>1, <2>2, <2>3
  <1> QED BY <1>10, <1>11, <1>12, <1>16, <1>17

-----------------------------------------------------------------------------
(* The invariant: LoadShare's two, the order's type, and the target within *)
(* its bounds of the order.                                                *)
LInv == /\ IInv
        /\ BudgetInv
        /\ ordered \in ULong
        /\ pc # "get" => SaneTarget(ordered)
        /\ TargetBounded

LEMMA LatchInitInv ==
    ASSUME SaneLatch, LatchInit
    PROVE  LInv
  <1>1. Init /\ ordered = 0 /\ MAX_STATION_WATTS = 0 /\ pc = "get"
    BY DEF LatchInit, Init
  <1>2. IInv /\ BudgetInv
    BY <1>1, InitInv, BudgetInit DEF SaneLatch
  <1>3. ordered \in ULong
    BY <1>1, WidthAssumption DEF ULong
  <1> QED
    BY <1>1, <1>2, <1>3 DEF LInv, TargetBounded

(* Order sets target and order alike.                                      *)
LEMMA OrderInv ==
    ASSUME SaneLatch, LInv, Order
    PROVE  LInv'
  <1>1. Next
    BY DEF Order, Next, Setup, Environment
  <1>2. IInv' /\ BudgetInv'
    BY <1>1, StepInv, BudgetStep DEF LInv, SaneLatch
  <1>3. ordered' = MAX_STATION_WATTS'
    BY DEF Order
  <1>4. ordered' \in ULong
    BY <1>2, <1>3 DEF IInv, TypeOK
  <1> QED
    BY <1>2, <1>3, <1>4 DEF LInv, TargetBounded, BudgetInv

(* The other actions of LoadShare touch neither, and none of them but      *)
(* CanBegin, which follows ReadTarget, leaves "get".                       *)
LEMMA OthersInv ==
    ASSUME SaneLatch, LInv, Others
    PROVE  /\ LInv'
           /\ ~(pc = "regulate" /\ pc' = "send")
  <1>1. Next
    BY DEF Others, Next, Setup, Loop, Environment
  <1>2. IInv' /\ BudgetInv'
    BY <1>1, StepInv, BudgetStep DEF LInv, SaneLatch
  <1>3. /\ UNCHANGED <<MAX_STATION_WATTS, ordered>>
        /\ ~(pc = "regulate" /\ pc' = "send")
        /\ pc = "get" => pc' = "get"
    <2> USE DEF Goto, At, control, target
    <2>1. UNCHANGED ordered
      BY DEF Others
    <2>2. CASE CanBegin \/ AttachInterrupt \/ NoMoreCommands \/ TakeFlag \/ SkipPass
      BY <2>1, <2>2 DEF CanBegin, AttachInterrupt, NoMoreCommands, TakeFlag, SkipPass
    <2>3. CASE CheckReceive \/ ReadRxTxStatus \/ ReadMsgBuf
      BY <2>1, <2>3 DEF CheckReceive, ReadRxTxStatus, ReadMsgBuf
    <2>4. CASE SendHeartbeat \/ Delay \/ MCP2515_ISR
      BY <2>1, <2>4 DEF SendHeartbeat, Delay, MCP2515_ISR
    <2>5. ASSUME NEW f \in Frames, FrameArrives(f)
          PROVE  /\ UNCHANGED <<MAX_STATION_WATTS, ordered>>
                 /\ ~(pc = "regulate" /\ pc' = "send")
                 /\ pc = "get" => pc' = "get"
      BY <2>1, <2>5 DEF FrameArrives
    <2> QED
      BY <2>2, <2>3, <2>4, <2>5 DEF Others
  <1> QED
    BY <1>2, <1>3 DEF LInv, TargetBounded

(* A pass.  A point over which an earlier cut has put the target cannot    *)
(* bring it back up: the next one up is an overshoot away or further.      *)
LEMMA RegulateLatchStep ==
    ASSUME SaneLatch, LInv, RegulateLatch
    PROVE  /\ LInv'
           /\ MAX_STATION_WATTS # ordered => MAX_STATION_WATTS' <= MAX_STATION_WATTS
  <1>1. IInv'
    BY RegulateLatchInv DEF LInv
  <1>2. /\ pc = "regulate" /\ pc' = "send"
        /\ UNCHANGED <<eeprom, ordered>>
    BY DEF RegulateLatch, Goto, At
  <1>3. /\ MAX_STATION_WATTS' # MAX_STATION_WATTS =>
             /\ \E i \in Points : MAX_STATION_WATTS' = LATCH_WATTS[i]
             /\ MAX_STATION_WATTS' < MAX_STATION_WATTS + Overshoot
        /\ SaneTarget(MAX_STATION_WATTS')
        /\ SaneWatts(watts')
    BY RegulateLatchBudget DEF LInv
  <1>4. BudgetInv'
    BY <1>2, <1>3 DEF LInv, BudgetInv
  <1>5. /\ MAX_STATION_WATTS \in Nat /\ MAX_STATION_WATTS' \in Nat /\ ordered \in Nat
        /\ Overshoot \in Nat
    <2>1. SaneTarget(MAX_STATION_WATTS) /\ SaneTarget(ordered)
      BY <1>2 DEF LInv, BudgetInv
    <2>2. Overshoot \in Nat
      BY LawAssumption, LatchAssumption DEF Overshoot
    <2> QED BY <1>3, <2>1, <2>2 DEF SaneTarget
  <1>6. CASE MAX_STATION_WATTS = ordered
    BY <1>1, <1>2, <1>3, <1>4, <1>6 DEF LInv, TargetBounded
  <1>7. CASE MAX_STATION_WATTS # ordered
    <2>1. PICK j \in Points : MAX_STATION_WATTS = LATCH_WATTS[j]
      BY <1>7 DEF LInv, TargetBounded
    <2>2. MAX_STATION_WATTS < ordered + Overshoot
      BY <1>7 DEF LInv, TargetBounded
    <2>3. CASE MAX_STATION_WATTS' = MAX_STATION_WATTS
      BY <1>1, <1>2, <1>4, <1>5, <1>7, <2>3 DEF LInv, TargetBounded
    <2>4. CASE MAX_STATION_WATTS' # MAX_STATION_WATTS
      <3>1. PICK i \in Points : MAX_STATION_WATTS' = LATCH_WATTS[i]
        BY <1>3, <2>4
      <3>2. MAX_STATION_WATTS < MAX_STATION_WATTS' =>
               MAX_STATION_WATTS + Overshoot <= MAX_STATION_WATTS'
        BY <2>1, <3>1, LatchAssumption
      <3>3. MAX_STATION_WATTS' <= MAX_STATION_WATTS
        BY <1>3, <1>5, <2>4, <3>2
      <3>4. MAX_STATION_WATTS' < ordered + Overshoot
        BY <1>5, <2>2, <3>3
      <3> QED BY <1>1, <1>2, <1>4, <3>1, <3>3, <3>4 DEF LInv, TargetBounded
    <2> QED BY <2>3, <2>4
  <1> QED BY <1>5, <1>6, <1>7

LEMMA LatchStutter ==
    ASSUME LInv, UNCHANGED latchVars
    PROVE  LInv'
  <1>1. UNCHANGED vars /\ UNCHANGED ordered
    BY DEF latchVars
  <1>2. IInv' /\ TargetBounded'
    <2>1. IInv'
      BY <1>1, StepInv DEF LInv
    <2> QED BY <1>1, <2>1 DEF LInv, TargetBounded, vars, target
  <1> QED
    BY <1>1, <1>2 DEF LInv, BudgetInv, vars, control, order, target

LEMMA LatchStep ==
    ASSUME SaneLatch, LInv, [LatchNext]_latchVars
    PROVE  LInv'
  BY OrderInv, OthersInv, RegulateLatchStep, LatchStutter DEF LatchNext

(* Order's actions do not lead from "regulate" to "send" either.           *)
LEMMA OnlyRegulateLatch ==
    ASSUME SaneLatch, LInv, [LatchNext]_latchVars, pc = "regulate", pc' = "send"
    PROVE  RegulateLatch
  <1>1. ~Order
    BY DEF Order, ReadTarget, ReadCommand, PowerCycle, Goto, At, control
  <1>2. ~Others
    BY OthersInv
  <1>3. ~(UNCHANGED latchVars)
    BY DEF latchVars, vars, control
  <1> QED
    BY <1>1, <1>2, <1>3 DEF LatchNext

-----------------------------------------------------------------------------
(* The theorems *)

(* The invariant that no assumption on the targets is needed for: what     *)
(* LoadShare has of its interrupts, buffers and types, late attachment     *)
(* included, and the type of the order.                                    *)
ProtocolInv == RInv /\ ordered \in ULong

LEMMA RegulateLatchLate == RInv /\ RegulateLatch => LateIsDeaf'
  <1> SUFFICES ASSUME RInv, RegulateLatch, Attached', ~armed' PROVE Deaf'
    BY DEF LateIsDeaf
  <1>1. /\ pc = "regulate" /\ pc' = "send"
        /\ UNCHANGED <<armed, flagRecv, irq, rxb>>
    BY DEF RegulateLatch, Goto, At, signal, rxVars
  <1>2. Deaf
    BY <1>1 DEF RInv, LateIsDeaf, Attached
  <1>3. Pending' = Pending
    BY <1>1, SameBuffers
  <1> QED
    BY <1>1, <1>2, <1>3 DEF Deaf, Announced, Draining, Attached

(* A step of a variant is one of LoadShare or a pass of its own.           *)
LEMMA LatchStepKinds ==
    ASSUME [LatchNext]_latchVars
    PROVE  [Next]_vars \/ RegulateLatch
  BY DEF LatchNext, Order, Others, latchVars, Next, Setup, Loop, Environment

LEMMA ProtocolInit == LatchInit => ProtocolInv
  BY InitInv, LateInit, WidthAssumption DEF LatchInit, ProtocolInv, RInv, ULong

LEMMA ProtocolStep ==
    ASSUME ProtocolInv, [LatchNext]_latchVars
    PROVE  ProtocolInv'
  <1>1. RInv'
    <2>1. CASE [Next]_vars
      BY <2>1, StepInv, LateStep DEF ProtocolInv, RInv
    <2>2. CASE RegulateLatch
      BY <2>2, RegulateLatchInv, RegulateLatchLate DEF ProtocolInv, RInv
    <2> QED BY <2>1, <2>2, LatchStepKinds
  <1>2. ordered' \in ULong
    <2>1. CASE Order
      BY <1>1, <2>1 DEF Order, RInv, IInv, TypeOK
    <2>2. CASE Others \/ RegulateLatch \/ UNCHANGED latchVars
      BY <2>2 DEF Others, RegulateLatch, latchVars, ProtocolInv
    <2> QED BY <2>1, <2>2 DEF LatchNext
  <1> QED BY <1>1, <1>2 DEF ProtocolInv

LEMMA ProtocolInvariance == LatchSpec => []ProtocolInv
  BY ProtocolInit, ProtocolStep, PTL DEF LatchSpec

(* Types stay what they are, the latched target's among them, whatever the *)
(* targets are: a subtraction that wraps still returns an unsigned long.   *)
THEOREM LatchTypeCorrect == LatchSpec => []LatchTypeOK
  <1>1. ProtocolInv => LatchTypeOK
    BY DEF ProtocolInv, RInv, IInv, LatchTypeOK
  <1> QED
    BY <1>1, ProtocolInvariance, PTL

(* The variants keep what loadShare.ino keeps between its interrupt, its   *)
(* drain and its division: their loop is the same up to the cutback, and   *)
(* the cutback touches neither a buffer nor a flag.                        *)
THEOREM VariantsKeepProtocol ==
    LatchSpec => [](NoLostWakeup /\ NoTwoEmptyDrains /\ ReadFindsFrame /\ DivisorsPositive)
  <1>1. ProtocolInv =>
           NoLostWakeup /\ NoTwoEmptyDrains /\ ReadFindsFrame /\ DivisorsPositive
    BY DivisorsFromInv DEF ProtocolInv, RInv, IInv
  <1> QED
    BY <1>1, ProtocolInvariance, PTL

(* A variant whose interrupt was attached after the edge is as deaf as     *)
(* loadShare.ino: its passes do not look at the buffers either.            *)
THEOREM VariantsStayDeaf == LatchSpec => DeafForever
  <1>1. ProtocolInv /\ [LatchNext]_latchVars => [Deaf => Deaf' \/ pc' = "get"]_vars
    <2> SUFFICES ASSUME ProtocolInv, [LatchNext]_latchVars, Deaf, pc' # "get"
                 PROVE  Deaf'
      OBVIOUS
    <2>1. CASE [Next]_vars
      BY <2>1, DeafStep DEF ProtocolInv, RInv
    <2>2. CASE RegulateLatch
      <3>1. /\ pc = "regulate" /\ pc' = "send"
            /\ UNCHANGED <<flagRecv, irq, rxb>>
        BY <2>2 DEF RegulateLatch, Goto, At, signal, rxVars
      <3>2. Pending' = Pending
        BY <3>1, SameBuffers
      <3> QED BY <3>1, <3>2 DEF Deaf, Announced, Draining, Attached
    <2> QED BY <2>1, <2>2, LatchStepKinds
  <1> QED
    BY <1>1, ProtocolInvariance, PTL DEF LatchSpec, DeafForever

(* The receive path of the variants is the mailbox of two frames, too.     *)
THEOREM VariantsAreAMailbox ==
    LatchSpec => Mailbox!Init /\ [][Mailbox!Next]_Mailbox!vars
  <1>1. LatchInit => Mailbox!Init
    BY MailboxInit DEF LatchInit
  <1>2. ProtocolInv /\ [LatchNext]_latchVars => [Mailbox!Next]_Mailbox!vars
    <2> SUFFICES ASSUME ProtocolInv, [LatchNext]_latchVars
                 PROVE  [Mailbox!Next]_Mailbox!vars
      OBVIOUS
    <2>1. CASE [Next]_vars
      BY <2>1, MailboxStep DEF ProtocolInv
    <2>2. CASE RegulateLatch
      BY <2>2 DEF RegulateLatch, rxVars, Mailbox!vars
    <2> QED BY <2>1, <2>2, LatchStepKinds
  <1> QED
    BY <1>1, <1>2, ProtocolInvariance, PTL DEF LatchSpec

(* However long voltages rise and fall, cutbacks leave the target at the   *)
(* order or at a point less than an overshoot over it: the loop over       *)
(* OUTPUT_VOLTS_CUTBACK cannot walk the target up from point to point.     *)
THEOREM TargetStaysBounded ==
    ASSUME SaneLatch
    PROVE  LatchSpec => []TargetBounded
  <1>1. LatchInit => LInv
    BY LatchInitInv
  <1>2. LInv /\ [LatchNext]_latchVars => LInv'
    BY LatchStep
  <1>3. LInv => TargetBounded
    BY DEF LInv
  <1> QED
    BY <1>1, <1>2, <1>3, PTL DEF LatchSpec

(* A target that was cut falls with every further cut: the sketches have   *)
(* nothing but a command or a restart that raises it again.                *)
THEOREM CutTargetOnlyFalls ==
    ASSUME SaneLatch
    PROVE  LatchSpec => OnceCutOnlyLower
  <1>1. LatchInit => LInv
    BY LatchInitInv
  <1>2. LInv /\ [LatchNext]_latchVars => LInv'
    BY LatchStep
  <1>3. LInv /\ [LatchNext]_latchVars =>
          [ pc = "regulate" /\ pc' = "send" /\ MAX_STATION_WATTS # ordered =>
              MAX_STATION_WATTS' <= MAX_STATION_WATTS ]_latchVars
    BY OnlyRegulateLatch, RegulateLatchStep
  <1> QED
    BY <1>1, <1>2, <1>3, PTL DEF LatchSpec, OnceCutOnlyLower

(* The wattage of a pass is less than an overshoot over the target the     *)
(* pass leaves, cut or not: loop, from the ramp to setChargingAmps.        *)
THEOREM WattsFollow ==
    ASSUME SaneLatch
    PROVE  LatchSpec => WattsFollowTarget
  <1>1. LatchInit => LInv
    BY LatchInitInv
  <1>2. LInv /\ [LatchNext]_latchVars => LInv'
    BY LatchStep
  <1>3. LInv /\ [LatchNext]_latchVars =>
          [ pc = "regulate" /\ pc' = "send" =>
              watts' < MAX_STATION_WATTS' + Overshoot ]_latchVars
    BY OnlyRegulateLatch, RegulateLatchBudget DEF LInv
  <1> QED
    BY <1>1, <1>2, <1>3, PTL DEF LatchSpec, WattsFollowTarget

(* The variants keep the budget that was in force before the pass, too:    *)
(* what the cutback takes off leaves the clamp of the station standing.    *)
THEOREM VariantsKeepBudget ==
    ASSUME SaneLatch
    PROVE  LatchSpec => BudgetKept
  <1>1. LatchInit => LInv
    BY LatchInitInv
  <1>2. LInv /\ [LatchNext]_latchVars => LInv'
    BY LatchStep
  <1>3. LInv /\ [LatchNext]_latchVars =>
          [ pc = "regulate" /\ pc' = "send" =>
              /\ watts' + MAX_12V_WATTS < MAX_STATION_WATTS + RAMP_RATE
              /\ ~WithinBudget(watts) => WithinBudget(watts') ]_vars
    <2> SUFFICES ASSUME LInv, [LatchNext]_latchVars, pc = "regulate", pc' = "send"
                 PROVE  /\ watts' + MAX_12V_WATTS < MAX_STATION_WATTS + RAMP_RATE
                        /\ ~WithinBudget(watts) => WithinBudget(watts')
      OBVIOUS
    <2>1. RegulateLatch
      BY OnlyRegulateLatch
    <2>2. /\ watts' + MAX_12V_WATTS < MAX_STATION_WATTS + RAMP_RATE
          /\ watts + MAX_12V_WATTS > MAX_STATION_WATTS =>
                watts' + MAX_12V_WATTS <= MAX_STATION_WATTS
      BY <2>1, RegulateLatchBudget DEF LInv
    <2>3. MAX_STATION_WATTS \in Nat /\ MAX_12V_WATTS \in Nat /\ watts \in Nat
      BY LawAssumption DEF LInv, BudgetInv, SaneTarget, SaneWatts
    <2>4. watts + MAX_12V_WATTS \in Nat
      BY <2>3
    <2>5. ~WithinBudget(watts) => watts + MAX_12V_WATTS > MAX_STATION_WATTS
      BY <2>3, <2>4 DEF WithinBudget
    <2> QED
      BY <2>2, <2>5 DEF WithinBudget
  <1> QED
    BY <1>1, <1>2, <1>3, PTL DEF LatchSpec, BudgetKept

(* The variants' chargers are asked for no more current together than the  *)
(* wattage of the pass stands for, and that rises by at most a ramp step,  *)
(* whatever the cutback does to the target (setChargingAmps).              *)
THEOREM VariantsShareWatts ==
    ASSUME SaneLatch
    PROVE  LatchSpec =>
             [][ pc = "regulate" /\ pc' = "send" /\ watts' > 0 =>
                   /\ heartbeat' * chargerCount * volts' <= watts'
                   /\ watts' <= Held(Measured(amps, volts'), watts) + RAMP_RATE ]_latchVars
  <1>1. LatchInit => LInv
    BY LatchInitInv
  <1>2. LInv /\ [LatchNext]_latchVars => LInv'
    BY LatchStep
  <1>3. LInv /\ [LatchNext]_latchVars =>
          [ pc = "regulate" /\ pc' = "send" /\ watts' > 0 =>
              /\ heartbeat' * chargerCount * volts' <= watts'
              /\ watts' <= Held(Measured(amps, volts'), watts) + RAMP_RATE ]_latchVars
    <2> SUFFICES ASSUME LInv, [LatchNext]_latchVars,
                        pc = "regulate", pc' = "send", watts' > 0
                 PROVE  /\ heartbeat' * chargerCount * volts' <= watts'
                        /\ watts' <= Held(Measured(amps, volts'), watts) + RAMP_RATE
      OBVIOUS
    <2>1. RegulateLatch
      BY OnlyRegulateLatch
    <2>2. watts' <= Held(Measured(amps, volts'), watts) + RAMP_RATE
      BY <2>1, RegulateLatchBudget DEF LInv
    <2>3. /\ watts' \in ULong
          /\ volts' \in Nat \ {0} /\ chargerCount \in Nat \ {0}
      BY <2>1, RegulateLatchType DEF LInv, IInv
    <2>4. heartbeat' = ChargingAmps(watts', volts', chargerCount)
      BY <2>1 DEF RegulateLatch
    <2>5. heartbeat' * chargerCount * volts' <= watts'
      BY <2>3, <2>4, ChargingAmpsShare
    <2> QED
      BY <2>2, <2>5
  <1> QED
    BY <1>1, <1>2, <1>3, PTL DEF LatchSpec
=============================================================================

------------------------- MODULE ChargeMonitorProofs -------------------------
(***************************************************************************)
(* Theorems about ChargeMonitor, for any chargers, voltages and commands,  *)
(* and any thresholds in the source's order.                               *)
(***************************************************************************)
EXTENDS ChargeMonitor, FiniteSetTheorems, TLAPS

(* Both settings come from one command, or neither was ever set.           *)
TogetherSet == /\ targetWatts = -1 <=> endVolts = -1
               /\ eeprom \in [watts : Nat \cup {-1}, end : Nat \cup {-1}]
               /\ eeprom.watts = -1 <=> eeprom.end = -1

(* What HeardRecently rests on: while a voltage is kept, the counter of    *)
(* its bus tells the truth.  After power on and after a reset it need not. *)
CountersTrue ==
    /\ silence.charger \in Nat /\ silence.bike \in Nat
    /\ silence = [charger |-> silence.charger, bike |-> silence.bike]
    /\ chargerVoltageHolder > 0 =>
          silence.charger = scStaleCount /\ scStaleCount <= SC_STALE_THRESHOLD
    /\ bikeVoltage > 0 =>
          silence.bike = bikeStaleCount /\ bikeStaleCount <= BIKE_STALE_THRESHOLD

(* Every charger heard has been counted, some more than once.              *)
HeardCounted == IsFiniteSet(heard) /\ Cardinality(heard) <= connectedChargers

MInv == TypeOK /\ TogetherSet /\ CountersTrue /\ HeardCounted

-----------------------------------------------------------------------------
(* The arithmetic *)

LEMMA Constants ==
    /\ VOLT_UNIT \in Nat \ {0} /\ MIN_VOLTS \in Nat /\ VOLT_UNIT <= MIN_VOLTS
    /\ USHORT_MOD \in Nat \ {0} /\ USHORT_MOD = 2 * (USHORT_MOD \div 2)
    /\ COUNT_SCV2_THRESHOLD \in Nat /\ SC_STALE_THRESHOLD \in Nat
    /\ BIKE_STALE_THRESHOLD \in Nat /\ BIKE_STALE_THRESHOLD <= SC_STALE_THRESHOLD
    /\ MaxFrames \in Nat /\ DEFAULT_WATTS \in Nat
  BY MonitorAssumption

(* Whatever number is put into a short, a short is what comes out, and     *)
(* never more than the number if that is not negative.                     *)
LEMMA ToShortBounds ==
    ASSUME NEW n \in Int
    PROVE  ToShort(n) \in Short /\ (n >= 0 => ToShort(n) <= n)
  <1> DEFINE u == n % USHORT_MOD
             h == USHORT_MOD \div 2
  <1>1. h \in Nat /\ USHORT_MOD = 2 * h /\ USHORT_MOD \in Nat \ {0}
    BY Constants
  <1>2. u \in 0..(USHORT_MOD - 1) /\ (n >= 0 => u <= n)
    BY <1>1
  <1>3. ToShort(n) = IF u < h THEN u ELSE u - USHORT_MOD
    BY DEF ToShort
  <1>4. Short = (-h)..(h - 1)
    BY DEF Short
  <1> HIDE DEF u, h
  <1> QED BY <1>1, <1>2, <1>3, <1>4

LEMMA OverType ==
    ASSUME NEW a \in Int, NEW b \in Nat \ {0}
    PROVE  /\ Over(a, b) \in Int
           /\ a >= 0 => Over(a, b) \in Nat /\ Over(a, b) * b <= a
  <1>1. CASE a < 0
    <2>1. (-a) \div b \in Int
      BY <1>1
    <2> QED BY <1>1, <2>1 DEF Over
  <1>2. CASE a >= 0
    <2>1. a \div b \in Nat /\ (a \div b) * b <= a
      BY <1>2
    <2> QED BY <1>2, <2>1 DEF Over
  <1> QED BY <1>1, <1>2

LEMMA AsOutputType ==
    ASSUME NEW v \in Int
    PROVE  AsOutput(v) \in Short
  BY OverType, ToShortBounds, Constants DEF AsOutput

LEMMA SmallShorts == 0 \in Short /\ -1 \in Short
  <1> DEFINE h == USHORT_MOD \div 2
  <1>1. h \in Nat \ {0}
    BY Constants
  <1> QED BY <1>1 DEF Short

(* What the chargers are asked for is a short, and as many of them as were *)
(* counted stay under the target at any voltage of at least a unit.        *)
LEMMA AmpsEachBounds ==
    ASSUME NEW amps \in AmpsEach,
           targetWatts \in Nat, bikeVoltage \in Nat, bikeVoltage > MIN_VOLTS,
           connectedChargers \in Nat
    PROVE  /\ amps \in Short
           /\ \A n \in Nat : n <= connectedChargers /\ connectedChargers > 0 =>
                 amps * n * Over(bikeVoltage, VOLT_UNIT) <= targetWatts * VOLT_UNIT
  <1> DEFINE v == Over(bikeVoltage, VOLT_UNIT)
             t == targetWatts * VOLT_UNIT
             q == Over(t, v)
             r == Over(q, connectedChargers)
  <1>1. v \in Nat \ {0}
    <2>1. bikeVoltage >= VOLT_UNIT /\ VOLT_UNIT \in Nat \ {0}
      BY Constants
    <2>2. bikeVoltage \div VOLT_UNIT \in Nat \ {0}
      BY <2>1
    <2>3. v = bikeVoltage \div VOLT_UNIT
      BY <2>1 DEF Over
    <2> QED BY <2>2, <2>3
  <1>2. t \in Nat
    BY Constants
  <1> HIDE DEF v, t
  <1>3. q \in Nat /\ q * v <= t
    BY <1>1, <1>2, OverType
  <1> HIDE DEF q
  <1>4. CASE connectedChargers = 0
    BY <1>4, SmallShorts DEF AmpsEach
  <1>5. CASE connectedChargers > 0
    <2>1. r \in Nat /\ r * connectedChargers <= q
      BY <1>3, <1>5, OverType
    <2>2. amps = ToShort(r)
      BY <1>5 DEF AmpsEach, r, q, t, v
    <2> HIDE DEF r
    <2>3. amps \in Short /\ amps \in Int /\ amps <= r
      BY <2>1, <2>2, ToShortBounds, Constants DEF Short
    <2>4. ASSUME NEW n \in Nat, n <= connectedChargers
          PROVE  amps * n * v <= t
      <3>1. amps * n <= r * n
        BY <2>1, <2>3, <2>4
      <3>2. r * n <= r * connectedChargers
        BY <2>1, <2>4
      <3>3. amps * n \in Int /\ r * n \in Nat /\ r * connectedChargers \in Nat
        BY <2>1, <2>3, <2>4
      <3>4. amps * n <= q
        BY <1>3, <2>1, <3>1, <3>2, <3>3
      <3>5. (amps * n) * v <= q * v
        BY <1>1, <1>3, <3>3, <3>4
      <3>6. (amps * n) * v \in Int /\ q * v \in Int
        BY <1>1, <1>3, <3>3
      <3> QED BY <1>2, <1>3, <3>5, <3>6
    <2> QED BY <2>3, <2>4 DEF v, t
  <1> QED BY <1>4, <1>5

(* A counter is a number, and counts on at least to its threshold.         *)
LEMMA CountToType ==
    ASSUME NEW n \in Nat, NEW threshold \in Nat
    PROVE  CountTo(n, threshold) \in Nat /\ (n <= threshold => CountTo(n, threshold) = n + 1)
  BY DEF CountTo

-----------------------------------------------------------------------------
(* The invariant, action by action *)

LEMMA MonitorInit == Init => MInv
  <1> SUFFICES ASSUME Init PROVE MInv
    OBVIOUS
  <1>1. AsOutput(-1) \in Short
    BY AsOutputType
  <1>2. TypeOK
    BY <1>1, SmallShorts, Constants DEF Init, TypeOK
  <1>3. TogetherSet
    BY DEF Init, TogetherSet
  <1>4. CountersTrue
    BY Constants DEF Init, CountersTrue
  <1>5. HeardCounted
    BY FS_EmptySet DEF Init, HeardCounted
  <1> QED BY <1>2, <1>3, <1>4, <1>5 DEF MInv

LEMMA PowerCycleInv ==
    ASSUME MInv, PowerCycle
    PROVE  MInv'
  <1>1. eeprom.end \in Nat \cup {-1} /\ eeprom.watts \in Nat \cup {-1}
    BY DEF MInv, TogetherSet
  <1>2. AsOutput(eeprom.end) \in Short
    BY <1>1, AsOutputType
  <1>3. TypeOK'
    BY <1>1, <1>2, SmallShorts, Constants DEF PowerCycle, TypeOK
  <1>4. TogetherSet'
    BY <1>1 DEF PowerCycle, MInv, TogetherSet
  <1>5. CountersTrue'
    BY Constants DEF PowerCycle, CountersTrue
  <1>6. HeardCounted'
    BY FS_EmptySet DEF PowerCycle, HeardCounted
  <1> QED BY <1>3, <1>4, <1>5, <1>6 DEF MInv

(* When a charge command goes out both settings have been commanded.       *)
LEMMA SendsSettings ==
    ASSUME MInv, Sends
    PROVE  targetWatts \in Nat /\ bikeVoltage \in Nat /\ bikeVoltage > MIN_VOLTS
  <1>1. endVolts # -1
    BY Constants DEF Sends, isReadyToCharge, MInv, TypeOK
  <1> QED
    BY <1>1 DEF MInv, TypeOK, TogetherSet, Sends, isReadyToCharge

LEMMA CountInv ==
    ASSUME MInv, Count
    PROVE  MInv'
  <1> USE DEF counters, settings, readings, outputs
  <1>1. desiredOutputAmps' \in Short
    <2>1. CASE Sends
      BY <2>1, SendsSettings, AmpsEachBounds DEF Count, MInv, TypeOK
    <2>2. CASE ~Sends
      BY <2>2 DEF Count, MInv, TypeOK
    <2> QED BY <2>1, <2>2
  <1>2. TypeOK'
    BY <1>1, Constants DEF Count, Counted, MInv, TypeOK
  <1>3. HeardCounted'
    BY FS_EmptySet DEF Count, MInv, HeardCounted
  <1>4. TogetherSet' /\ CountersTrue'
    BY DEF Count, MInv, TogetherSet, CountersTrue
  <1> QED BY <1>2, <1>3, <1>4 DEF MInv

LEMMA ReadCommandInv ==
    ASSUME MInv, NEW c \in Commands, ReadCommand(c)
    PROVE  MInv'
  <1> USE DEF counters, settings, readings, outputs
  <1>1. c.volts \in Int /\ c.watts \in Int
    BY MonitorAssumption
  <1>2. c.volts * VOLT_UNIT \in Int
    BY <1>1, Constants
  <1>3. endVolts' \in Nat /\ targetWatts' \in Nat
    BY <1>1, <1>2, Constants DEF ReadCommand
  <1>4. TypeOK'
    BY <1>3 DEF ReadCommand, MInv, TypeOK
  <1>5. TogetherSet'
    BY <1>3 DEF ReadCommand, TogetherSet
  <1>6. CountersTrue' /\ HeardCounted'
    BY DEF ReadCommand, MInv, CountersTrue, HeardCounted
  <1> QED BY <1>4, <1>5, <1>6 DEF MInv

(* What setVoltageDiff leaves behind a reading.                            *)
LEMMA SetVoltageDiffType ==
    ASSUME MInv, SetVoltageDiff,
           chargerVoltageHolder' \in Nat, bikeVoltage' \in Nat
    PROVE  chargerVoltage' \in Nat /\ desiredOutputVolts' \in Short
  <1>1. CASE isReadyToCharge'
    <2>1. chargerVoltage \in Nat /\ endVolts \in Int
      BY DEF MInv, TypeOK
    <2>2. endVolts - (bikeVoltage' - chargerVoltage) \in Int
      BY <2>1
    <2>3. (chargerVoltageHolder' + chargerVoltage) \div 2 \in Nat
      <3>1. \A m, n \in Nat : (m + n) \div 2 \in Nat
        OBVIOUS
      <3> QED BY <2>1, <3>1, Zenon
    <2>4. /\ chargerVoltage' = (chargerVoltageHolder' + chargerVoltage) \div 2
          /\ desiredOutputVolts' = AsOutput(endVolts - (bikeVoltage' - chargerVoltage))
      BY <1>1 DEF SetVoltageDiff
    <2> QED BY <2>2, <2>3, <2>4, AsOutputType
  <1>2. CASE ~isReadyToCharge'
    BY <1>2 DEF SetVoltageDiff, MInv, TypeOK
  <1> QED BY <1>1, <1>2

LEMMA ChargerFrameInv ==
    ASSUME MInv, NEW c \in Chargers, NEW v \in ChargerVolts, ChargerFrame(c, v)
    PROVE  MInv'
  <1> USE DEF settings
  <1>1. chargerVoltageHolder' \in Nat /\ bikeVoltage' \in Nat
    <2>1. v \in Nat /\ VOLT_UNIT \in Nat
      BY MonitorAssumption
    <2>2. v * VOLT_UNIT \in Nat
      BY <2>1
    <2> QED BY <2>2 DEF ChargerFrame, MInv, TypeOK
  <1>2. chargerVoltage' \in Nat /\ desiredOutputVolts' \in Short
    BY <1>1, SetVoltageDiffType DEF ChargerFrame
  <1>3. TypeOK'
    BY <1>1, <1>2, Constants DEF ChargerFrame, WithThis, MInv, TypeOK
  <1>4. CountersTrue'
    BY Constants DEF ChargerFrame, MInv, TypeOK, CountersTrue
  <1>5. HeardCounted'
    <2>1. /\ heard' = heard \cup {c} /\ connectedChargers' = connectedChargers + 1
          /\ IsFiniteSet(heard) /\ Cardinality(heard) <= connectedChargers
          /\ connectedChargers \in Nat
      BY DEF ChargerFrame, WithThis, MInv, HeardCounted, TypeOK
    <2>2. Cardinality(heard) \in Nat
      BY <2>1, FS_CardinalityType
    <2>3. /\ IsFiniteSet(heard \cup {c})
          /\ Cardinality(heard \cup {c}) = IF c \in heard THEN Cardinality(heard)
                                                          ELSE Cardinality(heard) + 1
      BY <2>1, FS_AddElement
    <2>4. Cardinality(heard') <= connectedChargers'
      BY <2>1, <2>2, <2>3
    <2> QED BY <2>1, <2>3, <2>4 DEF HeardCounted
  <1>6. TogetherSet'
    BY DEF ChargerFrame, MInv, TogetherSet
  <1> QED BY <1>3, <1>4, <1>5, <1>6 DEF MInv

LEMMA VoltageFrameInv ==
    ASSUME MInv, NEW v \in BikeVolts, VoltageFrame(v)
    PROVE  MInv'
  <1> USE DEF settings
  <1>1. chargerVoltageHolder' \in Nat /\ bikeVoltage' \in Nat
    BY MonitorAssumption DEF VoltageFrame, MInv, TypeOK
  <1>2. chargerVoltage' \in Nat /\ desiredOutputVolts' \in Short
    BY <1>1, SetVoltageDiffType DEF VoltageFrame
  <1>3. TypeOK'
    BY <1>1, <1>2 DEF VoltageFrame, MInv, TypeOK
  <1>4. CountersTrue'
    BY Constants DEF VoltageFrame, MInv, TypeOK, CountersTrue
  <1>5. HeardCounted' /\ TogetherSet'
    BY DEF VoltageFrame, MInv, HeardCounted, TogetherSet
  <1> QED BY <1>3, <1>4, <1>5 DEF MInv

LEMMA OtherFrameInv ==
    ASSUME MInv, OtherFrame
    PROVE  MInv'
  <1> USE DEF settings, readings, outputs
  <1>1. TypeOK'
    BY DEF OtherFrame, MInv, TypeOK
  <1>2. CountersTrue'
    BY Constants DEF OtherFrame, MInv, TypeOK, CountersTrue
  <1>3. HeardCounted' /\ TogetherSet'
    BY DEF OtherFrame, MInv, HeardCounted, TogetherSet
  <1> QED BY <1>1, <1>2, <1>3 DEF MInv

(* A counter that passes its threshold takes its voltage along.            *)
LEMMA StaleInv ==
    ASSUME MInv, Stale
    PROVE  MInv'
  <1> USE DEF settings, outputs
  <1>1. /\ scStaleCount \in Nat /\ bikeStaleCount \in Nat
        /\ silence.charger \in Nat /\ silence.bike \in Nat
    BY DEF MInv, TypeOK, CountersTrue
  <1>2. /\ scStaleCount' \in Nat /\ bikeStaleCount' \in Nat
        /\ silence'.charger = CountTo(silence.charger, SC_STALE_THRESHOLD)
        /\ silence'.bike = CountTo(silence.bike, BIKE_STALE_THRESHOLD)
        /\ silence'.charger \in Nat /\ silence'.bike \in Nat
        /\ silence' = [charger |-> silence'.charger, bike |-> silence'.bike]
    BY <1>1, CountToType, Constants DEF Stale
  <1>3. TypeOK'
    BY <1>2, SmallShorts DEF Stale, MInv, TypeOK
  <1>4. chargerVoltageHolder' > 0 =>
          silence'.charger = scStaleCount' /\ scStaleCount' <= SC_STALE_THRESHOLD
    <2> SUFFICES ASSUME chargerVoltageHolder' > 0
                 PROVE  silence'.charger = scStaleCount' /\ scStaleCount' <= SC_STALE_THRESHOLD
      OBVIOUS
    <2>1. ~ScStale /\ chargerVoltageHolder' = chargerVoltageHolder
      BY DEF Stale
    <2>2. silence.charger = scStaleCount
      BY <2>1 DEF MInv, CountersTrue
    <2> QED BY <1>2, <2>1, <2>2, Constants DEF Stale, ScStale
  <1>5. bikeVoltage' > 0 =>
          silence'.bike = bikeStaleCount' /\ bikeStaleCount' <= BIKE_STALE_THRESHOLD
    <2> SUFFICES ASSUME bikeVoltage' > 0
                 PROVE  silence'.bike = bikeStaleCount' /\ bikeStaleCount' <= BIKE_STALE_THRESHOLD
      OBVIOUS
    <2>1. ~BikeStale /\ bikeVoltage' = bikeVoltage
      BY DEF Stale
    <2>2. silence.bike = bikeStaleCount /\ bikeStaleCount <= BIKE_STALE_THRESHOLD
      BY <2>1 DEF MInv, CountersTrue
    <2>3. bikeStaleCount' = bikeStaleCount + 1 /\ silence'.bike = bikeStaleCount + 1
      BY <1>1, <1>2, <2>2, CountToType, Constants DEF Stale
    <2> QED BY <1>2, <2>1, <2>3, Constants DEF BikeStale
  <1>6. CountersTrue'
    BY <1>2, <1>4, <1>5 DEF CountersTrue
  <1>7. HeardCounted' /\ TogetherSet'
    BY DEF Stale, MInv, HeardCounted, TogetherSet
  <1> QED BY <1>3, <1>6, <1>7 DEF MInv

(* A step in which nothing came.                                           *)
LEMMA NothingInv ==
    ASSUME MInv, NoCommand \/ NoChargerFrame \/ NoBikeFrame
    PROVE  MInv'
  <1> USE DEF counters, settings, readings, outputs
  <1>1. /\ pc' \in {"charger", "bike", "stale"}
        /\ UNCHANGED <<counters, connectedChargers, settings, readings, outputs, heard, silence>>
    <2>1. pc = "user" \/ pc = "charger" \/ pc = "bike"
      BY DEF NoCommand, NoChargerFrame, NoBikeFrame
    <2> QED BY <2>1 DEF NoCommand, NoChargerFrame, NoBikeFrame, Nothing
  <1> QED
    BY <1>1 DEF MInv, TypeOK, TogetherSet, CountersTrue, HeardCounted

LEMMA MonitorStep == MInv /\ [Next]_vars => MInv'
  <1> SUFFICES ASSUME MInv, [Next]_vars PROVE MInv'
    OBVIOUS
  <1>1. CASE UNCHANGED vars
    BY <1>1 DEF vars, counters, settings, readings, outputs,
       MInv, TypeOK, TogetherSet, CountersTrue, HeardCounted
  <1> QED
    BY <1>1, CountInv, ReadCommandInv, ChargerFrameInv, VoltageFrameInv, OtherFrameInv,
       StaleInv, NothingInv, PowerCycleInv DEF Next

-----------------------------------------------------------------------------
(* The theorems *)

(* Every variable keeps to its range: what is put into a short fits one,   *)
(* and connectedChargers stays a count.                                    *)
THEOREM MonitorTypeCorrect == Spec => []TypeOK
  <1>1. MInv => TypeOK
    BY DEF MInv
  <1> QED BY <1>1, MonitorInit, MonitorStep, PTL DEF Spec

(* No charge command leaves on readings of a bus that has been silent for  *)
(* its threshold, whatever order the frames of the two come in.            *)
THEOREM CommandsAreFresh == Spec => []HeardRecently
  <1>1. MInv => HeardRecently
    BY Constants DEF MInv, TypeOK, CountersTrue, HeardRecently, Sends, isReadyToCharge
  <1> QED BY <1>1, MonitorInit, MonitorStep, PTL DEF Spec

(* The chargers heard since the last command share the target: the counter *)
(* the watts are divided by is never less than their number.               *)
THEOREM TargetIsShared == Spec => SharedTarget
  <1>1. MInv /\ [Next]_vars =>
          [ Sends /\ heard # {} =>
              desiredOutputAmps' * Cardinality(heard) * Over(bikeVoltage, VOLT_UNIT)
                  <= targetWatts * VOLT_UNIT ]_vars
    <2> SUFFICES ASSUME MInv, [Next]_vars, ~UNCHANGED vars, Sends, heard # {}
                 PROVE  desiredOutputAmps' * Cardinality(heard) * Over(bikeVoltage, VOLT_UNIT)
                            <= targetWatts * VOLT_UNIT
      OBVIOUS
    <2>1. /\ targetWatts \in Nat /\ bikeVoltage \in Nat /\ bikeVoltage > MIN_VOLTS
          /\ Over(bikeVoltage, VOLT_UNIT) \in Int /\ targetWatts * VOLT_UNIT \in Nat
      <3>1. targetWatts \in Nat /\ bikeVoltage \in Nat /\ bikeVoltage > MIN_VOLTS
        BY SendsSettings
      <3>2. Over(bikeVoltage, VOLT_UNIT) \in Int
        BY <3>1, OverType, Constants
      <3>3. targetWatts * VOLT_UNIT \in Nat
        BY <3>1, Constants
      <3> QED BY <3>1, <3>2, <3>3
    <2>2. /\ Cardinality(heard) \in Nat /\ connectedChargers \in Nat
          /\ Cardinality(heard) <= connectedChargers /\ connectedChargers > 0
      <3>1. /\ IsFiniteSet(heard) /\ connectedChargers \in Nat
            /\ Cardinality(heard) <= connectedChargers
        BY Constants DEF MInv, HeardCounted, TypeOK
      <3>2. Cardinality(heard) \in Nat /\ Cardinality(heard) # 0
        BY <3>1, FS_CardinalityType, FS_EmptySet
      <3> QED BY <3>1, <3>2
    <2>3. pc = "count"
      BY DEF Sends
    <2>4. CASE Count
      <3>1. desiredOutputAmps' \in AmpsEach
        BY <2>4 DEF Count
      <3> QED BY <2>1, <2>2, <3>1, AmpsEachBounds
    <2>5. CASE PowerCycle
      <3>1. desiredOutputAmps' = 0
        BY <2>5 DEF PowerCycle
      <3> QED BY <2>1, <2>2, <3>1
    <2>6. Count \/ PowerCycle
      BY <2>3 DEF Next, ReadCommand, NoCommand, ChargerFrame, NoChargerFrame,
         VoltageFrame, OtherFrame, NoBikeFrame, Stale
    <2> QED BY <2>4, <2>5, <2>6
  <1> QED BY <1>1, MonitorInit, MonitorStep, PTL DEF Spec, SharedTarget

(* The output voltage and the end voltage it should be made from part in a *)
(* command of the user only, until the next frame calls setVoltageDiff.    *)
(* What they part to may be an end voltage of before or, when a command    *)
(* raises the end voltage over the reading a charger came back with, the   *)
(* zero of a reset.                                                        *)
THEOREM OutputKeepsUp == Spec => OutputFollowsEnd
  <1>1. MInv /\ [Next]_vars =>
          [ isReadyToCharge' /\ basis' # endVolts' =>
              \/ isReadyToCharge /\ basis # endVolts
              \/ pc = "user" /\ endVolts' # endVolts ]_vars
    <2> USE DEF counters, settings, readings, outputs
    <2> SUFFICES ASSUME MInv, [Next]_vars, isReadyToCharge', basis' # endVolts'
                 PROVE  \/ isReadyToCharge /\ basis # endVolts
                        \/ pc = "user" /\ endVolts' # endVolts
      OBVIOUS
    <2>1. CASE Count \/ OtherFrame \/ NoCommand \/ NoChargerFrame \/ NoBikeFrame
      BY <2>1 DEF Count, OtherFrame, NoCommand, NoChargerFrame, NoBikeFrame, Nothing,
         isReadyToCharge
    <2>2. ASSUME NEW c \in Commands, ReadCommand(c)
          PROVE  \/ isReadyToCharge /\ basis # endVolts
                 \/ pc = "user" /\ endVolts' # endVolts
      BY <2>2 DEF ReadCommand, isReadyToCharge
    <2>3. ASSUME NEW c \in Chargers, NEW v \in ChargerVolts, ChargerFrame(c, v)
          PROVE  FALSE
      BY <2>3 DEF ChargerFrame, SetVoltageDiff
    <2>4. ASSUME NEW v \in BikeVolts, VoltageFrame(v)
          PROVE  FALSE
      BY <2>4 DEF VoltageFrame, SetVoltageDiff
    <2>5. CASE Stale
      <3>1. ~ScStale /\ ~BikeStale
        BY <2>5, Constants DEF Stale, isReadyToCharge
      <3> QED BY <2>5, <3>1 DEF Stale, isReadyToCharge
    <2>6. ~PowerCycle
      BY Constants DEF PowerCycle, isReadyToCharge
    <2>7. CASE UNCHANGED vars
      BY <2>7 DEF vars, isReadyToCharge
    <2> QED BY <2>1, <2>2, <2>3, <2>4, <2>5, <2>6, <2>7 DEF Next
  <1> QED BY <1>1, MonitorInit, MonitorStep, PTL DEF Spec, OutputFollowsEnd
=============================================================================

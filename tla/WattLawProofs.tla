--------------------------- MODULE WattLawProofs ----------------------------
(***************************************************************************)
(* What the arithmetic of one pass returns, for all values of the #defines *)
(* that WattLaw's assumptions admit.                                       *)
(***************************************************************************)
EXTENDS WattLaw, TLAPS

(* A remainder keeps to the width it is taken modulo.                      *)
LEMMA ModRange ==
    ASSUME NEW a \in Int, NEW n \in Nat \ {0}
    PROVE  a % n \in 0..(n - 1)
  OBVIOUS

(* The wattage held over from the last pass, or measured, is a wattage.    *)
LEMMA HeldType ==
    ASSUME NEW amps \in UShort, NEW volts \in UShort, NEW lastWatts \in ULong
    PROVE  Held(Measured(amps, volts), lastWatts) \in ULong
  <1>1. amps * volts \in Int
    BY WidthAssumption DEF UShort
  <1>2. Measured(amps, volts) \in 0..(UINT_MOD - 1)
    BY <1>1, ModRange, WidthAssumption DEF Measured
  <1> QED
    BY <1>2, WidthAssumption DEF Held, ULong

(* The station's limit neither leaves the width of a long.                 *)
LEMMA StationLimitedType ==
    ASSUME NEW watts \in ULong, NEW station \in ULong
    PROVE  StationLimited(watts, station) \in ULong
  <1>1. /\ (watts + MAX_12V_WATTS) % ULONG_MOD \in ULong
        /\ (watts + RAMP_RATE) % ULONG_MOD \in ULong
        /\ (station - MAX_12V_WATTS) % ULONG_MOD \in ULong
    BY ModRange, WidthAssumption, LawAssumption DEF ULong
  <1> DEFINE sw == (watts + MAX_12V_WATTS) % ULONG_MOD
  <1>2. sw \in Int /\ station \in Int
    BY <1>1 DEF ULong
  <1>3. CASE sw < station
    BY <1>1, <1>3 DEF StationLimited
  <1>4. CASE sw > station
    BY <1>1, <1>2, <1>4 DEF StationLimited
  <1>5. CASE sw = station
    BY <1>1, <1>2, <1>5 DEF StationLimited
  <1> QED
    BY <1>2, <1>3, <1>4, <1>5

(* A cutback point takes watts away and never more than there are.         *)
LEMMA CutbackPointBounds ==
    ASSUME NEW i \in 1..CUTBACK_COUNT, NEW volts \in UShort, NEW watts \in ULong
    PROVE  /\ CutbackPoint(i, volts, watts) \in ULong
           /\ CutbackPoint(i, volts, watts) <= watts
  <1>1. /\ OUTPUT_WATTS_CUTBACK[i] \in Nat
        /\ OUTPUT_VOLTS_CUTBACK[i] \in Nat
        /\ RAMP_RATE <= OUTPUT_WATTS_CUTBACK[i]
        /\ RAMP_RATE \in Nat
    BY LawAssumption
  <1> QED
    BY <1>1, WidthAssumption DEF CutbackPoint, ULong, UShort

(* The five cutback points together only lower the wattage, and not below  *)
(* zero: the unsigned subtraction does not wrap.                           *)
LEMMA CutbackBounds ==
    ASSUME NEW volts \in UShort, NEW watts \in ULong
    PROVE  /\ Cutback(volts, watts) \in ULong
           /\ Cutback(volts, watts) <= watts
  <1> DEFINE w1 == CutbackPoint(1, volts, watts)
             w2 == CutbackPoint(2, volts, w1)
             w3 == CutbackPoint(3, volts, w2)
             w4 == CutbackPoint(4, volts, w3)
             w5 == CutbackPoint(5, volts, w4)
  <1>0. 1 \in 1..CUTBACK_COUNT /\ 2 \in 1..CUTBACK_COUNT /\ 3 \in 1..CUTBACK_COUNT
        /\ 4 \in 1..CUTBACK_COUNT /\ 5 \in 1..CUTBACK_COUNT
    BY DEF CUTBACK_COUNT
  <1>1. w1 \in ULong /\ w1 <= watts
    BY <1>0, CutbackPointBounds
  <1>2. w2 \in ULong /\ w2 <= w1
    <2> HIDE DEF w1
    <2> QED BY <1>0, <1>1, CutbackPointBounds
  <1>3. w3 \in ULong /\ w3 <= w2
    <2> HIDE DEF w2
    <2> QED BY <1>0, <1>2, CutbackPointBounds
  <1>4. w4 \in ULong /\ w4 <= w3
    <2> HIDE DEF w3
    <2> QED BY <1>0, <1>3, CutbackPointBounds
  <1>5. w5 \in ULong /\ w5 <= w4
    <2> HIDE DEF w4
    <2> QED BY <1>0, <1>4, CutbackPointBounds
  <1>6. Cutback(volts, watts) = w5
    BY DEF Cutback
  <1> HIDE DEF w1, w2, w3, w4, w5
  <1>7. w5 <= watts
    BY <1>1, <1>2, <1>3, <1>4, <1>5 DEF ULong
  <1> QED
    BY <1>5, <1>6, <1>7

(* A cutback point takes away what a ramp step has put on a wattage it     *)
(* applies to.                                                             *)
LEMMA CutbackPointUndoesRamp ==
    ASSUME NEW i \in 1..CUTBACK_COUNT, NEW volts \in UShort, NEW watts \in ULong,
           NEW held \in Nat, watts <= held + RAMP_RATE,
           volts > OUTPUT_VOLTS_CUTBACK[i], held > OUTPUT_WATTS_CUTBACK[i]
    PROVE  CutbackPoint(i, volts, watts) <= held
  <1>1. /\ OUTPUT_WATTS_CUTBACK[i] \in Nat /\ OUTPUT_VOLTS_CUTBACK[i] \in Nat
        /\ RAMP_RATE \in Nat /\ watts \in Nat
    BY LawAssumption, WidthAssumption DEF ULong
  <1> QED
    BY <1>1 DEF CutbackPoint

(* So does the loop over them, whichever points act before and after.      *)
LEMMA CutbackUndoesRamp ==
    ASSUME NEW volts \in UShort, NEW watts \in ULong,
           NEW held \in Nat, watts <= held + RAMP_RATE, OverCutback(volts, held)
    PROVE  Cutback(volts, watts) <= held
  <1> DEFINE w1 == CutbackPoint(1, volts, watts)
             w2 == CutbackPoint(2, volts, w1)
             w3 == CutbackPoint(3, volts, w2)
             w4 == CutbackPoint(4, volts, w3)
             w5 == CutbackPoint(5, volts, w4)
             Acts(i) == volts > OUTPUT_VOLTS_CUTBACK[i] /\ held > OUTPUT_WATTS_CUTBACK[i]
  <1>0. 1..CUTBACK_COUNT = {1, 2, 3, 4, 5}
    BY DEF CUTBACK_COUNT
  <1>1. \A i \in 1..CUTBACK_COUNT, w \in ULong : w <= held + RAMP_RATE =>
           /\ CutbackPoint(i, volts, w) \in ULong
           /\ CutbackPoint(i, volts, w) <= w
           /\ CutbackPoint(i, volts, w) <= held + RAMP_RATE
           /\ Acts(i) => CutbackPoint(i, volts, w) <= held
    <2> SUFFICES ASSUME NEW i \in 1..CUTBACK_COUNT, NEW w \in ULong, w <= held + RAMP_RATE
                 PROVE  /\ CutbackPoint(i, volts, w) \in ULong
                        /\ CutbackPoint(i, volts, w) <= w
                        /\ CutbackPoint(i, volts, w) <= held + RAMP_RATE
                        /\ Acts(i) => CutbackPoint(i, volts, w) <= held
      OBVIOUS
    <2>1. CutbackPoint(i, volts, w) \in ULong /\ CutbackPoint(i, volts, w) <= w
      BY CutbackPointBounds
    <2>2. CutbackPoint(i, volts, w) <= held + RAMP_RATE
      BY <2>1, LawAssumption, WidthAssumption DEF ULong
    <2> QED BY <2>1, <2>2, CutbackPointUndoesRamp
  <1> HIDE DEF Acts
  <1>2. w1 \in ULong /\ w1 <= held + RAMP_RATE /\ (Acts(1) => w1 <= held)
    BY <1>0, <1>1
  <1>3. w2 \in ULong /\ w2 <= w1 /\ w2 <= held + RAMP_RATE /\ (Acts(2) => w2 <= held)
    <2> HIDE DEF w1
    <2> QED BY <1>0, <1>1, <1>2
  <1>4. w3 \in ULong /\ w3 <= w2 /\ w3 <= held + RAMP_RATE /\ (Acts(3) => w3 <= held)
    <2> HIDE DEF w2
    <2> QED BY <1>0, <1>1, <1>3
  <1>5. w4 \in ULong /\ w4 <= w3 /\ w4 <= held + RAMP_RATE /\ (Acts(4) => w4 <= held)
    <2> HIDE DEF w3
    <2> QED BY <1>0, <1>1, <1>4
  <1>6. w5 \in ULong /\ w5 <= w4 /\ (Acts(5) => w5 <= held)
    <2> HIDE DEF w4
    <2> QED BY <1>0, <1>1, <1>5
  <1>7. Cutback(volts, watts) = w5
    BY DEF Cutback
  <1>8. Acts(1) \/ Acts(2) \/ Acts(3) \/ Acts(4) \/ Acts(5)
    BY <1>0 DEF OverCutback, Acts
  <1> HIDE DEF w1, w2, w3, w4, w5
  <1> QED
    BY <1>2, <1>3, <1>4, <1>5, <1>6, <1>7, <1>8, WidthAssumption DEF ULong

(* The wattage of a pass is a wattage, and none at all when the voltage is *)
(* under the minimum.                                                      *)
LEMMA PassWattsType ==
    ASSUME NEW amps \in UShort, NEW volts \in UShort,
           NEW lastWatts \in ULong, NEW station \in ULong
    PROVE  /\ PassWatts(amps, volts, lastWatts, station) \in ULong
           /\ volts < OUTPUT_VOLTS_MIN => PassWatts(amps, volts, lastWatts, station) = 0
  <1> DEFINE held == Held(Measured(amps, volts), lastWatts)
             limited == StationLimited(held, station)
             capped == IF volts > OUTPUT_VOLTS_MAX THEN 0 ELSE limited
  <1>1. held \in ULong
    BY HeldType
  <1>2. limited \in ULong
    <2> HIDE DEF held
    <2> QED BY <1>1, StationLimitedType
  <1>3. capped \in ULong
    <2> HIDE DEF limited
    <2> QED BY <1>2, WidthAssumption DEF ULong
  <1>4. Cutback(volts, capped) \in ULong
    <2> HIDE DEF capped
    <2> QED BY <1>3, CutbackBounds
  <1>5. PassWatts(amps, volts, lastWatts, station)
            = IF volts < OUTPUT_VOLTS_MIN THEN 0 ELSE Cutback(volts, capped)
    BY DEF PassWatts
  <1>6. 0 \in ULong
    BY WidthAssumption DEF ULong
  <1> HIDE DEF capped
  <1> QED
    BY <1>4, <1>5, <1>6

(* setChargingAmps, called with divisors above zero, returns a current.    *)
LEMMA ChargingAmpsType ==
    ASSUME NEW watts \in ULong, NEW volts \in Nat \ {0}, NEW count \in Nat \ {0}
    PROVE  ChargingAmps(watts, volts, count) \in UShort
  <1>1. watts \in Nat
    BY WidthAssumption DEF ULong
  <1>2. watts \div volts \in Int
    BY <1>1
  <1>3. (watts \div volts) \div count \in Int
    BY <1>2
  <1> QED
    BY <1>3, ModRange, WidthAssumption DEF ChargingAmps, UShort

-----------------------------------------------------------------------------
(* A target the unsigned arithmetic has room for: it pays for the 12 V     *)
(* supply, and two ramp steps over it still fit an unsigned long.          *)
SaneTarget(station) == /\ station \in Nat
                       /\ MAX_12V_WATTS <= station
                       /\ station + RAMP_RATE + RAMP_RATE <= ULONG_MOD

(* A wattage a pass under a sane target may have left.                     *)
SaneWatts(watts) == /\ watts \in Nat
                    /\ watts + MAX_12V_WATTS + RAMP_RATE < ULONG_MOD

(* A small number is its own remainder.                                    *)
LEMMA ModSmall ==
    ASSUME NEW a \in Nat, NEW n \in Nat \ {0}, a < n
    PROVE  a % n = a
  OBVIOUS

(* What the station's limit makes of a wattage when nothing wraps: at most *)
(* one ramp step more, less than a ramp step over the budget, and within   *)
(* the budget when the wattage was not.                                    *)
LEMMA StationLimitedBudget ==
    ASSUME NEW watts, SaneWatts(watts), NEW station, SaneTarget(station)
    PROVE  /\ StationLimited(watts, station) \in ULong
           /\ StationLimited(watts, station) <= watts + RAMP_RATE
           /\ StationLimited(watts, station) + MAX_12V_WATTS < station + RAMP_RATE
           /\ watts + MAX_12V_WATTS > station =>
                 StationLimited(watts, station) + MAX_12V_WATTS <= station
  <1>0. /\ watts \in Nat /\ station \in Nat
        /\ MAX_12V_WATTS \in Nat /\ RAMP_RATE \in Nat \ {0} /\ ULONG_MOD \in Nat \ {0}
        /\ watts + MAX_12V_WATTS + RAMP_RATE < ULONG_MOD
        /\ MAX_12V_WATTS <= station
        /\ station + RAMP_RATE + RAMP_RATE <= ULONG_MOD
    BY WidthAssumption, LawAssumption DEF SaneWatts, SaneTarget
  <1>1. (watts + MAX_12V_WATTS) % ULONG_MOD = watts + MAX_12V_WATTS
    <2>1. watts + MAX_12V_WATTS \in Nat /\ watts + MAX_12V_WATTS < ULONG_MOD
      BY <1>0
    <2> QED BY <1>0, <2>1, ModSmall
  <1>2. (watts + RAMP_RATE) % ULONG_MOD = watts + RAMP_RATE
    <2>1. watts + RAMP_RATE \in Nat /\ watts + RAMP_RATE < ULONG_MOD
      BY <1>0
    <2> QED BY <1>0, <2>1, ModSmall
  <1>3. (station - MAX_12V_WATTS) % ULONG_MOD = station - MAX_12V_WATTS
    <2>1. station - MAX_12V_WATTS \in Nat /\ station - MAX_12V_WATTS < ULONG_MOD
      BY <1>0
    <2> QED BY <1>0, <2>1, ModSmall
  <1>4. CASE watts + MAX_12V_WATTS < station
    <2>1. ~(watts + MAX_12V_WATTS > station)
      BY <1>0, <1>4
    <2>2. StationLimited(watts, station) = watts + RAMP_RATE
      BY <1>1, <1>2, <1>4, <2>1 DEF StationLimited
    <2> QED BY <1>0, <1>4, <2>2 DEF ULong
  <1>5. CASE watts + MAX_12V_WATTS > station
    <2>1. ~(watts + MAX_12V_WATTS < station)
      BY <1>0, <1>5
    <2>2. StationLimited(watts, station) = station - MAX_12V_WATTS
      BY <1>1, <1>3, <1>5, <2>1 DEF StationLimited
    <2> QED BY <1>0, <1>5, <2>2 DEF ULong
  <1>6. CASE watts + MAX_12V_WATTS = station
    <2>1. ~(watts + MAX_12V_WATTS < station) /\ ~(watts + MAX_12V_WATTS > station)
      BY <1>0, <1>6
    <2>2. StationLimited(watts, station) = watts
      BY <1>1, <2>1 DEF StationLimited
    <2> QED BY <1>0, <1>6, <2>2 DEF ULong
  <1> QED
    BY <1>0, <1>4, <1>5, <1>6

(* The same of a whole pass, whatever voltage and current it has read.     *)
LEMMA PassWattsBudget ==
    ASSUME NEW amps \in UShort, NEW volts \in UShort,
           NEW lastWatts, SaneWatts(lastWatts), NEW station, SaneTarget(station),
           UINT_MOD + MAX_12V_WATTS + RAMP_RATE <= ULONG_MOD
    PROVE  LET w == PassWatts(amps, volts, lastWatts, station) IN
           /\ w \in ULong
           /\ w <= Held(Measured(amps, volts), lastWatts) + RAMP_RATE
           /\ OverCutback(volts, Held(Measured(amps, volts), lastWatts)) =>
                 w <= Held(Measured(amps, volts), lastWatts)
           /\ w + MAX_12V_WATTS < station + RAMP_RATE
           /\ lastWatts + MAX_12V_WATTS > station => w + MAX_12V_WATTS <= station
  <1> DEFINE m == Measured(amps, volts)
             held == Held(m, lastWatts)
             limited == StationLimited(held, station)
             capped == IF volts > OUTPUT_VOLTS_MAX THEN 0 ELSE limited
             w == PassWatts(amps, volts, lastWatts, station)
  <1>0. /\ lastWatts \in Nat /\ station \in Nat
        /\ MAX_12V_WATTS \in Nat /\ RAMP_RATE \in Nat \ {0}
        /\ ULONG_MOD \in Nat \ {0} /\ UINT_MOD \in Nat \ {0}
        /\ lastWatts + MAX_12V_WATTS + RAMP_RATE < ULONG_MOD
        /\ MAX_12V_WATTS <= station
        /\ station + RAMP_RATE + RAMP_RATE <= ULONG_MOD
    BY WidthAssumption, LawAssumption DEF SaneWatts, SaneTarget
  <1>1. m \in 0..(UINT_MOD - 1)
    <2>1. amps * volts \in Int
      BY WidthAssumption DEF UShort
    <2> QED BY <1>0, <2>1, ModRange DEF Measured
  <1>2. held \in Nat /\ held >= lastWatts /\ SaneWatts(held)
    <2> HIDE DEF m
    <2> QED BY <1>0, <1>1 DEF Held, SaneWatts
  <1>3. /\ limited \in ULong
        /\ limited <= held + RAMP_RATE
        /\ limited + MAX_12V_WATTS < station + RAMP_RATE
        /\ held + MAX_12V_WATTS > station => limited + MAX_12V_WATTS <= station
    <2> HIDE DEF held
    <2> QED BY <1>2, StationLimitedBudget
  <1> HIDE DEF held, limited
  <1>4. capped \in ULong /\ capped <= limited
    BY <1>0, <1>3 DEF ULong
  <1>5. w \in ULong /\ w <= capped
    <2>1. w = IF volts < OUTPUT_VOLTS_MIN THEN 0 ELSE Cutback(volts, capped)
      BY DEF PassWatts, held, limited, m
    <2> HIDE DEF capped, w
    <2>2. Cutback(volts, capped) \in ULong /\ Cutback(volts, capped) <= capped
      BY <1>4, CutbackBounds
    <2> QED BY <1>0, <1>4, <2>1, <2>2 DEF ULong
  <1>6. OverCutback(volts, held) => w <= held
    <2>1. w = IF volts < OUTPUT_VOLTS_MIN THEN 0 ELSE Cutback(volts, capped)
      BY DEF PassWatts, held, limited, m
    <2> HIDE DEF capped, w
    <2>2. capped <= held + RAMP_RATE
      BY <1>0, <1>2, <1>3, <1>4 DEF ULong
    <2>3. OverCutback(volts, held) => Cutback(volts, capped) <= held
      BY <1>2, <1>4, <2>2, CutbackUndoesRamp
    <2> QED BY <1>2, <2>1, <2>3
  <1> HIDE DEF capped, w
  <1>7. /\ w <= held + RAMP_RATE
        /\ w + MAX_12V_WATTS < station + RAMP_RATE
        /\ lastWatts + MAX_12V_WATTS > station => w + MAX_12V_WATTS <= station
    BY <1>0, <1>2, <1>3, <1>4, <1>5 DEF ULong
  <1> QED
    BY <1>5, <1>6, <1>7 DEF w, held, m

(* The chargers' shares together stand for no more than the wattage.       *)
LEMMA ChargingAmpsShare ==
    ASSUME NEW watts \in ULong, NEW volts \in Nat \ {0}, NEW count \in Nat \ {0}
    PROVE  ChargingAmps(watts, volts, count) * count * volts <= watts
  <1> DEFINE q == watts \div volts
             r == q \div count
             a == r % USHORT_MOD
  <1>0. watts \in Nat /\ USHORT_MOD \in Nat \ {0}
    BY WidthAssumption DEF ULong
  <1>1. q \in Nat /\ q * volts <= watts
    BY <1>0
  <1>2. r \in Nat /\ r * count <= q
    <2> HIDE DEF q
    <2> QED BY <1>1
  <1>3. a \in Nat /\ a <= r
    <2> HIDE DEF r
    <2> QED BY <1>0, <1>2
  <1> HIDE DEF q, r, a
  <1>4. a * count <= r * count
    BY <1>2, <1>3
  <1>5. a * count \in Nat /\ r * count \in Nat /\ a * count <= q
    BY <1>1, <1>2, <1>3, <1>4
  <1>6. ASSUME NEW x \in Nat, x <= q PROVE x * volts <= q * volts
    BY <1>1, <1>6
  <1>7. (a * count) * volts <= q * volts
    BY <1>5, <1>6
  <1>8. (a * count) * volts \in Nat /\ q * volts \in Nat
    BY <1>1, <1>5
  <1>9. (a * count) * volts <= watts
    BY <1>0, <1>1, <1>7, <1>8
  <1> QED
    BY <1>9 DEF ChargingAmps, a, r, q
=============================================================================

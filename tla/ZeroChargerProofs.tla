-------------------------- MODULE ZeroChargerProofs --------------------------
(***************************************************************************)
(* Theorems about ZeroCharger, of all three sketches, for any frames and   *)
(* settings and any tables of cutback rows: the types, the answer to a     *)
(* pack over its 1C, and what the chargers are asked for in a heartbeat.   *)
(***************************************************************************)
EXTENDS ZeroCharger, WellFoundedInduction, TLAPS

(* The settings in force are a whole command in v2.x.  In v3 they are a    *)
(* mixture: it applies the last value of each characteristic.              *)
AllSettings == Settings \cup {V3Settings}

SettingsInv ==
    /\ sketch \in {"v2.5", "v2.6", "v3"}
    /\ set \in Sane
    /\ ble \in [end : UShort, watts : ULong, count : Nat]
    /\ \E s, t \in AllSettings : set.watts = s.watts /\ set.ramp = t.ramp
    /\ \E s \in AllSettings : ble.watts = s.watts

(* What a bike has told fits the variables it is put into; v3 has one pair *)
(* of temperatures.                                                        *)
KnownInv ==
    /\ packVolts \in [Packs -> Short]
    /\ packAmps \in [Packs -> Long]
    /\ packAH \in [Packs -> Nat \ {1}]
    /\ lowTemp \in [Packs -> Int]
    /\ highTemp \in [Packs -> Int]
    /\ \A p \in Packs : packAH[p] * 10 < USHORT_MOD
    /\ V3 => /\ lowTemp["powerTank"] = lowTemp["monolith"]
             /\ highTemp["powerTank"] = highTemp["monolith"]

NumbersInv ==
    /\ pc \in {"user", "charger", "bike", "tick", "poll"}
    /\ C_RATE \in Long
    /\ volts \in Short
    /\ watts \in ULong
    /\ chargingAmps \in UShort
    /\ heartbeat \in UShort

(* A report waits no longer than the counter it has brought forward, or,   *)
(* once v3 has started the counter again, than the rest of that pass.      *)
Beating == V3 /\ pc \in {"charger", "poll"}

ReportInv ==
    /\ delayItteration \in 1..START_ITTERATION
    /\ reported \in Int
    /\ reported <= HURRY_ITTERATION
    /\ reported >= 0 /\ ~Beating => reported + delayItteration <= HURRY_ITTERATION

ZInv == SettingsInv /\ KnownInv /\ NumbersInv /\ ReportInv

-----------------------------------------------------------------------------
(* The arithmetic *)

LEMMA Constants ==
    /\ BYTE_MOD \in Nat \ {0, 1} /\ USHORT_MOD = BYTE_MOD * BYTE_MOD
    /\ USHORT_MOD \in Nat \ {0} /\ 0 \in UShort /\ USHORT_MOD - 1 \in UShort
    /\ ULONG_MOD \in Nat \ {0} /\ 4 * USHORT_MOD <= ULONG_MOD
    /\ MAX_12V_WATTS \in Nat
    /\ HURRY_ITTERATION \in Nat \ {0} /\ DELAY_ITTERATION \in Nat \ {0}
    /\ START_ITTERATION \in Nat \ {0}
    /\ HURRY_ITTERATION < DELAY_ITTERATION /\ DELAY_ITTERATION <= START_ITTERATION
    /\ OUTPUT_VOLTS_DEFAULT \in UShort
  <1>1. /\ BYTE_MOD \in Nat \ {0, 1} /\ USHORT_MOD = BYTE_MOD * BYTE_MOD
        /\ ULONG_MOD \in Nat /\ 4 * USHORT_MOD <= ULONG_MOD
        /\ MAX_12V_WATTS \in Nat
        /\ HURRY_ITTERATION \in Nat \ {0} /\ DELAY_ITTERATION \in Nat \ {0}
        /\ START_ITTERATION \in Nat \ {0}
        /\ HURRY_ITTERATION < DELAY_ITTERATION /\ DELAY_ITTERATION <= START_ITTERATION
        /\ OUTPUT_VOLTS_DEFAULT \in UShort
    BY ZeroAssumption
  <1>2. USHORT_MOD \in Nat \ {0}
    BY <1>1
  <1>3. ULONG_MOD \in Nat \ {0}
    BY <1>1, <1>2
  <1>4. /\ USHORT_MOD \in Nat \ {0} /\ 0 \in UShort /\ USHORT_MOD - 1 \in UShort
    BY <1>2 DEF UShort
  <1> QED BY <1>1, <1>3, <1>4

(* The numbers of each width are naturals.                                 *)
LEMMA Widths ==
    /\ UShort \subseteq Nat /\ ULong \subseteq Nat
    /\ Short \subseteq Nat /\ Long \subseteq Nat
    /\ 0 \in Short /\ 0 \in Long /\ 0 \in ULong
  <1>1. USHORT_MOD \in Nat \ {0} /\ ULONG_MOD \in Nat \ {0}
    BY Constants
  <1>2. UShort \subseteq Nat /\ ULong \subseteq Nat
    BY <1>1 DEF UShort, ULong
  <1>3. Short \subseteq Nat /\ Long \subseteq Nat
    BY DEF Short, Long
  <1>4. 0 \in Short /\ 0 \in Long /\ 0 \in ULong
    BY <1>1 DEF Short, Long, ULong
  <1> QED BY <1>2, <1>3, <1>4

(* The settings in force as numbers: a ramp step does not wrap, nor do the *)
(* three that wind down.                                                   *)
LEMMA SetNumbers ==
    ASSUME SettingsInv
    PROVE  /\ set.end \in UShort /\ set.cRate \in Long
           /\ set.count \in Nat /\ set.cPlus \in Nat
           /\ set.watts \in Nat /\ set.watts \in ULong /\ set.ramp \in Nat
           /\ set.watts + 3 * set.ramp < ULONG_MOD
  <1>1. /\ set.end \in UShort /\ set.cRate \in Long
        /\ set.count \in Nat /\ set.cPlus \in 0..1
        /\ set.watts \in ULong /\ set.ramp \in ULong
    BY DEF SettingsInv, Sane
  <1>2. PICK s, t \in AllSettings : set.watts = s.watts /\ set.ramp = t.ramp
    BY DEF SettingsInv
  <1>3. s.watts + 3 * t.ramp < ULONG_MOD
    BY ZeroAssumption DEF AllSettings
  <1>4. set.watts + 3 * set.ramp < ULONG_MOD
    BY <1>2, <1>3, Zenon
  <1>5. set.cPlus \in Nat
    BY <1>1
  <1>6. set.watts \in Nat /\ set.ramp \in Nat
    BY <1>1, Widths, Zenon
  <1> QED BY <1>1, <1>4, <1>5, <1>6, Zenon

LEMMA RowTypes ==
    \A r \in VOLT_CUTBACK \cup COLD_CUTBACK \cup HOT_CUTBACK \cup PastEnd :
        r.at \in Nat /\ r.c \in Nat
  <1>1. VOLT_CUTBACK \cup COLD_CUTBACK \cup HOT_CUTBACK \cup PastEnd \subseteq Point
    BY ZeroAssumption
  <1> QED BY <1>1 DEF Point

(* A quotient is a natural, and times the divisor within the dividend.     *)
LEMMA Division ==
    ASSUME NEW a \in Nat, NEW b \in Nat \ {0}
    PROVE  a \div b \in Nat /\ (a \div b) * b <= a /\ a \div b <= a
  OBVIOUS

LEMMA ProductOrder ==
    ASSUME NEW a \in Nat, NEW b \in Nat, a <= b, NEW c \in Nat
    PROVE  a * c \in Nat /\ b * c \in Nat /\ a * c <= b * c
  OBVIOUS

(* A set of naturals has a least element, and Min returns it.              *)
LEMMA MinOfNaturals ==
    ASSUME NEW S, S \subseteq Nat, S # {}
    PROVE  Min(S) \in S /\ \A y \in S : Min(S) <= y
  <1> DEFINE R == OpToRel(<, Nat)
  <1>1. IsWellFoundedOn(R, Nat)
    BY NatLessThanWellFounded
  <1>2. \A x, y \in Nat : x < y => <<x, y>> \in R
    BY DEF OpToRel
  <1> HIDE DEF R
  <1>3. PICK x \in S : \A y \in S : ~ (<<y, x>> \in R)
    BY <1>1, WFMin
  <1>4. \A y \in S : x <= y
    <2>1. \A y \in S : y \in Nat /\ ~(y < x)
      BY <1>2, <1>3
    <2> QED
      BY <1>3, <2>1
  <1> QED
    BY <1>3, <1>4 DEF Min

(* The swapped bytes of a short are a short.                               *)
LEMMA AsSentType ==
    ASSUME NEW v \in UShort
    PROVE  AsSent(v) \in UShort
  <1> DEFINE lo == v % BYTE_MOD
             hi == (v \div BYTE_MOD) % BYTE_MOD
  <1>1. v \in Nat /\ BYTE_MOD \in Nat \ {0}
    BY Constants DEF UShort
  <1>2. lo \in 0..(BYTE_MOD - 1)
    BY <1>1
  <1>3. hi \in 0..(BYTE_MOD - 1)
    <2>1. v \div BYTE_MOD \in Nat
      BY <1>1
    <2> QED BY <1>1, <2>1
  <1>4. AsSent(v) = lo * BYTE_MOD + hi
    BY DEF AsSent
  <1> HIDE DEF lo, hi
  <1>5. lo * BYTE_MOD <= (BYTE_MOD - 1) * BYTE_MOD
    BY <1>1, <1>2
  <1>6. (BYTE_MOD - 1) * BYTE_MOD = USHORT_MOD - BYTE_MOD
    BY <1>1, Constants
  <1>7. lo * BYTE_MOD \in Nat
    BY <1>1, <1>2
  <1> QED BY <1>1, <1>3, <1>4, <1>5, <1>6, <1>7, Constants DEF UShort

(* The highest voltage is one of those compared and none is over it.       *)
LEMMA BatteryVoltsBounds ==
    ASSUME KnownInv, volts \in Short
    PROVE  /\ BatteryVolts \in Short
           /\ ~V3 => \A p \in Packs : packVolts[p] <= BatteryVolts
  <1> DEFINE m == packVolts["monolith"]
             t == packVolts["powerTank"]
             S == {volts} \cup {packVolts[p] : p \in Packs}
  <1>1. /\ m \in Short /\ t \in Short
        /\ m \in Nat /\ t \in Nat /\ volts \in Nat
    BY Widths DEF KnownInv, Packs
  <1>2. S = {volts, m, t}
    BY DEF Packs
  <1> HIDE DEF m, t, S
  <1>3. \E x \in S : \A y \in S : x >= y
    <2>1. CASE volts >= m /\ volts >= t
      BY <1>1, <1>2, <2>1
    <2>2. CASE m >= volts /\ m >= t
      BY <1>1, <1>2, <2>2
    <2>3. CASE t >= volts /\ t >= m
      BY <1>1, <1>2, <2>3
    <2> QED BY <1>1, <2>1, <2>2, <2>3
  <1>4. Max(S) \in S /\ \A y \in S : Max(S) >= y
    BY <1>3 DEF Max
  <1>5. Max(S) \in Short /\ Max(S) \in Nat
    BY <1>1, <1>2, <1>4
  <1>6. \A p \in Packs : packVolts[p] \in S
    BY DEF S
  <1>7. BatteryVolts = IF V3 THEN volts ELSE Max(S)
    BY DEF BatteryVolts, S
  <1> QED
    <2>1. CASE V3
      BY <1>7, <2>1
    <2>2. CASE ~V3
      <3>1. \A p \in Packs : packVolts[p] \in Nat /\ Max(S) >= packVolts[p]
        BY <1>4, <1>6, Widths DEF KnownInv
      <3> QED BY <1>5, <1>7, <2>2, <3>1
    <2> QED BY <2>1, <2>2

(* A row of a table allows a wattage, and without CPlus no more than its   *)
(* share of 1C at that voltage.                                            *)
LEMMA RowWattsBounds ==
    ASSUME SettingsInv, NEW c \in Nat, NEW rate \in Nat, NEW v \in Nat
    PROVE  /\ RowWatts(c, rate, v) \in Nat
           /\ RowWatts(c, rate, v) <= ((c * rate) \div 10) * v
  <1> DEFINE share == (c * rate) \div 10
             row   == RowAmps(c, rate)
  <1>1. share \in Nat
    <2>1. c * rate \in Nat
      OBVIOUS
    <2> QED BY <2>1
  <1>2. row = IF set.cPlus < 1 THEN Least(share, rate) ELSE share
    BY DEF RowAmps
  <1> HIDE DEF share, row
  <1>3. row \in Nat /\ row <= share
    BY <1>1, <1>2 DEF Least
  <1>4. row * v \in Nat /\ row * v <= share * v /\ share * v \in Nat
    BY <1>1, <1>3, ProductOrder
  <1>5. set.watts \in Nat
    BY SetNumbers
  <1>6. RowWatts(c, rate, v) = Least(row * v, set.watts)
    BY DEF RowWatts, row
  <1> QED BY <1>4, <1>5, <1>6 DEF Least, share

(* The rows that apply at a voltage, and what it takes for one to apply.   *)
Rows(v) == VoltRows(v) \cup ColdRows \cup HotRows

LEMMA RowsApply ==
    ASSUME KnownInv, NEW v \in Nat
    PROVE  /\ \A r \in Rows(v) : r.at \in Nat /\ r.c \in Nat
           /\ \A r \in VOLT_CUTBACK : v > r.at => r \in Rows(v)
           /\ \A p \in Packs : Counts(p) =>
                 /\ \A r \in COLD_CUTBACK : lowTemp[p] < r.at => r \in Rows(v)
                 /\ \A r \in HOT_CUTBACK : highTemp[p] > r.at => r \in Rows(v)
  <1>1. \A r \in Rows(v) : r.at \in Nat /\ r.c \in Nat
    BY RowTypes DEF Rows, VoltRows, ColdRows, HotRows
  <1>2. \A r \in VOLT_CUTBACK : v > r.at => r \in Rows(v)
    BY DEF Rows, VoltRows
  <1>3. ASSUME NEW p \in Packs, Counts(p), NEW r \in COLD_CUTBACK, lowTemp[p] < r.at
        PROVE  r \in ColdRows
    <2>1. CASE V3
      <3>1. lowTemp["monolith"] = lowTemp[p] /\ lowTemp[p] \in Int /\ r.at \in Nat
        BY <2>1, RowTypes DEF KnownInv, Packs
      <3> QED BY <1>3, <2>1, <3>1 DEF ColdRows
    <2>2. CASE ~V3
      BY <1>3, <2>2 DEF ColdRows
    <2> QED BY <2>1, <2>2
  <1>4. ASSUME NEW p \in Packs, Counts(p), NEW r \in HOT_CUTBACK, highTemp[p] > r.at
        PROVE  r \in HotRows
    <2>1. CASE V3
      <3>1. highTemp["monolith"] = highTemp[p] /\ highTemp[p] \in Int /\ r.at \in Nat
        BY <2>1, RowTypes DEF KnownInv, Packs
      <3> QED BY <1>4, <2>1, <3>1 DEF HotRows
    <2>2. CASE ~V3
      BY <1>4, <2>2 DEF HotRows
    <2> QED BY <2>1, <2>2
  <1> QED BY <1>1, <1>2, <1>3, <1>4 DEF Rows

(* The wattage after the ramp and the rows: within each row that applies,  *)
(* and less than two ramp steps over the old one.                          *)
LEMMA LimitedBounds ==
    ASSUME SettingsInv, watts \in Nat, NEW rate \in Nat, NEW v \in Nat
    PROVE  /\ Limited(rate, v) \in Nat
           /\ Limited(rate, v) <= watts + set.ramp
           /\ watts < ULONG_MOD => Limited(rate, v) < ULONG_MOD
           /\ \A r \in Rows(v) : Limited(rate, v) <= RowWatts(r.c, rate, v)
  <1> DEFINE ramped == IF watts < set.watts THEN watts + set.ramp ELSE watts
             rows   == Rows(v)
             S      == {ramped} \cup {RowWatts(r.c, rate, v) : r \in rows}
  <1>1. /\ set.ramp \in Nat /\ set.watts \in Nat
        /\ set.watts + 3 * set.ramp < ULONG_MOD /\ ULONG_MOD \in Nat
    BY SetNumbers, Constants
  <1>2. /\ ramped \in Nat /\ ramped <= watts + set.ramp
        /\ watts < ULONG_MOD => ramped < ULONG_MOD
    BY <1>1
  <1>3. \A r \in rows : r.c \in Nat
    BY RowTypes DEF Rows, VoltRows, ColdRows, HotRows
  <1> HIDE DEF ramped
  <1>4. \A r \in rows : RowWatts(r.c, rate, v) \in Nat
    BY <1>3, RowWattsBounds
  <1>5. S \subseteq Nat /\ ramped \in S /\ \A r \in Rows(v) : RowWatts(r.c, rate, v) \in S
    BY <1>2, <1>4
  <1>6. Limited(rate, v) = Min(S)
    BY DEF Limited, ramped, Rows
  <1> HIDE DEF S
  <1>7. Min(S) \in S /\ \A y \in S : Min(S) <= y
    BY <1>5, MinOfNaturals
  <1>8. Min(S) \in Nat /\ Min(S) <= ramped
    BY <1>5, <1>7
  <1>9. /\ Min(S) <= watts + set.ramp
        /\ watts < ULONG_MOD => Min(S) < ULONG_MOD
    BY <1>1, <1>2, <1>8
  <1>10. \A r \in Rows(v) : Min(S) <= RowWatts(r.c, rate, v)
    BY <1>5, <1>7, Zenon
  <1> QED BY <1>6, <1>8, <1>9, <1>10, Zenon

(* The wattage of a heartbeat: an unsigned long, and if the station has    *)
(* what the 12 V supplies take, within the station, within the rows, and   *)
(* lower than the last one when the voltage is over its end.               *)
LEMMA NewWattsBounds ==
    ASSUME SettingsInv, watts \in ULong, NEW rate \in Nat, NEW v \in Nat
    PROVE  /\ NewWatts(rate, v) \in ULong
           /\ Supplied =>
                /\ NewWatts(rate, v) <= set.watts
                /\ \A r \in Rows(v) : NewWatts(rate, v) <= RowWatts(r.c, rate, v)
                /\ OverEnd(v) /\ set.ramp > 0 =>
                      NewWatts(rate, v) < watts \/ NewWatts(rate, v) = 0
  <1> DEFINE limited == Limited(rate, v)
             down    == WoundDown(limited, v)
             wound   == IF Stopped(v) THEN 0 ELSE down
             supply  == MAX_12V_WATTS * set.count
             left    == (set.watts - supply) % ULONG_MOD
             new     == NewWatts(rate, v)
  <1>1. /\ set.ramp \in Nat /\ set.watts \in Nat /\ set.watts \in ULong
        /\ watts \in Nat /\ watts < ULONG_MOD /\ ULONG_MOD \in Nat \ {0}
        /\ set.watts < ULONG_MOD
    BY SetNumbers, Constants DEF ULong
  <1>2. /\ limited \in Nat /\ limited <= watts + set.ramp /\ limited < ULONG_MOD
        /\ \A r \in Rows(v) : limited <= RowWatts(r.c, rate, v)
    BY <1>1, LimitedBounds
  <1> HIDE DEF limited
  <1>3. /\ down \in Nat /\ down <= limited
        /\ OverEnd(v) /\ set.ramp > 0 => down < watts \/ down = 0
    BY <1>1, <1>2 DEF WoundDown
  <1> HIDE DEF down
  <1>4. /\ wound \in Nat /\ wound <= limited
        /\ OverEnd(v) /\ set.ramp > 0 => wound < watts \/ wound = 0
    BY <1>2, <1>3
  <1>5. supply \in Nat
    <2>1. set.count \in Nat
      BY SetNumbers
    <2> QED BY <2>1, Constants
  <1>6. /\ left \in ULong
        /\ supply <= set.watts => left \in Nat /\ left <= set.watts
    <2>1. \A n \in Int : n % ULONG_MOD \in 0..(ULONG_MOD - 1)
      BY <1>1
    <2>2. \A m, n \in Nat : n <= m /\ m < ULONG_MOD => (m - n) % ULONG_MOD = m - n
      BY <1>1
    <2> HIDE DEF supply
    <2>3. set.watts - supply \in Int
      BY <1>1, <1>5
    <2>4. left \in ULong
      BY <2>1, <2>3 DEF ULong
    <2>5. supply <= set.watts => left = set.watts - supply
      BY <1>1, <1>5, <2>2
    <2> HIDE DEF left
    <2> QED BY <1>1, <1>5, <2>4, <2>5
  <1>7. new = IF wound <= set.watts THEN wound
              ELSE IF sketch = "v2.6" THEN set.watts
              ELSE left
    BY DEF NewWatts, down, limited
  <1>8. Supplied => sketch = "v2.6" \/ (left \in Nat /\ left <= set.watts)
    BY <1>6 DEF Supplied
  <1> HIDE DEF wound, new, left, supply
  <1>9. new \in ULong
    BY <1>1, <1>2, <1>4, <1>6, <1>7 DEF ULong
  <1>10. Supplied => /\ new <= set.watts
                     /\ new <= wound \/ wound > set.watts
                     /\ new \in Nat /\ new <= wound
    BY <1>1, <1>4, <1>7, <1>8
  <1>11. Supplied /\ OverEnd(v) /\ set.ramp > 0 => new < watts \/ new = 0
    BY <1>1, <1>4, <1>10
  <1>12. ASSUME Supplied, NEW r \in Rows(v)
         PROVE  new <= RowWatts(r.c, rate, v)
    <2>1. r.c \in Nat
      BY RowTypes DEF Rows, VoltRows, ColdRows, HotRows
    <2>2. RowWatts(r.c, rate, v) \in Nat
      BY <2>1, RowWattsBounds
    <2> QED BY <1>2, <1>4, <1>10, <1>12, <2>2
  <1> QED BY <1>9, <1>10, <1>11, <1>12 DEF new

-----------------------------------------------------------------------------
(* The current of a heartbeat *)

(* 1C of the packs that have told theirs, or what C_RATE was.              *)
LEMMA RateBounds ==
    ASSUME KnownInv, C_RATE \in Long
    PROVE  /\ Rate \in Long /\ Rate \in Nat
           /\ ~V3 => \A p \in Packs : packAH[p] * 10 <= Rate \/ packAH[p] = 0
  <1> DEFINE m == packAH["monolith"]
             t == packAH["powerTank"]
  <1>1. /\ m \in Nat /\ t \in Nat
        /\ m * 10 < USHORT_MOD /\ t * 10 < USHORT_MOD
        /\ \A p \in Packs : packAH[p] = m \/ packAH[p] = t
    BY DEF KnownInv, Packs
  <1>2. Rate = IF ~V3 /\ \E p \in Packs : packAH[p] > 0 THEN (m + t) * 10 ELSE C_RATE
    BY DEF Rate
  <1> HIDE DEF m, t
  <1>3. /\ (m + t) * 10 \in Nat /\ m * 10 <= (m + t) * 10 /\ t * 10 <= (m + t) * 10
        /\ (m + t) * 10 \in Long
    BY <1>1, Constants DEF Long
  <1>4. Rate \in Long /\ Rate \in Nat
    BY <1>2, <1>3, Widths
  <1>5. ASSUME ~V3, NEW p \in Packs
        PROVE  packAH[p] * 10 <= Rate \/ packAH[p] = 0
    <2>1. CASE packAH[p] > 0
      BY <1>1, <1>2, <1>3, <1>5, <2>1
    <2>2. CASE ~(packAH[p] > 0)
      BY <1>1, <2>2
    <2> QED BY <2>1, <2>2
  <1> QED BY <1>4, <1>5

(* What setChargingAmps makes of the current the wattage allows, before it *)
(* is shared: less than 1C of a pack over its own, in v2.x; else no more   *)
(* than it was, and no more than the rate without CPlus.                   *)
LEMMA ReducedBounds ==
    ASSUME SettingsInv, KnownInv, NEW amps \in UShort, NEW rate \in Nat
    PROVE  /\ Reduced(amps, rate) \in UShort
           /\ V3 \/ (\A p \in Packs : ~Over(p)) =>
                 /\ Reduced(amps, rate) <= amps
                 /\ set.cPlus < 1 => Reduced(amps, rate) <= rate
           /\ ~V3 /\ (\E p \in Packs : Over(p)) =>
                 \E p \in Packs : Over(p) /\ Reduced(amps, rate) < packAH[p] * 10
  <1> DEFINE r == Reduced(amps, rate)
  <1>1. \A p \in Packs : Over(p) =>
           /\ (packAH[p] - 2) * 10 \in UShort
           /\ (packAH[p] - 2) * 10 < packAH[p] * 10
    <2> SUFFICES ASSUME NEW p \in Packs, Over(p)
                 PROVE  /\ (packAH[p] - 2) * 10 \in UShort
                        /\ (packAH[p] - 2) * 10 < packAH[p] * 10
      OBVIOUS
    <2>1. packAH[p] \in Nat /\ packAH[p] >= 2 /\ packAH[p] * 10 < USHORT_MOD
      BY DEF KnownInv, Over, Over1C
    <2> QED BY <2>1, Constants DEF UShort
  <1>2. "monolith" \in Packs /\ "powerTank" \in Packs
        /\ \A p \in Packs : p = "monolith" \/ p = "powerTank"
    BY DEF Packs
  <1>3. amps \in Nat /\ amps < USHORT_MOD
    BY Constants DEF UShort
  <1>4. CASE ~V3 /\ Over("powerTank")
    <2>1. r = (packAH["powerTank"] - 2) * 10
      BY <1>4 DEF Reduced
    <2> QED BY <1>1, <1>2, <1>4, <2>1
  <1>5. CASE ~V3 /\ ~Over("powerTank") /\ Over("monolith")
    <2>1. r = (packAH["monolith"] - 2) * 10
      BY <1>5 DEF Reduced
    <2> QED BY <1>1, <1>2, <1>5, <2>1
  <1>6. CASE V3 \/ (~Over("powerTank") /\ ~Over("monolith"))
    <2>1. r = IF set.cPlus < 1 THEN Least(amps, rate) ELSE amps
      BY <1>6 DEF Reduced
    <2>2. set.cPlus \in Nat
      BY SetNumbers
    <2>3. CASE set.cPlus < 1
      <3>1. r = Least(amps, rate)
        BY <2>1, <2>3
      <3>2. r \in Nat /\ r <= amps /\ r <= rate
        BY <1>3, <3>1 DEF Least
      <3> QED BY <1>2, <1>3, <1>6, <3>2, Constants DEF UShort
    <2>4. CASE ~(set.cPlus < 1)
      BY <1>2, <1>3, <1>6, <2>1, <2>4
    <2> QED BY <2>3, <2>4
  <1> QED BY <1>4, <1>5, <1>6

(* What a step of setChargingAmps leaves behind.                           *)
LEMMA SetChargingAmpsBounds ==
    ASSUME ZInv, SetChargingAmps
    PROVE  /\ volts' = BatteryVolts /\ volts' \in Short /\ volts' \in Nat
           /\ C_RATE' = Rate /\ C_RATE' \in Long /\ C_RATE' \in Nat
           /\ watts' = NewWatts(Rate, volts') /\ watts' \in ULong /\ watts' \in Nat
           /\ chargingAmps' \in UShort
           /\ volts' > 0 /\ set.count > 0 =>
                 \E amps \in UShort :
                    /\ amps <= watts' \div volts'
                    /\ Asked <= Reduced(amps, C_RATE')
  <1>1. /\ volts' = BatteryVolts /\ volts' \in Short /\ volts' \in Nat
        /\ C_RATE' = Rate /\ C_RATE' \in Long /\ C_RATE' \in Nat
    BY BatteryVoltsBounds, RateBounds, Widths DEF SetChargingAmps, ZInv, NumbersInv
  <1>2. /\ watts' = NewWatts(Rate, volts')
        /\ watts' \in ULong /\ watts' \in Nat
    BY <1>1, NewWattsBounds, Widths DEF SetChargingAmps, ZInv, NumbersInv
  <1>3. PICK amps \in Quotient(watts', volts') :
           chargingAmps' \in Shared(Reduced(amps % USHORT_MOD, C_RATE'))
    BY DEF SetChargingAmps
  <1> DEFINE short == amps % USHORT_MOD
             r     == Reduced(short, C_RATE')
  <1>4. amps \in Nat /\ (volts' > 0 => amps = watts' \div volts')
    <2>1. CASE volts' > 0
      <3>1. amps = watts' \div volts'
        BY <2>1 DEF Quotient
      <3> QED BY <1>1, <1>2, <2>1, <3>1, Division
    <2>2. CASE ~(volts' > 0)
      BY <2>2, Constants DEF Quotient, UShort
    <2> QED BY <2>1, <2>2
  <1>5. short \in UShort /\ short <= amps
    BY <1>4, Constants DEF UShort
  <1> HIDE DEF short
  <1>6. r \in UShort
    BY <1>1, <1>5, ReducedBounds DEF ZInv
  <1>7. chargingAmps' \in Quotient(r, set.count)
    BY <1>3 DEF Shared, short
  <1> HIDE DEF r
  <1>8. set.count \in Nat
    BY SetNumbers DEF ZInv
  <1>9. CASE set.count > 0
    <2>1. chargingAmps' = r \div set.count /\ r \in Nat
      BY <1>6, <1>7, <1>9, Constants DEF Quotient, UShort
    <2>2. chargingAmps' \in Nat /\ chargingAmps' * set.count <= r /\ chargingAmps' <= r
      BY <1>8, <1>9, <2>1, Division
    <2>3. chargingAmps' \in UShort
      BY <1>6, <2>2, Constants DEF UShort
    <2>4. Asked <= r
      BY <2>2 DEF Asked
    <2> QED BY <1>1, <1>2, <1>4, <1>5, <2>3, <2>4 DEF r
  <1>10. CASE set.count = 0
    BY <1>1, <1>2, <1>7, <1>10, Constants DEF Quotient
  <1> QED BY <1>8, <1>9, <1>10

-----------------------------------------------------------------------------
(* The invariant, action by action *)

LEMMA ZeroInit == Init => ZInv
  <1> SUFFICES ASSUME Init PROVE ZInv
    OBVIOUS
  <1>1. Settings \subseteq Sane /\ V3Settings \in Sane
    BY ZeroAssumption
  <1>2. SettingsInv
    <2>1. set \in AllSettings /\ set \in Sane
      BY <1>1 DEF Init, AllSettings
    <2>2. /\ ble \in [end : UShort, watts : ULong, count : Nat]
          /\ V3Settings \in AllSettings /\ ble.watts = V3Settings.watts
      BY <1>1 DEF Init, AllSettings, Sane
    <2> QED BY <2>1, <2>2 DEF Init, SettingsInv
  <1>3. KnownInv
    BY Constants, Widths DEF Init, KnownInv, Both, Packs
  <1>4. NumbersInv
    <2>1. set.end \in UShort /\ set.cRate \in Long
      BY <1>2, SetNumbers
    <2>2. heartbeat \in UShort
      BY <2>1, AsSentType, Constants DEF Init
    <2> QED BY <2>1, <2>2, Constants, Widths DEF Init, NumbersInv
  <1>5. ReportInv
    BY Constants DEF Init, ReportInv
  <1> QED BY <1>2, <1>3, <1>4, <1>5 DEF ZInv

LEMMA ReadCommandInv ==
    ASSUME ZInv, NEW s \in Settings, ReadCommand(s)
    PROVE  ZInv'
  <1>1. s \in Sane
    BY ZeroAssumption
  <1>2. s.end \in UShort /\ s.cRate \in Long /\ set.end \in UShort
    BY <1>1, SetNumbers DEF Sane, ZInv
  <1>3. /\ ~V3 /\ C_RATE' = s.cRate
        /\ set' = [s EXCEPT !.end = IF Taken(s.end) THEN s.end ELSE set.end]
        /\ UNCHANGED <<sketch, pc, ble, volts, known, watts, chargingAmps,
                       delayItteration, reported>>
    BY DEF ReadCommand
  <1>4. SettingsInv'
    <2>1. set' \in Sane /\ set'.watts = s.watts /\ set'.ramp = s.ramp
      BY <1>1, <1>2, <1>3 DEF Sane
    <2>2. s \in AllSettings
      BY DEF AllSettings
    <2> QED BY <1>3, <2>1, <2>2 DEF ZInv, SettingsInv
  <1>5. heartbeat' \in UShort
    BY <1>2, AsSentType DEF ReadCommand, ZInv, NumbersInv
  <1>6. NumbersInv'
    BY <1>2, <1>3, <1>5 DEF ZInv, NumbersInv
  <1>7. KnownInv' /\ ReportInv'
    BY <1>3 DEF ZInv, KnownInv, ReportInv, Beating, V3, known
  <1> QED BY <1>4, <1>6, <1>7 DEF ZInv

(* One characteristic of v3, or none: the settings take on what all three  *)
(* hold, or keep what they have.                                           *)
LEMMA ApplyInv ==
    ASSUME SettingsInv, UNCHANGED sketch,
           ble' \in [end : UShort, watts : ULong, count : Nat],
           \E s \in AllSettings : ble'.watts = s.watts,
           Apply(ble') \/ UNCHANGED set
    PROVE  SettingsInv'
  <1>1. set' \in Sane /\ set'.ramp = set.ramp /\ set'.watts \in {set.watts, ble'.watts}
    BY DEF SettingsInv, Apply, Sane
  <1>2. \E s, t \in AllSettings : set'.watts = s.watts /\ set'.ramp = t.ramp
    BY <1>1 DEF SettingsInv
  <1> QED BY <1>1, <1>2 DEF SettingsInv

LEMMA WriteInv ==
    ASSUME ZInv, \/ \E s \in Settings, field \in {"end", "watts", "count"} : Write(field, s)
                 \/ WriteUnits
    PROVE  ZInv'
  <1>1. /\ V3
        /\ ble \in [end : UShort, watts : ULong, count : Nat]
        /\ \E s \in AllSettings : ble.watts = s.watts
    BY DEF Write, WriteUnits, ZInv, SettingsInv
  <1>2. /\ UNCHANGED <<sketch, pc, C_RATE, volts, known, watts, chargingAmps,
                       delayItteration, heartbeat, reported>>
        /\ ble' \in [end : UShort, watts : ULong, count : Nat]
        /\ \E t \in AllSettings : ble'.watts = t.watts
        /\ Apply(ble') \/ UNCHANGED set
    <2>1. ASSUME NEW s \in Settings, NEW field \in {"end", "watts", "count"}, Write(field, s)
          PROVE  /\ UNCHANGED <<sketch, pc, C_RATE, volts, known, watts, chargingAmps,
                                delayItteration, heartbeat, reported>>
                 /\ ble' \in [end : UShort, watts : ULong, count : Nat]
                 /\ \E t \in AllSettings : ble'.watts = t.watts
                 /\ Apply(ble') \/ UNCHANGED set
      <3>1. s.end \in UShort /\ s.watts \in ULong /\ s.count \in Nat /\ s \in AllSettings
        BY ZeroAssumption DEF Sane, AllSettings
      <3>2. ble' = [ble EXCEPT ![field] = s[field]]
        BY <2>1 DEF Write
      <3>3. CASE field = "end"
        BY <1>1, <2>1, <3>1, <3>2, <3>3 DEF Write
      <3>4. CASE field = "watts"
        BY <1>1, <2>1, <3>1, <3>2, <3>4 DEF Write
      <3>5. CASE field = "count"
        BY <1>1, <2>1, <3>1, <3>2, <3>5 DEF Write
      <3> QED BY <3>3, <3>4, <3>5
    <2>2. CASE WriteUnits
      BY <1>1, <2>2 DEF WriteUnits
    <2> QED BY <2>1, <2>2
  <1>3. SettingsInv'
    BY <1>1, <1>2, ApplyInv DEF ZInv
  <1>4. KnownInv' /\ NumbersInv' /\ ReportInv'
    BY <1>2 DEF ZInv, KnownInv, NumbersInv, ReportInv, Beating, V3, known
  <1> QED BY <1>3, <1>4 DEF ZInv

(* Steps that go on to the next part of the pass, or change volts only.    *)
LEMMA PassOnInv ==
    ASSUME ZInv,
           UserDone \/ Drained \/ \E v \in ChargerVolts : ChargerFrame(v)
    PROVE  ZInv'
  <1>1. /\ UNCHANGED <<sketch, set, C_RATE, ble, known, watts, chargingAmps,
                       delayItteration, heartbeat, reported>>
        /\ pc' \in {"user", "charger", "bike", "tick", "poll"}
        /\ Beating' => Beating
        /\ Beating => Beating'
        /\ volts' \in Short
    <2>1. CASE UserDone
      BY <2>1 DEF UserDone, ZInv, NumbersInv, Beating, V3
    <2>2. CASE Drained
      BY <2>2 DEF Drained, ZInv, NumbersInv, Beating, V3
    <2>3. ASSUME NEW v \in ChargerVolts, ChargerFrame(v)
          PROVE  /\ UNCHANGED <<sketch, pc, set, C_RATE, ble, known, watts, chargingAmps,
                                delayItteration, heartbeat, reported>>
                 /\ volts' \in Short
      BY <2>3, ZeroAssumption DEF ChargerFrame, ZInv, NumbersInv
    <2> QED BY <2>1, <2>2, <2>3 DEF ZInv, NumbersInv, Beating, V3
  <1>2. SettingsInv' /\ KnownInv'
    BY <1>1 DEF ZInv, SettingsInv, KnownInv, V3, known
  <1>3. NumbersInv' /\ ReportInv'
    BY <1>1 DEF ZInv, NumbersInv, ReportInv
  <1> QED BY <1>2, <1>3 DEF ZInv

LEMMA AbsType ==
    ASSUME NEW n \in Int, 2 * n < ULONG_MOD, -2 * n < ULONG_MOD
    PROVE  Abs(n) \in Long
  BY Constants DEF Abs, Long

LEMMA VoltageFrameInv ==
    ASSUME KnownInv, volts \in Short, V3' = V3,
           NEW p \in Packs, NEW v \in Short, VoltageFrame(p, v)
    PROVE  KnownInv' /\ volts' \in Short
  <1>1. volts' \in Short /\ packVolts' \in [Packs -> Short]
    BY DEF VoltageFrame, KnownInv, Packs
  <1>2. UNCHANGED <<packAmps, packAH, lowTemp, highTemp>>
    BY DEF VoltageFrame
  <1> QED BY <1>1, <1>2 DEF KnownInv

(* The report of a pack over its 1C finds the next heartbeat near, or      *)
(* brings it near.                                                         *)
LEMMA ActiveFrameInv ==
    ASSUME KnownInv, ReportInv, chargingAmps \in UShort, V3' = V3, ~Beating, ~Beating',
           NEW p \in Packs, NEW amps \in Int, 2 * amps < ULONG_MOD, -2 * amps < ULONG_MOD,
           NEW low \in Int, NEW high \in Int,
           ActiveFrame(p, amps, low, high)
    PROVE  KnownInv' /\ ReportInv' /\ chargingAmps' \in UShort
  <1> DEFINE over  == Over1C(packAH[p], Abs(amps))
             hurry == Hurried(over)
             at    == IF V3 THEN Packs ELSE {p}
  <1>1. /\ packAmps' = [packAmps EXCEPT ![p] = Abs(amps)]
        /\ lowTemp' = [q \in Packs |-> IF q \in at THEN low ELSE lowTemp[q]]
        /\ highTemp' = [q \in Packs |-> IF q \in at THEN high ELSE highTemp[q]]
        /\ delayItteration' = IF hurry THEN HURRY_ITTERATION ELSE delayItteration
        /\ chargingAmps' = IF V3 /\ hurry THEN (packAH[p] - 2) * 10 ELSE chargingAmps
        /\ reported' = IF over /\ reported < 0 THEN 0 ELSE reported
        /\ UNCHANGED <<C_RATE, volts, packVolts, packAH>>
    BY DEF ActiveFrame
  <1>2. hurry <=> (over /\ delayItteration > HURRY_ITTERATION)
    BY DEF Hurried
  <1>3. /\ over => packAH[p] > 0
        /\ V3 => at = Packs
    BY DEF Over1C
  <1> HIDE DEF over, hurry, at
  <1>4. KnownInv'
    <2>1. /\ packAmps' \in [Packs -> Long]
          /\ lowTemp' \in [Packs -> Int] /\ highTemp' \in [Packs -> Int]
      BY <1>1, AbsType DEF KnownInv
    <2>2. V3' => /\ lowTemp'["powerTank"] = lowTemp'["monolith"]
                 /\ highTemp'["powerTank"] = highTemp'["monolith"]
      BY <1>1, <1>3 DEF Packs
    <2> QED BY <1>1, <2>1, <2>2 DEF KnownInv
  <1>5. chargingAmps' \in UShort
    <2>1. packAH[p] \in Nat \ {1} /\ packAH[p] * 10 < USHORT_MOD
      BY DEF KnownInv
    <2> QED BY <1>1, <1>2, <1>3, <2>1, Constants DEF UShort
  <1>6. ReportInv'
    BY <1>1, <1>2, Constants DEF ReportInv
  <1> QED BY <1>4, <1>5, <1>6

LEMMA ConfigFrameInv ==
    ASSUME KnownInv, C_RATE \in Long, V3' = V3,
           NEW p \in Packs, NEW ah \in Nat \ {1}, ah * 10 < USHORT_MOD, ConfigFrame(p, ah)
    PROVE  KnownInv' /\ C_RATE' \in Long
  <1>1. packAH' = [packAH EXCEPT ![p] = ah] /\ UNCHANGED <<packVolts, packAmps, lowTemp, highTemp>>
    BY DEF ConfigFrame
  <1>2. KnownInv'
    BY <1>1 DEF KnownInv
  <1>3. /\ packAH'["monolith"] \in Nat /\ packAH'["powerTank"] \in Nat
        /\ packAH'["monolith"] * 10 < USHORT_MOD /\ packAH'["powerTank"] * 10 < USHORT_MOD
    BY <1>2 DEF KnownInv, Packs
  <1>4. \A m, t \in Nat : m * 10 < USHORT_MOD /\ t * 10 < USHORT_MOD => (m + t) * 10 \in Long
    BY Constants DEF Long
  <1> QED BY <1>2, <1>3, <1>4 DEF ConfigFrame

LEMMA BikeFrameInv ==
    ASSUME ZInv, NEW f \in BikeFrames, BikeFrame(f)
    PROVE  ZInv'
  <1>1. /\ pc = "bike" /\ UNCHANGED <<sketch, pc, set, ble, watts, heartbeat>>
        /\ f.pack \in Packs
    BY ZeroAssumption DEF BikeFrame
  <1>2. SettingsInv' /\ V3' = V3 /\ ~Beating /\ ~Beating'
    BY <1>1 DEF ZInv, SettingsInv, V3, Beating
  <1>3. KnownInv' /\ ReportInv' /\ volts' \in Short /\ C_RATE' \in Long /\ chargingAmps' \in UShort
    <2>0. /\ KnownInv /\ ReportInv /\ volts \in Short /\ C_RATE \in Long
          /\ chargingAmps \in UShort
      BY DEF ZInv, NumbersInv
    <2>1. CASE f.kind = "voltage" /\ VoltageFrame(f.pack, f.volts)
      <3>1. f.volts \in Short
        BY <2>1, ZeroAssumption
      <3>2. KnownInv' /\ volts' \in Short
        BY <1>1, <1>2, <2>0, <2>1, <3>1, VoltageFrameInv
      <3> QED BY <1>2, <2>0, <2>1, <3>2 DEF VoltageFrame, ReportInv
    <2>2. ASSUME f.kind = "active",
                 NEW low \in AsRead(f.low), NEW high \in AsRead(f.high),
                 ActiveFrame(f.pack, f.amps, low, high)
          PROVE  KnownInv' /\ ReportInv' /\ volts' \in Short /\ C_RATE' \in Long
                 /\ chargingAmps' \in UShort
      <3>1. /\ f.amps \in Int /\ 2 * f.amps < ULONG_MOD /\ -2 * f.amps < ULONG_MOD
            /\ low \in Int /\ high \in Int
        <4>1. /\ f.amps \in Int /\ 2 * f.amps < ULONG_MOD /\ -2 * f.amps < ULONG_MOD
              /\ f.low \in Int /\ f.high \in Int
          <5>1. /\ f.amps \in Int /\ 2 * f.amps < ULONG_MOD /\ -2 * f.amps < ULONG_MOD
                /\ {f.low, f.high} \subseteq 0..255
            BY <2>2, ZeroAssumption
          <5> QED BY <5>1
        <4>2. Misread \subseteq Int
          BY ZeroAssumption
        <4> QED BY <2>2, <4>1, <4>2 DEF AsRead
      <3>2. KnownInv' /\ ReportInv' /\ chargingAmps' \in UShort
        BY <1>1, <1>2, <2>0, <2>2, <3>1, ActiveFrameInv
      <3> QED BY <2>0, <2>2, <3>2 DEF ActiveFrame
    <2>3. CASE f.kind = "config" /\ ConfigFrame(f.pack, f.AH)
      <3>1. f.AH \in Nat \ {1} /\ f.AH * 10 < USHORT_MOD
        BY <2>3, ZeroAssumption
      <3>2. KnownInv' /\ C_RATE' \in Long
        BY <1>1, <1>2, <2>0, <2>3, <3>1, ConfigFrameInv
      <3> QED BY <1>2, <2>0, <2>3, <3>2 DEF ConfigFrame, ReportInv
    <2> QED BY <2>1, <2>2, <2>3 DEF BikeFrame
  <1>4. NumbersInv'
    BY <1>1, <1>3 DEF ZInv, NumbersInv
  <1> QED BY <1>2, <1>3, <1>4 DEF ZInv

LEMMA TickInv ==
    ASSUME ZInv, NotDue \/ BeatDue \/ SuperCharge
    PROVE  ZInv'
  <1>1. /\ UNCHANGED <<sketch, set, C_RATE, ble, volts, known, watts, chargingAmps>>
        /\ pc' \in {"user", "charger"}
        /\ delayItteration \in 1..START_ITTERATION /\ reported \in Int
    BY DEF NotDue, BeatDue, SuperCharge, ZInv, ReportInv
  <1>2. SettingsInv' /\ KnownInv'
    BY <1>1 DEF ZInv, SettingsInv, KnownInv, V3, known
  <1>3. heartbeat' \in UShort
    <2>1. set.end \in UShort
      BY SetNumbers DEF ZInv
    <2> QED BY <2>1, AsSentType DEF NotDue, BeatDue, SuperCharge, ZInv, NumbersInv
  <1>4. NumbersInv'
    BY <1>1, <1>3 DEF ZInv, NumbersInv
  <1>5. ReportInv'
    <2>1. CASE NotDue
      BY <1>1, <2>1, Constants DEF NotDue, Due, ZInv, ReportInv, Beating
    <2>2. CASE BeatDue
      BY <1>1, <2>2, Constants DEF BeatDue, ZInv, ReportInv, Beating, V3
    <2>3. CASE SuperCharge
      BY <1>1, <2>3, Constants DEF SuperCharge, ZInv, ReportInv, Beating
    <2> QED BY <2>1, <2>2, <2>3
  <1> QED BY <1>2, <1>4, <1>5 DEF ZInv

LEMMA ComputeInv ==
    ASSUME ZInv, Beat \/ SuperChargerLoop
    PROVE  ZInv'
  <1>1. /\ SetChargingAmps
        /\ UNCHANGED <<sketch, set, ble, known, heartbeat>>
        /\ pc' \in {"user", "poll"}
    BY DEF Beat, SuperChargerLoop
  <1>2. SettingsInv' /\ KnownInv'
    BY <1>1 DEF ZInv, SettingsInv, KnownInv, V3, known
  <1>3. NumbersInv'
    BY <1>1, SetChargingAmpsBounds DEF ZInv, NumbersInv
  <1>4. ReportInv'
    <2>1. CASE Beat
      BY <2>1, Constants DEF Beat, ZInv, ReportInv, Beating
    <2>2. CASE SuperChargerLoop
      BY <2>2, Constants DEF SuperChargerLoop, ZInv, ReportInv, Beating, V3
    <2> QED BY <2>1, <2>2, <1>1 DEF Beat, SuperChargerLoop
  <1> QED BY <1>2, <1>3, <1>4 DEF ZInv

LEMMA ZeroStep == ZInv /\ [Next]_vars => ZInv'
  <1> SUFFICES ASSUME ZInv, [Next]_vars PROVE ZInv'
    OBVIOUS
  <1>1. CASE UNCHANGED vars
    BY <1>1 DEF vars, known, ZInv, SettingsInv, KnownInv, NumbersInv, ReportInv, V3, Beating
  <1> QED
    BY <1>1, ReadCommandInv, WriteInv, PassOnInv, BikeFrameInv, TickInv, ComputeInv DEF Next

-----------------------------------------------------------------------------
(* The theorems *)

(* The step that works out the current is setChargingAmps.                 *)
LEMMA OnlyCompute ==
    ASSUME ZInv, [Next]_vars, Computes
    PROVE  SetChargingAmps \/ UNCHANGED vars
  <1>1. CASE ~V3 /\ pc = "tick" /\ Due
    BY <1>1 DEF Next, ReadCommand, Write, WriteUnits, UserDone, ChargerFrame, BikeFrame,
       Drained, NotDue, Beat, BeatDue, SuperChargerLoop, SuperCharge
  <1>2. CASE V3 /\ pc = "charger" /\ pc' = "poll"
    BY <1>2 DEF Next, ReadCommand, Write, WriteUnits, UserDone, ChargerFrame, BikeFrame,
       Drained, NotDue, Beat, BeatDue, SuperChargerLoop, SuperCharge
  <1> QED BY <1>1, <1>2 DEF Computes

(* What such a step asks for, with no division by zero in it.              *)
LEMMA AskedBounds ==
    ASSUME ZInv, SetChargingAmps, Divided
    PROVE  /\ Asked \in Nat
           /\ volts' \in Nat \ {0} /\ watts' \in Nat /\ set.watts \in Nat
           /\ Supplied => watts' <= set.watts
           /\ C_RATE' \in Nat
           /\ V3 \/ (\A p \in Packs : ~Over(p)) => Asked <= watts' \div volts'
           /\ set.cPlus < 1 => Asked <= C_RATE'
           /\ ~V3 /\ (\E p \in Packs : Over(p)) =>
                 \E p \in Packs : Over(p) /\ Asked < packAH[p] * 10
  <1>0. /\ SettingsInv /\ KnownInv /\ C_RATE \in Long /\ watts \in ULong
        /\ Rate \in Nat
    BY RateBounds DEF ZInv, NumbersInv
  <1>1. PICK amps \in UShort : amps <= watts' \div volts' /\ Asked <= Reduced(amps, C_RATE')
    BY SetChargingAmpsBounds DEF Divided
  <1>2. /\ volts' \in Nat \ {0} /\ watts' \in Nat /\ watts' = NewWatts(Rate, volts')
        /\ C_RATE' \in Nat /\ C_RATE' = Rate /\ chargingAmps' \in UShort
    BY SetChargingAmpsBounds DEF Divided
  <1>3. /\ set.watts \in Nat /\ set.count \in Nat /\ set.cPlus \in Nat
        /\ Supplied => watts' <= set.watts
    BY <1>0, <1>2, SetNumbers, NewWattsBounds
  <1>4. Asked \in Nat
    BY <1>2, <1>3, Constants DEF Asked, UShort
  <1> DEFINE r == Reduced(amps, C_RATE')
             q == watts' \div volts'
  <1>5. /\ r \in UShort
        /\ V3 \/ (\A p \in Packs : ~Over(p)) =>
              r <= amps /\ (set.cPlus < 1 => r <= C_RATE')
        /\ ~V3 /\ (\E p \in Packs : Over(p)) =>
              \E p \in Packs : Over(p) /\ r < packAH[p] * 10
    BY <1>0, <1>1, <1>2, ReducedBounds
  <1>6. r \in Nat /\ amps \in Nat /\ q \in Nat /\ amps <= q /\ Asked <= r
    <2>1. q \in Nat
      BY <1>2, Division
    <2>2. r \in Nat /\ amps \in Nat
      BY <1>5, Constants DEF UShort
    <2> QED BY <1>1, <2>1, <2>2
  <1> HIDE DEF r, q
  <1>7. V3 \/ (\A p \in Packs : ~Over(p)) =>
           Asked <= q /\ (set.cPlus < 1 => Asked <= C_RATE')
    <2> SUFFICES ASSUME V3 \/ (\A p \in Packs : ~Over(p))
                 PROVE  Asked <= q /\ (set.cPlus < 1 => Asked <= C_RATE')
      OBVIOUS
    <2>1. r <= amps /\ (set.cPlus < 1 => r <= C_RATE')
      BY <1>5
    <2> QED BY <1>2, <1>4, <1>6, <2>1
  <1>8. ASSUME ~V3, \E p \in Packs : Over(p)
        PROVE  \E p \in Packs : Over(p) /\ Asked < packAH[p] * 10 /\ Asked <= C_RATE'
    <2>1. PICK p \in Packs : Over(p) /\ r < packAH[p] * 10
      BY <1>5, <1>8
    <2>2. packAH[p] \in Nat /\ packAH[p] > 0
      BY <1>0, <2>1 DEF KnownInv, Over, Over1C
    <2>3. packAH[p] * 10 <= C_RATE'
      BY <1>0, <1>2, <1>8, <2>2, RateBounds
    <2> QED BY <1>2, <1>4, <1>6, <2>1, <2>2, <2>3
  <1> QED BY <1>2, <1>3, <1>4, <1>7, <1>8 DEF q

(* The widths of all three sketches: the volts stay within a short, the    *)
(* rate within a long, watts within an unsigned long although v2.5 and v3  *)
(* let it wrap, the current and the voltage of a heartbeat within unsigned *)
(* shorts, and the counter of passes never reaches zero.                   *)
THEOREM ZeroTypeCorrect == Spec => []TypeOK
  <1>1. ASSUME ZInv PROVE TypeOK
    <2>1. packAH \in [Packs -> Long \ {1}]
      <3>1. \A p \in Packs : packAH[p] \in Nat \ {1} /\ packAH[p] * 10 < USHORT_MOD
        BY <1>1 DEF ZInv, KnownInv
      <3>2. \A n \in Nat : n * 10 < USHORT_MOD => n \in Long
        BY Constants DEF Long
      <3> QED BY <1>1, <3>1, <3>2 DEF ZInv, KnownInv
    <2> QED BY <1>1, <2>1 DEF ZInv, SettingsInv, KnownInv, NumbersInv, ReportInv, TypeOK
  <1> QED BY <1>1, ZeroInit, ZeroStep, PTL DEF Spec

(* Within HURRY_ITTERATION passes of the first report of a pack over its   *)
(* 1C a heartbeat goes out, although further reports go on coming in.      *)
THEOREM OverCurrentIsAnswered == Spec => []OverCurrentAnswered
  <1>1. ZInv => OverCurrentAnswered
    BY DEF ZInv, ReportInv, OverCurrentAnswered
  <1> QED BY <1>1, ZeroInit, ZeroStep, PTL DEF Spec

(* That heartbeat asks for less than the 1C of a pack over its own: the    *)
(* two overrides at the end of setChargingAmps of v2.x.                    *)
THEOREM OverCurrentIsReduced == Spec => OverCurrentReduced
  <1>1. ZInv /\ [Next]_vars =>
          [ ~V3 /\ Computes /\ Divided /\ (\E p \in Packs : Over(p)) =>
                \E p \in Packs : Over(p) /\ Asked < packAH[p] * 10 ]_vars
    BY OnlyCompute, AskedBounds
  <1> QED BY <1>1, ZeroInit, ZeroStep, PTL DEF Spec, OverCurrentReduced

(* The chargers together never ask for more than the station's wattage,    *)
(* from the ramp of setChargingAmps to the share of each of them.          *)
THEOREM RequestIsWithinStation == Spec => RequestWithinStation
  <1>1. ZInv /\ [Next]_vars =>
          [ Computes /\ Divided /\ Supplied /\ (V3 \/ ~\E p \in Packs : Over(p)) =>
                /\ Asked * volts' <= set.watts
                /\ watts' <= set.watts ]_vars
    <2> SUFFICES ASSUME ZInv, SetChargingAmps, Divided, Supplied, V3 \/ ~\E p \in Packs : Over(p)
                 PROVE  /\ Asked * volts' <= set.watts
                        /\ watts' <= set.watts
      BY OnlyCompute
    <2>1. /\ Asked \in Nat /\ volts' \in Nat \ {0} /\ watts' \in Nat
          /\ watts' <= set.watts /\ set.watts \in Nat
          /\ Asked <= watts' \div volts'
      BY AskedBounds
    <2>2. (watts' \div volts') \in Nat /\ (watts' \div volts') * volts' <= watts'
      BY <2>1, Division
    <2>3. /\ Asked * volts' \in Nat /\ (watts' \div volts') * volts' \in Nat
          /\ Asked * volts' <= (watts' \div volts') * volts'
      BY <2>1, <2>2, ProductOrder
    <2> QED BY <2>1, <2>2, <2>3
  <1> QED BY <1>1, ZeroInit, ZeroStep, PTL DEF Spec, RequestWithinStation

(* Without CPlus they ask for no more than 1C of the packs, also when the  *)
(* current was put in for a pack over its own.                             *)
THEOREM OneCIsRespected == Spec => OneCRespected
  <1>1. ZInv /\ [Next]_vars =>
          [ Computes /\ Divided /\ set.cPlus < 1 => Asked <= C_RATE' ]_vars
    BY OnlyCompute, AskedBounds
  <1> QED BY <1>1, ZeroInit, ZeroStep, PTL DEF Spec, OneCRespected

(* A wattage within a row holds the request to the row's share of 1C.      *)
LEMMA RowHolds ==
    ASSUME ZInv, SetChargingAmps, Divided, Supplied, V3 \/ ~\E p \in Packs : Over(p),
           NEW r \in Rows(volts')
    PROVE  WithinRow(r)
  <1> DEFINE share == (r.c * C_RATE') \div 10
  <1>1. r.c \in Nat
    <2>1. KnownInv /\ volts' \in Nat
      BY SetChargingAmpsBounds DEF ZInv
    <2> QED BY <2>1, RowsApply
  <1>2. /\ Asked \in Nat /\ volts' \in Nat \ {0} /\ watts' \in Nat
        /\ Asked <= watts' \div volts' /\ C_RATE' \in Nat
    BY AskedBounds
  <1>3. watts' <= RowWatts(r.c, C_RATE', volts') /\ RowWatts(r.c, C_RATE', volts') \in Nat
    <2>1. C_RATE' = Rate /\ watts' = NewWatts(C_RATE', volts')
      BY SetChargingAmpsBounds
    <2>2. SettingsInv /\ watts \in ULong /\ volts' \in Nat
      BY <1>2 DEF ZInv, NumbersInv
    <2>3. NewWatts(C_RATE', volts') <= RowWatts(r.c, C_RATE', volts')
      BY <1>2, <2>2, NewWattsBounds
    <2> QED BY <1>1, <1>2, <2>1, <2>2, <2>3, RowWattsBounds
  <1>4. share \in Nat /\ share * 10 <= r.c * C_RATE' /\ r.c * C_RATE' \in Nat
    <2>1. r.c * C_RATE' \in Nat
      BY <1>1, <1>2
    <2> QED BY <2>1, Division
  <1>5. watts' <= share * volts'
    <2>1. RowWatts(r.c, C_RATE', volts') <= share * volts'
      BY <1>1, <1>2, RowWattsBounds DEF ZInv
    <2> HIDE DEF share
    <2>2. share * volts' \in Nat
      <3>1. \A m, n \in Nat : m * n \in Nat
        OBVIOUS
      <3>2. volts' \in Nat
        BY <1>2
      <3> QED BY <1>4, <3>1, <3>2, Zenon
    <2> QED BY <1>2, <1>3, <2>1, <2>2
  <1> HIDE DEF share
  <1>6. watts' \div volts' <= share
    <2>1. \A w, s \in Nat, v \in Nat \ {0} : w <= s * v => w \div v <= s
      OBVIOUS
    <2> QED BY <1>2, <1>4, <1>5, <2>1, Zenon
  <1>7. watts' \div volts' \in Nat
    BY <1>2, Division
  <1>8. \A a, q, s, t \in Nat : a <= q /\ q <= s /\ s * 10 <= t => a * 10 <= t
    OBVIOUS
  <1> QED BY <1>2, <1>4, <1>6, <1>7, <1>8, Zenon DEF WithinRow

(* Every row beyond which a voltage or a temperature lies, whichever table *)
(* it is in and whichever pack it was read of, holds the request to its    *)
(* share of 1C, whatever the other rows and the ramp do.                   *)
THEOREM TablesLimit == Spec => TablesLimitRequest
  <1>1. ZInv /\ [Next]_vars =>
          [ Computes /\ Divided /\ Supplied /\ (V3 \/ ~\E p \in Packs : Over(p)) =>
                /\ \A r \in VOLT_CUTBACK : volts' > r.at => WithinRow(r)
                /\ \A p \in Packs : Counts(p) =>
                      /\ \A r \in COLD_CUTBACK : lowTemp[p] < r.at => WithinRow(r)
                      /\ \A r \in HOT_CUTBACK : highTemp[p] > r.at => WithinRow(r) ]_vars
    <2> SUFFICES ASSUME ZInv, SetChargingAmps, Divided, Supplied, V3 \/ ~\E p \in Packs : Over(p)
                 PROVE  /\ \A r \in VOLT_CUTBACK : volts' > r.at => WithinRow(r)
                        /\ \A p \in Packs : Counts(p) =>
                              /\ \A r \in COLD_CUTBACK : lowTemp[p] < r.at => WithinRow(r)
                              /\ \A r \in HOT_CUTBACK : highTemp[p] > r.at => WithinRow(r)
      BY OnlyCompute
    <2>1. \A r \in Rows(volts') : WithinRow(r)
      BY RowHolds
    <2>2. volts' \in Nat
      BY AskedBounds
    <2>3. KnownInv
      BY DEF ZInv
    <2> QED BY <2>1, <2>2, <2>3, RowsApply, Zenon
  <1> QED BY <1>1, ZeroInit, ZeroStep, PTL DEF Spec, TablesLimitRequest

(* Over the end voltage every heartbeat lowers the wattage: three steps    *)
(* down outweigh the one up that came before them.                         *)
THEOREM EndVoltageIsHeeded == Spec => EndVoltageWindsDown
  <1>1. ZInv /\ [Next]_vars =>
          [ Computes /\ OverEnd(volts') /\ Supplied /\ set.ramp > 0 =>
                watts' < watts \/ watts' = 0 ]_vars
    <2> SUFFICES ASSUME ZInv, SetChargingAmps, OverEnd(volts'), Supplied, set.ramp > 0
                 PROVE  watts' < watts \/ watts' = 0
      BY OnlyCompute
    <2>1. volts' \in Nat /\ Rate \in Nat /\ watts' = NewWatts(Rate, volts')
      BY SetChargingAmpsBounds
    <2>2. SettingsInv /\ watts \in ULong
      BY DEF ZInv, NumbersInv
    <2> QED BY <2>1, <2>2, NewWattsBounds
  <1> QED BY <1>1, ZeroInit, ZeroStep, PTL DEF Spec, EndVoltageWindsDown
=============================================================================

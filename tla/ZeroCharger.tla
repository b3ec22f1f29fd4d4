----------------------------- MODULE ZeroCharger ------------------------------
(***************************************************************************)
(* The chargers that listen to a Zero motorcycle: v2.5, v2.6 and v3 with   *)
(* its headers SC.h, ZERO_BIKE.h and ZERO_V3_BLE.h.  A pass of loop drains *)
(* the frames of the bike, and in v2.x those of the chargers and the       *)
(* serial commands before them; every delayItteration passes it works out  *)
(* the current to charge with and sends a heartbeat.  v3 does that in      *)
(* steps: it drains the chargers' frames, computes, polls the radio, where *)
(* a user may write new settings, and then sends.                          *)
(*                                                                         *)
(* pc names the part of the pass that comes next:                          *)
(*   "user"      readCommands, or BLE.central, which polls the radio       *)
(*   "charger"   the frames of the chargers                                *)
(*   "bike"      the frames of the bike                                    *)
(*   "tick"      delayItteration--, and in v2.x all that is due at its end *)
(*   "poll"      v3: BLE.poll                                              *)
(*                                                                         *)
(* A drain takes any frames in any number, so losses and delays on the     *)
(* buses are among its behaviours.  Units are the sketches': 0.1 V for     *)
(* volts, the BMS's millivolts divided by 100 as every use of them is,     *)
(* 0.1 A for chargingAmps and C_RATE, whole A and Ah for what a pack says. *)
(*                                                                         *)
(* Left out: a first boot, whose store is all ones until a command fills   *)
(* it.  Commands and readings fit the variables they are put into, and the *)
(* products of a row's share, the rate and the volts fit a long; what is   *)
(* worked out of them is cut to its width where it can leave it.           *)
(***************************************************************************)
EXTENDS Integers, FiniteSets, FiniteSetsExt

CONSTANTS
    Settings,            (* what commands may set: [end, cRate, count,     *)
                         (* watts, cPlus, ramp], all numbers as stored     *)
    BikeFrames,          (* what the two packs may say                     *)
    ChargerVolts,        (* the voltages chargers may report               *)
    USHORT_MOD,          (* 2^16 *)
    ULONG_MOD,           (* 2^32 *)
    BYTE_MOD,            (* 256 *)
    Misread,             (* what an unset high byte may make of a temperature *)
    START_ITTERATION,    (* 55000, 85000 in v3: the first delayItteration  *)
    DELAY_ITTERATION,    (* 22000, 42500 in v3 *)
    HURRY_ITTERATION,    (* 10 *)
    VOLT_CUTBACK,        (* OUTPUT_VOLTS_CUTBACK with OUTPUT_C_RATE_CUTBACK *)
    COLD_CUTBACK,        (* OUTPUT_TEMP_CUTBACK with its C rates           *)
    HOT_CUTBACK,         (* OUTPUT_OVER_TEMP_CUTBACK with its C rates      *)
    PastEnd,             (* what the build put behind the two cold tables  *)
    TOLERANCE,           (* 11 *)
    MAX_12V_WATTS,       (* 600 *)
    OUTPUT_VOLTS_MAX,    (* 1164 *)
    OUTPUT_VOLTS_MIN,    (* 500 *)
    OUTPUT_VOLTS_MIN_25, (* 700, what v2.5 has for it *)
    OUTPUT_VOLTS_DEFAULT,(* 1164, the voltage HeartbeatMessage starts with *)
    V3Settings           (* what v3's initialisers and setup set           *)

Packs == {"monolith", "powerTank"}
UShort == 0..(USHORT_MOD - 1)
ULong == 0..(ULONG_MOD - 1)

(* The naturals that fit the signed types.                                 *)
Short == {n \in Nat : 2 * n < USHORT_MOD}
Long == {n \in Nat : 2 * n < ULONG_MOD}

(* Tables of [at, c], c in tenths of the pack's 1C.                        *)
Point == [at : Nat, c : Nat]

(* What toInt makes of a number may be zero, and readCommands takes that.  *)
Sane == [end : UShort, cRate : Long, count : Nat, watts : ULong, cPlus : 0..1,
         ramp : ULong]

ASSUME ZeroAssumption ==
    /\ BYTE_MOD \in Nat \ {0, 1} /\ USHORT_MOD = BYTE_MOD * BYTE_MOD
    /\ ULONG_MOD \in Nat /\ 4 * USHORT_MOD <= ULONG_MOD
    /\ Settings \subseteq Sane
    /\ V3Settings \in Sane /\ V3Settings.count = 0 /\ V3Settings.cPlus = 0
    /\ \A s, t \in Settings \cup {V3Settings} :
          s.watts + 3 * t.ramp < ULONG_MOD   (* else a ramp step wraps *)
    /\ \A f \in BikeFrames : f.pack \in Packs
    /\ \A f \in BikeFrames :
          \/ f.kind = "voltage" /\ f.volts \in Short
          \/ f.kind = "active" /\ f.amps \in Int
                                /\ 2 * f.amps < ULONG_MOD /\ -2 * f.amps < ULONG_MOD
                                /\ {f.low, f.high} \subseteq 0..255
          \/ f.kind = "config" /\ f.AH \in Nat \ {1}
                                /\ f.AH * 10 < USHORT_MOD   (* some 6500 Ah *)
    /\ ChargerVolts \subseteq Short
    /\ Misread \subseteq Int
    /\ VOLT_CUTBACK \cup COLD_CUTBACK \cup HOT_CUTBACK \cup PastEnd \subseteq Point
    /\ OUTPUT_VOLTS_DEFAULT \in UShort
    /\ MAX_12V_WATTS \in Nat
    /\ {HURRY_ITTERATION, DELAY_ITTERATION, START_ITTERATION} \subseteq Nat \ {0}
    /\ HURRY_ITTERATION < DELAY_ITTERATION /\ DELAY_ITTERATION <= START_ITTERATION

VARIABLES
    sketch,          (* which of the three it is                           *)
    pc,
    set,             (* the settings in force, C_RATE apart                *)
    C_RATE,
    ble,             (* v3: the values of the characteristics              *)
    volts,
    packVolts,       (* monolithVolts and powerTankVolts, v3: bikeVolts    *)
    packAmps,        (* monolithAmps and powerTankAmps                     *)
    packAH,          (* monolithAH and powerTankAH                         *)
    lowTemp,         (* each pack's lowest temperature, v3: of the last    *)
    highTemp,        (* pack to report; and the highest                    *)
    watts,
    chargingAmps,
    delayItteration,
    heartbeat,       (* the voltage a charger reads in it; the current is  *)
                     (* what chargingAmps is when it is sent               *)
    reported         (* history: passes since a pack first reported more   *)
                     (* than 1C and no heartbeat has followed, or -1       *)

known == <<packVolts, packAmps, packAH, lowTemp, highTemp>>
vars == <<sketch, pc, set, C_RATE, ble, volts, known, watts,
          chargingAmps, delayItteration, heartbeat, reported>>

V3 == sketch = "v3"
Both(x) == [p \in Packs |-> x]

(* updateHeartbeatVoltage, superCharge: the bytes of a little-endian short *)
(* in the order of memory, read by the charger high byte first.            *)
AsSent(v) == ((v % BYTE_MOD) * BYTE_MOD) + ((v \div BYTE_MOD) % BYTE_MOD)

(* v2.5 takes an end voltage only between its limits; the tests of all the *)
(* other settings, and all of v2.6's, compare an unsigned number with zero.*)
Taken(end) ==
    sketch = "v2.5" => end \in OUTPUT_VOLTS_MIN_25..OUTPUT_VOLTS_MAX

(* v2.x has the settings of an earlier command in its memory.              *)
Init == /\ sketch \in {"v2.5", "v2.6", "v3"}
        /\ pc = "user"
        /\ set \in IF V3 THEN {V3Settings} ELSE {s \in Settings : Taken(s.end)}
        /\ C_RATE = set.cRate
        /\ ble = [end |-> V3Settings.end, watts |-> V3Settings.watts,
                  count |-> V3Settings.count]
        /\ volts = 0
        /\ packVolts = Both(0)
        /\ packAmps = Both(0)
        /\ packAH = Both(0)
        /\ lowTemp = Both(0)
        /\ highTemp = Both(0)
        /\ watts = 0
        /\ chargingAmps = 0
        /\ delayItteration = START_ITTERATION
        /\ heartbeat = IF sketch = "v2.6" THEN AsSent(set.end)
                                          ELSE OUTPUT_VOLTS_DEFAULT
        /\ reported = -1

-----------------------------------------------------------------------------
(* What a user may change *)

(* v2.x: one command.                                                      *)
ReadCommand(s) ==
    /\ ~V3 /\ pc = "user"
    /\ set' = [s EXCEPT !.end = IF Taken(s.end) THEN s.end ELSE set.end]
    /\ C_RATE' = s.cRate
    /\ heartbeat' = IF sketch = "v2.6" THEN AsSent(s.end) ELSE heartbeat
    /\ UNCHANGED <<sketch, pc, ble, volts, known, watts, chargingAmps,
                   delayItteration, reported>>

Apply(c) == set' = [set EXCEPT !.end = c.end, !.watts = c.watts, !.count = c.count]

(* v3: the user writes one characteristic.  The handler, which applies all *)
(* three, is set on the first two and on one that none of this reads.      *)
Write(field, s) ==
    /\ V3 /\ pc \in {"user", "poll"}
    /\ ble' = [ble EXCEPT ![field] = s[field]]
    /\ IF field = "count" THEN UNCHANGED set ELSE Apply(ble')
    /\ UNCHANGED <<sketch, pc, C_RATE, volts, known, watts, chargingAmps,
                   delayItteration, heartbeat, reported>>

(* v3: the handler on bleUnits.                                            *)
WriteUnits ==
    /\ V3 /\ pc \in {"user", "poll"}
    /\ Apply(ble)
    /\ UNCHANGED <<sketch, pc, C_RATE, ble, volts, known, watts, chargingAmps,
                   delayItteration, heartbeat, reported>>

UserDone ==
    /\ pc = "user"
    /\ pc' = IF V3 THEN "bike" ELSE "charger"
    /\ UNCHANGED <<sketch, set, C_RATE, ble, volts, known, watts, chargingAmps,
                   delayItteration, heartbeat, reported>>

-----------------------------------------------------------------------------
(* The frames *)

(* v2.6 keeps the volts it has if the charger's are within its tolerance.  *)
ChargerFrame(v) ==
    /\ pc = "charger"
    /\ volts' = IF sketch = "v2.6" /\ v \in (volts - TOLERANCE)..(volts + TOLERANCE)
                THEN volts ELSE v
    /\ UNCHANGED <<sketch, pc, set, C_RATE, ble, known, watts, chargingAmps,
                   delayItteration, heartbeat, reported>>

(* v3 takes the monolith's voltage and the power tank's if it is higher;   *)
(* it compares millivolts, so of two that are equal here either may be.    *)
MayTake(p, v) == CASE p = "monolith" -> {TRUE}
                   [] p # "monolith" /\ v = packVolts["monolith"] -> BOOLEAN
                   [] OTHER -> {v > packVolts["monolith"]}

(* BMS_CELL_VOLTAGE, BMS1_CELL_VOLTAGE.  v2.x looks at the voltages in     *)
(* setChargingAmps.                                                        *)
VoltageFrame(p, v) ==
    \E taken \in MayTake(p, v) :
        /\ packVolts' = IF ~V3 THEN [packVolts EXCEPT ![p] = v]
                        ELSE IF taken THEN [packVolts EXCEPT !["monolith"] = v]
                        ELSE packVolts
        /\ volts' = IF V3 /\ taken THEN v ELSE volts
        /\ UNCHANGED <<C_RATE, packAmps, packAH, lowTemp, highTemp, chargingAmps,
                       delayItteration, reported>>

(* Mutant of Abs: the amps keep their sign.                                *)
Signed(n) == n

Abs(n) == IF n < 0 THEN -n ELSE n

Over1C(ah, amps) == ah > 0 /\ amps > ah /\ set.cPlus < 1

(* Mutant of Hurried: the test delayItteration>10 is missing.              *)
HurriedAgain(over) == over

(* The next heartbeat is brought forward if it is not near.                *)
Hurried(over) == over /\ delayItteration > HURRY_ITTERATION

(* BMS_PACK_ACTIVE_DATA, BMS1_PACK_ACTIVE_DATA: current and temperatures.  *)
(* A pack charging at more than 1C hurries the next heartbeat.  v3 has one *)
(* pair of temperatures for both packs, and puts the lower current into    *)
(* chargingAmps at once, where nothing reads it before it is worked out    *)
(* again.                                                                  *)
ActiveFrame(p, amps, low, high) ==
    LET over  == Over1C(packAH[p], Abs(amps))
        hurry == Hurried(over)
        at    == IF V3 THEN Packs ELSE {p}
    IN  /\ packAmps' = [packAmps EXCEPT ![p] = Abs(amps)]
        /\ lowTemp' = [q \in Packs |-> IF q \in at THEN low ELSE lowTemp[q]]
        /\ highTemp' = [q \in Packs |-> IF q \in at THEN high ELSE highTemp[q]]
        /\ delayItteration' = IF hurry THEN HURRY_ITTERATION ELSE delayItteration
        /\ chargingAmps' = IF V3 /\ hurry THEN (packAH[p] - 2) * 10 ELSE chargingAmps
        /\ reported' = IF over /\ reported < 0 THEN 0 ELSE reported
        /\ UNCHANGED <<C_RATE, volts, packVolts, packAH>>

(* BMS_PACK_CONFIG, BMS1_PACK_CONFIG.                                      *)
ConfigFrame(p, ah) ==
    /\ packAH' = [packAH EXCEPT ![p] = ah]
    /\ C_RATE' = IF V3 THEN (packAH'["monolith"] + packAH'["powerTank"]) * 10
                       ELSE C_RATE
    /\ UNCHANGED <<volts, packVolts, packAmps, lowTemp, highTemp, chargingAmps,
                   delayItteration, reported>>

(* highestTemp and lowestTemp set one byte of two.                         *)
AsRead(temp) == {temp} \cup Misread

BikeFrame(f) ==
    /\ pc = "bike"
    /\ \/ f.kind = "voltage" /\ VoltageFrame(f.pack, f.volts)
       \/ f.kind = "active" /\ \E low \in AsRead(f.low), high \in AsRead(f.high) :
                                   ActiveFrame(f.pack, f.amps, low, high)
       \/ f.kind = "config" /\ ConfigFrame(f.pack, f.AH)
    /\ UNCHANGED <<sketch, pc, set, ble, watts, heartbeat>>

Drained ==
    /\ \/ pc = "charger" /\ ~V3 /\ pc' = "bike"
       \/ pc = "bike" /\ pc' = "tick"
    /\ UNCHANGED <<sketch, set, C_RATE, ble, volts, known, watts, chargingAmps,
                   delayItteration, heartbeat, reported>>

-----------------------------------------------------------------------------
(* setChargingAmps *)

Least(a, b) == IF a < b THEN a ELSE b

(* The current, in all, that a row of a table allows.                      *)
RowAmps(c, rate) ==
    LET amps == (c * rate) \div 10
    IN  IF set.cPlus < 1 THEN Least(amps, rate) ELSE amps

RowWatts(c, rate, v) == Least(RowAmps(c, rate) * v, set.watts)

(* v3's second test of the same row asks for no voltage.                   *)
VoltRows(v) == {p \in VOLT_CUTBACK : V3 \/ v > p.at}

(* The power tank counts if there is one.  The loop over the cold table    *)
(* goes on for four entries behind its end.                                *)
Counts(p) == p = "monolith" \/ packAH["powerTank"] > 0

ColdRows == {r \in COLD_CUTBACK \cup PastEnd :
                IF V3 THEN lowTemp["monolith"] <= r.at
                      ELSE \E p \in Packs : Counts(p) /\ lowTemp[p] < r.at}

(* Mutant of HotRows: the power tank's temperature is not looked at.       *)
HotRowsOfMonolith ==
    {r \in HOT_CUTBACK : IF V3 THEN highTemp["monolith"] >= r.at
                               ELSE highTemp["monolith"] > r.at}

HotRows == {r \in HOT_CUTBACK :
                IF V3 THEN highTemp["monolith"] >= r.at
                      ELSE \E p \in Packs : Counts(p) /\ highTemp[p] > r.at}

(* One ramp step up to the station's wattage, then every row in turn takes *)
(* the wattage down to its own: the lowest remains.                        *)
Limited(rate, v) ==
    Min({IF watts < set.watts THEN watts + set.ramp ELSE watts}
        \cup {RowWatts(r.c, rate, v) : r \in VoltRows(v) \cup ColdRows \cup HotRows})

OverEnd(v) == CASE V3 -> v >= set.end
                [] sketch = "v2.6" -> v > set.end \/ v > OUTPUT_VOLTS_MAX
                [] OTHER -> v > set.end

Stopped(v) == CASE V3 -> v > OUTPUT_VOLTS_MAX \/ v < OUTPUT_VOLTS_MIN
                [] sketch = "v2.6" -> v <= OUTPUT_VOLTS_MIN
                [] OTHER -> FALSE

(* Mutant of WoundDown: one ramp step down instead of three.               *)
WoundDownByOne(w, v) ==
    IF ~OverEnd(v) THEN w
    ELSE IF w > set.ramp THEN w - set.ramp ELSE 0

WoundDown(w, v) == IF ~OverEnd(v) THEN w
                   ELSE IF w > set.ramp * 3 THEN w - set.ramp * 3 ELSE 0

NewWatts(rate, v) ==
    LET wound == IF Stopped(v) THEN 0 ELSE WoundDown(Limited(rate, v), v)
    IN  IF wound <= set.watts THEN wound
        ELSE IF sketch = "v2.6" THEN set.watts
        ELSE (set.watts - MAX_12V_WATTS * set.count) % ULONG_MOD

(* A division by zero: 0, or all ones cut to a short.                      *)
Quotient(a, b) == IF b > 0 THEN {a \div b} ELSE {0, USHORT_MOD - 1}

Over(p) == Over1C(packAH[p], packAmps[p])

(* Mutant of Reduced: the current a pack over its 1C leaves is not put in. *)
NotReduced(amps, rate) ==
    IF set.cPlus < 1 THEN Least(amps, rate) ELSE amps

(* The current in all, held to 1C and, in v2.x, below it while a pack is   *)
(* over it; the power tank is asked last.                                  *)
Reduced(amps, rate) ==
    CASE ~V3 /\ Over("powerTank") -> (packAH["powerTank"] - 2) * 10
      [] ~V3 /\ ~Over("powerTank") /\ Over("monolith") -> (packAH["monolith"] - 2) * 10
      [] OTHER -> IF set.cPlus < 1 THEN Least(amps, rate) ELSE amps

(* v2.x takes the highest voltage any pack has told, v3 the last one told. *)
BatteryVolts == IF V3 THEN volts ELSE Max({volts} \cup {packVolts[p] : p \in Packs})

Rate == IF ~V3 /\ \E p \in Packs : packAH[p] > 0
        THEN (packAH["monolith"] + packAH["powerTank"]) * 10
        ELSE C_RATE

(* Mutant of Shared: every charger is asked for all of it.                 *)
Unshared(amps) == {amps}

Shared(amps) == Quotient(amps, set.count)

SetChargingAmps ==
    /\ volts' = BatteryVolts
    /\ C_RATE' = Rate
    /\ watts' = NewWatts(Rate, BatteryVolts)
    /\ \E amps \in Quotient(watts', volts') :
           chargingAmps' \in Shared(Reduced(amps % USHORT_MOD, C_RATE'))

-----------------------------------------------------------------------------
(* The end of a pass *)

Due == delayItteration <= 1

NotDue ==
    /\ pc = "tick" /\ ~Due
    /\ pc' = "user"
    /\ delayItteration' = delayItteration - 1
    /\ reported' = IF reported < 0 THEN -1 ELSE reported + 1
    /\ UNCHANGED <<sketch, set, C_RATE, ble, volts, known, watts, chargingAmps,
                   heartbeat>>

(* v2.x *)
Beat ==
    /\ ~V3 /\ pc = "tick" /\ Due
    /\ pc' = "user"
    /\ delayItteration' = DELAY_ITTERATION
    /\ SetChargingAmps
    /\ reported' = -1
    /\ UNCHANGED <<sketch, set, ble, known, heartbeat>>

(* v3, from here on *)
BeatDue ==
    /\ V3 /\ pc = "tick" /\ Due
    /\ pc' = "charger"
    /\ delayItteration' = DELAY_ITTERATION
    /\ UNCHANGED <<sketch, set, C_RATE, ble, volts, known, watts, chargingAmps,
                   heartbeat, reported>>

SuperChargerLoop ==
    /\ V3 /\ pc = "charger"
    /\ pc' = "poll"
    /\ SetChargingAmps
    /\ UNCHANGED <<sketch, set, ble, known, delayItteration, heartbeat, reported>>

SuperCharge ==
    /\ V3 /\ pc = "poll"
    /\ pc' = "user"
    /\ heartbeat' = AsSent(set.end)
    /\ reported' = -1
    /\ UNCHANGED <<sketch, set, C_RATE, ble, volts, known, watts, chargingAmps,
                   delayItteration>>

-----------------------------------------------------------------------------
Next == \/ \E s \in Settings : ReadCommand(s)
        \/ \E s \in Settings, field \in {"end", "watts", "count"} : Write(field, s)
        \/ WriteUnits
        \/ UserDone
        \/ \E v \in ChargerVolts : ChargerFrame(v)
        \/ \E f \in BikeFrames : BikeFrame(f)
        \/ Drained
        \/ NotDue \/ Beat
        \/ BeatDue \/ SuperChargerLoop \/ SuperCharge

Spec == Init /\ [][Next]_vars

-----------------------------------------------------------------------------
TypeOK == /\ pc \in {"user", "charger", "bike", "tick", "poll"}
          /\ set \in Sane
          /\ C_RATE \in Long
          /\ volts \in Short
          /\ packVolts \in [Packs -> Short]
          /\ packAmps \in [Packs -> Long]
          /\ packAH \in [Packs -> Long \ {1}]
          /\ lowTemp \in [Packs -> Int]
          /\ highTemp \in [Packs -> Int]
          /\ watts \in ULong
          /\ chargingAmps \in UShort
          /\ delayItteration \in 1..START_ITTERATION
          /\ heartbeat \in UShort

(* The step that works out the current.                                    *)
Computes == \/ ~V3 /\ pc = "tick" /\ Due
            \/ V3 /\ pc = "charger" /\ pc' = "poll"

(* No quotient of the step was a division by zero.                         *)
Divided == volts' > 0 /\ set.count > 0

(* The station has what the chargers' 12 V supplies take, or the           *)
(* difference wraps; v2.6 does not subtract them.                          *)
Supplied == sketch = "v2.6" \/ MAX_12V_WATTS * set.count <= set.watts

Asked == chargingAmps' * set.count

(* A pack that says it charges at more than 1C has its heartbeat within    *)
(* ten passes, however often it says so (bike frames, delayItteration).    *)
OverCurrentAnswered == reported <= HURRY_ITTERATION

(* In v2.x a heartbeat that follows such a report asks for less than the   *)
(* 1C of one of the packs over theirs.                                     *)
OverCurrentReduced ==
    [][ ~V3 /\ Computes /\ Divided /\ (\E p \in Packs : Over(p)) =>
            \E p \in Packs : Over(p) /\ Asked < packAH[p] * 10 ]_vars

(* The chargers are asked for no more, together, than the station has,     *)
(* with the settings and at the voltage of the moment.  The exceptions are *)
(* the current that v2.x puts in for a pack over 1C and a station without  *)
(* the watts of the 12 V supplies, of which v2.5 and v3 make some 2^32.    *)
RequestWithinStation ==
    [][ Computes /\ Divided /\ Supplied /\ (V3 \/ ~\E p \in Packs : Over(p)) =>
            /\ Asked * volts' <= set.watts
            /\ watts' <= set.watts ]_vars

(* Without CPlus they are asked for no more than 1C of the packs, whatever *)
(* has been commanded and whichever pack's override was put in.            *)
OneCRespected ==
    [][ Computes /\ Divided /\ set.cPlus < 1 => Asked <= C_RATE' ]_vars

(* The whole request is within a row's share of 1C.                        *)
WithinRow(r) == Asked * 10 <= r.c * C_RATE'

(* Whatever a row of a table is for, voltage, cold or heat, and whichever  *)
(* pack it was read of, it holds the whole request to its share of 1C; the *)
(* lowest row that applies decides, in whichever order they are tested and *)
(* although every heartbeat begins with a ramp step up.                    *)
TablesLimitRequest ==
    [][ Computes /\ Divided /\ Supplied /\ (V3 \/ ~\E p \in Packs : Over(p)) =>
            /\ \A r \in VOLT_CUTBACK : volts' > r.at => WithinRow(r)
            /\ \A p \in Packs : Counts(p) =>
                  /\ \A r \in COLD_CUTBACK : lowTemp[p] < r.at => WithinRow(r)
                  /\ \A r \in HOT_CUTBACK : highTemp[p] > r.at => WithinRow(r) ]_vars

(* Over the end voltage the wattage falls with every heartbeat, by more    *)
(* than the ramp step that the same heartbeat begins with, if a command    *)
(* has not set that step to zero.                                          *)
EndVoltageWindsDown ==
    [][ Computes /\ OverEnd(volts') /\ Supplied /\ set.ramp > 0 =>
            watts' < watts \/ watts' = 0 ]_vars

-----------------------------------------------------------------------------
(* v2.6.ino:209 and SC.h:69 "Voltage, high then low byte in volts": what a *)
(* charger reads in the heartbeat is the end voltage in force.             *)
VoltageHighThenLow ==
    sketch = "v2.6" /\ pc = "user" => heartbeat = set.end
=============================================================================

----------------------------- MODULE ChargeMonitor ----------------------------
(***************************************************************************)
(* Zero_charge_monitoring.ino: a sketch between the chargers and the bike  *)
(* that corrects the voltage it asks for by the difference between what    *)
(* the two report.  A pass of loop takes at most one frame of each bus and *)
(* counts passes in three counters: every COUNT_SCV2_THRESHOLD passes it   *)
(* sends a charge command and starts counting frames of chargers anew, and *)
(* a bus that is silent for its threshold is taken to be gone.             *)
(*                                                                         *)
(* pc names the part of the pass that comes next: "count", "user",         *)
(* "charger", "bike", "stale".  Voltages are millivolts, amps 0.1 A.       *)
(*                                                                         *)
(* The throttle, the dashboard and the log change none of this and are     *)
(* left out, and with the log the list of the chargers' amps.              *)
(***************************************************************************)
EXTENDS Integers, FiniteSets

CONSTANTS
    Chargers,
    ChargerVolts,           (* what a charger may report, 0.1 V            *)
    BikeVolts,              (* what the bike may report                    *)
    Commands,               (* what comes in over serial: [volts, watts],  *)
                            (* volts in 0.1 V                              *)
    VOLT_UNIT,              (* 100: millivolts in 0.1 V                    *)
    USHORT_MOD,             (* 2^16 *)
    MIN_VOLTS,              (*  70000 *)
    DEFAULT_WATTS,          (*   1500 *)
    COUNT_SCV2_THRESHOLD,   (*  22000 *)
    SC_STALE_THRESHOLD,     (*  30000 *)
    BIKE_STALE_THRESHOLD,   (*   1000 *)
    MaxFrames               (* bound: frames counted between two commands, *)
                            (* 16 is what chargerAmpsList has room for     *)

Short == (-(USHORT_MOD \div 2))..(USHORT_MOD \div 2 - 1)

ASSUME MonitorAssumption ==
    /\ VOLT_UNIT \in Nat \ {0}
    /\ USHORT_MOD \in Nat \ {0} /\ USHORT_MOD = 2 * (USHORT_MOD \div 2)
    /\ MIN_VOLTS \in Nat /\ VOLT_UNIT <= MIN_VOLTS
    /\ DEFAULT_WATTS \in Nat
    /\ ChargerVolts \subseteq Nat
    /\ BikeVolts \subseteq Nat
    /\ Commands \subseteq [volts : Int, watts : Int]
    /\ {COUNT_SCV2_THRESHOLD, SC_STALE_THRESHOLD, BIKE_STALE_THRESHOLD} \subseteq Nat
    /\ BIKE_STALE_THRESHOLD <= SC_STALE_THRESHOLD
    /\ MaxFrames \in Nat

VARIABLES
    pc,
    chargerWaitCount, scStaleCount, bikeStaleCount,
    connectedChargers,
    targetWatts, endVolts,
    bikeVoltage, chargerVoltage, chargerVoltageHolder,
    desiredOutputVolts, desiredOutputAmps,
    eeprom,                (* what is stored of the two settings           *)
    heard,                 (* history: chargers heard since the last count *)
    silence,               (* history: passes since the last frame of each *)
                           (* bus, up to just over its threshold           *)
    basis                  (* history: the end voltage desiredOutputVolts  *)
                           (* was made from, -1 if it was reset            *)

counters == <<chargerWaitCount, scStaleCount, bikeStaleCount>>
settings == <<targetWatts, endVolts, eeprom>>
readings == <<bikeVoltage, chargerVoltage, chargerVoltageHolder>>
outputs  == <<desiredOutputVolts, desiredOutputAmps, basis>>
vars == <<pc, counters, connectedChargers, settings, readings, outputs, heard, silence>>

(* Division in C cuts towards zero.                                        *)
Over(a, b) == IF a < 0 THEN -((-a) \div b) ELSE a \div b

(* Mutant of ToShort: the short has no sign.                               *)
ToUnsigned(n) == n % USHORT_MOD

(* The lower bytes of a long, put into a short.                            *)
ToShort(n) == LET u == n % USHORT_MOD
              IN  IF u < USHORT_MOD \div 2 THEN u ELSE u - USHORT_MOD

AsOutput(volts) == ToShort(Over(volts, VOLT_UNIT))

(* setup.  An EEPROM that was never written reads as all ones.             *)
Init == /\ pc = "count"
        /\ chargerWaitCount = 0 /\ scStaleCount = 0 /\ bikeStaleCount = 0
        /\ connectedChargers = 0
        /\ targetWatts = -1
        /\ endVolts = -1
        /\ bikeVoltage = 0 /\ chargerVoltage = 0 /\ chargerVoltageHolder = 0
        /\ desiredOutputVolts = AsOutput(-1)
        /\ desiredOutputAmps = 0
        /\ eeprom = [watts |-> -1, end |-> -1]
        /\ heard = {}
        /\ silence = [charger |-> SC_STALE_THRESHOLD + 1, bike |-> BIKE_STALE_THRESHOLD + 1]
        /\ basis = -1

(* The supply fails and comes back; setup reads what was stored.           *)
PowerCycle ==
    /\ pc' = "count"
    /\ chargerWaitCount' = 0 /\ scStaleCount' = 0 /\ bikeStaleCount' = 0
    /\ connectedChargers' = 0
    /\ targetWatts' = eeprom.watts
    /\ endVolts' = eeprom.end
    /\ bikeVoltage' = 0 /\ chargerVoltage' = 0 /\ chargerVoltageHolder' = 0
    /\ desiredOutputVolts' = AsOutput(eeprom.end)
    /\ desiredOutputAmps' = 0
    /\ heard' = {}
    /\ silence' = [charger |-> SC_STALE_THRESHOLD + 1, bike |-> BIKE_STALE_THRESHOLD + 1]
    /\ basis' = eeprom.end
    /\ UNCHANGED eeprom

-----------------------------------------------------------------------------
isReadyToCharge == /\ bikeVoltage > MIN_VOLTS
                   /\ chargerVoltageHolder > MIN_VOLTS
                   /\ chargerVoltageHolder < endVolts

shouldCharge == /\ bikeVoltage > MIN_VOLTS
                /\ bikeVoltage < endVolts
                /\ chargerVoltage < endVolts

Counted == chargerWaitCount + 1 > COUNT_SCV2_THRESHOLD

(* A charge command goes out in this step.                                 *)
Sends == pc = "count" /\ Counted /\ isReadyToCharge /\ shouldCharge

(* A charger that went silent since the last count, but not for long       *)
(* enough to be taken for gone, leaves a division by zero: the outcome is  *)
(* the build's.                                                            *)
AmpsEach ==
    IF connectedChargers = 0 THEN {0, -1}
    ELSE {ToShort(Over(Over(targetWatts * VOLT_UNIT, Over(bikeVoltage, VOLT_UNIT)),
                       connectedChargers))}

(* The command itself, [desiredOutputVolts, desiredOutputAmps], leaves     *)
(* with this step.                                                         *)
Count ==
    /\ pc = "count"
    /\ pc' = "user"
    /\ IF Sends THEN desiredOutputAmps' \in AmpsEach ELSE UNCHANGED desiredOutputAmps
    /\ chargerWaitCount' = IF Counted THEN 0 ELSE chargerWaitCount + 1
    /\ connectedChargers' = IF Counted THEN 0 ELSE connectedChargers
    /\ heard' = IF Counted THEN {} ELSE heard
    /\ UNCHANGED <<scStaleCount, bikeStaleCount, settings, readings,
                   desiredOutputVolts, basis, silence>>

(* One command.  Its two EEPROM.put are one step here, so that a supply    *)
(* that fails between them, and leaves one setting new and the other old,  *)
(* is left out: no property here relates the two.                          *)
ReadCommand(c) ==
    /\ pc = "user"
    /\ endVolts' = IF c.volts * VOLT_UNIT < MIN_VOLTS THEN MIN_VOLTS
                                                     ELSE c.volts * VOLT_UNIT
    /\ targetWatts' = IF c.watts < 0 THEN DEFAULT_WATTS ELSE c.watts
    /\ eeprom' = [watts |-> targetWatts', end |-> endVolts']
    /\ UNCHANGED <<pc, counters, connectedChargers, readings, outputs, heard, silence>>

-----------------------------------------------------------------------------
(* Mutant of SetVoltageDiff: it is called before the reading is stored.    *)
SetVoltageDiffFirst ==
    IF isReadyToCharge
    THEN /\ chargerVoltage' = (chargerVoltageHolder + chargerVoltage) \div 2
         /\ desiredOutputVolts' = AsOutput(endVolts - (bikeVoltage - chargerVoltage))
         /\ basis' = endVolts
    ELSE UNCHANGED <<chargerVoltage, desiredOutputVolts, basis>>

(* setVoltageDiff, behind the readings of the same step: the difference is *)
(* taken with the charger voltage averaged so far, then that is averaged   *)
(* on.                                                                     *)
SetVoltageDiff ==
    IF isReadyToCharge'
    THEN /\ chargerVoltage' = (chargerVoltageHolder' + chargerVoltage) \div 2
         /\ desiredOutputVolts' = AsOutput(endVolts - (bikeVoltage' - chargerVoltage))
         /\ basis' = endVolts
    ELSE UNCHANGED <<chargerVoltage, desiredOutputVolts, basis>>

(* Mutant of WithThis: no more than one charger is counted.                *)
WithThisOnly == 1

WithThis == connectedChargers + 1

ChargerFrame(c, v) ==
    /\ pc = "charger"
    /\ connectedChargers < MaxFrames
    /\ pc' = "bike"
    /\ scStaleCount' = 0
    /\ connectedChargers' = WithThis
    /\ chargerVoltageHolder' = v * VOLT_UNIT
    /\ heard' = heard \cup {c}
    /\ silence' = [silence EXCEPT !.charger = 0]
    /\ UNCHANGED <<chargerWaitCount, bikeStaleCount, settings, bikeVoltage, desiredOutputAmps>>
    /\ SetVoltageDiff

VoltageFrame(v) ==
    /\ pc = "bike"
    /\ pc' = "stale"
    /\ bikeStaleCount' = 0
    /\ bikeVoltage' = v
    /\ silence' = [silence EXCEPT !.bike = 0]
    /\ UNCHANGED <<chargerWaitCount, scStaleCount, connectedChargers, settings,
                   chargerVoltageHolder, desiredOutputAmps, heard>>
    /\ SetVoltageDiff

(* Any other frame of the bike also keeps its voltage from going stale.    *)
OtherFrame ==
    /\ pc = "bike"
    /\ pc' = "stale"
    /\ bikeStaleCount' = 0
    /\ silence' = [silence EXCEPT !.bike = 0]
    /\ UNCHANGED <<chargerWaitCount, scStaleCount, connectedChargers, settings,
                   readings, outputs, heard>>

Nothing ==
    /\ pc' = CASE pc = "user" -> "charger" [] pc = "charger" -> "bike" [] pc = "bike" -> "stale"
    /\ UNCHANGED <<counters, connectedChargers, settings, readings, outputs, heard, silence>>

NoCommand == pc = "user" /\ Nothing
NoChargerFrame == pc = "charger" /\ Nothing
NoBikeFrame == pc = "bike" /\ Nothing

-----------------------------------------------------------------------------
(* The counters' limit: once over its threshold a counter counts on, which *)
(* changes nothing any more.                                               *)
CountTo(n, threshold) == IF n > threshold THEN n ELSE n + 1

ScStale == scStaleCount' > SC_STALE_THRESHOLD

(* Mutant of BikeStale: the charger's threshold is used.                   *)
BikeStaleLate == bikeStaleCount' > SC_STALE_THRESHOLD

BikeStale == bikeStaleCount' > BIKE_STALE_THRESHOLD

Stale ==
    /\ pc = "stale"
    /\ pc' = "count"
    /\ bikeStaleCount' = CountTo(bikeStaleCount, SC_STALE_THRESHOLD)
    /\ scStaleCount' = CountTo(scStaleCount, SC_STALE_THRESHOLD)
    /\ chargerVoltage' = IF ScStale THEN 0 ELSE chargerVoltage
    /\ chargerVoltageHolder' = IF ScStale THEN 0 ELSE chargerVoltageHolder
    /\ bikeVoltage' = IF BikeStale THEN 0 ELSE bikeVoltage
    /\ IF ScStale \/ BikeStale
       THEN desiredOutputVolts' = 0 /\ desiredOutputAmps' = 0 /\ basis' = -1
       ELSE UNCHANGED outputs
    /\ silence' = [charger |-> CountTo(silence.charger, SC_STALE_THRESHOLD),
                   bike |-> CountTo(silence.bike, BIKE_STALE_THRESHOLD)]
    /\ UNCHANGED <<chargerWaitCount, connectedChargers, settings, heard>>

Next == \/ Count
        \/ \E c \in Commands : ReadCommand(c)
        \/ NoCommand
        \/ \E c \in Chargers, v \in ChargerVolts : ChargerFrame(c, v)
        \/ NoChargerFrame
        \/ \E v \in BikeVolts : VoltageFrame(v)
        \/ OtherFrame
        \/ NoBikeFrame
        \/ Stale
        \/ PowerCycle

Spec == Init /\ [][Next]_vars

-----------------------------------------------------------------------------
TypeOK == /\ pc \in {"count", "user", "charger", "bike", "stale"}
          /\ chargerWaitCount \in 0..COUNT_SCV2_THRESHOLD
          /\ scStaleCount \in Nat
          /\ bikeStaleCount \in Nat
          /\ connectedChargers \in 0..MaxFrames
          /\ targetWatts \in Nat \cup {-1}
          /\ endVolts \in Nat \cup {-1}
          /\ {bikeVoltage, chargerVoltage, chargerVoltageHolder} \subseteq Nat
          /\ {desiredOutputVolts, desiredOutputAmps} \subseteq Short
          /\ heard \subseteq Chargers

(* A charge command goes out only while both the chargers and the bike     *)
(* have been heard within their thresholds: readings of a bus that fell    *)
(* silent are gone by the time a command could use them (loop, the three   *)
(* counters).                                                              *)
HeardRecently ==
    Sends => /\ silence.charger <= SC_STALE_THRESHOLD
             /\ silence.bike <= BIKE_STALE_THRESHOLD

(* The chargers heard since the last command are asked together for no     *)
(* more than the target at the bike's voltage: frames are counted and not  *)
(* chargers, so they may be asked for less, but never for more.            *)
SharedTarget ==
    [][ Sends /\ heard # {} =>
            desiredOutputAmps' * Cardinality(heard) * Over(bikeVoltage, VOLT_UNIT)
                <= targetWatts * VOLT_UNIT ]_vars

(* While charging is possible the output voltage is made from the end      *)
(* voltage in force.  Staleness resets it, but a reading that makes        *)
(* charging possible again sets it again.  Only a command that changes the *)
(* end voltage parts the two, until the next frame.  What goes out till    *)
(* then is made from the end voltage before or, if the command raised it   *)
(* over a reading that had come back at or over it, is a reset's zero.     *)
OutputFollowsEnd ==
    [][ isReadyToCharge' /\ basis' # endVolts' =>
            \/ isReadyToCharge /\ basis # endVolts
            \/ pc = "user" /\ endVolts' # endVolts ]_vars
=============================================================================

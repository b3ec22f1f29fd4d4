------------------------------ MODULE WattLaw -------------------------------
(***************************************************************************)
(* The arithmetic of one pass of loadShare.ino: from the voltage and the   *)
(* current the chargers report and the wattage of the previous pass to the *)
(* wattage wanted now and the current each charger is asked for.           *)
(*                                                                         *)
(* Units are the sketch's: 0.1 V, 0.1 A, 0.01 W.  The #defines keep their  *)
(* names and are parameters, so that the theorems hold for the values in   *)
(* the source and TLC may use small ones in the same order.  The widths of *)
(* the C types are parameters for the same reason; on the AVR boards of    *)
(* loadShare/data/library.json an int has 16 bits and an unsigned long 32. *)
(***************************************************************************)
EXTENDS Integers, Sequences

CONSTANTS
    USHORT_MOD,            (* 2^16: unsigned short                         *)
    UINT_MOD,              (* 2^16: unsigned int, the type of amps * volts *)
    ULONG_MOD,             (* 2^32: unsigned long                          *)
    RAMP_RATE,             (* 5000 *)
    MAX_12V_WATTS,         (* 7600 *)
    OUTPUT_VOLTS_MAX,      (* 1164 *)
    OUTPUT_VOLTS_MIN,      (*  500 *)
    OUTPUT_VOLTS_CUTBACK,  (* <<1130, 1135, 1145, 1155, 1160>>             *)
    OUTPUT_WATTS_CUTBACK   (* <<700000, 600000, 500000, 400000, 300000>>   *)

CUTBACK_COUNT == 5

ASSUME WidthAssumption ==
    /\ USHORT_MOD \in Nat \ {0}
    /\ UINT_MOD \in Nat \ {0}
    /\ ULONG_MOD \in Nat \ {0}
    /\ UINT_MOD <= ULONG_MOD

ASSUME LawAssumption ==
    /\ RAMP_RATE \in Nat \ {0}
    /\ MAX_12V_WATTS \in Nat
    /\ OUTPUT_VOLTS_MAX \in Nat
    /\ OUTPUT_VOLTS_MIN \in Nat \ {0}
    /\ OUTPUT_VOLTS_CUTBACK \in [1..CUTBACK_COUNT -> Nat]
    /\ OUTPUT_WATTS_CUTBACK \in [1..CUTBACK_COUNT -> Nat]
    /\ \A i \in 1..CUTBACK_COUNT : RAMP_RATE <= OUTPUT_WATTS_CUTBACK[i]

UShort == 0..(USHORT_MOD - 1)
ULong  == 0..(ULONG_MOD - 1)

-----------------------------------------------------------------------------
(* watts = (amps * volts), both unsigned short.                            *)
Measured(amps, volts) == (amps * volts) % UINT_MOD

(* The wattage does not fall below that of the previous pass.              *)
Held(measured, lastWatts) == IF measured < lastWatts THEN lastWatts ELSE measured

(* Mutant of StationLimited: the clamp to the station is missing.          *)
StationUnlimited(watts, station) ==
    IF (watts + MAX_12V_WATTS) % ULONG_MOD < station
    THEN (watts + RAMP_RATE) % ULONG_MOD
    ELSE watts

(* One ramp step up while the station has headroom, and down to what the   *)
(* station delivers less the 12 V supply when it has not.  Both tests use  *)
(* the estimate made before the ramp step.                                 *)
StationLimited(watts, station) ==
    LET stationWatts == (watts + MAX_12V_WATTS) % ULONG_MOD
    IN  CASE stationWatts < station -> (watts + RAMP_RATE) % ULONG_MOD
          [] stationWatts > station -> (station - MAX_12V_WATTS) % ULONG_MOD
          [] OTHER                  -> watts

(* Mutant of CutbackPoint: the test of the wattage is missing.             *)
CutbackPointAnyWatts(i, volts, watts) ==
    IF volts > OUTPUT_VOLTS_CUTBACK[i] THEN watts - RAMP_RATE ELSE watts

(* Cutback point i: over its voltage, one ramp step down if over its       *)
(* wattage.                                                                *)
CutbackPoint(i, volts, watts) ==
    IF volts > OUTPUT_VOLTS_CUTBACK[i] /\ watts > OUTPUT_WATTS_CUTBACK[i]
    THEN watts - RAMP_RATE
    ELSE watts

(* The loop over the cutback points: each one acts on what the ones before *)
(* it have left.                                                           *)
Cutback(volts, watts) ==
    LET w1 == CutbackPoint(1, volts, watts)
        w2 == CutbackPoint(2, volts, w1)
        w3 == CutbackPoint(3, volts, w2)
        w4 == CutbackPoint(4, volts, w3)
    IN  CutbackPoint(5, volts, w4)

(* A cutback point applies to this voltage and this wattage.               *)
OverCutback(volts, watts) ==
    \E i \in 1..CUTBACK_COUNT :
        volts > OUTPUT_VOLTS_CUTBACK[i] /\ watts > OUTPUT_WATTS_CUTBACK[i]

(* The wattage of this pass.                                               *)
PassWatts(amps, volts, lastWatts, station) ==
    LET held    == Held(Measured(amps, volts), lastWatts)
        limited == StationLimited(held, station)
        capped  == IF volts > OUTPUT_VOLTS_MAX THEN 0 ELSE limited
    IN  IF volts < OUTPUT_VOLTS_MIN THEN 0 ELSE Cutback(volts, capped)

(* Mutant of ChargingAmps: the current is not shared.                      *)
ChargingAmpsUnshared(watts, volts, chargerCount) ==
    (watts \div volts) % USHORT_MOD

(* setChargingAmps: the current each charger is asked for.                 *)
ChargingAmps(watts, volts, chargerCount) ==
    ((watts \div volts) \div chargerCount) % USHORT_MOD
=============================================================================

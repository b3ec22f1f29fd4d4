---------------------------- MODULE MCLoadShare -----------------------------
(***************************************************************************)
(* Small instances of LoadShare.  The numbers keep the order the #defines  *)
(* of loadShare.ino have:                                                  *)
(*   ramp step < 12 V supply < four cutback wattages < default             *)
(*             < the first cutback wattage < unset,                        *)
(*   volts min < cutback voltages < volts max,                             *)
(* a product of a current and a voltage passes the width of the product,   *)
(* and the current HeartbeatMessage starts with is none Regulate computes. *)
(***************************************************************************)
EXTENDS LoadShare, TLC

MCFrames == [from : Chargers, reading : Readings]

MCVoltsCutback == <<10, 10, 11, 12, 12>>
MCWattsCutback == <<70, 60, 50, 40, 30>>

Reading(v, a) == [volts |-> v, amps |-> a]

(* One healthy reading, for the runs about interleavings.                  *)
OneReading == {Reading(9, 2)}

(* Healthy with and without current drawn, over the cutback points and     *)
(* over the maximum.  A drain that finds nothing makes the voltage that is *)
(* under the minimum.                                                      *)
AllReadings == {Reading(9, 0), Reading(9, 15), Reading(12, 3), Reading(14, 3)}

SaneCommands == {30, 90}
AnyCommand == {-1, 0, 30, 90}
NoCommand == {}

=============================================================================

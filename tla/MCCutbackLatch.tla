---------------------------- MODULE MCCutbackLatch ----------------------------
(***************************************************************************)
(* A small instance of CutbackLatch: a ramp step well over the 12 V supply, *)
(* points further apart than the difference, and orders under, at, just    *)
(* under and over their wattages.                                          *)
(***************************************************************************)
EXTENDS CutbackLatch

MCFrames == [from : Chargers, reading : Readings]

MCVoltsCutback == <<0, 0, 0, 0, 0>>
MCWattsCutback == <<60, 50, 40, 30, 20>>

MCLatchVolts == <<8, 10, 12>>
MCLatchWatts == <<62, 40, 20>>

Reading(v, a) == [volts |-> v, amps |-> a]

(* Under every point, over one, two and three of them, and over the        *)
(* maximum.                                                                *)
MCReadings == {Reading(8, 1), Reading(9, 7), Reading(11, 1), Reading(13, 1), Reading(15, 0)}

MCCommands == {15, 38, 61, 90}
=============================================================================

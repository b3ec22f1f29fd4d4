--------------------------- MODULE MCChargeMonitor ----------------------------
(***************************************************************************)
(* A small instance of ChargeMonitor.  The thresholds keep their order,    *)
(* bike < count < charger, and the voltages theirs: under the minimum,     *)
(* under and over the end voltages.                                        *)
(***************************************************************************)
EXTENDS ChargeMonitor

MCChargerVolts == {3, 6, 9}
MCBikeVolts == {6, 13, 21}
MCCommands == {[volts |-> 8, watts |-> 20], [volts |-> 10, watts |-> 35],
               [volts |-> 2, watts |-> -1]}
=============================================================================

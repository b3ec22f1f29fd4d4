---------------------------- MODULE MCZeroCharger -----------------------------
(***************************************************************************)
(* A small instance of ZeroCharger.  As in the source, the minimum is      *)
(* below the cutback voltages, and those below the maximum, which v3       *)
(* starts with as its end voltage; a ramp step is more than a charger's    *)
(* 12 V supply, and three of them are less than the first station and than *)
(* what the rows of the voltages leave of it, so that winding down takes   *)
(* several heartbeats.  There are rows under and over 1C, currents under   *)
(* and over a pack's capacity, temperatures under the cold rows, between,  *)
(* and over one or both hot rows.  The second command has an end voltage   *)
(* over the maximum, and a station that has not got what its four          *)
(* chargers' supplies take.                                                *)
(***************************************************************************)
EXTENDS ZeroCharger

Set(end, count, watts_, cPlus, ramp) ==
    [end |-> end, cRate |-> 40, count |-> count, watts |-> watts_,
     cPlus |-> cPlus, ramp |-> ramp]

MCSettings == {Set(16, 4, 600, 0, 100), Set(28, 4, 100, 1, 100)}
MCV3Settings == Set(25, 0, 600, 0, 100)

Voltage(p, v) == [kind |-> "voltage", pack |-> p, volts |-> v]
Active(p, a, low, high) ==
    [kind |-> "active", pack |-> p, amps |-> a, low |-> low, high |-> high]
Config(p, ah) == [kind |-> "config", pack |-> p, AH |-> ah]

MCBikeFrames ==
    {Voltage("monolith", 30), Voltage("powerTank", 20),
     Active("monolith", 0, 5, 25), Active("monolith", -5, 25, 50),
     Active("powerTank", 5, 25, 60),
     Config("monolith", 4), Config("powerTank", 4)}

MCChargerVolts == {10, 20}

MCMisread == {25}

MCVoltCutback == {[at |-> 12, c |-> 15], [at |-> 18, c |-> 5]}
MCColdCutback == {[at |-> 10, c |-> 5]}
MCHotCutback == {[at |-> 45, c |-> 5], [at |-> 55, c |-> 0]}
MCPastEnd == {[at |-> 4, c |-> 0]}
=============================================================================

----------------------------- MODULE CutbackLatch -----------------------------
(***************************************************************************)
(* The load share variants for two and four chargers and for the BAJA bike *)
(* (5.7kw_load_share, 13kw_load_share, BAJA-13kw_load_share): the sketch   *)
(* of LoadShare with another cutback.  A voltage over a cutback point does *)
(* not take a ramp step off the wattage, it makes the wattage of the point *)
(* the station's target, and nothing but a command or a restart takes that *)
(* back.  The ramp step is larger than the 12 V supply here (50000 against *)
(* 7600), so the wattage a cutback point is compared with may be over the  *)
(* target, and a cutback may raise it.                                     *)
(*                                                                         *)
(* These sketches store a command with EEPROMex, see StoredSettings for    *)
(* the writes that may fail; here the EEPROM keeps what it is given.       *)
(***************************************************************************)
EXTENDS LoadShare, FiniteSetsExt

CONSTANTS
    LATCH_VOLTS,   (* the arrays OUTPUT_VOLTS_CUTBACK and                  *)
    LATCH_WATTS    (* OUTPUT_WATTS_CUTBACK of these sketches               *)

Points == DOMAIN LATCH_WATTS

(* What the ramp may put on top of a target that pays for the 12 V supply. *)
Overshoot == RAMP_RATE - MAX_12V_WATTS

(* The wattages of the points lie further apart than that.                 *)
ASSUME LatchAssumption ==
    /\ LATCH_WATTS \in Seq(1..(ULONG_MOD - 1))
    /\ LATCH_VOLTS \in [Points -> Nat]
    /\ Overshoot > 0
    /\ \A i, j \in Points : LATCH_WATTS[i] < LATCH_WATTS[j] =>
                                LATCH_WATTS[i] + Overshoot <= LATCH_WATTS[j]

VARIABLE ordered   (* history: the target that setup or a command set      *)

latchVars == <<vars, ordered>>

-----------------------------------------------------------------------------
(* Mutant of CutTo: the test of the wattage is missing.                    *)
CutToAnyWatts(v, w) ==
    LET over == {j \in Points : v > LATCH_VOLTS[j]}
    IN  IF over = {} THEN w ELSE Min({LATCH_WATTS[i] : i \in over})

(* Mutant of CutTo: the step down of loadShare.ino is still there.         *)
CutToAndStep(v, w) ==
    LET over == {j \in Points : v > LATCH_VOLTS[j]}
    IN  IF over = {} THEN w ELSE Min({w} \cup {LATCH_WATTS[i] : i \in over}) - RAMP_RATE

(* The loop over the cutback points: each point in turn takes wattage and  *)
(* target down to its own, so the lowest of those over which both the      *)
(* voltage and the wattage are remains.                                    *)
CutTo(v, w) == Min({w} \cup {LATCH_WATTS[i] : i \in {j \in Points : v > LATCH_VOLTS[j]}})

(* Mutant of RegulateLatch: the station's limit is not applied.            *)
RegulateUnlimited ==
    LET held    == Held(Measured(amps, volts'), watts)
        limited == (held + RAMP_RATE) % ULONG_MOD
        capped  == IF volts' > OUTPUT_VOLTS_MAX THEN 0 ELSE limited
        cut     == CutTo(volts', capped)
    IN  /\ Goto("regulate", "send")
        /\ volts' = AverageVolts
        /\ MAX_STATION_WATTS' = IF cut < capped THEN cut ELSE MAX_STATION_WATTS
        /\ watts' = IF volts' < OUTPUT_VOLTS_MIN THEN 0 ELSE cut
        /\ chargingAmps' = IF watts' > 0
                           THEN ChargingAmps(watts', volts', chargerCount)
                           ELSE chargingAmps
        /\ heartbeat' = chargingAmps'
        /\ UNCHANGED <<armed, chargerCount, amps, signal, eeprom, quota, rxVars, ordered>>

RegulateLatch ==
    LET held    == Held(Measured(amps, volts'), watts)
        limited == StationLimited(held, MAX_STATION_WATTS)
        capped  == IF volts' > OUTPUT_VOLTS_MAX THEN 0 ELSE limited
        cut     == CutTo(volts', capped)
    IN  /\ Goto("regulate", "send")
        /\ volts' = AverageVolts
        /\ MAX_STATION_WATTS' = IF cut < capped THEN cut ELSE MAX_STATION_WATTS
        /\ watts' = IF volts' < OUTPUT_VOLTS_MIN THEN 0 ELSE cut
        /\ chargingAmps' = IF watts' > 0
                           THEN ChargingAmps(watts', volts', chargerCount)
                           ELSE chargingAmps
        /\ heartbeat' = chargingAmps'
        /\ UNCHANGED <<armed, chargerCount, amps, signal, eeprom, quota, rxVars, ordered>>

-----------------------------------------------------------------------------
LatchInit == Init /\ ordered = 0

(* What orders a target, and everything that leaves it alone.              *)
Order == /\ ReadTarget \/ (\E command \in Commands : ReadCommand(command)) \/ PowerCycle
         /\ ordered' = MAX_STATION_WATTS'

Others == /\ \/ CanBegin \/ AttachInterrupt
             \/ NoMoreCommands \/ TakeFlag \/ SkipPass
             \/ CheckReceive \/ ReadRxTxStatus \/ ReadMsgBuf
             \/ SendHeartbeat \/ Delay \/ MCP2515_ISR
             \/ \E f \in Frames : FrameArrives(f)
          /\ UNCHANGED ordered

LatchNext == Order \/ Others \/ RegulateLatch

LatchSpec == LatchInit /\ [][LatchNext]_latchVars

-----------------------------------------------------------------------------
LatchTypeOK == TypeOK /\ ordered \in ULong

(* A target that was cut is the wattage of a cutback point, and however    *)
(* often voltages rise and fall between commands, cutbacks put the target  *)
(* less than one overshoot of the ramp over the one ordered: they do not   *)
(* climb from point to point (loop, the cutback points).                   *)
TargetBounded ==
    MAX_STATION_WATTS # ordered =>
        /\ \E i \in Points : MAX_STATION_WATTS = LATCH_WATTS[i]
        /\ MAX_STATION_WATTS < ordered + Overshoot

(* After its first cut the target only falls until the next command or     *)
(* restart: the station is never used up to the order again.               *)
OnceCutOnlyLower ==
    [][ pc = "regulate" /\ pc' = "send" /\ MAX_STATION_WATTS # ordered =>
            MAX_STATION_WATTS' <= MAX_STATION_WATTS ]_latchVars

(* The wattage of a pass stays within an overshoot of the target in force  *)
(* after it, the one a cutback of the same pass may have put there.        *)
WattsFollowTarget ==
    [][ pc = "regulate" /\ pc' = "send" =>
            watts' < MAX_STATION_WATTS' + Overshoot ]_latchVars
=============================================================================

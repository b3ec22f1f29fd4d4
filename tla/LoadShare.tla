----------------------------- MODULE LoadShare ------------------------------
(***************************************************************************)
(* loadShare/loadShare.ino, the production sketch: setup and loop, the     *)
(* interrupt handler that preempts them, the receive buffers of the CAN    *)
(* controller they read, the chargers that fill those buffers, commands    *)
(* that come in over the serial line, and loss of power at any point.      *)
(*                                                                         *)
(* pc names the statement the sketch is about to execute:                  *)
(*   "get"       setup: EEPROM.get and the check of what it returned       *)
(*   "begin"     setup: CAN.begin, which resets the controller             *)
(*   "attach"    the controller is live, the interrupt not attached yet    *)
(*   "commands"  loop: readCommands                                        *)
(*   "flag"      if (flagRecv)                                             *)
(*   "drain"     while (CAN.checkReceive())                                *)
(*   "select"    readMsgBuf: readRxTxStatus                                *)
(*   "read"      readMsgBuf: the read of the selected buffer               *)
(*   "regulate"  from the average voltage to the heartbeat                 *)
(*   "send"      CAN.sendMsgBuf                                            *)
(*   "delay"     delay(1000)                                               *)
(***************************************************************************)
EXTENDS WattLaw, CanReceive

CONSTANTS
    Chargers,               (* the chargers on the bus                     *)
    Readings,               (* what a charger may report: [volts, amps]    *)
    Commands,               (* the numbers that come in over serial        *)
    WATTAGE_MAX_UNSET,      (* 1400000 *)
    STATION_WATTS_DEFAULT,  (*  660000 *)
    HEARTBEAT_CURRENT,      (* 320, the current HeartbeatMessage starts with *)
    FramesPerPass           (* bound: frames a charger sends in one pass   *)

ASSUME ParameterAssumption ==
    /\ Frames = [from : Chargers, reading : Readings]
    /\ Readings \subseteq [volts : UShort, amps : UShort]
    /\ Commands \subseteq Int
    /\ WATTAGE_MAX_UNSET \in ULong
    /\ STATION_WATTS_DEFAULT \in 0..WATTAGE_MAX_UNSET
    /\ HEARTBEAT_CURRENT \in UShort
    /\ FramesPerPass \in Nat \ {0}

VARIABLES
    pc,
    MAX_STATION_WATTS, chargingAmps, chargerCount, volts, amps, watts,
    heartbeat,     (* the current in HeartbeatMessage                      *)
    flagRecv,
    irq,           (* the falling edge of INT is latched, its ISR has not run *)
    armed,         (* history: attachInterrupt has left no frame unnoticed *)
    eeprom,        (* the unsigned long at TargetWattsAddress              *)
    quota          (* frames each charger may still send in this pass      *)

control == <<pc, armed>>
sums    == <<chargerCount, volts, amps>>
order   == <<chargingAmps, watts, heartbeat>>
signal  == <<flagRecv, irq>>
target  == <<MAX_STATION_WATTS, eeprom>>

vars == <<control, sums, order, signal, target, quota, rxVars>>

-----------------------------------------------------------------------------
(* Power on.  Globals have their initialisers, an EEPROM that was never    *)
(* written reads as all ones, and the controller is in configuration mode. *)
Init ==
    /\ pc = "get"
    /\ MAX_STATION_WATTS = 0
    /\ chargingAmps = 0
    /\ chargerCount = 0
    /\ volts = 0
    /\ amps = 0
    /\ watts = 0
    /\ heartbeat = HEARTBEAT_CURRENT
    /\ flagRecv = 0
    /\ irq = FALSE
    /\ armed = FALSE
    /\ eeprom = ULONG_MOD - 1
    /\ quota = [c \in Chargers |-> FramesPerPass]
    /\ rxb = EmptyBuffers
    /\ rxSelect = 0

(* The supply may fail before any statement; only the EEPROM survives.     *)
PowerCycle ==
    /\ pc' = "get"
    /\ MAX_STATION_WATTS' = 0
    /\ chargingAmps' = 0
    /\ chargerCount' = 0
    /\ volts' = 0
    /\ amps' = 0
    /\ watts' = 0
    /\ heartbeat' = HEARTBEAT_CURRENT
    /\ flagRecv' = 0
    /\ irq' = FALSE
    /\ armed' = FALSE
    /\ quota' = [c \in Chargers |-> FramesPerPass]
    /\ rxb' = EmptyBuffers
    /\ rxSelect' = 0
    /\ UNCHANGED eeprom

(* The sketch goes on from one statement to the next.  A latched interrupt *)
(* runs first: no code masks interrupts, and the processor takes one       *)
(* before the next instruction of the sketch.                              *)
At(statement) == pc = statement /\ ~irq

Goto(from, to) == At(from) /\ pc' = to

-----------------------------------------------------------------------------
(* setup *)

ReadTarget ==
    /\ Goto("get", "begin")
    /\ MAX_STATION_WATTS' = IF eeprom > WATTAGE_MAX_UNSET
                            THEN STATION_WATTS_DEFAULT
                            ELSE eeprom
    /\ UNCHANGED <<armed, sums, order, signal, eeprom, quota, rxVars>>

(* CAN.begin has returned CAN_OK; a begin that fails is tried again and    *)
(* changes nothing.                                                        *)
CanBegin ==
    /\ Goto("begin", "attach")
    /\ UNCHANGED <<armed, sums, order, signal, target, quota, rxVars>>

(* attachInterrupt on the falling edge.  If INT is low by then its edge is *)
(* gone; the switch of the pin to edge mode may or may not latch one.      *)
AttachInterrupt ==
    /\ Goto("attach", "commands")
    /\ irq' \in IF Pending THEN BOOLEAN ELSE {FALSE}
    /\ armed' = (Pending => irq')
    /\ UNCHANGED <<sums, order, flagRecv, target, quota, rxVars>>

-----------------------------------------------------------------------------
(* loop *)

(* One command.  targetWattage is unsigned, so its test against zero       *)
(* always succeeds and the branch for negative numbers is never taken.     *)
(* EEPROM.put is one step here: a supply that fails between two of its     *)
(* four bytes is a matter of StoredSettings, where each is written alone.  *)
ReadCommand(command) ==
    /\ At("commands")
    /\ MAX_STATION_WATTS' = command % ULONG_MOD
    /\ eeprom' = command % ULONG_MOD
    /\ UNCHANGED <<control, sums, order, signal, quota, rxVars>>

NoMoreCommands ==
    /\ Goto("commands", "flag")
    /\ UNCHANGED <<armed, sums, order, signal, target, quota, rxVars>>

(* Mutant of TakeFlag: the flag is not cleared.                            *)
TakeFlagKeepsFlag ==
    /\ Goto("flag", "drain")
    /\ flagRecv = 1
    /\ chargerCount' = 0
    /\ volts' = 0
    /\ amps' = 0
    /\ UNCHANGED <<armed, order, signal, target, quota, rxVars>>

(* Mutant of TakeFlag: volts = 0 is missing.                               *)
TakeFlagKeepsVolts ==
    /\ Goto("flag", "drain")
    /\ flagRecv = 1
    /\ flagRecv' = 0
    /\ chargerCount' = 0
    /\ amps' = 0
    /\ UNCHANGED <<armed, volts, order, irq, target, quota, rxVars>>

(* Mutant of TakeFlag: if (flagRecv) is missing.                           *)
TakeFlagUnasked ==
    /\ Goto("flag", "drain")
    /\ flagRecv' = 0
    /\ chargerCount' = 0
    /\ volts' = 0
    /\ amps' = 0
    /\ UNCHANGED <<armed, order, irq, target, quota, rxVars>>

(* The previous wattage stays in watts until Regulate, where the code      *)
(* moves it to lastWatts here: nothing reads either in between.            *)
TakeFlag ==
    /\ Goto("flag", "drain")
    /\ flagRecv = 1
    /\ flagRecv' = 0
    /\ chargerCount' = 0
    /\ volts' = 0
    /\ amps' = 0
    /\ UNCHANGED <<armed, order, irq, target, quota, rxVars>>

SkipPass ==
    /\ Goto("flag", "send")
    /\ flagRecv = 0
    /\ UNCHANGED <<armed, sums, order, signal, target, quota, rxVars>>

CheckReceive ==
    /\ Goto("drain", IF Pending THEN "select" ELSE "regulate")
    /\ UNCHANGED <<armed, sums, order, signal, target, quota, rxVars>>

ReadRxTxStatus ==
    /\ Goto("select", "read")
    /\ rxSelect' = SelectBuffer
    /\ UNCHANGED <<armed, sums, order, signal, target, quota, rxb>>

(* Mutant of ReadMsgBuf: if in place of while, one frame a pass.           *)
ReadOneMsg ==
    LET reading == rxb[rxSelect].reading IN
    /\ Goto("read", "regulate")
    /\ rxb' = AfterRead
    /\ rxSelect' = 0
    /\ chargerCount' = chargerCount + 1
    /\ volts' = (volts + reading.volts) % USHORT_MOD
    /\ amps' = (amps + reading.amps) % USHORT_MOD
    /\ UNCHANGED <<armed, order, signal, target, quota>>

ReadMsgBuf ==
    LET reading == rxb[rxSelect].reading IN
    /\ Goto("read", "drain")
    /\ rxb' = AfterRead
    /\ rxSelect' = 0
    /\ chargerCount' = chargerCount + 1
    /\ volts' = (volts + reading.volts) % USHORT_MOD
    /\ amps' = (amps + reading.amps) % USHORT_MOD
    /\ UNCHANGED <<armed, order, signal, target, quota>>

AverageVolts == IF chargerCount > 1 THEN volts \div chargerCount ELSE volts

(* Mutant of Regulate: flagRecv is cleared at the end of the pass.         *)
RegulateClearsFlag ==
    /\ Goto("regulate", "send")
    /\ volts' = AverageVolts
    /\ watts' = PassWatts(amps, volts', watts, MAX_STATION_WATTS)
    /\ chargingAmps' = IF watts' > 0
                       THEN ChargingAmps(watts', volts', chargerCount)
                       ELSE chargingAmps
    /\ heartbeat' = chargingAmps'
    /\ flagRecv' = 0
    /\ UNCHANGED <<armed, chargerCount, amps, irq, target, quota, rxVars>>

Regulate ==
    /\ Goto("regulate", "send")
    /\ volts' = AverageVolts
    /\ watts' = PassWatts(amps, volts', watts, MAX_STATION_WATTS)
    /\ chargingAmps' = IF watts' > 0
                       THEN ChargingAmps(watts', volts', chargerCount)
                       ELSE chargingAmps
    /\ heartbeat' = chargingAmps'
    /\ UNCHANGED <<armed, chargerCount, amps, signal, target, quota, rxVars>>

(* A second begins, in which every charger is due again.                   *)
SendHeartbeat ==
    /\ Goto("send", "delay")
    /\ quota' = [c \in Chargers |-> FramesPerPass]
    /\ UNCHANGED <<armed, sums, order, signal, target, rxVars>>

Delay ==
    /\ Goto("delay", "commands")
    /\ UNCHANGED <<armed, sums, order, signal, target, quota, rxVars>>

-----------------------------------------------------------------------------
(* What preempts the sketch *)

MCP2515_ISR ==
    /\ irq
    /\ irq' = FALSE
    /\ flagRecv' = 1
    /\ UNCHANGED <<control, sums, order, target, quota, rxVars>>

(* The controller is out of configuration mode.                            *)
Listening == pc \notin {"get", "begin"}

Attached == pc \notin {"get", "begin", "attach"}

(* A charger's frame reaches the controller.  INT falls if no frame was    *)
(* waiting, and the attached interrupt latches the edge.                   *)
FrameArrives(f) ==
    /\ Listening
    /\ quota[f.from] > 0
    /\ quota' = [quota EXCEPT ![f.from] = @ - 1]
    /\ rxb' = Accept(f)
    /\ irq' = (irq \/ (Attached /\ ~Pending))
    /\ UNCHANGED <<control, sums, order, flagRecv, target, rxSelect>>

-----------------------------------------------------------------------------
Setup == ReadTarget \/ CanBegin \/ AttachInterrupt

Loop == \/ NoMoreCommands \/ TakeFlag \/ SkipPass
        \/ CheckReceive \/ ReadRxTxStatus \/ ReadMsgBuf
        \/ Regulate \/ SendHeartbeat \/ Delay

Environment == \/ \E command \in Commands : ReadCommand(command)
               \/ \E f \in Frames : FrameArrives(f)
               \/ PowerCycle

Next == Setup \/ Loop \/ MCP2515_ISR \/ Environment

Spec == Init /\ [][Next]_vars

(* The processor keeps running and takes its interrupts.  Nobody owes the  *)
(* sketch a frame, a command or a power failure.                           *)
Fairness == WF_vars(Setup \/ Loop) /\ WF_vars(MCP2515_ISR)

FairSpec == Spec /\ Fairness

-----------------------------------------------------------------------------
(* Every variable keeps to the range of its C type, and the two history    *)
(* variables to theirs.                                                    *)
TypeOK ==
    /\ RxTypeOK
    /\ pc \in {"get", "begin", "attach", "commands", "flag", "drain",
               "select", "read", "regulate", "send", "delay"}
    /\ MAX_STATION_WATTS \in ULong
    /\ chargingAmps \in UShort
    /\ chargerCount \in Nat
    /\ volts \in UShort
    /\ amps \in UShort
    /\ watts \in ULong
    /\ heartbeat \in UShort
    /\ flagRecv \in 0..1
    /\ irq \in BOOLEAN
    /\ armed \in BOOLEAN
    /\ eeprom \in ULong
    /\ quota \in [Chargers -> 0..FramesPerPass]

(* The interrupt protocol of MCP2515_ISR and loop: flagRecv is cleared     *)
(* before the buffers are drained and the drain ends on a look that finds  *)
(* them empty, so a frame that waits while nothing is left to announce it  *)
(* waits only in a sketch that attached its interrupt too late.            *)
Draining == pc \in {"drain", "select", "read"}

Announced == irq \/ flagRecv = 1 \/ Draining

NoLostWakeup == armed /\ Pending => Announced

(* An interrupt raised while the drain was still reading leaves flagRecv   *)
(* set with nothing to read, and the next pass takes its zero volts for a  *)
(* battery under the minimum and drops the wattage to zero.  That cannot   *)
(* happen twice running: after a drain that found nothing, an interrupt    *)
(* means that a frame waits.                                               *)
NoTwoEmptyDrains ==
    Attached /\ chargerCount = 0 /\ (irq \/ flagRecv = 1) => Pending

(* Between readRxTxStatus and the read of the buffer it chose, no arrival  *)
(* may empty or move that buffer: the read returns a frame.                *)
ReadFindsFrame ==
    /\ pc = "select" => Pending
    /\ pc = "read" => rxb[rxSelect] # NoFrame

(* setChargingAmps divides by volts and by chargerCount; it is called only *)
(* with a wattage above zero, and that takes a voltage no empty drain can  *)
(* report, whatever was summed, averaged and held over before.             *)
DivisorsPositive ==
    pc = "regulate" /\ AverageVolts >= OUTPUT_VOLTS_MIN =>
        chargerCount > 0 /\ AverageVolts > 0

(* A sketch whose interrupt was attached after the edge never hears a      *)
(* charger again: nothing but a power cycle reads the buffers.             *)
Deaf == Attached /\ Pending /\ ~Announced

DeafForever == [][Deaf => Deaf' \/ pc' = "get"]_vars

(* Regulate asks for no more than the station's budget and one ramp step,  *)
(* and a wattage already over the budget comes back under it in one pass   *)
(* ("ramps down instantly").  It holds of targets that pay for the 12 V    *)
(* supply; below that the subtraction wraps.                               *)
WithinBudget(w) == w + MAX_12V_WATTS <= MAX_STATION_WATTS

BudgetKept ==
    [][ pc = "regulate" /\ pc' = "send" =>
          /\ watts' + MAX_12V_WATTS < MAX_STATION_WATTS + RAMP_RATE
          /\ ~WithinBudget(watts) => WithinBudget(watts') ]_vars

(* The chargers counted in a pass are asked for no more current together   *)
(* than the wattage of the pass stands for, and a pass raises that wattage *)
(* by at most a ramp step over the last one or over what is measured, and  *)
(* not at all while it is over a cutback point in voltage and in wattage.  *)
RequestFollowsWatts ==
    [][ pc = "regulate" /\ pc' = "send" /\ watts' > 0 =>
          /\ heartbeat' * chargerCount * volts' <= watts'
          /\ watts' <= Held(Measured(amps, volts'), watts) + RAMP_RATE
          /\ OverCutback(volts', Held(Measured(amps, volts'), watts)) =>
                watts' <= Held(Measured(amps, volts'), watts) ]_vars

-----------------------------------------------------------------------------
(* What the sketch's comments say and its code does not do                 *)

(* loadShare.ino:179 "stop the charger for this cycle if the max voltage   *)
(* reached": the heartbeat that follows asks for no current.               *)
OverVoltageStops == pc = "send" /\ volts > OUTPUT_VOLTS_MAX => heartbeat = 0

(* loadShare.ino:74 "default 32.0 overwritten immediately unless no can    *)
(* messages recieved": once a frame has been received the heartbeat's      *)
(* current is computed, unless the power fails first.                      *)
DefaultOverwritten ==
    Pending ~> heartbeat # HEARTBEAT_CURRENT \/ pc = "get"

(* loadShare.ino:136 "How many messages have we received from chargers in  *)
(* this loop represents how many chargers are connected/live": when every  *)
(* charger has sent its frame of the pass and none is left to read, as     *)
(* many are counted as there are chargers.                                 *)
CountsEveryCharger ==
    pc = "regulate" /\ ~Pending /\ (\A c \in Chargers : quota[c] = 0) =>
        chargerCount = Cardinality(Chargers)

(* loadShare.ino:174 "if we want more than the station can deliver": the   *)
(* branch leaves a wattage the station can deliver.                        *)
NeverMoreThanStation ==
    [][ pc = "regulate" /\ pc' = "send" =>
          watts' <= MAX_STATION_WATTS + RAMP_RATE ]_vars

-----------------------------------------------------------------------------
(* The receive buffers, the interrupt and the drain loop implement the     *)
(* mailbox: two frames, none taken twice or altered, and, unless the       *)
(* interrupt was attached too late, none left unread.                      *)
Mailbox == INSTANCE ChargerMailbox WITH
    Capacity <- Cardinality(RxBuffers),
    waiting  <- [f \in Frames |-> Cardinality({i \in RxBuffers : rxb[i] = f})],
    attended <- armed

ImplementsMailbox == Mailbox!FairSpec
=============================================================================

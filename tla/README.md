# SCv2-sketches in TLA+

A verification project for the firmware of this repository: Arduino sketches
that tell DigiNow SuperChargers (SCv2) how much current to draw, over a CAN
bus, so that together they draw what a charging station delivers and what the
battery of a motorcycle takes.

Sections: the system, the modules, the properties and the runs, the proofs,
what is not modelled, the plan.

## 1. The system

Every sketch has the shape `setup(); for (;;) loop();` on one processor. What
runs beside it is the interrupt handler, the CAN controllers (MCP2515, behind
SPI), the chargers and the motorcycle on the buses, a user who sends commands,
and the power supply.

| component | state | operations | interacts with |
|---|---|---|---|
| **load share controller** `loadShare/loadShare.ino` (production, README.md:4) | target `MAX_STATION_WATTS`, `watts`, `chargingAmps`, sums of one drain, `HeartbeatMessage`, `flagRecv` | `setup`, `loop`, `MCP2515_ISR`, `readCommands`, `setChargingAmps` | CAN driver by call, chip by interrupt, user by serial, itself across restarts by EEPROM |
| **CAN driver, receive** `libraries/CAN_BUS_Shield-master/mcp_can.cpp` | two receive buffers in the chip | `begin`, `checkReceive`, `readMsgBuf` | chargers fill the buffers at any time; INT pin |
| **CAN driver, transmit** (same file) | three transmit buffers in the chip | `sendMsg`, `mcp2515_getNextFreeTXBuf` | the chip empties the buffers at any time |
| **settings in EEPROM** `LoadShare-v3`, `v2.5`, `libraries/EEPROMEx` | one or six words of four bytes, write budget of the session | `readCommands`, `writeLong`, `isWriteOk`, `setup` | survive power failures, also within a write |
| **settings in flash** `v2.6`, `libraries/FlashStorage` | copy in RAM, `_dirty`, a row of flash with a `valid` byte | `init`, `update`, `commit`, `erase`, `write` | survive power failures, also between erasing and programming |
| **load share variants** `13kw_load_share`, `5.7kw_load_share`, `BAJA-13kw_load_share`, `5.7kw_load_share-SERIAL` | as load share; the target is assigned by the cutback too | as load share | as load share, Bluetooth serial |
| **bike-aware chargers** `v2.5`, `v2.6`, `DEBUG_2.5` | six settings; voltage, current, capacity and temperatures of two packs; the countdown to the next heartbeat | `readCommands`, two drains, `setChargingAmps`, the heartbeat | two CAN buses, user by serial |
| **SuperCharger v3** `v3/*`, `libraries/DIGINOW_SUPERCHARGER` | as v2.6, and the BLE characteristics | `bikeLoop`, `superChargerLoop`, `setChargingAmps`, `superCharge`, `userUpdate` | two CAN buses, BLE callbacks wherever the radio is polled |
| **Zero frames** `libraries/ZERO_MOTORCYCLE` | none | decoding of bike frames | called by v2.x, v3 |
| **charge monitoring** `Zero_charge_monitoring`, `libraries/SCv2` | the last voltages of both buses, three counters, frames counted, the output asked for | one frame of each bus a pass, `setVoltageDiff`, `sendChargeCommand` | two CAN buses, user by serial |
| **forced charge** `basic_force_charge*`, `13kw_force` | a fixed target | as load share or v2.5 | one CAN bus |
| loggers and fixed senders, vendored radio libraries | none of the controllers' own | | |

What makes this hard, and where it bites, is the hazard list of PROJECT.json.
In short:

* *Concurrency.* The INT pin of the MCP2515 is a level, low while a receive
  buffer is full; the sketch listens to its falling **edge**. The edge, the flag
  `flagRecv` and the loop that drains the buffers form a wake-up protocol that
  frames, arriving at any instruction, try to break.
* *Limits.* Two receive buffers, read once a second, and a count of frames taken
  for a count of chargers; three transmit buffers, filled lowest first and
  emptied highest first.
* *Arithmetic.* 16-bit products, unsigned subtraction, two divisors that are
  zero after an empty drain, and five adjustments that act on `watts` one after
  the other.
* *Failure.* Power may go at any statement and within a write; the library
  refuses writes beyond a budget and nobody looks at the answer.

Correctness of each component, in a sentence:

* *load share*: the request follows the budget of the station and what the
  chargers report, whatever the order of events;
* *receive*: a bounded mailbox that loses a frame only when full and is never
  left unattended;
* *transmit*: the return value tells the truth and no heartbeat is sent twice;
* *settings*: what a restart finds is what was last commanded, unless its own
  write was cut or refused, and flash never mixes two commands; v2.5 and v2.6
  themselves replace one setting in force, the rate, by what the packs tell;
* *variants*: a cutback only lowers the target, but for the one overshoot that
  the ramp leaves, and does not climb from pass to pass;
* *bike-aware chargers and v3*: a heartbeat asks for no more than the station has
  and than 1C of the packs, less when they are hot or full, and comes soon and
  lower after a pack reported more than its 1C;
* *charge monitoring*: no charge command is computed from a bus that fell silent,
  the chargers are never asked for more than the target together, and the output
  is made from the end voltage in force unless a command has just changed that.

## 2. The modules

| module | models | code it stands for |
|---|---|---|
| `WattLaw` | the arithmetic of one pass as pure operators | loadShare.ino:91-93, 160-195 |
| `CanReceive` | receive buffers, their selection and their reading | mcp_can.cpp:556-664, 769-796, 1152-1194, 1256-1261 |
| `LoadShare` (extends both) | setup, loop, interrupt, chargers, commands, power | loadShare.ino:41-248 |
| `ChargerMailbox` | abstract: what the path from a charger to the regulator promises | - |
| `CutbackLatch` (extends `LoadShare`) | the sketches whose cutback assigns the target | 13kw_load_share.ino:34-258 |
| `CanTransmit` | `sendMsg` against the chip | mcp_can.cpp:737-763, 838-858, 1069-1108 |
| `HeartbeatChannel` | abstract: what `sendMsg` and the chip promise of a heartbeat | - |
| `StoredSettings` | commands, writes to EEPROM or flash, restarts | LoadShare-v3.ino:95-115, v2.5.ino:371-399, v2.6.ino:362-420, EEPROMex.cpp:214-219, 319-336, FlashAsEEPROM.cpp:36-72, FlashStorage.cpp:48-95 |
| `ZeroCharger` | v2.5, v2.6 and v3: frames, commands, BLE writes, `setChargingAmps`, heartbeats | v2.6.ino:221-546, v2.5.ino:315-331, SC.h, ZERO_BIKE.h, ZERO_V3_BLE.h, v3.ino:34-56, ZERO.cpp:259-277 |
| `ChargeMonitor` | one pass of the monitor with its three counters | Zero_charge_monitoring.ino:30-279 |
| `MCLoadShare`, `MCCutbackLatch`, `MCStoredSettings`, `MCZeroCharger`, `MCChargeMonitor` | constants of the runs | - |
| `WattLawProofs`, `LoadShareProofs`, `LoadShareBudgetProofs`, `CutbackLatchProofs`, `CanTransmitProofs`, `StoredSettingsProofs`, `ZeroChargerProofs`, `ChargeMonitorProofs` | theorems | - |

`CutbackLatch` and `LoadShare` are compositions of the sketch, the driver's
receive path, the chip and the chargers; `CanTransmit` stands alone, as what the
sketch does with a heartbeat does not depend on it: no sketch looks at the answer.

**LoadShare.** `pc` is the statement about to execute, and there is one action
for each stretch of code that nothing can observe half done: a transfer over SPI
is such a stretch, so the look that ends the drain (`CheckReceive`), the status
read (`ReadRxTxStatus`) and the buffer read (`ReadMsgBuf`) are three actions and
frames arrive between them. `Regulate` is everything from the average voltage to
the two bytes of the heartbeat: it touches only variables of the sketch, which
no interrupt reads or writes. `TakeFlag` clears `flagRecv` and zeroes the sums,
in the code's order, in one step: the interrupt handler commutes with the zeroing.
`At` says that a latched interrupt runs before the sketch's next
statement, as it does on an AVR with interrupts enabled. `FrameArrives` is a
charger's frame at the chip: it fills a buffer or is lost (`Accept`), and makes
an edge if INT was high. `PowerCycle` is enabled everywhere; it resets what the
C runtime and the controller reset, and keeps the EEPROM. The previous wattage
stays in `watts` until `Regulate`; the code moves it to `lastWatts` and sets
`watts` to zero when the pass begins, and nothing reads either before.

`ReadCommand` puts a target in force and into the EEPROM in one step. The
`EEPROM.put` of loadShare.ino:101 writes four bytes, and a target torn by a power
failure between two of them is a behaviour of `StoredSettings`; here a restart
finds a target that was commanded, or an erased one.

Left out of it: the status line on serial (it changes no state; its division by
`chargerCount` is in the hazard list), and how the serial stream is cut into
numbers: a command is any integer `toInt` may return.

**WattLaw.** The widths of `unsigned short`, `unsigned int` and `unsigned long`
and every `#define` are parameters, so that the theorems hold for the source's
values and TLC can use small ones. `(amps * volts)` is taken modulo the width of
an `int` of the AVR boards (`loadShare/data/library.json`).

**CanTransmit.** `SendMsg`, `LoadBuffer`, `AllTxBusy`, `GetTxBufTimeout` and
`CheckSent` are the polls of the two loops of `sendMsg`; `StartFrame`,
`FrameSent`, `FrameFails` are the chip. The sketch never stops sending. Heartbeats
are numbered so that order, loss and duplication can be stated: the first
`MaxBeats` each have a number and all later ones share one, `Beyond`, so that the
numbered ones stay in a stream without end.

**CutbackLatch.** `Setup`, the drain, the interrupt and the restart are
`LoadShare`'s actions; `RegulateLatch` takes the place of `Regulate`. `Points`
and `CutTo` are the loop over the cutback points, each of which takes wattage
*and* `MAX_STATION_WATTS` to its own; `CutTo` is their minimum. `ordered` is
history: the target a command or `setup` last put there. The three sketches differ
in numbers only.

**StoredSettings.** One module for three ways to keep settings, chosen by `sketch`
once and for all behaviours: `LoadShare-v3` (one word, EEPROM), `v2.5` (six words,
EEPROM), `v2.6` (six words, flash). A word is a function from byte indices to bytes;
`WriteByte` writes one, and `PowerCycle` may come between any two. `isWriteOk`
counts the writes of a session and `WriteRefused` is what readCommands does not
notice. In flash, `Update` changes the copy in RAM and `_dirty`; a commit is
`EraseSettings`, `EraseValid` and one `Program` for every slot, with power failures
between. An erased `valid` byte is not zero, so a row that was erased counts as
valid and reads as -1. `TakePackRate` is the step of the loop, not of a command,
that changes a setting in force: setChargingAmps of v2.5 and v2.6 makes `C_RATE` of
the packs' capacities, and stores nothing. v2.6 calls `readLong` and `writeLong` of
the flash class, which the class in `libraries/FlashStorage` does not have: they are
taken as four calls of its `read` and `update`. `loadShare.ino` goes through a
library that counts no writes: it is `LoadShare-v3` with a budget out of reach.

**ZeroCharger.** One module for v2.5, v2.6 and v3, chosen by `sketch`. `pc` is the
part of a pass: `user`, `charger`, `bike`, `tick` and, in v3, `poll`; each part
takes frames in any number, so that lost and delayed frames are behaviours too.
`SetChargingAmps` is the whole function: `BatteryVolts`, `Rate` (the 1C of the
packs), `Limited` with its rows by voltage, cold and heat, `WoundDown` for the end
voltage, `Shared`, `Reduced` for the packs over their 1C; in v3 it runs as the end
of `SuperChargerLoop` and the heartbeat is `SuperCharge`, with the radio's `poll`
in between, where `Apply` puts written characteristics in force. Undefined
outcomes are choices: a temperature whose high byte was never set (`Misread`), the
entries read past the end of two tables (`PastEnd`), a division by zero
(`Quotient`: 0 or all ones). A table is a set of rows `[at, c]`: every row that
applies takes the wattage down to its own, so the lowest remains, whatever their
order. `reported` is history: passes since a pack said it was over its 1C. That
chargingAmps set by a bike frame in v3 is gone before the next heartbeat is part
of the model (ZERO_BIKE.h:53): `OverCurrentReduced` is therefore stated of v2.x.
Settings across a restart are in `StoredSettings`; a first boot, whose erased
store reads as all ones, is left out here, and v2.x starts from an earlier
command. A command may set any number `toInt` returns, zeros among them; v2.5
alone keeps its end voltage when the number is outside its limits (`Taken`). The
volts of the BMS are millivolts over 100 as every use of them is; where v3 compares
two packs in millivolts, two that are equal here may be ordered either way
(`MayTake`). Numbers have their widths: `watts` is cut to 2^32 where v2.5 and v3
subtract the watts of the 12 V supplies from a station that has not got them.

**ChargeMonitor.** A pass is `Counted` or `Sends`, at most one command, one frame
of a charger, one frame of the bike, and `Stale`, which counts. `silence`, `heard`
and `basis` are history: how long a bus has really been silent, which chargers
were heard since the last command, and from which end voltage the output was
made. `AmpsEach` divides by `connectedChargers`, zero when no frame came since the
last command; the outcome is 0 or all ones. A command's two `EEPROM.put`
(Zero_charge_monitoring.ino:136-137) are one step; a power failure between them
leaves one setting old, which no property of the module would notice.

**ChargerMailbox.** A bag of at most `Capacity` frames (`Occupancy` counts its
`Copies`) with `Deliver`, `Take`, `Attend` and `Reset`. `LoadShare` implements it
under the mapping `waiting <- how many buffers hold f`, `attended <- armed`:
`FrameArrives` maps to `Deliver` or, when both buffers are full, to a stutter,
`ReadMsgBuf` to `Take`, `AttachInterrupt` to `Attend` unless the edge was missed,
`PowerCycle` to `Reset`, all else to stutters. Its fairness (the box is not left
alone while a frame is in it) follows from the fairness of the processor and from
the wake-up protocol, and that is the point of the refinement.

**HeartbeatChannel.** A sketch hands over one heartbeat at a time (`HandOver`); it
is accepted at most once and only until it is answered (`Accept`), each of at most
`Capacity` under way is delivered once (`Deliver`), and the answer is `Truthful`
when it is given. `CanTransmit` implements it under `underWay <- Waiting`,
`answers <- result`, `heard <- log`: `LoadBuffer` maps to `Accept`, `FrameSent` to
`Deliver`, the returns of `sendMsg` to `Truthful`, polls and the start and
failure of a frame on the bus to stutters. The channel has no step that takes a
heartbeat from `underWay` without delivering it, so the refinement also says that
no load overwrites a pending buffer.

## 3. Properties and runs

Deadlock is checked in every run.

| run | question | properties | shows |
|---|---|---|---|
| `wakeup` | does the edge, flag and drain protocol work? | `NoLostWakeup`, `NoTwoEmptyDrains`, `ReadFindsFrame`, `DeafForever`, `ImplementsMailbox` | holds, with two chargers that send up to two frames in a pass, overruns, power failures at any statement |
| `regulate` | does the request keep to the budget? | `TypeOK`, `DivisorsPositive`, `BudgetKept`, `RequestFollowsWatts` | holds for all kinds of voltage, products that pass 16 bits, targets changed and restarted at any time |
| `variants` | how far does a cutback that assigns the target move it? | `LatchTypeOK`, `TargetBounded`, `OnceCutOnlyLower`, `WattsFollowTarget` | a cutback may put the target less than one overshoot *over* the one ordered, once; after that it only falls, and is never used up to the order again before a command or restart |
| `transmit` | does `sendMsg` tell the truth? | `TypeOK`, `ResultTellsTruth`, `HeardOnce`, `InOrderUnlessCrowded`, `HeardOrOvertaken`, `ImplementsChannel` | holds; order is kept only while at most one heartbeat is pending, and a heartbeat in buffer 0 or 1 is sure to be heard only if later ones do not overtake it for ever |
| `stored` | is the last command what a restart finds? | `TypeOK`, `LastCommandStored`, `FlashNeverMixes`, `InForceAsCommanded` | holds with the two exceptions it names, a write cut and a write refused; EEPROM may hold settings of two commands, flash never does; the sketch acts on what was commanded or on what `setup` makes of it, two things only for a target over 14 kW, and for the rate, in v2.5 and v2.6, on what the packs told |
| `zero` | do v2.5, v2.6 and v3 keep every limit? | `TypeOK`, `OverCurrentAnswered`, `OverCurrentReduced`, `RequestWithinStation`, `OneCRespected`, `TablesLimitRequest`, `EndVoltageWindsDown` | holds for every order of frames, commands, BLE writes and heartbeats, whatever is read past the end of the tables |
| `monitor` | is a silent bus noticed in time? | `TypeOK`, `HeardRecently`, `SharedTarget`, `OutputFollowsEnd` | holds for two buses that fall silent and come back, with a sketch that restarts |
| `overvoltage` | loadShare.ino:179 | `OverVoltageStops` | violated: see below |
| `default_current` | loadShare.ino:74 | `DefaultOverwritten` | violated |
| `three_chargers` | loadShare.ino:136-137, README.md:11 | `CountsEveryCharger` | violated |
| `zero_target` | loadShare.ino:174 | `NeverMoreThanStation` | violated |
| `heartbeat_voltage` | v2.6.ino:209, SC.h:69 | `VoltageHighThenLow` | violated |

**Disagreements found.** (1) Over the maximum voltage, `watts = 0` makes the
code skip `setChargingAmps`, so the heartbeat goes on asking for the last
current instead of none. (2) The controller is on the bus before
`attachInterrupt`; a frame in that window takes the only falling edge, and the
sketch sends its default 32.0 A for ever: `DeafForever` states the "for ever"
and holds. (3) Three chargers, two buffers: three frames in a pass are counted
as two chargers. (4) A target under 76 W makes the clamp wrap around to nearly
2^32. (5) `updateHeartbeatVoltage` (v2.6.ino:355-360) copies a little-endian short
byte by byte into places that are commented, and first filled, high byte first.
Two more disagreements have no run: readCommands accepts a
target over 14 kW that setup would refuse (loadShare.ino:22-24), and README.md:19
speaks of a cutback to 75% over 113.5 V that no code makes.

**Where a property names an exception**, the code has it. `RequestWithinStation`
leaves out the current v2.x puts in for a pack over 1C, which is bounded by
`OverCurrentReduced` and `OneCRespected` instead. All limits of the request are
stated of computations that divide by no zero (`Divided`): readCommands of v2.x puts
a commanded count of zero in force, the count of v3 is zero until a write whose
handler is `userUpdate` applies the three characteristics, and the volts are zero
until a charger or pack has told any; what the division then leaves is bounded by
nothing. `RequestWithinStation`, `TablesLimitRequest` and `EndVoltageWindsDown` leave
out a station without the watts of the 12 V supplies in v2.5 and v3 (`Supplied`),
where the subtraction wraps as in `zero_target`, and the last of them a commanded
ramp of zero, of which three steps wind nothing down. `OverCurrentReduced` is
v2.x's: v3 overwrites the override. `TablesLimitRequest` speaks of temperatures as
the sketch keeps them, misread ones included, which in v3 are those of the pack
that reported last. All but `OverCurrentAnswered` speak of one computation with
the settings it sees: what v3 sends when `BLE.poll` has changed the count since is
not held to a limit.
`SharedTarget` speaks of a command sent when a charger has been heard since the
last one. `OutputFollowsEnd` allows what a command leaves until the next frame:
an output made from the end voltage before it or, if it raised the end voltage over
a reading that a charger had come back with, the zero of a reset.
`InForceAsCommanded` allows the commanded value and what `setup` makes of
it, which differ for a target over 14 kW, for a setting whose write was cut or
refused what the store has instead, and for the rate of v2.5 and v2.6 what the
packs have told since power-up (`RateTold`). Settings of two commands may stay side
by side in an EEPROM; that they never do is stated of flash.

`HeardOrOvertaken` is as much as the code gives a heartbeat. The chip takes the
highest numbered pending buffer first, `sendMsg` fills the lowest free one, and the
sketch sends for ever, whatever its last call returned: once chargers are slow to
acknowledge, newer heartbeats in the buffers above may keep an old one from the bus
for as long as they keep coming. So one that is pending is heard, or still
waits when a later one has been; and the one in buffer 2, above which there is
none, is heard.

`RequestFollowsWatts` has three parts: the current asked for, times the chargers
counted, stands for no more than the wattage; a pass raises the wattage by a ramp
step at most; and over a cutback point, in voltage and in wattage, it does not
raise it at all - the cutback loop takes back the step that came before it,
whichever of the five points applies.

**Bounds.** One charger suffices where the question is arithmetic (`regulate`,
`variants`: one frame a pass, four or five kinds of reading, any number of passes;
the voltage of an empty drain makes one kind more); two chargers with two frames
each fill, overrun and refill both buffers within one drain (`wakeup`); three
chargers are one more than there are buffers. The numbers keep the order of the
#defines of loadShare.ino - ramp step, 12 V supply, four cutback wattages, default
target, the first cutback wattage, unset - and are chosen so that a product passes
its width, every branch of the clamp and at least two cutback points act.
`FramesPerPass` is the only bound on counters in `LoadShare`; all others are finite
because the code's arithmetic is.

* `variants`: three points further apart than an overshoot, as the sketches' are;
  targets under, between and over them. Targets that do not pay for the 12 V
  supply wrap in the clamp as in `zero_target`; they are left out here.
* `transmit`: four numbered heartbeats fill three buffers and wait for the fourth,
  and unnumbered ones follow without end; three polls have a first, a middle and a
  last. A property of numbered heartbeats speaks of the first `MaxBeats` of a
  stream; the theorems hold for any number of them.
* `stored`: three settings of two bytes of three values, a budget of five writes
  against three a command, so that it ends within the second; `MaxWrites` bounds
  the commands of one session, and restarts begin the next without bound. The packs
  make one rate, which no command sets.
* `zero`: `BYTE_MOD` 16 makes `USHORT_MOD` 256; voltages under and over the cutback
  points, an end voltage and the maximum; temperatures under, in and over the
  tables; a countdown of three passes that a report brings down to two. A station
  of 600 against ramp steps of 100 winds down over several heartbeats, in all three
  sketches. Of the two commands the second has an end voltage that v2.5 refuses,
  allows more than 1C and gives four chargers a station that does not pay for
  their 12 V supplies. No counter is bounded beyond the code's: a heartbeat is due
  every few passes, and a drain reads any number of frames because each one only
  overwrites.
* `monitor`: thresholds 1, 2 and 3 in the order of 1000, 22000 and 30000;
  `MaxFrames` is the frames counted between two commands, 16 in the list of the
  sketch.

**Fairness.** `LoadShare`: weak fairness of the sketch's own steps and of the
interrupt handler - the processor does not stop. Nothing is owed by chargers, users
or the power supply. `CanTransmit`: the sketch keeps running, the chip keeps trying
(weak), and a charger that is on the bus again and again acknowledges in the end
(strong); a bus that stays dead is thereby excluded, and `HeardOrOvertaken` says
nothing about it. Which pending buffer the chip takes is not a matter of fairness:
it is the highest, so that the lower ones may starve. The other modules have safety
properties only, `OverCurrentAnswered` among them: it bounds the passes until the
heartbeat rather than promising one.

## 4. Proofs

The theorems hold for any set of chargers, readings, frames and commands, any
bound and any #defines within the named assumptions `WidthAssumption`,
`LawAssumption`, `NoFrameAssumption`, `ParameterAssumption`, `LatchAssumption`,
`StoreAssumption`, `ZeroAssumption`, `MonitorAssumption` and
`TransmitAssumption`, which TLC evaluates in the runs. Every safety property of a
passing run is a theorem.

* **The wake-up protocol and types** (`LoadShareProofs`): `TypeCorrect`,
  `WakeupsKept`, `EmptyDrainsApart`, `ReadsFindFrames`, `DivisorsArePositive` from
  one inductive invariant `IInv`, and `DeafStaysDeaf` from its type part. Types
  are not inductive alone: a read returns a frame only because the selected buffer
  is still full (`ReadFindsFrame`), and `chargingAmps` is a number only because
  its divisors are positive, which rests on `EmptyDrainReadsZero` (an empty drain
  leaves zero volts, and zero volts are under the minimum). `NoLostWakeup` needs
  `NoInterruptInSetup`: what the handler does before it is attached. One lemma per
  group of actions, one step per action.
* **The mailbox** (same module): `BuffersAreAMailbox`, the safety part of the
  refinement, from `RInv`, which adds `LateIsDeaf` (a sketch that attached late
  takes no frame). `CopiedInTwo` counts the copies in two buffers, `RoomInTheBox`
  turns a free buffer into room, `ArrivalDelivers` and `ReadTakes` are the two
  steps that move a frame.
* **The budget** (`LoadShareBudgetProofs`): `BudgetIsKept` and `RequestsFollowWatts`
  under `SaneTargets`: commands and default at least `MAX_12V_WATTS`, and room for
  two ramp steps under 2^32. `zero_target` shows that the first cannot be dropped,
  and `SaneTargetsNeverMore` that it is all that is missing: under `SaneTargets` the
  property that run violates holds. The strengthening `BudgetInv` says that the
  target in force is sane once restored, because the EEPROM has a sane target or is
  erased, and that `watts` leaves room for a step. The arithmetic is in
  `WattLawProofs`: each operator's range (`CutbackBounds`: the unsigned subtractions
  of the cutback loop do not wrap), `PassWattsBudget` for a pass,
  `CutbackUndoesRamp` for the loop over a point that applies (each of the five may
  find the step taken back already), `ChargingAmpsShare` for the division.
* **The cutback that latches** (`CutbackLatchProofs`). Without an assumption on the
  targets, from `ProtocolInv` (`LoadShare`'s `RInv` and the type of the order):
  `LatchTypeCorrect`, `VariantsKeepProtocol` (the four safety properties of the
  edge, the drain and the division), `VariantsStayDeaf`, and `VariantsAreAMailbox`,
  the safety part of the refinement for these sketches. A step is either a step of
  `LoadShare`, whose lemmas are cited, or `RegulateLatch`, which leaves buffers,
  flag and interrupt alone (`LatchStepKinds`). Under `SaneLatch` (`SaneTargets`,
  and points that are sane targets themselves): `TargetStaysBounded`,
  `CutTargetOnlyFalls`, `WattsFollow`, `VariantsKeepBudget` (the budget of the target
  found in force) and `VariantsShareWatts`. `CutToBounds` is the loop over the
  points. That cuts cannot climb rests on `LatchAssumption`: a wattage is less than
  an overshoot over the target, and the points lie further apart than that;
  `SourcePointsApart` checks it for the numbers of the three sketches.
* **The transmit path** (`CanTransmitProofs`): `TransmitTypeCorrect`,
  `ResultsTellTruth`, `NoneHeardTwice`, `OrderKept` from `TransmitInv`. It adds
  that a heartbeat is in one buffer at most, that the one in hand is where sendMsg
  put it or has been heard, and that without crowding at most one is pending and
  later than all received. `Beyond` stands for many heartbeats, so what is said of
  single ones is said of numbered ones (`NumberedSentStep`, `BeyondSentStep`).
  `SendMsgIsAChannel` is the refinement, one step per
  action (`ChannelStep`): `RoomForOne` counts the buffers (a free one leaves fewer
  than three heartbeats pending), `WaitingLoaded` and `WaitingSent` say how a load
  and a transmission change what is pending, and `BeatInHand` makes the answers true.
* **The settings** (`StoredSettingsProofs`): `StoreTypeCorrect`, `CommandIsStored`,
  `FlashIsOfOneCommand`, `SettingsInForce`. `StoreInv` says what is true *during* a
  command: the bytes of a word done so far are the command's, the copy in RAM has it
  as far as it has been handled, and flash has what it had until the commit.
  `MixInv` follows a commit through its erased and half programmed rows. `ForceInv`
  ties the settings in force to a command that is being stored: a setting is in
  force before the first of its bytes is written, and all six before a commit; the
  rate may be the packs' at any time in between.
* **v2.5, v2.6 and v3** (`ZeroChargerProofs`): a theorem for each property of the
  run `zero`, from `ZInv`. `SettingsInv` is what v3 needs, where characteristics are
  written one by one: the station of one command may be in force beside the ramp of
  another, and a ramp step still does not wrap (`SetNumbers`; that no command makes
  it wrap is assumed). `ZeroTypeCorrect` proves widths: `NewWattsBounds` shows that
  `watts` stays an unsigned long also where the subtraction of the 12 V supplies
  wraps, and within the station where it does not. That what the buses say fits the
  variables it is read into is assumed. `ReportInv` ties the age of a report to the
  countdown. The limits follow from lemmas on the minimum of the rows and on two
  divisions in turn. `TablesLimit` covers the three tables in all three sketches:
  `RowsApply` says which rows a reading selects - for v3 this needs in `KnownInv`
  that both packs have one pair of temperatures - and `RowHolds` carries a row from
  the wattage through the division by the voltage to the request.
* **The monitor** (`ChargeMonitorProofs`): `MonitorTypeCorrect`,
  `CommandsAreFresh`, `TargetIsShared`, `OutputKeepsUp` (with the exemption of
  section 3) from `MInv`. Its heart is
  `CountersTrue`: a staleness counter tells the true silence of its bus only while
  a voltage is kept, and that is just when a command may use it. `HeardCounted`
  says that frames counted are no fewer than chargers heard.

Only model-checked: that the box is not left alone (the fairness part of
`ImplementsMailbox`) and `HeardOrOvertaken`, as liveness is out of the prover's
reach; and the five violations, which need one behaviour each.

## 5. Not modelled

* Formatting and the serial output; the status line of `loadShare.ino` divides by
  a count that may be zero, and its quotient is only printed (in the hazard list).
* SPI transfers bit by bit; masks, filters and bit rates of the CAN controller
  (the sketches leave them at their defaults); the `try` and reserved-buffer calls
  of the driver that no sketch makes.
* How the serial stream is cut into commands: a command is any number, or six.
* `5.7kw_load_share-SERIAL` and `libraries/Serial_CAN_Arduino-master`: the sketch's
  only send is commented out, so nothing it computes reaches a charger. How `recv`
  cuts the serial stream into frames of twelve bytes is in the hazard list.
* `basic_force_charge*` and `13kw_force`: a fixed target in the loop of load share
  and v2.5, without a command that could change it.
* In v2.x, v3 and the monitor: throttle, dashboard and charge status frames and the
  reports over serial; nothing of them comes back to the current asked for. A power
  failure in v2.x is in `StoredSettings`, not in `ZeroCharger`, which starts from
  any stored command; its first boot, when every setting reads as all ones, is only
  in `StoredSettings`.
* Writes torn by a power failure in `loadShare.ino` and in the monitor: their
  commands store in one step here (section 2).
* The loggers and senders of one fixed frame, which have no state of their own.
* The vendored BLE, Wi-Fi, GSM and timer libraries, the greater part of the
  repository by size. The sketches modelled use one call of one of them,
  `BLE.poll` with the handler it runs, and that is modelled from its use.

## 6. Plan

Built, in this order, most important behaviour first: `WattLaw`, `CanReceive`,
`LoadShare`; `ChargerMailbox` and the refinement; `CanTransmit`; `StoredSettings`;
`CutbackLatch`; `ZeroCharger`; `ChargeMonitor`; the proofs of section 4.

Left:

1. `CanTransmit` composed with `LoadShare`: the heartbeat a charger hears and how
   old its current may be, in place of the run `transmit`.
2. The status line as an action of `LoadShare`, for its division.
3. Serial streams as bytes: commands that arrive together, and `Serial_CAN::recv`.
4. An abstract ampere limit that `ZeroCharger` implements, in place of four of its
   properties.
5. `StoredSettings` under `ZeroCharger`: a restart from settings of two commands.

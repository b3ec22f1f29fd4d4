--------------------------- MODULE StoredSettings ---------------------------
(***************************************************************************)
(* What a command sets, across restarts, in the three ways the sketches    *)
(* keep it:                                                                *)
(*                                                                         *)
(*   "LoadShare-v3"  one setting, the target wattage, in the EEPROM of an  *)
(*                   AVR through EEPROMex; setup checks what it reads      *)
(*   "v2.5"          six settings the same way, one call each, the first   *)
(*                   only if it is a sane voltage; setup checks nothing    *)
(*   "v2.6"          six settings in the copy in RAM that FlashAsEEPROM    *)
(*                   keeps of a row of flash, and one commit behind them   *)
(*                                                                         *)
(* EEPROMex counts the writes of a session, under the debug switch it is   *)
(* built with, and refuses those beyond _allowedWrites; nobody looks at    *)
(* the answer.  It writes a byte at a time, some milliseconds each.  A     *)
(* commit erases the rows and then programs them.  Power may fail between  *)
(* any two of these.                                                       *)
(*                                                                         *)
(* The loops of v2.5 and v2.6 put one setting in force on their own: once  *)
(* a pack has told its capacity, setChargingAmps makes the rate, C_RATE,   *)
(* of it again and again, over whatever was commanded or restored.  It     *)
(* does not store it.                                                      *)
(*                                                                         *)
(* loadShare.ino goes through the EEPROM library of the Arduino core,      *)
(* which counts nothing: LoadShare-v3 with an _allowedWrites out of reach. *)
(***************************************************************************)
EXTENDS Integers, FiniteSets, FiniteSetsExt

CONSTANTS
    SETTINGS,              (* 6: the settings of one command               *)
    RATE_SLOT,             (* 2: which of them is C_RATE                   *)
    BYTES,                 (* 4: sizeof(long)                              *)
    BYTE_MOD,              (* 256 *)
    Commands,              (* the commands that come in over serial        *)
    PackRates,             (* the rates the packs' capacities make         *)
    WATTAGE_MAX_UNSET,     (* 1400000 *)
    STATION_WATTS_DEFAULT, (* the bytes of 660000                         *)
    OUTPUT_VOLTS_MIN,      (* 700 *)
    OUTPUT_VOLTS_MAX,      (* 1164 *)
    _allowedWrites,        (* 100 *)
    MaxWrites              (* bound: settings set in one session           *)

ByteIndex == 0..(BYTES - 1)
Byte == 0..(BYTE_MOD - 1)
Words == [ByteIndex -> Byte]

(* The long at an address, low byte first.                                 *)
Value(word) == MapThenSumSet(LAMBDA i : word[i] * BYTE_MOD^i, ByteIndex)

Erased == [i \in ByteIndex |-> BYTE_MOD - 1]
Zero == [i \in ByteIndex |-> 0]

Slots == 1..SETTINGS

ASSUME StoreAssumption ==
    /\ SETTINGS \in Nat \ {0}
    /\ BYTES \in Nat \ {0}
    /\ BYTE_MOD \in Nat \ {0, 1}
    /\ RATE_SLOT \in Slots
    /\ Commands \subseteq [Slots -> Words]
    /\ PackRates \subseteq Words
    /\ WATTAGE_MAX_UNSET \in Nat
    /\ STATION_WATTS_DEFAULT \in Words
    /\ {OUTPUT_VOLTS_MIN, OUTPUT_VOLTS_MAX} \subseteq Nat
    /\ _allowedWrites \in Nat
    /\ MaxWrites \in Nat

VARIABLES
    sketch,       (* which of the three it is                              *)
    pc,           (* "setup", "loop", "set" within a command, "write"      *)
                  (* within writeLong, "erase", "validate" and "program"   *)
                  (* within commit                                         *)
    inForce,      (* the settings the sketch acts on                       *)
    cell,         (* the words in EEPROM or flash                          *)
    valid,        (* the byte behind them in flash, erased counts as true  *)
    copy,         (* FlashAsEEPROM's _eeprom                               *)
    _dirty,
    command,      (* the command being handled                             *)
    slot,         (* the setting of it that comes next                     *)
    unwritten,    (* bytes of it, or slots of the row, not yet written     *)
    _writeCounts, (* isWriteOk's count of the session                      *)
    packRate,     (* history: {the rate last made of the packs' capacities *)
                  (* since power-up}, empty before                         *)
    commanded,    (* history: the last value commanded of each setting     *)
    lost          (* history: the settings whose last write was cut by the *)
                  (* power or refused by the library                       *)

flash == <<valid, copy, _dirty>>
vars == <<sketch, pc, inForce, cell, flash, command, slot, unwritten,
          _writeCounts, packRate, commanded, lost>>

Sketches == {"LoadShare-v3", "v2.5", "v2.6"}
InFlash == sketch = "v2.6"
Settings == IF sketch = "LoadShare-v3" THEN {1} ELSE Slots
All(word) == [s \in Slots |-> word]

(* A new EEPROM is all ones.  A new sketch's flash has the zeros of the    *)
(* array FlashStorage declares, valid among them.                          *)
Init == /\ sketch \in Sketches
        /\ pc = "setup"
        /\ inForce = All(Zero)
        /\ cell = All(IF InFlash THEN Zero ELSE Erased)
        /\ valid = ~InFlash
        /\ copy = All(Zero)
        /\ _dirty = FALSE
        /\ command = All(Zero)
        /\ slot = 1
        /\ unwritten = {}
        /\ _writeCounts = 0
        /\ packRate = {}
        /\ commanded = All(Erased)
        /\ lost = {}

-----------------------------------------------------------------------------
(* setup *)

(* FlashAsEEPROM's init, or the EEPROM itself.                             *)
Read == IF valid THEN cell ELSE All(Erased)

(* What setup makes of the target it reads.                                *)
AsRestored(word) ==
    IF sketch = "LoadShare-v3" /\ Value(word) > WATTAGE_MAX_UNSET
    THEN STATION_WATTS_DEFAULT
    ELSE word

(* Mutant of Restore: every setting is read from the first one's address.  *)
RestoreFirst ==
    /\ pc = "setup"
    /\ pc' = "loop"
    /\ inForce' = [s \in Slots |->
                     IF s \in Settings THEN AsRestored(Read[1]) ELSE inForce[s]]
    /\ copy' = IF InFlash THEN Read ELSE copy
    /\ UNCHANGED <<sketch, packRate, cell, valid, _dirty, command, slot,
                   unwritten, _writeCounts, commanded, lost>>

Restore == /\ pc = "setup"
           /\ pc' = "loop"
           /\ inForce' = [s \in Slots |->
                            IF s \in Settings THEN AsRestored(Read[s]) ELSE inForce[s]]
           /\ copy' = IF InFlash THEN Read ELSE copy
           /\ UNCHANGED <<sketch, packRate, cell, valid, _dirty, command, slot,
                          unwritten, _writeCounts, commanded, lost>>

-----------------------------------------------------------------------------
(* setChargingAmps, once a pack has told its capacity.                     *)
TakePackRate(rate) ==
    /\ pc = "loop"
    /\ sketch # "LoadShare-v3"
    /\ inForce' = [inForce EXCEPT ![RATE_SLOT] = rate]
    /\ packRate' = {rate}
    /\ UNCHANGED <<sketch, pc, cell, flash, command, slot, unwritten,
                   _writeCounts, commanded, lost>>

-----------------------------------------------------------------------------
(* readCommands *)

ReadCommand(c) ==
    /\ pc = "loop"
    /\ _writeCounts + SETTINGS <= MaxWrites
    /\ pc' = "set"
    /\ command' = c
    /\ slot' = 1
    /\ UNCHANGED <<sketch, packRate, inForce, cell, flash, unwritten,
                   _writeCounts, commanded, lost>>

(* v2.5 takes a target voltage only between its limits; the tests of all   *)
(* the other settings compare an unsigned number with zero.                *)
Taken == sketch = "v2.5" /\ slot = 1 =>
             Value(command[1]) \in OUTPUT_VOLTS_MIN..OUTPUT_VOLTS_MAX

isWriteOk(count) == _allowedWrites # 0 /\ count <= _allowedWrites

More == slot + 1 \in Settings

Skip == /\ pc = "set" /\ ~Taken
        /\ slot' = slot + 1
        /\ pc' = IF More THEN "set" ELSE "loop"
        /\ UNCHANGED <<sketch, packRate, inForce, cell, flash, command,
                       unwritten, _writeCounts, commanded, lost>>

PutInForce == /\ pc = "set" /\ Taken
              /\ inForce' = [inForce EXCEPT ![slot] = command[slot]]
              /\ commanded' = [commanded EXCEPT ![slot] = command[slot]]
              /\ _writeCounts' = _writeCounts + 1

(* Mutant of WriteLong: the top byte is not written.                       *)
WriteInt ==
    /\ ~InFlash
    /\ PutInForce
    /\ isWriteOk(_writeCounts')
    /\ pc' = "write"
    /\ unwritten' = 0..(BYTES - 2)
    /\ lost' = lost \ {slot}
    /\ UNCHANGED <<sketch, packRate, cell, flash, command, slot>>

(* Mutant of WriteLong: one byte too many is written.                      *)
WritePastEnd ==
    /\ ~InFlash
    /\ PutInForce
    /\ isWriteOk(_writeCounts')
    /\ pc' = "write"
    /\ unwritten' = 0..BYTES
    /\ lost' = lost \ {slot}
    /\ UNCHANGED <<sketch, packRate, cell, flash, command, slot>>

(* writeLong, up to its first byte.                                        *)
WriteLong ==
    /\ ~InFlash
    /\ PutInForce
    /\ isWriteOk(_writeCounts')
    /\ pc' = "write"
    /\ unwritten' = ByteIndex
    /\ lost' = lost \ {slot}
    /\ UNCHANGED <<sketch, packRate, cell, flash, command, slot>>

WriteRefused ==
    /\ ~InFlash
    /\ PutInForce
    /\ ~isWriteOk(_writeCounts')
    /\ slot' = slot + 1
    /\ pc' = IF More THEN "set" ELSE "loop"
    /\ lost' = lost \cup {slot}
    /\ UNCHANGED <<sketch, packRate, cell, flash, command, unwritten>>

(* eeprom_write_dword: its bytes in any order.                             *)
WriteByte(i) ==
    /\ pc = "write"
    /\ i \in unwritten
    /\ cell' = [cell EXCEPT ![slot][i] = command[slot][i]]
    /\ unwritten' = unwritten \ {i}
    /\ IF unwritten' = {}
       THEN slot' = slot + 1 /\ pc' = IF More THEN "set" ELSE "loop"
       ELSE UNCHANGED <<slot, pc>>
    /\ UNCHANGED <<sketch, packRate, inForce, flash, command, _writeCounts,
                   commanded, lost>>

-----------------------------------------------------------------------------
(* FlashAsEEPROM *)

(* Mutant of Update: commit does not wait for the last setting.            *)
UpdateEarly ==
    /\ InFlash
    /\ PutInForce
    /\ copy' = [copy EXCEPT ![slot] = command[slot]]
    /\ _dirty' = (_dirty \/ copy[slot] # command[slot])
    /\ slot' = slot + 1
    /\ pc' = IF _dirty' THEN "erase" ELSE IF More THEN "set" ELSE "loop"
    /\ lost' = IF pc' = "loop" THEN {} ELSE lost
    /\ UNCHANGED <<sketch, packRate, cell, valid, command, unwritten>>

(* Four calls of update; behind the last setting, the test of commit.      *)
Update ==
    /\ InFlash
    /\ PutInForce
    /\ copy' = [copy EXCEPT ![slot] = command[slot]]
    /\ _dirty' = (_dirty \/ copy[slot] # command[slot])
    /\ slot' = slot + 1
    /\ pc' = IF More THEN "set" ELSE IF _dirty' THEN "erase" ELSE "loop"
    /\ lost' = IF pc' = "loop" THEN {} ELSE lost
    /\ UNCHANGED <<sketch, packRate, cell, valid, command, unwritten>>

(* FlashClass::erase goes from the first row, which has the settings, to   *)
(* the last one, which has the valid byte.                                 *)
EraseSettings ==
    /\ pc = "erase"
    /\ pc' = "validate"
    /\ cell' = All(Erased)
    /\ UNCHANGED <<sketch, packRate, inForce, flash, command, slot, unwritten,
                   _writeCounts, commanded, lost>>

EraseValid ==
    /\ pc = "validate"
    /\ pc' = "program"
    /\ valid' = TRUE
    /\ unwritten' = Settings
    /\ UNCHANGED <<sketch, packRate, inForce, cell, copy, _dirty, command,
                   slot, _writeCounts, commanded, lost>>

(* FlashClass::write.  The valid byte, programmed last, is true already.   *)
Program(s) ==
    /\ pc = "program"
    /\ s \in unwritten
    /\ cell' = [cell EXCEPT ![s] = copy[s]]
    /\ unwritten' = unwritten \ {s}
    /\ IF unwritten' = {}
       THEN pc' = "loop" /\ lost' = {}
       ELSE UNCHANGED <<pc, lost>>
    /\ UNCHANGED <<sketch, packRate, inForce, flash, command, slot,
                   _writeCounts, commanded>>

-----------------------------------------------------------------------------
(* What a power failure cuts: the long being written or, in flash, all the *)
(* command has set and, once the row is being erased, all there is.        *)
Cut == CASE pc = "write" -> {slot}
         [] pc = "set" /\ InFlash -> 1..(slot - 1)
         [] pc \in {"erase", "validate", "program"} -> Slots
         [] OTHER -> {}

PowerCycle ==
    /\ pc' = "setup"
    /\ inForce' = All(Zero)
    /\ copy' = All(Zero)
    /\ _dirty' = FALSE
    /\ slot' = 1
    /\ command' = All(Zero)
    /\ unwritten' = {}
    /\ _writeCounts' = 0
    /\ packRate' = {}
    /\ lost' = lost \cup Cut
    /\ UNCHANGED <<sketch, cell, valid, commanded>>

Next == \/ Restore
        \/ \E rate \in PackRates : TakePackRate(rate)
        \/ \E c \in Commands : ReadCommand(c)
        \/ Skip \/ WriteLong \/ WriteRefused \/ Update
        \/ \E i \in ByteIndex : WriteByte(i)
        \/ EraseSettings \/ EraseValid
        \/ \E s \in Slots : Program(s)
        \/ PowerCycle

Spec == Init /\ [][Next]_vars

-----------------------------------------------------------------------------
TypeOK == /\ sketch \in Sketches
          /\ pc \in {"setup", "loop", "set", "write", "erase", "validate", "program"}
          /\ inForce \in [Slots -> Words]
          /\ cell \in [Slots -> Words]
          /\ valid \in BOOLEAN
          /\ copy \in [Slots -> Words]
          /\ _dirty \in BOOLEAN
          /\ command \in [Slots -> Words]
          /\ slot \in 1..(SETTINGS + 1)
          /\ unwritten \subseteq IF InFlash THEN Slots ELSE ByteIndex
          /\ _writeCounts \in 0..MaxWrites
          /\ packRate \subseteq Words
          /\ commanded \in [Slots -> Words]
          /\ lost \subseteq Slots

(* A setting has in store what was last commanded of it, unless the power  *)
(* failed within that write or the library refused it: writes of earlier   *)
(* sessions, torn or refused, and the fate of its neighbours leave no      *)
(* trace (readCommands, writeLong, isWriteOk, commit).                     *)
Committed == IF InFlash THEN pc \in {"setup", "loop"} ELSE TRUE

LastCommandStored ==
    Committed =>
        \A s \in Settings \ lost :
            ~(pc = "write" /\ s = slot) => Read[s] = commanded[s]

(* Flash never holds settings of two commands: a power failure before the  *)
(* commit leaves the old ones, one within it takes settings away but never *)
(* puts new ones beside old ones, and a new sketch's zeros are not taken   *)
(* for settings (commit, FlashClass::erase, EEPROMClass::init).            *)
FlashNeverMixes ==
    InFlash => \E c \in Commands \cup {All(Erased)} :
                   \A s \in Slots : Read[s] \in {c[s], Erased}

(* What setChargingAmps makes of setting s, if anything.                   *)
RateTold(s) == IF s = RATE_SLOT THEN packRate ELSE {}

(* The sketch acts on the last value commanded of each setting, on what    *)
(* setup made of the store, and that was the value commanded, too, unless  *)
(* its write was cut or refused, or, of the rate alone and only in v2.5    *)
(* and v2.6, on what the packs told since power-up.  The values may        *)
(* differ: setup falls back on the default for a target a command may set, *)
(* and the packs' rate overrules a command's (readCommands, setup,         *)
(* setChargingAmps).                                                       *)
InForceAsCommanded ==
    pc # "setup" =>
        \A s \in Settings :
            inForce[s] \in
                {commanded[s],
                 AsRestored(IF s \in lost THEN Read[s] ELSE commanded[s])}
                \cup RateTold(s)
=============================================================================

------------------------ MODULE StoredSettingsProofs ------------------------
(***************************************************************************)
(* Theorems about StoredSettings, for any number of settings, words of any *)
(* width, any commands and any write budget.                               *)
(***************************************************************************)
EXTENDS StoredSettings, TLAPS

(* What the types rest on: a setting is set while writes are left of the   *)
(* command's share of the session's, and flash is programmed slot by slot. *)
Progress ==
    /\ pc \in {"set", "write"} => slot \in Settings
    /\ pc = "set" => _writeCounts + SETTINGS - slot < MaxWrites
    /\ pc = "write" => _writeCounts + SETTINGS - slot <= MaxWrites

(* Only v2.5 and LoadShare-v3 write longs, and their store is valid.       *)
StoreKinds ==
    /\ pc = "write" => ~InFlash
    /\ pc \in {"erase", "validate", "program"} => InFlash
    /\ ~InFlash => valid
    /\ pc = "program" => valid

(* A long being written has not been lost, and its bytes that are done are *)
(* the command's.                                                          *)
LongInWrite ==
    pc = "write" =>
        /\ slot \notin lost
        /\ commanded[slot] = command[slot]
        /\ \A i \in ByteIndex \ unwritten : cell[slot][i] = command[slot][i]

(* The copy in RAM has the command as far as it has been handled; it is    *)
(* what flash has as long as it is not dirty.                              *)
CopyFollows ==
    InFlash =>
        /\ pc \in {"loop", "set"} /\ ~_dirty => \A s \in Slots : copy[s] = Read[s]
        /\ pc = "set" => \A s \in 1..(slot - 1) :
               copy[s] = command[s] /\ commanded[s] = command[s]
        /\ pc \in {"erase", "validate", "program"} => \A s \in Slots :
               copy[s] = command[s] /\ commanded[s] = command[s]
        /\ pc = "program" => \A s \in Slots \ unwritten : cell[s] = copy[s]

(* Before the commit flash has what it had: settings not lost and not set  *)
(* again are still there.                                                  *)
FlashKeeps ==
    InFlash /\ pc \in {"setup", "loop", "set"} =>
        \A s \in Slots \ lost : (pc = "set" /\ s < slot) \/ Read[s] = commanded[s]

StoreInv == TypeOK /\ Progress /\ StoreKinds /\ LongInWrite /\ CopyFollows
            /\ FlashKeeps /\ LastCommandStored

(* In flash, before a commit and within it.                                *)
OfOne(c) == \A s \in Slots : Read[s] \in {c[s], Erased}

MixInv ==
    /\ pc \in {"set", "write", "erase", "validate", "program"} => command \in Commands
    /\ InFlash /\ pc \in {"setup", "loop", "set", "erase"} =>
           \E c \in Commands \cup {All(Erased)} : OfOne(c)
    /\ InFlash /\ pc = "validate" => \A s \in Slots : cell[s] = Erased
    /\ InFlash /\ pc = "program" => \A s \in Slots : cell[s] \in {command[s], Erased}

-----------------------------------------------------------------------------
LEMMA WordsBasic == Erased \in Words /\ Zero \in Words
  <1>1. BYTE_MOD - 1 \in Byte /\ 0 \in Byte
    BY StoreAssumption DEF Byte
  <1> QED BY <1>1 DEF Erased, Zero, Words

LEMMA AllBasic ==
    /\ All(Erased) \in [Slots -> Words] /\ All(Zero) \in [Slots -> Words]
    /\ \A s \in Slots : All(Erased)[s] = Erased
  BY WordsBasic DEF All

LEMMA SlotsBasic == 1 \in Slots /\ Settings \subseteq Slots /\ (InFlash => Settings = Slots)
  BY StoreAssumption DEF Slots, Settings, InFlash

LEMMA ReadType == TypeOK => Read \in [Slots -> Words]
  BY AllBasic DEF TypeOK, Read

LEMMA InitInv == Init => StoreInv /\ MixInv
  <1> SUFFICES ASSUME Init PROVE StoreInv /\ MixInv
    OBVIOUS
  <1> USE DEF Init
  <1>1. TypeOK
    <2>1. cell \in [Slots -> Words]
      BY AllBasic
    <2>2. unwritten \subseteq IF InFlash THEN Slots ELSE ByteIndex
      OBVIOUS
    <2>3. slot \in 1..(SETTINGS + 1) /\ _writeCounts \in 0..MaxWrites
      BY StoreAssumption
    <2>4. valid \in BOOLEAN /\ _dirty \in BOOLEAN
      BY Zenon
    <2> QED BY <2>1, <2>2, <2>3, <2>4, AllBasic DEF TypeOK
  <1>2. \A s \in Slots : Read[s] = Erased /\ commanded[s] = Erased
    BY AllBasic DEF Read
  <1>3. Progress /\ StoreKinds /\ LongInWrite /\ CopyFollows
    BY DEF Progress, StoreKinds, LongInWrite, CopyFollows
  <1>4. FlashKeeps
    BY <1>2 DEF FlashKeeps
  <1>5. LastCommandStored
    BY <1>2, SlotsBasic DEF LastCommandStored
  <1>6. MixInv
    <2>1. OfOne(All(Erased))
      BY <1>2, AllBasic DEF OfOne
    <2> QED BY <2>1 DEF MixInv
  <1> QED BY <1>1, <1>3, <1>4, <1>5, <1>6 DEF StoreInv


(* The parts of the invariant that a leaf needs expanded.                  *)
LEMMA RestoreStep == ASSUME StoreInv, MixInv, Restore PROVE StoreInv' /\ MixInv'
  <1> USE DEF Restore, StoreInv
  <1>0. Read' = Read /\ InFlash' = InFlash /\ Settings' = Settings
    BY DEF Read, InFlash, Settings
  <1>1. TypeOK'
    <2>1. \A word \in Words : AsRestored(word) \in Words
      BY StoreAssumption DEF AsRestored
    <2>2. inForce' \in [Slots -> Words]
      BY <2>1, ReadType DEF TypeOK
    <2>3. copy' \in [Slots -> Words]
      BY ReadType DEF TypeOK
    <2> QED BY <1>0, <2>2, <2>3 DEF TypeOK
  <1>2. Progress' /\ StoreKinds' /\ LongInWrite'
    BY <1>0 DEF StoreKinds, Progress, LongInWrite
  <1>3. CopyFollows'
    BY <1>0 DEF CopyFollows
  <1>4. FlashKeeps'
    BY <1>0 DEF FlashKeeps
  <1>5. LastCommandStored'
    BY <1>0 DEF LastCommandStored, Committed
  <1>6. MixInv'
    BY <1>0 DEF MixInv, OfOne
  <1> QED BY <1>1, <1>2, <1>3, <1>4, <1>5, <1>6

LEMMA TakePackRateStep ==
    ASSUME StoreInv, MixInv, NEW rate \in PackRates, TakePackRate(rate)
    PROVE  StoreInv' /\ MixInv'
  <1> USE DEF TakePackRate, StoreInv, flash
  <1>0. Read' = Read /\ InFlash' = InFlash /\ Settings' = Settings
    BY DEF Read, InFlash, Settings
  <1>1. TypeOK'
    BY <1>0, StoreAssumption DEF TypeOK
  <1>2. Progress' /\ StoreKinds' /\ LongInWrite' /\ CopyFollows'
    BY <1>0 DEF Progress, StoreKinds, LongInWrite, CopyFollows
  <1>3. FlashKeeps' /\ LastCommandStored' /\ MixInv'
    BY <1>0 DEF FlashKeeps, LastCommandStored, Committed, MixInv, OfOne
  <1> QED BY <1>1, <1>2, <1>3

LEMMA ReadCommandStep ==
    ASSUME StoreInv, MixInv, NEW c \in Commands, ReadCommand(c)
    PROVE  StoreInv' /\ MixInv'
  <1> USE DEF ReadCommand, StoreInv, flash
  <1>0. Read' = Read /\ InFlash' = InFlash /\ Settings' = Settings
    BY DEF Read, InFlash, Settings
  <1>1. TypeOK'
    <2>1. c \in [Slots -> Words] /\ 1 \in 1..(SETTINGS + 1)
      BY StoreAssumption
    <2> QED BY <1>0, <2>1 DEF TypeOK
  <1>2. Progress'
    <2>1. 1 \in Settings
      BY SlotsBasic DEF Settings
    <2> QED BY <1>0, <2>1, StoreAssumption DEF Progress, TypeOK
  <1>3. StoreKinds' /\ LongInWrite' /\ CopyFollows'
    BY <1>0, StoreAssumption DEF StoreKinds, LongInWrite, CopyFollows
  <1>4. FlashKeeps'
    <2>1. \A s \in Slots : ~(s < 1)
      BY DEF Slots
    <2>2. InFlash => \A s \in Slots \ lost : Read[s] = commanded[s]
      BY DEF FlashKeeps
    <2> QED BY <1>0, <2>1, <2>2 DEF FlashKeeps
  <1>5. LastCommandStored'
    BY <1>0 DEF LastCommandStored, Committed
  <1>6. MixInv'
    BY <1>0 DEF MixInv, OfOne
  <1> QED BY <1>1, <1>2, <1>3, <1>4, <1>5, <1>6

(* Where a command goes after one of its settings.                         *)
LEMMA NextSlot ==
    ASSUME TypeOK, slot \in Settings
    PROVE  /\ slot + 1 \in 1..(SETTINGS + 1)
           /\ slot \in Nat /\ slot <= SETTINGS
           /\ slot \in Slots
           /\ ~More /\ InFlash => slot = SETTINGS
  BY StoreAssumption DEF TypeOK, Settings, Slots, More, InFlash

LEMMA SkipStep == ASSUME StoreInv, MixInv, Skip PROVE StoreInv' /\ MixInv'
  <1> USE DEF Skip, StoreInv, flash
  <1>0. /\ Read' = Read /\ InFlash' = InFlash /\ Settings' = Settings
        /\ ~InFlash /\ slot \in Settings
    BY DEF Read, InFlash, Settings, Taken, Progress
  <1>1. TypeOK'
    BY <1>0, NextSlot DEF TypeOK
  <1>2. Progress'
    BY <1>0, NextSlot, StoreAssumption DEF Progress, More, TypeOK
  <1>3. StoreKinds' /\ LongInWrite' /\ CopyFollows' /\ FlashKeeps'
    BY <1>0 DEF StoreKinds, LongInWrite, CopyFollows, FlashKeeps
  <1>5. LastCommandStored'
    BY <1>0 DEF LastCommandStored, Committed
  <1>6. MixInv'
    BY <1>0 DEF MixInv
  <1> QED BY <1>1, <1>2, <1>3, <1>5, <1>6

LEMMA WriteLongStep == ASSUME StoreInv, MixInv, WriteLong PROVE StoreInv' /\ MixInv'
  <1> USE DEF WriteLong, PutInForce, StoreInv, flash
  <1>0. /\ Read' = Read /\ InFlash' = InFlash /\ Settings' = Settings
        /\ ~InFlash /\ slot \in Settings
    BY DEF Read, InFlash, Settings, Progress
  <1>1. TypeOK'
    <2>1. inForce' \in [Slots -> Words] /\ commanded' \in [Slots -> Words]
      BY <1>0, NextSlot DEF TypeOK
    <2>2. _writeCounts' \in 0..MaxWrites
      BY <1>0, NextSlot, StoreAssumption DEF TypeOK, Progress
    <2> QED BY <1>0, <2>1, <2>2 DEF TypeOK
  <1>2. Progress'
    BY <1>0, NextSlot, StoreAssumption DEF Progress, TypeOK
  <1>3. StoreKinds' /\ CopyFollows' /\ FlashKeeps'
    BY <1>0 DEF StoreKinds, CopyFollows, FlashKeeps
  <1>4. LongInWrite'
    BY <1>0, NextSlot DEF LongInWrite, TypeOK
  <1>5. LastCommandStored'
    <2> SUFFICES ASSUME NEW s \in Settings, s # slot, s \notin lost'
                 PROVE  Read[s] = commanded'[s]
      BY <1>0 DEF LastCommandStored, Committed
    <2>1. commanded'[s] = commanded[s] /\ s \notin lost
      BY SlotsBasic DEF TypeOK
    <2> QED BY <1>0, <2>1 DEF LastCommandStored, Committed
  <1>6. MixInv'
    BY <1>0 DEF MixInv
  <1> QED BY <1>1, <1>2, <1>3, <1>4, <1>5, <1>6

LEMMA WriteRefusedStep ==
    ASSUME StoreInv, MixInv, WriteRefused PROVE StoreInv' /\ MixInv'
  <1> USE DEF WriteRefused, PutInForce, StoreInv, flash
  <1>0. /\ Read' = Read /\ InFlash' = InFlash /\ Settings' = Settings
        /\ ~InFlash /\ slot \in Settings
    BY DEF Read, InFlash, Settings, Progress
  <1>1. TypeOK'
    <2>1. inForce' \in [Slots -> Words] /\ commanded' \in [Slots -> Words]
      BY <1>0, NextSlot DEF TypeOK
    <2>2. _writeCounts' \in 0..MaxWrites
      BY <1>0, NextSlot, StoreAssumption DEF TypeOK, Progress
    <2>3. slot' \in 1..(SETTINGS + 1) /\ lost' \subseteq Slots
      BY <1>0, NextSlot DEF TypeOK
    <2> QED BY <1>0, <2>1, <2>2, <2>3 DEF TypeOK
  <1>2. Progress'
    BY <1>0, NextSlot, StoreAssumption DEF Progress, More, TypeOK
  <1>3. StoreKinds' /\ CopyFollows' /\ FlashKeeps' /\ LongInWrite'
    BY <1>0 DEF StoreKinds, CopyFollows, FlashKeeps, LongInWrite
  <1>5. LastCommandStored'
    <2> SUFFICES ASSUME NEW s \in Settings, s \notin lost'
                 PROVE  Read[s] = commanded'[s]
      BY <1>0 DEF LastCommandStored, Committed
    <2>1. commanded'[s] = commanded[s] /\ s \notin lost
      BY SlotsBasic DEF TypeOK
    <2> QED BY <1>0, <2>1 DEF LastCommandStored, Committed
  <1>6. MixInv'
    BY <1>0 DEF MixInv
  <1> QED BY <1>1, <1>2, <1>3, <1>5, <1>6

LEMMA WriteByteStep ==
    ASSUME StoreInv, MixInv, NEW b \in ByteIndex, WriteByte(b)
    PROVE  StoreInv' /\ MixInv'
  <1> USE DEF WriteByte, StoreInv, flash
  <1>0. /\ InFlash' = InFlash /\ Settings' = Settings
        /\ ~InFlash /\ slot \in Settings /\ slot \in Slots /\ valid
    BY SlotsBasic DEF InFlash, Settings, Progress, StoreKinds
  <1>1. command[slot] \in Words /\ cell[slot] \in Words
    BY <1>0 DEF TypeOK
  <1>2. /\ \A s \in Slots : s # slot => cell'[s] = cell[s]
        /\ cell'[slot] = [cell[slot] EXCEPT ![b] = command[slot][b]]
        /\ cell'[slot] \in Words /\ cell' \in [Slots -> Words]
    <2>1. cell'[slot] = [cell[slot] EXCEPT ![b] = command[slot][b]]
      BY <1>0 DEF TypeOK
    <2>2. [cell[slot] EXCEPT ![b] = command[slot][b]] \in Words
      BY <1>1 DEF Words
    <2>3. cell' = [cell EXCEPT ![slot] = [cell[slot] EXCEPT ![b] = command[slot][b]]]
      OBVIOUS
    <2>4. cell' \in [Slots -> Words]
      BY <1>0, <2>2, <2>3 DEF TypeOK
    <2> QED BY <1>0, <2>1, <2>2, <2>3, <2>4 DEF TypeOK
  <1>3. \A i \in ByteIndex \ unwritten' : cell'[slot][i] = command[slot][i]
    <2> SUFFICES ASSUME NEW i \in ByteIndex, i \notin unwritten'
                 PROVE  cell'[slot][i] = command[slot][i]
      OBVIOUS
    <2>1. CASE i = b
      BY <1>1, <1>2, <2>1 DEF Words
    <2>2. CASE i # b
      <3>1. cell'[slot][i] = cell[slot][i]
        BY <1>1, <1>2, <2>2 DEF Words
      <3>2. i \notin unwritten
        BY <2>2
      <3> QED BY <3>1, <3>2 DEF LongInWrite
    <2> QED BY <2>1, <2>2
  <1>4. TypeOK'
    <2>1. slot' \in 1..(SETTINGS + 1)
      BY <1>0, NextSlot DEF TypeOK
    <2>2. unwritten' \subseteq ByteIndex
      BY <1>0 DEF TypeOK
    <2> QED BY <1>0, <1>2, <2>1, <2>2 DEF TypeOK
  <1>5. Progress'
    BY <1>0, NextSlot, StoreAssumption DEF Progress, More, TypeOK
  <1>6. StoreKinds' /\ CopyFollows' /\ FlashKeeps'
    BY <1>0 DEF StoreKinds, CopyFollows, FlashKeeps
  <1>7. LongInWrite'
    BY <1>3 DEF LongInWrite
  <1>8. LastCommandStored'
    <2>1. Read = cell /\ Read' = cell'
      BY <1>0 DEF Read
    <2>2. unwritten' = {} => cell'[slot] = command[slot]
      <3> SUFFICES ASSUME unwritten' = {} PROVE cell'[slot] = command[slot]
        OBVIOUS
      <3>1. \A i \in ByteIndex : cell'[slot][i] = command[slot][i]
        BY <1>3
      <3>2. cell'[slot] \in Words /\ command[slot] \in Words
        BY <1>1, <1>2
      <3> QED BY <3>1, <3>2 DEF Words
    <2> SUFFICES ASSUME NEW s \in Settings \ lost, ~(pc' = "write" /\ s = slot')
                 PROVE  cell'[s] = commanded[s]
      BY <1>0, <2>1 DEF LastCommandStored, Committed
    <2>3. CASE s = slot
      BY <2>2, <2>3 DEF LongInWrite
    <2>4. CASE s # slot
      <3>1. s \in Slots
        BY SlotsBasic
      <3>2. Read[s] = commanded[s]
        BY <1>0, <2>4 DEF LastCommandStored, Committed
      <3> QED BY <1>2, <2>1, <2>4, <3>1, <3>2
    <2> QED BY <2>3, <2>4
  <1>9. MixInv'
    BY <1>0 DEF MixInv
  <1> QED BY <1>4, <1>5, <1>6, <1>7, <1>8, <1>9

LEMMA UpdateStep == ASSUME StoreInv, MixInv, Update PROVE StoreInv' /\ MixInv'
  <1> USE DEF Update, PutInForce, StoreInv, flash
  <1>0. /\ Read' = Read /\ InFlash' = InFlash /\ Settings' = Settings
        /\ InFlash /\ slot \in Settings /\ Settings = Slots
    BY SlotsBasic DEF Read, InFlash, Settings, Progress
  <1>1. /\ \A s \in Slots : copy'[s] = IF s = slot THEN command[slot] ELSE copy[s]
        /\ \A s \in Slots : commanded'[s] =
               IF s = slot THEN command[slot] ELSE commanded[s]
    BY DEF TypeOK
  <1>2. TypeOK'
    <2>1. inForce' \in [Slots -> Words] /\ commanded' \in [Slots -> Words]
          /\ copy' \in [Slots -> Words]
      BY <1>0 DEF TypeOK
    <2>2. _writeCounts' \in 0..MaxWrites
      BY <1>0, NextSlot, StoreAssumption DEF TypeOK, Progress
    <2>3. slot' \in 1..(SETTINGS + 1) /\ lost' \subseteq Slots
      BY <1>0, NextSlot DEF TypeOK
    <2>4. _dirty' \in BOOLEAN
      BY Zenon DEF TypeOK
    <2> QED BY <1>0, <2>1, <2>2, <2>3, <2>4 DEF TypeOK
  <1>3. Progress'
    BY <1>0, NextSlot, StoreAssumption DEF Progress, More, TypeOK
  <1>4. \A s \in 1..(slot' - 1) : s \in Slots /\ copy'[s] = command[s]
                                  /\ commanded'[s] = command[s]
    <2> TAKE s \in 1..(slot' - 1)
    <2>1. s \in Slots /\ (s = slot \/ s \in 1..(slot - 1))
      BY <1>0, NextSlot, StoreAssumption DEF Slots
    <2> QED BY <1>0, <1>1, <2>1 DEF CopyFollows
  <1>5. ~More => \A s \in Slots : copy'[s] = command[s] /\ commanded'[s] = command[s]
    <2>1. ~More => slot' - 1 = SETTINGS
      BY <1>0, NextSlot, StoreAssumption
    <2> QED BY <1>4, <2>1 DEF Slots
  <1>6. ~_dirty' => \A s \in Slots : copy'[s] = Read[s]
    BY <1>0, <1>1 DEF CopyFollows
  <1>7. StoreKinds' /\ LongInWrite'
    BY <1>0 DEF StoreKinds, LongInWrite
  <1>8. CopyFollows'
    BY <1>0, <1>4, <1>5, <1>6 DEF CopyFollows
  <1>9. FlashKeeps'
    <2> SUFFICES ASSUME NEW s \in Slots, s \notin lost', pc' \in {"loop", "set"}
                 PROVE  (pc' = "set" /\ s < slot') \/ Read[s] = commanded'[s]
      BY <1>0 DEF FlashKeeps
    <2>1. CASE pc' = "loop"
      BY <1>5, <1>6, <2>1
    <2>2. CASE pc' = "set"
      <3>1. s <= slot => s < slot'
        BY <1>0, NextSlot DEF Slots
      <3>2. ~(s <= slot) => s # slot /\ ~(s < slot)
        BY <1>0, NextSlot DEF Slots
      <3>3. ~(s <= slot) => Read[s] = commanded[s]
        BY <1>0, <2>2, <3>2 DEF FlashKeeps
      <3> QED BY <1>1, <2>2, <3>1, <3>2, <3>3
    <2> QED BY <2>1, <2>2
  <1>10. LastCommandStored'
    BY <1>0, <1>5, <1>6 DEF LastCommandStored, Committed
  <1>11. MixInv'
    BY <1>0 DEF MixInv, OfOne
  <1> QED BY <1>2, <1>3, <1>7, <1>8, <1>9, <1>10, <1>11

LEMMA EraseSettingsStep ==
    ASSUME StoreInv, MixInv, EraseSettings PROVE StoreInv' /\ MixInv'
  <1> USE DEF EraseSettings, StoreInv, flash
  <1>0. InFlash' = InFlash /\ Settings' = Settings /\ InFlash
    BY DEF InFlash, Settings, StoreKinds
  <1>1. TypeOK'
    BY <1>0, AllBasic DEF TypeOK
  <1>2. Progress' /\ StoreKinds' /\ LongInWrite' /\ CopyFollows' /\ FlashKeeps'
    BY <1>0 DEF Progress, StoreKinds, LongInWrite, CopyFollows, FlashKeeps
  <1>3. LastCommandStored' /\ MixInv'
    BY <1>0, AllBasic DEF LastCommandStored, Committed, MixInv
  <1> QED BY <1>1, <1>2, <1>3

LEMMA EraseValidStep ==
    ASSUME StoreInv, MixInv, EraseValid PROVE StoreInv' /\ MixInv'
  <1> USE DEF EraseValid, StoreInv, flash
  <1>0. InFlash' = InFlash /\ Settings' = Settings /\ InFlash /\ Settings = Slots
    BY SlotsBasic DEF InFlash, Settings, StoreKinds
  <1>1. TypeOK'
    BY <1>0 DEF TypeOK
  <1>2. Progress' /\ StoreKinds' /\ LongInWrite' /\ CopyFollows' /\ FlashKeeps'
    BY <1>0 DEF Progress, StoreKinds, LongInWrite, CopyFollows, FlashKeeps
  <1>3. LastCommandStored' /\ MixInv'
    BY <1>0 DEF LastCommandStored, Committed, MixInv
  <1> QED BY <1>1, <1>2, <1>3

LEMMA ProgramStep ==
    ASSUME StoreInv, MixInv, NEW p \in Slots, Program(p)
    PROVE  StoreInv' /\ MixInv'
  <1> USE DEF Program, StoreInv, flash
  <1>0. /\ InFlash' = InFlash /\ Settings' = Settings /\ InFlash /\ Settings = Slots
        /\ valid /\ valid' = valid
    BY SlotsBasic DEF InFlash, Settings, StoreKinds
  <1>1. \A s \in Slots : cell'[s] = IF s = p THEN copy[p] ELSE cell[s]
    BY DEF TypeOK
  <1>2. TypeOK'
    BY <1>0 DEF TypeOK
  <1>3. \A s \in Slots \ unwritten' : cell'[s] = copy[s]
    BY <1>0, <1>1 DEF CopyFollows
  <1>4. unwritten' = {} => \A s \in Slots : Read'[s] = copy[s] /\ copy[s] = commanded[s]
    BY <1>0, <1>3 DEF Read, CopyFollows
  <1>5. Progress' /\ StoreKinds' /\ LongInWrite'
    BY <1>0 DEF Progress, StoreKinds, LongInWrite
  <1>6. CopyFollows' /\ FlashKeeps' /\ LastCommandStored'
    BY <1>0, <1>3, <1>4 DEF CopyFollows, FlashKeeps, LastCommandStored, Committed
  <1>7. \A s \in Slots : cell'[s] \in {command[s], Erased}
    BY <1>0, <1>1 DEF MixInv, CopyFollows
  <1>8. MixInv'
    <2>1. OfOne(command)'
      BY <1>0, <1>7 DEF OfOne, Read
    <2>2. command \in Commands
      BY DEF MixInv
    <2> QED BY <1>0, <1>7, <2>1, <2>2 DEF MixInv, OfOne
  <1> QED BY <1>2, <1>5, <1>6, <1>8

LEMMA PowerCycleStep ==
    ASSUME StoreInv, MixInv, PowerCycle PROVE StoreInv' /\ MixInv'
  <1> USE DEF PowerCycle, StoreInv, flash
  <1>0. Read' = Read /\ InFlash' = InFlash /\ Settings' = Settings
    BY DEF Read, InFlash, Settings
  <1>1. Cut \subseteq Slots
    <2>1. pc = "write" => slot \in Slots
      BY SlotsBasic DEF Progress
    <2>2. pc = "set" => 1..(slot - 1) \subseteq Slots
      BY StoreAssumption DEF TypeOK, Slots
    <2> QED BY <2>1, <2>2 DEF Cut
  <1>2. TypeOK'
    <2>1. _dirty' \in BOOLEAN
      BY Zenon
    <2>2. 1 \in 1..(SETTINGS + 1) /\ 0 \in 0..MaxWrites
      BY StoreAssumption
    <2> QED BY <1>0, <1>1, <2>1, <2>2, AllBasic DEF TypeOK
  <1>3. Progress' /\ StoreKinds' /\ LongInWrite' /\ CopyFollows'
    BY <1>0 DEF Progress, StoreKinds, LongInWrite, CopyFollows
  <1>4. InFlash => \A s \in Slots \ lost' : Read[s] = commanded[s]
    <2> SUFFICES ASSUME InFlash, NEW s \in Slots, s \notin lost, s \notin Cut
                 PROVE  Read[s] = commanded[s]
      OBVIOUS
    <2>1. CASE pc \in {"setup", "loop"}
      BY <2>1 DEF FlashKeeps
    <2>2. CASE pc = "set"
      <3>1. s \notin 1..(slot - 1)
        BY <2>2 DEF Cut
      <3>2. ~(s < slot)
        BY <3>1 DEF TypeOK, Slots
      <3> QED BY <2>2, <3>2 DEF FlashKeeps
    <2>3. CASE pc \in {"erase", "validate", "program"}
      BY <2>3 DEF Cut
    <2> QED BY <2>1, <2>2, <2>3 DEF TypeOK, StoreKinds
  <1>5. FlashKeeps'
    BY <1>0, <1>4 DEF FlashKeeps
  <1>6. LastCommandStored'
    <2>1. CASE InFlash
      BY <1>0, <1>4, <2>1, SlotsBasic DEF LastCommandStored, Committed
    <2>2. CASE ~InFlash
      BY <1>0, <2>2 DEF LastCommandStored, Committed, Cut
    <2> QED BY <2>1, <2>2
  <1>7. MixInv'
    <2>1. InFlash => \E c \in Commands \cup {All(Erased)} : OfOne(c)
      <3>1. CASE InFlash /\ pc \in {"setup", "loop", "set", "erase"}
        BY <3>1 DEF MixInv
      <3>2. CASE InFlash /\ pc = "validate"
        <4>1. OfOne(All(Erased))
          BY <3>2, AllBasic DEF MixInv, OfOne, Read
        <4> QED BY <4>1
      <3>3. CASE InFlash /\ pc = "program"
        <4>1. OfOne(command) /\ command \in Commands
          BY <3>3 DEF MixInv, OfOne, Read, StoreKinds
        <4> QED BY <4>1
      <3> QED BY <3>1, <3>2, <3>3 DEF TypeOK, StoreKinds
    <2> QED BY <1>0, <2>1 DEF MixInv, OfOne
  <1> QED BY <1>2, <1>3, <1>5, <1>6, <1>7

-----------------------------------------------------------------------------
LEMMA StoreStep == StoreInv /\ MixInv /\ [Next]_vars => StoreInv' /\ MixInv'
  <1> SUFFICES ASSUME StoreInv, MixInv, [Next]_vars PROVE StoreInv' /\ MixInv'
    OBVIOUS
  <1>1. ASSUME NEW c \in Commands, ReadCommand(c) PROVE StoreInv' /\ MixInv'
    BY <1>1, ReadCommandStep
  <1>2. ASSUME NEW i \in ByteIndex, WriteByte(i) PROVE StoreInv' /\ MixInv'
    BY <1>2, WriteByteStep
  <1>3. ASSUME NEW s \in Slots, Program(s) PROVE StoreInv' /\ MixInv'
    BY <1>3, ProgramStep
  <1>5. ASSUME NEW rate \in PackRates, TakePackRate(rate) PROVE StoreInv' /\ MixInv'
    BY <1>5, TakePackRateStep
  <1>4. CASE UNCHANGED vars
    <2> USE <1>4 DEF vars, flash, StoreInv
    <2>0. Read' = Read /\ InFlash' = InFlash /\ Settings' = Settings
      BY DEF Read, InFlash, Settings
    <2>1. TypeOK' /\ Progress' /\ StoreKinds' /\ LongInWrite'
      BY <2>0 DEF TypeOK, Progress, StoreKinds, LongInWrite
    <2>2. CopyFollows' /\ FlashKeeps' /\ LastCommandStored'
      BY <2>0 DEF CopyFollows, FlashKeeps, LastCommandStored, Committed
    <2>3. MixInv'
      BY <2>0 DEF MixInv, OfOne
    <2> QED BY <2>1, <2>2, <2>3
  <1> QED
    BY <1>1, <1>2, <1>3, <1>4, <1>5, RestoreStep, SkipStep, WriteLongStep,
       WriteRefusedStep, UpdateStep, EraseSettingsStep, EraseValidStep,
       PowerCycleStep DEF Next

(* Every variable keeps its type; among other things the count of writes   *)
(* and the setting a command is at stay in range (readCommands).           *)
THEOREM StoreTypeCorrect == Spec => []TypeOK
  <1>1. StoreInv => TypeOK
    BY DEF StoreInv
  <1> QED
    BY <1>1, InitInv, StoreStep, PTL DEF Spec

(* Whatever earlier sessions tore or were refused, a setting has in store  *)
(* what was last commanded of it once its own write was let through and    *)
(* not cut: readCommands, writeLong, isWriteOk, update and commit.         *)
THEOREM CommandIsStored == Spec => []LastCommandStored
  <1>1. StoreInv => LastCommandStored
    BY DEF StoreInv
  <1> QED
    BY <1>1, InitInv, StoreStep, PTL DEF Spec

(* Flash holds settings of at most one command, whenever the power fails   *)
(* within a commit or before it: commit, FlashClass::erase and write.      *)
THEOREM FlashIsOfOneCommand == Spec => []FlashNeverMixes
  <1>1. StoreInv /\ MixInv => FlashNeverMixes
    <2> SUFFICES ASSUME StoreInv, MixInv, InFlash
                 PROVE  \E c \in Commands \cup {All(Erased)} :
                            \A s \in Slots : Read[s] \in {c[s], Erased}
      BY DEF FlashNeverMixes
    <2>1. CASE pc \in {"setup", "loop", "set", "erase"}
      BY <2>1 DEF MixInv, OfOne
    <2>2. CASE pc = "validate"
      <3>1. \A s \in Slots : Read[s] \in {All(Erased)[s], Erased}
        BY <2>2, AllBasic DEF MixInv, Read
      <3> QED BY <3>1
    <2>3. CASE pc = "program"
      <3>1. command \in Commands /\ \A s \in Slots : Read[s] \in {command[s], Erased}
        BY <2>3 DEF MixInv, Read, StoreInv, StoreKinds
      <3> QED BY <3>1
    <2> QED BY <2>1, <2>2, <2>3 DEF StoreInv, TypeOK, StoreKinds
  <1> QED
    BY <1>1, InitInv, StoreStep, PTL DEF Spec

-----------------------------------------------------------------------------
(* What is in force *)

(* The strengthening InForceAsCommanded needs: while the store changes, the *)
(* settings it changes for are in force as commanded.                      *)
ForceInv ==
    /\ pc = "write" => inForce[slot] = commanded[slot]
    /\ InFlash /\ pc = "set" => \A s \in 1..(slot - 1) : inForce[s] = commanded[s]
    /\ pc \in {"erase", "validate", "program"} =>
           \A s \in Slots : inForce[s] = commanded[s]
    /\ InForceAsCommanded

LEMMA ForceInit == Init => ForceInv
  BY DEF Init, ForceInv, InForceAsCommanded

LEMMA ForceRestore == ASSUME StoreInv, Restore PROVE ForceInv'
  <1>1. /\ Read' = Read /\ InFlash' = InFlash /\ Settings' = Settings
        /\ pc = "setup" /\ pc' = "loop"
        /\ UNCHANGED <<sketch, lost, commanded>>
    BY DEF Restore, Read, InFlash, Settings
  <1>2. \A word : AsRestored(word)' = AsRestored(word)
    BY <1>1 DEF AsRestored
  <1>3. \A s \in Settings : inForce'[s] = AsRestored(Read[s])
    BY SlotsBasic DEF Restore
  <1>4. \A s \in Settings \ lost : Read[s] = commanded[s]
    BY <1>1 DEF StoreInv, LastCommandStored, Committed
  <1>5. InForceAsCommanded'
    BY <1>1, <1>3, <1>4 DEF InForceAsCommanded, AsRestored
  <1> QED
    BY <1>1, <1>5 DEF ForceInv

(* A step that changes neither what is in force nor what was commanded,    *)
(* nor the store of a setting that was lost.                               *)
LEMMA ForceKept ==
    ASSUME InForceAsCommanded, pc # "setup",
           UNCHANGED <<sketch, inForce, packRate, commanded>>,
           lost' \subseteq lost,
           \A s \in Settings :
               \/ inForce[s] = commanded[s]
               \/ Read'[s] = Read[s] /\ (s \in lost <=> s \in lost')
    PROVE  InForceAsCommanded'
  <1>1. Settings' = Settings
    BY DEF Settings
  <1> SUFFICES ASSUME NEW s \in Settings
               PROVE  inForce[s] \in {commanded[s],
                        AsRestored(IF s \in lost THEN Read[s] ELSE commanded[s])'}
                        \cup RateTold(s)
    BY <1>1 DEF InForceAsCommanded, RateTold
  <1>2. CASE inForce[s] = commanded[s]
    BY <1>2
  <1>3. CASE Read'[s] = Read[s] /\ (s \in lost <=> s \in lost')
    BY <1>3 DEF InForceAsCommanded, AsRestored
  <1> QED BY <1>2, <1>3

(* A setting that is put in force is in force as commanded, and the others *)
(* are what they were.                                                     *)
LEMMA ForcePut ==
    ASSUME StoreInv, ForceInv, PutInForce,
           UNCHANGED <<sketch, packRate, cell, valid>>,
           slot \in Settings,
           \A s \in Settings : s # slot =>
               /\ s \in lost => s \in lost' \/ inForce[s] = commanded[s]
               /\ s \in lost' => s \in lost
    PROVE  /\ InForceAsCommanded'
           /\ inForce'[slot] = command[slot] /\ commanded'[slot] = command[slot]
           /\ \A s \in Slots : s # slot =>
                 inForce'[s] = inForce[s] /\ commanded'[s] = commanded[s]
  <1>1. Settings' = Settings /\ Read' = Read /\ Settings \subseteq Slots
    BY SlotsBasic DEF Settings, Read
  <1>2. /\ inForce'[slot] = command[slot] /\ commanded'[slot] = command[slot]
        /\ \A s \in Slots : s # slot =>
              inForce'[s] = inForce[s] /\ commanded'[s] = commanded[s]
    BY <1>1 DEF PutInForce, StoreInv, TypeOK
  <1>3. InForceAsCommanded'
    <2> SUFFICES ASSUME NEW s \in Settings
                 PROVE  inForce'[s] \in {commanded'[s],
                          AsRestored(IF s \in lost THEN Read[s] ELSE commanded[s])'}
                          \cup RateTold(s)
      BY <1>1 DEF InForceAsCommanded, RateTold
    <2>1. CASE s = slot
      BY <1>2, <2>1
    <2>2. CASE s # slot /\ inForce[s] = commanded[s]
      BY <1>1, <1>2, <2>2
    <2>4. CASE s # slot /\ inForce[s] \in RateTold(s)
      BY <1>1, <1>2, <2>4
    <2>3. CASE s # slot /\ inForce[s] \notin {commanded[s]} \cup RateTold(s)
      <3>1. inForce[s] = AsRestored(IF s \in lost THEN Read[s] ELSE commanded[s])
        BY <2>3 DEF ForceInv, InForceAsCommanded, PutInForce
      <3>2. s \in lost <=> s \in lost'
        BY <2>3
      <3>3. inForce'[s] = inForce[s] /\ commanded'[s] = commanded[s]
        BY <1>1, <1>2, <2>3
      <3> QED BY <1>1, <3>1, <3>2, <3>3 DEF AsRestored
    <2> QED BY <2>1, <2>2, <2>3, <2>4
  <1> QED BY <1>2, <1>3

LEMMA ForceStep ==
    ASSUME StoreInv, MixInv, ForceInv, [Next]_vars
    PROVE  ForceInv'
  <1> USE DEF flash
  <1>1. CASE Restore
    BY <1>1, ForceRestore
  <1>2. ASSUME NEW c \in Commands, ReadCommand(c) PROVE ForceInv'
    <2>1. InForceAsCommanded'
      BY <1>2, ForceKept DEF ReadCommand, ForceInv, Read
    <2>2. \A s \in 1..(1 - 1) : FALSE
      OBVIOUS
    <2> QED BY <1>2, <2>1, <2>2 DEF ReadCommand, ForceInv
  <1>3. CASE Skip
    <2>1. InForceAsCommanded'
      BY <1>3, ForceKept DEF Skip, ForceInv, Read
    <2>2. ~InFlash'
      BY <1>3 DEF Skip, Taken, InFlash
    <2> QED BY <1>3, <2>1, <2>2 DEF Skip, ForceInv
  <1>4. CASE WriteLong \/ WriteRefused
    <2>1. PutInForce /\ UNCHANGED <<sketch, packRate, cell, valid>> /\ slot \in Settings
      BY <1>4 DEF WriteLong, WriteRefused, PutInForce, StoreInv, Progress
    <2>2. lost' = lost \ {slot} \/ lost' = lost \cup {slot}
      BY <1>4 DEF WriteLong, WriteRefused
    <2>3. InForceAsCommanded' /\ inForce'[slot] = commanded'[slot]
      BY <2>1, <2>2, ForcePut
    <2>4. ~InFlash' /\ pc' \in {"set", "loop", "write"} /\ (pc' = "write" => slot' = slot)
      BY <1>4 DEF WriteLong, WriteRefused, InFlash
    <2> QED BY <2>3, <2>4 DEF ForceInv
  <1>5. CASE Update
    <2>1. /\ PutInForce /\ UNCHANGED <<sketch, packRate, cell, valid>>
          /\ InFlash /\ InFlash'
          /\ slot \in Settings /\ Settings = Slots /\ pc = "set" /\ slot' = slot + 1
          /\ pc' = IF More THEN "set" ELSE IF _dirty' THEN "erase" ELSE "loop"
          /\ lost' = IF pc' = "loop" THEN {} ELSE lost
      BY <1>5, SlotsBasic DEF Update, PutInForce, StoreInv, Progress, InFlash
    <2>2. \A s \in 1..(slot - 1) : inForce[s] = commanded[s]
      BY <2>1 DEF ForceInv
    <2>3. slot \in Nat /\ slot <= SETTINGS /\ (~More => slot = SETTINGS)
      BY <2>1, NextSlot DEF StoreInv
    <2>4. pc' = "loop" => \A s \in Slots : s # slot => inForce[s] = commanded[s]
      <3> SUFFICES ASSUME pc' = "loop", NEW s \in Slots, s # slot
                   PROVE  inForce[s] = commanded[s]
        OBVIOUS
      <3>1. slot = SETTINGS
        BY <2>1, <2>3
      <3>2. s \in 1..(slot - 1)
        BY <3>1, StoreAssumption DEF Slots
      <3> QED BY <2>2, <3>2
    <2>5. \A s \in Settings : s # slot =>
              /\ s \in lost => s \in lost' \/ inForce[s] = commanded[s]
              /\ s \in lost' => s \in lost
      BY <2>1, <2>4
    <2>6. /\ InForceAsCommanded'
          /\ inForce'[slot] = commanded'[slot]
          /\ \A s \in Slots : s # slot =>
                inForce'[s] = inForce[s] /\ commanded'[s] = commanded[s]
      BY <2>1, <2>5, ForcePut
    <2>7. \A s \in 1..slot : inForce'[s] = commanded'[s]
      <3> SUFFICES ASSUME NEW s \in 1..slot PROVE inForce'[s] = commanded'[s]
        OBVIOUS
      <3>1. CASE s = slot
        BY <2>6, <3>1
      <3>2. CASE s # slot
        <4>1. s \in 1..(slot - 1) /\ s \in Slots
          BY <2>3, <3>2, StoreAssumption DEF Slots
        <4> QED BY <2>2, <2>6, <3>2, <4>1
      <3> QED BY <3>1, <3>2
    <2>8. slot' - 1 = slot
      BY <2>1, <2>3
    <2>9. ~More => \A s \in Slots : inForce'[s] = commanded'[s]
      BY <2>3, <2>7 DEF Slots
    <2> QED BY <2>1, <2>6, <2>7, <2>8, <2>9 DEF ForceInv
  <1>6. ASSUME NEW i \in ByteIndex, WriteByte(i) PROVE ForceInv'
    <2>1. /\ pc = "write"
          /\ UNCHANGED <<sketch, inForce, packRate, commanded, lost, valid>>
          /\ pc' \in {"set", "loop", "write"} /\ (pc' = "write" => slot' = slot)
      BY <1>6 DEF WriteByte
    <2>2. ~InFlash /\ ~InFlash' /\ valid
      BY <2>1 DEF StoreInv, StoreKinds, InFlash
    <2>3. \A s \in Slots : s # slot => Read'[s] = Read[s]
      BY <1>6, <2>1, <2>2 DEF WriteByte, Read, StoreInv, TypeOK
    <2>4. InForceAsCommanded'
      BY <2>1, <2>3, ForceKept, SlotsBasic DEF ForceInv
    <2> QED BY <2>1, <2>2, <2>4 DEF ForceInv
  <1>7. CASE EraseSettings \/ EraseValid
    <2>1. /\ pc \in {"erase", "validate"} /\ pc' \in {"validate", "program"}
          /\ UNCHANGED <<sketch, inForce, packRate, commanded, lost>>
      BY <1>7 DEF EraseSettings, EraseValid
    <2>2. \A s \in Slots : inForce[s] = commanded[s]
      BY <2>1 DEF ForceInv
    <2>3. InForceAsCommanded'
      BY <2>1, <2>2, ForceKept, SlotsBasic DEF ForceInv
    <2> QED BY <2>1, <2>2, <2>3 DEF ForceInv
  <1>8. ASSUME NEW s \in Slots, Program(s) PROVE ForceInv'
    <2>1. /\ pc = "program" /\ pc' \in {"program", "loop"} /\ lost' \subseteq lost
          /\ UNCHANGED <<sketch, inForce, packRate, commanded>>
      BY <1>8 DEF Program
    <2>2. \A r \in Slots : inForce[r] = commanded[r]
      BY <2>1 DEF ForceInv
    <2>3. InForceAsCommanded'
      BY <2>1, <2>2, ForceKept, SlotsBasic DEF ForceInv
    <2> QED BY <2>1, <2>2, <2>3 DEF ForceInv
  <1>9. CASE PowerCycle
    BY <1>9 DEF PowerCycle, ForceInv, InForceAsCommanded
  <1>10. CASE UNCHANGED vars
    <2>1. Read' = Read /\ InFlash' = InFlash /\ Settings' = Settings
      BY <1>10 DEF vars, Read, InFlash, Settings
    <2>2. UNCHANGED <<sketch, pc, inForce, slot, packRate, commanded, lost>>
      BY <1>10 DEF vars
    <2>3. InForceAsCommanded'
      BY <2>1, <2>2 DEF ForceInv, InForceAsCommanded, AsRestored, RateTold
    <2> QED BY <2>1, <2>2, <2>3 DEF ForceInv
  <1>11. ASSUME NEW rate \in PackRates, TakePackRate(rate) PROVE ForceInv'
    <2>1. Read' = Read /\ InFlash' = InFlash /\ Settings' = Settings
      BY <1>11 DEF TakePackRate, Read, InFlash, Settings
    <2>2. /\ pc = "loop" /\ pc' = "loop" /\ packRate' = {rate}
          /\ inForce' = [inForce EXCEPT ![RATE_SLOT] = rate]
          /\ UNCHANGED <<sketch, commanded, lost>>
      BY <1>11 DEF TakePackRate
    <2>3. \A s \in Settings :
              inForce'[s] = IF s = RATE_SLOT THEN rate ELSE inForce[s]
      BY <2>2, SlotsBasic DEF StoreInv, TypeOK
    <2>4. InForceAsCommanded'
      BY <2>1, <2>2, <2>3
         DEF ForceInv, InForceAsCommanded, AsRestored, RateTold
    <2> QED BY <2>2, <2>4 DEF ForceInv
  <1> QED
    BY <1>1, <1>2, <1>3, <1>4, <1>5, <1>6, <1>7, <1>8, <1>9, <1>10, <1>11
       DEF Next

(* The settings in force are the last ones commanded, or what setup made   *)
(* of a store that has those unless their write was cut or refused, for    *)
(* all three sketches: readCommands puts a value in force before it is     *)
(* written, and setup reads what was written.  The one exception is the    *)
(* rate of v2.5 and v2.6, which setChargingAmps makes of what the packs    *)
(* have told since power-up.                                               *)
THEOREM SettingsInForce == Spec => []InForceAsCommanded
  <1>1. ForceInv => InForceAsCommanded
    BY DEF ForceInv
  <1> QED
    BY <1>1, InitInv, StoreStep, ForceInit, ForceStep, PTL DEF Spec
=============================================================================

-------------------------- MODULE MCStoredSettings --------------------------
(***************************************************************************)
(* Three settings of two bytes, each byte one of three values.  The first  *)
(* setting of the last command is no sane voltage.  The packs make a rate  *)
(* that no command sets.                                                   *)
(***************************************************************************)
EXTENDS StoredSettings

Bytes(value) == [i \in ByteIndex |-> (value \div BYTE_MOD^i) % BYTE_MOD]

Numbers(values) == [s \in Slots |-> Bytes(values[s])]

MCDefault == Bytes(2)

MCPackRates == {Bytes(5)}

MCCommands == {Numbers(<<4, 7, 1>>), Numbers(<<2, 3, 4>>), Numbers(<<6, 7, 5>>)}
=============================================================================

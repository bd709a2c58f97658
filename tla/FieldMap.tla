------------------------------ MODULE FieldMap ------------------------------
(***************************************************************************)
(* The outer fields map of src/lxmf.rs: its header, its integer keys and   *)
(* the stateless checks and lookups made over it.                          *)
(***************************************************************************)
EXTENDS MsgPack

CONSTANT MaxFields  \* MAX_FIELDS, 64 in the code

ASSUME FieldsAssumption == MaxFields \in Nat

(* read_map_header: a map whose header is all there.                       *)
HasMapHeader(f) ==
  f # <<>> /\ IsMap(f[1]) /\ 1 + LengthBytes(f[1]) <= Len(f)
MapCount(f)   == Announced(f, 1)
FirstEntry(f) == 2 + LengthBytes(f[1])

(* read_field_id: any MessagePack integer, as the nine bytes of its sign   *)
(* extension, so that encodings of one number are one key.  Mutant: every  *)
(* integer of a width of its own is sign-extended.                         *)
SignedCodesAll == 204 .. 211
SignedCodes    == 208 .. 211
IsInteger(b) == b \in 0 .. 127 \cup 204 .. 211 \cup 224 .. 255
HasFieldId(f, p) ==
  p <= Len(f) /\ IsInteger(f[p]) /\ p + NumberBody(f[p]) <= Len(f)
FieldId(f, p) ==
  LET width == NumberBody(f[p])
      body  == IF width = 0 THEN <<f[p]>> ELSE SubSeq(f, p + 1, p + width)
      sign  == IF body[1] >= 128 /\ (width = 0 \/ f[p] \in SignedCodes) THEN 255 ELSE 0
  IN  [i \in 1 .. 9 |-> IF i > 9 - Len(body) THEN body[i - 9 + Len(body)] ELSE sign]
AfterKey(f, p) == p + 1 + NumberBody(f[p])

(* The position past the value whose key is at p.                          *)
AfterEntry(f, p) ==
  IF HasFieldId(f, p) THEN SkipValueAt(f, AfterKey(f, p), 0) ELSE Malformed

(* Where the i-th key starts, Malformed after a broken entry.              *)
KeyPosition(f) ==
  LET at[i \in Nat \ {0}] ==
        IF i = 1 THEN FirstEntry(f)
        ELSE IF at[i - 1] = Malformed THEN Malformed ELSE AfterEntry(f, at[i - 1])
  IN  at

-----------------------------------------------------------------------------
(* validate_fields_without_scratch: compare each key with a fresh walk of  *)
(* the keys before it.                                                     *)
ValidWithoutScratch(f) ==
  /\ HasMapHeader(f) /\ MapCount(f) <= MaxFields
  /\ LET at == KeyPosition(f)
     IN  /\ \A i \in 1 .. MapCount(f) :
              /\ at[i] # Malformed /\ HasFieldId(f, at[i])
              /\ \A j \in 1 .. i - 1 : FieldId(f, at[j]) # FieldId(f, at[i])
         /\ at[MapCount(f) + 1] = Len(f) + 1

(* field_value_id: the encoded value of a key, of the first entry that has *)
(* it, in a map with no doubt about which that is.                         *)
FieldValueId(f, id) ==
  LET at    == KeyPosition(f)
      holds == {i \in 1 .. MapCount(f) : FieldId(f, at[i]) = id}
  IN  IF ~ValidWithoutScratch(f) \/ holds = {} THEN <<>>
      ELSE LET i == CHOOSE i \in holds : \A j \in holds : i <= j
           IN  SubSeq(f, AfterKey(f, at[i]), at[i + 1] - 1)

(* value_as_bytes: the bytes of a bin or str, whatever follows them.       *)
NoBytes == <<-1>>
ValueAsBytes(value) ==
  IF ReadBin(value, 1) = Malformed THEN NoBytes
  ELSE SubSeq(value, 2 + LengthBytes(value[1]), ReadBin(value, 1) - 1)
=============================================================================

-------------------------- MODULE StructuredFields --------------------------
(***************************************************************************)
(* The readers of src/lxmf.rs for the fields with a schema: audio_field,   *)
(* ticket_field and map_bytes_value.  All three read optional content of a *)
(* message that is authentic already, whatever its other fields hold.      *)
(***************************************************************************)
EXTENDS Numbers

CONSTANT TicketLength  \* 16 in the code

ASSUME TicketAssumption == TicketLength \in Nat

AudioId  == 7
TicketId == 12
FieldValue(fields, id) == FieldValueId(fields, FieldId(<<id>>, 1))

(* Where the first element of an array of two starts.                      *)
PairStart(value) ==
  IF IsArray(value[1]) /\ Announced(value, 1) = 2 THEN 2 + LengthBytes(value[1]) ELSE Malformed

(* A blob that begins at p and ends the value.                             *)
EndsWithBlob(value, p) == ReadBin(value, p) = Len(value) + 1
BlobFrom(value, p)     == ValueAsBytes(SubSeq(value, p, Len(value)))

-----------------------------------------------------------------------------
(* read_audio_integer: zero high bytes also exclude negative numbers, but  *)
(* for int8, which has none.  Mutant: int8 is not looked at.               *)
HasModeSigned(value, p) ==
  /\ HasFieldId(value, p) /\ value[p] < 224
  /\ \A i \in p + 1 .. p + NumberBody(value[p]) - 1 : value[i] = 0
HasMode(value, p) ==
  /\ HasFieldId(value, p) /\ value[p] < 224
  /\ \A i \in p + 1 .. p + NumberBody(value[p]) - 1 : value[i] = 0
  /\ ~(value[p] = 208 /\ value[p + 1] > 127)
Mode(value, p) == value[p + NumberBody(value[p])]

NoAudio  == [kind |-> "none"]
BadAudio == [kind |-> "malformed"]

(* Exactly [mode, bin].                                                    *)
AudioIn(value) ==
  LET first == PairStart(value)
      bin   == AfterKey(value, first)
  IN  IF value = <<>> THEN NoAudio
      ELSE IF /\ first # Malformed /\ HasMode(value, first)
              /\ value[bin] \in 196 .. 198 /\ EndsWithBlob(value, bin)
      THEN [kind |-> "audio", mode |-> Mode(value, first), bytes |-> BlobFrom(value, bin)]
      ELSE BadAudio

(* audio_field                                                             *)
AudioField(fields) ==
  IF ValidWithoutScratch(fields) THEN AudioIn(FieldValue(fields, AudioId)) ELSE BadAudio

-----------------------------------------------------------------------------
(* Mutant: an expiry is kept to the last digit.                            *)
RoundedNever(m) == m

(* Rust's integer as f64: to 53 digits, to the nearest, ties to even.      *)
Rounded(m) ==
  LET low  == Max(m) - 52
      kept == {k \in m : k >= low}
      up   == low - 1 \in m /\ (low \in m \/ m \ kept # {low - 1})
  IN  IF m = {} THEN {} ELSE IF up THEN PlusUnit(kept, low) ELSE kept

(* read_number: any integer or float, widened to f64.                      *)
HasNumber(data, p) ==
  /\ p <= Len(data)
  /\ IsInteger(data[p]) \/ data[p] \in {202, 203}
  /\ p + NumberBody(data[p]) <= Len(data)

(* Mutant: signed integers are not sign-extended.                          *)
NumberUnsigned(data, p) ==
  LET body == SubSeq(data, p, p + NumberBody(data[p]))
  IN  IF data[p] \in {202, 203} THEN Float(Tail(body))
      ELSE [negative |-> FALSE, finite |-> TRUE,
            digits |-> Rounded(Bits(IF Len(body) = 1 THEN body ELSE Tail(body)))]

(* Which it is.                                                            *)
Number(data, p) ==
  LET id        == FieldId(data, p)
      magnitude == IF id[1] = 255 THEN PlusUnit(0 .. 71 \ Bits(id), 0) ELSE Bits(id)
  IN  IF data[p] \in {202, 203} THEN Float(SubSeq(data, p + 1, p + NumberBody(data[p])))
      ELSE [negative |-> id[1] = 255, finite |-> TRUE, digits |-> Rounded(magnitude)]

(* m > n, of finite floats; the two zeros are equal.                       *)
Minus(n) == n.negative /\ n.digits # {}
Greater(m, n) ==
  IF Minus(m) # Minus(n) THEN Minus(n)
  ELSE IF Minus(m) THEN Less(m.digits, n.digits)
  ELSE Less(n.digits, m.digits)

(* Mutant: the comparison is the wrong way round.                          *)
UnexpiredSwapped(expires, now) == expires.finite /\ Greater(now, expires)
Unexpired(expires, now) == expires.finite /\ Greater(expires, now)

NoTicket == [ok |-> FALSE]

(* [expires, ticket], while it has not expired.                            *)
TicketIn(value, now) ==
  LET first   == PairStart(value)
      after   == AfterKey(value, first)
      expires == Number(value, first)
  IN  IF /\ value # <<>> /\ first # Malformed /\ HasNumber(value, first)
         /\ EndsWithBlob(value, after)
         /\ Unexpired(expires, now)
         /\ Len(BlobFrom(value, after)) = TicketLength
      THEN [ok |-> TRUE, expires |-> expires, ticket |-> BlobFrom(value, after)]
      ELSE NoTicket

(* ticket_field                                                            *)
TicketField(fields, now) == TicketIn(FieldValue(fields, TicketId), now)

-----------------------------------------------------------------------------
(* External, core::str::from_utf8, for the bytes that occur here.          *)
Utf8(bytes) == \A i \in DOMAIN bytes : bytes[i] < 128

(* read_schema_key: an integer, or a text that is UTF-8.                   *)
IsText(b) == b \in FixStr \cup 217 .. 219
HasSchemaKey(map, p) ==
  /\ p <= Len(map)
  /\ IF IsText(map[p])
     THEN ReadBin(map, p) # Malformed /\ Utf8(ValueAsBytes(SubSeq(map, p, Len(map))))
     ELSE HasFieldId(map, p)
SchemaKey(map, p) ==
  IF IsText(map[p]) THEN <<"text", ValueAsBytes(SubSeq(map, p, Len(map)))>>
  ELSE <<"integer", FieldId(map, p)>>
AfterSchemaKey(map, p) == IF IsText(map[p]) THEN ReadBin(map, p) ELSE AfterKey(map, p)

(* Where the i-th key of a schema map starts, Malformed after a broken one.*)
SchemaPosition(map) ==
  LET at[i \in Nat \ {0}] ==
        IF i = 1 THEN FirstEntry(map)
        ELSE IF at[i - 1] = Malformed \/ ~HasSchemaKey(map, at[i - 1]) THEN Malformed
        ELSE SkipValueAt(map, AfterSchemaKey(map, at[i - 1]), 0)
  IN  at

(* Mutant: keys are compared as they are encoded.                          *)
KeysDifferEncoded(map, at, count) ==
  \A i, j \in 1 .. count : i < j =>
    SubSeq(map, at[i], AfterSchemaKey(map, at[i]) - 1)
      # SubSeq(map, at[j], AfterSchemaKey(map, at[j]) - 1)
KeysDiffer(map, at, count) ==
  \A i, j \in 1 .. count : i < j => SchemaKey(map, at[i]) # SchemaKey(map, at[j])

(* map_bytes_value: the value of a text key, in a map whose keys are all   *)
(* told apart; <<>> for None.                                              *)
MapBytesValue(map, text) ==
  LET at    == SchemaPosition(map)
      count == MapCount(map)
      named == {i \in 1 .. count : SchemaKey(map, at[i]) = <<"text", text>>}
  IN  IF /\ Utf8(text) /\ HasMapHeader(map)
         /\ count <= MaxFields /\ count <= (Len(map) + 1 - FirstEntry(map)) \div 2
         /\ \A i \in 1 .. count + 1 : at[i] # Malformed
         /\ at[count + 1] = Len(map) + 1
         /\ KeysDiffer(map, at, count)
         /\ named # {}
      THEN LET i == CHOOSE i \in named : TRUE
           IN  SubSeq(map, AfterSchemaKey(map, at[i]), at[i + 1] - 1)
      ELSE <<>>
=============================================================================

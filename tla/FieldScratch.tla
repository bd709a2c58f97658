---------------------------- MODULE FieldScratch ----------------------------
(***************************************************************************)
(* validate_fields of src/lxmf.rs with the caller's LxmfFieldScratch, which*)
(* is never cleared: it holds what earlier messages, accepted or not, left *)
(* in it while the next message is checked key by key.                     *)
(***************************************************************************)
EXTENDS Encodings

CONSTANTS
  Messages,  \* the encoded fields elements checked one after another
  Ids        \* the integers that an accepted map is asked for

ASSUME MessagesAssumption == Messages \subseteq Seq(Byte)
ASSUME IdsAssumption == \A n \in Ids : n \in Int /\ Shifted(n)[8] \in {0, -1}

VARIABLES
  scratch,  \* LxmfFieldScratch::keys
  fields, pos, index, verdict  \* the call in progress or the last one

vars == <<scratch, fields, pos, index, verdict>>

NoId == [i \in 1 .. 9 |-> 0]

(* LxmfFieldScratch::new, between messages.                                *)
Init ==
  /\ scratch = [i \in 1 .. MaxFields |-> NoId]
  /\ fields = <<>> /\ pos = 1 /\ index = 0 /\ verdict = "idle"

(* What the header of a map with bytes from p on decides.  Mutant: no limit*)
(* on the number of keys.                                                  *)
HeaderVerdictUnlimited(f, p) ==
  IF MapCount(f) > (Len(f) + 1 - p) \div 2 THEN "malformed" ELSE "checking"
HeaderVerdict(f, p) ==
  IF MapCount(f) > MaxFields THEN "too many"
  ELSE IF MapCount(f) > (Len(f) + 1 - p) \div 2 THEN "malformed"
  ELSE "checking"

(* Enter validate_fields: not a map, too many keys, or more keys than the  *)
(* remaining bytes can hold, else start the loop.                          *)
Begin(f) ==
  /\ verdict = "idle"
  /\ fields' = f /\ index' = 0
  /\ IF ~HasMapHeader(f)
     THEN verdict' = "valid" /\ pos' = 1
     ELSE /\ pos' = FirstEntry(f)
          /\ verdict' = HeaderVerdict(f, pos')
  /\ UNCHANGED scratch

(* The keys this message has stored so far.  Mutants: all that the scratch *)
(* holds; all but the latest.                                              *)
StoredAnywhere == {scratch[i] : i \in 1 .. MaxFields}
StoredEarlier  == {scratch[i] : i \in 1 .. index - 1}
Stored         == {scratch[i] : i \in 1 .. index}

(* One turn of the loop.                                                   *)
Check ==
  /\ verdict = "checking" /\ index < MapCount(fields)
  /\ IF ~HasFieldId(fields, pos)
     THEN verdict' = "malformed" /\ UNCHANGED <<scratch, pos, index>>
     ELSE IF FieldId(fields, pos) \in Stored
     THEN verdict' = "duplicate" /\ UNCHANGED <<scratch, pos, index>>
     ELSE /\ scratch' = [scratch EXCEPT ![index + 1] = FieldId(fields, pos)]
          /\ IF AfterEntry(fields, pos) = Malformed
             THEN verdict' = "malformed" /\ UNCHANGED <<pos, index>>
             ELSE /\ pos' = AfterEntry(fields, pos) /\ index' = index + 1
                  /\ UNCHANGED verdict
  /\ UNCHANGED fields

(* After the loop nothing may follow the last value.                       *)
Finish ==
  /\ verdict = "checking" /\ index = MapCount(fields)
  /\ verdict' = IF pos = Len(fields) + 1 THEN "valid" ELSE "malformed"
  /\ UNCHANGED <<scratch, fields, pos, index>>

(* The caller is done with the message; its scratch stays as it is.        *)
Drop ==
  /\ verdict \notin {"idle", "checking"}
  /\ fields' = <<>> /\ pos' = 1 /\ index' = 0 /\ verdict' = "idle"
  /\ UNCHANGED scratch

Next == Check \/ Finish \/ Drop \/ \E f \in Messages : Begin(f)

Spec == Init /\ [][Next]_vars

-----------------------------------------------------------------------------
(* The types: no message gets past MAX_FIELDS keys, so the scratch, which  *)
(* has no room for more, is never indexed beyond its end.                  *)
TypeOK ==
  /\ DOMAIN scratch = 1 .. MaxFields
  /\ fields \in Messages \cup {<<>>} /\ pos \in 1 .. Len(fields) + 1
  /\ index \in 0 .. MaxFields
  /\ verdict \in {"idle", "checking", "valid", "malformed", "duplicate", "too many"}

(* The keys a message has got past are distinct, whatever the scratch held *)
(* before: validate_fields compares with nothing but this message's keys.  *)
KeysDistinct == \A i, j \in 1 .. index : i # j => scratch[i] # scratch[j]

(* What earlier messages left in the scratch never decides a message: the  *)
(* verdict is the stateless check's, except that the parsers' check, run   *)
(* after the value was skipped whole, lets a value that is no map pass.    *)
ScratchIsIrrelevant ==
  verdict \notin {"idle", "checking"} /\ HasMapHeader(fields) =>
    (verdict = "valid" <=> ValidWithoutScratch(fields))

(* The i-th key of the map means n: its bytes are an encoding of n.        *)
(* FieldId has no part in this.                                            *)
Encodes(i, n, last) == EncodesInteger(SubSeq(fields, KeyPosition(fields)[i], last), n)
Means(i, n) == \E last \in 1 .. Len(fields) : Encodes(i, n, last)

(* The one value that the map gives to n, or none.                         *)
IsMeantBy(value, n) ==
  \/ value = <<>> /\ \A i \in 1 .. MapCount(fields) : ~Means(i, n)
  \/ \E i \in 1 .. MapCount(fields), last \in 1 .. Len(fields) :
       /\ Encodes(i, n, last)
       /\ value = SubSeq(fields, last + 1, KeyPosition(fields)[i + 1] - 1)
       /\ \A j \in 1 .. MapCount(fields) : Means(j, n) => j = i

(* Keys are taken for the integers they mean, whatever their encodings: in *)
(* an accepted map no two keys mean one integer, and a lookup gives what   *)
(* follows the key that means the ID, or nothing if none does; and a map is*)
(* refused for a double key only if two of its keys mean the same.         *)
KeysReadAsMeant ==
  HasMapHeader(fields) =>
    /\ verdict = "valid" => \A n \in Ids : IsMeantBy(FieldValueId(fields, Octets(n, 9)), n)
    /\ verdict = "duplicate" =>
         \E i \in 1 .. index : \A n \in Ids : Means(i, n) <=> Means(index + 1, n)
=============================================================================

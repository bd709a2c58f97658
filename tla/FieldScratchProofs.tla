------------------------- MODULE FieldScratchProofs -------------------------
(***************************************************************************)
(* validate_fields with a reused scratch, proved for every key limit and   *)
(* every series of messages: it decides as the stateless check does, and   *)
(* keys are the integers that their bytes encode.                          *)
(***************************************************************************)
EXTENDS FieldScratch, Lemmas

USE FieldsAssumption, MessagesAssumption

(* The part of the types that keeps keys in the scratch.                   *)
KeysInv ==
  /\ DOMAIN scratch = 1 .. MaxFields
  /\ fields \in Seq(Byte) /\ index \in Nat
  /\ verdict = "checking" =>
       HasMapHeader(fields) /\ MapCount(fields) <= MaxFields /\ index <= MapCount(fields)
  /\ KeysDistinct

(* Entering validate_fields bounds the count by MAX_FIELDS before the      *)
(* loop.                                                                   *)
LEMMA BeginKeeps ==
  ASSUME KeysInv, NEW f \in Messages, Begin(f)
  PROVE  KeysInv'
<1>1. fields' = f /\ index' = 0 /\ UNCHANGED scratch /\ f \in Seq(Byte)
  BY DEF Begin
<1>2. verdict' = "checking" => HasMapHeader(f) /\ ~(MapCount(f) > MaxFields)
  BY DEF Begin, HeaderVerdict
<1>3. verdict' = "checking" =>
        HasMapHeader(fields') /\ MapCount(fields') <= MaxFields /\ index' <= MapCount(fields')
  BY <1>1, <1>2, CountIsNat
<1>4. KeysDistinct'
  BY <1>1 DEF KeysDistinct
<1> QED BY <1>1, <1>3, <1>4 DEF KeysInv, HasMapHeader, MapCount

(* A turn of the loop stores a key only after comparing it with all that   *)
(* this message stored.                                                    *)
LEMMA CheckKeeps ==
  ASSUME KeysInv, Check
  PROVE  KeysInv'
<1> DEFINE id == FieldId(fields, pos)
<1> HIDE DEF id
<1>1. /\ verdict = "checking" /\ index < MapCount(fields) /\ UNCHANGED fields
      /\ index \in Nat /\ MapCount(fields) \in Nat /\ MapCount(fields) <= MaxFields
      /\ HasMapHeader(fields) /\ DOMAIN scratch = 1 .. MaxFields /\ fields \in Seq(Byte)
      /\ \A i, j \in 1 .. index : i # j => scratch[i] # scratch[j]
  BY CountIsNat DEF Check, KeysInv, KeysDistinct
<1>2. CASE UNCHANGED <<scratch, index>> /\ verdict' # "checking"
  BY <1>1, <1>2 DEF KeysInv, KeysDistinct, HasMapHeader, MapCount
<1>3. CASE /\ scratch' = [scratch EXCEPT ![index + 1] = id]
           /\ \A i \in 1 .. index : scratch[i] # id
           /\ index' = index /\ verdict' # "checking"
  <2>1. \A i \in 1 .. index : scratch'[i] = scratch[i]
    BY <1>1, <1>3
  <2>2. DOMAIN scratch' = 1 .. MaxFields
    BY <1>1, <1>3
  <2> QED BY <1>1, <1>3, <2>1, <2>2 DEF KeysInv, KeysDistinct
<1>4. CASE /\ scratch' = [scratch EXCEPT ![index + 1] = id]
           /\ \A i \in 1 .. index : scratch[i] # id
           /\ index' = index + 1 /\ UNCHANGED verdict
  <2>1. index + 1 \in 1 .. MaxFields
    BY <1>1
  <2>2. scratch'[index + 1] = id /\ \A i \in 1 .. index : scratch'[i] = scratch[i]
    BY <1>1, <1>4, <2>1
  <2>3. \A i, j \in 1 .. index' : i # j => scratch'[i] # scratch'[j]
    BY <1>1, <1>4, <2>2
  <2>4. KeysDistinct'
    BY <2>3 DEF KeysDistinct
  <2>5. DOMAIN scratch' = 1 .. MaxFields /\ index' \in Nat /\ index' <= MapCount(fields)
    BY <1>1, <1>4
  <2> QED BY <1>1, <2>4, <2>5 DEF KeysInv, HasMapHeader, MapCount
<1> QED BY <1>2, <1>3, <1>4 DEF Check, Stored, id

(* The strengthened invariant holds in every reachable state.              *)
LEMMA KeysInvariant == Spec => []KeysInv
<1>1. Init => KeysInv
  BY DEF Init, KeysInv, KeysDistinct
<1>2. KeysInv /\ [Next]_vars => KeysInv'
  <2> SUFFICES ASSUME KeysInv, [Next]_vars
               PROVE  KeysInv'
    OBVIOUS
  <2>1. CASE Check
    BY <2>1, CheckKeeps
  <2>2. CASE Finish
    BY <2>2 DEF Finish, KeysInv, KeysDistinct
  <2>3. CASE Drop
    BY <2>3 DEF Drop, KeysInv, KeysDistinct
  <2>4. ASSUME NEW f \in Messages, Begin(f)
        PROVE  KeysInv'
    BY <2>4, BeginKeeps
  <2>5. CASE UNCHANGED vars
    BY <2>5 DEF vars, KeysInv, KeysDistinct, HasMapHeader, MapCount
  <2> QED BY <2>1, <2>2, <2>3, <2>4, <2>5 DEF Next
<1> QED BY <1>1, <1>2, PTL DEF Spec

(* Whatever earlier messages left in the scratch, the keys a message   *)
(* gets past are pairwise distinct: validate_fields reads no entry it has  *)
(* not written for this message.                                     *)
THEOREM ComparedKeysAreDistinct == Spec => []KeysDistinct
<1>1. KeysInv => KeysDistinct
  BY DEF KeysInv
<1> QED BY <1>1, KeysInvariant, PTL
-----------------------------------------------------------------------------
(* A map that passes without a scratch has two bytes for every key.        *)
LEMMA ValidHasRoom ==
  ASSUME NEW f \in Seq(Byte), ValidWithoutScratch(f)
  PROVE  MapCount(f) <= (Len(f) + 1 - FirstEntry(f)) \div 2
<1> DEFINE at == KeyPosition(f)
           n  == MapCount(f)
           T  == {i \in Nat : i <= n => at[i + 1] >= FirstEntry(f) + 2 * i}
<1>1. n \in Nat /\ FirstEntry(f) \in Nat
  BY CountIsNat DEF ValidWithoutScratch, FirstEntry, LengthBytes
<1>2. /\ \A i \in 1 .. n : at[i] # Malformed
      /\ at[n + 1] = Len(f) + 1
  BY DEF ValidWithoutScratch
<1>3. /\ at[1] = FirstEntry(f)
      /\ \A i \in Nat \ {0} : /\ at[i] \in Nat
                              /\ at[i + 1] = IF at[i] = Malformed THEN Malformed
                                             ELSE AfterEntry(f, at[i])
  BY KeyWalk
<1> HIDE DEF at, n
<1>4. 0 \in T
  BY <1>1, <1>3
<1>5. ASSUME NEW i \in Nat, i \in T
      PROVE  i + 1 \in T
  <2> SUFFICES ASSUME i + 1 <= n
               PROVE  at[i + 1 + 1] >= FirstEntry(f) + 2 * (i + 1)
    OBVIOUS
  <2>1. i + 1 \in 1 .. n /\ i + 1 \in Nat \ {0} /\ i + 2 \in Nat \ {0}
    BY <1>1
  <2>2. PICK x : x = at[i + 1]
    OBVIOUS
  <2>3. x \in Nat /\ x # Malformed /\ x >= FirstEntry(f) + 2 * i
    <3>1. x >= FirstEntry(f) + 2 * i
      BY <1>1, <1>5, <2>2
    <3>2. x \in Nat
      BY <1>3, <2>1, <2>2
    <3>3. x # Malformed
      BY <1>2, <2>1, <2>2
    <3> QED BY <3>1, <3>2, <3>3
  <2>4. at[i + 1 + 1] = AfterEntry(f, x)
    BY <1>3, <2>1, <2>2, <2>3
  <2>5. at[i + 1 + 1] # Malformed
    <3>1. CASE i + 2 <= n
      <4>1. i + 1 + 1 \in 1 .. n
        BY <1>1, <3>1
      <4> QED BY <1>2, <4>1
    <3>2. CASE i + 1 = n
      BY <1>2, <3>2 DEF Malformed
    <3> QED BY <1>1, <3>1, <3>2
  <2>6. AfterEntry(f, x) \in x + 2 .. Len(f) + 1
    BY <2>3, <2>4, <2>5, EntryEnds DEF Position, Malformed
  <2> QED BY <1>1, <2>3, <2>4, <2>6
<1>6. n \in T
  <2> HIDE DEF T
  <2>1. Nat \subseteq T
    BY <1>4, <1>5, SetInduction
  <2> QED BY <1>1, <2>1
<1>7. Len(f) + 1 >= FirstEntry(f) + 2 * n
  BY <1>1, <1>2, <1>6
<1> QED BY <1>1, <1>7 DEF n

-----------------------------------------------------------------------------
Verdicts == {"idle", "checking", "valid", "malformed", "duplicate", "too many"}

(* The loop stands where the stateless walk stands, and the scratch holds  *)
(* the ids of the keys before that.                                        *)
OnTheWalk ==
  LET at == KeyPosition(fields)
  IN  /\ pos = at[index + 1]
      /\ \A i \in 1 .. index : /\ at[i] # Malformed /\ HasFieldId(fields, at[i])
                               /\ scratch[i] = FieldId(fields, at[i])

(* The inductive invariant: what the loop has found so far is what the     *)
(* stateless check would find, and so is what it decided.                  *)
ScratchInv ==
  /\ TypeOK /\ KeysInv
  /\ verdict \in {"checking", "duplicate"} => OnTheWalk
  /\ verdict = "duplicate" => HasFieldId(fields, pos) /\ FieldId(fields, pos) \in Stored
  /\ verdict = "valid" /\ HasMapHeader(fields) => ValidWithoutScratch(fields)
  /\ verdict \in {"malformed", "duplicate", "too many"} => ~ValidWithoutScratch(fields)

(* The first entry of a map follows its header.                            *)
LEMMA FirstEntryInside ==
  ASSUME NEW f \in Seq(Byte), HasMapHeader(f)
  PROVE  FirstEntry(f) \in 1 .. Len(f) + 1
  BY DEF HasMapHeader, FirstEntry, LengthBytes

(* The header decides as the stateless check does.                         *)
LEMMA BeginScratch ==
  ASSUME ScratchInv, NEW f \in Messages, Begin(f)
  PROVE  ScratchInv'
<1>1. fields' = f /\ index' = 0 /\ UNCHANGED scratch /\ f \in Seq(Byte)
  BY DEF Begin
<1>2. KeysInv'
  BY BeginKeeps DEF ScratchInv
<1>3. CASE ~HasMapHeader(f)
  <2>1. verdict' = "valid" /\ pos' = 1
    BY <1>3 DEF Begin
  <2>2. TypeOK'
    <3>1. fields' \in Messages /\ Len(fields') \in Nat /\ pos' = 1
      BY <1>1, <2>1
    <3>2. scratch' = scratch /\ DOMAIN scratch = 1 .. MaxFields
      BY <1>1 DEF TypeOK, ScratchInv
    <3> QED BY <1>1, <2>1, <3>1, <3>2 DEF TypeOK
  <2> QED BY <1>1, <1>2, <1>3, <2>1, <2>2 DEF ScratchInv, HasMapHeader
<1>4. CASE HasMapHeader(f)
  <2>1. pos' = FirstEntry(f) /\ verdict' = HeaderVerdict(f, FirstEntry(f))
    BY <1>4 DEF Begin
  <2>2. verdict' \in {"checking", "malformed", "too many"}
    BY <2>1 DEF HeaderVerdict
  <2>3. TypeOK'
    <3>1. fields' \in Messages /\ pos' \in 1 .. Len(fields') + 1
      BY <1>1, <1>4, <2>1, FirstEntryInside
    <3>2. scratch' = scratch /\ DOMAIN scratch = 1 .. MaxFields
      BY <1>1 DEF TypeOK, ScratchInv
    <3>3. index' \in 0 .. MaxFields
      BY <1>1
    <3> QED BY <2>2, <3>1, <3>2, <3>3 DEF TypeOK
  <2>4. MapCount(f) \in Nat /\ FirstEntry(f) \in Nat
    BY <1>1, <1>4, CountIsNat, FirstEntryInside
  <2>5. verdict' # "checking" => ~ValidWithoutScratch(f)
    <3>1. CASE MapCount(f) > MaxFields
      BY <2>4, <3>1 DEF ValidWithoutScratch
    <3>2. CASE MapCount(f) > (Len(f) + 1 - FirstEntry(f)) \div 2
      BY <1>1, <2>4, <3>2, ValidHasRoom
    <3> QED BY <2>1, <3>1, <3>2 DEF HeaderVerdict
  <2>6. OnTheWalk'
    <3>1. KeyPosition(f)[0 + 1] = FirstEntry(f)
      BY <1>1, KeyWalk
    <3> QED BY <1>1, <2>1, <3>1 DEF OnTheWalk
  <2>7. ValidWithoutScratch(fields') <=> ValidWithoutScratch(f)
    BY <1>1
  <2> QED BY <1>1, <1>2, <2>2, <2>3, <2>5, <2>6, <2>7 DEF ScratchInv, ValidWithoutScratch
<1> QED BY <1>3, <1>4

(* A turn of the loop finds what the stateless check finds at this key.    *)
LEMMA CheckScratch ==
  ASSUME ScratchInv, Check
  PROVE  ScratchInv'
<1> DEFINE n == MapCount(fields)
<1>1. /\ verdict = "checking" /\ index < n /\ fields' = fields
      /\ index \in Nat /\ n \in Nat /\ n <= MaxFields
      /\ HasMapHeader(fields) /\ fields \in Seq(Byte)
      /\ pos \in 1 .. Len(fields) + 1 /\ pos \in Position
      /\ DOMAIN scratch = 1 .. MaxFields /\ fields \in Messages \cup {<<>>}
  <2>1. pos \in 1 .. Len(fields) + 1 /\ fields \in Seq(Byte)
    BY DEF ScratchInv, TypeOK, KeysInv
  <2> QED BY <2>1, CountIsNat DEF Check, ScratchInv, KeysInv, TypeOK, Position
<1>2. KeysInv'
  BY CheckKeeps DEF ScratchInv
<1>3. PICK at : at = KeyPosition(fields)
  OBVIOUS
<1>4. /\ pos = at[index + 1]
      /\ \A i \in 1 .. index : /\ at[i] # Malformed /\ HasFieldId(fields, at[i])
                               /\ scratch[i] = FieldId(fields, at[i])
  BY <1>1, <1>3 DEF ScratchInv, OnTheWalk
<1>5. at[index + 2] = AfterEntry(fields, pos)
  <2>1. index + 1 \in Nat \ {0} /\ index + 1 + 1 = index + 2
    BY <1>1
  <2>2. pos # Malformed
    BY <1>1 DEF Position, Malformed
  <2> QED BY <1>1, <1>3, <1>4, <2>1, <2>2, KeyWalk
<1>6. ValidWithoutScratch(fields) =>
        /\ \A i \in 1 .. n : /\ HasFieldId(fields, at[i]) /\ at[i] # Malformed
                             /\ \A j \in 1 .. i - 1 : FieldId(fields, at[j]) # FieldId(fields, at[i])
        /\ at[n + 1] # Malformed
  BY <1>1, <1>3 DEF ValidWithoutScratch, Malformed
<1> HIDE DEF n
<1>7. index + 1 \in 1 .. n
  BY <1>1
<1>8. CASE ~HasFieldId(fields, pos)
  <2>1. verdict' = "malformed" /\ UNCHANGED <<scratch, pos, index, fields>>
    BY <1>8 DEF Check
  <2>2. ~ValidWithoutScratch(fields)
    BY <1>4, <1>6, <1>7, <1>8
  <2>3. TypeOK'
    BY <2>1 DEF TypeOK, ScratchInv
  <2> QED BY <1>2, <2>1, <2>2, <2>3 DEF ScratchInv, ValidWithoutScratch
<1>9. CASE HasFieldId(fields, pos) /\ FieldId(fields, pos) \in Stored
  <2>1. verdict' = "duplicate" /\ UNCHANGED <<scratch, pos, index, fields>>
    BY <1>9 DEF Check
  <2>2. PICK j \in 1 .. index : FieldId(fields, pos) = FieldId(fields, at[j])
    BY <1>4, <1>9 DEF Stored
  <2>3. j \in 1 .. (index + 1) - 1
    BY <1>1
  <2>4. ~ValidWithoutScratch(fields)
    BY <1>4, <1>6, <1>7, <2>2, <2>3
  <2>5. TypeOK'
    BY <2>1 DEF TypeOK, ScratchInv
  <2>6. OnTheWalk'
    BY <1>1, <2>1 DEF ScratchInv, OnTheWalk
  <2>7. (HasFieldId(fields, pos) /\ FieldId(fields, pos) \in Stored)'
    <3>1. HasFieldId(fields, pos)' <=> HasFieldId(fields, pos)
      BY <2>1 DEF HasFieldId
    <3>2. FieldId(fields, pos)' = FieldId(fields, pos)
      BY <2>1 DEF FieldId
    <3>3. Stored' = Stored
      BY <2>1 DEF Stored
    <3> QED BY <1>9, <3>1, <3>2, <3>3
  <2>8. ValidWithoutScratch(fields)' <=> ValidWithoutScratch(fields)
    BY <2>1 DEF ValidWithoutScratch
  <2>9. verdict' # "valid"
    BY <2>1
  <2> QED BY <1>2, <2>4, <2>5, <2>6, <2>7, <2>8, <2>9 DEF ScratchInv
<1>10. CASE HasFieldId(fields, pos) /\ FieldId(fields, pos) \notin Stored
  <2> DEFINE id == FieldId(fields, pos)
             end == AfterEntry(fields, pos)
  <2>1. /\ scratch' = [scratch EXCEPT ![index + 1] = id]
        /\ IF end = Malformed
           THEN verdict' = "malformed" /\ UNCHANGED <<pos, index>>
           ELSE pos' = end /\ index' = index + 1 /\ UNCHANGED verdict
    BY <1>10 DEF Check
  <2> HIDE DEF id, end
  <2>2. DOMAIN scratch' = 1 .. MaxFields
    BY <1>1, <2>1
  <2>3. CASE end = Malformed
    <3>1. verdict' = "malformed" /\ UNCHANGED <<pos, index, fields>>
      BY <1>1, <2>1, <2>3
    <3>2. index + 2 \in 1 .. n \/ index + 2 = n + 1
      BY <1>1
    <3>3. ~ValidWithoutScratch(fields)
      BY <1>5, <1>6, <2>3, <3>2 DEF end
    <3>4. TypeOK'
      BY <2>2, <3>1 DEF TypeOK, ScratchInv
    <3> QED BY <1>2, <3>1, <3>3, <3>4 DEF ScratchInv, ValidWithoutScratch
  <2>4. CASE end # Malformed
    <3>1. pos' = end /\ index' = index + 1 /\ verdict' = "checking"
      BY <1>1, <2>1, <2>4
    <3>2. end \in pos + 2 .. Len(fields) + 1
      BY <1>1, <2>4, EntryEnds DEF end
    <3>3. TypeOK'
      <4>1. pos' \in 1 .. Len(fields') + 1
        BY <1>1, <3>1, <3>2
      <4>2. index' \in 0 .. MaxFields
        BY <1>1, <3>1
      <4> QED BY <1>1, <2>2, <3>1, <4>1, <4>2 DEF TypeOK
    <3>4. OnTheWalk'
      <4>1. index + 1 \in DOMAIN scratch
        BY <1>1
      <4>2. scratch'[index + 1] = id /\ \A i \in 1 .. index : scratch'[i] = scratch[i]
        BY <1>1, <2>1, <4>1
      <4>3. /\ at[index + 1] # Malformed /\ HasFieldId(fields, at[index + 1])
            /\ scratch'[index + 1] = FieldId(fields, at[index + 1])
        BY <1>1, <1>4, <1>10, <4>2 DEF id, Position, Malformed
      <4>4. \A i \in 1 .. index + 1 :
              /\ at[i] # Malformed /\ HasFieldId(fields, at[i])
              /\ scratch'[i] = FieldId(fields, at[i])
        <5>1. \A i \in 1 .. index + 1 : i \in 1 .. index \/ i = index + 1
          BY <1>1
        <5> QED BY <1>4, <4>2, <4>3, <5>1
      <4>5. at[(index + 1) + 1] = end
        BY <1>1, <1>5 DEF end
      <4> QED BY <1>1, <1>3, <3>1, <4>4, <4>5 DEF OnTheWalk
    <3> QED BY <1>2, <3>1, <3>3, <3>4 DEF ScratchInv
  <2> QED BY <2>3, <2>4
<1> QED BY <1>8, <1>9, <1>10

(* Where the loop ends, every key passed and nothing may follow.           *)
LEMMA FinishScratch ==
  ASSUME ScratchInv, Finish
  PROVE  ScratchInv'
<1> DEFINE n == MapCount(fields)
<1>1. /\ verdict = "checking" /\ index = n /\ UNCHANGED <<scratch, fields, pos, index>>
      /\ index \in Nat /\ n <= MaxFields /\ HasMapHeader(fields) /\ fields \in Seq(Byte)
      /\ KeysDistinct
  BY DEF Finish, ScratchInv, KeysInv
<1>2. verdict' = IF pos = Len(fields) + 1 THEN "valid" ELSE "malformed"
  BY DEF Finish
<1>3. PICK at : at = KeyPosition(fields)
  OBVIOUS
<1>4. /\ pos = at[index + 1]
      /\ \A i \in 1 .. index : /\ at[i] # Malformed /\ HasFieldId(fields, at[i])
                               /\ scratch[i] = FieldId(fields, at[i])
  BY <1>1, <1>3 DEF ScratchInv, OnTheWalk
<1>5. \A i \in 1 .. n : /\ at[i] # Malformed /\ HasFieldId(fields, at[i])
                        /\ \A j \in 1 .. i - 1 : FieldId(fields, at[j]) # FieldId(fields, at[i])
  <2> SUFFICES ASSUME NEW i \in 1 .. n, NEW j \in 1 .. i - 1
               PROVE  FieldId(fields, at[j]) # FieldId(fields, at[i])
    BY <1>1, <1>4
  <2>1. i \in 1 .. index /\ j \in 1 .. index /\ i # j
    BY <1>1
  <2> QED BY <1>1, <1>4, <2>1 DEF KeysDistinct
<1>6. ValidWithoutScratch(fields) <=> pos = Len(fields) + 1
  BY <1>1, <1>3, <1>4, <1>5 DEF ValidWithoutScratch
<1>7. TypeOK' /\ KeysInv'
  BY <1>1, <1>2 DEF TypeOK, ScratchInv, KeysInv, KeysDistinct
<1>8. ValidWithoutScratch(fields)' <=> ValidWithoutScratch(fields)
  BY <1>1 DEF ValidWithoutScratch
<1> QED BY <1>1, <1>2, <1>6, <1>7, <1>8 DEF ScratchInv

LEMMA ScratchInvariant == Spec => []ScratchInv
<1>1. Init => ScratchInv
  BY DEF Init, ScratchInv, TypeOK, KeysInv, KeysDistinct
<1>2. ScratchInv /\ [Next]_vars => ScratchInv'
  <2> SUFFICES ASSUME ScratchInv, [Next]_vars
               PROVE  ScratchInv'
    OBVIOUS
  <2>1. CASE Check
    BY <2>1, CheckScratch
  <2>2. CASE Finish
    BY <2>2, FinishScratch
  <2>3. CASE Drop
    <3>1. /\ fields' = <<>> /\ pos' = 1 /\ index' = 0 /\ verdict' = "idle"
          /\ scratch' = scratch /\ DOMAIN scratch = 1 .. MaxFields
      BY <2>3 DEF Drop, ScratchInv, KeysInv
    <3>2. TypeOK'
      BY <3>1 DEF TypeOK
    <3>3. KeysInv'
      BY <3>1 DEF KeysInv, KeysDistinct
    <3> QED BY <3>1, <3>2, <3>3 DEF ScratchInv
  <2>4. ASSUME NEW f \in Messages, Begin(f)
        PROVE  ScratchInv'
    BY <2>4, BeginScratch
  <2>5. CASE UNCHANGED vars
    <3>1. UNCHANGED <<scratch, fields, pos, index, verdict>>
      BY <2>5 DEF vars
    <3>2. TypeOK' /\ KeysInv' /\ (OnTheWalk' <=> OnTheWalk)
      BY <3>1 DEF ScratchInv, TypeOK, KeysInv, KeysDistinct, OnTheWalk
    <3>3. /\ HasMapHeader(fields)' <=> HasMapHeader(fields)
          /\ ValidWithoutScratch(fields)' <=> ValidWithoutScratch(fields)
          /\ (HasFieldId(fields, pos) /\ FieldId(fields, pos) \in Stored)'
               <=> HasFieldId(fields, pos) /\ FieldId(fields, pos) \in Stored
      BY <3>1 DEF HasMapHeader, ValidWithoutScratch, HasFieldId, FieldId, Stored
    <3> QED BY <3>1, <3>2, <3>3 DEF ScratchInv
  <2> QED BY <2>1, <2>2, <2>3, <2>4, <2>5 DEF Next
<1> QED BY <1>1, <1>2, PTL DEF Spec

(* The types: validate_fields never indexes its scratch beyond MAX_FIELDS  *)
(* nor its slice beyond the end, whatever the messages.                    *)
THEOREM ScratchTypes == Spec => []TypeOK
<1>1. ScratchInv => TypeOK
  BY DEF ScratchInv
<1> QED BY <1>1, ScratchInvariant, PTL

(* What the scratch held before never decides: validate_fields accepts     *)
(* exactly the maps that validate_fields_without_scratch accepts, although *)
(* one keeps the keys and the other walks to them again.                   *)
THEOREM BothChecksAgree == Spec => []ScratchIsIrrelevant
<1>1. ScratchInv => ScratchIsIrrelevant
  BY DEF ScratchInv, TypeOK, ScratchIsIrrelevant
<1> QED BY <1>1, ScratchInvariant, PTL

(* In a map that passes, the entry of a key is the only one that has it.   *)
LEMMA OneEntryPerKey ==
  ASSUME NEW f \in Seq(Byte), ValidWithoutScratch(f), NEW i \in 1 .. MapCount(f)
  PROVE  FieldValueId(f, FieldId(f, KeyPosition(f)[i]))
           = SubSeq(f, AfterKey(f, KeyPosition(f)[i]), KeyPosition(f)[i + 1] - 1)
<1>1. PICK at : at = KeyPosition(f)
  OBVIOUS
<1> DEFINE n == MapCount(f)
           id == FieldId(f, at[i])
           holds == {k \in 1 .. n : FieldId(f, at[k]) = id}
<1>2. n \in Nat
  BY CountIsNat DEF ValidWithoutScratch
<1>3. \A k \in 1 .. n : \A j \in 1 .. k - 1 : FieldId(f, at[j]) # FieldId(f, at[k])
  BY <1>1 DEF ValidWithoutScratch
<1> HIDE DEF n
<1>4. holds = {i}
  <2> SUFFICES ASSUME NEW k \in 1 .. n, FieldId(f, at[k]) = id
               PROVE  k = i
    BY DEF n
  <2>1. i \in 1 .. n
    BY DEF n
  <2>2. k \in 1 .. i - 1 \/ i \in 1 .. k - 1 \/ k = i
    BY <1>2, <2>1
  <2> QED BY <1>3, <2>1, <2>2
<1> HIDE DEF holds
<1>5. (CHOOSE k \in holds : \A j \in holds : k <= j) = i
  <2>1. i <= i
    OBVIOUS
  <2> QED BY <1>4, <2>1
<1>6. FieldValueId(f, id) =
        IF ~ValidWithoutScratch(f) \/ holds = {} THEN <<>>
        ELSE LET k == CHOOSE k \in holds : \A j \in holds : k <= j
             IN  SubSeq(f, AfterKey(f, at[k]), at[k + 1] - 1)
  BY <1>1 DEF FieldValueId, holds, n
<1> QED BY <1>1, <1>4, <1>5, <1>6

-----------------------------------------------------------------------------
(* One more byte behind an integer shifts it up.                           *)
Extends(n, m, b) ==
  n \in Int /\ n % 256 = b /\ \A k \in 0 .. 7 : Shifted(n)[k + 1] = Shifted(m)[k]
LEMMA ShiftedBack ==
  ASSUME NEW m \in Int, NEW b \in Byte
  PROVE  \E n : Extends(n, m, b)
<1>0. PICK n : n = 256 * m + b
  OBVIOUS
<1>1. n \in Int /\ n \div 256 = m /\ n % 256 = b
  BY <1>0 DEF Byte
<1> DEFINE T == {k \in Nat : k <= 7 => Shifted(n)[k + 1] = Shifted(m)[k]}
<1>2. 0 \in T
  <2>1. Shifted(n)[0] = n /\ Shifted(m)[0] = m
    BY <1>1, ShiftSteps
  <2>2. 0 \in 0 .. 7
    OBVIOUS
  <2>3. Shifted(n)[0 + 1] = Shifted(n)[0] \div 256
    <3>1. n \in Int
      BY <1>1
    <3>2. \A j \in 0 .. 7 : Shifted(n)[j + 1] = Shifted(n)[j] \div 256
      BY <3>1, ShiftSteps, Zenon
    <3> QED BY <2>2, <3>2
  <2> QED BY <1>1, <2>1, <2>3
<1>3. ASSUME NEW k \in Nat, k \in T PROVE k + 1 \in T
  <2> SUFFICES ASSUME k + 1 <= 7 PROVE Shifted(n)[(k + 1) + 1] = Shifted(m)[k + 1]
    OBVIOUS
  <2>1. k \in 0 .. 7 /\ k + 1 \in 0 .. 7 /\ k <= 7
    OBVIOUS
  <2>2. Shifted(n)[(k + 1) + 1] = Shifted(n)[k + 1] \div 256
    <3>1. \A j \in 0 .. 7 : Shifted(n)[j + 1] = Shifted(n)[j] \div 256
      <4>1. n \in Int
        BY <1>1
      <4> QED BY <4>1, ShiftSteps, Zenon
    <3> QED BY <2>1, <3>1
  <2>3. Shifted(m)[k + 1] = Shifted(m)[k] \div 256
    <3>1. \A j \in 0 .. 7 : Shifted(m)[j + 1] = Shifted(m)[j] \div 256
      BY ShiftSteps
    <3> QED BY <2>1, <3>1
  <2> QED BY <1>3, <2>1, <2>2, <2>3
<1> HIDE DEF T
<1>4. Nat \subseteq T
  BY <1>2, <1>3, SetInduction
<1>5. ASSUME NEW k \in 0 .. 7 PROVE Shifted(n)[k + 1] = Shifted(m)[k]
  BY <1>4 DEF T
<1> QED BY <1>1, <1>5 DEF Extends

(* Any bytes and any sign are the two's complement of an integer.          *)
IsReadFrom(n, f, p, w, z) ==
  n \in Int /\ Shifted(n)[w] = z /\ \A i \in 1 .. w : LowByte(Shifted(n)[w - i]) = f[p + i - 1]
LEMMA SomeInteger ==
  ASSUME NEW f \in Seq(Byte), NEW p \in Position, NEW z \in {0, -1},
         NEW w \in 0 .. 8, p + w <= Len(f) + 1
  PROVE  \E n : IsReadFrom(n, f, p, w, z)
<1> DEFINE T == {k \in Nat : k <= w => \E n : IsReadFrom(n, f, p, k, z)}
<1>1. 0 \in T
  <2>1. z \in Int /\ Shifted(z)[0] = z
    BY ShiftSteps
  <2>2. IsReadFrom(z, f, p, 0, z)
    BY <2>1 DEF IsReadFrom
  <2> QED BY <2>2
<1>2. ASSUME NEW k \in Nat, k \in T PROVE k + 1 \in T
  <2> SUFFICES ASSUME k + 1 <= w PROVE \E n : IsReadFrom(n, f, p, k + 1, z)
    OBVIOUS
  <2>1. k <= w /\ k \in 0 .. 7
    OBVIOUS
  <2>2. PICK m : IsReadFrom(m, f, p, k, z)
    BY <1>2, <2>1
  <2>3. PICK b : b = f[p + k]
    OBVIOUS
  <2>4. b \in Byte
    <3>1. p + k \in 1 .. Len(f)
      BY <2>1 DEF Position
    <3> QED BY <2>3, <3>1
  <2>5. m \in Int
    BY <2>2 DEF IsReadFrom
  <2>6. PICK n : Extends(n, m, b)
    BY <2>4, <2>5, ShiftedBack
  <2>7. n \in Int /\ n % 256 = b /\ \A j \in 0 .. 7 : Shifted(n)[j + 1] = Shifted(m)[j]
    BY <2>6 DEF Extends
  <2>8. Shifted(n)[k + 1] = z
    BY <2>1, <2>2, <2>7 DEF IsReadFrom
  <2>9. ASSUME NEW i \in 1 .. k + 1
        PROVE  LowByte(Shifted(n)[k + 1 - i]) = f[p + i - 1]
    <3>1. CASE i = k + 1
      <4>1. k + 1 - i = 0 /\ p + i - 1 = p + k
        BY <3>1 DEF Position
      <4>2. Shifted(n)[0] = n
        BY <2>7, ShiftSteps
      <4> QED BY <2>3, <2>7, <4>1, <4>2 DEF LowByte
    <3>2. CASE i # k + 1
      <4>1. i \in 1 .. k /\ k - i \in 0 .. 7 /\ (k - i) + 1 = k + 1 - i
        BY <2>1, <3>2
      <4>2. Shifted(n)[k + 1 - i] = Shifted(m)[k - i]
        <5>1. Shifted(n)[(k - i) + 1] = Shifted(m)[k - i]
          BY <2>7, <4>1
        <5> QED BY <4>1, <5>1
      <4>3. LowByte(Shifted(m)[k - i]) = f[p + i - 1]
        BY <2>2, <4>1 DEF IsReadFrom
      <4> QED BY <4>2, <4>3
    <3> QED BY <3>1, <3>2
  <2>10. IsReadFrom(n, f, p, k + 1, z)
    BY <2>7, <2>8, <2>9 DEF IsReadFrom
  <2> QED BY <2>10
<1> HIDE DEF T
<1>3. w \in T
  <2>1. Nat \subseteq T
    BY <1>1, <1>2, SetInduction
  <2> QED BY <2>1
<1> QED BY <1>3 DEF T

(* Every key that is taken for an integer is an encoding of one.           *)
LEMMA KeyMeansSome ==
  ASSUME NEW f \in Seq(Byte), NEW p \in Position, HasFieldId(f, p)
  PROVE  \E n : EncodesInteger(SubSeq(f, p, AfterKey(f, p) - 1), n)
<1>1. PICK c, w, u : c = f[p] /\ w = NumberBody(c) /\ u = SubSeq(f, p, AfterKey(f, p) - 1)
  OBVIOUS
<1>2. p \in Nat /\ p >= 1 /\ p <= Len(f) /\ IsInteger(c) /\ p + w <= Len(f) /\ Len(f) \in Nat
  BY <1>1 DEF HasFieldId, Position
<1>3. c \in Byte /\ c \in Int
  <2>1. c \in Byte
    BY <1>1, <1>2
  <2> QED BY <2>1 DEF Byte
<1>4. w \in {0, 1, 2, 4, 8}
  BY <1>1, <1>3, CodeWidth
<1>5. u \in Seq(Byte) /\ Len(u) = 1 + w /\ \A i \in 1 .. 1 + w : u[i] = f[p + i - 1]
  <2>0. AfterKey(f, p) = p + 1 + w /\ w \in Nat
    BY <1>1, <1>4 DEF AfterKey
  <2>1. PICK q \in Nat : q = AfterKey(f, p)
    BY <1>2, <2>0
  <2>2. q = p + 1 + w /\ p <= q /\ q <= Len(f) + 1 /\ q - p = 1 + w
    BY <1>2, <2>0, <2>1
  <2> QED BY <1>1, <2>1, <2>2, PartOf
<1>6. CASE w = 0
  <2>1. c \in 0 .. 127 \cup 224 .. 255
    BY <1>1, <1>2, <1>3, <1>6, CodeWidth
  <2>2. u = <<c>>
    <3>1. Len(<<c>>) = 1 /\ <<c>>[1] = c /\ <<c>> \in Seq(Byte)
      BY <1>3
    <3>2. u[1] = c /\ Len(u) = 1
      <4>1. 1 \in 1 .. 1 + w /\ p + 1 - 1 = p
        BY <1>2, <1>6
      <4> QED BY <1>1, <1>5, <1>6, <4>1
    <3>3. \A i \in 1 .. 1 : u[i] = <<c>>[i]
      BY <3>1, <3>2
    <3> QED BY <1>5, <3>1, <3>2, <3>3, SeqEqual
  <2>3. CASE c \in 0 .. 127
    <3>1. EncodesInteger(u, c)
      BY <1>3, <2>2, <2>3 DEF EncodesInteger
    <3> QED BY <1>1, <3>1
  <2>4. CASE c \in 224 .. 255
    <3>1. PICK n : n = c - 256
      OBVIOUS
    <3>2. n \in Int /\ n \in -32 .. -1 /\ 256 + n = c
      BY <2>4, <3>1
    <3>3. EncodesInteger(u, n)
      BY <2>2, <3>2 DEF EncodesInteger
    <3> QED BY <1>1, <3>3
  <2> QED BY <2>1, <2>3, <2>4
<1>7. CASE w # 0
  <2>1. c \in UintCodes \cup IntCodes /\ w \in 1 .. 8 /\ w \in 0 .. 9
    BY <1>1, <1>2, <1>3, <1>4, <1>7, CodeWidth
  <2>2. PICK z \in {0, -1} : z = IF f[p + 1] >= 128 /\ c \in IntCodes THEN -1 ELSE 0
    OBVIOUS
  <2>3. p + 1 \in Position /\ (p + 1) + w <= Len(f) + 1
    BY <1>2, <1>4 DEF Position
  <2>4. PICK n : IsReadFrom(n, f, p + 1, w, z)
    <3>1. PICK q \in Position : q = p + 1
      BY <2>3
    <3>2. w \in 0 .. 8 /\ q + w <= Len(f) + 1
      BY <2>1, <2>3, <3>1
    <3>3. \E n : IsReadFrom(n, f, q, w, z)
      BY <2>2, <3>2, SomeInteger, Zenon
    <3> QED BY <3>1, <3>3
  <2>5. /\ n \in Int /\ Shifted(n)[w] = z
        /\ \A i \in 1 .. w : LowByte(Shifted(n)[w - i]) = f[(p + 1) + i - 1]
    BY <2>4 DEF IsReadFrom
  <2>6. PICK o : o = <<c>> \o Octets(n, w)
    OBVIOUS
  <2>7. /\ o \in Seq(Byte) /\ Len(o) = 1 + w /\ o[1] = c
        /\ \A i \in 1 .. w : o[1 + i] = LowByte(Shifted(n)[w - i])
    <3>1. IsCoded(<<c>> \o Octets(n, w), c, n, w)
      BY <1>3, <2>1, <2>5, CodedBytes
    <3> QED BY <2>6, <3>1 DEF IsCoded
  <2>8. u = o
    <3>1. ASSUME NEW i \in 1 .. 1 + w PROVE u[i] = o[i]
      <4>1. CASE i = 1
        <5>1. u[i] = f[p + i - 1] /\ p + i - 1 = p
          BY <1>2, <1>5, <4>1
        <5> QED BY <1>1, <2>7, <4>1, <5>1
      <4>2. CASE i # 1
        <5>1. PICK j \in 1 .. w : i = 1 + j
          <6>1. i - 1 \in 1 .. w /\ i = 1 + (i - 1)
            BY <2>1, <4>2
          <6> QED BY <6>1
        <5>2. p + i - 1 = (p + 1) + j - 1
          BY <1>2, <5>1
        <5>3. o[1 + j] = f[(p + 1) + j - 1]
          BY <2>5, <2>7
        <5> QED BY <1>5, <5>1, <5>2, <5>3
      <4> QED BY <4>1, <4>2
    <3> QED BY <1>5, <2>7, <3>1, SeqEqual
  <2>9. Octets(n, w)[1] = f[p + 1]
    <3>1. 1 \in 1 .. w /\ (p + 1) + 1 - 1 = p + 1
      BY <1>2, <2>1
    <3>2. Octets(n, w)[1] = LowByte(Shifted(n)[w - 1])
      BY <2>1, <2>5, <3>1, OctetsAre DEF AreOctets
    <3> QED BY <2>5, <3>1, <3>2
  <2>10. EncodesInteger(u, n)
    <3>1. CASE c \in UintCodes
      <4>1. Shifted(n)[NumberBody(c)] = 0 /\ u = <<c>> \o Octets(n, NumberBody(c))
        <5>1. c \notin IntCodes
          BY <3>1 DEF UintCodes, IntCodes
        <5> QED BY <1>1, <2>2, <2>5, <2>6, <2>8, <5>1
      <4> QED BY <2>5, <3>1, <4>1 DEF EncodesInteger
    <3>2. CASE c \in IntCodes
      <4>1. /\ Shifted(n)[NumberBody(c)] = IF Octets(n, NumberBody(c))[1] >= 128 THEN -1 ELSE 0
            /\ u = <<c>> \o Octets(n, NumberBody(c))
        BY <1>1, <2>2, <2>5, <2>6, <2>8, <2>9, <3>2
      <4> QED BY <2>5, <3>2, <4>1 DEF EncodesInteger
    <3> QED BY <2>1, <3>1, <3>2
  <2> QED BY <1>1, <2>10
<1> QED BY <1>6, <1>7

(* The reader finds the integer that an encoding means, and no other.      *)
LEMMA MeaningRead ==
  ASSUME NEW f \in Seq(Byte), NEW p \in Position, NEW n, NEW last \in 1 .. Len(f),
         EncodesInteger(SubSeq(f, p, last), n)
  PROVE  /\ HasFieldId(f, p) /\ AfterKey(f, p) = last + 1 /\ FieldId(f, p) = Octets(n, 9)
         /\ n \in Int /\ Shifted(n)[8] \in {0, -1}
<1>1. PICK u : u = SubSeq(f, p, last)
  OBVIOUS
<1>2. u \in Seq(Byte) /\ HoldsInteger(u, n)
  BY <1>1, IntegerHeld
<1>3. p \in Nat /\ 1 <= p /\ last \in Nat /\ Len(f) \in Nat /\ last <= Len(f)
  BY DEF Position
<1>4. p <= last
  <2> SUFFICES ASSUME ~ (p <= last) PROVE FALSE
    OBVIOUS
  <2>1. u = <<>>
    BY <1>1, <1>3
  <2> QED BY <1>2, <2>1 DEF HoldsInteger
<1>5. Len(u) = last + 1 - p /\ LiesIn(u, f, p)
  <2>1. PICK q \in Nat : q = last + 1
    BY <1>3
  <2>2. q - 1 = last /\ p <= q /\ q <= Len(f) + 1 /\ p + (q - p) = q
    BY <1>3, <1>4, <2>1
  <2>3. Len(u) = q - p /\ \A i \in 1 .. q - p : u[i] = f[p + i - 1]
    BY <1>1, <2>2, PartOf
  <2>4. Len(u) = last + 1 - p /\ p + Len(u) <= Len(f) + 1
    BY <1>3, <2>1, <2>2, <2>3
  <2>5. \A i \in 1 .. Len(u) : f[p + i - 1] = u[i]
    BY <2>3
  <2> QED BY <2>4, <2>5 DEF LiesIn
<1>6. HasFieldId(f, p) /\ AfterKey(f, p) = p + Len(u) /\ FieldId(f, p) = Octets(n, 9)
  BY <1>2, <1>5, KeyRead
<1>7. p + Len(u) = last + 1
  BY <1>3, <1>5
<1> QED BY <1>2, <1>6, <1>7, HeldFits

(* What a key means is told by the nine bytes that the reader made of it.  *)
LEMMA MeaningFound ==
  ASSUME NEW f \in Seq(Byte), NEW p \in Position, HasFieldId(f, p),
         NEW n \in Ids, FieldId(f, p) = Octets(n, 9)
  PROVE  /\ AfterKey(f, p) - 1 \in 1 .. Len(f)
         /\ EncodesInteger(SubSeq(f, p, AfterKey(f, p) - 1), n)
<1>1. PICK last : last = AfterKey(f, p) - 1
  OBVIOUS
<1>2. last \in 1 .. Len(f)
  <2>1. AfterKey(f, p) \in p + 1 .. Len(f) + 1 /\ p \in Nat /\ p >= 1 /\ Len(f) \in Nat
    BY KeyEnds DEF Position
  <2> QED BY <1>1, <2>1
<1>3. PICK m : EncodesInteger(SubSeq(f, p, last), m)
  BY <1>1, KeyMeansSome
<1>4. FieldId(f, p) = Octets(m, 9) /\ m \in Int /\ Shifted(m)[8] \in {0, -1}
  BY <1>2, <1>3, MeaningRead
<1>5. m = n
  BY <1>4, IdsAssumption, OctetsTellApart
<1> QED BY <1>1, <1>2, <1>3, <1>5

(* So the keys of the message in hand mean what their nine bytes tell.     *)
LEMMA MeansById ==
  ASSUME fields \in Seq(Byte), NEW i, NEW n \in Ids,
         NEW p \in Position, p = KeyPosition(fields)[i], HasFieldId(fields, p)
  PROVE  /\ Means(i, n) <=> FieldId(fields, p) = Octets(n, 9)
         /\ Means(i, n) => /\ AfterKey(fields, p) - 1 \in 1 .. Len(fields)
                           /\ Encodes(i, n, AfterKey(fields, p) - 1)
<1>1. ASSUME Means(i, n) PROVE FieldId(fields, p) = Octets(n, 9)
  <2>1. PICK last \in 1 .. Len(fields) : EncodesInteger(SubSeq(fields, p, last), n)
    BY <1>1 DEF Means, Encodes
  <2> QED BY <2>1, MeaningRead
<1>2. ASSUME FieldId(fields, p) = Octets(n, 9)
      PROVE  /\ AfterKey(fields, p) - 1 \in 1 .. Len(fields)
             /\ Encodes(i, n, AfterKey(fields, p) - 1)
  BY <1>2, MeaningFound DEF Encodes
<1> QED BY <1>1, <1>2 DEF Means

(* An accepted map gives to an integer what follows the key that means it. *)
LEMMA LookupMeans ==
  ASSUME fields \in Seq(Byte), ValidWithoutScratch(fields), NEW n \in Ids
  PROVE  IsMeantBy(FieldValueId(fields, Octets(n, 9)), n)
<1>1. PICK at, count : at = KeyPosition(fields) /\ count = MapCount(fields)
  OBVIOUS
<1>2. count \in Nat
  BY <1>1, CountIsNat DEF ValidWithoutScratch
<1>3. ASSUME NEW i \in 1 .. count PROVE at[i] \in Position /\ HasFieldId(fields, at[i])
  <2>1. at[i] # Malformed /\ HasFieldId(fields, at[i])
    BY <1>1, <1>3 DEF ValidWithoutScratch
  <2>2. i \in Nat \ {0}
    BY <1>2, <1>3
  <2>3. at[i] \in Nat
    BY <1>1, <2>2, KeyWalk
  <2> QED BY <2>1, <2>3 DEF Position, Malformed
<1>4. ASSUME NEW i \in 1 .. count
      PROVE  /\ Means(i, n) <=> FieldId(fields, at[i]) = Octets(n, 9)
             /\ Means(i, n) => /\ AfterKey(fields, at[i]) - 1 \in 1 .. Len(fields)
                               /\ Encodes(i, n, AfterKey(fields, at[i]) - 1)
  BY <1>1, <1>3, MeansById
<1>5. CASE \A i \in 1 .. count : ~Means(i, n)
  <2>1. {i \in 1 .. count : FieldId(fields, at[i]) = Octets(n, 9)} = {}
    BY <1>4, <1>5
  <2>2. FieldValueId(fields, Octets(n, 9)) = <<>>
    BY <1>1, <2>1 DEF FieldValueId
  <2> QED BY <1>1, <1>5, <2>2 DEF IsMeantBy
<1>6. ASSUME NEW i \in 1 .. count, Means(i, n)
      PROVE  IsMeantBy(FieldValueId(fields, Octets(n, 9)), n)
  <2>1. FieldId(fields, at[i]) = Octets(n, 9)
    BY <1>4, <1>6
  <2>2. PICK last \in 1 .. Len(fields) :
          last = AfterKey(fields, at[i]) - 1 /\ Encodes(i, n, last)
    BY <1>4, <1>6
  <2>3. FieldValueId(fields, Octets(n, 9)) = SubSeq(fields, last + 1, at[i + 1] - 1)
    <3>1. last + 1 = AfterKey(fields, at[i])
      <4>1. AfterKey(fields, at[i]) \in Int
        <5>1. at[i] \in Position /\ HasFieldId(fields, at[i])
          BY <1>3
        <5>2. AfterKey(fields, at[i]) \in at[i] + 1 .. Len(fields) + 1
          BY <5>1, KeyEnds
        <5> QED BY <5>2
      <4> QED BY <2>2, <4>1
    <3>2. FieldValueId(fields, FieldId(fields, at[i]))
            = SubSeq(fields, AfterKey(fields, at[i]), at[i + 1] - 1)
      BY <1>1, OneEntryPerKey
    <3> QED BY <2>1, <3>1, <3>2
  <2>4. ASSUME NEW j \in 1 .. count, Means(j, n) PROVE j = i
    <3>1. FieldId(fields, at[j]) = FieldId(fields, at[i])
      BY <1>4, <2>1, <2>4
    <3>2. \A k \in 1 .. count : \A l \in 1 .. k - 1 : FieldId(fields, at[l]) # FieldId(fields, at[k])
      BY <1>1 DEF ValidWithoutScratch
    <3>3. j \in 1 .. i - 1 \/ i \in 1 .. j - 1 \/ j = i
      BY <1>2
    <3> QED BY <3>1, <3>2, <3>3
  <2> QED BY <1>1, <2>2, <2>3, <2>4 DEF IsMeantBy
<1> QED BY <1>5, <1>6

(* For every message and every integer that is asked for: no two keys of   *)
(* an accepted map mean the same integer, a lookup finds the entry of the  *)
(* key that means it in whatever encoding, and nothing if none does; and   *)
(* two keys for which a map is refused mean the same.                      *)
THEOREM KeysAreReadAsMeant == Spec => []KeysReadAsMeant
<1>1. ScratchInv => KeysReadAsMeant
  <2> SUFFICES ASSUME ScratchInv, HasMapHeader(fields)
               PROVE  /\ verdict = "valid" =>
                           \A n \in Ids : IsMeantBy(FieldValueId(fields, Octets(n, 9)), n)
                      /\ verdict = "duplicate" =>
                           \E i \in 1 .. index : \A n \in Ids : Means(i, n) <=> Means(index + 1, n)
    BY DEF KeysReadAsMeant
  <2>1. fields \in Seq(Byte) /\ index \in Nat
    BY DEF ScratchInv, KeysInv
  <2>2. verdict = "valid" => \A n \in Ids : IsMeantBy(FieldValueId(fields, Octets(n, 9)), n)
    BY <2>1, LookupMeans DEF ScratchInv
  <2>3. ASSUME verdict = "duplicate"
        PROVE  \E i \in 1 .. index : \A n \in Ids : Means(i, n) <=> Means(index + 1, n)
    <3>1. PICK at : at = KeyPosition(fields)
      OBVIOUS
    <3>2. /\ pos = at[index + 1] /\ pos \in Position
          /\ HasFieldId(fields, pos) /\ FieldId(fields, pos) \in Stored
          /\ \A i \in 1 .. index : /\ at[i] # Malformed /\ HasFieldId(fields, at[i])
                                   /\ scratch[i] = FieldId(fields, at[i])
      BY <2>3, <3>1 DEF ScratchInv, OnTheWalk, TypeOK, Position
    <3>3. PICK i \in 1 .. index : FieldId(fields, at[i]) = FieldId(fields, pos)
      BY <3>2 DEF Stored
    <3>4. at[i] \in Position /\ HasFieldId(fields, at[i])
      <4>1. i \in Nat \ {0}
        BY <2>1
      <4>2. at[i] \in Nat
        BY <2>1, <3>1, <4>1, KeyWalk
      <4> QED BY <3>2, <4>2 DEF Position, Malformed
    <3>5. ASSUME NEW n \in Ids PROVE Means(i, n) <=> Means(index + 1, n)
      <4>1. Means(i, n) <=> FieldId(fields, at[i]) = Octets(n, 9)
        BY <2>1, <3>1, <3>4, MeansById
      <4>2. Means(index + 1, n) <=> FieldId(fields, pos) = Octets(n, 9)
        BY <2>1, <3>1, <3>2, MeansById
      <4> QED BY <3>3, <4>1, <4>2
    <3> QED BY <3>5
  <2> QED BY <2>2, <2>3
<1> QED BY <1>1, ScratchInvariant, PTL
=============================================================================

------------------------- MODULE FieldReaderProofs --------------------------
(***************************************************************************)
(* A ticket once found expired is never found valid again, for every       *)
(* message and every clock that does not step back: numbers are totally    *)
(* compared by their digits, and that order is transitive.                 *)
(*                                                                         *)
(* Audio, tickets and members of schema maps are read as they were meant,  *)
(* for every map that senders may write: every encoding of an integer, a   *)
(* text or a bin is read back wherever it lies, so the walk over the keys  *)
(* finds each entry where it lies and tells the keys apart as the sender   *)
(* does.  No number of 53 digits lies strictly between an integer and what *)
(* it is rounded to, so an expiry is never read as later than a clock that *)
(* it does not lie after.                                                  *)
(***************************************************************************)
EXTENDS FieldReader, Lemmas, FiniteSetTheorems

LEMMA LessTransitive ==
  ASSUME NEW a \in SUBSET Int, NEW b \in SUBSET Int, NEW c \in SUBSET Int,
         Less(a, b), Less(b, c)
  PROVE  Less(a, c)
<1>1. PICK k \in b \ a : \A j \in a \ b : j < k
  BY DEF Less
<1>2. PICK l \in c \ b : \A j \in b \ c : j < l
  BY DEF Less
<1>3. k \in Int /\ l \in Int /\ k # l
  OBVIOUS
<1>4. CASE l < k
  <2>1. k \in c \ a
    BY <1>2, <1>3, <1>4
  <2>2. ASSUME NEW j \in a \ c PROVE j < k
    BY <1>1, <1>2, <1>3, <1>4
  <2> QED BY <2>1, <2>2 DEF Less
<1>5. CASE k < l
  <2>1. l \in c \ a
    BY <1>1, <1>3, <1>5
  <2>2. ASSUME NEW j \in a \ c PROVE j < l
    BY <1>1, <1>2, <1>3, <1>5
  <2> QED BY <2>1, <2>2 DEF Less
<1> QED BY <1>3, <1>4, <1>5

(* What is after an instant is after every earlier one.                    *)
LEMMA GreaterTransitive ==
  ASSUME NEW l, NEW m, NEW n,
         l.digits \in SUBSET Int, m.digits \in SUBSET Int, n.digits \in SUBSET Int,
         Greater(l, m), Greater(m, n)
  PROVE  Greater(l, n)
<1>1. CASE Minus(l) /\ Minus(m) /\ Minus(n)
  BY <1>1, LessTransitive DEF Greater
<1>2. CASE ~Minus(l) /\ ~Minus(m) /\ ~Minus(n)
  BY <1>2, LessTransitive DEF Greater
<1>3. CASE Minus(l) # Minus(n)
  BY <1>3 DEF Greater, Minus
<1>4. CASE Minus(l) = Minus(n) /\ Minus(l) # Minus(m)
  BY <1>4 DEF Greater, Minus
<1> QED BY <1>1, <1>2, <1>3, <1>4 DEF Minus

(* The digits of a number that was read are integers.                      *)
LEMMA NumberHasDigits ==
  ASSUME NEW data, NEW p
  PROVE  Number(data, p).digits \in SUBSET Int
<1> DEFINE id        == FieldId(data, p)
           magnitude == IF id[1] = 255 THEN PlusUnit(0 .. 71 \ Bits(id), 0) ELSE Bits(id)
<1>1. ASSUME NEW bytes PROVE Float(bytes).digits \in SUBSET Int
  <2>1. \A word, bits, power, normal : FloatDigits(word, bits, power, normal) \in SUBSET Int
    BY DEF FloatDigits
  <2> QED BY <2>1 DEF Float
<1>2. ASSUME NEW m, NEW q PROVE PlusUnit(m, q) \in SUBSET Int
  BY DEF PlusUnit
<1>3. Len(id) = 9
  <2>1. DOMAIN id = 1 .. 9
    BY DEF FieldId
  <2>2. id \in [1 .. 9 -> {id[i] : i \in 1 .. 9}]
    BY DEF FieldId
  <2>3. id \in Seq({id[i] : i \in 1 .. 9})
    BY <2>2, SeqDef
  <2> QED BY <2>1, <2>3, LenProperties
<1>4. Bits(id) \in SUBSET Int
  BY <1>3 DEF Bits
<1>5. magnitude \in SUBSET Int
  BY <1>2, <1>4
<1> HIDE DEF magnitude
<1>6. Rounded(magnitude) \in SUBSET Int
  BY <1>2, <1>5 DEF Rounded
<1> HIDE DEF id
<1>7. Number(data, p) = IF data[p] \in {202, 203}
                        THEN Float(SubSeq(data, p + 1, p + NumberBody(data[p])))
                        ELSE [negative |-> id[1] = 255, finite |-> TRUE,
                              digits |-> Rounded(magnitude)]
  BY DEF Number, id, magnitude
<1> QED BY <1>1, <1>6, <1>7

-----------------------------------------------------------------------------
(* The host's clock gives floats.                                          *)
LEMMA TimesAre ==
  ASSUME NEW i \in DOMAIN Times
  PROVE  Times[i].digits \subseteq DoubleDigits /\ Times[i].digits \subseteq Int /\ IsDouble(Times[i])
<1>1. PICK T : T = [negative : BOOLEAN, finite : {TRUE}, digits : SUBSET DoubleDigits]
  OBVIOUS
<1>2. Times \in Seq(T) /\ IsDouble(Times[i])
  BY <1>1, TimesAssumption
<1>3. Times[i] \in T
  BY <1>2, ElementOfSeq, LenProperties
<1>4. Times[i].digits \subseteq DoubleDigits
  BY <1>1, <1>3
<1>5. DoubleDigits \subseteq Int
  BY DEF DoubleDigits
<1> QED BY <1>2, <1>4, <1>5

(* A ticket the reader refuses at one time, it refuses at every later one. *)
LEMMA RefusedForGood ==
  ASSUME NEW fields, NEW i \in DOMAIN Times, NEW j \in DOMAIN Times, i <= j,
         TicketField(fields, Times[j]).ok
  PROVE  TicketField(fields, Times[i]).ok
<1> DEFINE value   == FieldValue(fields, TicketId)
           first   == PairStart(value)
           after   == AfterKey(value, first)
           expires == Number(value, first)
           good    == /\ value # <<>> /\ first # Malformed /\ HasNumber(value, first)
                      /\ EndsWithBlob(value, after)
                      /\ expires.finite
                      /\ Len(BlobFrom(value, after)) = TicketLength
<1>1. expires.digits \in SUBSET Int
  BY NumberHasDigits
<1> HIDE DEF value, first, after, expires
<1>2. ASSUME NEW now PROVE TicketField(fields, now).ok <=> good /\ Greater(expires, now)
  BY DEF TicketField, TicketIn, Unexpired, NoTicket, value, first, after, expires
<1>3. /\ \A k \in DOMAIN Times : Times[k].digits \in SUBSET Int
      /\ DOMAIN Times \subseteq Int
      /\ \A k, l \in DOMAIN Times : k < l => Greater(Times[l], Times[k])
  <2>1. DOMAIN Times = 1 .. Len(Times) /\ Len(Times) \in Nat
    BY TimesAssumption, LenProperties
  <2>2. \A k \in DOMAIN Times : Times[k].digits \in SUBSET Int
    BY TimesAre
  <2>3. \A k, l \in DOMAIN Times : k < l => Greater(Times[l], Times[k])
    BY TimesAssumption
  <2> QED BY <2>1, <2>2, <2>3
<1> HIDE DEF good
<1>4. good /\ Greater(expires, Times[j])
  BY <1>2
<1>5. CASE i = j
  BY <1>5
<1>6. CASE i < j
  <2>1. Greater(Times[j], Times[i])
    BY <1>3, <1>6
  <2>2. Greater(expires, Times[i])
    BY <1>1, <1>3, <1>4, <2>1, GreaterTransitive
  <2> QED BY <1>2, <1>4, <2>2
<1> QED BY <1>3, <1>5, <1>6

(* The inductive invariant: the last answer is the answer of its moment.   *)
Answered ==
  /\ clock \in DOMAIN Times /\ clock \in Nat /\ asked \in Nat /\ asked <= clock
  /\ asked = 0 => ticket = NoTicket
  /\ asked # 0 => asked \in DOMAIN Times /\ ticket = TicketField(Encoded, Times[asked])
LEMMA AnswersLast == Spec => [](entries \in Maps /\ Answered)
<1> DEFINE IInv == entries \in Maps /\ Answered
<1>1. Init => Answered
  BY TimesAssumption, LenProperties, EmptySeq DEF Init, Answered
<1>2. Answered /\ [Next]_vars => Answered'
  <2> SUFFICES ASSUME Answered, [Next]_vars PROVE Answered'
    OBVIOUS
  <2>1. CASE ReadTicket
    <3>1. Encoded' = Encoded
      BY <2>1 DEF ReadTicket, Encoded
    <3>2. clock \in 1 .. Len(Times)
      BY TimesAssumption, LenProperties DEF Answered
    <3> QED BY <2>1, <3>1, <3>2 DEF ReadTicket, Answered
  <2>2. CASE Tick
    <3>1. Encoded' = Encoded
      BY <2>2 DEF Tick, Encoded
    <3>2. clock' \in DOMAIN Times /\ clock' \in Nat /\ clock <= clock' /\ asked <= clock'
      BY <2>2, TimesAssumption, LenProperties DEF Tick, Answered
    <3> QED BY <2>2, <3>1, <3>2 DEF Tick, Answered
  <2>3. CASE UNCHANGED <<entries, clock, ticket, asked>>
    <3>1. Encoded' = Encoded
      BY <2>3 DEF Encoded
    <3> QED BY <2>3, <3>1 DEF Answered
  <2> QED BY <2>1, <2>2, <2>3 DEF Next, ReadAudio, ReadMember, vars
<1>3. Init => IInv
  BY <1>1 DEF Init
<1>4. IInv /\ [Next]_vars => IInv'
  BY <1>2 DEF Next, ReadAudio, ReadTicket, ReadMember, Tick, vars
<1> QED BY <1>3, <1>4, PTL DEF Spec

(* Whatever a message carries, the host that asks again later never finds  *)
(* a ticket valid that it found expired.                                   *)
THEOREM ExpiredTicketsStayExpired == Spec => ExpiryIsFinal
<1>1. Answered /\ [Next]_vars =>
        [asked # 0 /\ ticket'.ok => ticket.ok]_<<ticket, asked>>
  <2> SUFFICES ASSUME Answered, [Next]_vars, asked # 0, ticket'.ok,
                      <<ticket, asked>>' # <<ticket, asked>>
               PROVE  ticket.ok
    OBVIOUS
  <2>1. ReadTicket
    BY DEF Next, ReadAudio, ReadMember, Tick, vars
  <2>2. /\ ticket' = TicketField(Encoded, Times[clock])
        /\ ticket = TicketField(Encoded, Times[asked])
        /\ clock \in DOMAIN Times /\ asked \in DOMAIN Times /\ asked <= clock
    BY <2>1 DEF ReadTicket, Answered
  <2> QED BY <2>2, RefusedForGood
<1> QED BY <1>1, AnswersLast, PTL DEF Spec, ExpiryIsFinal

-----------------------------------------------------------------------------
(* What senders mean: a few entries that can be written.                   *)
LEMMA EntriesAre ==
  ASSUME entries \in Maps
  PROVE  /\ Len(entries) \in 0 .. 15 /\ Len(entries) <= MaxFields /\ DOMAIN entries = 1 .. Len(entries)
         /\ \A i \in 1 .. Len(entries) : IsEntry(entries[i])
<1> DEFINE told == UNION {{map[i] : i \in DOMAIN map} : map \in Maps}
<1>1. /\ Maps \subseteq Seq(told) /\ \A entry \in told : IsEntry(entry)
      /\ \A map \in Maps : Len(map) <= MaxFields /\ Len(map) <= 15
  BY MapsAssumption
<1>2. \A i \in DOMAIN entries : entries[i] \in told
  OBVIOUS
<1> HIDE DEF told
<1>3. entries \in Seq(told)
  BY <1>1
<1>4. Len(entries) \in Nat /\ DOMAIN entries = 1 .. Len(entries)
  BY <1>3
<1>5. Len(entries) <= MaxFields /\ Len(entries) <= 15
  BY <1>1
<1>6. \A i \in DOMAIN entries : IsEntry(entries[i])
  BY <1>1, <1>2
<1>7. \A k \in Nat : k <= 15 => k \in 0 .. 15
  OBVIOUS
<1> QED BY <1>4, <1>5, <1>6, <1>7

(* Where each entry lies in the map that was sent.                         *)
KeyOf(i)   == entries[i].keyBytes
ValueOf(i) == entries[i].value.bytes
EntryLies(at, i) ==
  /\ KeyOf(i) \in Seq(Byte) /\ LiesIn(KeyOf(i), Encoded, at[i])
  /\ ValueOf(i) \in Seq(Byte) /\ LiesIn(ValueOf(i), Encoded, at[i] + Len(KeyOf(i)))
  /\ at[i + 1] = at[i] + Len(KeyOf(i)) + Len(ValueOf(i))
Lies(at) ==
  /\ Encoded \in Seq(Byte) /\ HasMapHeader(Encoded) /\ MapCount(Encoded) = Len(entries)
  /\ FirstEntry(Encoded) = 2 /\ at[1] = 2 /\ at[Len(entries) + 1] = Len(Encoded) + 1
  /\ at \in [Position -> Position]
  /\ \A i \in 1 .. Len(entries) : EntryLies(at, i)

LEMMA EntriesLie ==
  ASSUME entries \in Maps
  PROVE  \E at : Lies(at)
<1> DEFINE n == Len(entries)
           pieces == [i \in DOMAIN entries |-> KeyOf(i) \o ValueOf(i)]
           head == <<128 + n>>
           flat == FlattenSeq(pieces)
           F == head \o flat
<1>0. /\ n \in 0 .. 15 /\ DOMAIN entries = 1 .. n
      /\ \A i \in 1 .. n : IsEntry(entries[i])
  BY EntriesAre
<1> HIDE DEF n
<1>1. /\ n \in 0 .. 15 /\ n \in Nat /\ DOMAIN entries = 1 .. n
      /\ \A i \in 1 .. n : KeyOf(i) \in Seq(Byte) /\ ValueOf(i) \in Seq(Byte)
  BY <1>0 DEF IsEntry, KeyOf, ValueOf
<1>2. Encoded = F
  BY DEF Encoded, KeyOf, ValueOf, n
<1>3. \A i \in 1 .. n : Joined(KeyOf(i) \o ValueOf(i), KeyOf(i), ValueOf(i))
  BY <1>1, JoinBytes
<1>4. /\ pieces \in Seq(Seq(Byte)) /\ Len(pieces) = n
      /\ \A i \in 1 .. n : pieces[i] = KeyOf(i) \o ValueOf(i)
  <2>1. \A i \in 1 .. n : KeyOf(i) \o ValueOf(i) \in Seq(Byte)
    BY <1>3 DEF Joined
  <2> DEFINE B == Seq(Byte)
  <2>2. pieces \in [1 .. n -> B]
    BY <1>1, <2>1
  <2> HIDE DEF B
  <2>3. pieces \in Seq(B) /\ Len(pieces) = n
    BY <1>1, <2>2
  <2> QED BY <1>1, <2>3 DEF B
<1> HIDE DEF pieces
<1>5. flat \in Seq(Byte) /\ \E a \in [Nat -> Nat] : Placed(flat, pieces, a)
  BY <1>4, FlattenPlaces
<1>6. PICK a \in [Nat -> Nat] : Placed(flat, pieces, a)
  BY <1>5
<1>7. head \in Seq(Byte) /\ Len(head) = 1 /\ head[1] = 128 + n
  <2>1. \A k \in 0 .. 15 : 128 + k \in Byte
    BY DEF Byte
  <2>2. 128 + n \in Byte
    BY <1>1, <2>1
  <2> QED BY <2>2
<1> HIDE DEF flat, head
<1>8. Joined(F, head, flat)
  BY <1>5, <1>7, JoinBytes
<1> HIDE DEF F
<1>9. /\ F \in Seq(Byte) /\ Len(F) = 1 + Len(flat) /\ Len(flat) \in Nat /\ F[1] = 128 + n
      /\ \A i \in 1 .. Len(flat) : F[1 + i] = flat[i]
  <2>1. 1 \in 1 .. Len(head)
    BY <1>7
  <2>2. Len(flat) \in Nat
    BY <1>5
  <2> QED BY <1>7, <1>8, <2>1, <2>2 DEF Joined
<1>10. HasMapHeader(F) /\ MapCount(F) = n /\ FirstEntry(F) = 2
  <2>1. \A k \in 0 .. 15 :
          /\ 128 + k \in FixMap /\ LengthBytes(128 + k) = 0
          /\ 128 + k \notin FixStr /\ 128 + k \notin FixArray /\ (128 + k) - 128 = k
    BY DEF FixMap, LengthBytes, FixStr, FixArray
  <2>2. /\ F[1] \in FixMap /\ LengthBytes(F[1]) = 0
        /\ F[1] \notin FixStr /\ F[1] \notin FixArray /\ F[1] - 128 = n
    <3>1. PICK k \in 0 .. 15 : k = n
      BY <1>1
    <3>2. F[1] = 128 + k
      BY <1>9, <3>1
    <3> QED BY <2>1, <3>1, <3>2
  <2>3. Announced(F, 1) = n
    BY <2>2 DEF Announced
  <2>4. F # <<>> /\ 1 <= Len(F)
    BY <1>9
  <2>5. IsMap(F[1])
    BY <2>2 DEF IsMap
  <2>6. 1 + 0 = 1 /\ 2 + 0 = 2
    OBVIOUS
  <2> QED BY <2>2, <2>3, <2>4, <2>5, <2>6 DEF HasMapHeader, MapCount, FirstEntry
<1> DEFINE at == [i \in Position |-> a[i - 1] + 2]
<1>11. at \in [Position -> Position] /\ \A i \in Position : at[i] = a[i - 1] + 2
  BY DEF Position
<1>12. /\ a[0] = 0 /\ a[n] = Len(flat) /\ \A k \in Nat : a[k] \in Nat
       /\ \A k \in Nat : k < n =>
            /\ a[k + 1] = a[k] + Len(pieces[k + 1]) /\ a[k + 1] <= Len(flat)
            /\ \A i \in 1 .. Len(pieces[k + 1]) : flat[a[k] + i] = pieces[k + 1][i]
  BY <1>4, <1>6, Zenon DEF Placed
<1> HIDE DEF at
<1>13. at[1] = 2 /\ at[n + 1] = Len(F) + 1
  <2>1. 1 \in Position /\ n + 1 \in Position /\ 1 - 1 = 0 /\ n + 1 - 1 = n
    BY <1>1 DEF Position
  <2>2. at[1] = a[0] + 2 /\ at[n + 1] = a[n] + 2
    <3>1. PICK j, k \in Position : j = 1 /\ k = n + 1
      BY <2>1
    <3>2. at[j] = a[j - 1] + 2 /\ at[k] = a[k - 1] + 2
      BY <1>11
    <3>3. j - 1 = 0 /\ k - 1 = n
      BY <1>1, <3>1
    <3> QED BY <3>1, <3>2, <3>3
  <2> QED BY <1>9, <1>12, <2>2
<1>14. ASSUME NEW i \in 1 .. n
       PROVE  /\ LiesIn(KeyOf(i), F, at[i])
              /\ LiesIn(ValueOf(i), F, at[i] + Len(KeyOf(i)))
              /\ at[i + 1] = at[i] + Len(KeyOf(i)) + Len(ValueOf(i))
  <2> DEFINE k == KeyOf(i)
             v == ValueOf(i)
             x == pieces[i]
  <2>1. i - 1 \in Nat /\ i - 1 < n /\ (i - 1) + 1 = i /\ i \in Position /\ i + 1 \in Position
        /\ i + 1 - 1 = i /\ i \in Nat
    <3> i \in 1 .. n /\ n \in Nat
      BY <1>1
    <3> QED BY DEF Position
  <2>2. at[i] = a[i - 1] + 2 /\ at[i + 1] = a[i] + 2 /\ a[i] \in Nat /\ a[i - 1] \in Nat
    <3>1. at[i + 1] = a[i + 1 - 1] + 2
      BY <1>11, <2>1
    <3> QED BY <1>11, <1>12, <2>1, <3>1
  <2>3. /\ a[i] = a[i - 1] + Len(x) /\ a[i] <= Len(flat)
        /\ \A j \in 1 .. Len(x) : flat[a[i - 1] + j] = x[j]
    <3>1. PICK m \in Nat : m = i - 1
      BY <2>1
    <3>2. m < n /\ m + 1 = i
      BY <2>1, <3>1
    <3>3. /\ a[m + 1] = a[m] + Len(pieces[m + 1]) /\ a[m + 1] <= Len(flat)
          /\ \A j \in 1 .. Len(pieces[m + 1]) : flat[a[m] + j] = pieces[m + 1][j]
      BY <1>12, <3>2, Zenon
    <3> QED BY <3>1, <3>2, <3>3, Zenon
  <2>4. Joined(x, k, v) /\ k \in Seq(Byte) /\ v \in Seq(Byte) /\ Len(k) \in Nat /\ Len(v) \in Nat
    <3>1. k \in Seq(Byte) /\ v \in Seq(Byte)
      BY <1>1
    <3>2. Joined(x, k, v)
      BY <1>3, <1>4
    <3>3. Len(k) \in Nat /\ Len(v) \in Nat
      <4> HIDE DEF k, v, x
      <4> QED BY <3>1, LenProperties
    <3> QED BY <3>1, <3>2, <3>3, Zenon
  <2> HIDE DEF k, v, x
  <2>5. /\ Len(x) = Len(k) + Len(v) /\ \A j \in 1 .. Len(k) : x[j] = k[j]
        /\ \A j \in 1 .. Len(v) : x[Len(k) + j] = v[j]
    BY <2>4 DEF Joined
  <2>6. \A j \in 1 .. Len(x) : F[at[i] + j - 1] = x[j]
    <3> SUFFICES ASSUME NEW j \in 1 .. Len(x) PROVE F[at[i] + j - 1] = x[j]
      OBVIOUS
    <3>1. PICK m : m = a[i - 1] + j
      OBVIOUS
    <3>2. Len(x) \in Nat
      BY <2>4, <2>5
    <3>3. m \in 1 .. Len(flat) /\ at[i] + j - 1 = 1 + m
      <4>1. PICK b \in Nat : b = a[i - 1]
        BY <2>2
      <4>2. at[i] = b + 2 /\ m = b + j /\ b + Len(x) <= Len(flat)
        BY <2>2, <2>3, <3>1, <4>1
      <4> QED BY <1>9, <3>2, <4>2
    <3> QED BY <1>9, <2>3, <3>1, <3>3
  <2>s. PICK p, kl, vl, fl \in Nat :
          p = at[i] /\ kl = Len(k) /\ vl = Len(v) /\ fl = Len(F) /\ p + kl <= fl + 1
          /\ p + kl + vl <= fl + 1 /\ at[i + 1] = p + kl + vl
    <3>1. PICK b \in Nat : b = a[i - 1]
      BY <2>2
    <3>2. PICK kl, vl, ml \in Nat : kl = Len(k) /\ vl = Len(v) /\ ml = Len(flat)
      BY <1>9, <2>4, Zenon
    <3>x. PICK xl \in Nat : xl = Len(x)
      BY <2>5, <3>2
    <3>3. at[i] = b + 2 /\ at[i + 1] = b + xl + 2 /\ b + xl <= ml /\ xl = kl + vl /\ Len(F) = 1 + ml
      BY <1>9, <2>2, <2>3, <2>5, <3>1, <3>2, <3>x
    <3>4. b + 2 \in Nat /\ 1 + ml \in Nat /\ b + 2 + kl <= 1 + ml + 1 /\ b + 2 + kl + vl <= 1 + ml + 1 /\ b + xl + 2 = b + 2 + kl + vl
      BY <3>3
    <3> QED BY <3>2, <3>x, <3>3, <3>4
  <2>7. LiesIn(k, F, at[i])
    <3>1. at[i] + Len(k) <= Len(F) + 1
      BY <2>s, Zenon
    <3>2. \A j \in 1 .. Len(k) : j \in 1 .. Len(x)
      BY <2>4, <2>5
    <3> QED BY <2>5, <2>6, <3>1, <3>2 DEF LiesIn
  <2>8. LiesIn(v, F, at[i] + Len(k))
    <3>1. at[i] + Len(k) + Len(v) <= Len(F) + 1
      BY <2>s, Zenon
    <3>2. ASSUME NEW j \in 1 .. Len(v) PROVE F[at[i] + Len(k) + j - 1] = v[j]
      <4>1. j \in 1 .. vl
        BY <2>s
      <4>2. kl + j \in 1 .. kl + vl /\ p + kl + j - 1 = p + (kl + j) - 1
        BY <4>1
      <4>3. F[p + (kl + j) - 1] = x[kl + j]
        BY <2>s, <2>5, <2>6, <4>2
      <4> QED BY <2>s, <2>5, <4>2, <4>3
    <3> QED BY <3>1, <3>2 DEF LiesIn
  <2>9. at[i + 1] = at[i] + Len(k) + Len(v)
    BY <2>s
  <2> QED BY <2>7, <2>8, <2>9 DEF k, v
<1>15. \A i \in 1 .. n : EntryLies(at, i)
  BY <1>1, <1>2, <1>14 DEF EntryLies
<1>16. Lies(at)
  BY <1>2, <1>9, <1>10, <1>11, <1>13, <1>15 DEF Lies, n
<1> QED BY <1>16

-----------------------------------------------------------------------------
(* A length prefix of w bytes, most significant first.                     *)
LEMMA Rest ==
  ASSUME NEW x \in Int
  PROVE  256 * (x \div 256) + (x % 256) = x /\ (x \div 256 = 0 => x % 256 = x)
  OBVIOUS
LEMMA PrefixRead ==
  ASSUME NEW u \in Seq(Byte), NEW n \in Nat, n < Huge, NEW w \in {1, 2, 4}, Shifted(n)[w] = 0,
         \A i \in 1 .. w : u[1 + i] = LowByte(Shifted(n)[w - i])
  PROVE  BigEndian(u, 2, w) = n
<1>1. /\ Shifted(n)[0] = n /\ \A k \in 0 .. 8 : Shifted(n)[k] \in Int
      /\ \A k \in 0 .. 7 : Shifted(n)[k + 1] = Shifted(n)[k] \div 256
  BY ShiftSteps
<1> DEFINE s == Shifted(n)
<1> HIDE DEF s
<1>2. s[0] = n /\ s[1] = s[0] \div 256 /\ s[2] = s[1] \div 256 /\ s[3] = s[2] \div 256 /\ s[4] = s[3] \div 256
  <2>1. 0 \in 0 .. 7 /\ 1 \in 0 .. 7 /\ 2 \in 0 .. 7 /\ 3 \in 0 .. 7
    OBVIOUS
  <2>2. s[0 + 1] = s[0] \div 256 /\ s[1 + 1] = s[1] \div 256 /\ s[2 + 1] = s[2] \div 256 /\ s[3 + 1] = s[3] \div 256
    BY <1>1, <2>1 DEF s
  <2>3. s[0] = n
    BY <1>1 DEF s
  <2> QED BY <2>2, <2>3
<1>3. s[0] \in Int /\ s[1] \in Int /\ s[2] \in Int /\ s[3] \in Int
  BY <1>1 DEF s
<1>4. s[w] = 0 /\ \A i \in 1 .. w : u[1 + i] = s[w - i] % 256
  BY DEF s, LowByte
<1>5. CASE w = 1
  <2>1. 1 \in 1 .. w
    BY <1>5
  <2>2. u[1 + 1] = s[1 - 1] % 256
    BY <1>4, <1>5, <2>1
  <2>3. u[2] = s[0] % 256 /\ s[1] = 0
    BY <1>4, <1>5, <2>2
  <2>4. n % 256 = n
    BY <1>2, <2>3
  <2> QED BY <1>2, <1>5, <2>3, <2>4 DEF BigEndian
<1>6. CASE w = 2
  <2>1. 1 \in 1 .. w /\ 2 \in 1 .. w
    BY <1>6
  <2>2. u[1 + 1] = s[2 - 1] % 256 /\ u[1 + 2] = s[2 - 2] % 256
    BY <1>4, <1>6, <2>1
  <2>3. u[2] = s[1] % 256 /\ u[3] = s[0] % 256 /\ s[2] = 0
    BY <1>4, <1>6, <2>2
  <2>4. 256 * (s[1] % 256) + (s[0] % 256) = n
    <3>1. s[1] % 256 = s[1]
      BY <1>2, <1>3, <2>3, Rest
    <3> QED BY <1>2, <1>3, <3>1, Rest
  <2>5. BigEndian(u, 2, w) = 256 * u[2] + u[3]
    BY <1>6 DEF BigEndian
  <2> QED BY <2>3, <2>4, <2>5
<1>7. CASE w = 4
  <2>1. 1 \in 1 .. w /\ 2 \in 1 .. w /\ 3 \in 1 .. w /\ 4 \in 1 .. w
    BY <1>7
  <2>2. u[1 + 1] = s[4 - 1] % 256 /\ u[1 + 2] = s[4 - 2] % 256 /\ u[1 + 3] = s[4 - 3] % 256
        /\ u[1 + 4] = s[4 - 4] % 256
    BY <1>4, <1>7, <2>1
  <2>3. u[2] = s[3] % 256 /\ u[3] = s[2] % 256 /\ u[4] = s[1] % 256 /\ u[5] = s[0] % 256
    BY <2>2
  <2>4. s[3] = 0
    BY <1>2, <1>3 DEF Huge
  <2>5. /\ 256 * u[3] + u[4] = s[1] /\ 256 * s[1] + u[5] = n
        /\ u[3] \in Int /\ u[4] \in Int /\ u[5] \in Int
    <3>1. s[2] % 256 = s[2]
      BY <1>2, <1>3, <2>4, Rest
    <3>2. 256 * s[2] + (s[1] % 256) = s[1]
      BY <1>2, <1>3, Rest
    <3>3. 256 * s[1] + (s[0] % 256) = n
      BY <1>2, <1>3, Rest
    <3>4. s[1] % 256 \in Int /\ s[0] % 256 \in Int
      BY <1>3
    <3> QED BY <1>3, <2>3, <3>1, <3>2, <3>3, <3>4
  <2>6. u[2] = 0
    BY <2>3, <2>4
  <2>7. BigEndian(u, 2, w) = 65536 * u[3] + 256 * u[4] + u[5]
    BY <1>7, <2>6 DEF BigEndian
  <2>8. PICK a, b, c, m \in Int : a = u[3] /\ b = u[4] /\ c = u[5] /\ m = s[1]
    BY <1>3, <2>5
  <2>9. 256 * a + b = m /\ 256 * m + c = n
    BY <2>5, <2>8
  <2>10. 65536 * a + 256 * b + c = n
    BY <2>9
  <2> QED BY <2>7, <2>8, <2>10
<1> QED BY <1>5, <1>6, <1>7

(* A bin or str that was written for some content.                         *)
HoldsBlob(u, content) ==
  LET h == 1 + LengthBytes(u[1])
  IN  /\ u \in Seq(Byte) /\ u # <<>> /\ IsBlob(u[1]) /\ content \in Seq(Byte)
      /\ Announced(u, 1) = Len(content) /\ Len(u) = h + Len(content)
      /\ \A i \in 1 .. Len(content) : u[h + i] = content[i]

LEMMA BlobWidth ==
  ASSUME NEW c \in BinCodes \cup TextCodes
  PROVE  /\ c \in Byte /\ IsBlob(c) /\ LengthBytes(c) \in {0, 1, 2, 4} /\ LengthBytes(c) \in 0 .. 9
         /\ c \in FixStr <=> LengthBytes(c) = 0
         /\ c \in FixStr => c - 160 \in Nat
  BY DEF BinCodes, TextCodes, FixStr, IsBlob, LengthBytes, Byte

LEMMA BlobHeld ==
  ASSUME NEW u, NEW content, NEW codes, codes \subseteq BinCodes \cup TextCodes,
         EncodesBlob(u, content, codes), Len(u) < Huge
  PROVE  HoldsBlob(u, content) /\ u[1] \in codes
<1>1. content \in Seq(Byte) /\ Len(content) \in Nat
  BY DEF EncodesBlob
<1>2. PICK c \in codes :
        /\ IF c \in FixStr THEN Len(content) = c - 160 ELSE Shifted(Len(content))[LengthBytes(c)] = 0
        /\ u = <<c>> \o Octets(Len(content), LengthBytes(c)) \o content
  BY DEF EncodesBlob
<1> DEFINE w == LengthBytes(c)
           n == Len(content)
           head == <<c>> \o Octets(n, w)
<1>3. c \in Byte /\ IsBlob(c) /\ w \in {0, 1, 2, 4} /\ w \in 0 .. 9 /\ (c \in FixStr <=> w = 0)
  BY BlobWidth
<1>4. n \in Nat /\ n \in Int
  BY <1>1
<1>5. IsCoded(head, c, n, w)
  BY <1>3, <1>4, CodedBytes
<1>6. u = head \o content
  BY <1>2
<1> HIDE DEF w, n, head
<1>7. head \in Seq(Byte) /\ Len(head) = 1 + w /\ head[1] = c /\ \A i \in 1 .. w : head[1 + i] = LowByte(Shifted(n)[w - i])
  BY <1>5 DEF IsCoded
<1>8. Joined(u, head, content)
  BY <1>1, <1>6, <1>7, JoinBytes
<1>9. /\ u \in Seq(Byte) /\ Len(u) = 1 + w + n /\ \A i \in 1 .. 1 + w : u[i] = head[i]
      /\ \A i \in 1 .. n : u[1 + w + i] = content[i]
  BY <1>7, <1>8 DEF Joined, n
<1>10. u[1] = c /\ u # <<>>
  <2>1. 1 \in 1 .. 1 + w /\ Len(u) # 0
    BY <1>3, <1>4, <1>9
  <2> QED BY <1>7, <1>9, <2>1
<1>11. \A i \in 1 .. w : u[1 + i] = LowByte(Shifted(n)[w - i])
  <2> SUFFICES ASSUME NEW i \in 1 .. w PROVE u[1 + i] = LowByte(Shifted(n)[w - i])
    OBVIOUS
  <2>1. 1 + i \in 1 .. 1 + w
    BY <1>3
  <2> QED BY <1>7, <1>9, <2>1
<1>12. Announced(u, 1) = n
  <2>1. CASE c \in FixStr
    <3>1. n = c - 160 /\ LengthBytes(u[1]) = 0
      BY <1>2, <1>3, <1>10, <2>1 DEF n, w
    <3> QED BY <1>10, <2>1, <3>1 DEF Announced
  <2>2. CASE c \notin FixStr
    <3>1. Shifted(n)[w] = 0 /\ w \in {1, 2, 4}
      BY <1>2, <1>3, <2>2 DEF n, w
    <3>2. n < Huge
      BY <1>3, <1>4, <1>9 DEF Huge
    <3>3. BigEndian(u, 2, w) = n
      BY <1>4, <1>9, <1>11, <3>1, <3>2, PrefixRead
    <3>4. LengthBytes(u[1]) = w /\ w > 0
      BY <1>10, <3>1 DEF w
    <3> QED BY <3>3, <3>4 DEF Announced
  <2> QED BY <2>1, <2>2
<1>13. HoldsBlob(u, content)
  BY <1>1, <1>3, <1>9, <1>10, <1>12 DEF HoldsBlob, w, n
<1> QED BY <1>10, <1>13

(* Wherever it lies, the readers find its end.                             *)
LEMMA BlobSkipped ==
  ASSUME NEW u, NEW content, HoldsBlob(u, content),
         NEW f \in Seq(Byte), NEW p \in Position, LiesIn(u, f, p)
  PROVE  ReadBin(f, p) = p + Len(u) /\ f[p] = u[1]
<1>0. PICK w, n : w = LengthBytes(u[1]) /\ n = Len(content)
  OBVIOUS
<1>1. /\ u \in Seq(Byte) /\ u # <<>> /\ IsBlob(u[1]) /\ Announced(u, 1) = n
      /\ Len(u) = 1 + w + n /\ n \in Nat
  BY <1>0 DEF HoldsBlob
<1>2. Len(u) \in Nat /\ Len(u) >= 1 /\ p \in Nat /\ p >= 1 /\ Len(f) \in Nat
  BY <1>1 DEF Position
<1>3. p + Len(u) <= Len(f) + 1 /\ \A i \in 1 .. Len(u) : f[p + i - 1] = u[i]
  BY DEF LiesIn
<1>4. f[p] = u[1]
  <2>1. 1 \in 1 .. Len(u) /\ p + 1 - 1 = p
    BY <1>2
  <2> QED BY <1>3, <2>1
<1>5. w \in {0, 1, 2, 4}
  BY <1>0 DEF LengthBytes
<1>6. Announced(f, p) = n
  <2>1. 1 + LengthBytes(u[1]) <= Len(u)
    BY <1>0, <1>1, <1>5
  <2>2. \A i \in 1 .. Len(u) : u[i] = f[p + i - 1]
    BY <1>3
  <2>3. Announced(u, 1) = Announced(f, p)
    BY <1>1, <1>2, <1>3, <2>1, <2>2, SameAnnounced
  <2> QED BY <1>1, <2>3
<1>7. ~ (p > Len(f)) /\ ~ (p + (1 + w) > Len(f) + 1) /\ p + (1 + w) + n <= Len(f) + 1
      /\ p + (1 + w) + n = p + Len(u)
  BY <1>1, <1>2, <1>3, <1>5
<1> QED BY <1>0, <1>1, <1>4, <1>6, <1>7 DEF ReadBin

(* And what it was written for.                                            *)
LEMMA BlobRead ==
  ASSUME NEW u, NEW content, HoldsBlob(u, content),
         NEW f \in Seq(Byte), NEW p \in Position, LiesIn(u, f, p)
  PROVE  ValueAsBytes(SubSeq(f, p, Len(f))) = content
<1>0. PICK h, n : h = 1 + LengthBytes(u[1]) /\ n = Len(content)
  OBVIOUS
<1>1. /\ u \in Seq(Byte) /\ u # <<>> /\ Len(u) = h + n /\ n \in Nat /\ h \in {1, 2, 3, 5}
      /\ content \in Seq(Byte) /\ \A i \in 1 .. n : u[h + i] = content[i]
  BY <1>0 DEF HoldsBlob, LengthBytes
<1>2. /\ Len(u) \in Nat /\ Len(u) >= 1 /\ p \in Nat /\ p >= 1 /\ Len(f) \in Nat
      /\ p + Len(u) <= Len(f) + 1 /\ \A i \in 1 .. Len(u) : f[p + i - 1] = u[i]
  BY <1>1 DEF Position, LiesIn
<1>3. PICK t : t = SubSeq(f, p, Len(f))
  OBVIOUS
<1>4. PICK q \in Nat : q = Len(f) + 1
  BY <1>2
<1>5. t \in Seq(Byte) /\ Len(t) = q - p /\ \A i \in 1 .. q - p : t[i] = f[p + i - 1]
  <2>1. p <= q /\ q <= Len(f) + 1 /\ q - 1 = Len(f)
    BY <1>2, <1>4
  <2> QED BY <1>3, <1>4, <2>1, PartOf
<1>6. LiesIn(u, t, 1)
  <2>1. 1 + Len(u) <= Len(t) + 1
    BY <1>2, <1>4, <1>5
  <2>2. ASSUME NEW i \in 1 .. Len(u) PROVE t[1 + i - 1] = u[i]
    <3>1. i \in 1 .. q - p /\ 1 + i - 1 = i
      BY <1>2, <1>4
    <3> QED BY <1>2, <1>5, <3>1
  <2> QED BY <2>1, <2>2 DEF LiesIn
<1>7. 1 \in Position
  BY DEF Position
<1>8. ReadBin(t, 1) = 1 + Len(u) /\ t[1] = u[1]
  BY <1>5, <1>6, <1>7, BlobSkipped
<1>9. PICK e \in Nat : e = 1 + Len(u)
  BY <1>2
<1>10. PICK c : c = SubSeq(t, h + 1, e - 1)
  OBVIOUS
<1>11. ValueAsBytes(t) = c
  <2>1. ReadBin(t, 1) # Malformed /\ 2 + LengthBytes(t[1]) = h + 1
    BY <1>0, <1>1, <1>2, <1>8 DEF Malformed, LengthBytes
  <2> QED BY <1>8, <1>9, <1>10, <2>1 DEF ValueAsBytes
<1>12. c \in Seq(Byte) /\ Len(c) = n /\ \A i \in 1 .. n : c[i] = t[h + 1 + i - 1]
  <2>1. h + 1 \in Position /\ h + 1 <= e /\ e <= Len(t) + 1 /\ e - (h + 1) = n
    BY <1>1, <1>2, <1>4, <1>5, <1>9 DEF Position
  <2> QED BY <1>5, <1>10, <2>1, PartOf
<1>13. ASSUME NEW i \in 1 .. n PROVE c[i] = content[i]
  <2>1. h + i \in 1 .. Len(u) /\ h + 1 + i - 1 = h + i
    BY <1>1
  <2>2. t[1 + (h + i) - 1] = u[h + i] /\ 1 + (h + i) - 1 = h + i
    <3>1. PICK j \in 1 .. Len(u) : j = h + i
      BY <2>1
    <3>2. t[1 + j - 1] = u[j] /\ 1 + j - 1 = j
      BY <1>2, <1>6 DEF LiesIn
    <3> QED BY <3>1, <3>2
  <2> QED BY <1>1, <1>12, <2>1, <2>2
<1>14. c = content
  <2>1. Len(content) = n
    BY <1>0
  <2>2. content \in Seq(Byte) /\ c \in Seq(Byte) /\ Len(c) = n
    BY <1>0, <1>1, <1>12
  <2>3. \A i \in 1 .. Len(c) : c[i] = content[i]
    BY <1>13, <2>2
  <2>4. Len(c) = Len(content)
    BY <2>1, <2>2
  <2> QED BY <2>2, <2>3, <2>4, SeqEqual
<1> QED BY <1>3, <1>11, <1>14

-----------------------------------------------------------------------------
(* An integer key, as the readers find it.                                 *)
IsIntegerKey(i) == entries[i].key[1] = "integer"
KeyId(i)        == Octets(entries[i].key[2], 9)
ValueStart(at, i) == at[i] + Len(KeyOf(i))

LEMMA EntryHolds ==
  ASSUME entries \in Maps, NEW at, Lies(at), NEW i \in 1 .. Len(entries)
  PROVE  /\ i \in Nat /\ at[i] \in Position /\ at[i + 1] \in Position
         /\ EntryLies(at, i) /\ IsEntry(entries[i])
         /\ IsKey(entries[i].key, KeyOf(i)) /\ Len(KeyOf(i)) < Huge
         /\ Encoded \in Seq(Byte)
<1>1. Len(entries) \in 0 .. 15 /\ IsEntry(entries[i])
  BY EntriesAre
<1>2. i \in Position /\ i + 1 \in Position /\ i \in Nat
  <2> PICK n \in 0 .. 15 : n = Len(entries)
    BY <1>1
  <2>1. i \in 1 .. n
    OBVIOUS
  <2> QED BY <2>1 DEF Position
<1>3. at \in [Position -> Position] /\ EntryLies(at, i) /\ Encoded \in Seq(Byte)
  BY DEF Lies
<1> QED BY <1>1, <1>2, <1>3 DEF IsEntry, KeyOf

LEMMA IntegerKeyHeld ==
  ASSUME entries \in Maps, NEW i \in 1 .. Len(entries), IsIntegerKey(i)
  PROVE  /\ entries[i].key[2] \in Int /\ entries[i].key = <<"integer", entries[i].key[2]>>
         /\ HoldsInteger(KeyOf(i), entries[i].key[2]) /\ KeyOf(i) \in Seq(Byte)
<1>1. IsKey(entries[i].key, KeyOf(i))
  BY EntriesAre DEF IsEntry, KeyOf
<1>2. entries[i].key \in {"integer"} \X Int /\ EncodesInteger(KeyOf(i), entries[i].key[2])
  BY <1>1 DEF IsKey, IsIntegerKey
<1>3. HoldsInteger(KeyOf(i), entries[i].key[2]) /\ KeyOf(i) \in Seq(Byte)
  BY <1>2, IntegerHeld
<1> QED BY <1>2, <1>3

(* Keys are told apart by their identity.                                  *)
LEMMA KeysApart ==
  ASSUME entries \in Maps, NEW i \in 1 .. Len(entries), NEW j \in 1 .. Len(entries),
         IsIntegerKey(i), IsIntegerKey(j)
  PROVE  KeyId(i) = KeyId(j) <=> entries[i].key = entries[j].key
<1> DEFINE m == entries[i].key[2]
           n == entries[j].key[2]
<1>1. /\ m \in Int /\ entries[i].key = <<"integer", m>> /\ HoldsInteger(KeyOf(i), m) /\ KeyOf(i) \in Seq(Byte)
      /\ n \in Int /\ entries[j].key = <<"integer", n>> /\ HoldsInteger(KeyOf(j), n) /\ KeyOf(j) \in Seq(Byte)
  BY IntegerKeyHeld
<1> HIDE DEF m, n
<1>2. Shifted(m)[8] \in {0, -1} /\ Shifted(n)[8] \in {0, -1}
  BY <1>1, HeldFits
<1>3. Octets(m, 9) = Octets(n, 9) => m = n
  BY <1>1, <1>2, OctetsTellApart
<1>4. (Octets(m, 9) = Octets(n, 9)) <=> m = n
  BY <1>3
<1>5. entries[i].key = entries[j].key <=> m = n
  BY <1>1
<1> QED BY <1>4, <1>5 DEF KeyId, m, n

(* A value is skipped to the next entry.                                   *)
LEMMA ValueSkipped ==
  ASSUME entries \in Maps, NEW at, Lies(at), NEW i \in 1 .. Len(entries)
  PROVE  /\ ValueStart(at, i) \in Position
         /\ SkipValueAt(Encoded, ValueStart(at, i), 0) = at[i + 1]
<1>1. /\ at[i] \in Position /\ EntryLies(at, i) /\ IsEntry(entries[i]) /\ Encoded \in Seq(Byte)
  BY EntryHolds
<1>2. /\ KeyOf(i) \in Seq(Byte) /\ ValueOf(i) \in Seq(Byte)
      /\ LiesIn(ValueOf(i), Encoded, ValueStart(at, i))
      /\ at[i + 1] = ValueStart(at, i) + Len(ValueOf(i))
  BY <1>1 DEF EntryLies, ValueStart
<1>3. ValueStart(at, i) \in Position
  BY <1>1, <1>2 DEF ValueStart, Position
<1>4. Whole(ValueOf(i), 1, 0)
  BY <1>1 DEF Whole, IsEntry, ValueOf, SkipValueAt
<1>5. Skip(Encoded, ValueStart(at, i), 1, 0) = ValueStart(at, i) + Len(ValueOf(i))
  BY <1>1, <1>2, <1>3, <1>4, SkipLocal
<1> QED BY <1>2, <1>3, <1>5 DEF SkipValueAt

LEMMA IntegerKeyRead ==
  ASSUME entries \in Maps, NEW at, Lies(at), NEW i \in 1 .. Len(entries), IsIntegerKey(i)
  PROVE  /\ HasFieldId(Encoded, at[i]) /\ FieldId(Encoded, at[i]) = KeyId(i)
         /\ AfterKey(Encoded, at[i]) = ValueStart(at, i)
         /\ AfterEntry(Encoded, at[i]) = at[i + 1]
         /\ IsInteger(Encoded[at[i]])
<1>1. at[i] \in Position /\ Encoded \in Seq(Byte) /\ LiesIn(KeyOf(i), Encoded, at[i])
  BY EntryHolds DEF EntryLies
<1>2. HoldsInteger(KeyOf(i), entries[i].key[2]) /\ KeyOf(i) \in Seq(Byte)
  BY IntegerKeyHeld
<1>3. /\ HasFieldId(Encoded, at[i]) /\ FieldId(Encoded, at[i]) = KeyId(i)
      /\ AfterKey(Encoded, at[i]) = ValueStart(at, i)
      /\ Encoded[at[i]] = KeyOf(i)[1]
  BY <1>1, <1>2, KeyRead DEF KeyId, ValueStart
<1>4. AfterEntry(Encoded, at[i]) = at[i + 1]
  BY <1>3, ValueSkipped DEF AfterEntry
<1> QED BY <1>2, <1>3, <1>4 DEF HoldsInteger

(* No other key is taken for an integer.                                   *)
LEMMA TextsAreNoIntegers ==
  ASSUME NEW c \in TextCodes
  PROVE  ~IsInteger(c) /\ IsText(c)
  BY DEF TextCodes, FixStr, IsInteger, IsText

LEMMA OtherKeyRead ==
  ASSUME entries \in Maps, NEW at, Lies(at), NEW i \in 1 .. Len(entries), ~IsIntegerKey(i)
  PROVE  ~IsInteger(Encoded[at[i]]) /\ ~HasFieldId(Encoded, at[i])
<1>1. /\ at[i] \in Position /\ Encoded \in Seq(Byte) /\ LiesIn(KeyOf(i), Encoded, at[i])
      /\ KeyOf(i) \in Seq(Byte) /\ IsKey(entries[i].key, KeyOf(i)) /\ Len(KeyOf(i)) < Huge
  BY EntryHolds DEF EntryLies
<1>2. KeyOf(i) # <<>> /\ ~IsInteger(KeyOf(i)[1])
  <2>1. CASE EncodesBlob(KeyOf(i), entries[i].key[2], TextCodes)
    <3>1. HoldsBlob(KeyOf(i), entries[i].key[2]) /\ KeyOf(i)[1] \in TextCodes
      BY <1>1, <2>1, BlobHeld
    <3> QED BY <3>1, TextsAreNoIntegers DEF HoldsBlob
  <2>2. CASE KeyOf(i) # <<>> /\ ~IsInteger(KeyOf(i)[1])
    BY <2>2
  <2>3. ~ (entries[i].key \in {"integer"} \X Int)
    BY DEF IsIntegerKey
  <2> QED BY <1>1, <2>1, <2>2, <2>3 DEF IsKey
<1>3. Encoded[at[i]] = KeyOf(i)[1]
  <2>1. 1 \in 1 .. Len(KeyOf(i))
    BY <1>1, <1>2
  <2>2. Encoded[at[i] + 1 - 1] = KeyOf(i)[1]
    BY <1>1, <2>1 DEF LiesIn
  <2>3. at[i] + 1 - 1 = at[i]
    BY <1>1 DEF Position
  <2> QED BY <2>2, <2>3
<1> QED BY <1>2, <1>3 DEF HasFieldId

-----------------------------------------------------------------------------
(* The walk from key to key finds them where they lie, up to the first     *)
(* that is no integer.                                                     *)
LEMMA WalkFinds ==
  ASSUME entries \in Maps, NEW at, Lies(at), NEW m \in 0 .. Len(entries),
         \A i \in 1 .. m : IsIntegerKey(i)
  PROVE  \A i \in 1 .. m + 1 : KeyPosition(Encoded)[i] = at[i]
<1> DEFINE pos == KeyPosition(Encoded)
           T == {k \in Nat : k <= m => pos[k + 1] = at[k + 1]}
<1>1. /\ Encoded \in Seq(Byte) /\ FirstEntry(Encoded) = 2 /\ at[1] = 2 /\ at \in [Position -> Position]
  BY DEF Lies
<1>2. /\ pos[1] = FirstEntry(Encoded)
      /\ \A i \in Nat \ {0} :
           pos[i + 1] = IF pos[i] = Malformed THEN Malformed ELSE AfterEntry(Encoded, pos[i])
  BY <1>1, KeyWalk
<1> HIDE DEF pos
<1>3. 0 \in T
  BY <1>1, <1>2
<1>m. m \in Nat /\ \A k \in 1 .. m : k \in 1 .. Len(entries)
  <2>1. PICK n \in 0 .. 15 : n = Len(entries)
    BY EntriesAre
  <2>2. m \in 0 .. n
    BY <2>1
  <2>3. \A k \in 1 .. m : k \in 1 .. n
    BY <2>2
  <2> QED BY <2>1, <2>2, <2>3
<1>4. ASSUME NEW k \in Nat, k \in T PROVE k + 1 \in T
  <2> SUFFICES ASSUME k + 1 <= m PROVE pos[(k + 1) + 1] = at[(k + 1) + 1]
    OBVIOUS
  <2>1. PICK i \in Nat \ {0} : i = k + 1
    OBVIOUS
  <2>2. i \in 1 .. m /\ k <= m
    BY <1>m, <2>1
  <2>3. pos[i] = at[i]
    BY <1>4, <2>1, <2>2
  <2>4. i \in 1 .. Len(entries) /\ IsIntegerKey(i)
    BY <1>m, <2>2
  <2>5. AfterEntry(Encoded, at[i]) = at[i + 1] /\ at[i] \in Position
    BY <2>4, IntegerKeyRead, EntryHolds
  <2>6. pos[i + 1] = at[i + 1]
    BY <1>2, <2>3, <2>5 DEF Malformed, Position
  <2> QED BY <2>1, <2>6
<1> HIDE DEF T
<1>5. Nat \subseteq T
  BY <1>3, <1>4, SetInduction
<1>6. ASSUME NEW i \in 1 .. m + 1 PROVE pos[i] = at[i]
  <2>1. PICK k \in Nat : k + 1 = i /\ k <= m
    <3>1. i - 1 \in Nat /\ (i - 1) + 1 = i /\ i - 1 <= m
      BY <1>m
    <3> QED BY <3>1
  <2> QED BY <1>5, <2>1 DEF T
<1> QED BY <1>6 DEF pos

(* The stateless check takes exactly the maps that the sender may mean as  *)
(* fields: integer keys, none twice.                                       *)
LEMMA FieldsMapRead ==
  ASSUME entries \in Maps, NEW at, Lies(at)
  PROVE  ValidWithoutScratch(Encoded) <=> IsFieldsMap
<1> DEFINE pos == KeyPosition(Encoded)
<1>0. PICK n \in 0 .. 15 : n = Len(entries)
  BY EntriesAre
<1>1. /\ n <= MaxFields /\ DOMAIN entries = 1 .. n /\ HasMapHeader(Encoded) /\ MapCount(Encoded) = n
      /\ at[n + 1] = Len(Encoded) + 1
  BY <1>0, EntriesAre DEF Lies
<1>2. ASSUME KeysOf("integer") PROVE \A i \in 1 .. n : IsIntegerKey(i)
  BY <1>1, <1>2 DEF KeysOf, IsIntegerKey
<1>3. ASSUME \A i \in 1 .. n : IsIntegerKey(i)
      PROVE  /\ \A i \in 1 .. n + 1 : pos[i] = at[i]
             /\ \A i \in 1 .. n : /\ at[i] # Malformed /\ HasFieldId(Encoded, at[i])
                                  /\ FieldId(Encoded, at[i]) = KeyId(i)
             /\ \A i, j \in 1 .. n : KeyId(i) = KeyId(j) <=> entries[i].key = entries[j].key
  <2>1. \A i \in 1 .. n + 1 : pos[i] = at[i]
    <3>1. n \in 0 .. Len(entries) /\ \A i \in 1 .. n : IsIntegerKey(i)
      BY <1>0, <1>3
    <3> QED BY <1>0, <3>1, WalkFinds
  <2>2. ASSUME NEW i \in 1 .. n
        PROVE  /\ at[i] # Malformed /\ HasFieldId(Encoded, at[i])
               /\ FieldId(Encoded, at[i]) = KeyId(i)
    <3>1. i \in 1 .. Len(entries) /\ IsIntegerKey(i)
      BY <1>0, <1>3
    <3>2. at[i] # Malformed
      BY <3>1, EntryHolds DEF Position, Malformed
    <3> QED BY <3>1, <3>2, IntegerKeyRead
  <2>3. ASSUME NEW i \in 1 .. n, NEW j \in 1 .. n
        PROVE  KeyId(i) = KeyId(j) <=> entries[i].key = entries[j].key
    <3>1. i \in 1 .. Len(entries) /\ IsIntegerKey(i) /\ j \in 1 .. Len(entries) /\ IsIntegerKey(j)
      BY <1>0, <1>3
    <3> QED BY <3>1, KeysApart
  <2> QED BY <2>1, <2>2, <2>3
<1> HIDE DEF pos
<1>v. ValidWithoutScratch(Encoded) <=>
        /\ \A i \in 1 .. n :
             /\ pos[i] # Malformed /\ HasFieldId(Encoded, pos[i])
             /\ \A j \in 1 .. i - 1 : FieldId(Encoded, pos[j]) # FieldId(Encoded, pos[i])
        /\ pos[n + 1] = Len(Encoded) + 1
  BY <1>1 DEF ValidWithoutScratch, pos
<1>4. ASSUME IsFieldsMap PROVE ValidWithoutScratch(Encoded)
  <2>1. \A i \in 1 .. n : IsIntegerKey(i)
    BY <1>2, <1>4 DEF IsFieldsMap
  <2>2. \A i, j \in 1 .. n : entries[i].key = entries[j].key => i = j
    BY <1>1, <1>4 DEF IsFieldsMap, KeysTold
  <2>3. ASSUME NEW i \in 1 .. n
        PROVE  /\ pos[i] # Malformed /\ HasFieldId(Encoded, pos[i])
               /\ \A j \in 1 .. i - 1 : FieldId(Encoded, pos[j]) # FieldId(Encoded, pos[i])
    <3>1. i \in 1 .. n + 1 /\ n + 1 \in 1 .. n + 1
      BY <1>0
    <3>2. pos[i] = at[i] /\ at[i] # Malformed /\ HasFieldId(Encoded, at[i]) /\ FieldId(Encoded, at[i]) = KeyId(i)
      BY <1>3, <2>1, <3>1
    <3>3. ASSUME NEW j \in 1 .. i - 1 PROVE FieldId(Encoded, pos[j]) # FieldId(Encoded, pos[i])
      <4>1. j \in 1 .. n + 1 /\ j \in 1 .. n /\ j # i
        BY <1>0
      <4>2. pos[j] = at[j] /\ FieldId(Encoded, at[j]) = KeyId(j)
        BY <1>3, <2>1, <4>1
      <4>3. KeyId(i) # KeyId(j)
        BY <1>3, <2>1, <2>2, <4>1
      <4> QED BY <3>2, <4>2, <4>3
    <3> QED BY <3>2, <3>3
  <2>4. pos[n + 1] = Len(Encoded) + 1
    <3>1. n + 1 \in 1 .. n + 1
      BY <1>0
    <3> QED BY <1>1, <1>3, <2>1, <3>1
  <2> QED BY <1>v, <2>3, <2>4
<1>5. ASSUME ValidWithoutScratch(Encoded) PROVE IsFieldsMap
  <2>1. \A i \in 1 .. n : IsIntegerKey(i)
    <3> SUFFICES ASSUME ~ \A i \in 1 .. n : IsIntegerKey(i) PROVE FALSE
      OBVIOUS
    <3> DEFINE O == {i \in Nat : i \in 1 .. n /\ ~IsIntegerKey(i)}
    <3>1. O # {} /\ O \subseteq Nat
      OBVIOUS
    <3>2. PICK i \in O : \A j \in O : i <= j
      BY <3>1, LeastOf
    <3>3. PICK m \in Nat : m + 1 = i
      <4>1. i - 1 \in Nat /\ (i - 1) + 1 = i
        OBVIOUS
      <4> QED BY <4>1
    <3>4. m \in 0 .. n /\ i \in 1 .. n /\ i \in 1 .. m + 1 /\ ~IsIntegerKey(i)
      BY <1>0, <3>3
    <3>5. \A j \in 1 .. m : IsIntegerKey(j)
      <4> SUFFICES ASSUME NEW j \in 1 .. m, ~IsIntegerKey(j) PROVE FALSE
        OBVIOUS
      <4>1. j \in O /\ j < i
        BY <1>0, <3>3, <3>4
      <4> QED BY <3>2, <4>1
    <3> HIDE DEF O
    <3>6. pos[i] = at[i]
      BY <1>0, <3>4, <3>5, WalkFinds DEF pos
    <3>7. ~HasFieldId(Encoded, at[i])
      BY <1>0, <3>4, OtherKeyRead
    <3> QED BY <1>5, <1>v, <3>4, <3>6, <3>7
  <2>2. KeysOf("integer")
    BY <1>1, <2>1 DEF KeysOf, IsIntegerKey
  <2>3. ASSUME NEW i \in 1 .. n, NEW j \in 1 .. n, j < i PROVE entries[i].key # entries[j].key
    <3>1. j \in 1 .. i - 1 /\ i \in 1 .. n + 1 /\ j \in 1 .. n + 1
      BY <1>0, <2>3
    <3>2. FieldId(Encoded, pos[j]) # FieldId(Encoded, pos[i])
      BY <1>5, <1>v, <3>1
    <3>3. pos[i] = at[i] /\ FieldId(Encoded, at[i]) = KeyId(i) /\ pos[j] = at[j] /\ FieldId(Encoded, at[j]) = KeyId(j)
      BY <1>3, <2>1, <3>1
    <3>4. KeyId(i) # KeyId(j)
      BY <3>2, <3>3
    <3> QED BY <1>3, <2>1, <3>4
  <2>4. KeysTold
    <3> SUFFICES ASSUME NEW i \in 1 .. n, NEW j \in 1 .. n, entries[i].key = entries[j].key PROVE i = j
      BY <1>1 DEF KeysTold
    <3>1. ~ (j < i) /\ ~ (i < j)
      BY <2>3
    <3> QED BY <3>1
  <2> QED BY <2>2, <2>4 DEF IsFieldsMap
<1> QED BY <1>4, <1>5

-----------------------------------------------------------------------------
(* A piece is cut out of where it lies.                                    *)
LEMMA PieceCut ==
  ASSUME NEW v \in Seq(Byte), NEW f \in Seq(Byte), NEW p \in Position, LiesIn(v, f, p),
         NEW q \in Nat, q = p + Len(v)
  PROVE  SubSeq(f, p, q - 1) = v
<1>2. /\ Len(v) \in Nat /\ p <= q /\ q <= Len(f) + 1 /\ q - p = Len(v)
  BY DEF Position, LiesIn
<1>3. PICK u : u = SubSeq(f, p, q - 1)
  OBVIOUS
<1>4. u \in Seq(Byte) /\ Len(u) = q - p /\ \A i \in 1 .. q - p : u[i] = f[p + i - 1]
  BY <1>2, <1>3, PartOf
<1>5. \A i \in 1 .. Len(v) : u[i] = v[i]
  BY <1>2, <1>4 DEF LiesIn
<1>6. u = v
  <2>1. u \in Seq(Byte) /\ Len(u) = Len(v)
    BY <1>2, <1>4
  <2>2. \A i \in 1 .. Len(u) : u[i] = v[i]
    BY <1>5, <2>1
  <2> QED BY <2>1, <2>2, SeqEqual
<1> QED BY <1>3, <1>6

(* A field looked up by an integer is the value that was sent under it.    *)
LEMMA ValueFound ==
  ASSUME entries \in Maps, IsFieldsMap, NEW n \in Int, Shifted(n)[8] \in {0, -1}
  PROVE  FieldValueId(Encoded, Octets(n, 9)) =
           IF Under(<<"integer", n>>) = {} THEN <<>> ELSE The(<<"integer", n>>).bytes
<1>1. PICK at : Lies(at)
  BY EntriesLie
<1> DEFINE pos == KeyPosition(Encoded)
           key == <<"integer", n>>
           holds == {i \in 1 .. MapCount(Encoded) : FieldId(Encoded, pos[i]) = Octets(n, 9)}
<1>2. PICK m \in 0 .. 15 : m = Len(entries)
  BY EntriesAre
<1>3. /\ DOMAIN entries = 1 .. m /\ MapCount(Encoded) = m /\ ValidWithoutScratch(Encoded)
  BY <1>1, <1>2, EntriesAre, FieldsMapRead DEF Lies
<1>4. \A i \in 1 .. m : IsIntegerKey(i)
  BY <1>3 DEF IsFieldsMap, KeysOf, IsIntegerKey
<1>5. \A i \in 1 .. m + 1 : pos[i] = at[i]
  BY <1>1, <1>2, <1>4, WalkFinds
<1> HIDE DEF pos
<1>6. ASSUME NEW i \in 1 .. m
      PROVE  FieldId(Encoded, pos[i]) = Octets(n, 9) <=> entries[i].key = key
  <2>1. i \in 1 .. m + 1 /\ i \in 1 .. Len(entries) /\ IsIntegerKey(i)
    BY <1>2, <1>4
  <2>2. FieldId(Encoded, pos[i]) = KeyId(i)
    BY <1>1, <1>5, <2>1, IntegerKeyRead
  <2>3. PICK k : k = entries[i].key[2]
    OBVIOUS
  <2>4. /\ k \in Int /\ entries[i].key = <<"integer", k>>
        /\ HoldsInteger(KeyOf(i), k) /\ KeyOf(i) \in Seq(Byte)
    BY <2>1, <2>3, IntegerKeyHeld
  <2>5. Shifted(k)[8] \in {0, -1}
    BY <2>4, HeldFits
  <2>6. (Octets(k, 9) = Octets(n, 9)) <=> k = n
    BY <2>4, <2>5, OctetsTellApart
  <2>7. KeyId(i) = Octets(k, 9)
    BY <2>3 DEF KeyId
  <2>8. entries[i].key = key <=> k = n
    BY <2>4
  <2> HIDE DEF key
  <2> QED BY <2>2, <2>6, <2>7, <2>8
<1>7. holds = Under(key)
  BY <1>3, <1>6 DEF Under
<1>8. FieldValueId(Encoded, Octets(n, 9)) =
        IF holds = {} THEN <<>>
        ELSE LET i == CHOOSE i \in holds : \A j \in holds : i <= j
             IN  SubSeq(Encoded, AfterKey(Encoded, pos[i]), pos[i + 1] - 1)
  BY <1>3 DEF FieldValueId, pos
<1> HIDE DEF holds, key
<1>9. CASE Under(key) = {}
  BY <1>7, <1>8, <1>9 DEF key
<1>10. CASE Under(key) # {}
  <2>1. PICK i : i \in Under(key)
    BY <1>10
  <2>2. i \in 1 .. m /\ entries[i].key = key /\ i \in Nat
    BY <1>3, <2>1 DEF Under
  <2>3. Under(key) = {i}
    BY <1>3, <2>1, <2>2 DEF Under, IsFieldsMap, KeysTold
  <2>4. (CHOOSE j \in holds : \A k \in holds : j <= k) = i
    <3>1. holds = {i} /\ i <= i
      BY <1>7, <2>2, <2>3
    <3> QED BY <3>1
  <2>5. i \in 1 .. Len(entries) /\ IsIntegerKey(i) /\ i \in 1 .. m + 1 /\ i + 1 \in 1 .. m + 1
    BY <1>2, <1>4, <2>2
  <2>6. pos[i] = at[i] /\ pos[i + 1] = at[i + 1]
    BY <1>5, <2>5
  <2>7. AfterKey(Encoded, pos[i]) = ValueStart(at, i)
    BY <1>1, <2>5, <2>6, IntegerKeyRead
  <2>8. FieldValueId(Encoded, Octets(n, 9)) = SubSeq(Encoded, ValueStart(at, i), at[i + 1] - 1)
    BY <1>7, <1>8, <1>10, <2>4, <2>6, <2>7
  <2>9. /\ ValueStart(at, i) \in Position /\ Encoded \in Seq(Byte) /\ ValueOf(i) \in Seq(Byte)
        /\ LiesIn(ValueOf(i), Encoded, ValueStart(at, i))
        /\ at[i + 1] = ValueStart(at, i) + Len(ValueOf(i))
    BY <1>1, <2>5, EntryHolds, ValueSkipped DEF EntryLies, ValueStart
  <2>10. FieldValueId(Encoded, Octets(n, 9)) = ValueOf(i)
    <3>1. at[i + 1] \in Nat
      BY <1>1, <2>5, EntryHolds DEF Position
    <3>2. SubSeq(Encoded, ValueStart(at, i), at[i + 1] - 1) = ValueOf(i)
      BY <2>9, <3>1, PieceCut
    <3> QED BY <2>8, <3>2
  <2>11. The(key) = entries[i].value
    <3>1. (CHOOSE j \in Under(key) : TRUE) = i
      BY <2>3
    <3> QED BY <3>1 DEF The
  <2> QED BY <1>10, <2>10, <2>11 DEF ValueOf, key
<1> QED BY <1>9, <1>10

(* A field's number, in its own encoding.                                  *)
LEMMA SmallId ==
  ASSUME NEW n \in 0 .. 127
  PROVE  FieldId(<<n>>, 1) = Octets(n, 9) /\ Shifted(n)[8] \in {0, -1}
<1> DEFINE u == <<n>>
<1>1. n \in Int /\ n \in Byte
  BY DEF Byte
<1>2. EncodesInteger(u, n)
  BY <1>1 DEF EncodesInteger
<1>3. HoldsInteger(u, n) /\ u \in Seq(Byte) /\ Len(u) = 1
  BY <1>2, IntegerHeld
<1> HIDE DEF u
<1>4. LiesIn(u, u, 1) /\ 1 \in Position
  <2>1. 1 + Len(u) <= Len(u) + 1
    BY <1>3
  <2>2. \A i \in 1 .. Len(u) : 1 + i - 1 = i
    BY <1>3
  <2> QED BY <2>1, <2>2 DEF LiesIn, Position
<1>5. FieldId(u, 1) = Octets(n, 9)
  BY <1>3, <1>4, KeyRead
<1>6. Shifted(n)[8] \in {0, -1}
  BY <1>3, HeldFits
<1> QED BY <1>5, <1>6 DEF u

-----------------------------------------------------------------------------
(* An array of two starts with its first element behind its header.        *)
LEMMA PairHeadRead ==
  ASSUME NEW v, NEW h \in PairHeads, \A i \in 1 .. Len(h) : v[i] = h[i]
  PROVE  PairStart(v) = Len(h) + 1
<1>1. CASE h = <<146>>
  <2>1. Len(h) = 1 /\ h[1] = 146 /\ 1 \in 1 .. 1
    BY <1>1
  <2>2. v[1] = 146
    BY <2>1
  <2>3. IsArray(146) /\ LengthBytes(146) = 0 /\ 146 \notin FixStr /\ 146 \in FixArray /\ 146 - 144 = 2
    BY DEF IsArray, LengthBytes, FixArray, FixStr
  <2>4. Announced(v, 1) = 2
    BY <2>2, <2>3 DEF Announced
  <2> QED BY <2>1, <2>2, <2>3, <2>4 DEF PairStart
<1>2. CASE h = <<220, 0, 2>>
  <2>1. Len(h) = 3 /\ h[1] = 220 /\ h[2] = 0 /\ h[3] = 2 /\ 1 \in 1 .. 3 /\ 2 \in 1 .. 3 /\ 3 \in 1 .. 3
    BY <1>2
  <2>2. v[1] = 220 /\ v[2] = 0 /\ v[3] = 2
    BY <2>1
  <2>3. IsArray(220) /\ LengthBytes(220) = 2 /\ 2 > 0
    BY DEF IsArray, LengthBytes, FixArray
  <2>4. BigEndian(v, 2, 2) = 2
    BY <2>2 DEF BigEndian
  <2>5. Announced(v, 1) = 2
    BY <2>2, <2>3, <2>4 DEF Announced
  <2> QED BY <2>1, <2>2, <2>3, <2>5 DEF PairStart
<1>3. CASE h = <<221, 0, 0, 0, 2>>
  <2>1. /\ Len(h) = 5 /\ h[1] = 221 /\ h[2] = 0 /\ h[3] = 0 /\ h[4] = 0 /\ h[5] = 2
        /\ 1 \in 1 .. 5 /\ 2 \in 1 .. 5 /\ 3 \in 1 .. 5 /\ 4 \in 1 .. 5 /\ 5 \in 1 .. 5
    BY <1>3
  <2>2. v[1] = 221 /\ v[2] = 0 /\ v[3] = 0 /\ v[4] = 0 /\ v[5] = 2
    BY <2>1
  <2>3. IsArray(221) /\ LengthBytes(221) = 4 /\ 4 > 0
    BY DEF IsArray, LengthBytes, FixArray
  <2>4. BigEndian(v, 2, 4) = 2
    BY <2>2 DEF BigEndian
  <2>5. Announced(v, 1) = 2
    BY <2>2, <2>3, <2>4 DEF Announced
  <2> QED BY <2>1, <2>2, <2>3, <2>5 DEF PairStart
<1> QED BY <1>1, <1>2, <1>3 DEF PairHeads

(* A mode is a byte, in any encoding of it.                                *)
LEMMA ModeRead ==
  ASSUME NEW u \in Seq(Byte), NEW mode \in Byte, HoldsInteger(u, mode),
         NEW f \in Seq(Byte), NEW p \in Position, LiesIn(u, f, p)
  PROVE  HasMode(f, p) /\ Mode(f, p) = mode
<1>0. PICK w, b, c : w = NumberBody(u[1]) /\ b = BodyLen(u[1]) /\ c = u[1]
  OBVIOUS
<1>1. /\ u # <<>> /\ IsInteger(c) /\ Len(u) = 1 + w /\ mode \in Int
      /\ \A i \in 1 .. b : u[Len(u) - b + i] = LowByte(Shifted(mode)[b - i])
      /\ Shifted(mode)[b] = IF Negative(u, Len(u) - b + 1) THEN -1 ELSE 0
  BY <1>0 DEF HoldsInteger
<1>2. c \in Byte /\ c \in Int
  <2>1. 1 \in 1 .. Len(u)
    BY <1>1
  <2>2. c \in Byte
    BY <1>0, <2>1
  <2> QED BY <2>2 DEF Byte
<1>3. /\ w \in {0, 1, 2, 4, 8} /\ b \in 1 .. 8 /\ b = (IF w = 0 THEN 1 ELSE w)
      /\ (w = 0 => c \in 0 .. 127 \cup 224 .. 255) /\ (w # 0 => c \in 204 .. 211)
      /\ (c = 208 => w = 1)
  <2>1. w \in {0, 1, 2, 4, 8} /\ b \in 1 .. 8 /\ (w = 0 => c \in 0 .. 127 \cup 224 .. 255)
        /\ (w # 0 => c \in UintCodes \cup IntCodes)
    BY <1>0, <1>1, <1>2, CodeWidth
  <2>2. b = IF w = 0 THEN 1 ELSE w
    BY <1>0 DEF BodyLen
  <2>3. c = 208 => w = 1
    BY <1>0 DEF NumberBody
  <2> QED BY <2>1, <2>2, <2>3 DEF UintCodes, IntCodes
<1>4. Shifted(mode)[0] = mode /\ \A k \in 1 .. 8 : Shifted(mode)[k] = 0
  BY <1>1, ShiftSteps, ByteShifted
<1>5. ~Negative(u, Len(u) - b + 1)
  <2> SUFFICES ASSUME Negative(u, Len(u) - b + 1) PROVE FALSE
    OBVIOUS
  <2>1. Shifted(mode)[b] = -1 /\ Shifted(mode)[b] = 0
    BY <1>1, <1>3, <1>4
  <2> QED BY <2>1
<1>6. /\ p \in Nat /\ p + Len(u) <= Len(f) + 1 /\ Len(f) \in Nat
      /\ \A i \in 1 .. Len(u) : f[p + i - 1] = u[i]
  BY DEF LiesIn, Position
<1>7. HasFieldId(f, p) /\ f[p] = c
  BY <1>0, KeyRead
<1>8. LowByte(0) = 0 /\ LowByte(mode) = mode
  <2>1. \A x \in 0 .. 255 : x % 256 = x
    OBVIOUS
  <2>2. 0 \in 0 .. 255 /\ mode \in 0 .. 255
    BY DEF Byte
  <2> QED BY <2>1, <2>2 DEF LowByte
<1>9. u[Len(u)] = mode
  <2>1. b \in 1 .. b /\ Len(u) - b + b = Len(u) /\ b - b = 0
    BY <1>1, <1>3
  <2>2. u[Len(u) - b + b] = LowByte(Shifted(mode)[b - b])
    BY <1>1, <2>1
  <2> QED BY <1>4, <1>8, <2>1, <2>2
<1>10. CASE w = 0
  <2>1. Len(u) = 1 /\ b = 1 /\ Len(u) - b + 1 = 1
    BY <1>1, <1>3, <1>10
  <2>2. ~ (u[1] >= 128)
    BY <1>0, <1>5, <1>10, <2>1 DEF Negative
  <2>3. c \in 0 .. 127 /\ mode = c
    <3>1. c \in 0 .. 127 \cup 224 .. 255 /\ ~ (c >= 128)
      BY <1>0, <1>3, <1>10, <2>2
    <3>2. \A x \in 0 .. 127 \cup 224 .. 255 : ~ (x >= 128) => x \in 0 .. 127
      OBVIOUS
    <3>3. c \in 0 .. 127
      BY <3>1, <3>2
    <3>4. mode = c
      BY <1>0, <1>9, <2>1, Zenon
    <3> QED BY <3>3, <3>4
  <2>4. f[p] < 224 /\ f[p] # 208 /\ NumberBody(f[p]) = 0
    <3>1. c < 224 /\ c # 208
      BY <2>3
    <3>2. NumberBody(c) = 0
      BY <1>0, <1>10, Zenon
    <3> QED BY <1>7, <3>1, <3>2
  <2>5. p + 1 .. p + 0 - 1 = {} /\ p + 0 = p
    BY <1>6
  <2> QED BY <1>7, <2>3, <2>4, <2>5 DEF HasMode, Mode
<1>11. CASE w # 0
  <2>1. w \in 1 .. 8 /\ b = w /\ Len(u) - b = 1 /\ Len(u) = 1 + w /\ c \in 204 .. 211
    BY <1>1, <1>3, <1>11
  <2>2. f[p] < 224 /\ NumberBody(f[p]) = w
    <3>1. c < 224
      BY <2>1
    <3>2. NumberBody(c) = w
      BY <1>0, Zenon
    <3> QED BY <1>7, <3>1, <3>2
  <2>3. ASSUME NEW i \in p + 1 .. p + w - 1 PROVE f[i] = 0
    <3>1. PICK j \in 1 .. w - 1 : i = p + j
      <4>1. i - p \in 1 .. w - 1 /\ i = p + (i - p)
        BY <1>6, <2>1
      <4> QED BY <4>1
    <3>2. j \in 1 .. b /\ 1 + j \in 1 .. Len(u) /\ p + (1 + j) - 1 = i /\ b - j \in 1 .. 8
      BY <1>6, <2>1, <3>1
    <3>3. f[p + (1 + j) - 1] = u[1 + j]
      BY <1>6, <3>2
    <3>4. u[1 + j] = LowByte(Shifted(mode)[b - j])
      BY <1>1, <2>1, <3>2
    <3> QED BY <1>4, <1>8, <3>2, <3>3, <3>4
  <2>4. ~ (f[p] = 208 /\ f[p + 1] > 127)
    <3> SUFFICES ASSUME c = 208 PROVE ~ (f[p + 1] > 127)
      BY <1>7
    <3>1. w = 1 /\ Len(u) = 2 /\ Len(u) - b + 1 = 2 /\ c \in SignedCodes
      BY <1>3, <2>1 DEF SignedCodes
    <3>2. ~ (u[2] >= 128)
      BY <1>0, <1>5, <3>1 DEF Negative
    <3>3. 2 \in 1 .. Len(u) /\ p + 2 - 1 = p + 1
      BY <1>6, <3>1
    <3>4. f[p + 1] = u[2] /\ u[2] \in Byte
      BY <1>6, <3>3
    <3>5. \A x \in Byte : ~ (x >= 128) => ~ (x > 127)
      BY DEF Byte
    <3> QED BY <3>2, <3>4, <3>5
  <2>5. f[p + w] = mode
    <3>1. 1 + w \in 1 .. Len(u) /\ p + (1 + w) - 1 = p + w
      BY <1>6, <2>1
    <3>2. f[p + (1 + w) - 1] = u[1 + w]
      BY <1>6, <3>1
    <3> QED BY <1>9, <2>1, <3>1, <3>2
  <2> QED BY <1>7, <2>2, <2>3, <2>4, <2>5 DEF HasMode, Mode
<1> QED BY <1>10, <1>11

(* What is cut out of a sequence lies in it.                               *)
IsCut(u, v, p, last) == u \in Seq(Byte) /\ Len(u) = last + 1 - p /\ LiesIn(u, v, p)
LEMMA CutLies ==
  ASSUME NEW v \in Seq(Byte), NEW p \in Position, NEW last \in Nat, p <= last + 1, last <= Len(v),
         NEW u, u = SubSeq(v, p, last)
  PROVE  IsCut(u, v, p, last)
<1>1. PICK q \in Nat : q = last + 1
  OBVIOUS
<1>2. p <= q /\ q <= Len(v) + 1 /\ q - 1 = last
  BY <1>1
<1>3. u \in Seq(Byte) /\ Len(u) = q - p /\ \A i \in 1 .. q - p : u[i] = v[p + i - 1]
  BY <1>2, PartOf
<1>4. p + Len(u) <= Len(v) + 1
  BY <1>2, <1>3 DEF Position
<1> QED BY <1>1, <1>3, <1>4 DEF LiesIn, IsCut

(* What encodes audio is taken for that audio.                             *)
LEMMA AudioTaken ==
  ASSUME NEW v \in Seq(Byte), Len(v) < Huge, NEW mode, NEW bytes, EncodesAudio(v, mode, bytes)
  PROVE  AudioIn(v) = [kind |-> "audio", mode |-> mode, bytes |-> bytes]
<1>1. /\ mode \in Byte
      /\ \E a, b \in 1 .. Len(v) :
           /\ SubSeq(v, 1, a) \in PairHeads
           /\ EncodesInteger(SubSeq(v, a + 1, b), mode)
           /\ EncodesBlob(SubSeq(v, b + 1, Len(v)), bytes, BinCodes)
  BY DEF EncodesAudio
<1>2. PICK a, b \in 1 .. Len(v) :
        /\ SubSeq(v, 1, a) \in PairHeads
        /\ EncodesInteger(SubSeq(v, a + 1, b), mode)
        /\ EncodesBlob(SubSeq(v, b + 1, Len(v)), bytes, BinCodes)
  BY <1>1
<1>3. PICK h, u, c, n : h = SubSeq(v, 1, a) /\ u = SubSeq(v, a + 1, b) /\ c = SubSeq(v, b + 1, n) /\ n = Len(v)
  OBVIOUS
<1>4. n \in Nat /\ a \in Nat /\ b \in Nat /\ 1 <= a /\ a <= n /\ 1 <= b /\ b <= n
      /\ 1 \in Position /\ a + 1 \in Position /\ b + 1 \in Position
      /\ 1 <= a + 1 /\ a <= Len(v) /\ b + 1 <= n + 1 /\ b <= Len(v) /\ n <= Len(v)
  BY <1>3 DEF Position
<1>5. h \in Seq(Byte) /\ Len(h) = a /\ LiesIn(h, v, 1)
  <2>1. IsCut(h, v, 1, a)
    BY <1>3, <1>4, CutLies
  <2> QED BY <1>4, <2>1 DEF IsCut
<1>6. HoldsInteger(u, mode) /\ u \in Seq(Byte)
  BY <1>2, <1>3, IntegerHeld
<1>7. a + 1 <= b
  <2> SUFFICES ASSUME ~ (a + 1 <= b) PROVE FALSE
    OBVIOUS
  <2>1. u = <<>>
    BY <1>3, <1>4
  <2> QED BY <1>6, <2>1 DEF HoldsInteger
<1>8. Len(u) = b + 1 - (a + 1) /\ LiesIn(u, v, a + 1)
  <2>1. a + 1 <= b + 1
    BY <1>4, <1>7
  <2>2. IsCut(u, v, a + 1, b)
    BY <1>3, <1>4, <2>1, CutLies
  <2> QED BY <2>2 DEF IsCut
<1>9. c \in Seq(Byte) /\ Len(c) = n + 1 - (b + 1) /\ LiesIn(c, v, b + 1)
  <2>1. IsCut(c, v, b + 1, n)
    BY <1>3, <1>4, CutLies
  <2> QED BY <2>1 DEF IsCut
<1>10. HoldsBlob(c, bytes) /\ c[1] \in BinCodes
  <2>1. Len(c) < Huge
    BY <1>3, <1>4, <1>9 DEF Huge
  <2> QED BY <1>2, <1>3, <2>1, BlobHeld
<1>11. PairStart(v) = a + 1
  <2>1. \A i \in 1 .. Len(h) : v[i] = h[i]
    <3> SUFFICES ASSUME NEW i \in 1 .. Len(h) PROVE v[i] = h[i]
      OBVIOUS
    <3>1. v[1 + i - 1] = h[i] /\ 1 + i - 1 = i
      BY <1>5 DEF LiesIn
    <3> QED BY <3>1
  <2> QED BY <1>2, <1>3, <1>5, <2>1, PairHeadRead
<1>12. AfterKey(v, a + 1) = b + 1
  <2>1. AfterKey(v, a + 1) = a + 1 + Len(u)
    BY <1>4, <1>6, <1>8, KeyRead
  <2> QED BY <1>4, <1>8, <2>1
<1>13. HasMode(v, a + 1) /\ Mode(v, a + 1) = mode
  BY <1>1, <1>4, <1>6, <1>8, ModeRead
<1>14. v[b + 1] \in 196 .. 198 /\ ReadBin(v, b + 1) = n + 1 /\ BlobFrom(v, b + 1) = bytes
  <2>1. ReadBin(v, b + 1) = b + 1 + Len(c) /\ v[b + 1] = c[1]
    BY <1>4, <1>9, <1>10, BlobSkipped
  <2>2. ValueAsBytes(SubSeq(v, b + 1, Len(v))) = bytes
    BY <1>4, <1>9, <1>10, BlobRead
  <2> QED BY <1>4, <1>9, <1>10, <2>1, <2>2 DEF BlobFrom, BinCodes
<1>15. v # <<>> /\ a + 1 # Malformed /\ EndsWithBlob(v, b + 1)
  BY <1>3, <1>4, <1>14 DEF Malformed, EndsWithBlob
<1> QED BY <1>11, <1>12, <1>13, <1>14, <1>15 DEF AudioIn

-----------------------------------------------------------------------------
(* A sequence that starts like another.                                    *)
LEMMA HeadCut ==
  ASSUME NEW v \in Seq(Byte), NEW h \in Seq(Byte), NEW a \in Nat, Len(h) = a, 1 <= a, a <= Len(v),
         \A i \in 1 .. a : v[i] = h[i]
  PROVE  SubSeq(v, 1, a) = h
<1>1. 1 \in Position /\ a + 1 \in Nat /\ 1 <= a + 1 /\ a + 1 <= Len(v) + 1 /\ a + 1 - 1 = a
  BY DEF Position
<1>2. SubSeq(v, 1, a) \in Seq(Byte) /\ Len(SubSeq(v, 1, a)) = a + 1 - 1
      /\ \A i \in 1 .. a + 1 - 1 : SubSeq(v, 1, a)[i] = v[1 + i - 1]
  BY <1>1, PartOf
<1>3. \A i \in 1 .. a : SubSeq(v, 1, a)[i] = h[i]
  <2> SUFFICES ASSUME NEW i \in 1 .. a PROVE SubSeq(v, 1, a)[i] = h[i]
    OBVIOUS
  <2>1. SubSeq(v, 1, a)[i] = v[1 + i - 1] /\ 1 + i - 1 = i
    BY <1>1, <1>2
  <2> QED BY <2>1
<1> QED BY <1>1, <1>2, <1>3, SeqEqual

(* The header of an array of two is one of those that a sender may write.  *)
LEMMA HeadFound ==
  ASSUME NEW v \in Seq(Byte), v # <<>>, PairStart(v) # Malformed, PairStart(v) <= Len(v)
  PROVE  \E a \in 1 .. Len(v) : PairStart(v) = a + 1 /\ SubSeq(v, 1, a) \in PairHeads
<1>1. PICK n \in Nat : n = Len(v)
  OBVIOUS
<1>2. PICK c, w : c = v[1] /\ w = LengthBytes(c)
  OBVIOUS
<1>3. IsArray(c) /\ Announced(v, 1) = 2 /\ PairStart(v) = 2 + w
  BY <1>2 DEF PairStart
<1>4. n >= 1 /\ c \in Byte /\ c \in Int
  <2>1. n >= 1 /\ 1 \in 1 .. Len(v)
    BY <1>1
  <2>2. c \in Byte
    BY <1>2, <2>1
  <2> QED BY <2>1, <2>2 DEF Byte
<1>6. \A a, b \in Byte : 256 * a + b = 2 => a = 0 /\ b = 2
  BY DEF Byte
<1>7. CASE c \in FixArray
  <2>1. w = 0
    <3>1. c >= 144 /\ c <= 159
      BY <1>4, <1>7 DEF FixArray
    <3>2. LengthBytes(c) = 0
      BY <1>4, <3>1 DEF LengthBytes
    <3> QED BY <1>2, <3>2
  <2>2. Announced(v, 1) = c - 144
    <3>1. c \notin FixStr
      BY <1>7 DEF FixArray, FixStr
    <3> QED BY <1>2, <1>7, <2>1, <3>1 DEF Announced
  <2>3. v[1] = 146
    BY <1>2, <1>3, <1>4, <2>2
  <2>4. <<146>> \in Seq(Byte) /\ Len(<<146>>) = 1 /\ \A i \in 1 .. 1 : v[i] = <<146>>[i]
    BY <2>3 DEF Byte
  <2>5. SubSeq(v, 1, 1) = <<146>>
    <3>1. PICK h : h = <<146>>
      OBVIOUS
    <3>2. h \in Seq(Byte) /\ Len(h) = 1 /\ \A i \in 1 .. 1 : v[i] = h[i]
      BY <3>1, <2>4
    <3>3. 1 \in Nat /\ 1 <= 1 /\ 1 <= Len(v)
      BY <1>1, <1>4
    <3>4. SubSeq(v, 1, 1) = h
      BY <3>2, <3>3, HeadCut
    <3> QED BY <3>1, <3>4
  <2>6. 1 \in 1 .. Len(v) /\ PairStart(v) = 1 + 1
    BY <1>1, <1>3, <1>4, <2>1
  <2> QED BY <2>5, <2>6 DEF PairHeads
<1>8. CASE c = 220
  <2>1. w = 2
    BY <1>2, <1>8 DEF LengthBytes
  <2>2. n >= 4
    BY <1>1, <1>3, <2>1
  <2>3. v[2] \in Byte /\ v[3] \in Byte
    <3>1. 2 \in 1 .. Len(v) /\ 3 \in 1 .. Len(v)
      BY <1>1, <2>2
    <3> QED BY <3>1
  <2>4. 256 * v[2] + v[3] = 2
    <3>1. BigEndian(v, 2, 2) = 2
      BY <1>2, <1>3, <2>1 DEF Announced
    <3>2. BigEndian(v, 2, 2) = 256 * v[2] + v[2 + 1]
      BY DEF BigEndian
    <3> QED BY <3>1, <3>2
  <2>5. v[1] = 220 /\ v[2] = 0 /\ v[3] = 2
    BY <1>2, <1>6, <1>8, <2>3, <2>4
  <2>6. <<220, 0, 2>> \in Seq(Byte) /\ Len(<<220, 0, 2>>) = 3
        /\ \A i \in 1 .. 3 : v[i] = <<220, 0, 2>>[i]
    BY <2>5 DEF Byte
  <2>7. SubSeq(v, 1, 3) = <<220, 0, 2>>
    <3>1. PICK h : h = <<220, 0, 2>>
      OBVIOUS
    <3>2. h \in Seq(Byte) /\ Len(h) = 3 /\ \A i \in 1 .. 3 : v[i] = h[i]
      BY <3>1, <2>6
    <3>3. 3 \in Nat /\ 1 <= 3 /\ 3 <= Len(v)
      BY <1>1, <2>2
    <3>4. SubSeq(v, 1, 3) = h
      BY <3>2, <3>3, HeadCut
    <3> QED BY <3>1, <3>4
  <2>8. 3 \in 1 .. Len(v) /\ PairStart(v) = 3 + 1
    BY <1>1, <1>3, <2>1, <2>2
  <2> QED BY <2>7, <2>8 DEF PairHeads
<1>9. CASE c = 221
  <2>1. w = 4
    BY <1>2, <1>9 DEF LengthBytes
  <2>2. n >= 6
    BY <1>1, <1>3, <2>1
  <2>3. v[2] \in Byte /\ v[3] \in Byte /\ v[4] \in Byte /\ v[5] \in Byte
    <3>1. 2 \in 1 .. Len(v) /\ 3 \in 1 .. Len(v) /\ 4 \in 1 .. Len(v) /\ 5 \in 1 .. Len(v)
      BY <1>1, <2>2
    <3> QED BY <3>1
  <2>4. BigEndian(v, 2, 4) = 2
    BY <1>2, <1>3, <2>1 DEF Announced
  <2>5. BigEndian(v, 2, 4) = IF v[2] > 0 THEN Huge ELSE 65536 * v[2 + 1] + 256 * v[2 + 2] + v[2 + 3]
    BY DEF BigEndian
  <2>6. \A a, b, d, e \in Byte :
          (IF a > 0 THEN 16777216 ELSE 65536 * b + 256 * d + e) = 2 => a = 0 /\ b = 0 /\ d = 0 /\ e = 2
    BY DEF Byte
  <2>7. v[1] = 221 /\ v[2] = 0 /\ v[3] = 0 /\ v[4] = 0 /\ v[5] = 2
    BY <1>2, <1>9, <2>3, <2>4, <2>5, <2>6 DEF Huge
  <2>8. <<221, 0, 0, 0, 2>> \in Seq(Byte) /\ Len(<<221, 0, 0, 0, 2>>) = 5
        /\ \A i \in 1 .. 5 : v[i] = <<221, 0, 0, 0, 2>>[i]
    BY <2>7 DEF Byte
  <2>9. SubSeq(v, 1, 5) = <<221, 0, 0, 0, 2>>
    <3>1. PICK h : h = <<221, 0, 0, 0, 2>>
      OBVIOUS
    <3>2. h \in Seq(Byte) /\ Len(h) = 5 /\ \A i \in 1 .. 5 : v[i] = h[i]
      BY <3>1, <2>8
    <3>3. 5 \in Nat /\ 1 <= 5 /\ 5 <= Len(v)
      BY <1>1, <2>2
    <3>4. SubSeq(v, 1, 5) = h
      BY <3>2, <3>3, HeadCut
    <3> QED BY <3>1, <3>4
  <2>10. 5 \in 1 .. Len(v) /\ PairStart(v) = 5 + 1
    BY <1>1, <1>3, <2>1, <2>2
  <2> QED BY <2>9, <2>10 DEF PairHeads
<1> QED BY <1>3, <1>7, <1>8, <1>9 DEF IsArray

(* A prefix that announces n bytes is the one written for n.               *)
PrefixIs(v, p, n, w) ==
  /\ n \in Nat /\ Shifted(n)[w] = 0
  /\ \A i \in 1 .. w : v[p + i - 1] = LowByte(Shifted(n)[w - i])
LEMMA TwoDigits ==
  ASSUME NEW a \in Nat, NEW b \in Byte
  PROVE  (256 * a + b) \div 256 = a /\ (256 * a + b) % 256 = b
  BY DEF Byte
LEMMA PrefixFound ==
  ASSUME NEW v \in Seq(Byte), NEW p \in Position, NEW w \in {1, 2, 4}, p + w <= Len(v) + 1,
         NEW n, n = BigEndian(v, p, w), n < Huge
  PROVE  PrefixIs(v, p, n, w)
<1>1. \A i \in 0 .. w - 1 : v[p + i] \in Byte
  BY DEF Position
<1> DEFINE s == Shifted(n)
<1>2. ASSUME n \in Int
      PROVE  s[0] = n /\ s[1] = s[0] \div 256 /\ s[2] = s[1] \div 256 /\ s[3] = s[2] \div 256 /\ s[4] = s[3] \div 256
  <2>1. s[0] = n /\ \A k \in 0 .. 7 : s[k + 1] = s[k] \div 256
    BY <1>2, ShiftSteps
  <2>2. 0 \in 0 .. 7 /\ 1 \in 0 .. 7 /\ 2 \in 0 .. 7 /\ 3 \in 0 .. 7
    OBVIOUS
  <2>3. s[0 + 1] = s[0] \div 256 /\ s[1 + 1] = s[1] \div 256 /\ s[2 + 1] = s[2] \div 256 /\ s[3 + 1] = s[3] \div 256
    BY <2>1, <2>2
  <2> HIDE DEF s
  <2> QED BY <2>1, <2>3
<1> HIDE DEF s
<1>3. \A x \in Byte : x \div 256 = 0 /\ x % 256 = x /\ x \in Nat
  BY DEF Byte
<1>4. CASE w = 1
  <2>1. n = v[p] /\ n \in Byte
    <3>1. 0 \in 0 .. w - 1 /\ p + 0 = p
      BY <1>4 DEF Position
    <3> QED BY <1>1, <1>4, <3>1 DEF BigEndian
  <2>2. n \in Nat /\ s[0] = n /\ s[1] = 0
    <3>1. n \in Nat /\ n \div 256 = 0
      BY <1>3, <2>1
    <3>2. n \in Int
      BY <3>1
    <3>3. s[0] = n /\ s[1] = s[0] \div 256
      BY <1>2, <3>2
    <3> QED BY <3>1, <3>3
  <2>3. \A i \in 1 .. w : i = 1 /\ w - i = 0 /\ p + i - 1 = p
    BY <1>4 DEF Position
  <2>4. \A i \in 1 .. w : v[p + i - 1] = LowByte(s[w - i])
    BY <1>3, <2>1, <2>2, <2>3 DEF LowByte
  <2> QED BY <1>4, <2>2, <2>4 DEF s, PrefixIs
<1>5. CASE w = 2
  <2>1. PICK a, b : a = v[p] /\ b = v[p + 1]
    OBVIOUS
  <2>2. a \in Byte /\ b \in Byte /\ n = 256 * a + b
    <3>1. 0 \in 0 .. w - 1 /\ 1 \in 0 .. w - 1 /\ p + 0 = p
      BY <1>5 DEF Position
    <3>2. v[p + 0] \in Byte /\ v[p + 1] \in Byte
      BY <1>1, <3>1
    <3> QED BY <1>5, <2>1, <3>1, <3>2 DEF BigEndian
  <2>3. a \in Nat /\ n \in Nat
    BY <2>2 DEF Byte
  <2>4. s[0] = n /\ s[1] = a /\ s[2] = 0 /\ n % 256 = b /\ a % 256 = a
    <3>1. n \div 256 = a /\ n % 256 = b
      BY <2>2, <2>3, TwoDigits
    <3> QED BY <1>2, <1>3, <2>2, <2>3, <3>1
  <2>5. ASSUME NEW i \in 1 .. w PROVE v[p + i - 1] = LowByte(s[w - i])
    <3>1. CASE i = 1
      <4>1. p + i - 1 = p /\ w - i = 1
        BY <1>5, <3>1 DEF Position
      <4> QED BY <2>1, <2>4, <4>1 DEF LowByte
    <3>2. CASE i = 2
      <4>1. p + i - 1 = p + 1 /\ w - i = 0
        BY <1>5, <3>2 DEF Position
      <4> QED BY <2>1, <2>4, <4>1 DEF LowByte
    <3> QED BY <1>5, <3>1, <3>2
  <2> QED BY <1>5, <2>3, <2>4, <2>5 DEF s, PrefixIs
<1>6. CASE w = 4
  <2>1. PICK z, a, b, c : z = v[p] /\ a = v[p + 1] /\ b = v[p + 2] /\ c = v[p + 3]
    OBVIOUS
  <2>2. z \in Byte /\ a \in Byte /\ b \in Byte /\ c \in Byte /\ z = 0 /\ n = 65536 * a + 256 * b + c
    <3>1. 0 \in 0 .. w - 1 /\ 1 \in 0 .. w - 1 /\ 2 \in 0 .. w - 1 /\ 3 \in 0 .. w - 1 /\ p + 0 = p
      BY <1>6 DEF Position
    <3>2. v[p + 0] \in Byte /\ v[p + 1] \in Byte /\ v[p + 2] \in Byte /\ v[p + 3] \in Byte
      BY <1>1, <3>1
    <3>3. n = IF z > 0 THEN Huge ELSE 65536 * a + 256 * b + c
      BY <1>6, <2>1 DEF BigEndian
    <3>4. z \in Byte /\ ~ (z > 0)
      BY <2>1, <3>1, <3>2, <3>3 DEF Huge
    <3>5. z = 0
      BY <3>4 DEF Byte
    <3> QED BY <2>1, <3>1, <3>2, <3>3, <3>4, <3>5
  <2>3. PICK m : m = 256 * a + b
    OBVIOUS
  <2>4. a \in Nat /\ m \in Nat /\ n \in Nat /\ n = 256 * m + c
    BY <2>2, <2>3 DEF Byte
  <2>5. n \div 256 = m /\ n % 256 = c
    BY <2>2, <2>4, TwoDigits
  <2>6. m \div 256 = a /\ m % 256 = b
    BY <2>2, <2>3, <2>4, TwoDigits
  <2>7. s[0] = n /\ s[1] = m /\ s[2] = a /\ s[3] = 0 /\ s[4] = 0 /\ a % 256 = a /\ 0 % 256 = 0
    <3>1. 0 \div 256 = 0 /\ 0 % 256 = 0
      OBVIOUS
    <3>2. n \in Int /\ a \div 256 = 0 /\ a % 256 = a
      BY <1>3, <2>2, <2>4
    <3>3. s[0] = n /\ s[1] = s[0] \div 256 /\ s[2] = s[1] \div 256 /\ s[3] = s[2] \div 256 /\ s[4] = s[3] \div 256
      BY <1>2, <3>2
    <3>4. s[0] = n /\ s[1] = m
      BY <2>5, <3>3, Zenon
    <3>5. s[2] = a
      BY <2>6, <3>3, <3>4, Zenon
    <3>6. s[3] = 0
      BY <3>2, <3>3, <3>5, Zenon
    <3>7. s[4] = 0
      BY <3>3, <3>6
    <3> QED BY <3>1, <3>2, <3>4, <3>5, <3>6, <3>7
  <2>8. ASSUME NEW i \in 1 .. w PROVE v[p + i - 1] = LowByte(s[w - i])
    <3>1. CASE i = 1
      <4>1. p + i - 1 = p /\ w - i = 3
        BY <1>6, <3>1 DEF Position
      <4> QED
        <5>1. v[p + i - 1] = 0
          <6>1. v[p] = 0
            <7>1. z = 0
              BY <2>2
            <7>2. v[p] = z
              BY <2>1, Zenon
            <7> QED BY <7>1, <7>2, Zenon
          <6>2. v[p + i - 1] = v[p]
            BY <4>1, Zenon
          <6> QED BY <6>1, <6>2, Zenon
        <5>2. LowByte(0) = 0
          BY <2>7 DEF LowByte
        <5> QED BY <2>7, <4>1, <5>1, <5>2
    <3>2. CASE i = 2
      <4>1. p + i - 1 = p + 1 /\ w - i = 2
        BY <1>6, <3>2 DEF Position
      <4> QED BY <2>1, <2>7, <4>1 DEF LowByte
    <3>3. CASE i = 3
      <4>1. p + i - 1 = p + 2 /\ w - i = 1
        BY <1>6, <3>3 DEF Position
      <4> QED BY <2>1, <2>6, <2>7, <4>1 DEF LowByte
    <3>4. CASE i = 4
      <4>1. p + i - 1 = p + 3 /\ w - i = 0
        BY <1>6, <3>4 DEF Position
      <4> QED BY <2>1, <2>5, <2>7, <4>1 DEF LowByte
    <3> QED BY <1>6, <3>1, <3>2, <3>3, <3>4
  <2> QED BY <1>6, <2>4, <2>7, <2>8 DEF s, PrefixIs
<1> QED BY <1>4, <1>5, <1>6

-----------------------------------------------------------------------------
(* What is taken for a mode was written for it.                            *)
LEMMA ModeFound ==
  ASSUME NEW v \in Seq(Byte), NEW p \in Position, HasMode(v, p),
         NEW last \in Nat, last = p + NumberBody(v[p])
  PROVE  /\ last <= Len(v) /\ Mode(v, p) \in Byte
         /\ EncodesInteger(SubSeq(v, p, last), Mode(v, p))
<1>1. PICK c, w, m, u : c = v[p] /\ w = NumberBody(c) /\ m = Mode(v, p) /\ u = SubSeq(v, p, last)
  OBVIOUS
<1>2. /\ p <= Len(v) /\ IsInteger(c) /\ last <= Len(v) /\ last = p + w /\ c < 224
      /\ \A i \in p + 1 .. p + w - 1 : v[i] = 0
      /\ ~ (c = 208 /\ v[p + 1] > 127)
      /\ m = v[last]
  BY <1>1 DEF HasMode, HasFieldId, Mode
<1>3. p \in Nat /\ p >= 1 /\ c \in Byte /\ c \in Int
  <2>1. p \in Nat /\ p >= 1 /\ p \in 1 .. Len(v)
    BY <1>2 DEF Position
  <2>2. c \in Byte
    BY <1>1, <2>1
  <2> QED BY <2>1, <2>2 DEF Byte
<1>4. w \in {0, 1, 2, 4, 8} /\ (w = 0 => c \in 0 .. 127 \cup 224 .. 255) /\ (w # 0 => c \in UintCodes \cup IntCodes)
      /\ (c \in IntCodes => w # 0)
  BY <1>1, <1>2, <1>3, CodeWidth
<1>5. m \in Byte /\ m \in Int
  <2>1. last \in 1 .. Len(v)
    BY <1>2, <1>3, <1>4
  <2>2. m \in Byte
    BY <1>2, <2>1
  <2> QED BY <2>2 DEF Byte
<1>6. u \in Seq(Byte) /\ Len(u) = w + 1 /\ \A i \in 1 .. w + 1 : u[i] = v[p + i - 1]
  <2>1. p <= last + 1 /\ last <= Len(v) /\ last + 1 - p = w + 1
    BY <1>2, <1>3, <1>4
  <2>2. IsCut(u, v, p, last)
    BY <1>1, <2>1, CutLies
  <2> QED BY <2>1, <2>2 DEF IsCut, LiesIn
<1>7. LowByte(0) = 0 /\ LowByte(m) = m
  <2>1. \A x \in 0 .. 255 : x % 256 = x
    OBVIOUS
  <2>2. 0 \in 0 .. 255 /\ m \in 0 .. 255
    BY <1>5 DEF Byte
  <2> QED BY <2>1, <2>2 DEF LowByte
<1>8. Shifted(m)[0] = m /\ \A k \in 1 .. 8 : Shifted(m)[k] = 0
  BY <1>5, ShiftSteps, ByteShifted
<1>9. CASE w = 0
  <2>1. c \in 0 .. 127 /\ last = p
    <3>1. \A x \in 0 .. 127 \cup 224 .. 255 : x < 224 => x \in 0 .. 127
      OBVIOUS
    <3>2. c \in 0 .. 127 \cup 224 .. 255 /\ c < 224
      BY <1>2, <1>4, <1>9
    <3>3. c \in 0 .. 127
      BY <3>1, <3>2
    <3> QED BY <1>2, <1>3, <1>9, <3>3
  <2>2. m = c
    BY <1>1, <1>2, <2>1, Zenon
  <2>3. u = <<m>>
    <3>1. 1 \in 1 .. w + 1 /\ p + 1 - 1 = p
      BY <1>3, <1>9
    <3>2. u[1] = c /\ Len(u) = 1
      BY <1>1, <1>6, <1>9, <3>1
    <3>3. PICK h : h = <<m>>
      OBVIOUS
    <3>4. h \in Seq(Byte) /\ Len(h) = 1 /\ h[1] = m
      BY <1>5, <3>3
    <3>5. \A i \in 1 .. Len(u) : u[i] = h[i]
      <4>1. \A i \in 1 .. 1 : i = 1
        OBVIOUS
      <4> QED BY <2>2, <3>2, <3>4, <4>1
    <3>6. u = h
      BY <1>6, <3>2, <3>4, <3>5, SeqEqual
    <3> QED BY <3>3, <3>6
  <2>4. m \in 0 .. 127
    BY <2>1, <2>2
  <2>5. EncodesInteger(u, m)
    BY <1>5, <2>3, <2>4 DEF EncodesInteger
  <2> QED BY <1>1, <1>2, <1>5, <2>5, Zenon
<1>10. CASE w # 0
  <2>1. w \in 1 .. 8 /\ w \in 0 .. 9 /\ w + 1 = 1 + w
    BY <1>4, <1>10
  <2>2. IsCoded(<<c>> \o Octets(m, w), c, m, w)
    BY <1>3, <1>5, <2>1, CodedBytes
  <2>3. PICK h : h = <<c>> \o Octets(m, w)
    OBVIOUS
  <2>4. /\ h \in Seq(Byte) /\ Len(h) = 1 + w /\ h[1] = c
        /\ \A i \in 1 .. w : h[1 + i] = LowByte(Shifted(m)[w - i])
    BY <2>2, <2>3 DEF IsCoded
  <2>5. ASSUME NEW i \in 1 .. w PROVE u[1 + i] = LowByte(Shifted(m)[w - i])
    <3>1. 1 + i \in 1 .. w + 1 /\ p + (1 + i) - 1 = p + i
      BY <1>3, <2>1
    <3>2. u[1 + i] = v[p + i]
      BY <1>6, <3>1
    <3>3. CASE i = w
      <4>1. w - i = 0 /\ p + i = last
        BY <1>2, <2>1, <3>3
      <4> QED BY <1>2, <1>7, <1>8, <3>2, <4>1
    <3>4. CASE i # w
      <4>1. w - i \in 1 .. 8 /\ p + i \in p + 1 .. p + w - 1
        BY <1>3, <2>1, <3>4
      <4>2. v[p + i] = 0 /\ Shifted(m)[w - i] = 0
        BY <1>2, <1>8, <4>1
      <4> QED BY <1>7, <3>2, <4>2
    <3> QED BY <3>3, <3>4
  <2>6. u[1] = c
    <3>1. 1 \in 1 .. w + 1 /\ p + 1 - 1 = p
      BY <1>3, <2>1
    <3> QED BY <1>1, <1>6, <3>1
  <2>7. u = h
    <3>1. ASSUME NEW i \in 1 .. Len(u) PROVE u[i] = h[i]
      <4>1. CASE i = 1
        BY <2>4, <2>6, <4>1
      <4>2. CASE i # 1
        <5>1. PICK j \in 1 .. w : i = 1 + j
          <6>1. i - 1 \in 1 .. w /\ i = 1 + (i - 1)
            BY <1>6, <2>1, <4>2
          <6> QED BY <6>1
        <5>2. u[1 + j] = h[1 + j]
          BY <2>4, <2>5
        <5> QED BY <5>1, <5>2
      <4> QED BY <4>1, <4>2
    <3>2. Len(u) = Len(h)
      BY <1>6, <2>1, <2>4
    <3> QED BY <1>6, <2>4, <3>1, <3>2, SeqEqual
  <2>8. Shifted(m)[w] = 0
    BY <1>8, <2>1
  <2>9. CASE c \in UintCodes
    <3>1. Shifted(m)[NumberBody(c)] = 0 /\ u = <<c>> \o Octets(m, NumberBody(c))
      BY <1>1, <2>3, <2>7, <2>8, Zenon
    <3>2. EncodesInteger(u, m)
      BY <1>5, <2>9, <3>1, Zenon DEF EncodesInteger
    <3> QED BY <1>1, <1>2, <1>5, <3>2, Zenon
  <2>10. CASE c \in IntCodes
    <3>1. Octets(m, w)[1] = LowByte(Shifted(m)[w - 1])
      <4>1. 1 \in 1 .. w
        BY <2>1
      <4> QED BY <1>5, <2>1, <4>1, OctetsAre DEF AreOctets
    <3>2. ~ (Octets(m, w)[1] >= 128)
      <4>1. CASE w = 1
        <5>1. c = 208
          BY <1>1, <2>10, <4>1 DEF IntCodes, NumberBody
        <5>2. last = p + 1
          BY <1>2, <4>1
        <5>3. ~ (m > 127)
          BY <1>2, <5>1, <5>2
        <5>4. ~ (m >= 128)
          BY <1>5, <5>3
        <5>5. w - 1 = 0
          BY <4>1
        <5>6. Octets(m, w)[1] = m
          BY <1>7, <1>8, <3>1, <5>5
        <5> QED BY <5>4, <5>6
      <4>2. CASE w # 1
        <5>1. w - 1 \in 1 .. 8
          BY <2>1, <4>2
        <5>2. Octets(m, w)[1] = 0
          BY <1>7, <1>8, <3>1, <5>1
        <5> QED BY <5>2
      <4> QED BY <4>1, <4>2
    <3>3. /\ Shifted(m)[NumberBody(c)] = 0 /\ u = <<c>> \o Octets(m, NumberBody(c))
          /\ ~ (Octets(m, NumberBody(c))[1] >= 128)
      BY <1>1, <2>3, <2>7, <2>8, <3>2, Zenon
    <3>4. Shifted(m)[NumberBody(c)] = IF Octets(m, NumberBody(c))[1] >= 128 THEN -1 ELSE 0
      BY <3>3
    <3>5. EncodesInteger(u, m)
      BY <1>5, <2>10, <3>3, <3>4, Zenon DEF EncodesInteger
    <3> QED BY <1>1, <1>2, <1>5, <3>5, Zenon
  <2> QED BY <1>4, <1>10, <2>9, <2>10
<1> QED BY <1>9, <1>10

(* What is taken for a blob to the end was written for its content.        *)
LEMMA BlobFound ==
  ASSUME NEW v \in Seq(Byte), Len(v) < Huge, NEW p \in Position, v[p] \in BinCodes \cup TextCodes,
         EndsWithBlob(v, p),
         NEW q \in Nat, q = p + 1 + LengthBytes(v[p])
  PROVE  /\ p <= Len(v) /\ q \in 1 .. Len(v) + 1
         /\ EncodesBlob(SubSeq(v, p, Len(v)), SubSeq(v, q, Len(v)), {v[p]})
<1>1. PICK c, w, n, N : c = v[p] /\ w = LengthBytes(c) /\ n = Announced(v, p) /\ N = Len(v)
  OBVIOUS
<1>2. PICK u, content : u = SubSeq(v, p, N) /\ content = SubSeq(v, q, N)
  OBVIOUS
<1>3. c \in Byte /\ w \in {0, 1, 2, 4} /\ w \in 0 .. 9 /\ IsBlob(c) /\ (c \in FixStr <=> w = 0)
  BY <1>1, BlobWidth
<1>4. N \in Nat /\ p \in Nat /\ p >= 1 /\ p + 1 \in Position /\ N < Huge /\ q = p + 1 + w
  BY <1>1 DEF Position
<1>5. p <= N /\ ReadBin(v, p) = N + 1 /\ N + 1 # Malformed
  <2>1. ReadBin(v, p) = N + 1
    BY <1>1 DEF EndsWithBlob
  <2>2. N + 1 # Malformed
    BY <1>4 DEF Malformed
  <2>3. p <= N
    <3> SUFFICES ASSUME ~ (p <= N) PROVE FALSE
      OBVIOUS
    <3>1. p > Len(v)
      BY <1>1, <1>4
    <3>2. ReadBin(v, p) = Malformed
      BY <3>1 DEF ReadBin
    <3> QED BY <2>1, <2>2, <3>2
  <2> QED BY <2>1, <2>2, <2>3
<1>6. q <= N + 1 /\ q + Announced(v, p) = N + 1
  <2>1. ~ (p > Len(v))
    BY <1>1, <1>4, <1>5
  <2>2. N + 1 = LET header == 1 + w
                IN  IF ~IsBlob(c) \/ p + header > N + 1 THEN Malformed
                    ELSE LET end == p + header + Announced(v, p)
                         IN  IF end <= N + 1 THEN end ELSE Malformed
    BY <1>1, <1>5, <2>1 DEF ReadBin
  <2>3. ~ (p + (1 + w) > N + 1) /\ N + 1 = p + (1 + w) + Announced(v, p)
    BY <1>5, <2>2
  <2>4. p + (1 + w) = q
    BY <1>3, <1>4
  <2> QED BY <1>3, <1>4, <2>3, <2>4
<1>7. (w > 0 => n = BigEndian(v, p + 1, w)) /\ (w = 0 => n = c - 160)
  BY <1>1, <1>3 DEF Announced
<1>8. n \in Nat /\ q + n = N + 1 /\ n < Huge
  <2>1. p \in 1 .. Len(v) /\ p + LengthBytes(v[p]) <= Len(v)
    BY <1>1, <1>3, <1>4, <1>5, <1>6
  <2>2. n \in Nat
    BY <1>1, <2>1, AnnouncedIsNat
  <2>3. q + n = N + 1
    BY <1>1, <1>6
  <2> QED BY <1>3, <1>4, <2>2, <2>3 DEF Huge
<1>9. /\ w > 0 => Shifted(n)[w] = 0
      /\ \A i \in 1 .. w : v[p + 1 + i - 1] = LowByte(Shifted(n)[w - i])
  <2>1. CASE w > 0
    <3>0. w \in {1, 2, 4}
      BY <1>3, <2>1
    <3>1. p + 1 + w <= Len(v) + 1
      BY <1>1, <1>3, <1>4, <1>6
    <3>2. PICK r \in Position : r = p + 1
      BY <1>4
    <3>3. n = BigEndian(v, r, w) /\ r + w <= Len(v) + 1
      BY <1>7, <2>1, <3>1, <3>2
    <3>4. PrefixIs(v, r, n, w)
      BY <1>8, <3>0, <3>3, PrefixFound
    <3> QED BY <3>2, <3>4 DEF PrefixIs
  <2>2. CASE ~ (w > 0)
    <3>1. 1 .. w = {}
      BY <1>3, <2>2
    <3> QED BY <2>2, <3>1
  <2> QED BY <2>1, <2>2
<1>10. u \in Seq(Byte) /\ Len(u) = N + 1 - p /\ \A i \in 1 .. N + 1 - p : u[i] = v[p + i - 1]
  <2>1. p <= N + 1 /\ N <= Len(v)
    BY <1>1, <1>4, <1>5
  <2>2. IsCut(u, v, p, N)
    BY <1>2, <1>4, <2>1, CutLies
  <2> QED BY <2>2 DEF IsCut, LiesIn
<1>11. content \in Seq(Byte) /\ Len(content) = n /\ \A i \in 1 .. n : content[i] = v[q + i - 1]
  <2>1. q <= N + 1 /\ N <= Len(v) /\ q \in Position /\ N + 1 - q = n
    <3>1. N + 1 - q = n
      BY <1>4, <1>8
    <3>2. q \in Position
      BY <1>3, <1>4 DEF Position
    <3> QED BY <1>1, <1>4, <1>6, <3>1, <3>2
  <2>2. IsCut(content, v, q, N)
    BY <1>2, <1>4, <2>1, CutLies
  <2> QED BY <2>1, <2>2 DEF IsCut, LiesIn
<1>12. PICK h : h = <<c>> \o Octets(n, w)
  OBVIOUS
<1>13. /\ h \in Seq(Byte) /\ Len(h) = 1 + w /\ h[1] = c
       /\ \A i \in 1 .. w : h[1 + i] = LowByte(Shifted(n)[w - i])
  <2>1. n \in Int
    BY <1>8
  <2>2. IsCoded(<<c>> \o Octets(n, w), c, n, w)
    BY <1>3, <2>1, CodedBytes
  <2> QED BY <1>12, <2>2 DEF IsCoded
<1>14. Joined(h \o content, h, content)
  BY <1>11, <1>13, JoinBytes
<1>15. PICK j : j = h \o content
  OBVIOUS
<1>16. /\ j \in Seq(Byte) /\ Len(j) = 1 + w + n /\ \A i \in 1 .. 1 + w : j[i] = h[i]
       /\ \A i \in 1 .. n : j[1 + w + i] = content[i]
  BY <1>11, <1>13, <1>14, <1>15 DEF Joined
<1>17. u = j
  <2>1. Len(u) = Len(j)
    BY <1>3, <1>4, <1>8, <1>10, <1>16
  <2>2. ASSUME NEW i \in 1 .. Len(u) PROVE u[i] = j[i]
    <3>0. u[i] = v[p + i - 1]
      BY <1>10
    <3>1. CASE i = 1
      <4>1. p + i - 1 = p /\ i \in 1 .. 1 + w
        BY <1>3, <1>4, <3>1
      <4> QED BY <1>1, <1>13, <1>16, <3>0, <3>1, <4>1
    <3>2. CASE i # 1 /\ i <= 1 + w
      <4>1. PICK k \in 1 .. w : i = 1 + k
        <5>1. i - 1 \in 1 .. w /\ i = 1 + (i - 1)
          BY <1>3, <3>2
        <5> QED BY <5>1
      <4>2. p + i - 1 = p + 1 + k - 1 /\ i \in 1 .. 1 + w
        BY <1>3, <1>4, <3>2, <4>1
      <4>3. v[p + 1 + k - 1] = h[1 + k]
        BY <1>9, <1>13
      <4> QED BY <1>16, <3>0, <4>1, <4>2, <4>3
    <3>3. CASE i > 1 + w
      <4>1. PICK k \in 1 .. n : i = 1 + w + k
        <5>1. i - (1 + w) \in 1 .. n /\ i = 1 + w + (i - (1 + w))
          BY <1>3, <1>8, <1>16, <2>1, <3>3
        <5> QED BY <5>1
      <4>2. p + i - 1 = q + k - 1
        BY <1>3, <1>4, <4>1
      <4>3. v[q + k - 1] = content[k] /\ j[1 + w + k] = content[k]
        BY <1>11, <1>16
      <4> QED BY <3>0, <4>1, <4>2, <4>3
    <3> QED BY <1>3, <3>1, <3>2, <3>3
  <2> QED BY <1>10, <1>16, <2>1, <2>2, SeqEqual
<1>18. EncodesBlob(u, content, {c})
  <2>1. u = <<c>> \o Octets(n, w) \o content
    BY <1>12, <1>15, <1>17
  <2>2. IF c \in FixStr THEN n = c - 160 ELSE Shifted(n)[w] = 0
    BY <1>3, <1>7, <1>9
  <2> QED BY <1>1, <1>11, <2>1, <2>2 DEF EncodesBlob
<1>19. q \in 1 .. Len(v) + 1
  BY <1>1, <1>3, <1>4, <1>6
<1> QED BY <1>1, <1>2, <1>5, <1>18, <1>19

-----------------------------------------------------------------------------
(* What encodes no audio is never taken for any.                           *)
LEMMA NoAudioTaken ==
  ASSUME NEW v \in Seq(Byte), Len(v) < Huge, v # <<>>, ~IsAudio(v)
  PROVE  AudioIn(v) = BadAudio
<1> DEFINE Good == /\ PairStart(v) # Malformed /\ HasMode(v, PairStart(v))
                   /\ v[AfterKey(v, PairStart(v))] \in 196 .. 198
                   /\ EndsWithBlob(v, AfterKey(v, PairStart(v)))
<1>1. SUFFICES ASSUME Good PROVE FALSE
  BY DEF AudioIn
<1>2. PICK first, w, bin, n : first = PairStart(v) /\ w = NumberBody(v[first]) /\ bin = AfterKey(v, first) /\ n = Len(v)
  OBVIOUS
<1>3. first # Malformed /\ HasMode(v, first) /\ v[bin] \in 196 .. 198 /\ EndsWithBlob(v, bin)
  BY <1>1, <1>2
<1> HIDE DEF Good
<1>4. first <= Len(v)
  BY <1>3 DEF HasMode, HasFieldId
<1>5. PICK a \in 1 .. Len(v) : first = a + 1 /\ SubSeq(v, 1, a) \in PairHeads
  BY <1>2, <1>3, <1>4, HeadFound
<1>6. n \in Nat /\ a \in Nat /\ a >= 1 /\ a <= n /\ first \in Nat /\ first \in Position
  BY <1>2, <1>5 DEF Position
<1>7. v[first] \in Int /\ w \in {0, 1, 2, 4, 8}
  <2>1. first \in 1 .. Len(v)
    BY <1>4, <1>6 DEF Position
  <2>2. v[first] \in Byte
    BY <2>1
  <2>3. v[first] \in Int
    <3>1. \A x \in Byte : x \in Int
      BY DEF Byte
    <3> QED BY <2>2, <3>1
  <2> QED BY <1>2, <2>3, CodeWidth
<1>8. PICK b \in Nat : b = first + w
  BY <1>6, <1>7
<1>9. b <= n /\ Mode(v, first) \in Byte /\ EncodesInteger(SubSeq(v, first, b), Mode(v, first))
  BY <1>2, <1>3, <1>6, <1>8, ModeFound
<1>10. bin = b + 1 /\ bin \in Position /\ b \in 1 .. Len(v)
  <2>1. bin = first + 1 + w
    BY <1>2 DEF AfterKey
  <2>2. w \in Nat
    BY <1>7
  <2>3. bin = b + 1 /\ b >= 1
    BY <1>6, <1>8, <2>1, <2>2, <1>5
  <2>4. b \in 1 .. Len(v)
    BY <1>2, <1>8, <1>9, <2>3
  <2> QED BY <1>8, <2>3, <2>4 DEF Position
<1>11. PICK q \in Nat : q = bin + 1 + LengthBytes(v[bin])
  <2>1. v[bin] \in BinCodes \cup TextCodes
    BY <1>3 DEF BinCodes
  <2>2. LengthBytes(v[bin]) \in {0, 1, 2, 4}
    BY <2>1, BlobWidth
  <2>3. LengthBytes(v[bin]) \in Nat
    BY <2>2
  <2> QED BY <1>10, <2>3
<1>12. q \in 1 .. Len(v) + 1 /\ EncodesBlob(SubSeq(v, bin, Len(v)), SubSeq(v, q, Len(v)), BinCodes)
  <2>1. v[bin] \in BinCodes
    BY <1>3 DEF BinCodes
  <2>2. q \in 1 .. Len(v) + 1 /\ EncodesBlob(SubSeq(v, bin, Len(v)), SubSeq(v, q, Len(v)), {v[bin]})
    BY <1>3, <1>10, <1>11, <2>1, BlobFound
  <2> QED BY <2>1, <2>2 DEF EncodesBlob
<1>13. EncodesAudio(v, Mode(v, first), SubSeq(v, q, Len(v)))
  <2>1. EncodesInteger(SubSeq(v, a + 1, b), Mode(v, first))
    BY <1>5, <1>9, Zenon
  <2>2. EncodesBlob(SubSeq(v, b + 1, Len(v)), SubSeq(v, q, Len(v)), BinCodes)
    BY <1>10, <1>12, Zenon
  <2> QED BY <1>5, <1>9, <1>10, <2>1, <2>2, Zenon DEF EncodesAudio
<1>14. IsAudio(v)
  BY <1>9, <1>12, <1>13, Zenon DEF IsAudio
<1> QED BY <1>14

(* audio_field reads what the sender means.                                *)
LEMMA AudioRead ==
  ASSUME entries \in Maps
  PROVE  AudioField(Encoded) = AudioMeant
<1>1. PICK at : Lies(at)
  BY EntriesLie
<1>2. ValidWithoutScratch(Encoded) <=> IsFieldsMap
  BY <1>1, FieldsMapRead
<1>3. CASE ~IsFieldsMap
  BY <1>2, <1>3 DEF AudioField, AudioMeant
<1>4. CASE IsFieldsMap
  <2>1. 7 \in 0 .. 127 /\ 7 \in Int
    OBVIOUS
  <2>2. FieldId(<<7>>, 1) = Octets(7, 9) /\ Shifted(7)[8] \in {0, -1}
    BY <2>1, SmallId
  <2>3. FieldValueId(Encoded, Octets(7, 9)) =
          IF Under(<<"integer", 7>>) = {} THEN <<>> ELSE The(<<"integer", 7>>).bytes
    BY <1>4, <2>1, <2>2, ValueFound
  <2>4. FieldValue(Encoded, AudioId) = IF Under(AudioKey) = {} THEN <<>> ELSE The(AudioKey).bytes
    BY <2>2, <2>3 DEF FieldValue, AudioId, AudioKey
  <2>5. AudioField(Encoded) = AudioIn(FieldValue(Encoded, AudioId))
    BY <1>2, <1>4 DEF AudioField
  <2>6. CASE Under(AudioKey) = {}
    <3>1. AudioIn(<<>>) = NoAudio
      BY DEF AudioIn
    <3> QED BY <1>4, <2>4, <2>5, <2>6, <3>1 DEF AudioMeant
  <2>7. CASE Under(AudioKey) # {}
    <3>1. PICK i \in Under(AudioKey) : The(AudioKey) = entries[i].value
      BY <2>7 DEF The
    <3>2. i \in 1 .. Len(entries) /\ entries[i].key = AudioKey /\ IsEntry(entries[i])
      BY <3>1, EntriesAre DEF Under
    <3>3. PICK v, kind, means : v = entries[i].value.bytes /\ kind = entries[i].value.kind /\ means = entries[i].value.means
      OBVIOUS
    <3>4. /\ v \in Seq(Byte) /\ Len(v) < Huge /\ SkipValueAt(v, 1, 0) = Len(v) + 1
          /\ IF kind = "audio" THEN EncodesAudio(v, means[1], means[2]) ELSE ~IsAudio(v)
      BY <3>2, <3>3 DEF IsEntry, AudioKey
    <3>5. v # <<>>
      <4> SUFFICES ASSUME v = <<>> PROVE FALSE
        OBVIOUS
      <4>1. SkipValueAt(v, 1, 0) = 1 /\ 1 \in Position /\ 0 \in Nat /\ 1 # Malformed
        BY <3>4 DEF Position, Malformed
      <4>2. SkipValueAt(v, 1, 0) \in 1 + 1 .. Len(v) + 1
        BY <3>4, <4>1, ValueEnds
      <4> QED BY <4>1, <4>2
    <3>6. AudioField(Encoded) = AudioIn(v)
      BY <2>4, <2>5, <2>7, <3>1, <3>3
    <3>7. CASE kind = "audio"
      <4>1. AudioIn(v) = [kind |-> "audio", mode |-> means[1], bytes |-> means[2]]
        BY <3>4, <3>7, AudioTaken
      <4>2. AudioMeant = [kind |-> "audio", mode |-> means[1], bytes |-> means[2]]
        BY <1>4, <2>7, <3>1, <3>3, <3>7 DEF AudioMeant
      <4> QED BY <3>6, <4>1, <4>2
    <3>8. CASE kind # "audio"
      <4>1. AudioIn(v) = BadAudio
        BY <3>4, <3>5, <3>8, NoAudioTaken
      <4>2. AudioMeant = BadAudio
        BY <1>4, <2>7, <3>1, <3>3, <3>8 DEF AudioMeant
      <4> QED BY <3>6, <4>1, <4>2
    <3> QED BY <3>7, <3>8
  <2> QED BY <2>6, <2>7
<1> QED BY <1>3, <1>4

(* Audio is what the sender put under its ID, in every encoding of the ID, *)
(* of the mode and of the framing, and nothing else is taken for audio.    *)
THEOREM AudioIsReadAsMeant == Spec => []AudioReadAsMeant
<1> DEFINE IInv == entries \in Maps /\ AudioReadAsMeant
<1>1. Init => IInv
  BY DEF Init, AudioReadAsMeant
<1>2. IInv /\ [Next]_vars => IInv'
  <2> SUFFICES ASSUME IInv, [Next]_vars PROVE IInv'
    OBVIOUS
  <2>0. ASSUME UNCHANGED <<entries, audio>> PROVE IInv'
    <3>1. AudioMeant' = AudioMeant
      BY <2>0 DEF AudioMeant, IsFieldsMap, KeysTold, KeysOf, Under, The
    <3> QED BY <2>0, <3>1 DEF AudioReadAsMeant
  <2>1. CASE ReadAudio
    <3>1. audio' = AudioMeant /\ entries' = entries
      BY <2>1, AudioRead DEF ReadAudio
    <3>2. AudioMeant' = AudioMeant
      BY <3>1 DEF AudioMeant, IsFieldsMap, KeysTold, KeysOf, Under, The
    <3> QED BY <3>1, <3>2 DEF AudioReadAsMeant
  <2>2. CASE ReadTicket
    BY <2>0, <2>2 DEF ReadTicket
  <2>3. CASE ReadMember
    BY <2>0, <2>3 DEF ReadMember
  <2>4. CASE Tick
    BY <2>0, <2>4 DEF Tick
  <2>5. CASE UNCHANGED vars
    BY <2>0, <2>5 DEF vars
  <2> QED BY <2>1, <2>2, <2>3, <2>4, <2>5 DEF Next
<1>3. IInv => AudioReadAsMeant
  OBVIOUS
<1> QED BY <1>1, <1>2, <1>3, PTL DEF Spec

-----------------------------------------------------------------------------
(* The walk over the keys of a schema map is what its recursion says.      *)
SchemaNext(f, x) ==
  IF x = Malformed \/ ~HasSchemaKey(f, x) THEN Malformed
  ELSE SkipValueAt(f, AfterSchemaKey(f, x), 0)

LEMMA SchemaNextIsNat ==
  ASSUME NEW f \in Seq(Byte), NEW x \in Nat
  PROVE  SchemaNext(f, x) \in Nat
<1>1. CASE x = Malformed \/ ~HasSchemaKey(f, x)
  BY <1>1 DEF SchemaNext, Malformed
<1>2. CASE x # Malformed /\ HasSchemaKey(f, x)
  <2>1. x \in Position /\ x <= Len(f)
    BY <1>2 DEF Malformed, Position, HasSchemaKey
  <2>2. PICK q : q = AfterSchemaKey(f, x)
    OBVIOUS
  <2>3. q \in Position
    <3>1. CASE IsText(f[x])
      <4>1. q = ReadBin(f, x) /\ q # Malformed
        BY <1>2, <2>2, <3>1 DEF AfterSchemaKey, HasSchemaKey
      <4>2. PICK w, n, e : w = LengthBytes(f[x]) /\ n = Announced(f, x) /\ e = x + (1 + w) + n
        OBVIOUS
      <4>3. ~ (x > Len(f))
        BY <2>1 DEF Position
      <4>4. q = IF ~IsBlob(f[x]) \/ x + (1 + w) > Len(f) + 1 THEN Malformed
                ELSE IF e <= Len(f) + 1 THEN e ELSE Malformed
        BY <4>1, <4>2, <4>3 DEF ReadBin
      <4>5. q = e /\ ~ (x + (1 + w) > Len(f) + 1)
        BY <4>1, <4>4
      <4>6. w \in Nat
        BY <4>2 DEF LengthBytes
      <4>7. x \in 1 .. Len(f) /\ x + w <= Len(f)
        BY <2>1, <4>5, <4>6 DEF Position
      <4>8. n \in Nat
        BY <4>2, <4>7, AnnouncedIsNat
      <4> QED BY <2>1, <4>2, <4>5, <4>6, <4>8 DEF Position
    <3>2. CASE ~IsText(f[x])
      <4>1. q = x + 1 + NumberBody(f[x])
        BY <2>2, <3>2 DEF AfterSchemaKey, AfterKey
      <4>2. NumberBody(f[x]) \in Nat
        BY DEF NumberBody
      <4> QED BY <2>1, <4>1, <4>2 DEF Position
    <3> QED BY <3>1, <3>2
  <2>4. SkipsForward(f, 1, 0, q)
    BY <2>3, SkipForward
  <2>5. SchemaNext(f, x) = SkipValueAt(f, q, 0)
    BY <1>2, <2>2 DEF SchemaNext
  <2> QED BY <2>4, <2>5 DEF SkipsForward, SkipValueAt
<1> QED BY <1>1, <1>2

LEMMA SchemaWalk ==
  ASSUME NEW f \in Seq(Byte)
  PROVE  /\ SchemaPosition(f)[1] = FirstEntry(f)
         /\ \A i \in Nat \ {0} : SchemaPosition(f)[i + 1] = SchemaNext(f, SchemaPosition(f)[i])
<1> DEFINE first == FirstEntry(f)
           step == [i \in Nat |-> [x \in Nat |-> SchemaNext(f, x)]]
           IsWalk(g) == g = [i \in Nat \ {0} |->
                               IF i = 1 THEN FirstEntry(f)
                               ELSE IF g[i - 1] = Malformed \/ ~HasSchemaKey(f, g[i - 1]) THEN Malformed
                               ELSE SkipValueAt(f, AfterSchemaKey(f, g[i - 1]), 0)]
<1>1. first \in Nat
  BY DEF FirstEntry, LengthBytes
<1>2. \A x \in Nat : SchemaNext(f, x) \in Nat
  BY SchemaNextIsNat
<1>3. step \in [Nat -> [Nat -> Nat]] /\ \A i \in Nat, x \in Nat : step[i][x] = SchemaNext(f, x)
  BY <1>2
<1> HIDE DEF first, step
<1>4. PICK r : Recurs(r, Nat, first, step)
  BY <1>1, <1>3, NatRecursion, Zenon
<1>5. r[0] = first /\ \A i \in Nat : r[i] \in Nat /\ r[i + 1] = SchemaNext(f, r[i])
  BY <1>3, <1>4 DEF Recurs
<1>6. \E g : IsWalk(g)
  <2> DEFINE g == [i \in Nat \ {0} |-> r[i - 1]]
  <2>1. IsWalk(g)
    <3> SUFFICES ASSUME NEW i \in Nat \ {0}
                 PROVE  r[i - 1] = IF i = 1 THEN FirstEntry(f)
                                   ELSE IF g[i - 1] = Malformed \/ ~HasSchemaKey(f, g[i - 1]) THEN Malformed
                                   ELSE SkipValueAt(f, AfterSchemaKey(f, g[i - 1]), 0)
      OBVIOUS
    <3>1. CASE i = 1
      BY <1>5, <3>1 DEF first
    <3>2. CASE i # 1
      <4>1. i - 2 \in Nat /\ i - 2 + 1 = i - 1 /\ i - 1 \in Nat \ {0} /\ i - 1 - 1 = i - 2
        BY <3>2
      <4>2. r[i - 1] = SchemaNext(f, r[i - 2]) /\ g[i - 1] = r[i - 2]
        BY <1>5, <4>1
      <4> QED BY <3>2, <4>2 DEF SchemaNext
    <3> QED BY <3>1, <3>2
  <2> QED BY <2>1
<1>7. IsWalk(SchemaPosition(f))
  BY <1>6 DEF SchemaPosition
<1> DEFINE at == SchemaPosition(f)
<1> HIDE DEF at
<1>8. at[1] = first
  BY <1>7 DEF first, at
<1>9. ASSUME NEW i \in Nat \ {0} PROVE at[i + 1] = SchemaNext(f, at[i])
  <2>1. i + 1 \in Nat \ {0} /\ i + 1 # 1 /\ i + 1 - 1 = i
    OBVIOUS
  <2> QED BY <1>7, <2>1 DEF at, SchemaNext
<1> QED BY <1>8, <1>9 DEF first, at

-----------------------------------------------------------------------------
(* What the reader makes of the i-th key: the integer's identity or the    *)
(* text; nothing, of one that is broken.                                   *)
IsTextKey(i) == entries[i].key[1] = "text"
ReadAs(i) ==
  IF IsTextKey(i) THEN entries[i].key ELSE <<"integer", KeyId(i)>>
SchemaKeyReads(at, i) ==
  /\ HasSchemaKey(Encoded, at[i]) /\ SchemaKey(Encoded, at[i]) = ReadAs(i)
  /\ AfterSchemaKey(Encoded, at[i]) = ValueStart(at, i)
  /\ SchemaNext(Encoded, at[i]) = at[i + 1]

LEMMA IntegersAreNoTexts ==
  ASSUME NEW c, IsInteger(c)
  PROVE  ~IsText(c)
  BY DEF IsInteger, IsText, FixStr

LEMMA TextKeyHeld ==
  ASSUME entries \in Maps, NEW i \in 1 .. Len(entries), IsTextKey(i)
  PROVE  /\ entries[i].key = <<"text", entries[i].key[2]>> /\ Utf8(entries[i].key[2])
         /\ HoldsBlob(KeyOf(i), entries[i].key[2]) /\ KeyOf(i)[1] \in TextCodes
<1>1. IsKey(entries[i].key, KeyOf(i)) /\ Len(KeyOf(i)) < Huge
  BY EntriesAre DEF IsEntry, KeyOf
<1>2. /\ entries[i].key \in {"text"} \X Seq(Byte) /\ Utf8(entries[i].key[2])
      /\ EncodesBlob(KeyOf(i), entries[i].key[2], TextCodes)
  BY <1>1 DEF IsKey, IsTextKey
<1>3. entries[i].key = <<"text", entries[i].key[2]>>
  BY <1>2
<1>4. HoldsBlob(KeyOf(i), entries[i].key[2]) /\ KeyOf(i)[1] \in TextCodes
  BY <1>1, <1>2, BlobHeld
<1> QED BY <1>2, <1>3, <1>4

LEMMA SchemaKeyRead ==
  ASSUME entries \in Maps, NEW at, Lies(at), NEW i \in 1 .. Len(entries),
         IsIntegerKey(i) \/ IsTextKey(i)
  PROVE  SchemaKeyReads(at, i)
<1>1. at[i] \in Position /\ Encoded \in Seq(Byte) /\ LiesIn(KeyOf(i), Encoded, at[i]) /\ KeyOf(i) \in Seq(Byte)
  BY EntryHolds DEF EntryLies
<1>2. /\ HasSchemaKey(Encoded, at[i]) /\ SchemaKey(Encoded, at[i]) = ReadAs(i)
      /\ AfterSchemaKey(Encoded, at[i]) = ValueStart(at, i)
  <2>1. CASE IsTextKey(i)
    <3>1. /\ HoldsBlob(KeyOf(i), entries[i].key[2]) /\ KeyOf(i)[1] \in TextCodes
          /\ entries[i].key = <<"text", entries[i].key[2]>> /\ Utf8(entries[i].key[2])
      BY <2>1, TextKeyHeld
    <3>2. ReadBin(Encoded, at[i]) = at[i] + Len(KeyOf(i)) /\ Encoded[at[i]] = KeyOf(i)[1]
      BY <1>1, <3>1, BlobSkipped
    <3>3. ValueAsBytes(SubSeq(Encoded, at[i], Len(Encoded))) = entries[i].key[2]
      BY <1>1, <3>1, BlobRead
    <3>4. IsText(Encoded[at[i]])
      BY <3>1, <3>2, TextsAreNoIntegers
    <3>5. at[i] <= Len(Encoded) /\ ReadBin(Encoded, at[i]) # Malformed
      <4>1. KeyOf(i) # <<>>
        BY <3>1 DEF HoldsBlob
      <4>2. Len(KeyOf(i)) >= 1 /\ at[i] + Len(KeyOf(i)) <= Len(Encoded) + 1
        BY <1>1, <4>1 DEF LiesIn
      <4> QED BY <1>1, <3>2, <4>2 DEF Position, Malformed
    <3>6. HasSchemaKey(Encoded, at[i])
      BY <3>1, <3>3, <3>4, <3>5 DEF HasSchemaKey
    <3>7. SchemaKey(Encoded, at[i]) = ReadAs(i)
      BY <2>1, <3>1, <3>3, <3>4 DEF SchemaKey, ReadAs
    <3> QED BY <3>2, <3>4, <3>6, <3>7 DEF AfterSchemaKey, ValueStart
  <2>2. CASE IsIntegerKey(i)
    <3>1. /\ HasFieldId(Encoded, at[i]) /\ FieldId(Encoded, at[i]) = KeyId(i)
          /\ AfterKey(Encoded, at[i]) = ValueStart(at, i) /\ ~IsText(Encoded[at[i]])
      BY <2>2, IntegerKeyRead, IntegersAreNoTexts
    <3>2. ~IsTextKey(i)
      BY <2>2 DEF IsTextKey, IsIntegerKey
    <3>3. at[i] <= Len(Encoded)
      BY <3>1 DEF HasFieldId
    <3> QED BY <3>1, <3>2, <3>3 DEF HasSchemaKey, SchemaKey, AfterSchemaKey, ReadAs
  <2> QED BY <2>1, <2>2
<1>3. SchemaNext(Encoded, at[i]) = at[i + 1]
  <2>1. SkipValueAt(Encoded, ValueStart(at, i), 0) = at[i + 1]
    BY ValueSkipped
  <2>2. at[i] # Malformed
    BY <1>1 DEF Position, Malformed
  <2> QED BY <1>2, <2>1, <2>2 DEF SchemaNext
<1> QED BY <1>2, <1>3 DEF SchemaKeyReads

LEMMA BrokenKeyRead ==
  ASSUME entries \in Maps, NEW at, Lies(at), NEW i \in 1 .. Len(entries),
         ~IsIntegerKey(i), ~IsTextKey(i)
  PROVE  ~HasSchemaKey(Encoded, at[i]) /\ entries[i].key[1] = "broken"
<1>1. /\ at[i] \in Position /\ Encoded \in Seq(Byte) /\ LiesIn(KeyOf(i), Encoded, at[i])
      /\ KeyOf(i) \in Seq(Byte) /\ IsKey(entries[i].key, KeyOf(i)) /\ Len(KeyOf(i)) < Huge
  BY EntryHolds DEF EntryLies
<1>2. /\ entries[i].key \in {"broken"} \X Seq(Byte) /\ KeyOf(i) # <<>> /\ ~IsInteger(KeyOf(i)[1])
      /\ IsText(KeyOf(i)[1]) => EncodesBlob(KeyOf(i), entries[i].key[2], TextCodes) /\ ~Utf8(entries[i].key[2])
  BY <1>1 DEF IsKey, IsIntegerKey, IsTextKey
<1>3. Encoded[at[i]] = KeyOf(i)[1]
  <2>1. 1 \in 1 .. Len(KeyOf(i))
    BY <1>1, <1>2
  <2>2. Encoded[at[i] + 1 - 1] = KeyOf(i)[1]
    BY <1>1, <2>1 DEF LiesIn
  <2>3. at[i] + 1 - 1 = at[i]
    BY <1>1 DEF Position
  <2> QED BY <2>2, <2>3
<1>4. CASE IsText(KeyOf(i)[1])
  <2>1. HoldsBlob(KeyOf(i), entries[i].key[2])
    BY <1>1, <1>2, <1>4, BlobHeld
  <2>2. ValueAsBytes(SubSeq(Encoded, at[i], Len(Encoded))) = entries[i].key[2]
    BY <1>1, <2>1, BlobRead
  <2> QED BY <1>2, <1>3, <1>4, <2>2 DEF HasSchemaKey
<1>5. CASE ~IsText(KeyOf(i)[1])
  BY <1>2, <1>3, <1>5 DEF HasSchemaKey, HasFieldId
<1>6. entries[i].key[1] = "broken"
  BY <1>2
<1> QED BY <1>4, <1>5, <1>6

-----------------------------------------------------------------------------
(* Keys that can be read are told apart as they are meant.                 *)
Reads(i) == IsIntegerKey(i) \/ IsTextKey(i)
LEMMA SchemaKeysApart ==
  ASSUME entries \in Maps, NEW i \in 1 .. Len(entries), NEW j \in 1 .. Len(entries), Reads(i), Reads(j)
  PROVE  ReadAs(i) = ReadAs(j) <=> entries[i].key = entries[j].key
<1>1. CASE IsTextKey(i) /\ IsTextKey(j)
  BY <1>1 DEF ReadAs
<1>2. CASE ~IsTextKey(i) /\ ~IsTextKey(j)
  <2>1. KeyId(i) = KeyId(j) <=> entries[i].key = entries[j].key
    BY <1>2, KeysApart DEF Reads
  <2>2. ReadAs(i) = <<"integer", KeyId(i)>> /\ ReadAs(j) = <<"integer", KeyId(j)>>
    BY <1>2 DEF ReadAs
  <2> QED BY <2>1, <2>2
<1>3. ASSUME NEW a \in 1 .. Len(entries), NEW b \in 1 .. Len(entries), IsTextKey(a), ~IsTextKey(b)
      PROVE  ReadAs(a) # ReadAs(b) /\ entries[a].key # entries[b].key
  <2>1. ReadAs(a)[1] = "text" /\ ReadAs(b) = <<"integer", KeyId(b)>>
    BY <1>3 DEF ReadAs, IsTextKey
  <2>2. ReadAs(b)[1] = "integer"
    BY <2>1
  <2>3. "text" # "integer"
    OBVIOUS
  <2>4. entries[a].key[1] = "text" /\ entries[b].key[1] # "text"
    BY <1>3 DEF IsTextKey
  <2> QED BY <2>1, <2>2, <2>3, <2>4, Zenon
<1>4. CASE IsTextKey(i) /\ ~IsTextKey(j)
  BY <1>3, <1>4, Zenon
<1>5. CASE ~IsTextKey(i) /\ IsTextKey(j)
  BY <1>3, <1>5, Zenon
<1> QED BY <1>1, <1>2, <1>4, <1>5, Zenon

(* Every entry takes two bytes at least.                                   *)
LEMMA EntryFilled ==
  ASSUME entries \in Maps, NEW at, Lies(at), NEW i \in 1 .. Len(entries)
  PROVE  at[i + 1] >= at[i] + 2
<1>1. /\ at[i] \in Position /\ EntryLies(at, i) /\ IsEntry(entries[i])
      /\ IsKey(entries[i].key, KeyOf(i)) /\ Len(KeyOf(i)) < Huge
  BY EntryHolds
<1>2. /\ KeyOf(i) \in Seq(Byte) /\ ValueOf(i) \in Seq(Byte)
      /\ at[i + 1] = at[i] + Len(KeyOf(i)) + Len(ValueOf(i))
  BY <1>1 DEF EntryLies
<1>3. KeyOf(i) # <<>>
  <2>1. CASE IsIntegerKey(i)
    BY <2>1, IntegerKeyHeld DEF HoldsInteger
  <2>2. CASE IsTextKey(i)
    BY <2>2, TextKeyHeld DEF HoldsBlob
  <2>3. CASE ~IsIntegerKey(i) /\ ~IsTextKey(i)
    BY <1>1, <2>3 DEF IsKey, IsIntegerKey, IsTextKey
  <2> QED BY <2>1, <2>2, <2>3
<1>4. ValueOf(i) # <<>>
  <2> SUFFICES ASSUME ValueOf(i) = <<>> PROVE FALSE
    OBVIOUS
  <2>1. SkipValueAt(ValueOf(i), 1, 0) = Len(ValueOf(i)) + 1
    BY <1>1 DEF IsEntry, ValueOf
  <2>2. SkipValueAt(ValueOf(i), 1, 0) = 1 /\ 1 \in Position /\ 0 \in Nat /\ 1 # Malformed
    BY <2>1 DEF Position, Malformed
  <2>3. SkipValueAt(ValueOf(i), 1, 0) \in 1 + 1 .. Len(ValueOf(i)) + 1
    BY <1>2, <2>2, ValueEnds
  <2> QED BY <2>2, <2>3
<1>5. PICK a, k, v \in Nat : a = at[i] /\ k = Len(KeyOf(i)) /\ v = Len(ValueOf(i))
  BY <1>1, <1>2 DEF Position
<1>6. k >= 1 /\ v >= 1
  BY <1>2, <1>3, <1>4, <1>5
<1>7. a + k + v >= a + 2
  BY <1>5, <1>6
<1> QED BY <1>2, <1>5, <1>7

LEMMA EntriesFill ==
  ASSUME entries \in Maps, NEW at, Lies(at)
  PROVE  2 + 2 * Len(entries) <= Len(Encoded) + 1
<1>1. PICK n \in 0 .. 15 : n = Len(entries)
  BY EntriesAre
<1>2. at[1] = 2 /\ at \in [Position -> Position] /\ at[n + 1] = Len(Encoded) + 1
  BY <1>1 DEF Lies
<1> DEFINE T == {k \in Nat : k <= n => 2 + 2 * k <= at[k + 1]}
<1>3. 0 \in T
  BY <1>2
<1>4. ASSUME NEW k \in Nat, k \in T PROVE k + 1 \in T
  <2> SUFFICES ASSUME k + 1 <= n PROVE 2 + 2 * (k + 1) <= at[(k + 1) + 1]
    OBVIOUS
  <2>1. PICK i \in Position : i = k + 1
    BY DEF Position
  <2>2. i \in 1 .. Len(entries) /\ k <= n
    BY <1>1, <2>1 DEF Position
  <2>3. at[i + 1] >= at[i] + 2
    BY <2>2, EntryFilled
  <2>4. 2 + 2 * k <= at[i]
    BY <1>4, <2>1, <2>2
  <2>5. PICK x, y \in Nat : x = at[i] /\ y = at[i + 1]
    <3>1. i + 1 \in Position
      BY DEF Position
    <3>2. at[i] \in Position /\ at[i + 1] \in Position
      BY <1>2, <3>1
    <3> QED BY <3>2 DEF Position
  <2>6. 2 + 2 * (k + 1) <= y
    BY <2>3, <2>4, <2>5
  <2> QED BY <2>1, <2>5, <2>6
<1> HIDE DEF T
<1>5. n \in T
  BY <1>3, <1>4, SetInduction
<1> QED BY <1>1, <1>2, <1>5 DEF T

(* The walk finds the keys where they lie, up to the first broken one.     *)
LEMMA SchemaWalkFinds ==
  ASSUME entries \in Maps, NEW at, Lies(at), NEW m \in 0 .. Len(entries),
         \A i \in 1 .. m : Reads(i)
  PROVE  \A i \in 1 .. m + 1 : SchemaPosition(Encoded)[i] = at[i]
<1> DEFINE pos == SchemaPosition(Encoded)
           T == {k \in Nat : k <= m => pos[k + 1] = at[k + 1]}
<1>1. Encoded \in Seq(Byte) /\ FirstEntry(Encoded) = 2 /\ at[1] = 2
  BY DEF Lies
<1>2. pos[1] = FirstEntry(Encoded) /\ \A i \in Nat \ {0} : pos[i + 1] = SchemaNext(Encoded, pos[i])
  BY <1>1, SchemaWalk
<1> HIDE DEF pos
<1>3. 0 \in T
  BY <1>1, <1>2
<1>m. m \in Nat /\ \A k \in 1 .. m : k \in 1 .. Len(entries)
  <2>1. PICK n \in 0 .. 15 : n = Len(entries)
    BY EntriesAre
  <2>2. m \in 0 .. n
    BY <2>1
  <2>3. \A k \in 1 .. m : k \in 1 .. n
    BY <2>2
  <2> QED BY <2>1, <2>2, <2>3
<1>4. ASSUME NEW k \in Nat, k \in T PROVE k + 1 \in T
  <2> SUFFICES ASSUME k + 1 <= m PROVE pos[(k + 1) + 1] = at[(k + 1) + 1]
    OBVIOUS
  <2>1. PICK i \in Nat \ {0} : i = k + 1
    OBVIOUS
  <2>2. i \in 1 .. m /\ k <= m
    BY <1>m, <2>1
  <2>3. pos[i] = at[i]
    BY <1>4, <2>1, <2>2
  <2>4. i \in 1 .. Len(entries) /\ Reads(i)
    BY <1>m, <2>2
  <2>5. SchemaNext(Encoded, at[i]) = at[i + 1]
    BY <2>4, SchemaKeyRead DEF Reads, SchemaKeyReads
  <2>6. pos[i + 1] = at[i + 1]
    BY <1>2, <2>3, <2>5
  <2> QED BY <2>1, <2>6
<1> HIDE DEF T
<1>5. Nat \subseteq T
  BY <1>3, <1>4, SetInduction
<1>6. ASSUME NEW i \in 1 .. m + 1 PROVE pos[i] = at[i]
  <2>1. PICK k \in Nat : k + 1 = i /\ k <= m
    <3>1. i - 1 \in Nat /\ (i - 1) + 1 = i /\ i - 1 <= m
      BY <1>m
    <3> QED BY <3>1
  <2> QED BY <1>5, <2>1 DEF T
<1> QED BY <1>6 DEF pos

-----------------------------------------------------------------------------
(* map_bytes_value finds the member that the sender means.                 *)
LEMMA MemberRead ==
  ASSUME entries \in Maps
  PROVE  MapBytesValue(Encoded, Text) = MemberMeant
<1>1. PICK at : Lies(at)
  BY EntriesLie
<1> DEFINE pos == SchemaPosition(Encoded)
           key == <<"text", Text>>
<1>2. PICK n \in 0 .. 15 : n = Len(entries)
  BY EntriesAre
<1>3. /\ n <= MaxFields /\ DOMAIN entries = 1 .. n /\ HasMapHeader(Encoded) /\ MapCount(Encoded) = n
      /\ FirstEntry(Encoded) = 2 /\ at[n + 1] = Len(Encoded) + 1 /\ at \in [Position -> Position]
      /\ Encoded \in Seq(Byte)
  BY <1>1, <1>2, EntriesAre DEF Lies
<1>4. n <= (Len(Encoded) + 1 - FirstEntry(Encoded)) \div 2
  <2>1. PICK k \in Nat : k = Len(Encoded)
    BY <1>3
  <2>2. 2 + 2 * n <= k + 1
    BY <1>1, <1>2, <2>1, EntriesFill
  <2>3. n <= (k + 1 - 2) \div 2
    BY <2>2
  <2> QED BY <1>3, <2>1, <2>3
<1>5. ASSUME \A i \in 1 .. n : Reads(i)
      PROVE  /\ \A i \in 1 .. n + 1 : pos[i] = at[i] /\ pos[i] # Malformed
             /\ \A i \in 1 .. n : /\ SchemaKey(Encoded, pos[i]) = ReadAs(i)
                                  /\ AfterSchemaKey(Encoded, pos[i]) = ValueStart(at, i)
  <2>1. n \in 0 .. Len(entries)
    BY <1>2
  <2>2. \A i \in 1 .. n + 1 : pos[i] = at[i]
    BY <1>1, <1>5, <2>1, SchemaWalkFinds
  <2>3. \A i \in 1 .. n + 1 : at[i] # Malformed
    <3>1. \A i \in 1 .. n + 1 : i \in Position
      BY DEF Position
    <3>2. \A x \in Position : x # Malformed
      BY DEF Position, Malformed
    <3> QED BY <1>3, <3>1, <3>2
  <2>4. ASSUME NEW i \in 1 .. n
        PROVE  /\ SchemaKey(Encoded, pos[i]) = ReadAs(i)
               /\ AfterSchemaKey(Encoded, pos[i]) = ValueStart(at, i)
    <3>1. i \in 1 .. Len(entries) /\ Reads(i) /\ i \in 1 .. n + 1
      BY <1>2, <1>5
    <3>2. pos[i] = at[i]
      BY <2>2, <3>1
    <3> HIDE DEF pos
    <3>3. SchemaKeyReads(at, i)
      BY <1>1, <3>1, SchemaKeyRead DEF Reads
    <3> QED BY <3>2, <3>3 DEF SchemaKeyReads
  <2> HIDE DEF pos
  <2> QED BY <2>2, <2>3, <2>4
<1>6. ASSUME ~ \A i \in 1 .. n : Reads(i)
      PROVE  /\ ~ \A i \in 1 .. n + 1 : pos[i] # Malformed
             /\ \E i \in 1 .. n : entries[i].key[1] = "broken"
  <2> DEFINE O == {i \in Nat : i \in 1 .. n /\ ~Reads(i)}
  <2>1. O # {} /\ O \subseteq Nat
    BY <1>6
  <2>2. PICK i \in O : \A j \in O : i <= j
    BY <2>1, LeastOf
  <2>3. PICK m \in Nat : m + 1 = i
    <3>1. i - 1 \in Nat /\ (i - 1) + 1 = i
      OBVIOUS
    <3> QED BY <3>1
  <2>4. m \in 0 .. n /\ i \in 1 .. n /\ i \in 1 .. m + 1 /\ ~Reads(i) /\ i \in Nat \ {0} /\ i + 1 \in 1 .. n + 1
    BY <1>2, <2>3
  <2>5. \A j \in 1 .. m : Reads(j)
    <3> SUFFICES ASSUME NEW j \in 1 .. m, ~Reads(j) PROVE FALSE
      OBVIOUS
    <3>1. j \in O /\ j < i
      BY <1>2, <2>3, <2>4
    <3> QED BY <2>2, <3>1
  <2> HIDE DEF O
  <2>6. pos[i] = at[i]
    <3>1. m \in 0 .. Len(entries)
      BY <1>2, <2>4
    <3> QED BY <1>1, <2>4, <2>5, <3>1, SchemaWalkFinds
  <2>7. ~HasSchemaKey(Encoded, at[i]) /\ entries[i].key[1] = "broken"
    BY <1>1, <1>2, <2>4, BrokenKeyRead DEF Reads
  <2>8. pos[i + 1] = SchemaNext(Encoded, pos[i])
    BY <1>3, <2>4, SchemaWalk
  <2> HIDE DEF pos
  <2>9. pos[i + 1] = Malformed
    BY <2>6, <2>7, <2>8 DEF SchemaNext
  <2> QED BY <2>4, <2>7, <2>9
<1> HIDE DEF pos
<1> DEFINE named == {i \in 1 .. n : SchemaKey(Encoded, pos[i]) = key}
           Takes == /\ Utf8(Text)
                    /\ \A i \in 1 .. n + 1 : pos[i] # Malformed
                    /\ pos[n + 1] = Len(Encoded) + 1
                    /\ KeysDiffer(Encoded, pos, n)
                    /\ named # {}
           Found == LET i == CHOOSE i \in named : TRUE
                    IN  SubSeq(Encoded, AfterSchemaKey(Encoded, pos[i]), pos[i + 1] - 1)
<1>7. MapBytesValue(Encoded, Text) = IF Takes THEN Found ELSE <<>>
  BY <1>3, <1>4 DEF MapBytesValue, pos
<1> HIDE DEF Takes, Found, named
<1>8. CASE ~ \A i \in 1 .. n : Reads(i)
  <2>1. ~Takes
    BY <1>6, <1>8 DEF Takes
  <2>2. MemberMeant = <<>>
    BY <1>3, <1>6, <1>8 DEF MemberMeant
  <2> QED BY <1>7, <2>1, <2>2
<1>9. CASE \A i \in 1 .. n : Reads(i)
  <2>1. /\ \A i \in 1 .. n + 1 : pos[i] = at[i] /\ pos[i] # Malformed
        /\ \A i \in 1 .. n : /\ SchemaKey(Encoded, pos[i]) = ReadAs(i)
                             /\ AfterSchemaKey(Encoded, pos[i]) = ValueStart(at, i)
    BY <1>5, <1>9
  <2>2. \A i \in 1 .. n : entries[i].key[1] # "broken"
    BY <1>9 DEF Reads, IsIntegerKey, IsTextKey
  <2>3. KeysDiffer(Encoded, pos, n) <=> KeysTold
    <3>1. KeysDiffer(Encoded, pos, n) <=> \A i, j \in 1 .. n : i < j => ReadAs(i) # ReadAs(j)
      BY <2>1 DEF KeysDiffer
    <3>2. \A i, j \in 1 .. n : ReadAs(i) = ReadAs(j) <=> entries[i].key = entries[j].key
      BY <1>2, <1>9, SchemaKeysApart
    <3>3. (\A i, j \in 1 .. n : i < j => entries[i].key # entries[j].key) <=> KeysTold
      <4>1. ASSUME \A i, j \in 1 .. n : i < j => entries[i].key # entries[j].key,
                   NEW i \in 1 .. n, NEW j \in 1 .. n, entries[i].key = entries[j].key
            PROVE  i = j
        <5>1. ~ (i < j) /\ ~ (j < i)
          BY <4>1
        <5> QED BY <5>1
      <4>2. ASSUME KeysTold, NEW i \in 1 .. n, NEW j \in 1 .. n, i < j
            PROVE  entries[i].key # entries[j].key
        <5>1. i # j
          BY <4>2
        <5> QED BY <1>3, <4>2, <5>1 DEF KeysTold
      <4> QED BY <1>3, <4>1, <4>2 DEF KeysTold
    <3> QED BY <3>1, <3>2, <3>3
  <2>4. pos[n + 1] = Len(Encoded) + 1
    <3>1. n + 1 \in 1 .. n + 1
      BY <1>2
    <3> QED BY <1>3, <2>1, <3>1
  <2>5. named = Under(key)
    <3>1. ASSUME NEW i \in 1 .. n PROVE SchemaKey(Encoded, pos[i]) = key <=> entries[i].key = key
      <4>1. CASE IsTextKey(i)
        BY <2>1, <4>1 DEF ReadAs
      <4>2. CASE ~IsTextKey(i)
        <5>1. entries[i].key # key
          <6>1. key[1] = "text"
            OBVIOUS
          <6> QED BY <4>2, <6>1, Zenon DEF IsTextKey
        <5>2. ReadAs(i) # key
          <6>1. ReadAs(i) = <<"integer", KeyId(i)>>
            BY <4>2 DEF ReadAs
          <6>2. ReadAs(i)[1] = "integer" /\ key[1] = "text" /\ "text" # "integer"
            BY <6>1
          <6> QED BY <6>2, Zenon
        <5> QED BY <2>1, <5>1, <5>2
      <4> QED BY <4>1, <4>2
    <3> HIDE DEF key
    <3> QED BY <1>3, <3>1 DEF named, Under
  <2>6. Takes <=> Utf8(Text) /\ KeysTold /\ Under(key) # {}
    BY <2>1, <2>3, <2>4, <2>5 DEF Takes
  <2>7. MemberMeant = IF KeysTold /\ Under(key) # {} THEN The(key).bytes ELSE <<>>
    BY <1>3, <2>2 DEF MemberMeant
  <2>8. CASE ~ (KeysTold /\ Under(key) # {})
    <3> HIDE DEF key
    <3> QED BY <1>7, <2>6, <2>7, <2>8
  <2>9. CASE KeysTold /\ Under(key) # {}
    <3>1. PICK i : i = CHOOSE j \in named : TRUE
      OBVIOUS
    <3>2. i \in Under(key) /\ i = CHOOSE j \in Under(key) : TRUE
      <4> HIDE DEF key
      <4> QED BY <2>5, <2>9, <3>1
    <3>3. i \in 1 .. n /\ entries[i].key = key
      BY <1>3, <3>2 DEF Under
    <3>4. IsTextKey(i) /\ i \in 1 .. Len(entries) /\ i \in 1 .. n + 1 /\ i + 1 \in 1 .. n + 1
      BY <1>2, <3>3 DEF IsTextKey
    <3>5. Utf8(Text)
      <4>1. Utf8(entries[i].key[2])
        BY <3>4, TextKeyHeld
      <4>2. entries[i].key[2] = Text
        BY <3>3
      <4> QED BY <4>1, <4>2
    <3>6. Found = SubSeq(Encoded, ValueStart(at, i), at[i + 1] - 1)
      BY <2>1, <3>1, <3>3, <3>4 DEF Found
    <3>7. /\ ValueStart(at, i) \in Position /\ ValueOf(i) \in Seq(Byte)
          /\ LiesIn(ValueOf(i), Encoded, ValueStart(at, i))
          /\ at[i + 1] = ValueStart(at, i) + Len(ValueOf(i)) /\ at[i + 1] \in Nat
      BY <1>1, <3>4, EntryHolds, ValueSkipped DEF EntryLies, ValueStart, Position
    <3>8. Found = ValueOf(i)
      <4>1. SubSeq(Encoded, ValueStart(at, i), at[i + 1] - 1) = ValueOf(i)
        BY <1>3, <3>7, PieceCut
      <4> QED BY <3>6, <4>1
    <3>9. The(key).bytes = ValueOf(i)
      <4> HIDE DEF key
      <4> QED BY <3>2 DEF The, ValueOf
    <3> HIDE DEF key
    <3> QED BY <1>7, <2>6, <2>7, <2>9, <3>5, <3>8, <3>9
  <2> QED BY <2>8, <2>9
<1> QED BY <1>8, <1>9

(* A member of a schema map is looked up by its text alone, whatever       *)
(* header the text is written with; an integer key never answers for it,   *)
(* and a doubled or unreadable key anywhere makes the map unreadable.      *)
THEOREM MemberIsReadAsMeant == Spec => []MemberReadAsMeant
<1> DEFINE IInv == entries \in Maps /\ MemberReadAsMeant
<1>1. Init => IInv
  BY DEF Init, MemberReadAsMeant
<1>2. IInv /\ [Next]_vars => IInv'
  <2> SUFFICES ASSUME IInv, [Next]_vars PROVE IInv'
    OBVIOUS
  <2>0. ASSUME entries' = entries PROVE MemberMeant' = MemberMeant
    BY <2>0 DEF MemberMeant, KeysTold, Under, The
  <2>1. CASE ReadMember
    <3>1. member' = MemberMeant /\ entries' = entries
      BY <2>1, MemberRead DEF ReadMember
    <3> QED BY <2>0, <3>1 DEF MemberReadAsMeant
  <2>2. CASE ReadAudio
    BY <2>0, <2>2 DEF ReadAudio, MemberReadAsMeant
  <2>3. CASE ReadTicket
    BY <2>0, <2>3 DEF ReadTicket, MemberReadAsMeant
  <2>4. CASE Tick
    BY <2>0, <2>4 DEF Tick, MemberReadAsMeant
  <2>5. CASE UNCHANGED vars
    BY <2>0, <2>5 DEF vars, MemberReadAsMeant
  <2> QED BY <2>1, <2>2, <2>3, <2>4, <2>5 DEF Next
<1>3. IInv => MemberReadAsMeant
  OBVIOUS
<1> QED BY <1>1, <1>2, <1>3, PTL DEF Spec

-----------------------------------------------------------------------------
(* A sum over digits is an integer: it is computed digit by digit, and     *)
(* each adds one.                                                          *)
PowerTable(low, T) == [s \in SUBSET T |-> 0]
AddPower(low, T, t) ==
  [s \in SUBSET T |->
     IF s = {} THEN 0 ELSE 2^((CHOOSE x \in s : TRUE) - low) + t[s \ {CHOOSE x \in s : TRUE}]]
IsPowerSum(g, low, T) == g = AddPower(low, T, g)

LEMMA PowersAreInt ==
  \A j \in 0 .. 11 : 2^j \in Int
<1>1. 2^0 \in Int /\ 2^1 \in Int /\ 2^2 \in Int /\ 2^3 \in Int /\ 2^4 \in Int /\ 2^5 \in Int
  OBVIOUS
<1>2. 2^6 \in Int /\ 2^7 \in Int /\ 2^8 \in Int /\ 2^9 \in Int /\ 2^10 \in Int /\ 2^11 \in Int
  OBVIOUS
<1>3. \A j \in 0 .. 11 : j = 0 \/ j = 1 \/ j = 2 \/ j = 3 \/ j = 4 \/ j = 5 \/ j = 6 \/ j = 7
                         \/ j = 8 \/ j = 9 \/ j = 10 \/ j = 11
  OBVIOUS
<1> QED BY <1>1, <1>2, <1>3

LEMMA PowerSumExists ==
  ASSUME NEW low \in Nat, NEW T, T \subseteq low .. low + 11
  PROVE  \E g : IsPowerSum(g, low, T)
<1> DEFINE Tables == [SUBSET T -> Int]
           up(t) == AddPower(low, T, t)
           step  == [i \in Nat |-> [t \in Tables |-> up(t)]]
           first == PowerTable(low, T)
<1>1. first \in Tables
  BY DEF PowerTable
<1>2. ASSUME NEW t \in Tables PROVE up(t) \in Tables
  <2>1. ASSUME NEW s \in SUBSET T, s # {}
        PROVE  2^((CHOOSE x \in s : TRUE) - low) + t[s \ {CHOOSE x \in s : TRUE}] \in Int
    <3>1. PICK x : x = CHOOSE x1 \in s : TRUE
      OBVIOUS
    <3>2. x \in s /\ x \in low .. low + 11
      BY <2>1, <3>1
    <3>3. x - low \in 0 .. 11
      BY <3>2
    <3>4. 2^(x - low) \in Int
      BY <3>3, PowersAreInt
    <3>5. t[s \ {x}] \in Int
      BY <1>2
    <3>6. 2^(x - low) + t[s \ {x}] \in Int
      BY <3>4, <3>5
    <3> QED BY <3>1, <3>6
  <2> QED BY <2>1 DEF AddPower
<1>3. step \in [Nat -> [Tables -> Tables]] /\ \A i \in Nat, t \in Tables : step[i][t] = up(t)
  BY <1>2
<1> HIDE DEF Tables, step, first, up
<1>4. PICK r : Recurs(r, Tables, first, step)
  BY <1>1, <1>3, NatRecursion, Zenon
<1>5. r[0] = first /\ \A i \in Nat : r[i] \in Tables /\ r[i + 1] = up(r[i])
  BY <1>3, <1>4 DEF Recurs
<1>6. IsFiniteSet(T)
  <2>1. IsFiniteSet(low .. low + 11)
    BY FS_Interval
  <2> QED BY <2>1, FS_Subset
<1>7. ASSUME NEW s \in SUBSET T
      PROVE  IsFiniteSet(s) /\ Cardinality(s) \in Nat
  BY <1>6, FS_Subset, FS_CardinalityType
<1> DEFINE g == [s \in SUBSET T |-> r[Cardinality(s)][s]]
<1>8. ASSUME NEW s \in SUBSET T
      PROVE  g[s] = IF s = {} THEN 0
                    ELSE 2^((CHOOSE x \in s : TRUE) - low) + g[s \ {CHOOSE x \in s : TRUE}]
  <2>1. CASE s = {}
    <3>1. Cardinality(s) = 0
      BY <2>1, FS_EmptySet
    <3> QED BY <1>5, <2>1, <3>1 DEF first, PowerTable
  <2>2. CASE s # {}
    <3>1. PICK x : x = CHOOSE x1 \in s : TRUE
      OBVIOUS
    <3>2. x \in s /\ s \ {x} \in SUBSET T
      BY <2>2, <3>1
    <3>3. PICK n \in Nat : n = Cardinality(s \ {x})
      BY <1>7, <3>2
    <3>4. Cardinality(s) = n + 1
      <4>1. Cardinality(s \ {x}) = Cardinality(s) - 1
        BY <1>7, <3>2, FS_RemoveElement
      <4> QED BY <1>7, <3>3, <4>1
    <3>5. g[s] = r[n + 1][s] /\ g[s \ {x}] = r[n][s \ {x}]
      BY <3>2, <3>3, <3>4
    <3>6. r[n + 1] = AddPower(low, T, r[n])
      BY <1>5 DEF up
    <3>7. r[n + 1][s] = 2^(x - low) + r[n][s \ {x}]
      BY <2>2, <3>1, <3>6 DEF AddPower
    <3> HIDE DEF g
    <3> QED BY <2>2, <3>1, <3>5, <3>7
  <2> QED BY <2>1, <2>2
<1>9. IsPowerSum(g, low, T)
  <2>1. g = [s \in SUBSET T |-> g[s]]
    OBVIOUS
  <2> HIDE DEF g
  <2> QED BY <1>8, <2>1 DEF IsPowerSum, AddPower
<1> QED BY <1>9

LEMMA PowerSumIsInt ==
  ASSUME NEW low \in Nat, NEW T, T \subseteq low .. low + 11, NEW g, IsPowerSum(g, low, T)
  PROVE  g[T] \in Int
<1>6. IsFiniteSet(T)
  <2>1. IsFiniteSet(low .. low + 11)
    BY FS_Interval
  <2> QED BY <2>1, FS_Subset
<1>7. ASSUME NEW s \in SUBSET T
      PROVE  IsFiniteSet(s) /\ Cardinality(s) \in Nat
  BY <1>6, FS_Subset, FS_CardinalityType
<1>8. ASSUME NEW s \in SUBSET T
      PROVE  g[s] = IF s = {} THEN 0
                    ELSE 2^((CHOOSE x \in s : TRUE) - low) + g[s \ {CHOOSE x \in s : TRUE}]
  BY DEF IsPowerSum, AddPower
<1> DEFINE N == {n \in Nat : \A s \in SUBSET T : Cardinality(s) = n => g[s] \in Int}
<1>1. 0 \in N
  <2> SUFFICES ASSUME NEW s \in SUBSET T, Cardinality(s) = 0 PROVE g[s] \in Int
    OBVIOUS
  <2>1. s = {}
    BY <1>7, FS_EmptySet
  <2> QED BY <1>8, <2>1
<1>2. ASSUME NEW n \in Nat, n \in N PROVE n + 1 \in N
  <2> SUFFICES ASSUME NEW s \in SUBSET T, Cardinality(s) = n + 1 PROVE g[s] \in Int
    OBVIOUS
  <2>1. s # {}
    BY FS_EmptySet
  <2>2. PICK x : x = CHOOSE x1 \in s : TRUE
    OBVIOUS
  <2>3. x \in s /\ s \ {x} \in SUBSET T /\ x \in low .. low + 11
    BY <2>1, <2>2
  <2>4. Cardinality(s \ {x}) = n
    <3>1. Cardinality(s \ {x}) = Cardinality(s) - 1
      BY <1>7, <2>3, FS_RemoveElement
    <3> QED BY <3>1
  <2>5. g[s \ {x}] \in Int
    BY <1>2, <2>3, <2>4
  <2>6. 2^(x - low) \in Int
    <3>1. x - low \in 0 .. 11
      BY <2>3
    <3> QED BY <3>1, PowersAreInt
  <2>7. 2^(x - low) + g[s \ {x}] \in Int
    BY <2>5, <2>6
  <2> QED BY <1>8, <2>1, <2>2, <2>7
<1> HIDE DEF N
<1>3. Nat \subseteq N
  BY <1>1, <1>2, SetInduction
<1>4. T \in SUBSET T /\ Cardinality(T) \in Nat
  BY <1>7
<1> QED BY <1>3, <1>4 DEF N

LEMMA ExponentIsInt ==
  ASSUME NEW word, NEW low \in Nat, NEW high \in Nat, high <= low + 11
  PROVE  Exponent(word, low, high) \in Int
<1>1. PICK T : T = word \cap low .. high
  OBVIOUS
<1>2. T \subseteq low .. low + 11
  BY <1>1
<1>3. PICK g : g = CHOOSE h : IsPowerSum(h, low, T)
  OBVIOUS
<1>4. IsPowerSum(g, low, T)
  BY <1>2, <1>3, PowerSumExists, Zenon
<1>5. Exponent(word, low, high) = g[T]
  BY <1>1, <1>3 DEF Exponent, MapThenSumSet, MapThenFoldSet, IsPowerSum, AddPower
<1> QED BY <1>2, <1>4, <1>5, PowerSumIsInt

(* A set of digits within an interval has a highest and a lowest.          *)
LEMMA Extremes ==
  ASSUME NEW a \in Int, NEW b \in Int, NEW S, S \subseteq a .. b, S # {}
  PROVE  /\ Max(S) \in S /\ \A x \in S : x <= Max(S)
         /\ Min(S) \in S /\ \A x \in S : Min(S) <= x
<1>1. \E m \in S : \A x \in S : m >= x
  <2> DEFINE T == {b - x : x \in S}
  <2>0. \A x \in S : b - x \in Nat
    OBVIOUS
  <2>1. T \subseteq Nat /\ T # {}
    BY <2>0
  <2> HIDE DEF T
  <2>2. PICK t \in T : \A y \in T : t <= y
    BY <2>1, LeastOf
  <2> USE DEF T
  <2>3. PICK m \in S : t = b - m
    OBVIOUS
  <2>4. \A x \in S : b - m <= b - x
    BY <2>2, <2>3
  <2>5. \A x \in S : m >= x
    BY <2>4
  <2> QED BY <2>5
<1>2. \E m \in S : \A x \in S : m <= x
  <2> DEFINE T == {x - a : x \in S}
  <2>1. T \subseteq Nat /\ T # {}
    OBVIOUS
  <2> HIDE DEF T
  <2>2. PICK t \in T : \A y \in T : t <= y
    BY <2>1, LeastOf
  <2> USE DEF T
  <2>3. PICK m \in S : t = m - a
    OBVIOUS
  <2>4. \A x \in S : m - a <= x - a
    BY <2>2, <2>3
  <2>5. \A x \in S : m <= x
    BY <2>4
  <2> QED BY <2>5
<1>3. Max(S) \in S /\ \A x \in S : Max(S) >= x
  BY <1>1 DEF Max
<1>4. Min(S) \in S /\ \A x \in S : Min(S) <= x
  BY <1>2 DEF Min
<1> QED BY <1>3, <1>4

(* A number is a double when its digits lie within 53 places.              *)
LEMMA WithinDouble ==
  ASSUME NEW low \in Int, NEW n, n.digits \subseteq low .. low + 52
  PROVE  IsDouble(n)
<1>1. CASE n.digits = {}
  BY <1>1 DEF IsDouble
<1>2. CASE n.digits # {}
  <2>1. Max(n.digits) \in n.digits /\ Min(n.digits) \in n.digits
    <3>1. low + 52 \in Int
      OBVIOUS
    <3> QED BY <1>2, <3>1, Extremes
  <2> QED BY <2>1 DEF IsDouble
<1> QED BY <1>1, <1>2

(* So are the floats, of either length,                                    *)
LEMMA FloatsAreDoubles ==
  ASSUME NEW bytes, Len(bytes) \in {4, 8}
  PROVE  IsDouble(Float(bytes))
<1>1. PICK word : word = Bits(bytes)
  OBVIOUS
<1>2. PICK sign \in {31, 63} : sign = 8 * Len(bytes) - 1
  <2>1. CASE Len(bytes) = 4
    BY <2>1
  <2>2. CASE Len(bytes) = 8
    BY <2>2
  <2> QED BY <2>1, <2>2
<1>3. PICK bits \in {23, 52} : bits = FractionBits(Len(bytes)) /\ (sign = 31 <=> bits = 23)
  BY <1>2 DEF FractionBits
<1>4. PICK biased \in Int : biased = Exponent(word, bits, sign - 1)
  BY <1>2, <1>3, ExponentIsInt
<1>5. PICK bias \in Int : bias = 2^(sign - 1 - bits) - 1
  <2>1. sign - 1 - bits \in 0 .. 11
    BY <1>2, <1>3
  <2>2. 2^(sign - 1 - bits) \in Int
    BY <2>1, PowersAreInt
  <2> QED BY <2>2
<1>6. PICK power \in Int : power = IF biased = 0 THEN 1 - bias ELSE biased - bias
  OBVIOUS
<1>7. Float(bytes).digits = FloatDigits(word, bits, power, biased # 0)
  BY <1>1, <1>2, <1>3, <1>4, <1>5, <1>6 DEF Float
<1>8. FloatDigits(word, bits, power, biased # 0) \subseteq power - 52 .. (power - 52) + 52
  BY <1>3 DEF FloatDigits
<1> QED BY <1>7, <1>8, WithinDouble

(* and what rounding makes of a magnitude of 73 digits.                    *)
LEMMA RoundedIsDouble ==
  ASSUME NEW m, m \subseteq 0 .. 72, NEW n, n.digits = Rounded(m)
  PROVE  IsDouble(n)
<1>1. CASE m = {}
  BY <1>1 DEF Rounded, IsDouble
<1>2. CASE m # {}
  <2>0. PICK top \in 0 .. 72 : top = Max(m) /\ top \in m /\ \A k \in m : k <= top
    <3>1. 0 \in Int /\ 72 \in Int
      OBVIOUS
    <3>2. Max(m) \in m /\ \A k \in m : k <= Max(m)
      BY <1>2, <3>1, Extremes, Zenon
    <3> QED BY <3>2
  <2>1. m \subseteq 0 .. top
    BY <2>0
  <2>2. PICK low \in Int : low = top - 52 /\ low = Max(m) - 52
    BY <2>0
  <2>3. PICK kept : kept = {k \in m : k >= low}
    OBVIOUS
  <2>4. kept \subseteq low .. low + 52
    <3>1. ASSUME NEW k \in kept PROVE k \in low .. low + 52
      <4>1. k \in 0 .. top /\ k >= low /\ top = low + 52
        BY <2>0, <2>1, <2>2, <2>3
      <4> QED BY <4>1
    <3> QED BY <3>1
  <2>5. Rounded(m) = kept \/ (low >= 1 /\ Rounded(m) = PlusUnit(kept, low))
    <3>1. low - 1 \in m => low >= 1
      BY <2>2
    <3> QED BY <1>2, <2>2, <2>3, <3>1 DEF Rounded
  <2>6. CASE Rounded(m) = kept
    BY <2>4, <2>6, WithinDouble
  <2>7. CASE low >= 1 /\ Rounded(m) = PlusUnit(kept, low)
    <3>1. ASSUME NEW k \in Rounded(m)
          PROVE  k \in 0 .. 72 /\ (k \in kept <=> ~(k >= low /\ \A j \in low .. k - 1 : j \in kept))
      BY <2>7 DEF PlusUnit
    <3>2. CASE low .. low + 52 \subseteq kept
      <4>1. ASSUME NEW k \in Rounded(m), k # low + 53 PROVE FALSE
        <5>1. CASE k \in kept
          <6>1. k \in low .. low + 52
            BY <2>4, <5>1
          <6>2. \A j \in low .. k - 1 : j \in kept
            BY <3>2, <6>1
          <6> QED BY <3>1, <5>1, <6>1, <6>2
        <5>2. CASE k \notin kept
          <6>1. k >= low /\ \A j \in low .. k - 1 : j \in kept
            BY <3>1, <5>2
          <6>2. k > low + 53
            BY <3>1, <3>2, <4>1, <5>2, <6>1
          <6>3. low + 53 \in low .. k - 1
            BY <3>1, <6>2
          <6> QED BY <2>4, <6>1, <6>3
        <5> QED BY <5>1, <5>2
      <4>2. Rounded(m) \subseteq (low + 1) .. (low + 1) + 52
        BY <4>1
      <4>3. low + 1 \in Int
        OBVIOUS
      <4> QED BY <4>2, <4>3, WithinDouble
    <3>3. CASE ~(low .. low + 52 \subseteq kept)
      <4>1. PICK gap \in low .. low + 52 : gap \notin kept
        BY <3>3
      <4>2. ASSUME NEW k \in Rounded(m) PROVE k \in low .. low + 52
        <5>1. CASE k \in kept
          BY <2>4, <5>1
        <5>2. CASE k \notin kept
          <6>1. k >= low /\ \A j \in low .. k - 1 : j \in kept
            BY <3>1, <5>2
          <6>2. ~(gap <= k - 1)
            BY <3>1, <4>1, <6>1
          <6> QED BY <3>1, <4>1, <6>1, <6>2
        <5> QED BY <5>1, <5>2
      <4> QED BY <4>2, WithinDouble
    <3> QED BY <3>2, <3>3
  <2> QED BY <2>5, <2>6, <2>7
<1> QED BY <1>1, <1>2

(* So every number that is read is one.                                    *)
LEMMA NumberIsDouble ==
  ASSUME NEW data \in Seq(Byte), NEW p \in Position, HasNumber(data, p)
  PROVE  IsDouble(Number(data, p))
<1>1. CASE data[p] \in {202, 203}
  <2>1. PICK w \in {4, 8} : w = NumberBody(data[p])
    BY <1>1 DEF NumberBody
  <2>2. p + 1 \in Position /\ p + w <= Len(data) /\ p + w + 1 \in Nat
    BY <2>1 DEF HasNumber, Position
  <2>3. Len(SubSeq(data, p + 1, p + w)) = w
    <3>0. PICK a \in Position, b \in Nat : a = p + 1 /\ b = p + w + 1 /\ a <= b /\ b <= Len(data) + 1
      <4>1. Len(data) \in Nat
        BY LenProperties
      <4>2. p + 1 <= p + w + 1 /\ p + w + 1 <= Len(data) + 1
        BY <2>1, <2>2, <4>1 DEF Position
      <4> QED BY <2>2, <4>2
    <3>1. Len(SubSeq(data, a, b - 1)) = b - a
      BY <3>0, PartOf
    <3>2. b - 1 = p + w /\ b - a = w
      BY <2>1, <3>0 DEF Position
    <3> QED BY <3>0, <3>1, <3>2
  <2>4. Number(data, p) = Float(SubSeq(data, p + 1, p + w))
    BY <1>1, <2>1 DEF Number
  <2>5. Len(SubSeq(data, p + 1, p + w)) \in {4, 8}
    BY <2>1, <2>3
  <2>6. IsDouble(Float(SubSeq(data, p + 1, p + w)))
    <3>1. PICK bytes : bytes = SubSeq(data, p + 1, p + w)
      OBVIOUS
    <3>2. Len(bytes) \in {4, 8}
      BY <2>5, <3>1
    <3>3. IsDouble(Float(bytes))
      BY <3>2, FloatsAreDoubles
    <3> QED BY <3>1, <3>3
  <2> QED BY <2>4, <2>6
<1>2. CASE data[p] \notin {202, 203}
  <2>1. PICK id : id = FieldId(data, p)
    OBVIOUS
  <2>2. PICK m : m = IF id[1] = 255 THEN PlusUnit(0 .. 71 \ Bits(id), 0) ELSE Bits(id)
    OBVIOUS
  <2>3. Number(data, p).digits = Rounded(m)
    BY <1>2, <2>1, <2>2 DEF Number
  <2>4. Len(id) = 9
    <3>1. DOMAIN id = 1 .. 9
      BY <2>1 DEF FieldId
    <3>2. PICK S : S = {id[i] : i \in 1 .. 9}
      OBVIOUS
    <3>3. id \in [1 .. 9 -> S]
      BY <2>1, <3>2 DEF FieldId
    <3>4. id \in Seq(S)
      BY <3>3, SeqDef
    <3> QED BY <3>1, <3>4, LenProperties
  <2>5. m \subseteq 0 .. 72
    BY <2>2, <2>4 DEF Bits, PlusUnit
  <2> QED BY <2>3, <2>5, RoundedIsDouble
<1> QED BY <1>1, <1>2

-----------------------------------------------------------------------------
(* How a magnitude is rounded: it keeps the 53 digits from its highest on, *)
(* and is rounded up only over a digit that it does not keep.              *)
IsCarry(kept, low, top, z) ==
  /\ z \in low .. top + 1 /\ z \notin kept /\ low .. z - 1 \subseteq kept
RoundedUp(m, low, top, z) ==
  LET kept == {k \in m : k >= low}
  IN  /\ low - 1 \in m /\ IsCarry(kept, low, top, z)
      /\ Rounded(m) = {k \in kept : k > z} \cup {z}
IsRounded(m, low, top) ==
  /\ top \in m /\ m \subseteq 0 .. top /\ top \in 0 .. 71 /\ low \in Int /\ low = top - 52
  /\ \/ Rounded(m) = {k \in m : k >= low}
     \/ \E z \in 0 .. 72 : RoundedUp(m, low, top, z)

LEMMA CarryAdds ==
  ASSUME NEW low \in Nat, NEW top \in 0 .. 71, NEW kept, kept \subseteq low .. top,
         NEW z \in 0 .. 72, IsCarry(kept, low, top, z)
  PROVE  \A k : k \in PlusUnit(kept, low) <=> (k \in kept /\ k > z) \/ k = z
<1>1. ASSUME NEW k \in 0 .. 72
      PROVE  k \in PlusUnit(kept, low) <=> (k \in kept /\ k > z) \/ k = z
  <2>1. CASE k < low
    BY <2>1 DEF PlusUnit, IsCarry
  <2>2. CASE low <= k /\ k < z
    <3>1. k \in kept /\ \A j \in low .. k - 1 : j \in kept
      BY <2>2 DEF IsCarry
    <3> QED BY <2>2, <3>1 DEF PlusUnit
  <2>3. CASE k = z
    <3>1. k \notin kept /\ k >= low /\ \A j \in low .. k - 1 : j \in kept
      BY <2>3 DEF IsCarry
    <3> QED BY <2>3, <3>1 DEF PlusUnit
  <2>4. CASE k > z
    <3>1. ~ \A j \in low .. k - 1 : j \in kept
      <4>1. z \in low .. k - 1
        BY <2>4 DEF IsCarry
      <4> QED BY <4>1 DEF IsCarry
    <3> QED BY <2>4, <3>1 DEF PlusUnit
  <2> QED BY <2>1, <2>2, <2>3, <2>4
<1>2. PlusUnit(kept, low) \subseteq 0 .. 72
  BY DEF PlusUnit
<1>3. ASSUME NEW k, (k \in kept /\ k > z) \/ k = z PROVE k \in 0 .. 72
  <2>1. CASE k \in kept
    <3>1. k \in low .. top
      BY <2>1
    <3> QED BY <3>1
  <2> QED BY <1>3, <2>1
<1> QED BY <1>1, <1>2, <1>3

LEMMA RoundedParts ==
  ASSUME NEW m, m \subseteq 0 .. 71, m # {}
  PROVE  \E low, top : IsRounded(m, low, top)
<1>1. PICK top \in 0 .. 71 : top = Max(m) /\ top \in m /\ \A k \in m : k <= top
  <2>1. 0 \in Int /\ 71 \in Int
    OBVIOUS
  <2>2. Max(m) \in m /\ \A k \in m : k <= Max(m)
    BY <2>1, Extremes, Zenon
  <2> QED BY <2>2
<1>2. m \subseteq 0 .. top
  BY <1>1
<1>3. PICK low \in Int : low = top - 52 /\ low = Max(m) - 52
  BY <1>1
<1>4. PICK kept : kept = {k \in m : k >= low}
  OBVIOUS
<1>5. Rounded(m) = kept \/ (low - 1 \in m /\ Rounded(m) = PlusUnit(kept, low))
  BY <1>3, <1>4 DEF Rounded
<1>6. CASE Rounded(m) = kept
  BY <1>1, <1>2, <1>3, <1>4, <1>6 DEF IsRounded
<1>7. CASE low - 1 \in m /\ Rounded(m) = PlusUnit(kept, low)
  <2>1. low \in Nat /\ kept \subseteq low .. top
    <3>1. low >= 1
      BY <1>2, <1>3, <1>7
    <3>2. \A k \in kept : k \in low .. top
      BY <1>1, <1>2, <1>3, <1>4
    <3> QED BY <1>3, <3>1, <3>2
  <2> DEFINE Gaps == {k \in low .. top + 1 : k \notin kept}
  <2>2. Gaps \subseteq Nat /\ Gaps # {}
    <3>1. top + 1 \in Gaps
      BY <1>1, <1>3, <2>1
    <3> QED BY <2>1, <3>1
  <2> HIDE DEF Gaps
  <2>3. PICK z \in Gaps : \A y \in Gaps : z <= y
    BY <2>2, LeastOf
  <2> USE DEF Gaps
  <2>4. z \in 0 .. 72 /\ IsCarry(kept, low, top, z)
    <3>1. ASSUME NEW k \in low .. z - 1 PROVE k \in kept
      BY <1>1, <2>1, <2>3
    <3> QED BY <1>1, <2>1, <2>3, <3>1 DEF IsCarry
  <2>5. PlusUnit(kept, low) = {k \in kept : k > z} \cup {z}
    <3>1. low \in Nat
      BY <2>1
    <3>2. kept \subseteq low .. top
      BY <2>1
    <3> HIDE DEF Gaps
    <3>3. \A k : k \in PlusUnit(kept, low) <=> (k \in kept /\ k > z) \/ k = z
      BY <2>4, <3>1, <3>2, CarryAdds
    <3> QED BY <3>3
  <2>6. RoundedUp(m, low, top, z)
    BY <1>4, <1>7, <2>4, <2>5 DEF RoundedUp
  <2> QED BY <1>1, <1>2, <1>3, <2>4, <2>6 DEF IsRounded
<1> QED BY <1>5, <1>6, <1>7

(* Digits within 53 places.                                                *)
Narrow(d) == d \subseteq Int /\ \A j, k \in d : k - j <= 52

(* No number of 53 digits lies strictly between a magnitude and what it is *)
(* rounded to: not one above ...                                           *)
LEMMA NoneAbove ==
  ASSUME NEW m, m \subseteq 0 .. 71, NEW d, Narrow(d), Less(Rounded(m), d)
  PROVE  Less(m, d)
<1>1. CASE m = {}
  BY <1>1 DEF Rounded
<1>2. CASE m # {}
  <2>1. PICK low, top : IsRounded(m, low, top)
    BY <1>2, RoundedParts
  <2>2. /\ top \in m /\ m \subseteq 0 .. top /\ top \in 0 .. 71 /\ low \in Int /\ low = top - 52
        /\ d \subseteq Int
    BY <2>1 DEF IsRounded, Narrow
  <2>3. PICK r : r = Rounded(m)
    OBVIOUS
  <2>4. PICK k \in d \ r : \A j \in r \ d : j < k
    BY <2>3 DEF Less
  <2>5. CASE r = {i \in m : i >= low}
    <3>1. CASE k >= low
      <4>1. k \in d \ m
        BY <2>4, <2>5, <3>1
      <4>2. ASSUME NEW j \in m \ d PROVE j < k
        <5>1. CASE j >= low
          BY <2>4, <2>5, <4>2, <5>1
        <5>2. CASE j < low
          BY <2>2, <3>1, <5>2
        <5> QED BY <2>2, <5>1, <5>2
      <4> QED BY <4>1, <4>2 DEF Less
    <3>2. CASE k < low
      <4>1. top \in r
        BY <2>2, <2>5
      <4>2. top \in d
        BY <2>2, <2>4, <3>2, <4>1
      <4>3. top - k <= 52
        BY <2>4, <4>2 DEF Narrow
      <4> QED BY <2>2, <2>4, <3>2, <4>3
    <3> QED BY <2>2, <2>4, <3>1, <3>2
  <2>6. ASSUME NEW z \in 0 .. 72, RoundedUp(m, low, top, z) PROVE Less(m, d)
    <3>1. /\ z >= low /\ z \notin m /\ r = {i \in m : i >= low /\ i > z} \cup {z}
      BY <2>2, <2>3, <2>6 DEF RoundedUp, IsCarry
    <3>2. Less(m, r)
      <4>1. \A j \in m \ r : j < z
        BY <2>2, <3>1
      <4> QED BY <3>1, <4>1 DEF Less
    <3>3. m \in SUBSET Int /\ r \in SUBSET Int /\ d \in SUBSET Int /\ Less(r, d)
      <4>1. m \subseteq Int /\ z \in Int /\ d \subseteq Int
        BY <2>2
      <4>2. r \subseteq m \cup {z} /\ Less(r, d)
        BY <2>3, <3>1
      <4> QED BY <4>1, <4>2
    <3> QED BY <3>2, <3>3, LessTransitive
  <2> QED BY <2>1, <2>3, <2>5, <2>6 DEF IsRounded
<1> QED BY <1>1, <1>2

(* ... and not one below.                                                  *)
LEMMA NoneBelow ==
  ASSUME NEW m, m \subseteq 0 .. 71, NEW d, Narrow(d), Less(d, Rounded(m))
  PROVE  Less(d, m)
<1>1. CASE m = {}
  BY <1>1 DEF Rounded
<1>2. CASE m # {}
  <2>1. PICK low, top : IsRounded(m, low, top)
    BY <1>2, RoundedParts
  <2>2. /\ top \in m /\ m \subseteq 0 .. top /\ top \in 0 .. 71 /\ low \in Int /\ low = top - 52
        /\ d \subseteq Int
    BY <2>1 DEF IsRounded, Narrow
  <2>3. PICK r : r = Rounded(m)
    OBVIOUS
  <2>4. PICK k \in r \ d : \A j \in d \ r : j < k
    BY <2>3 DEF Less
  <2>5. CASE r = {i \in m : i >= low}
    <3>1. k \in m \ d /\ \A j \in d \ m : j < k
      BY <2>4, <2>5
    <3> QED BY <3>1 DEF Less
  <2>6. ASSUME NEW z \in 0 .. 72, RoundedUp(m, low, top, z) PROVE Less(d, m)
    <3>1. /\ low - 1 \in m /\ z >= low /\ z \notin m /\ r = {i \in m : i >= low /\ i > z} \cup {z}
          /\ \A i \in low .. z - 1 : i \in m
      BY <2>2, <2>3, <2>6 DEF RoundedUp, IsCarry
    <3>2. CASE k # z
      <4>1. k \in m \ d /\ k > z
        BY <2>4, <3>1, <3>2
      <4>2. ASSUME NEW j \in d \ m PROVE j < k
        <5>1. CASE j \in r
          BY <3>1, <4>1, <4>2, <5>1
        <5>2. CASE j \notin r
          BY <2>4, <4>2, <5>2
        <5> QED BY <5>1, <5>2
      <4> QED BY <4>1, <4>2 DEF Less
    <3>3. CASE k = z
      <4>1. PICK i \in m : i \notin d /\ i >= low - 1
        <5>1. SUFFICES ASSUME \A i \in m : i >= low - 1 => i \in d PROVE FALSE
          OBVIOUS
        <5>2. top \in d /\ low - 1 \in d
          BY <2>2, <3>1, <5>1
        <5>3. top - (low - 1) <= 52
          BY <5>2 DEF Narrow
        <5> QED BY <2>2, <5>3
      <4>2. ASSUME NEW j \in d \ m PROVE j < low - 1
        <5>1. j \in Int /\ j # z
          BY <2>2, <2>4, <3>3, <4>2
        <5>2. ~ (j > z)
          BY <2>4, <3>1, <3>3, <4>2, <5>1
        <5>3. j \notin low .. z - 1 /\ j # low - 1
          BY <3>1, <4>2
        <5> QED BY <2>2, <5>1, <5>2, <5>3
      <4>3. \A j \in d \ m : j < i
        BY <2>2, <4>1, <4>2
      <4> QED BY <4>1, <4>3 DEF Less
    <3> QED BY <3>2, <3>3
  <2> QED BY <2>1, <2>3, <2>5, <2>6 DEF IsRounded
<1> QED BY <1>1, <1>2

(* A number of 53 digits is rounded to itself, and none other to nothing.  *)
LEMMA ExactKept ==
  ASSUME NEW m, m \subseteq 0 .. 71
  PROVE  /\ Narrow(m) => Rounded(m) = m
         /\ Rounded(m) = {} <=> m = {}
         /\ Rounded(m) \in SUBSET Int
<1>1. CASE m = {}
  BY <1>1 DEF Rounded
<1>2. CASE m # {}
  <2>1. PICK low, top : IsRounded(m, low, top)
    BY <1>2, RoundedParts
  <2>2. /\ top \in m /\ m \subseteq 0 .. top /\ top \in 0 .. 71 /\ low \in Int /\ low = top - 52
    BY <2>1 DEF IsRounded
  <2>3. CASE Rounded(m) = {i \in m : i >= low}
    <3>1. top \in Rounded(m) /\ Rounded(m) \in SUBSET Int
      <4>1. top >= low /\ m \subseteq Int
        BY <2>2
      <4> QED BY <2>2, <2>3, <4>1
    <3>2. ASSUME Narrow(m), NEW i \in m PROVE i >= low
      <4>1. top - i <= 52
        BY <2>2, <3>2 DEF Narrow
      <4> QED BY <2>2, <4>1
    <3> QED BY <1>2, <2>3, <3>1, <3>2
  <2>4. ASSUME NEW z \in 0 .. 72, RoundedUp(m, low, top, z)
        PROVE  z \in Rounded(m) /\ Rounded(m) \in SUBSET Int /\ ~Narrow(m)
    <3>1. low - 1 \in m /\ z \in Rounded(m) /\ Rounded(m) \subseteq m \cup {z}
      BY <2>4 DEF RoundedUp
    <3>2. top - (low - 1) > 52 /\ ~ (top - (low - 1) <= 52)
      BY <2>2
    <3>3. ~Narrow(m)
      BY <2>2, <3>1, <3>2 DEF Narrow
    <3>4. m \subseteq Int /\ z \in Int
      BY <2>2
    <3> QED BY <3>1, <3>3, <3>4
  <2> QED BY <1>2, <2>1, <2>3, <2>4 DEF IsRounded
<1> QED BY <1>1, <1>2

-----------------------------------------------------------------------------
(* What a number that was sent is read as: a float exactly, an integer     *)
(* rounded.                                                                *)
ReadsAs(r, n) ==
  /\ n.negative \in BOOLEAN /\ r.finite /\ r.negative = n.negative
  /\ \/ r.digits = n.digits
     \/ n.digits \subseteq 0 .. 71 /\ r.digits = Rounded(n.digits)

(* Rounding never brings an expiry from now or before to after now, and    *)
(* one that needs no rounding not from after now either.                   *)
LEMMA RoundingIsSafe ==
  ASSUME NEW r, NEW n, ReadsAs(r, n), NEW now, Narrow(now.digits)
  PROVE  /\ Greater(r, now) => Greater(n, now)
         /\ Narrow(n.digits) => r.digits = n.digits /\ (Greater(n, now) => Greater(r, now))
<1>1. CASE r.digits = n.digits
  BY <1>1 DEF ReadsAs, Greater, Minus
<1>2. CASE n.digits \subseteq 0 .. 71 /\ r.digits = Rounded(n.digits)
  <2>0. Minus(r) \in BOOLEAN /\ Minus(n) \in BOOLEAN /\ Minus(now) \in BOOLEAN
    BY DEF Minus
  <2>1. Minus(r) = Minus(n)
    BY <1>2, ExactKept DEF ReadsAs, Minus
  <2>2. ASSUME Greater(r, now) PROVE Greater(n, now)
    <3>1. CASE Minus(r) # Minus(now)
      BY <2>1, <2>2, <3>1 DEF Greater
    <3>2. CASE Minus(r) /\ Minus(now)
      <4>1. Less(r.digits, now.digits)
        BY <2>2, <3>2 DEF Greater
      <4>2. Less(n.digits, now.digits)
        BY <1>2, <4>1, NoneAbove
      <4> QED BY <2>1, <2>0, <3>2, <4>2 DEF Greater
    <3>3. CASE ~Minus(r) /\ ~Minus(now)
      <4>1. Less(now.digits, r.digits)
        BY <2>2, <3>3 DEF Greater
      <4>2. Less(now.digits, n.digits)
        BY <1>2, <4>1, NoneBelow
      <4> QED BY <2>1, <2>0, <3>3, <4>2 DEF Greater
    <3> QED BY <2>0, <3>1, <3>2, <3>3
  <2>3. ASSUME Narrow(n.digits) PROVE r.digits = n.digits
    BY <1>2, <2>3, ExactKept
  <2>4. ASSUME r.digits = n.digits, Greater(n, now) PROVE Greater(r, now)
    BY <2>0, <2>1, <2>4 DEF Greater
  <2> QED BY <2>2, <2>3, <2>4
<1> QED BY <1>1, <1>2 DEF ReadsAs

(* A double has its digits within 53 places.                               *)
IsRange(D) == \E a, b \in Int : D = a .. b
LEMMA DoublesAreNarrow ==
  ASSUME NEW D, IsRange(D), NEW n, n.digits \subseteq D, IsDouble(n)
  PROVE  Narrow(n.digits)
<1>0. PICK a \in Int, b \in Int : D = a .. b
  BY DEF IsRange
<1>1. CASE n.digits = {}
  BY <1>1 DEF Narrow
<1>2. CASE n.digits # {}
  <2>1. /\ Max(n.digits) \in n.digits /\ \A x \in n.digits : x <= Max(n.digits)
        /\ Min(n.digits) \in n.digits /\ \A x \in n.digits : Min(n.digits) <= x
    BY <1>0, <1>2, Extremes
  <2>2. PICK hi \in Int, lo \in Int : hi = Max(n.digits) /\ lo = Min(n.digits) /\ hi - lo <= 52
    <3>1. Max(n.digits) \in Int /\ Min(n.digits) \in Int
      BY <1>0, <2>1
    <3>2. Max(n.digits) - Min(n.digits) <= 52
      BY <1>2 DEF IsDouble
    <3> QED BY <3>1, <3>2
  <2>3. n.digits \subseteq Int
    BY <1>0
  <2>4. ASSUME NEW j \in n.digits, NEW k \in n.digits PROVE k - j <= 52
    <3>1. j \in Int /\ k \in Int /\ k <= hi /\ lo <= j
      BY <2>1, <2>2, <2>3
    <3> QED BY <2>2, <3>1
  <2> QED BY <2>3, <2>4 DEF Narrow
<1> QED BY <1>1, <1>2

-----------------------------------------------------------------------------
(* The digits of a whole sign extension are those of the number's body,    *)
(* and under a negative sign all higher ones.                              *)
Signs == {0, 255}
IsExtended(id, body, v, sign) ==
  \A i \in 1 .. 9 : id[i] = IF i > 9 - v THEN body[i - 9 + v] ELSE sign
IsWhole(id, body, v, sign) ==
  /\ Len(id) = 9 /\ Len(body) = v /\ IsExtended(id, body, v, sign)
  /\ id[1] = sign /\ sign \in Signs
ExtendsTo(bits, whole, b, sign) ==
  /\ bits \subseteq 0 .. b - 1
  /\ whole = IF sign = 255 THEN bits \cup b .. 71 ELSE bits
LEMMA PowersOfByte ==
  \A r \in 0 .. 7 : (255 \div 2^r) % 2 = 1 /\ (0 \div 2^r) % 2 = 0
<1>1. \A r \in 0 .. 7 : r = 0 \/ r = 1 \/ r = 2 \/ r = 3 \/ r = 4 \/ r = 5 \/ r = 6 \/ r = 7
  OBVIOUS
<1>2. 2^0 = 1 /\ 2^1 = 2 /\ 2^2 = 4 /\ 2^3 = 8 /\ 2^4 = 16 /\ 2^5 = 32 /\ 2^6 = 64 /\ 2^7 = 128
  OBVIOUS
<1>3. \A r \in 0 .. 7 : 2^r \in {1, 2, 4, 8, 16, 32, 64, 128}
  BY <1>1, <1>2
<1>4. \A d \in {1, 2, 4, 8, 16, 32, 64, 128} : (255 \div d) % 2 = 1 /\ (0 \div d) % 2 = 0
  OBVIOUS
<1> QED BY <1>3, <1>4

LEMMA ExtendedBits ==
  ASSUME NEW v \in 1 .. 8, NEW id, NEW body, NEW sign, IsWhole(id, body, v, sign),
         NEW e \in 8 .. 64, e = 8 * v
  PROVE  ExtendsTo(Bits(body), Bits(id), e, sign)
<1>0. /\ Len(id) = 9 /\ Len(body) = v /\ IsExtended(id, body, v, sign)
      /\ id[1] = sign /\ sign \in Signs
  BY DEF IsWhole
<1>1. ASSUME NEW k \in 0 .. 71
      PROVE  /\ k < 8 * v => (k \in Bits(id) <=> k \in Bits(body))
             /\ k >= 8 * v => (k \in Bits(id) <=> sign = 255)
  <2>1. PICK j \in 0 .. 8, r \in 0 .. 7 : j = k \div 8 /\ r = k % 8 /\ k = 8 * j + r
    <3>1. k \div 8 \in 0 .. 8 /\ k % 8 \in 0 .. 7 /\ k = 8 * (k \div 8) + (k % 8)
      OBVIOUS
    <3> QED BY <3>1
  <2>2. k \in Bits(id) <=> (id[9 - j] \div 2^r) % 2 = 1
    <3>1. k \in 0 .. 8 * Len(id) - 1
      BY <1>0
    <3> QED BY <1>0, <2>1, <3>1 DEF Bits
  <2>3. 9 - j \in 1 .. 9
    BY <2>1
  <2>4. CASE k < 8 * v
    <3>1. j < v /\ 9 - j > 9 - v /\ (9 - j) - 9 + v = v - j
      BY <2>1, <2>4
    <3>2. id[9 - j] = body[v - j]
      BY <1>0, <2>3, <3>1 DEF IsExtended
    <3>3. k \in Bits(body) <=> (body[v - j] \div 2^r) % 2 = 1
      <4>1. k \in 0 .. 8 * Len(body) - 1
        BY <1>0, <2>4
      <4> QED BY <1>0, <2>1, <4>1 DEF Bits
    <3> QED BY <2>2, <2>4, <3>2, <3>3
  <2>5. CASE k >= 8 * v
    <3>1. ~ (9 - j > 9 - v) /\ ~ (k < 8 * v)
      BY <2>1, <2>5
    <3>2. id[9 - j] = sign
      BY <1>0, <2>3, <3>1 DEF IsExtended
    <3>3. (sign \div 2^r) % 2 = 1 <=> sign = 255
      <4>1. CASE sign = 0
        <5>1. (0 \div 2^r) % 2 = 0
          BY PowersOfByte
        <5>2. PICK z : z = (0 \div 2^r) % 2
          OBVIOUS
        <5>3. z # 1 /\ sign # 255
          BY <4>1, <5>1, <5>2
        <5> QED BY <4>1, <5>2, <5>3
      <4>2. CASE sign = 255
        BY <4>2, PowersOfByte
      <4> QED BY <1>0, <4>1, <4>2 DEF Signs
    <3> QED BY <2>2, <3>1, <3>2, <3>3
  <2>6. k < 8 * v \/ k >= 8 * v
    OBVIOUS
  <2> QED BY <2>4, <2>5, <2>6, Zenon
<1>2. Bits(body) \subseteq 0 .. 8 * v - 1
  BY <1>0 DEF Bits
<1>3. Bits(id) \subseteq 0 .. 71
  BY <1>0 DEF Bits
<1>4. PICK b \in 8 .. 64 : b = 8 * v /\ b = e
  OBVIOUS
<1>5. PICK x, y : x = Bits(id) /\ y = Bits(body)
  OBVIOUS
<1>6. x \subseteq 0 .. 71 /\ y \subseteq 0 .. b - 1
  BY <1>2, <1>3, <1>4, <1>5
<1>7. ASSUME NEW k \in 0 .. 71
      PROVE  (k < b => (k \in x <=> k \in y)) /\ (k >= b => (k \in x <=> sign = 255))
  BY <1>1, <1>4, <1>5
<1>8. ASSUME NEW k \in x PROVE k \in y \/ (sign = 255 /\ k \in b .. 71)
  <2>1. k \in 0 .. 71
    BY <1>6
  <2>2. CASE k < b
    BY <1>7, <2>1, <2>2
  <2>3. CASE k >= b
    <3>1. k \in b .. 71
      BY <2>1, <2>3
    <3>2. sign = 255
      BY <1>7, <2>1, <2>3
    <3> QED BY <3>1, <3>2
  <2> QED BY <2>1, <2>2, <2>3
<1>9. ASSUME NEW k \in y PROVE k \in x
  <2>1. k \in 0 .. 71 /\ k < b
    BY <1>6
  <2> QED BY <1>7, <2>1
<1>10. ASSUME sign = 255, NEW k \in b .. 71 PROVE k \in x
  <2>1. k \in 0 .. 71 /\ k >= b
    OBVIOUS
  <2> QED BY <1>7, <1>10, <2>1
<1>11. x = IF sign = 255 THEN y \cup b .. 71 ELSE y
  <2>1. CASE sign = 255
    BY <1>8, <1>9, <1>10, <2>1
  <2>2. CASE sign # 255
    BY <1>8, <1>9, <2>2
  <2> QED BY <2>1, <2>2
<1> QED BY <1>4, <1>5, <1>6, <1>11 DEF ExtendsTo

(* The complement's successor: the digits under the sign are those of the  *)
(* number whose two's complement they are.                                 *)
LEMMA ComplementRead ==
  ASSUME NEW b \in 8 .. 64, NEW m, m \subseteq 0 .. b - 1, m # {},
         NEW x, x = TwosComplement(m, b) \cup b .. 71
  PROVE  PlusUnit(0 .. 71 \ x, 0) = m
<1>1. PICK l \in m : \A j \in m : l <= j
  <2>1. m \subseteq Nat
    OBVIOUS
  <2> QED BY <2>1, LeastOf
<1>2. PICK c : c = 0 .. 71 \ x
  OBVIOUS
<1>3. ASSUME NEW k \in 0 .. b - 1
      PROVE  k \in c <=> IF k > l THEN k \in m ELSE k # l
  <2>1. k \in 0 .. 71 /\ k \notin b .. 71
    OBVIOUS
  <2>2. k \in c <=> ~(k \in m <=> \A j \in m : j >= k)
    BY <1>2, <2>1 DEF TwosComplement
  <2>3. (\A j \in m : j >= k) <=> k <= l
    BY <1>1
  <2>4. k \in m => k >= l
    BY <1>1
  <2> QED BY <1>1, <2>2, <2>3, <2>4
<1>4. c \subseteq 0 .. b - 1
  BY <1>2
<1>5. l \in 0 .. b - 1
  OBVIOUS
<1>6. ASSUME NEW k \in 0 .. 72
      PROVE  k \in PlusUnit(c, 0) <=> k \in m
  <2>2. CASE k <= l
    <3>1. \A j \in 0 .. k - 1 : j \in c
      BY <1>3, <1>5, <2>2
    <3>2. k \in c <=> k # l
      BY <1>3, <1>5, <2>2
    <3>3. k \in m <=> k = l
      BY <1>1, <2>2
    <3> QED BY <3>1, <3>2, <3>3 DEF PlusUnit
  <2>3. CASE k > l
    <3>1. ~ \A j \in 0 .. k - 1 : j \in c
      <4>1. l \in 0 .. k - 1 /\ l \notin c
        BY <1>3, <1>5, <2>3
      <4> QED BY <4>1
    <3>2. k \in c <=> k \in m
      BY <1>3, <1>4, <2>3
    <3> QED BY <3>1, <3>2 DEF PlusUnit
  <2> QED BY <1>5, <2>2, <2>3
<1>7. PlusUnit(c, 0) \subseteq 0 .. 72 /\ m \subseteq 0 .. 72
  BY DEF PlusUnit
<1>8. PlusUnit(c, 0) = m
  BY <1>6, <1>7
<1> QED BY <1>2, <1>8

-----------------------------------------------------------------------------
(* The bytes behind a number's code, where it lies.                        *)
LEMMA BodyCut ==
  ASSUME NEW u \in Seq(Byte), NEW w \in Position, Len(u) = 1 + w,
         NEW f \in Seq(Byte), NEW p \in Position, LiesIn(u, f, p)
  PROVE  SubSeq(f, p + 1, p + w) = Tail(u) /\ Tail(u) \in Seq(Byte) /\ Len(Tail(u)) = w
         /\ \A i \in 1 .. w : Tail(u)[i] = u[1 + i]
<1>1. PICK t : t = Tail(u)
  OBVIOUS
<1>2. t \in Seq(Byte) /\ Len(t) = w /\ \A i \in 1 .. w : t[i] = u[1 + i]
  <2>1. u # <<>> /\ Len(u) - 1 = w
    <3>1. w \in Nat /\ Len(u) # 0
      BY DEF Position
    <3> QED BY <3>1
  <2>2. Tail(u) \in Seq(Byte) /\ Len(Tail(u)) = Len(u) - 1 /\ \A i \in 1 .. Len(Tail(u)) : Tail(u)[i] = u[i + 1]
    BY <2>1, HeadTailProperties
  <2>3. \A i \in 1 .. w : i + 1 = 1 + i
    BY DEF Position
  <2> QED BY <1>1, <2>1, <2>2, <2>3
<1>3. LiesIn(t, f, p + 1)
  <2>1. p + Len(u) <= Len(f) + 1 /\ \A i \in 1 .. Len(u) : f[p + i - 1] = u[i]
    BY DEF LiesIn
  <2>2. p \in Nat
    BY DEF Position
  <2>3. p + 1 + Len(t) <= Len(f) + 1
    BY <1>2, <2>1, <2>2
  <2>4. ASSUME NEW i \in 1 .. Len(t) PROVE f[p + 1 + i - 1] = t[i]
    <3>1. 1 + i \in 1 .. Len(u) /\ p + (1 + i) - 1 = p + 1 + i - 1 /\ i \in 1 .. w
      BY <1>2, <2>2 DEF Position
    <3>2. f[p + (1 + i) - 1] = u[1 + i]
      BY <2>1, <3>1
    <3> QED BY <1>2, <3>1, <3>2
  <2> QED BY <2>3, <2>4 DEF LiesIn
<1>4. PICK q \in Nat : q = p + 1 + w /\ q - 1 = p + w /\ p + 1 \in Position /\ q = p + 1 + Len(t)
  BY <1>2 DEF Position
<1>5. SubSeq(f, p + 1, q - 1) = t
  BY <1>2, <1>3, <1>4, PieceCut
<1> QED BY <1>1, <1>2, <1>4, <1>5

(* What the readers extend is the number's bytes.                          *)
FieldBody(f, p) ==
  IF NumberBody(f[p]) = 0 THEN <<f[p]>> ELSE SubSeq(f, p + 1, p + NumberBody(f[p]))
LEMMA BodyRead ==
  ASSUME NEW u \in Seq(Byte), u # <<>>, NEW w \in Nat, w = NumberBody(u[1]), Len(u) = 1 + w,
         NEW f \in Seq(Byte), NEW p \in Position, LiesIn(u, f, p)
  PROVE  /\ f[p] = u[1] /\ FieldBody(f, p) = NumberBytes(u) /\ NumberBytes(u) \in Seq(Byte)
         /\ Len(NumberBytes(u)) = IF w = 0 THEN 1 ELSE w
         /\ w = 0 => NumberBytes(u)[1] = u[1]
<1>1. f[p] = u[1]
  <2>1. 1 \in 1 .. Len(u) /\ p + 1 - 1 = p
    BY DEF Position
  <2> QED BY <2>1 DEF LiesIn
<1>2. CASE w = 0
  <2>1. Len(u) = 1
    BY <1>2
  <2>2. NumberBytes(u) = u /\ FieldBody(f, p) = <<u[1]>>
    BY <1>1, <1>2, <2>1 DEF NumberBytes, FieldBody
  <2>3. PICK s : s = <<u[1]>>
    OBVIOUS
  <2>4. s = u
    <3>1. 1 \in 1 .. Len(u)
      BY <2>1
    <3>2. u[1] \in Byte
      BY <3>1
    <3>3. s \in Seq(Byte) /\ Len(s) = 1 /\ s[1] = u[1]
      BY <2>3, <3>2
    <3>4. \A i \in 1 .. Len(u) : u[i] = s[i]
      BY <2>1, <3>3
    <3> QED BY <2>1, <3>3, <3>4, SeqEqual
  <2> QED BY <1>1, <1>2, <2>1, <2>2, <2>3, <2>4
<1>3. CASE w # 0
  <2>1. w \in Position
    BY <1>3 DEF Position
  <2>2. SubSeq(f, p + 1, p + w) = Tail(u) /\ Tail(u) \in Seq(Byte) /\ Len(Tail(u)) = w
    BY <2>1, BodyCut
  <2>3. Len(u) # 1
    BY <1>3
  <2> QED BY <1>1, <1>3, <2>2, <2>3 DEF NumberBytes, FieldBody
<1> QED BY <1>2, <1>3

(* The sign is in the top digit of the bytes.                              *)
LEMMA TopDigit ==
  ASSUME NEW body \in Seq(Byte), NEW v \in 1 .. 8, Len(body) = v
  PROVE  8 * v - 1 \in Bits(body) <=> body[1] >= 128
<1>1. body[1] \in 0 .. 255
  <2>1. 1 \in 1 .. Len(body)
    OBVIOUS
  <2>2. body[1] \in Byte
    BY <2>1
  <2> QED BY <2>2 DEF Byte
<1>2. PICK k \in Nat : k = 8 * v - 1 /\ k \div 8 = v - 1 /\ k % 8 = 7
  OBVIOUS
<1>3. k \in 0 .. 8 * Len(body) - 1 /\ Len(body) - k \div 8 = 1
  BY <1>2
<1>4. k \in Bits(body) <=> (body[1] \div 2^7) % 2 = 1
  BY <1>2, <1>3 DEF Bits
<1>5. 2^7 = 128
  OBVIOUS
<1>6. \A x \in 0 .. 255 : (x \div 128) % 2 = 1 <=> x >= 128
  OBVIOUS
<1>7. (body[1] \div 128) % 2 = 1 <=> body[1] >= 128
  BY <1>1, <1>6
<1>8. k \in Bits(body) <=> body[1] >= 128
  BY <1>4, <1>5, <1>7
<1> QED BY <1>2, <1>8

(* The sign extension that the readers make of a number's bytes.           *)
SignOf(body, w, c) == IF body[1] >= 128 /\ (w = 0 \/ c \in SignedCodes) THEN 255 ELSE 0
LEMMA IdExtended ==
  ASSUME NEW f, NEW p, NEW body \in Seq(Byte), body = FieldBody(f, p), NEW v \in 1 .. 8, v = Len(body),
         NEW id, id = FieldId(f, p), NEW sign, sign = SignOf(body, NumberBody(f[p]), f[p])
  PROVE  IsWhole(id, body, v, sign)
<1>1. id = [i \in 1 .. 9 |-> IF i > 9 - Len(body) THEN body[i - 9 + Len(body)] ELSE sign]
  BY DEF FieldId, FieldBody, SignOf
<1>2. IsExtended(id, body, v, sign)
  BY <1>1 DEF IsExtended
<1>3. DOMAIN id = 1 .. 9
  BY <1>1
<1>4. PICK S : S = {id[i] : i \in 1 .. 9}
  OBVIOUS
<1>5. id \in [1 .. 9 -> S]
  BY <1>1, <1>4
<1>6. id \in Seq(S)
  BY <1>5, SeqDef
<1>7. Len(id) = 9
  BY <1>3, <1>6, LenProperties
<1>8. 1 \in 1 .. 9 /\ ~ (1 > 9 - v)
  <2>1. \A x \in 1 .. 8 : ~ (1 > 9 - x)
    OBVIOUS
  <2>2. 1 \in 1 .. 9
    OBVIOUS
  <2> QED BY <2>1, <2>2, Zenon
<1>9. id[1] = sign
  BY <1>2, <1>8 DEF IsExtended
<1> QED BY <1>2, <1>7, <1>9 DEF IsWhole, SignOf, Signs

(* What the bytes of an integer are read as, for their digits bits below   *)
(* b and a sign.                                                           *)
IsIntegerRead(r, bits, b, sign) ==
  /\ sign \in Signs /\ bits \subseteq 0 .. b - 1 /\ r.finite = TRUE
  /\ sign = 0   => r.negative = FALSE /\ r.digits = Rounded(bits)
  /\ sign = 255 => /\ r.negative = TRUE
                   /\ r.digits = Rounded(PlusUnit(0 .. 71 \ (bits \cup b .. 71), 0))
LEMMA IntegerRead ==
  ASSUME NEW f, NEW p, NEW c, c = f[p], c \notin {202, 203},
         NEW body \in Seq(Byte), FieldBody(f, p) = body, NEW v \in 1 .. 8, Len(body) = v
  PROVE  IsIntegerRead(Number(f, p), Bits(body), 8 * v, SignOf(body, NumberBody(c), c))
<1>0. PICK y : y = Bits(body)
  OBVIOUS
<1>1. PICK id, sign : id = FieldId(f, p) /\ sign = SignOf(body, NumberBody(f[p]), f[p])
  OBVIOUS
<1>2. IsWhole(id, body, v, sign) /\ id[1] = sign /\ sign \in Signs
  <2>1. IsWhole(id, body, v, sign)
    BY <1>1, IdExtended
  <2> QED BY <2>1 DEF IsWhole
<1>3. PICK b \in 8 .. 64 : b = 8 * v
  <2>1. \A k \in 1 .. 8 : 8 * k \in 8 .. 64
    OBVIOUS
  <2> QED BY <2>1
<1>4. PICK x : x = Bits(id) /\ ExtendsTo(y, x, b, sign)
  <2>1. ExtendsTo(Bits(body), Bits(id), b, sign)
    BY <1>2, <1>3, ExtendedBits
  <2> QED BY <1>0, <2>1
<1>5. PICK d : d = Rounded(IF id[1] = 255 THEN PlusUnit(0 .. 71 \ x, 0) ELSE x)
  OBVIOUS
<1>6. PICK g : g = (id[1] = 255)
  OBVIOUS
<1>7. Number(f, p) = [negative |-> g, finite |-> TRUE, digits |-> d]
  BY <1>1, <1>4, <1>5, <1>6 DEF Number
<1>8. PICK r : r = Number(f, p)
  OBVIOUS
<1>9. r.negative = g /\ r.finite = TRUE /\ r.digits = d
  BY <1>7, <1>8
<1>10. y \subseteq 0 .. b - 1 /\ x = IF sign = 255 THEN y \cup b .. 71 ELSE y
  BY <1>4 DEF ExtendsTo
<1>11. sign = 0 => g = FALSE /\ d = Rounded(y)
  <2>1. ASSUME sign = 0 PROVE x = y /\ id[1] # 255
    BY <1>2, <1>10, <2>1
  <2> QED BY <1>5, <1>6, <2>1
<1>12. sign = 255 => g = TRUE /\ d = Rounded(PlusUnit(0 .. 71 \ (y \cup b .. 71), 0))
  <2>1. ASSUME sign = 255 PROVE x = y \cup b .. 71 /\ id[1] = 255
    BY <1>2, <1>10, <2>1
  <2> QED BY <1>5, <1>6, <2>1
<1>13. IsIntegerRead(r, y, b, sign)
  BY <1>2, <1>9, <1>10, <1>11, <1>12 DEF IsIntegerRead
<1> QED BY <1>1, <1>3, <1>8, <1>13, <1>0

(* Wherever a number lies, the readers find its end and what it means.     *)
LEMMA NumberRead ==
  ASSUME NEW u \in Seq(Byte), NEW n, EncodesNumber(u, n),
         NEW f \in Seq(Byte), NEW p \in Position, LiesIn(u, f, p)
  PROVE  HasNumber(f, p) /\ AfterKey(f, p) = p + Len(u) /\ ReadsAs(Number(f, p), n)
<1>1. PICK c, w, body : c = u[1] /\ w = NumberBody(c) /\ w = NumberBody(u[1]) /\ body = NumberBytes(u)
  OBVIOUS
<1>2. /\ u # <<>> /\ Len(u) = 1 + w /\ n.negative \in BOOLEAN
      /\ IsInteger(c) \/ (c \in {202, 203} /\ Float(Tail(u)).finite)
  BY <1>1 DEF EncodesNumber, IsNumber
<1>3. c \in Byte /\ c \in Int
  <2>1. 1 \in 1 .. Len(u)
    BY <1>2
  <2>2. c \in Byte
    BY <1>1, <2>1
  <2> QED BY <2>2 DEF Byte
<1>4. /\ w \in {0, 1, 2, 4, 8} /\ (c \in {202, 203} => w \in {4, 8})
      /\ (IsInteger(c) /\ w = 0 => c \in 0 .. 127 \cup 224 .. 255)
      /\ (IsInteger(c) /\ w # 0 => c \in UintCodes \cup IntCodes)
  <2>1. c \in {202, 203} => w \in {4, 8}
    BY <1>1 DEF NumberBody
  <2> QED BY <1>1, <1>3, <2>1, CodeWidth
<1>5. /\ f[p] = c /\ FieldBody(f, p) = body /\ body \in Seq(Byte) /\ Len(body) = IF w = 0 THEN 1 ELSE w
      /\ w = 0 => body[1] = c
  <2>1. w \in Nat /\ w = NumberBody(u[1]) /\ Len(u) = 1 + w /\ u # <<>>
    BY <1>1, <1>2, <1>4
  <2> QED BY <1>1, <2>1, BodyRead
<1>6. p \in Nat /\ Len(f) \in Nat /\ p + Len(u) <= Len(f) + 1
  BY DEF LiesIn, Position
<1>7. HasNumber(f, p) /\ AfterKey(f, p) = p + Len(u)
  BY <1>1, <1>2, <1>4, <1>5, <1>6 DEF HasNumber, AfterKey
<1>8. CASE c \in {202, 203}
  <2>1. w \in Position
    <3>1. w \in Nat /\ w # 0
      BY <1>4, <1>8
    <3> QED BY <3>1 DEF Position
  <2>2. SubSeq(f, p + 1, p + w) = Tail(u)
    <3>1. Len(u) = 1 + w
      BY <1>2
    <3> QED BY <2>1, <3>1, BodyCut
  <2>3. Number(f, p) = Float(Tail(u))
    <3>1. f[p] = c
      BY <1>5
    <3>2. w = NumberBody(c)
      BY <1>1
    <3>3. Number(f, p) = Float(SubSeq(f, p + 1, p + NumberBody(f[p])))
      BY <1>8, <3>1 DEF Number
    <3> QED BY <2>2, <3>1, <3>2, <3>3
  <2>4. ~IsInteger(c)
    BY <1>8 DEF IsInteger
  <2>5. n.negative = Float(Tail(u)).negative /\ n.digits = Float(Tail(u)).digits
    BY <1>1, <1>8 DEF EncodesNumber
  <2> QED BY <1>2, <1>7, <2>3, <2>4, <2>5 DEF ReadsAs
<1>9. CASE c \notin {202, 203}
  <2>1. IsInteger(c)
    BY <1>2, <1>9
  <2>2. PICK v \in 1 .. 8 : v = Len(body)
    BY <1>4, <1>5
  <2>3. PICK sign : sign = SignOf(body, w, c)
    OBVIOUS
  <2>4. PICK b \in 8 .. 64 : b = 8 * v
    <3>1. \A y \in 1 .. 8 : 8 * y \in 8 .. 64
      OBVIOUS
    <3> QED BY <3>1
  <2>5. IsIntegerRead(Number(f, p), Bits(body), b, sign)
    <3>1. w = NumberBody(c)
      BY <1>1
    <3>2. body \in Seq(Byte) /\ FieldBody(f, p) = body /\ c = f[p]
      BY <1>5
    <3>3. Len(body) = v /\ v \in 1 .. 8
      BY <2>2
    <3>4. IsIntegerRead(Number(f, p), Bits(body), 8 * v, SignOf(body, NumberBody(c), c))
      BY <1>9, <3>2, <3>3, IntegerRead
    <3> QED BY <2>3, <2>4, <3>1, <3>4
  <2>6. 8 * v - 1 \in Bits(body) <=> body[1] >= 128
    BY <1>5, <2>2, TopDigit
  <2>10. IF n.negative
         THEN /\ c \in IntCodes \cup 224 .. 255 /\ b - 1 \in Bits(body)
              /\ n.digits # {} /\ n.digits \subseteq 0 .. b - 1
              /\ Bits(body) = TwosComplement(n.digits, b)
         ELSE n.digits = Bits(body) /\ (c \in IntCodes \cup 224 .. 255 => b - 1 \notin Bits(body))
    <3>1. PICK top : top = 8 * Len(NumberBytes(u)) - 1
      OBVIOUS
    <3>2. IF n.negative
          THEN /\ c \in IntCodes \cup 224 .. 255 /\ top \in Bits(body)
               /\ n.digits # {} /\ n.digits \subseteq 0 .. top
               /\ Bits(body) = TwosComplement(n.digits, top + 1)
          ELSE n.digits = Bits(body) /\ (c \in IntCodes \cup 224 .. 255 => top \notin Bits(body))
      BY <1>1, <1>9, <3>1 DEF EncodesNumber
    <3>3. top = b - 1 /\ top + 1 = b
      BY <1>1, <2>2, <2>4, <3>1
    <3> QED BY <3>2, <3>3
  <2>11. w = 0 \/ c \in SignedCodes <=> c \in IntCodes \cup 224 .. 255 \/ (w = 0 /\ c \in 0 .. 127)
    <3>1. CASE w = 0
      BY <1>4, <2>1, <3>1
    <3>2. CASE w # 0
      <4>1. c \in 204 .. 211
        BY <1>4, <2>1, <3>2 DEF UintCodes, IntCodes
      <4>2. c \in IntCodes \cup 224 .. 255 <=> c \in IntCodes
        BY <4>1
      <4> QED BY <3>2, <4>2 DEF IntCodes, SignedCodes
    <3> QED BY <3>1, <3>2
  <2>12. CASE n.negative
    <3>1. sign = 255
      <4>1. body[1] >= 128
        BY <2>4, <2>6, <2>10, <2>12
      <4>2. w = 0 \/ c \in SignedCodes
        BY <2>10, <2>11, <2>12
      <4> QED BY <2>3, <4>1, <4>2 DEF SignOf
    <3>2. PICK x, m : x = Bits(body) \cup b .. 71 /\ m = n.digits
      OBVIOUS
    <3>3. x = TwosComplement(m, b) \cup b .. 71
      BY <2>10, <2>12, <3>2
    <3>4. PlusUnit(0 .. 71 \ x, 0) = m /\ m \subseteq 0 .. 71
      <4>1. m # {} /\ m \subseteq 0 .. b - 1
        BY <2>10, <2>12, <3>2
      <4>2. m \subseteq 0 .. 71
        BY <2>4, <4>1
      <4> QED BY <2>4, <3>3, <4>1, <4>2, ComplementRead
    <3>5. Number(f, p).digits = Rounded(n.digits)
      BY <2>5, <3>1, <3>2, <3>4 DEF IsIntegerRead
    <3>6. Number(f, p).negative = n.negative /\ Number(f, p).finite = TRUE
      BY <1>2, <2>5, <2>12, <3>1 DEF IsIntegerRead
    <3>7. n.digits \subseteq 0 .. 71
      BY <3>2, <3>4
    <3>8. ReadsAs(Number(f, p), n)
      BY <1>2, <3>5, <3>6, <3>7 DEF ReadsAs
    <3> QED BY <1>7, <3>8
  <2>13. CASE ~n.negative
    <3>1. sign = 0
      <4> SUFFICES ASSUME body[1] >= 128, w = 0 \/ c \in SignedCodes PROVE FALSE
        BY <2>3 DEF SignOf
      <4>2. c \notin IntCodes \cup 224 .. 255
        BY <2>4, <2>6, <2>10, <2>13
      <4>3. w = 0 /\ c \in 0 .. 127
        BY <2>11, <4>2
      <4> QED BY <1>5, <4>3
    <3>2. n.digits = Bits(body)
      BY <2>10, <2>13
    <3>3. n.digits \subseteq 0 .. 71
      <4>1. PICK m : m = n.digits
        OBVIOUS
      <4>2. m \subseteq 0 .. b - 1
        BY <2>5, <3>2, <4>1 DEF IsIntegerRead
      <4>3. m \subseteq 0 .. 71
        BY <2>4, <4>2
      <4> QED BY <4>1, <4>3
    <3>4. Number(f, p).negative = n.negative /\ Number(f, p).finite = TRUE
      <4>1. n.negative = FALSE
        BY <1>2, <2>13, Zenon
      <4>2. Number(f, p).negative = FALSE /\ Number(f, p).finite = TRUE
        BY <2>5, <3>1 DEF IsIntegerRead
      <4> QED BY <4>1, <4>2, Zenon
    <3>5. Number(f, p).digits = Rounded(n.digits)
      BY <2>5, <3>1, <3>2 DEF IsIntegerRead
    <3>6. ReadsAs(Number(f, p), n)
      BY <1>2, <3>3, <3>4, <3>5 DEF ReadsAs
    <3> QED BY <1>7, <3>6
  <2> QED BY <2>12, <2>13
<1> QED BY <1>8, <1>9

(* And what they take for a number was written as one.                     *)
LEMMA NumberFound ==
  ASSUME NEW v \in Seq(Byte), NEW p \in Position, HasNumber(v, p), Number(v, p).finite,
         NEW last \in Nat, last = p + NumberBody(v[p])
  PROVE  last <= Len(v) /\ p <= last /\ IsNumber(SubSeq(v, p, last))
<1>1. PICK c, w, u : c = v[p] /\ w = NumberBody(c) /\ u = SubSeq(v, p, last)
  OBVIOUS
<1>2. /\ p <= Len(v) /\ (IsInteger(c) \/ c \in {202, 203}) /\ last <= Len(v) /\ last = p + w
      /\ p \in Nat /\ p >= 1
  BY <1>1 DEF HasNumber, Position
<1>3. w \in {0, 1, 2, 4, 8} /\ (c \in {202, 203} => w \in {4, 8})
  BY <1>1 DEF NumberBody
<1>4. u \in Seq(Byte) /\ Len(u) = 1 + w /\ LiesIn(u, v, p) /\ p <= last
  <2>1. p <= last + 1 /\ p <= last /\ last + 1 - p = 1 + w
    BY <1>2, <1>3
  <2>2. IsCut(u, v, p, last)
    BY <1>1, <1>2, <2>1, CutLies
  <2> QED BY <2>1, <2>2 DEF IsCut
<1>5. u[1] = c /\ u # <<>>
  <2>1. 1 \in 1 .. Len(u) /\ p + 1 - 1 = p /\ Len(u) # 0
    BY <1>2, <1>3, <1>4
  <2>2. v[p + 1 - 1] = u[1]
    BY <1>4, <2>1 DEF LiesIn
  <2> QED BY <1>1, <1>4, <2>1, <2>2
<1>6. ASSUME c \in {202, 203} PROVE Float(Tail(u)).finite
  <2>1. w \in Position
    <3>1. w \in Nat /\ w # 0
      BY <1>3, <1>6
    <3> QED BY <3>1 DEF Position
  <2>2. SubSeq(v, p + 1, p + w) = Tail(u)
    BY <1>4, <2>1, BodyCut
  <2>3. Number(v, p) = Float(Tail(u))
    BY <1>1, <1>6, <2>2 DEF Number
  <2> QED BY <2>3
<1>7. IsNumber(u)
  BY <1>1, <1>2, <1>4, <1>5, <1>6 DEF IsNumber
<1> QED BY <1>1, <1>2, <1>4, <1>7

-----------------------------------------------------------------------------
(* What encodes a ticket is taken for it, until its expiry as it was read. *)
TicketBy(r, now, t) == IF Greater(r, now) THEN [ok |-> TRUE, expires |-> r, ticket |-> t] ELSE NoTicket
LEMMA TicketTaken ==
  ASSUME NEW v \in Seq(Byte), Len(v) < Huge, NEW n, NEW t, EncodesTicket(v, n, t), Len(t) = TicketLength
  PROVE  \E r : ReadsAs(r, n) /\ \A now : TicketIn(v, now) = TicketBy(r, now, t)
<1>1. PICK a, b \in 1 .. Len(v) :
        /\ SubSeq(v, 1, a) \in PairHeads
        /\ EncodesNumber(SubSeq(v, a + 1, b), n)
        /\ EncodesBlob(SubSeq(v, b + 1, Len(v)), t, BinCodes \cup TextCodes)
  BY DEF EncodesTicket
<1>2. PICK h, u, c, N : h = SubSeq(v, 1, a) /\ u = SubSeq(v, a + 1, b) /\ c = SubSeq(v, b + 1, N) /\ N = Len(v)
  OBVIOUS
<1>3. N \in Nat /\ a \in Nat /\ b \in Nat /\ 1 <= a /\ a <= N /\ 1 <= b /\ b <= N
      /\ 1 \in Position /\ a + 1 \in Position /\ b + 1 \in Position
      /\ 1 <= a + 1 /\ a <= Len(v) /\ b + 1 <= N + 1 /\ b <= Len(v) /\ N <= Len(v)
  BY <1>2 DEF Position
<1>4. h \in Seq(Byte) /\ Len(h) = a /\ LiesIn(h, v, 1)
  <2>1. IsCut(h, v, 1, a)
    BY <1>2, <1>3, CutLies
  <2> QED BY <1>3, <2>1 DEF IsCut
<1>5. a + 1 <= b
  <2> SUFFICES ASSUME ~ (a + 1 <= b) PROVE FALSE
    OBVIOUS
  <2>1. u = <<>>
    BY <1>2, <1>3
  <2>2. u # <<>>
    BY <1>1, <1>2 DEF EncodesNumber, IsNumber
  <2> QED BY <2>1, <2>2
<1>6. u \in Seq(Byte) /\ Len(u) = b + 1 - (a + 1) /\ LiesIn(u, v, a + 1)
  <2>1. a + 1 <= b + 1
    BY <1>3, <1>5
  <2>2. IsCut(u, v, a + 1, b)
    BY <1>2, <1>3, <2>1, CutLies
  <2> QED BY <2>2 DEF IsCut
<1>7. c \in Seq(Byte) /\ Len(c) = N + 1 - (b + 1) /\ LiesIn(c, v, b + 1)
  <2>1. IsCut(c, v, b + 1, N)
    BY <1>2, <1>3, CutLies
  <2> QED BY <2>1 DEF IsCut
<1>8. HoldsBlob(c, t)
  <2>1. Len(c) < Huge
    BY <1>2, <1>3, <1>7 DEF Huge
  <2> QED BY <1>1, <1>2, <2>1, BlobHeld
<1>9. PairStart(v) = a + 1
  <2>1. \A i \in 1 .. Len(h) : v[i] = h[i]
    <3> SUFFICES ASSUME NEW i \in 1 .. Len(h) PROVE v[i] = h[i]
      OBVIOUS
    <3>1. v[1 + i - 1] = h[i] /\ 1 + i - 1 = i
      BY <1>4 DEF LiesIn
    <3> QED BY <3>1
  <2> QED BY <1>1, <1>2, <1>4, <2>1, PairHeadRead
<1>10. PICK r : r = Number(v, a + 1)
  OBVIOUS
<1>11. HasNumber(v, a + 1) /\ AfterKey(v, a + 1) = b + 1 /\ ReadsAs(r, n)
  <2>1. EncodesNumber(u, n)
    BY <1>1, <1>2
  <2>2. HasNumber(v, a + 1) /\ AfterKey(v, a + 1) = a + 1 + Len(u) /\ ReadsAs(Number(v, a + 1), n)
    BY <1>3, <1>6, <2>1, NumberRead
  <2> QED BY <1>3, <1>6, <1>10, <2>2
<1>12. ReadBin(v, b + 1) = N + 1 /\ BlobFrom(v, b + 1) = t
  <2>1. ReadBin(v, b + 1) = b + 1 + Len(c)
    BY <1>3, <1>7, <1>8, BlobSkipped
  <2>2. ValueAsBytes(SubSeq(v, b + 1, Len(v))) = t
    BY <1>3, <1>7, <1>8, BlobRead
  <2> QED BY <1>3, <1>7, <2>1, <2>2 DEF BlobFrom
<1>13. v # <<>> /\ a + 1 # Malformed /\ EndsWithBlob(v, b + 1) /\ r.finite
  BY <1>2, <1>3, <1>11, <1>12 DEF Malformed, EndsWithBlob, ReadsAs
<1>14. ASSUME NEW now PROVE TicketIn(v, now) = TicketBy(r, now, t)
  <2>1. PICK q : q = b + 1
    OBVIOUS
  <2>2. AfterKey(v, PairStart(v)) = q /\ Number(v, PairStart(v)) = r /\ BlobFrom(v, q) = t
    BY <1>9, <1>10, <1>11, <1>12, <2>1
  <2>3. v # <<>> /\ PairStart(v) # Malformed /\ HasNumber(v, PairStart(v)) /\ EndsWithBlob(v, q)
    BY <1>9, <1>11, <1>13, <2>1
  <2>4. TicketIn(v, now) = IF r.finite /\ Greater(r, now) /\ Len(t) = TicketLength
                           THEN [ok |-> TRUE, expires |-> r, ticket |-> t] ELSE NoTicket
    BY <2>2, <2>3, Zenon DEF TicketIn, Unexpired
  <2> QED BY <1>13, <2>4 DEF TicketBy
<1> QED BY <1>11, <1>14

(* What encodes no ticket is never taken for one.                          *)
LEMMA NoTicketTaken ==
  ASSUME NEW v \in Seq(Byte), Len(v) < Huge, v # <<>>, ~IsTicket(v, TicketLength), NEW now
  PROVE  TicketIn(v, now) = NoTicket
<1> DEFINE first == PairStart(v)
           after == AfterKey(v, first)
<1>1. SUFFICES ASSUME first # Malformed, HasNumber(v, first), EndsWithBlob(v, after),
                      Number(v, first).finite, Len(BlobFrom(v, after)) = TicketLength
               PROVE  FALSE
  BY Zenon DEF TicketIn, Unexpired
<1>2. PICK p, w, q, n : p = PairStart(v) /\ w = NumberBody(v[p]) /\ q = AfterKey(v, p) /\ n = Len(v)
  OBVIOUS
<1>3. /\ p # Malformed /\ HasNumber(v, p) /\ EndsWithBlob(v, q)
      /\ Number(v, p).finite /\ Len(BlobFrom(v, q)) = TicketLength
  BY <1>1, <1>2
<1>4. p <= Len(v)
  BY <1>3 DEF HasNumber
<1>5. PICK a \in 1 .. Len(v) : p = a + 1 /\ SubSeq(v, 1, a) \in PairHeads
  BY <1>2, <1>3, <1>4, HeadFound
<1>6. n \in Nat /\ a \in Nat /\ a >= 1 /\ a <= n /\ p \in Nat /\ p \in Position
  BY <1>2, <1>5 DEF Position
<1>7. w \in Nat
  BY <1>2 DEF NumberBody
<1>8. PICK b \in Nat : b = p + w
  BY <1>6, <1>7
<1>9. b <= n /\ p <= b /\ IsNumber(SubSeq(v, p, b))
  BY <1>2, <1>3, <1>6, <1>8, NumberFound
<1>10. q = b + 1 /\ q \in Position /\ b \in 1 .. Len(v)
  <2>1. q = p + 1 + w
    BY <1>2 DEF AfterKey
  <2>2. q = b + 1 /\ b >= 1
    BY <1>5, <1>6, <1>7, <1>8, <2>1
  <2>3. b \in 1 .. Len(v)
    BY <1>2, <1>8, <1>9, <2>2
  <2> QED BY <1>8, <2>2, <2>3 DEF Position
<1>11. v[q] \in BinCodes \cup TextCodes
  <2>1. ReadBin(v, q) = n + 1 /\ n + 1 # Malformed
    BY <1>2, <1>3, <1>6 DEF EndsWithBlob, Malformed
  <2>2. IsBlob(v[q])
    BY <2>1 DEF ReadBin
  <2>3. v[q] \in Int
    <3>1. q \in 1 .. Len(v)
      <4>1. ~ (q > Len(v))
        BY <2>1 DEF ReadBin
      <4> QED BY <1>10, <4>1 DEF Position
    <3>2. v[q] \in Byte
      BY <3>1
    <3>3. \A x \in Byte : x \in Int
      BY DEF Byte
    <3> QED BY <3>2, <3>3
  <2> QED BY <2>2, <2>3 DEF IsBlob, BinCodes, TextCodes, FixStr
<1>12. PICK i \in Nat : i = q + 1 + LengthBytes(v[q])
  <2>1. LengthBytes(v[q]) \in {0, 1, 2, 4}
    BY <1>11, BlobWidth
  <2>2. LengthBytes(v[q]) \in Nat
    BY <2>1
  <2> QED BY <1>10, <2>2
<1>13. PICK content : content = SubSeq(v, i, Len(v))
  OBVIOUS
<1>14. i \in 1 .. Len(v) + 1 /\ EncodesBlob(SubSeq(v, q, Len(v)), content, {v[q]})
  BY <1>3, <1>10, <1>11, <1>12, <1>13, BlobFound
<1>15. EncodesBlob(SubSeq(v, b + 1, Len(v)), content, BinCodes \cup TextCodes)
  <2>1. EncodesBlob(SubSeq(v, q, Len(v)), content, BinCodes \cup TextCodes)
    BY <1>11, <1>14 DEF EncodesBlob
  <2> QED BY <1>10, <2>1
<1>16. Len(v) + 1 - i = TicketLength
  <2>1. PICK u : u = SubSeq(v, q, Len(v))
    OBVIOUS
  <2>2. q <= n /\ q \in Nat
    <3>1. ReadBin(v, q) = n + 1 /\ n + 1 # Malformed
      BY <1>2, <1>3, <1>6 DEF EndsWithBlob, Malformed
    <3>2. ~ (q > Len(v))
      BY <3>1 DEF ReadBin
    <3> QED BY <1>2, <1>10, <3>2 DEF Position
  <2>3. LiesIn(u, v, q) /\ Len(u) = n + 1 - q /\ Len(u) < Huge
    <3>1. IsCut(u, v, q, n)
      <4>1. q \in Position /\ q <= n + 1 /\ n <= Len(v) /\ n \in Nat
        BY <1>2, <1>6, <1>10, <2>2
      <4>2. u = SubSeq(v, q, n)
        BY <1>2, <2>1
      <4> QED BY <4>1, <4>2, CutLies
    <3>2. LiesIn(u, v, q) /\ Len(u) = n + 1 - q
      BY <1>6, <2>2, <3>1 DEF IsCut
    <3>3. Len(u) < Huge
      BY <1>2, <1>6, <1>10, <2>2, <3>2 DEF Huge, Position
    <3> QED BY <3>2, <3>3
  <2>4. HoldsBlob(u, content)
    <3>1. {v[q]} \subseteq BinCodes \cup TextCodes
      BY <1>11
    <3>2. EncodesBlob(u, content, {v[q]})
      BY <1>14, <2>1
    <3> QED BY <2>3, <3>1, <3>2, BlobHeld
  <2>5. ValueAsBytes(SubSeq(v, q, Len(v))) = content
    BY <1>10, <2>3, <2>4, BlobRead
  <2>6. Len(content) = TicketLength
    BY <1>3, <2>5 DEF BlobFrom
  <2>7. IsCut(content, v, i, n)
    <3>1. i \in Position /\ i <= n + 1 /\ n <= Len(v)
      BY <1>2, <1>6, <1>12, <1>14 DEF Position
    <3> QED BY <1>2, <1>6, <1>13, <3>1, CutLies
  <2>8. Len(content) = n + 1 - i
    BY <1>6, <1>12, <2>7 DEF IsCut
  <2> QED BY <1>2, <2>6, <2>8
<1>17. IsTicket(v, TicketLength)
  <2>1. IsNumber(SubSeq(v, a + 1, b))
    BY <1>5, <1>9
  <2>2. EncodesBlob(SubSeq(v, b + 1, Len(v)), SubSeq(v, i, Len(v)), BinCodes \cup TextCodes)
    BY <1>13, <1>15
  <2> QED BY <1>5, <1>10, <1>14, <1>16, <2>1, <2>2, Zenon DEF IsTicket
<1> QED BY <1>17

-----------------------------------------------------------------------------
(* What ticket_field takes for a ticket has its length, and an expiry that *)
(* is a float.                                                             *)
LEMMA TicketIsTyped ==
  ASSUME NEW v, v = <<>> \/ v \in Seq(Byte), NEW now, TicketIn(v, now).ok
  PROVE  /\ Len(TicketIn(v, now).ticket) = TicketLength
         /\ IsDouble(TicketIn(v, now).expires)
<1>1. PICK p, q : p = PairStart(v) /\ q = AfterKey(v, p)
  OBVIOUS
<1>2. PICK r, t, k : r = Number(v, p) /\ t = BlobFrom(v, q) /\ k = TicketIn(v, now)
  OBVIOUS
<1>3. /\ v # <<>> /\ p # Malformed /\ HasNumber(v, p) /\ Len(t) = TicketLength
      /\ k = [ok |-> TRUE, expires |-> r, ticket |-> t]
  <2>1. k # NoTicket
    BY <1>2 DEF NoTicket
  <2> QED BY <1>1, <1>2, <2>1, Zenon DEF TicketIn
<1>4. p \in Position
  <2>1. p = 2 + LengthBytes(v[1])
    BY <1>1, <1>3 DEF PairStart
  <2>2. LengthBytes(v[1]) \in Nat
    BY DEF LengthBytes
  <2> QED BY <2>1, <2>2 DEF Position
<1>5. IsDouble(r)
  BY <1>2, <1>3, <1>4, NumberIsDouble
<1>6. k.ticket = t /\ k.expires = r
  BY <1>3
<1> QED BY <1>2, <1>3, <1>5, <1>6

(* What is in the message under the ticket's ID.                           *)
LEMMA TicketValueFound ==
  ASSUME entries \in Maps
  PROVE  FieldValue(Encoded, TicketId) =
           IF IsFieldsMap /\ Under(TicketKey) # {} THEN The(TicketKey).bytes ELSE <<>>
<1>1. PICK at : Lies(at)
  BY EntriesLie
<1>2. ValidWithoutScratch(Encoded) <=> IsFieldsMap
  BY <1>1, FieldsMapRead
<1>3. CASE ~IsFieldsMap
  <2>1. PICK id : id = FieldId(<<TicketId>>, 1)
    OBVIOUS
  <2>2. FieldValueId(Encoded, id) = <<>>
    BY <1>2, <1>3, Zenon DEF FieldValueId
  <2> QED BY <1>3, <2>1, <2>2 DEF FieldValue
<1>4. CASE IsFieldsMap
  <2>1. 12 \in 0 .. 127 /\ 12 \in Int
    OBVIOUS
  <2>2. FieldId(<<12>>, 1) = Octets(12, 9) /\ Shifted(12)[8] \in {0, -1}
    BY <2>1, SmallId
  <2>3. FieldValueId(Encoded, Octets(12, 9)) =
          IF Under(<<"integer", 12>>) = {} THEN <<>> ELSE The(<<"integer", 12>>).bytes
    BY <1>4, <2>1, <2>2, ValueFound
  <2>4. FieldValue(Encoded, TicketId) = IF Under(TicketKey) = {} THEN <<>> ELSE The(TicketKey).bytes
    BY <2>2, <2>3 DEF FieldValue, TicketId, TicketKey
  <2> QED BY <1>4, <2>4
<1> QED BY <1>3, <1>4

(* ticket_field takes the ticket that is offered, until the expiry that it *)
(* reads, and nothing else.                                                *)
LEMMA TicketRead ==
  ASSUME entries \in Maps
  PROVE  /\ ~OffersTicket => \A now : TicketField(Encoded, now) = NoTicket
         /\ OffersTicket => \E r : /\ ReadsAs(r, Expiry)
                                   /\ \A now : TicketField(Encoded, now)
                                                 = TicketBy(r, now, The(TicketKey).means[2])
<1>1. FieldValue(Encoded, TicketId) =
        IF IsFieldsMap /\ Under(TicketKey) # {} THEN The(TicketKey).bytes ELSE <<>>
  BY TicketValueFound
<1>2. CASE ~ (IsFieldsMap /\ Under(TicketKey) # {})
  <2>1. FieldValue(Encoded, TicketId) = <<>> /\ ~OffersTicket
    BY <1>1, <1>2 DEF OffersTicket
  <2>2. \A now : TicketIn(<<>>, now) = NoTicket
    BY Zenon DEF TicketIn
  <2> QED BY <2>1, <2>2 DEF TicketField
<1>3. CASE IsFieldsMap /\ Under(TicketKey) # {}
  <2>1. PICK i \in Under(TicketKey) : The(TicketKey) = entries[i].value
    BY <1>3 DEF The
  <2>2. i \in 1 .. Len(entries) /\ entries[i].key = TicketKey /\ IsEntry(entries[i])
    BY <2>1, EntriesAre DEF Under
  <2>3. PICK v, kind, means : v = entries[i].value.bytes /\ kind = entries[i].value.kind /\ means = entries[i].value.means
    OBVIOUS
  <2>4. /\ v \in Seq(Byte) /\ Len(v) < Huge /\ SkipValueAt(v, 1, 0) = Len(v) + 1
        /\ IF kind = "ticket"
           THEN EncodesTicket(v, means[1], means[2]) /\ Len(means[2]) = TicketLength
           ELSE ~IsTicket(v, TicketLength)
    BY <2>2, <2>3 DEF IsEntry, TicketKey
  <2>5. v # <<>>
    <3> SUFFICES ASSUME v = <<>> PROVE FALSE
      OBVIOUS
    <3>1. SkipValueAt(v, 1, 0) = 1 /\ 1 \in Position /\ 0 \in Nat /\ 1 # Malformed
      BY <2>4 DEF Position, Malformed
    <3>2. SkipValueAt(v, 1, 0) \in 1 + 1 .. Len(v) + 1
      BY <2>4, <3>1, ValueEnds
    <3> QED BY <3>1, <3>2
  <2>6. \A now : TicketField(Encoded, now) = TicketIn(v, now)
    BY <1>1, <1>3, <2>1, <2>3 DEF TicketField
  <2>7. CASE kind = "ticket"
    <3>1. OffersTicket /\ Expiry = means[1] /\ The(TicketKey).means[2] = means[2]
      BY <1>3, <2>1, <2>3, <2>7 DEF OffersTicket, Expiry
    <3>2. PICK n, t : n = means[1] /\ t = means[2]
      OBVIOUS
    <3>3. PICK r : ReadsAs(r, n) /\ \A now : TicketIn(v, now) = TicketBy(r, now, t)
      BY <2>4, <2>7, <3>2, TicketTaken
    <3> QED BY <2>6, <3>1, <3>2, <3>3
  <2>8. CASE kind # "ticket"
    <3>1. ~OffersTicket
      BY <2>1, <2>3, <2>8 DEF OffersTicket
    <3>2. \A now : TicketIn(v, now) = NoTicket
      BY <2>4, <2>5, <2>8, NoTicketTaken
    <3> QED BY <2>6, <3>1, <3>2
  <2> QED BY <2>7, <2>8
<1> QED BY <1>2, <1>3

-----------------------------------------------------------------------------
LEMMA Ranges == IsRange(0 .. 71) /\ IsRange(DoubleDigits)
<1>1. PICK a \in Int : a = 0
  OBVIOUS
<1>2. PICK b \in Int : b = 71
  OBVIOUS
<1>3. IsRange(0 .. 71)
  BY <1>1, <1>2, Zenon DEF IsRange
<1>4. PICK c \in Int : c = -1074
  OBVIOUS
<1>5. PICK d \in Int : d = 1023
  OBVIOUS
<1>6. IsRange(DoubleDigits)
  <2>1. DoubleDigits = c .. d
    BY <1>4, <1>5 DEF DoubleDigits
  <2>2. c \in Int /\ d \in Int
    BY <1>4, <1>5
  <2> QED BY <2>1, <2>2, Zenon DEF IsRange
<1> QED BY <1>3, <1>6

(* An expiry as it was read lies after a clock only if the exact one does; *)
(* and one that is a float is read exactly.                                *)
LEMMA ExpiryIsSafe ==
  ASSUME NEW r, NEW n, ReadsAs(r, n), NEW now, Narrow(now.digits)
  PROVE  /\ Greater(r, now) => Greater(n, now)
         /\ IsDouble(n) => r.digits = n.digits /\ (Greater(n, now) => Greater(r, now))
<1>1. Greater(r, now) => Greater(n, now)
  BY RoundingIsSafe
<1>2. ASSUME IsDouble(n) PROVE r.digits = n.digits /\ (Greater(n, now) => Greater(r, now))
  <2>1. CASE r.digits = n.digits
    BY <2>1 DEF ReadsAs, Greater, Minus
  <2>2. CASE n.digits \subseteq 0 .. 71
    <3>1. Narrow(n.digits)
      <4>1. PICK D : D = 0 .. 71
        OBVIOUS
      <4>2. IsRange(D) /\ n.digits \subseteq D
        BY <2>2, <4>1, Ranges, Zenon
      <4> QED BY <1>2, <4>2, DoublesAreNarrow
    <3> QED BY <3>1, RoundingIsSafe
  <2> QED BY <2>1, <2>2 DEF ReadsAs
<1> QED BY <1>1, <1>2

LEMMA TimesAreNarrow ==
  ASSUME NEW i \in DOMAIN Times
  PROVE  Narrow(Times[i].digits)
<1>1. Times[i].digits \subseteq DoubleDigits /\ IsDouble(Times[i]) /\ IsRange(DoubleDigits)
  BY TimesAre, Ranges, Zenon
<1> QED BY <1>1, DoublesAreNarrow

(* A ticket is taken only as offered and only while its exact expiry lies  *)
(* ahead, however the expiry was encoded and rounded; and an unexpired one *)
(* is taken, if rounding did not bring its expiry down to now.             *)
THEOREM TicketsAreUnexpired == Spec => []TicketsUnexpired
<1>1. entries \in Maps /\ Answered => TicketsUnexpired
  <2> SUFFICES ASSUME entries \in Maps, Answered, asked # 0
               PROVE  /\ ticket.ok => /\ OffersTicket /\ ticket.ticket = The(TicketKey).means[2]
                                      /\ Greater(Expiry, Times[asked])
                      /\ OffersTicket /\ IsDouble(Expiry) /\ Greater(Expiry, Times[asked]) =>
                           ticket.ok /\ ticket.expires.digits = Expiry.digits
    BY DEF TicketsUnexpired
  <2>1. PICK now : now = Times[asked]
    OBVIOUS
  <2>2. ticket = TicketField(Encoded, now) /\ Narrow(now.digits)
    BY <2>1, TimesAreNarrow DEF Answered
  <2>3. CASE ~OffersTicket
    <3>1. ticket = NoTicket
      BY <2>2, <2>3, TicketRead
    <3>2. ~ticket.ok
      BY <3>1 DEF NoTicket
    <3> QED BY <2>3, <3>2
  <2>4. CASE OffersTicket
    <3>1. PICK r : /\ ReadsAs(r, Expiry)
                   /\ \A x : TicketField(Encoded, x) = TicketBy(r, x, The(TicketKey).means[2])
      BY <2>4, TicketRead
    <3>2. PICK t, n : t = The(TicketKey).means[2] /\ n = Expiry
      OBVIOUS
    <3>3. ticket = TicketBy(r, now, t) /\ ReadsAs(r, n)
      BY <2>2, <3>1, <3>2
    <3>4. /\ Greater(r, now) => Greater(n, now)
          /\ IsDouble(n) => r.digits = n.digits /\ (Greater(n, now) => Greater(r, now))
      BY <2>2, <3>3, ExpiryIsSafe
    <3>5. CASE Greater(r, now)
      <4>1. ticket = [ok |-> TRUE, expires |-> r, ticket |-> t]
        BY <3>3, <3>5 DEF TicketBy
      <4>2. ticket.ok = TRUE /\ ticket.ticket = t /\ ticket.expires = r
        BY <4>1
      <4> QED BY <2>1, <2>4, <3>2, <3>4, <3>5, <4>2
    <3>6. CASE ~Greater(r, now)
      <4>1. ~ticket.ok
        BY <3>3, <3>6 DEF TicketBy, NoTicket
      <4> QED BY <2>1, <3>2, <3>4, <3>6, <4>1
    <3> QED BY <3>5, <3>6
  <2> QED BY <2>3, <2>4
<1> QED BY <1>1, AnswersLast, PTL

(* What the sender means by audio has a byte for its mode, and what it     *)
(* means by a member is bytes.                                             *)
LEMMA MeaningIsTyped ==
  ASSUME entries \in Maps
  PROVE  /\ AudioMeant.kind \in {"none", "malformed", "audio"}
         /\ AudioMeant.kind = "audio" => AudioMeant.mode \in Byte
         /\ MemberMeant \in Seq(Byte)
<1>1. \A key : Under(key) # {} => \E i \in 1 .. Len(entries) :
        entries[i].key = key /\ The(key) = entries[i].value /\ IsEntry(entries[i])
  <2> SUFFICES ASSUME NEW key, Under(key) # {}
               PROVE  \E i \in 1 .. Len(entries) :
                        entries[i].key = key /\ The(key) = entries[i].value /\ IsEntry(entries[i])
    OBVIOUS
  <2>1. PICK i \in Under(key) : The(key) = entries[i].value
    BY DEF The
  <2> QED BY <2>1, EntriesAre DEF Under
<1>2. MemberMeant \in Seq(Byte)
  <2>1. CASE MemberMeant = <<>>
    BY <2>1, EmptySeq
  <2>2. CASE MemberMeant # <<>>
    <3>1. PICK key : Under(key) # {} /\ MemberMeant = The(key).bytes
      BY <2>2 DEF MemberMeant
    <3> QED BY <1>1, <3>1 DEF IsEntry
  <2> QED BY <2>1, <2>2
<1>3. CASE AudioMeant \in {NoAudio, BadAudio}
  <2>1. NoAudio.kind = "none" /\ BadAudio.kind = "malformed"
    BY DEF NoAudio, BadAudio
  <2> QED BY <1>2, <1>3, <2>1
<1>4. CASE AudioMeant \notin {NoAudio, BadAudio}
  <2>1. PICK m : m = AudioMeant
    OBVIOUS
  <2>2. /\ Under(AudioKey) # {} /\ The(AudioKey).kind = "audio"
        /\ m = [kind |-> "audio", mode |-> The(AudioKey).means[1], bytes |-> The(AudioKey).means[2]]
    BY <1>4, <2>1, Zenon DEF AudioMeant
  <2>3. The(AudioKey).means[1] \in Byte
    <3>1. PICK i \in 1 .. Len(entries) :
            entries[i].key = AudioKey /\ The(AudioKey) = entries[i].value /\ IsEntry(entries[i])
      BY <1>1, <2>2
    <3>2. EncodesAudio(entries[i].value.bytes, entries[i].value.means[1], entries[i].value.means[2])
      BY <2>2, <3>1 DEF IsEntry, AudioKey
    <3> QED BY <3>1, <3>2 DEF EncodesAudio
  <2>4. m.kind = "audio" /\ m.mode = The(AudioKey).means[1]
    BY <2>2
  <2> QED BY <1>2, <2>1, <2>3, <2>4
<1> QED BY <1>3, <1>4

(* The types: a mode is a byte, a ticket has its length, and it expires at *)
(* a time that is a float.                                                 *)
THEOREM TypesAreRight == Spec => []TypeOK
<1>1. entries \in Maps /\ Answered /\ AudioReadAsMeant /\ MemberReadAsMeant => TypeOK
  <2> SUFFICES ASSUME entries \in Maps, Answered, AudioReadAsMeant, MemberReadAsMeant PROVE TypeOK
    OBVIOUS
  <2>1. clock \in 1 .. Len(Times) /\ asked \in 0 .. clock
    BY TimesAssumption, LenProperties DEF Answered
  <2>2. /\ audio.kind \in {"unread", "none", "malformed", "audio"}
        /\ audio.kind = "audio" => audio.mode \in Byte
    <3>1. Unread.kind = "unread"
      BY DEF Unread
    <3> QED BY <3>1, MeaningIsTyped DEF AudioReadAsMeant
  <2>3. ASSUME ticket.ok PROVE Len(ticket.ticket) = TicketLength /\ IsDouble(ticket.expires)
    <3>1. asked # 0
      BY <2>3 DEF Answered, NoTicket
    <3>2. PICK v : v = FieldValue(Encoded, TicketId)
      OBVIOUS
    <3>3. ticket = TicketIn(v, Times[asked])
      BY <3>1, <3>2 DEF Answered, TicketField
    <3>4. v = <<>> \/ v \in Seq(Byte)
      <4>1. CASE v = <<>>
        BY <4>1
      <4>2. CASE v # <<>>
        <5>1. Under(TicketKey) # {} /\ v = The(TicketKey).bytes
          BY <3>2, <4>2, TicketValueFound
        <5>2. PICK i \in Under(TicketKey) : The(TicketKey) = entries[i].value
          BY <5>1 DEF The
        <5>3. IsEntry(entries[i])
          BY <5>2, EntriesAre DEF Under
        <5> QED BY <5>1, <5>2, <5>3 DEF IsEntry
      <4> QED BY <4>1, <4>2
    <3> QED BY <2>3, <3>3, <3>4, TicketIsTyped
  <2>4. member = NoBytes \/ member \in Seq(Byte)
    BY MeaningIsTyped DEF MemberReadAsMeant
  <2> QED BY <2>1, <2>2, <2>3, <2>4 DEF TypeOK
<1> QED BY <1>1, AnswersLast, AudioIsReadAsMeant, MemberIsReadAsMeant, PTL
=============================================================================

---------------------------- MODULE InboxProofs -----------------------------
(***************************************************************************)
(* Opening and authenticating packets with hints that may be stale, proved *)
(* for all packets, identities and ratchets.                               *)
(***************************************************************************)
EXTENDS Inbox, FiniteSetTheorems, SequenceTheorems, TLAPS

(* Induction on the natural numbers, as Lemmas proves it; its lemmas about *)
(* MessagePack, and their limits, play no part.                            *)
Rec == INSTANCE Lemmas WITH MaxDepth <- 0, MaxFields <- 0

USE InboxAssumption

(* Hints wait for packets that arrived, and name the packet's own source.  *)
HintInv == PeekedSourceIsOwn /\ \A h \in peeked : h.packet \in Packets

(* A plaintext is accepted only with its source's signature in it.         *)
LEMMA ValidIsSigned ==
  ASSUME NEW p \in Packets, NEW sender, Validate(p.plain, sender) = "ok"
  PROVE  LET v == View(p.plain)
         IN  SignatureOf(v.source, Me, v.source, v.body) \in Signatures
<1> DEFINE v == View(p.plain)
<1>1. /\ ~(Len(p.plain) < Whole) /\ p.plain[1] = sender
      /\ p.plain[2] = SignatureOf(sender, Me, p.plain[1], p.plain[3].body)
  <2>1. CASE p.plain[3].form = "ok"
    BY <2>1 DEF Validate
  <2>2. CASE p.plain[3].form # "ok"
    BY <2>2 DEF Validate
  <2> QED BY <2>1, <2>2
<1>2. v.source = p.plain[1] /\ v.body = p.plain[3].body
  BY DEF View
<1>3. p \in {q \in Packets : Len(q.plain) >= 2}
  BY <1>1 DEF Whole
<1> QED BY <1>1, <1>2, <1>3 DEF Signatures

(* A peek past the length check reads the source the packet just brought.  *)
LEMMA PeekKeeps ==
  ASSUME HintInv, NEW p \in Packets, NEW room \in BOOLEAN, Peek(p, room)
  PROVE  HintInv'
<1> DEFINE call == PeekSource(p, ring, scratch, room)
           hint == [packet |-> p, source |-> call.source, which |-> call.which, at |-> ring]
<1>1. peeked' = IF call.error # "ok" THEN peeked ELSE peeked \cup {hint}
  BY DEF Peek
<1>2. ASSUME call.error = "ok"
      PROVE  Len(p.plain) = Whole /\ call.source = p.plain[1]
  <2>1. ~(Len(p.plain) < Whole)
    BY <1>2 DEF PeekSource
  <2>2. DOMAIN p.plain = 1 .. Len(p.plain) /\ Len(p.plain) \in 0 .. 3
    BY DEF InboxAssumption, Whole
  <2>3. Len(p.plain) = 3 /\ 1 \in DOMAIN p.plain
    <3> DEFINE n == Len(p.plain)
    <3>1. n \in 0 .. 3 /\ ~(n < 3) /\ DOMAIN p.plain = 1 .. n
      BY <2>1, <2>2 DEF Whole
    <3> HIDE DEF n, call, hint
    <3>2. n = 3
      BY <3>1
    <3>3. 1 \in DOMAIN p.plain
      BY <3>1, <3>2
    <3> QED BY <3>2, <3>3 DEF n
  <2>4. call.source = Decrypted(scratch, p.plain)[1]
    BY <1>2 DEF PeekSource
  <2> QED BY <2>3, <2>4 DEF Decrypted, Whole
<1>3. hint.packet = p /\ hint.source = call.source
  OBVIOUS
<1> HIDE DEF call, hint
<1> QED BY <1>1, <1>2, <1>3 DEF HintInv, PeekedSourceIsOwn

LEMMA HintStep ==
  ASSUME HintInv, [Next]_vars
  PROVE  HintInv'
<1>1. ASSUME NEW p \in Packets, NEW room \in BOOLEAN, Peek(p, room)
      PROVE  HintInv'
  BY <1>1, PeekKeeps
<1>2. ASSUME peeked' \subseteq peeked
      PROVE  HintInv'
  BY <1>2 DEF HintInv, PeekedSourceIsOwn
<1> QED BY <1>1, <1>2 DEF Next, Rotate, Expire, ParseHinted, ParseScanned, vars

(* Only a parse shows a view, and only of a valid plaintext.               *)
LEMMA AcceptStep ==
  ASSUME HintInv, AcceptedAsSigned, [Next]_vars
  PROVE  AcceptedAsSigned'
<1>1. ASSUME NEW h \in peeked, NEW sender \in Identities, NEW room \in BOOLEAN,
             ParseHinted(h, sender, room)
      PROVE  AcceptedAsSigned'
  <2> DEFINE answer == ParseHint(h.packet, ring, h.which, sender, room)
  <2>1. last'.views = Views(h.packet.plain, answer) /\ h.packet \in Packets
    BY <1>1 DEF ParseHinted, HintInv
  <2>2. answer = "ok" => Validate(h.packet.plain, sender) = "ok"
    BY DEF ParseHint
  <2> HIDE DEF answer
  <2> QED BY <2>1, <2>2, ValidIsSigned DEF AcceptedAsSigned, Views, Signatures
<1>2. ASSUME NEW p \in Packets, NEW sender \in Identities, NEW room \in BOOLEAN,
             ParseScanned(p, sender, room)
      PROVE  AcceptedAsSigned'
  <2> DEFINE answer == ParseRatchet(p, ring, sender, room)
  <2>1. last'.views = Views(p.plain, answer)
    BY <1>2 DEF ParseScanned
  <2>2. answer = "ok" => Validate(p.plain, sender) = "ok"
    BY DEF ParseRatchet
  <2> HIDE DEF answer
  <2> QED BY <2>1, <2>2, ValidIsSigned DEF AcceptedAsSigned, Views, Signatures
<1>3. ASSUME last'.views = {} \/ last' = last
      PROVE  AcceptedAsSigned'
  BY <1>3 DEF AcceptedAsSigned, Signatures
<1>4. NoParse.views = {}
  BY DEF NoParse
<1> QED BY <1>1, <1>2, <1>3, <1>4 DEF Next, Rotate, Expire, Peek, vars

(* A hint names the source its own packet carries, never a leftover.       *)
THEOREM HintsAreOwn == Spec => []PeekedSourceIsOwn
<1>1. Init => HintInv
  BY DEF Init, HintInv, PeekedSourceIsOwn
<1>2. HintInv /\ [Next]_vars => HintInv'
  BY HintStep
<1> QED BY <1>1, <1>2, PTL DEF Spec, HintInv

(* Every accepted view was signed, for this recipient, by the identity it  *)
(* names as its source.                                                    *)
THEOREM AcceptanceIsAuthentic == Spec => []AcceptedAsSigned
<1>1. Init => HintInv /\ AcceptedAsSigned
  BY DEF Init, HintInv, PeekedSourceIsOwn, AcceptedAsSigned, NoParse
<1>2. HintInv /\ AcceptedAsSigned /\ [Next]_vars => (HintInv /\ AcceptedAsSigned)'
  BY HintStep, AcceptStep
<1> QED BY <1>1, <1>2, PTL DEF Spec

-----------------------------------------------------------------------------
(* The index a peek returns names the key that opened the packet.          *)
Keys == {Ratchets[i] : i \in DOMAIN Ratchets}
HintOpens(h) == /\ h.packet \in Packets /\ h.at \in Seq(Keys)
                /\ h.which \in 0 .. Len(h.at)
                /\ KeyAt(h.at, h.which) = h.packet.key
RingInv ==
  /\ TypeOK /\ ring \in Seq(Keys) /\ IsFiniteSet(peeked)
  /\ \A h \in peeked : HintOpens(h)

(* The ring opens a packet exactly if it or the base key is the packet's,  *)
(* and then the index names it.                                            *)
LEMMA OpeningNamesKey ==
  ASSUME NEW cipher, NEW K, NEW keys \in Seq(K)
  PROVE  /\ Opening(cipher, keys) # {} <=> cipher.key \in {Base} \cup {keys[i] : i \in DOMAIN keys}
         /\ \A which \in Opening(cipher, keys) :
              which \in 0 .. Len(keys) /\ KeyAt(keys, which) = cipher.key
<1> DEFINE n == Len(keys)
           tried == Append(keys, Base)
           hits == {i \in 1 .. n + 1 : tried[i] = cipher.key}
<1>1. /\ n \in Nat /\ DOMAIN keys = 1 .. n
      /\ tried[n + 1] = Base /\ \A i \in 1 .. n : tried[i] = keys[i]
  OBVIOUS
<1>2. Opening(cipher, keys) =
        IF hits = {} THEN {} ELSE {IF Min(hits) \in DOMAIN keys THEN Min(hits) ELSE BaseKey}
  BY DEF Opening
<1> HIDE DEF tried
<1>3. hits # {} <=> cipher.key \in {Base} \cup {keys[i] : i \in DOMAIN keys}
  <2>1. \A i \in 1 .. n + 1 : i = n + 1 \/ i \in 1 .. n
    BY <1>1
  <2>2. n + 1 \in 1 .. n + 1 /\ \A i \in 1 .. n : i \in 1 .. n + 1
    BY <1>1
  <2>3. hits # {} <=> \E i \in 1 .. n + 1 : tried[i] = cipher.key
    OBVIOUS
  <2> HIDE DEF hits
  <2>4. (\E i \in 1 .. n + 1 : tried[i] = cipher.key)
          <=> (Base = cipher.key \/ \E i \in 1 .. n : keys[i] = cipher.key)
    BY <1>1, <2>1, <2>2
  <2> QED BY <1>1, <2>3, <2>4
<1>4. ASSUME hits # {}
      PROVE  Min(hits) \in hits
  <2>1. \E x \in hits : \A y \in hits : x <= y
    <3>1. hits \subseteq Nat
      BY <1>1
    <3> HIDE DEF hits
    <3> QED BY <1>4, <3>1, Rec!LeastOf
  <2> HIDE DEF hits
  <2> QED BY <2>1 DEF Min
<1>5. ASSUME hits # {}
      PROVE  \A which \in Opening(cipher, keys) :
               which \in 0 .. n /\ KeyAt(keys, which) = cipher.key
  <2> DEFINE m == Min(hits)
  <2>1. m \in 1 .. n + 1 /\ tried[m] = cipher.key
    BY <1>4, <1>5
  <2> HIDE DEF m
  <2>2. CASE m \in DOMAIN keys
    <3>1. Opening(cipher, keys) = {m}
      BY <1>2, <1>5, <2>2 DEF m
    <3>2. m \in 0 .. n /\ m # BaseKey /\ KeyAt(keys, m) = cipher.key
      BY <1>1, <2>1, <2>2 DEF KeyAt, BaseKey
    <3> QED BY <3>1, <3>2
  <2>3. CASE m \notin DOMAIN keys
    <3>1. Opening(cipher, keys) = {BaseKey}
      BY <1>2, <1>5, <2>3 DEF m
    <3>2. m = n + 1
      BY <1>1, <2>1, <2>3
    <3>3. BaseKey \in 0 .. n /\ KeyAt(keys, BaseKey) = cipher.key
      BY <1>1, <2>1, <3>2 DEF KeyAt, BaseKey
    <3> QED BY <3>1, <3>3
  <2> QED BY <2>2, <2>3
<1> HIDE DEF hits
<1> QED BY <1>2, <1>3, <1>5

(* The source of a valid plaintext is the sender whose key validated it.   *)
LEMMA ValidNamesSender ==
  ASSUME NEW plain, NEW sender, Validate(plain, sender) = "ok"
  PROVE  View(plain).source = sender
<1>1. plain[1] = sender
  <2>1. CASE plain[3].form = "ok"
    BY <2>1 DEF Validate
  <2>2. CASE plain[3].form # "ok"
    BY <2>2 DEF Validate
  <2> QED BY <2>1, <2>2
<1> QED BY <1>1 DEF View

(* A peek that succeeds hands out a hint that opens its packet.            *)
LEMMA PeekOpens ==
  ASSUME RingInv, NEW p \in Packets, NEW room \in BOOLEAN, Peek(p, room)
  PROVE  RingInv'
<1> DEFINE call == PeekSource(p, ring, scratch, room)
           hint == [packet |-> p, source |-> call.source, which |-> call.which, at |-> ring]
<1>1. /\ peeked' = IF call.error # "ok" THEN peeked ELSE peeked \cup {hint}
      /\ Cardinality(peeked) < MaxPeeked /\ last' = NoParse /\ UNCHANGED <<used, ring>>
  BY DEF Peek
<1>2. ASSUME call.error = "ok"
      PROVE  HintOpens(hint)
  <2>1. Opening(p, ring) # {} /\ call.which = CHOOSE i \in Opening(p, ring) : TRUE
    BY <1>2 DEF PeekSource
  <2>2. call.which \in Opening(p, ring)
    BY <2>1
  <2>3. call.which \in 0 .. Len(ring) /\ KeyAt(ring, call.which) = p.key
    BY <2>2, OpeningNamesKey DEF RingInv
  <2>4. hint.packet = p /\ hint.at = ring /\ hint.which = call.which
    OBVIOUS
  <2> HIDE DEF hint, call
  <2> QED BY <2>3, <2>4 DEF HintOpens, RingInv
<1> HIDE DEF hint, call
<1>3. \A h \in peeked' : HintOpens(h)
  BY <1>1, <1>2 DEF RingInv
<1>4. IsFiniteSet(peeked') /\ Cardinality(peeked') <= MaxPeeked
  <2>1. Cardinality(peeked) \in Nat /\ IsFiniteSet(peeked)
    BY FS_CardinalityType DEF RingInv
  <2>2. /\ IsFiniteSet(peeked \cup {hint})
        /\ Cardinality(peeked \cup {hint}) \in {Cardinality(peeked), Cardinality(peeked) + 1}
    BY <2>1, FS_AddElement
  <2> QED BY <1>1, <2>1, <2>2
<1>5. TypeOK'
  BY <1>1, <1>3, <1>4 DEF RingInv, TypeOK, HintOpens, NoParse
<1> QED BY <1>1, <1>3, <1>4, <1>5 DEF RingInv, HintOpens

(* A parse removes at most a hint, and shows at most its sender's message. *)
LEMMA ParseKeepsRing ==
  ASSUME RingInv, UNCHANGED <<used, ring>>,
         peeked' = peeked \/ \E h \in peeked : peeked' = peeked \ {h},
         \A v \in last'.views : v.source \in Identities
  PROVE  RingInv'
<1>1. IsFiniteSet(peeked) /\ Cardinality(peeked) \in Nat /\ Cardinality(peeked) <= MaxPeeked
  BY FS_CardinalityType DEF RingInv, TypeOK
<1>2. IsFiniteSet(peeked') /\ Cardinality(peeked') <= MaxPeeked /\ peeked' \subseteq peeked
  <2>1. CASE peeked' = peeked
    BY <1>1, <2>1
  <2>2. ASSUME NEW h \in peeked, peeked' = peeked \ {h}
        PROVE  IsFiniteSet(peeked') /\ Cardinality(peeked') <= MaxPeeked
    <3>1. IsFiniteSet(peeked \ {h}) /\ Cardinality(peeked \ {h}) = Cardinality(peeked) - 1
      BY <1>1, FS_RemoveElement
    <3> QED BY <1>1, <2>2, <3>1
  <2> QED BY <2>1, <2>2
<1> QED BY <1>2 DEF RingInv, TypeOK, HintOpens

(* The ring gains the next ratchet or loses its oldest.                    *)
LEMMA RingTurns ==
  ASSUME RingInv, Rotate \/ Expire
  PROVE  RingInv'
<1>1. /\ used \in Nat /\ ring \in Seq(Keys) /\ Len(ring) \in Nat /\ Len(ring) <= used
      /\ Ratchets \in Seq(Keys) /\ Len(Ratchets) \in Nat /\ used <= Len(Ratchets)
  BY DEF RingInv, TypeOK, Keys
<1>2. /\ ring' \in Seq(Keys) /\ used' \in 0 .. Len(Ratchets) /\ Len(ring') <= used'
  <2>1. CASE Rotate
    <3>1. Ratchets[used + 1] \in Keys /\ <<Ratchets[used + 1]>> \in Seq(Keys)
      BY <1>1, <2>1 DEF Rotate
    <3> DEFINE new == <<Ratchets[used + 1]>>
    <3>2. new \in Seq(Keys) /\ Len(new) = 1 /\ ring' = new \o ring /\ used' = used + 1
          /\ used < Len(Ratchets)
      BY <2>1, <3>1 DEF Rotate
    <3> HIDE DEF new
    <3>3. ring' \in Seq(Keys) /\ Len(ring') = Len(new) + Len(ring)
      BY <1>1, <3>2, ConcatProperties
    <3> QED BY <1>1, <3>2, <3>3
  <2>2. CASE Expire
    <3>1. /\ Len(ring) > 0 /\ Len(ring) - 1 \in 0 .. Len(ring)
          /\ ring' = SubSeq(ring, 1, Len(ring) - 1) /\ used' = used
      BY <1>1, <2>2 DEF Expire
    <3>2. ring' \in Seq(Keys) /\ Len(ring') = Len(ring) - 1
      <4>1. \A i \in 1 .. Len(ring) - 1 : ring[i] \in Keys
        BY <1>1
      <4>2. 1 \in Int /\ Len(ring) - 1 \in Int /\ (Len(ring) - 1) - 1 + 1 = Len(ring) - 1
        BY <1>1
      <4>3. /\ SubSeq(ring, 1, Len(ring) - 1) \in Seq(Keys)
            /\ Len(SubSeq(ring, 1, Len(ring) - 1))
                 = IF 1 <= Len(ring) - 1 THEN Len(ring) - 1 - 1 + 1 ELSE 0
        BY <4>1, <4>2, SubSeqProperties
      <4> QED BY <3>1, <4>2, <4>3
    <3> QED BY <1>1, <3>1, <3>2
  <2> QED BY <2>1, <2>2
<1>3. UNCHANGED peeked /\ last' = NoParse
  BY DEF Rotate, Expire
<1> QED BY <1>2, <1>3 DEF RingInv, TypeOK, NoParse, HintOpens

(* Every step keeps the invariant.                                         *)
LEMMA RingStep ==
  ASSUME RingInv, [Next]_vars
  PROVE  RingInv'
<1>1. ASSUME NEW p \in Packets, NEW room \in BOOLEAN, Peek(p, room)
      PROVE  RingInv'
  BY <1>1, PeekOpens
<1>2. CASE Rotate \/ Expire
  BY <1>2, RingTurns
<1>3. ASSUME NEW h \in peeked, NEW sender \in Identities, NEW room \in BOOLEAN,
             ParseHinted(h, sender, room)
      PROVE  RingInv'
  <2> DEFINE answer == ParseHint(h.packet, ring, h.which, sender, room)
  <2>1. /\ last'.views = Views(h.packet.plain, answer) /\ peeked' = peeked \ {h}
        /\ UNCHANGED <<used, ring>>
    BY <1>3 DEF ParseHinted, Parsed
  <2>2. answer = "ok" => Validate(h.packet.plain, sender) = "ok"
    BY DEF ParseHint
  <2> HIDE DEF answer
  <2>3. \A v \in last'.views : v.source \in Identities
    BY <2>1, <2>2, ValidNamesSender DEF Views
  <2> QED BY <2>1, <2>3, ParseKeepsRing
<1>4. ASSUME NEW p \in Packets, NEW sender \in Identities, NEW room \in BOOLEAN,
             ParseScanned(p, sender, room)
      PROVE  RingInv'
  <2> DEFINE answer == ParseRatchet(p, ring, sender, room)
  <2>1. /\ last'.views = Views(p.plain, answer) /\ UNCHANGED <<used, ring, peeked>>
    BY <1>4 DEF ParseScanned, Parsed
  <2>2. answer = "ok" => Validate(p.plain, sender) = "ok"
    BY DEF ParseRatchet
  <2> HIDE DEF answer
  <2>3. \A v \in last'.views : v.source \in Identities
    BY <2>1, <2>2, ValidNamesSender DEF Views
  <2> QED BY <2>1, <2>3, ParseKeepsRing
<1>5. CASE UNCHANGED vars
  BY <1>5, ParseKeepsRing DEF vars, RingInv, TypeOK
<1> QED BY <1>1, <1>2, <1>3, <1>4, <1>5 DEF Next

(* The ring starts empty.                                                  *)
LEMMA RingInvariant == Spec => []RingInv
<1>1. Init => RingInv
  <2> SUFFICES ASSUME Init PROVE RingInv
    OBVIOUS
  <2>1. IsFiniteSet({}) /\ Cardinality({}) = 0
    BY FS_EmptySet
  <2>2. Len(Ratchets) \in Nat /\ MaxPeeked \in Nat
    OBVIOUS
  <2> QED BY <2>1, <2>2 DEF Init, RingInv, TypeOK, NoParse
<1> QED BY <1>1, RingStep, PTL DEF Spec

(* The ring never holds more keys than have come into use, an index from a *)
(* peek lies in the ring it was made with, and only identities the host    *)
(* recalled have their messages accepted.                                  *)
THEOREM InboxTypes == Spec => []TypeOK
<1>1. RingInv => TypeOK
  BY DEF RingInv
<1> QED BY <1>1, RingInvariant, PTL

(* A hint that has not moved names the packet's key in the ring of today,  *)
(* so both ways to parse it come to the same check; one that has moved     *)
(* names another key or none.                                              *)
LEMMA HintVerdict ==
  ASSUME RingInv, NEW h \in peeked, NEW sender
  PROVE  ParseHint(h.packet, ring, h.which, sender, TRUE)
           = IF Moved(h) THEN "Crypto" ELSE ParseRatchet(h.packet, ring, sender, TRUE)
<1>1. /\ HintOpens(h) /\ h.packet.key # "none" /\ ring \in Seq(Keys)
  BY DEF RingInv, HintOpens
<1>2. KeyAt(ring, h.which) = h.packet.key <=> ~Moved(h)
  <2>1. h.which # BaseKey => h.which \in DOMAIN h.at /\ h.at[h.which] = h.packet.key
    BY <1>1 DEF HintOpens, KeyAt, BaseKey
  <2>2. h.which = BaseKey => h.packet.key = Base
    BY <1>1 DEF HintOpens, KeyAt
  <2> QED BY <1>1, <2>1, <2>2 DEF KeyAt, Moved
<1>3. ASSUME ~Moved(h)
      PROVE  Opening(h.packet, ring) # {}
  <2>1. h.packet.key \in {Base} \cup {ring[i] : i \in DOMAIN ring}
    BY <1>1, <1>2, <1>3 DEF KeyAt
  <2> QED BY <1>1, <2>1, OpeningNamesKey
<1> QED BY <1>2, <1>3 DEF ParseHint, ParseRatchet

(* Only a hinted parse answers for a hint, and at once.                    *)
LEMMA VerdictStep ==
  ASSUME RingInv, HintedVerdict, [Next]_vars
  PROVE  HintedVerdict'
<1>1. ASSUME NEW h \in peeked, NEW sender \in Identities, NEW room \in BOOLEAN,
             ParseHinted(h, sender, room)
      PROVE  HintedVerdict'
  <2>1. /\ last'.hint = h /\ last'.sender = sender /\ last'.room = room
        /\ last'.answer = ParseHint(h.packet, ring, h.which, sender, room)
        /\ ring' = ring
    BY <1>1 DEF ParseHinted, Parsed
  <2>2. Moved(h)' = Moved(h)
    BY <2>1 DEF Moved
  <2> QED BY <2>1, <2>2, HintVerdict DEF HintedVerdict, Moved
<1>2. ASSUME last'.call # "hinted"
      PROVE  HintedVerdict'
  BY <1>2 DEF HintedVerdict
<1>3. CASE UNCHANGED vars
  BY <1>3 DEF vars, HintedVerdict, Moved
<1>4. NoParse.call = "none"
  BY DEF NoParse
<1>5. ASSUME NEW p \in Packets, NEW sender \in Identities, NEW room \in BOOLEAN,
             ParseScanned(p, sender, room)
      PROVE  last'.call = "scanned"
  BY <1>5 DEF ParseScanned
<1> QED BY <1>1, <1>2, <1>3, <1>4, <1>5 DEF Next, Rotate, Expire, Peek

(* parse_opportunistic_ratchet_hint never accepts by another key than the  *)
(* hint names, and answers as the ring scan does as long as that is the    *)
(* key the peek found.                                                     *)
THEOREM HintsFailClosed == Spec => []HintedVerdict
<1>1. Init => HintedVerdict
  BY DEF Init, HintedVerdict, NoParse
<1> QED BY <1>1, RingInvariant, VerdictStep, PTL DEF Spec

(* A genuine plaintext passes every check with its own source's key.       *)
LEMMA GenuineIsValid ==
  ASSUME NEW p, Genuine(p)
  PROVE  Validate(p.plain, p.plain[1]) = "ok"
  BY DEF Genuine, Validate, Whole

(* Either parse accepts it if the key is at hand.                          *)
LEMMA GenuineStep ==
  ASSUME RingInv, HintInv, GenuineAccepted, [Next]_vars
  PROVE  GenuineAccepted'
<1>1. ASSUME NEW h \in peeked, NEW sender \in Identities, NEW room \in BOOLEAN,
             ParseHinted(h, sender, room)
      PROVE  GenuineAccepted'
  <2>1. /\ last'.hint = h /\ last'.sender = sender /\ last'.room = room
        /\ last'.answer = ParseHint(h.packet, ring, h.which, sender, room)
        /\ ring' = ring /\ last'.call = "hinted"
    BY <1>1 DEF ParseHinted, Parsed
  <2>2. ASSUME room, Genuine(h.packet), sender = h.source, ~Moved(h)
        PROVE  last'.answer = "ok"
    <3>1. Validate(h.packet.plain, sender) = "ok"
      BY <2>2, GenuineIsValid DEF HintInv, PeekedSourceIsOwn
    <3>2. last'.answer = ParseRatchet(h.packet, ring, sender, TRUE) /\ last'.answer # "Crypto"
      <4>1. KeyAt(ring, h.which) = h.packet.key
        <5>1. h.which # BaseKey => h.which \in DOMAIN h.at /\ h.at[h.which] = h.packet.key
          BY DEF RingInv, HintOpens, KeyAt, BaseKey
        <5>2. h.which = BaseKey => h.packet.key = Base
          BY DEF RingInv, HintOpens, KeyAt
        <5> QED BY <2>2, <5>1, <5>2 DEF KeyAt, Moved
      <4> QED BY <2>1, <2>2, <3>1, <4>1, HintVerdict DEF ParseHint
    <3> QED BY <3>1, <3>2 DEF ParseRatchet
  <2>3. Moved(h)' = Moved(h)
    BY <2>1 DEF Moved
  <2> QED BY <2>1, <2>2, <2>3 DEF GenuineAccepted, Moved, Genuine
<1>2. ASSUME NEW p \in Packets, NEW sender \in Identities, NEW room \in BOOLEAN,
             ParseScanned(p, sender, room)
      PROVE  GenuineAccepted'
  <2>1. /\ last'.packet = p /\ last'.sender = sender /\ last'.room = room
        /\ last'.answer = ParseRatchet(p, ring, sender, room)
        /\ ring' = ring /\ last'.call = "scanned"
    BY <1>2 DEF ParseScanned, Parsed
  <2>2. ASSUME room, Genuine(p), sender = p.plain[1],
               p.key \in {Base} \cup {ring[i] : i \in DOMAIN ring}
        PROVE  last'.answer = "ok"
    <3>1. Opening(p, ring) # {}
      BY <2>2, OpeningNamesKey DEF RingInv
    <3> QED BY <2>1, <2>2, <3>1, GenuineIsValid DEF ParseRatchet
  <2> QED BY <2>1, <2>2 DEF GenuineAccepted, Genuine
<1>3. ASSUME last' = NoParse
      PROVE  GenuineAccepted'
  BY <1>3 DEF GenuineAccepted, NoParse
<1>4. CASE UNCHANGED vars
  BY <1>4 DEF vars, GenuineAccepted, Moved, Genuine
<1> QED BY <1>1, <1>2, <1>3, <1>4 DEF Next, Rotate, Expire, Peek

(* Nothing genuine is refused while its key is retained, whatever the ring *)
(* and the scratch have been through.                                      *)
THEOREM GenuineIsAccepted == Spec => []GenuineAccepted
<1>1. Init => GenuineAccepted /\ HintInv
  BY DEF Init, GenuineAccepted, NoParse, HintInv, PeekedSourceIsOwn
<1> QED BY <1>1, RingInvariant, HintStep, GenuineStep, PTL DEF Spec
=============================================================================

------------------------------- MODULE Inbox --------------------------------
(***************************************************************************)
(* Opportunistic packets on their way into the host: it peeks at a packet's*)
(* source, recalls that source's public key, which may take a while, and   *)
(* then parses the packet with the key index the peek returned.  Meanwhile *)
(* it handles other packets with the same scratch, and its ratchet ring may*)
(* rotate, although the code asks for the ring to stay as it was.          *)
(***************************************************************************)
EXTENDS Opening

CONSTANTS
  Packets,     \* what arrives: [key, plain]
  Identities,  \* the senders whose public keys the host can recall
  Ratchets,    \* ratchet keys in the order they come into use
  MaxPeeked    \* bound on packets that wait for their sender's key

(* Each packet is encrypted under some key; "none" stands for no key.      *)
ASSUME InboxAssumption ==
  /\ \A p \in Packets :
       /\ DOMAIN p.plain = 1 .. Len(p.plain) /\ Len(p.plain) \in 0 .. Whole
       /\ p.key # "none"
  /\ Ratchets \in Seq({Ratchets[i] : i \in DOMAIN Ratchets})
  /\ MaxPeeked \in Nat

VARIABLES
  used,     \* how many of Ratchets have come into use
  ring,     \* the retained ones, newest first
  scratch,  \* the decryption scratch, by parts
  peeked,   \* hints that wait for their sender's key: [packet, source, which, at]
  last      \* the last parse: its inputs, its answer and the view it gave, if any

vars == <<used, ring, scratch, peeked, last>>

NoParse == [call |-> "none", views |-> {}]
Views(plain, answer) == IF answer = "ok" THEN {View(plain)} ELSE {}

Init ==
  /\ used = 0 /\ ring = <<>>
  /\ scratch = [i \in 1 .. Whole |-> "unused"]
  /\ peeked = {} /\ last = NoParse

Peek(p, room) ==
  LET call == PeekSource(p, ring, scratch, room)
  IN  /\ Cardinality(peeked) < MaxPeeked
      /\ scratch' = call.scratch
      /\ peeked' = IF call.error # "ok" THEN peeked
                   ELSE peeked \cup {[packet |-> p, source |-> call.source,
                                      which |-> call.which, at |-> ring]}
      /\ last' = NoParse
      /\ UNCHANGED <<used, ring>>

(* What a parse leaves in the scratch, whether key opens the packet or not.*)
Parsed(p, key, answer) ==
  /\ scratch' = IF key # p.key \/ answer = "OutputTooSmall" THEN scratch
                ELSE Decrypted(scratch, p.plain)
  /\ UNCHANGED <<used, ring>>

(* parse_opportunistic_ratchet_hint, with the hint of a peek that may be   *)
(* rotations old, and the key of any identity the host recalled.           *)
ParseHinted(h, sender, room) ==
  LET answer == ParseHint(h.packet, ring, h.which, sender, room)
  IN  /\ Parsed(h.packet, KeyAt(ring, h.which), answer)
      /\ peeked' = peeked \ {h}
      /\ last' = [call |-> "hinted", hint |-> h, sender |-> sender, room |-> room,
                  answer |-> answer, views |-> Views(h.packet.plain, answer)]

(* parse_opportunistic_ratchet, when the sender is known already.          *)
ParseScanned(p, sender, room) ==
  LET answer == ParseRatchet(p, ring, sender, room)
  IN  /\ Parsed(p, IF Opening(p, ring) = {} THEN "none" ELSE p.key, answer)
      /\ last' = [call |-> "scanned", packet |-> p, sender |-> sender, room |-> room,
                  answer |-> answer, views |-> Views(p.plain, answer)]
      /\ UNCHANGED peeked

(* External: a new ratchet comes into use, and the oldest is dropped.      *)
Rotate ==
  /\ used < Len(Ratchets) /\ used' = used + 1
  /\ ring' = <<Ratchets[used + 1]>> \o ring
  /\ last' = NoParse
  /\ UNCHANGED <<scratch, peeked>>
Expire ==
  /\ ring # <<>> /\ ring' = SubSeq(ring, 1, Len(ring) - 1)
  /\ last' = NoParse
  /\ UNCHANGED <<used, scratch, peeked>>

Next ==
  \/ Rotate \/ Expire
  \/ \E p \in Packets, room \in BOOLEAN : Peek(p, room)
  \/ \E h \in peeked, sender \in Identities, room \in BOOLEAN : ParseHinted(h, sender, room)
  \/ \E p \in Packets, sender \in Identities, room \in BOOLEAN : ParseScanned(p, sender, room)

Spec == Init /\ [][Next]_vars

-----------------------------------------------------------------------------
(* The types; an index from a peek may by now lie past the ring.           *)
TypeOK ==
  /\ used \in 0 .. Len(Ratchets) /\ Len(ring) <= used
  /\ Cardinality(peeked) <= MaxPeeked
  /\ \A h \in peeked :
       /\ h.packet \in Packets
       /\ h.which \in 0 .. Len(h.at)
  /\ \A v \in last.views : v.source \in Identities

(* Signatures anyone ever made, as far as packets carry them.              *)
Signatures == {p.plain[2] : p \in {q \in Packets : Len(q.plain) >= 2}}

(* Whatever is accepted was signed for me by the identity it names as its  *)
(* source: parts of several messages never combine into one, and no other  *)
(* identity's key passes for the source's (parse_decrypted binds the source*)
(* hash to the key before it verifies).                                    *)
AcceptedAsSigned ==
  \A v \in last.views : SignatureOf(v.source, Me, v.source, v.body) \in Signatures

(* The source a peek reports is the packet's own: a plaintext too short to *)
(* have one never shows what an earlier packet left in the scratch.        *)
PeekedSourceIsOwn ==
  \A h \in peeked : Len(h.packet.plain) = Whole /\ h.source = h.packet.plain[1]

(* A hinted parse answers as a scan of the ring does, unless the ring has  *)
(* rotated so that the index names another key than it did for the peek:   *)
(* then it fails closed, whatever the other keys would open ("an           *)
(* out-of-range or incorrect hint fails closed and never falls back to a   *)
(* ring scan").                                                            *)
Moved(h) ==
  /\ h.which # BaseKey
  /\ h.which \in DOMAIN ring => ring[h.which] # h.at[h.which]
HintedVerdict ==
  (last.call = "hinted" /\ last.room) =>
    last.answer = IF Moved(last.hint) THEN "Crypto"
                  ELSE ParseRatchet(last.hint.packet, ring, last.sender, TRUE)

(* A message its source signed for me is accepted by the source's key, with*)
(* or without a stamp, while its key is retained; a hint loses it only     *)
(* to a rotation.                                                          *)
Genuine(p) ==
  /\ Len(p.plain) = Whole /\ p.plain[3].form = "ok"
  /\ p.plain[2] = SignatureOf(p.plain[1], Me, p.plain[1], p.plain[3].body)
GenuineAccepted ==
  LET hinted == /\ last.call = "hinted" /\ last.room /\ Genuine(last.hint.packet)
                /\ last.sender = last.hint.source /\ ~Moved(last.hint)
      scanned == /\ last.call = "scanned" /\ last.room /\ Genuine(last.packet)
                 /\ last.sender = last.packet.plain[1]
                 /\ last.packet.key \in {Base} \cup {ring[i] : i \in DOMAIN ring}
  IN  hinted \/ scanned => last.answer = "ok"
=============================================================================

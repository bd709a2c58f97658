------------------------------ MODULE Opening -------------------------------
(***************************************************************************)
(* How src/lxmf.rs and src/propagation.rs open an encrypted message with a *)
(* ring of retained ratchet keys and the base key, and how parse_decrypted *)
(* and parse_link then authenticate it.                                    *)
(*                                                                         *)
(* A ciphertext is [key, plain]: the key that authenticates it and what it *)
(* holds.  A plaintext is <<source, signature, payload>>, or a prefix of   *)
(* that where it is too short.  A payload is [form, body, stamp], its form *)
(* "ok" or the error its framing or its fields map deserves.               *)
(***************************************************************************)
EXTENDS Integers, Sequences, FiniteSetsExt

CONSTANTS
  Me,    \* the delivery hash of the local identity
  Base   \* its base encryption key

BaseKey == 0   \* the key index None; Some(i) is i + 1

Whole == 3     \* the parts of a plaintext that is long enough

(* The key an index names; an index past the ring names none.              *)
KeyAt(ring, which) ==
  IF which = BaseKey THEN Base
  ELSE IF which \in DOMAIN ring THEN ring[which] ELSE "none"

(* Mutant: the base key is reported by its place behind the ring.          *)
OpeningPlace(cipher, ring) ==
  LET hits == {i \in 1 .. Len(ring) + 1 : Append(ring, Base)[i] = cipher.key}
  IN  IF hits = {} THEN {} ELSE {Min(hits)}

(* External: the keys in the given order, then the base key; the index of  *)
(* the first that authenticates, or nothing.                               *)
Opening(cipher, ring) ==
  LET hits == {i \in 1 .. Len(ring) + 1 : Append(ring, Base)[i] = cipher.key}
  IN  IF hits = {} THEN {} ELSE {IF Min(hits) \in DOMAIN ring THEN Min(hits) ELSE BaseKey}

(* Decryption overwrites the front of the scratch and leaves the rest.     *)
Decrypted(scratch, plain) ==
  [i \in 1 .. Whole |-> IF i \in DOMAIN plain THEN plain[i] ELSE scratch[i]]

(* What a sender signs: its message, without the stamp, for one recipient. *)
SignatureOf(who, dest, source, body) ==
  [by |-> who, dest |-> dest, source |-> source, body |-> body]

(* Mutant: the source hash is not compared with the sender's key.          *)
ValidateUnbound(plain, sender) ==
  IF Len(plain) < Whole THEN "MalformedPayload"
  ELSE IF plain[3].form # "ok" THEN plain[3].form
  ELSE IF plain[2] # SignatureOf(sender, Me, plain[1], plain[3].body)
  THEN "SignatureInvalid"
  ELSE "ok"

(* Mutant: the stamp is left in the signed region.                         *)
ValidateStamped(plain, sender) ==
  IF Len(plain) < Whole THEN "MalformedPayload"
  ELSE IF plain[1] # sender THEN "SourceHashMismatch"
  ELSE IF plain[3].form # "ok" THEN plain[3].form
  ELSE IF plain[3].stamp \/ plain[2] # SignatureOf(sender, Me, plain[1], plain[3].body)
  THEN "SignatureInvalid"
  ELSE "ok"

(* parse_decrypted, and parse_link behind its own destination check; sender*)
(* is the identity whose public key the host supplies.                     *)
Validate(plain, sender) ==
  IF Len(plain) < Whole THEN "MalformedPayload"
  ELSE IF plain[1] # sender THEN "SourceHashMismatch"
  ELSE IF plain[3].form # "ok" THEN plain[3].form
  ELSE IF plain[2] # SignatureOf(sender, Me, plain[1], plain[3].body)
  THEN "SignatureInvalid"
  ELSE "ok"
View(plain) == [source |-> plain[1], body |-> plain[3].body]

(* Mutant: a hint that does not open the packet falls back to the ring.    *)
ParseHintOrScan(cipher, ring, which, sender, room) ==
  IF ~room THEN "OutputTooSmall"
  ELSE IF Opening(cipher, ring) = {} THEN "Crypto"
  ELSE Validate(cipher.plain, sender)

(* parse_opportunistic_ratchet, and parse_opportunistic with no ring; room *)
(* says that the scratch holds a whole plaintext.                          *)
ParseRatchet(cipher, ring, sender, room) ==
  IF ~room THEN "OutputTooSmall"
  ELSE IF Opening(cipher, ring) = {} THEN "Crypto"
  ELSE Validate(cipher.plain, sender)

(* parse_opportunistic_ratchet_hint: one key, never the others.            *)
ParseHint(cipher, ring, which, sender, room) ==
  IF ~room THEN "OutputTooSmall"
  ELSE IF KeyAt(ring, which) # cipher.key THEN "Crypto"
  ELSE Validate(cipher.plain, sender)

(* Mutant: the length of the plaintext is not checked.                     *)
PeekAnyLength(cipher, ring, scratch, room) ==
  IF ~room THEN [error |-> "OutputTooSmall", scratch |-> scratch]
  ELSE IF Opening(cipher, ring) = {} THEN [error |-> "Crypto", scratch |-> scratch]
  ELSE LET held == Decrypted(scratch, cipher.plain)
       IN  [error |-> "ok", scratch |-> held, source |-> held[1],
            which |-> CHOOSE i \in Opening(cipher, ring) : TRUE]

(* peek_source_opportunistic_ratchet: the unverified source and the key.   *)
PeekSource(cipher, ring, scratch, room) ==
  IF ~room THEN [error |-> "OutputTooSmall", scratch |-> scratch]
  ELSE IF Opening(cipher, ring) = {} THEN [error |-> "Crypto", scratch |-> scratch]
  ELSE LET held == Decrypted(scratch, cipher.plain)
       IN  IF Len(cipher.plain) < Whole
           THEN [error |-> "MalformedPayload", scratch |-> held]
           ELSE [error |-> "ok", scratch |-> held, source |-> held[1],
                 which |-> CHOOSE i \in Opening(cipher, ring) : TRUE]
=============================================================================

---------------------------- MODULE PacketBuffer ----------------------------
(***************************************************************************)
(* The in-place moves that lxmf.rs and propagation.rs make in the caller's *)
(* buffer, on cells of any kind, and the lengths they work with.           *)
(***************************************************************************)
EXTENDS Integers, Sequences

CONSTANTS
  HashLength,       \* LXMF_DEST_LENGTH, 16 in the code
  SignatureLength,  \* LXMF_SIGNATURE_LENGTH, 64
  PlaintextOffset,  \* ECIES_PLAINTEXT_OFFSET, 48
  FixedOverhead,    \* ECIES_FIXED_OVERHEAD, 80
  Block,            \* cipher block, 16
  MaxPlaintext,     \* MAX_ECIES_PLAINTEXT, 383
  PnStampLength     \* propagation stamp, 32

ASSUME LengthAssumption ==
  /\ {HashLength, SignatureLength, Block} \subseteq Nat \ {0}
  /\ {PlaintextOffset, FixedOverhead, MaxPlaintext, PnStampLength} \subseteq Nat
  /\ HashLength <= PlaintextOffset /\ PlaintextOffset <= FixedOverhead

(* dest || source || signature, before the payload                         *)
PackedPrefix == 2 * HashLength + SignatureLength

(* ecies_ciphertext_len: whole blocks, always with padding.                *)
CiphertextLen(n) == FixedOverhead + Block * (n \div Block + 1)

(* slice::copy_within(first ..= last, at), an overlapping move.            *)
CopyWithin(buf, first, last, at) ==
  [i \in DOMAIN buf |->
     IF i \in at .. at + last - first THEN buf[i - at + first] ELSE buf[i]]

(* buf[at ..].copy_from_slice(cells)                                       *)
Put(buf, at, cells) ==
  [i \in DOMAIN buf |->
     IF i \in at .. at + Len(cells) - 1 THEN cells[i - at + 1] ELSE buf[i]]

-----------------------------------------------------------------------------
(* Mutant: the header is written before the entry has moved.               *)
WrappedTooSoon(buf, entryLen, header, stamp) ==
  LET headed == Put(buf, 1, header)
      moved  == CopyWithin(headed, 1, entryLen, Len(header) + 1)
  IN  Put(Put(moved, Len(header) + entryLen + 1, stamp), 1, header)

(* wrap_upload's moves: make room for a header of prefix cells, append the *)
(* stamp to the moved entry, and only then write the header.               *)
Wrapped(buf, entryLen, header, stamp) ==
  LET moved   == CopyWithin(buf, 1, entryLen, Len(header) + 1)
      stamped == Put(moved, Len(header) + entryLen + 1, stamp)
  IN  Put(stamped, 1, header)

(* append_recipient_stamp's moves: the new element after the message, then *)
(* the array marker that counts it.                                        *)
Appended(buf, n, element, marker) ==
  Put(Put(buf, n + 1, element), PackedPrefix + 1, <<marker>>)
=============================================================================

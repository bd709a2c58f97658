------------------------------ MODULE Envelope ------------------------------
(***************************************************************************)
(* One packed LXMF message in one buffer: how the Link builders and the    *)
(* opportunistic ones pack it, how append_recipient_stamp,                 *)
(* seal_opportunistic, encrypt_message, decrypt_message and wrap_upload    *)
(* rewrite the buffer in place, and how the parsers read it.               *)
(*                                                                         *)
(* A cell of the buffer is a MessagePack byte <<"byte", b>>, or the i-th   *)
(* byte of a hash, signature, stamp or ciphertext, <<kind, i, of>>.  A     *)
(* signature of the message under way verifies for the signed record it    *)
(* was made for; ciphertext number e stands for what sealed[e] records.    *)
(* An opaque byte is never taken for MessagePack framing.                  *)
(***************************************************************************)
EXTENDS FieldMap, PacketBuffer, SequencesExt

AudioId == 7  \* FIELD_AUDIO

Bytes(cells) ==
  [i \in DOMAIN cells |-> IF cells[i][1] = "byte" THEN cells[i][2] ELSE 193]
Cells(bytes) == [i \in DOMAIN bytes |-> <<"byte", bytes[i]>>]
Opaque(kind, n, of) == [i \in 1 .. n |-> <<kind, i, of>>]

DestHash(who) == Opaque("hash", HashLength, who)

(* Every call leaves a buffer, a length and an error or "ok".              *)
Ok(buf, n)      == [error |-> "ok", buffer |-> buf, len |-> n]
Failed(e, buf, n) == [error |-> e, buffer |-> buf, len |-> n]

-----------------------------------------------------------------------------
(* encoded_field_set: the first offence, in the order of the entries.      *)
FieldSetError(fields) ==
  LET repeated == {i \in DOMAIN fields : \E j \in 1 .. i - 1 : fields[j][1] = fields[i][1]}
      broken   == {i \in DOMAIN fields :
                     SkipValueAt(fields[i][2], 1, 1) # Len(fields[i][2]) + 1}
  IN  IF Len(fields) > MaxFields THEN "TooManyFields"
      ELSE IF repeated \cup broken = {} THEN "ok"
      ELSE IF Min(repeated \cup broken) \in repeated THEN "DuplicateField"
      ELSE "MalformedPayload"

BinHeader(n) ==
  IF n <= 255 THEN <<196, n>>
  ELSE IF n <= 65535 THEN <<197, n \div 256, n % 256>>
  ELSE <<198, n \div 16777216, n \div 65536 % 256, n \div 256 % 256, n % 256>>
Bin(bytes) == BinHeader(Len(bytes)) \o bytes

(* write_payload for caller-encoded entries: ids ascending, minimal uints. *)
FieldId8(id)  == IF id <= 127 THEN <<id>> ELSE <<204, id>>
Ascending(fields) ==
  LET order == CHOOSE p \in [DOMAIN fields -> DOMAIN fields] :
                 \A i, j \in DOMAIN fields : i < j => fields[p[i]][1] < fields[p[j]][1]
  IN  [i \in DOMAIN fields |-> fields[order[i]]]
FieldsElement(fields) ==
  LET sorted == Ascending(fields)
      header == IF Len(fields) < 16 THEN <<128 + Len(fields)>> ELSE <<222, 0, Len(fields)>>
  IN  header \o FlattenSeq([i \in DOMAIN sorted |-> FieldId8(sorted[i][1]) \o sorted[i][2]])

(* write_payload for one native audio field, [mode, bin].                  *)
AudioElement(audio) == <<129, AudioId, 146>> \o FieldId8(audio.mode) \o Bin(audio.bytes)

(* The fields element of a message: a text one has no fields and no audio. *)
OuterFields(message) ==
  IF message.audio # <<>> THEN AudioElement(message.audio[1]) ELSE FieldsElement(message.fields)

Timestamp == <<65, 218, 19, 64, 120, 0, 0, 0>>
PackPayload(message) ==
  <<148, 203>> \o Timestamp \o Bin(message.title) \o Bin(message.content)
    \o OuterFields(message)

(* Mutant: a long content is counted with a bin8 header.                   *)
BinLenShort(n) == 2 + n

(* packed_len and its variants: the same writer counts, and sees nothing   *)
(* of title, content and audio but their lengths.                          *)
BinLen(n) == Len(BinHeader(n)) + n
FieldsLen(fields) ==
  LET sorted == Ascending(fields)
      upTo[i \in 0 .. Len(fields)] ==
        IF i = 0 THEN (IF Len(fields) < 16 THEN 1 ELSE 3)
        ELSE upTo[i - 1] + Len(FieldId8(sorted[i][1])) + Len(sorted[i][2])
  IN  upTo[Len(fields)]
PackedLen(message) ==
  PackedPrefix + 10 + BinLen(Len(message.title)) + BinLen(Len(message.content))
    + (IF message.audio # <<>>
       THEN 3 + Len(FieldId8(message.audio[1].mode)) + BinLen(Len(message.audio[1].bytes))
       ELSE FieldsLen(message.fields))

(* What the sender signs: the payload as four elements, bound to both ends.*)
Signed(to, payload) == [dest |-> to, source |-> "sender", payload |-> payload]

(* build_link and its variants, with a scratch as large as the buffer.     *)
BuildLink(buf, message, to) ==
  LET payload == PackPayload(message)
      room    == Len(buf) - 2 * HashLength - 32
  IN  IF FieldSetError(message.fields) # "ok"
      THEN Failed(FieldSetError(message.fields), buf, 0)
      ELSE IF Len(buf) < PackedPrefix + 11 THEN Failed("OutputTooSmall", buf, 0)
      ELSE IF Len(payload) > room \/ Len(buf) < PackedPrefix + Len(payload)
      THEN Failed("TooLong", buf, 0)
      ELSE Ok(Put(buf, 1, DestHash(to) \o DestHash("sender")
                            \o Opaque("sig", SignatureLength, "sender") \o Cells(payload)),
              PackedPrefix + Len(payload))

(* build_plaintext: what a packet carries, all but the destination.        *)
DirectPlain(message) ==
  DestHash("sender") \o Opaque("sig", SignatureLength, "sender") \o Cells(PackPayload(message))

(* Mutant: the packet's bound is taken for the payload's.                  *)
MaxPayloadWhole == MaxPlaintext

(* MAX_LXMF_PAYLOAD                                                        *)
MaxPayload == MaxPlaintext - HashLength - SignatureLength

(* build_opportunistic*: a payload that does not fit its stack buffer is   *)
(* TooLong; named tells whether the destination hash and the message ID    *)
(* were handed out, which happens before the encryption may fail.          *)
BuildOpportunistic(buf, message, e) ==
  LET total == CiphertextLen(Len(DirectPlain(message)))
      long  == Len(PackPayload(message)) > MaxPayload
      call  == IF FieldSetError(message.fields) # "ok"
               THEN Failed(FieldSetError(message.fields), buf, 0)
               ELSE IF long THEN Failed("TooLong", buf, 0)
               ELSE IF total > Len(buf) THEN Failed("OutputTooSmall", buf, 0)
               ELSE Ok(Put(buf, 1, Opaque("cipher", total, e)), total)
  IN  [call |-> call, named |-> call.error \in {"ok", "OutputTooSmall"}]

(* Mutant: no walk of the message to see that it ends at n.                *)
FramedByMarker(buf, n, markers) ==
  /\ n > PackedPrefix /\ n <= Len(buf)
  /\ buf[PackedPrefix + 1] \in {<<"byte", m>> : m \in markers}

(* The framing that stamping and sealing check before they rewrite.        *)
Framed(buf, n, markers) ==
  /\ n > PackedPrefix /\ n <= Len(buf)
  /\ buf[PackedPrefix + 1] \in {<<"byte", m>> : m \in markers}
  /\ SkipValueAt(Bytes(SubSeq(buf, 1, n)), PackedPrefix + 1, 0) = n + 1

(* Mutant: room is not checked.                                            *)
AppendWithoutRoom(buf, n, stamp) ==
  IF Len(stamp) \notin {16, 32} \/ ~Framed(buf, n, {148})
  THEN Failed("MalformedPayload", buf, n)
  ELSE Ok(Appended(buf, n, Cells(<<196, Len(stamp)>>) \o stamp, <<"byte", 149>>),
          n + 2 + Len(stamp))

(* Mutant: the marker is counted up before room is checked.                *)
AppendMarksFirst(buf, n, stamp) ==
  LET marked == IF ~Framed(buf, n, {148}) THEN buf
                ELSE Put(buf, PackedPrefix + 1, <<<<"byte", 149>>>>)
  IN  IF marked = buf \/ Len(stamp) \notin {16, 32} THEN Failed("MalformedPayload", buf, n)
      ELSE IF n + 2 + Len(stamp) > Len(buf) THEN Failed("OutputTooSmall", marked, n)
      ELSE Ok(Put(marked, n + 1, Cells(<<196, Len(stamp)>>) \o stamp), n + 2 + Len(stamp))

(* append_recipient_stamp, for a ticket or a proof of work.                *)
AppendRecipientStamp(buf, n, stamp) ==
  LET end == n + 2 + Len(stamp)
  IN  IF Len(stamp) \notin {16, 32} \/ ~Framed(buf, n, {148})
      THEN Failed("MalformedPayload", buf, n)
      ELSE IF end > Len(buf) THEN Failed("OutputTooSmall", buf, n)
      ELSE Ok(Appended(buf, n, Cells(<<196, Len(stamp)>>) \o stamp, <<"byte", 149>>), end)

-----------------------------------------------------------------------------
(* External: ecies_encrypt_in_place on the region after base, for the next *)
(* entropy e.  What it encrypts is what lies at the plaintext offset.      *)
EncryptInPlace(buf, base, total, n, e) ==
  IF total < CiphertextLen(n) THEN Failed("OutputTooSmall", buf, n)
  ELSE Ok(Put(buf, base + 1, Opaque("cipher", CiphertextLen(n), e)), base + CiphertextLen(n))
PlaintextAt(buf, base, n) ==
  SubSeq(buf, base + PlaintextOffset + 1, base + PlaintextOffset + n)

(* seal_opportunistic; plain is what the ciphertext then stands for.       *)
SealOpportunistic(buf, n, to, e) ==
  LET m     == n - HashLength
      total == CiphertextLen(m)
      moved == CopyWithin(buf, HashLength + 1, n, PlaintextOffset + 1)
  IN  IF ~Framed(buf, n, {148, 149}) THEN Failed("MalformedPayload", buf, n)
      ELSE IF SubSeq(buf, 1, HashLength) # DestHash(to)
      THEN Failed("DestinationMismatch", buf, n)
      ELSE IF m > MaxPlaintext THEN Failed("TooLong", buf, n)
      ELSE IF total > Len(buf) THEN Failed("OutputTooSmall", buf, n)
      ELSE EncryptInPlace(moved, 0, total, m, e)
SealedPlain(buf, n) ==
  PlaintextAt(CopyWithin(buf, HashLength + 1, n, PlaintextOffset + 1), 0, n - HashLength)

(* encrypt_message: the destination prefix stays readable.                 *)
EncryptMessage(buf, n, to, e) ==
  LET m     == n - HashLength
      total == HashLength + CiphertextLen(m)
      moved == CopyWithin(buf, HashLength + 1, n, HashLength + PlaintextOffset + 1)
  IN  IF n <= PackedPrefix \/ n > Len(buf) THEN Failed("MalformedPayload", buf, n)
      ELSE IF SubSeq(buf, 1, HashLength) # DestHash(to)
      THEN Failed("DestinationMismatch", buf, n)
      ELSE IF total > Len(buf) THEN Failed("OutputTooSmall", buf, n)
      ELSE EncryptInPlace(moved, HashLength, total - HashLength, m, e)
EncryptedPlain(buf, n) ==
  PlaintextAt(CopyWithin(buf, HashLength + 1, n, HashLength + PlaintextOffset + 1),
              HashLength, n - HashLength)

(* Mutant: the bin8 length is chosen by the entry without its stamp.       *)
UploadHeaderShort(entryLen) ==
  <<146, 203>> \o Timestamp \o <<145>> \o
    (IF entryLen - PnStampLength <= 255 THEN <<196, entryLen % 256>> ELSE BinHeader(entryLen))

(* wrap_upload: the entry and its propagation stamp as one bin in an array.*)
UploadHeader(entryLen) == <<146, 203>> \o Timestamp \o <<145>> \o BinHeader(entryLen)
WrapUpload(buf, n, pnStamp) ==
  LET entryLen == n + PnStampLength
      header   == UploadHeader(entryLen)
  IN  IF n < HashLength + FixedOverhead + Block \/ n > Len(buf)
      THEN Failed("MalformedPayload", buf, n)
      ELSE IF entryLen > 65535 THEN Failed("TooLong", buf, n)
      ELSE IF entryLen + Len(header) > Len(buf) THEN Failed("OutputTooSmall", buf, n)
      ELSE Ok(Wrapped(buf, n, Cells(header), pnStamp), entryLen + Len(header))

-----------------------------------------------------------------------------
(* External: what keys of the ring, then the base key, authenticate.       *)
Opens(cells, sealed, keys) ==
  {e \in DOMAIN sealed :
     /\ sealed[e].key \in keys
     /\ cells = Opaque("cipher", CiphertextLen(Len(sealed[e].plain)), e)}

(* decrypt_message on exactly the entry: plaintext back behind the prefix. *)
DecryptMessage(buf, me, keys, sealed) ==
  LET body == SubSeq(buf, HashLength + 1, Len(buf))
  IN  IF Len(buf) < HashLength + FixedOverhead + Block
      THEN Failed("MalformedPayload", buf, Len(buf))
      ELSE IF SubSeq(buf, 1, HashLength) # DestHash(me)
      THEN Failed("DestinationMismatch", buf, Len(buf))
      ELSE IF Opens(body, sealed, keys) = {} THEN Failed("Crypto", buf, Len(buf))
      ELSE LET plain == sealed[CHOOSE e \in Opens(body, sealed, keys) : TRUE].plain
               start == HashLength + PlaintextOffset + 1
               inPlace == Put(buf, start, plain)
           IN  Ok(CopyWithin(inPlace, start, start + Len(plain) - 1, HashLength + 1),
                  HashLength + Len(plain))

(* parse_link on the whole message: its view, or Unreadable.               *)
Unreadable == [title |-> <<>>, content |-> <<>>, fields |-> <<>>, trailer |-> <<>>, ok |-> FALSE]
ParseLink(cells, me, signed) ==
  LET payload == SubSeq(cells, PackedPrefix + 1, Len(cells))
      b       == Bytes(payload)
      title   == ReadBin(b, 11)
      content == IF title = Malformed THEN Malformed ELSE ReadBin(b, title)
      fields  == IF content = Malformed THEN Malformed ELSE SkipValueAt(b, content, 0)
      element == SubSeq(b, content, fields - 1)
      blob(from, end) == SubSeq(b, from + 1 + LengthBytes(b[from]), end - 1)
  IN  IF /\ Len(cells) > PackedPrefix
         /\ SubSeq(cells, 1, HashLength) = DestHash(me)
         /\ SubSeq(cells, HashLength + 1, 2 * HashLength) = DestHash("sender")
         /\ b[1] \in 148 .. 159 /\ Len(b) >= 10 /\ b[2] = 203
         /\ fields # Malformed
         /\ HasMapHeader(element) => ValidWithoutScratch(element)
         /\ SubSeq(cells, 2 * HashLength + 1, PackedPrefix)
              = Opaque("sig", SignatureLength, "sender")
         /\ Signed(me, [SubSeq(b, 1, fields - 1) EXCEPT ![1] = 148]) = signed
      THEN [title |-> blob(11, title), content |-> blob(title, content), fields |-> element,
            trailer |-> SubSeq(payload, fields, Len(payload)), ok |-> TRUE]
      ELSE Unreadable

(* parse_decrypted: the same message without its leading destination, which*)
(* the packet header carries.                                              *)
ParseDecrypted(plain, me, signed) == ParseLink(DestHash(me) \o plain, me, signed)

(* parse_opportunistic: decrypt, then validate.                            *)
ParseOpportunistic(cells, me, keys, sealed, signed) ==
  LET opens == Opens(cells, sealed, keys)
  IN  IF opens = {} THEN Unreadable
      ELSE ParseDecrypted(sealed[CHOOSE e \in opens : TRUE].plain, me, signed)
=============================================================================

------------------------------- MODULE Outbox -------------------------------
(***************************************************************************)
(* One outgoing message in the host's one buffer, from a builder to the    *)
(* recipient.  The host builds a packet at once; or it builds the packed   *)
(* message, stamps it, and then either seals it into one packet, or        *)
(* encrypts it for a propagation node, keeps the entry, and wraps it for   *)
(* upload as often as an upload is lost.  The host follows the documented  *)
(* order, but it may pass a length it was given earlier, a wrong recipient *)
(* or stamp, or run out of buffer; every call may fail.                    *)
(***************************************************************************)
EXTENDS Envelope

CONSTANTS
  Messages,    \* what the host sends: [title, content, fields, audio]
  Capacities,  \* sizes of the host's buffer
  Stamps,      \* recipient stamps, of right and wrong lengths
  MaxSeals     \* bound on the encryptions one behaviour makes

ASSUME OutboxAssumption ==
  /\ Capacities \subseteq Nat \ {0} /\ MaxSeals \in Nat
  /\ Messages \subseteq [title : Seq(Byte), content : Seq(Byte), fields : Seq(Byte \X Seq(Byte)),
                         audio : Seq([mode : Byte, bytes : Seq(Byte)])]
  /\ \A s \in Stamps : Len(s) \in Nat /\ s = Opaque("stamp", Len(s), "pow")

(* What wraps an entry for upload, at most 14 bytes, is shorter than what  *)
(* precedes a payload, and the walk of it may go two levels deep.          *)
ASSUME UploadAssumption == PackedPrefix >= 14 /\ MaxDepth >= 2

(* There may be fields, as many as a map16 header that is written as 222,  *)
(* 0, n counts; Huge stands for lengths that no buffer has; and what is    *)
(* signed needs no more room for its message ID than the signature takes.  *)
ASSUME SizeAssumption ==
  /\ MaxFields >= 1 /\ MaxFields <= 255 /\ \A c \in Capacities : c < Huge
  /\ SignatureLength >= 32

VARIABLES
  message,  \* what is being sent, to "recipient"
  buffer,   \* the host's buffer; after upload, the recipient's
  len,      \* how much of it is in use
  earlier,  \* lengths earlier calls returned for this message
  phase,    \* what the host knows the buffer to hold
  stamp,    \* the recipient stamp appended, if any
  stored,   \* the encrypted entry kept for retries, if any
  sealed,   \* what each ciphertext stands for
  named,    \* whether the host was given the destination and message ID
  outcome   \* of the last call: "ok" or its error

vars == <<message, buffer, len, earlier, phase, stamp, stored, sealed, named, outcome>>

Blank(n)  == [i \in 1 .. n |-> <<"byte", 0>>]
InUse     == SubSeq(buffer, 1, len)
Lengths   == earlier \cup {len}
Ends      == {"recipient", "stranger"}
PnStamp   == Opaque("pn", PnStampLength, "stamp")
HostKeys  == {"base", "ratchet"}

Init ==
  /\ message \in Messages
  /\ buffer \in {Blank(n) : n \in Capacities}
  /\ len = 0 /\ earlier = {} /\ phase = "new"
  /\ stamp = <<>> /\ stored = <<>> /\ sealed = <<>>
  /\ named = FALSE /\ outcome = "ok"

(* Take over what a library call left, and where it leads when it is ok.   *)
Returns(call, next) ==
  /\ buffer' = call.buffer /\ outcome' = call.error
  /\ len' = call.len
  /\ IF call.error = "ok" THEN phase' = next /\ earlier' = Lengths
                          ELSE UNCHANGED <<phase, earlier>>

Build ==
  /\ phase = "new"
  /\ Returns(BuildLink(buffer, message, "recipient"), "packed")
  /\ named' = (named \/ outcome' = "ok")
  /\ UNCHANGED <<message, stamp, stored, sealed>>

(* build_opportunistic*, to the base key or to a ratchet; none has audio.  *)
BuildPacket(key) ==
  LET e     == Len(sealed) + 1
      built == BuildOpportunistic(buffer, message, e)
  IN  /\ phase = "new" /\ message.audio = <<>> /\ e <= MaxSeals
      /\ Returns(built.call, "packet")
      /\ named' = (named \/ built.named)
      /\ sealed' = IF outcome' = "ok"
                   THEN Append(sealed, [key |-> key, plain |-> DirectPlain(message)])
                   ELSE sealed
      /\ UNCHANGED <<message, stamp, stored>>

(* append_recipient_stamp, at any moment and with any length of the past.  *)
Stamp(n, s) ==
  LET call == AppendRecipientStamp(buffer, n, s)
  IN  /\ phase \in {"packed", "stamped", "packet", "entry", "upload"}
      /\ Returns([call EXCEPT !.len = IF call.error = "ok" THEN @ ELSE len], "stamped")
      /\ stamp' = IF call.error = "ok" THEN s ELSE stamp
      /\ UNCHANGED <<message, stored, sealed, named>>

(* seal_opportunistic, likewise.                                           *)
Seal(n, to, key) ==
  LET e    == Len(sealed) + 1
      call == SealOpportunistic(buffer, n, to, e)
  IN  /\ phase \in {"packed", "stamped", "packet", "entry", "upload"}
      /\ e <= MaxSeals
      /\ Returns([call EXCEPT !.len = IF call.error = "ok" THEN @ ELSE len], "packet")
      /\ sealed' = IF call.error = "ok"
                   THEN Append(sealed, [key |-> key, plain |-> SealedPlain(buffer, n)])
                   ELSE sealed
      /\ UNCHANGED <<message, stamp, stored, named>>

(* encrypt_message, which checks no framing: the host passes it the message*)
(* it packed, and persists the entry before anything else.                 *)
Encrypt(to, key) ==
  LET e    == Len(sealed) + 1
      call == EncryptMessage(buffer, len, to, e)
  IN  /\ phase \in {"packed", "stamped"} /\ e <= MaxSeals
      /\ Returns(call, "entry")
      /\ IF call.error = "ok"
         THEN /\ sealed' = Append(sealed, [key |-> key, plain |-> EncryptedPlain(buffer, len)])
              /\ stored' = SubSeq(call.buffer, 1, call.len)
         ELSE UNCHANGED <<sealed, stored>>
      /\ UNCHANGED <<message, stamp, named>>

Wrap ==
  /\ phase = "entry"
  /\ Returns(WrapUpload(buffer, len, PnStamp), "upload")
  /\ UNCHANGED <<message, stamp, stored, sealed, named>>

(* The host loses its buffer (an upload went unanswered, or it restarted)  *)
(* and starts again: from the stored entry, or from the draft.             *)
Restart ==
  /\ phase \in {"packed", "stamped", "packet", "entry", "upload"}
  /\ earlier' = {} /\ outcome' = "ok"
  /\ IF stored # <<>>
     THEN /\ buffer' = Put(Blank(Len(buffer)), 1, stored)
          /\ len' = Len(stored) /\ phase' = "entry"
          /\ UNCHANGED stamp
     ELSE /\ buffer' = Blank(Len(buffer)) /\ len' = 0 /\ phase' = "new"
          /\ stamp' = <<>>
  /\ UNCHANGED <<message, stored, sealed, named>>

(* External: a propagation node takes the uploaded bin, strips its stamp   *)
(* and serves the entry.                                                   *)
Entry(cells) ==
  LET b == Bytes(cells)
  IN  IF /\ SubSeq(b, 1, 2) = <<146, 203>> /\ b[11] = 145
         /\ ReadBin(b, 12) = Len(b) + 1 /\ SkipValueAt(b, 1, 0) = Len(b) + 1
      THEN SubSeq(cells, 13 + LengthBytes(b[12]), Len(cells) - PnStampLength)
      ELSE <<>>

Serve ==
  /\ phase = "upload" /\ Entry(InUse) # <<>>
  /\ buffer' = Entry(InUse) /\ len' = Len(buffer')
  /\ phase' = "served" /\ outcome' = "ok"
  /\ UNCHANGED <<message, earlier, stamp, stored, sealed, named>>

(* decrypt_message on the served entry.                                    *)
Open ==
  /\ phase = "served"
  /\ Returns(DecryptMessage(buffer, "recipient", HostKeys, sealed), "opened")
  /\ UNCHANGED <<message, stamp, stored, sealed, named>>

Next ==
  \/ Build \/ Wrap \/ Restart \/ Serve \/ Open
  \/ \E key \in HostKeys : BuildPacket(key)
  \/ \E n \in Lengths, s \in Stamps : Stamp(n, s)
  \/ \E n \in Lengths, to \in Ends, key \in HostKeys : Seal(n, to, key)
  \/ \E to \in Ends, key \in HostKeys : Encrypt(to, key)

Spec == Init /\ [][Next]_vars

-----------------------------------------------------------------------------
(* The types: the length in use lies in the buffer after every call, and a *)
(* stored entry is still addressed to the recipient.                       *)
TypeOK ==
  /\ message \in Messages
  /\ Len(buffer) >= len /\ len \in Nat /\ earlier \subseteq Nat
  /\ phase \in {"new", "packed", "stamped", "packet", "entry", "upload", "served", "opened"}
  /\ stamp \in Stamps \cup {<<>>}
  /\ \A e \in DOMAIN sealed : sealed[e].key \in HostKeys
  /\ phase # "new" => named
  /\ Len(sealed) <= MaxSeals
  /\ stored # <<>> => SubSeq(stored, 1, HashLength) = DestHash("recipient")

(* What the recipient reads out of the buffer, by the way it travels.      *)
Received ==
  LET signed == Signed("recipient", PackPayload(message))
      open(entry) == DecryptMessage(entry, "recipient", HostKeys, sealed)
      opened(entry) == ParseLink(SubSeq(open(entry).buffer, 1, open(entry).len),
                                 "recipient", signed)
  IN  CASE phase \in {"packed", "stamped", "opened"} -> ParseLink(InUse, "recipient", signed)
        [] phase = "packet" ->
             ParseOpportunistic(InUse, "recipient", HostKeys, sealed, signed)
        [] phase \in {"entry", "served"} -> opened(InUse)
        [] phase = "upload" -> opened(Entry(InUse))
        [] phase = "new" -> Unreadable

(* Wherever the message has got to, and whatever failed or was retried on  *)
(* the way, its recipient authenticates it as the message that was built:  *)
(* no in-place move overwrites what it has yet to move, and the stamp stays*)
(* outside the signed region.                                              *)
MessageSurvives ==
  phase # "new" =>
    /\ Received.ok
    /\ Received.title = message.title /\ Received.content = message.content
    /\ Received.fields = OuterFields(message)

(* The one stamp the host appended reaches the recipient whole, as the     *)
(* fifth element; an earlier length never truncates it or adds a second.   *)
StampSurvives ==
  phase # "new" =>
    Received.trailer = IF stamp = <<>> THEN <<>> ELSE Cells(<<196, Len(stamp)>>) \o stamp

(* The entry a node unwraps is the stored one, on every retry, so its      *)
(* transient ID is the one the propagation stamp was computed over.        *)
RetriesKeepEntry ==
  /\ phase = "upload" => Entry(InUse) = stored
  /\ phase = "entry" => InUse = stored

(* A failing call leaves the message as it was: one that is too long for a *)
(* packet "is left intact for Link delivery".                              *)
FailureIsHarmless == [][outcome' # "ok" => UNCHANGED <<buffer, len>>]_vars

(* "the plaintext is identical to what the opportunistic builders encrypt":*)
(* a sealed message without a stamp and a packet built at once carry the   *)
(* same bytes, and what does not fit a packet one way does not the other.  *)
(* A message nested as deep as only the builder counts is refused as       *)
(* malformed before its length is looked at.                               *)
PathsAgree ==
  /\ phase = "packet" /\ stamp = <<>> => Last(sealed).plain = DirectPlain(message)
  /\ phase = "packed" /\ message.audio = <<>> /\ Framed(buffer, len, {148}) =>
       (SealOpportunistic(buffer, len, "recipient", 1).error = "TooLong"
          <=> BuildOpportunistic(buffer, message, 1).call.error = "TooLong")

(* "size buffers with packed_len_with_fields": a buffer and a scratch of   *)
(* the counted length are enough for a message, and one byte less is not.  *)
SizedBufferSuffices ==
  phase = "new" /\ FieldSetError(message.fields) = "ok" =>
    (BuildLink(buffer, message, "recipient").error = "ok" <=> Len(buffer) >= PackedLen(message))

(* A message that was built is accepted for stamping and sealing, room and *)
(* packet size permitting (build_link_with_fields: "The result accepts     *)
(* append_recipient_stamp, and seal_opportunistic turns it into a single   *)
(* opportunistic packet").                                                 *)
BuiltMessageCanBeStamped ==
  phase = "packed" =>
    \A s \in Stamps : Len(s) \in {16, 32} =>
      AppendRecipientStamp(buffer, len, s).error \in {"ok", "OutputTooSmall"}
=============================================================================

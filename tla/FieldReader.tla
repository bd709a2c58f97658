---------------------------- MODULE FieldReader -----------------------------
(***************************************************************************)
(* A host that reads the structured fields of an authentic message, and    *)
(* reads them again as time passes.  What the sender means is a sequence   *)
(* of entries, [key, keyBytes, value], with one encoding of each key and   *)
(* value; a key is an "integer", a "text" or "broken".  Of values,         *)
(*   "audio"   means a mode and bytes,                                     *)
(*   "ticket"  means an exact expiry and a ticket,                         *)
(*   "other"   means neither.                                              *)
(***************************************************************************)
EXTENDS StructuredFields, Encodings, SequencesExt

CONSTANTS
  Maps,   \* what senders mean: sequences of entries
  Times,  \* the host's clock, a sequence of increasing floats
  Text    \* the key that the host looks up in a schema map

(* The digits of a float, and a number that one holds exactly.             *)
DoubleDigits == -1074 .. 1023
IsDouble(n) == n.digits = {} \/ Max(n.digits) - Min(n.digits) <= 52

(* The host's clock is a float and never steps back.                       *)
ASSUME TimesAssumption ==
  /\ Times # <<>>
  /\ Times \in Seq([negative : BOOLEAN, finite : {TRUE}, digits : SUBSET DoubleDigits])
  /\ \A i \in DOMAIN Times : IsDouble(Times[i])
  /\ \A i, j \in DOMAIN Times : i < j => Greater(Times[j], Times[i])

(* What a sender may write for a key, and for a value under it: a broken   *)
(* key is neither an integer nor text that is UTF-8, and no other value is *)
(* audio or a ticket.  All values are whole and of a length that headers   *)
(* tell apart.                                                             *)
IsKey(key, bytes) ==
  \/ key \in {"integer"} \X Int /\ EncodesInteger(bytes, key[2])
  \/ /\ key \in {"text"} \X Seq(Byte) /\ Utf8(key[2])
     /\ EncodesBlob(bytes, key[2], TextCodes)
  \/ /\ key \in {"broken"} \X Seq(Byte) /\ bytes # <<>> /\ ~IsInteger(bytes[1])
     /\ IsText(bytes[1]) => EncodesBlob(bytes, key[2], TextCodes) /\ ~Utf8(key[2])
IsEntry(entry) ==
  /\ entry.keyBytes \in Seq(Byte) /\ entry.value.bytes \in Seq(Byte)
  /\ IsKey(entry.key, entry.keyBytes)
  /\ Len(entry.keyBytes) < Huge /\ Len(entry.value.bytes) < Huge
  /\ SkipValueAt(entry.value.bytes, 1, 0) = Len(entry.value.bytes) + 1
  /\ entry.key = <<"integer", AudioId>> =>
       IF entry.value.kind = "audio"
       THEN EncodesAudio(entry.value.bytes, entry.value.means[1], entry.value.means[2])
       ELSE ~IsAudio(entry.value.bytes)
  /\ entry.key = <<"integer", TicketId>> =>
       IF entry.value.kind = "ticket"
       THEN /\ EncodesTicket(entry.value.bytes, entry.value.means[1], entry.value.means[2])
            /\ Len(entry.value.means[2]) = TicketLength
       ELSE ~IsTicket(entry.value.bytes, TicketLength)

(* A fixmap holds the entries, and no more than the readers take.          *)
ASSUME MapsAssumption ==
  LET told == UNION {{map[i] : i \in DOMAIN map} : map \in Maps}
  IN  /\ Maps \subseteq Seq(told) /\ \A entry \in told : IsEntry(entry)
      /\ \A map \in Maps : Len(map) <= MaxFields /\ Len(map) <= 15

VARIABLES
  entries,  \* what the sender means
  clock,    \* how far the host's clock has got
  audio,    \* what audio_field last made of it
  ticket,   \* what ticket_field last made of it
  asked,    \* the clock when it did
  member    \* what map_bytes_value last made of it

vars == <<entries, clock, audio, ticket, asked, member>>

Unread == [kind |-> "unread"]
Encoded ==
  <<128 + Len(entries)>>
    \o FlattenSeq([i \in DOMAIN entries |-> entries[i].keyBytes \o entries[i].value.bytes])

Init ==
  /\ entries \in Maps /\ clock = 1
  /\ audio = Unread /\ ticket = NoTicket /\ asked = 0 /\ member = NoBytes

ReadAudio ==
  audio' = AudioField(Encoded) /\ UNCHANGED <<entries, clock, ticket, asked, member>>
ReadTicket ==
  /\ ticket' = TicketField(Encoded, Times[clock]) /\ asked' = clock
  /\ UNCHANGED <<entries, clock, audio, member>>
ReadMember ==
  member' = MapBytesValue(Encoded, Text) /\ UNCHANGED <<entries, clock, audio, ticket, asked>>

(* External: time passes.                                                  *)
Tick ==
  /\ clock < Len(Times) /\ clock' = clock + 1
  /\ UNCHANGED <<entries, audio, ticket, asked, member>>

Next == ReadAudio \/ ReadTicket \/ ReadMember \/ Tick

Spec == Init /\ [][Next]_vars

-----------------------------------------------------------------------------
(* What the sender means by a key: the values it gave it.                  *)
Under(key)    == {i \in DOMAIN entries : entries[i].key = key}
KeysTold      == \A i, j \in DOMAIN entries : entries[i].key = entries[j].key => i = j
KeysOf(kind)  == \A i \in DOMAIN entries : entries[i].key[1] = kind
IsFieldsMap   == KeysTold /\ KeysOf("integer")
The(key)      == entries[CHOOSE i \in Under(key) : TRUE].value
AudioKey      == <<"integer", AudioId>>
TicketKey     == <<"integer", TicketId>>

AudioMeant ==
  IF ~IsFieldsMap THEN BadAudio
  ELSE IF Under(AudioKey) = {} THEN NoAudio
  ELSE IF The(AudioKey).kind # "audio" THEN BadAudio
  ELSE [kind |-> "audio", mode |-> The(AudioKey).means[1], bytes |-> The(AudioKey).means[2]]

OffersTicket ==
  IsFieldsMap /\ Under(TicketKey) # {} /\ The(TicketKey).kind = "ticket"
Expiry == The(TicketKey).means[1]

MemberMeant ==
  LET key == <<"text", Text>>
  IN  IF KeysTold /\ Under(key) # {} /\ \A i \in DOMAIN entries : entries[i].key[1] # "broken"
      THEN The(key).bytes
      ELSE <<>>

-----------------------------------------------------------------------------
(* The types: a mode is a byte, a ticket has its length, and it expires at *)
(* a time that is a float.                                                 *)
TypeOK ==
  /\ clock \in 1 .. Len(Times) /\ asked \in 0 .. clock
  /\ audio.kind \in {"unread", "none", "malformed", "audio"}
  /\ audio.kind = "audio" => audio.mode \in Byte
  /\ ticket.ok => Len(ticket.ticket) = TicketLength /\ IsDouble(ticket.expires)
  /\ member = NoBytes \/ member \in Seq(Byte)

(* Audio is what the sender put under its ID, in every encoding of the ID, *)
(* of the mode and of the framing, and nothing else is taken for audio.    *)
AudioReadAsMeant == audio \in {Unread, AudioMeant}

(* A ticket is taken only as offered and only while its exact expiry lies  *)
(* ahead, however the expiry was encoded and rounded; and an unexpired one *)
(* is taken, if rounding did not bring its expiry down to now.             *)
TicketsUnexpired ==
  asked # 0 =>
    /\ ticket.ok => /\ OffersTicket /\ ticket.ticket = The(TicketKey).means[2]
                    /\ Greater(Expiry, Times[asked])
    /\ OffersTicket /\ IsDouble(Expiry) /\ Greater(Expiry, Times[asked]) =>
         ticket.ok /\ ticket.expires.digits = Expiry.digits

(* A ticket found expired is never found valid again.                      *)
ExpiryIsFinal == [][asked # 0 /\ ticket'.ok => ticket.ok]_<<ticket, asked>>

(* A member of a schema map is looked up by its text alone, whatever       *)
(* header the text is written with; an integer key never answers for it,   *)
(* and a doubled or unreadable key anywhere makes the map unreadable.      *)
MemberReadAsMeant == member \in {NoBytes, MemberMeant}
=============================================================================

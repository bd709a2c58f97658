# Verification of lxmf-lite-core

TLA+ models of `lxmf-lite-core`, the LXMF codec for microcontrollers in this
repository, with the TLC runs that check them and the TLAPS proofs about them.
Paths such as `lxmf.rs` are below `src/` of the repository.

## The system

The crate is `no_std`, allocates nothing and runs no thread. Everything it
remembers lies in values and buffers its caller, the firmware, owns and passes
in call after call. What is hard about it is therefore what happens between
calls: work cut into slices, one buffer rewritten in place by several
functions, scratch space reused without being cleared, lengths and indexes kept
by the caller while the buffer they describe changes, and untrusted bytes whose
headers announce anything.

| Component | State | Operations | Must hold |
|---|---|---|---|
| stamp search (`stamp.rs`) | `Workblock {prefix, completed, rounds}`, `StampSearch {nonce, attempts, limit, progress}` | `new`, `step(rounds, attempts)`, `cancel` | the answer does not depend on the slices; it settles; a settled answer is final |
| MessagePack walker (`lxmf.rs`) | position, depth and loop counters on the stack | `skip_value`, `skip_n`, `read_bin` | in bounds, bounded recursion, work linear in the bytes, accepts exactly the profile |
| fields map (`lxmf.rs`) | `LxmfFieldScratch`, reused uncleared | `validate_fields`, `field_value_id` | verdict independent of the past; a key is the integer it encodes |
| outgoing message (`lxmf.rs`, `propagation.rs`) | one buffer, and the length in use kept by the caller | `build_link` and its variants, `build_opportunistic` and its variants, `packed_len` and its variants, `append_recipient_stamp`, `seal_opportunistic`, `encrypt_message`, `wrap_upload` | signed content and stamp arrive; failures change nothing; retries send the same entry; both ways to a packet agree; a buffer sized by the counters is enough |
| inbound parsing (`lxmf.rs`) | decryption scratch, key ring and hint kept by the caller | `parse_*`, `peek_*`, `decrypt_message` | only authenticated messages; a stale key index fails closed; nothing of an earlier packet shows |
| propagation client (`propagation.rs`) | none; the caller has an inbox and a listing | `build_get_request`, `response_data`, `available_at`, `fetched_message` | no message is purged before it is stored; a late response is never taken for another's; an unreadable entry blocks no other |
| announce parsing (`propagation.rs`) | the array iterator | `array_items`, `unsigned`, `parse_node_announce`, `delivery_stamp_cost` | no wrap or saturation; absent cost is never free |
| structured fields (`lxmf.rs`) | none | `audio_field`, `ticket_field`, `map_bytes_value` | every encoding read as meant; no ambiguous key; an expired ticket stays expired |

The components meet in the firmware: the search runs over the message id that
`build_link_with_fields` returned, its stamp goes through
`append_recipient_stamp`; a second search runs over the transient id of
`encrypt_message` and its stamp goes into `wrap_upload`. What `decrypt_message` opens goes
through `parse_link`, its source's announce supplying the key, and only then may
the host store it and purge it at the node. The walker is under
everything that reads. Cryptography (ECIES, Ed25519, SHA-256) is
`rns_lite_core` and the hash crates, outside this repository.

## Modules

| Module | Models | Correspondence |
|---|---|---|
| `StampPromise` | what a search promises | abstract: pending, then one answer or cancelled |
| `StampSearch` | `stamp.rs` | `Prepare` is `step` while preparing (with `Workblock::advance`), `Find` and `Miss` are `step` while searching, split by whether the slice contains a hit; `Cancel` is `cancel`; `Settled` the calls that do nothing |
| `NonceCounter` | the carry loop in `step` | `Increment`, byte by byte; `StampSearch` counts nonces as numbers |
| `MsgPack` | header codes, `skip_value` as a recursive function, `read_bin` | pure operators |
| `ValueGrammar` | what a MessagePack value is | reference grammar, independent of how `skip_value` walks |
| `SkipValue` | `skip_value` and `skip_n` as they run | one step per call (`Refuse`, `Leaf`, `Enter`) and per loop end (`Return`); `left` is the call stack's loop counters |
| `FieldMap` | map header, integer keys, stateless check, lookup | pure operators |
| `FieldScratch` | `validate_fields` with its scratch | `Begin`, one `Check` per turn of the loop, `Finish`; `Drop` is the caller moving on |
| `PacketBuffer` | the in-place moves | `CopyWithin` and `Put` are `copy_within` and `copy_from_slice` |
| `Envelope` | the builders, counters, rewriters and parsers of one buffer | each operator returns buffer, length and error, its `IF` chain in the order of the code's returns |
| `Outbox` | a message on its way through one buffer | one action per library call; `Restart`, `Serve` and the phase are the host and the node |
| `Opening` | key rings, `peek_*`, `parse_opportunistic*` and `parse_decrypted` on messages taken by parts | pure operators; each parser gives its error or `"ok"` |
| `Inbox` | a host that peeks, recalls a key and parses | `Peek`, `ParseHinted`, `ParseScanned` are the three calls; `Rotate` and `Expire` change the caller's slice of ratchets between them |
| `Mailbox` | what collecting mail promises | abstract: a message is kept before its entry is removed, and both happen |
| `Propagation` | the request and response codecs and `decrypt_message` | pure operators |
| `PropagationSync` | a host, the Links and a propagation node | `Ask` sends `build_get_request`; `TakeList`, `TakeMessage`, `TakeDone`, `Ignore` are what the host does with a response that `response_data` accepted or refused; `Serve`, `Lose`, `Arrive` are the node and the network |
| `ArrayItems` | `array_items` and its iterator | pure operators |
| `ArrayWalk` | a caller that takes items one by one | `Open` is `array_items`, `Take` and `Stop` are `next` |
| `Numbers` | MessagePack numbers as `unsigned` and `read_number` see them | pure operators on sets of binary digits |
| `Announce`, `AnnounceReader` | `parse_node_announce`, `delivery_stamp_cost`; a host that hears announces | one action per parser; the properties compare with what the sender means |
| `Encodings` | what MessagePack lets a sender write | reference: the encodings of an integer, a finite number, a bin or str, `[mode, bin]`, `[expires, ticket]` |
| `StructuredFields`, `FieldReader` | `audio_field`, `ticket_field`, `map_bytes_value`; a host that reads an authentic message again as time passes | one action per reader, and `Tick` |
| `MC*` | constants for TLC | |
| `Lemmas` | induction and recursion on the naturals; what reading one header guarantees; where the pieces of a joined string and the entries of a map lie; that an encoded integer is read as that integer | for the proofs |
| `*Proofs` | theorems | |

`ValueGrammar` and `FieldMap` extend `MsgPack`, `SkipValue` extends
`ValueGrammar`, and `Lemmas` extends `ValueGrammar` and `Encodings`;
`FieldScratch` extends `Encodings`, and `Envelope` extends `FieldMap` and
`PacketBuffer`; `Outbox` extends `Envelope`. `Inbox` and `Propagation` extend `Opening`, and `PropagationSync`
extends `Propagation` and instantiates `Mailbox`. `ArrayItems` extends `MsgPack`,
`Numbers` extends `FieldMap`, `Announce` extends both and `StructuredFields` the
latter; `Encodings` extends `Numbers`, and `FieldReader` extends
`StructuredFields` and `Encodings`. `StampSearch` instantiates `StampPromise`. An operator whose comment
calls it a mutant is a plausible mistake in the definition below it; nothing
refers to it, and substituting it breaks the property PROJECT.json names.

### What is abstracted

- Hashes: `bits[n]`, the leading zero bits of nonce `n`, is any function. The
  unfinalized SHA-256 state is the sequence of HKDF salts it has absorbed, since
  all else in a chunk is fixed by the material.
- Nonces are numbers below `NonceSpace` that wrap; `NonceCounter` has the bytes.
- In `MsgPack` a four-byte length of 2^24 or more is `Huge`, longer than any
  buffer; the code's `checked_add` and `checked_mul` refuse it or the data ends.
- In `Envelope` a cell is a MessagePack byte or the i-th byte of a hash,
  signature, stamp or ciphertext. Signatures verify for exactly the record they
  were made for. Ciphertexts stand for what was at the plaintext offset when
  they were made (`sealed`). Opaque bytes read as the reserved code 0xc1, which
  no reader accepts as framing, so bytes out of place are always noticed.
- The timestamp is one constant: its value is copied and never inspected, apart
  from the finiteness checks in `wrap_upload` and `build_get_request`, which a
  finite clock passes.
- The Link builders get a scratch as large as their output buffer.
- In `Opening` a plaintext is its three parts, source, signature and payload, or
  fewer of them when it is too short; a payload is its framing's verdict, its
  signed body and whether it has a stamp. What is in a payload byte by byte is
  `Envelope`'s. A failed decryption leaves the scratch alone, because
  `rns_lite_core` authenticates before it writes; so does one in place.
- In `Propagation` a transient id is a constructor over the buffer that was
  hashed, so hashing another state of it gives another id. A request id is a
  number not in use on the way; the code's is a packet hash.
- The purging host of `PropagationSync` is outside the library. It does what the
  comments in `propagation.rs` ask of it: one request at a time, with its id and
  deadline; list, fetch one, decrypt, validate, store, purge; skip what it
  cannot read, and start the list again from its beginning.
- `PropagationSync` takes the source's key for known once a message has arrived,
  and its ring for constant; keys that come late and rings that move are
  `Inbox`'s.
- In `Numbers` a magnitude is its set of binary digits, so 64-bit integers and
  floats of every exponent are exact and nothing depends on TLC's 32-bit
  integers.

## Runs

| Run | Question | Bounds, and why they are enough | Fairness |
|---|---|---|---|
| `search` | does slicing change the answer? | all functions on 4 nonces to 0..2 bits, costs 0..3 (3 is unattainable), limits 0..3, workblocks of 1 and 3 rounds, budgets 0, 1, 2 and more than is left: cuts before, in and after every phase, wrap of the nonce included | the caller keeps calling `step` with non-zero budgets |
| `workblock` | are the salts right? | 25 rounds (peering) and 300, across 127/128 and 255/256; the two longer kinds only add three-byte numbers | none needed |
| `nonce` | does the carry loop count? | base 4, five bytes: all 1024 values, carries of every length | none |
| `walk` | is `skip_value` the grammar, and does the limit cut where the code says? | the code's own limit of 8; every string up to four bytes over ten codes, one per arm that differs; four-byte length headers; strings up to three bytes of six codes behind seven one-element arrays, so that they end below, at and past the limit; both entry depths, two start positions | a call runs to its end |
| `fields` | does the scratch's past matter, and is a key the integer its bytes mean? | all maps of up to two entries over eight keys (seven encodings of 1, -1 and 255, and a non-integer) and three values, wrong counts and headers; any number of messages in a row; `MaxFields` 2, so that three keys are too many; lookups of 1, -1, 255 and 65535 (`Ids`) | none |
| `outbox` | does the message arrive, is a packet built at once the one sealed in steps, and is a counted buffer enough? | the code's own lengths; text, fields and audio; messages on both sides of the bin8/bin16 upload header, of the packet limit and of each buffer; fields out of order, nested to the limit, repeated, with trailing bytes; four buffer sizes; stamps of 16, 32 and a wrong length; two encryptions (`MaxSeals`), so one retry or change of way; any length returned earlier | none |
| `inbox` | is only the authentic accepted, and does a stale hint fail closed? | nine packets: every kind of key, with a stamp and without, too short by one part and by all, another's signature, source or recipient, refused fields; two ratchets, two hints waiting at once (`MaxPeeked`), so that hints of different ages meet one ring and one scratch | none |
| `sync` | is mail lost, mistaken or blocked? | three entries in every order: one under a ratchet, one under the base key and one that cannot be opened, or one message twice under different keys and one larger than a fetch may return; two faults of any kind (`MaxFaults`) and two requests or responses under way (`MaxInFlight`), so that a late response meets a later request and a restart follows a loss | host, node and Links below |
| `array_walk` | can a caller trust `len` and the items? | every header, with counts in and out of range, over bodies of up to three bytes of eight kinds, and nests around the limit (`MaxDepth` 2) | none |
| `announces` | is an announce read as meant? | a good announce, and each that differs from it in one element: numbers at the edges of 8, 15, 31, 32, 63 and 64 bits, of the byte limit, of fractions and of the floats, in every encoding that holds them; elements of wrong kinds; cut by one byte or with one more | none |
| `field_reader` | is a field read as meant, and an expiry final? | maps of up to two entries, over fourteen keys, modes and expiries in every encoding, expiries below zero, at halves, and where an integer no longer fits a float; seven times between and on them | none |
| `stamping_promise` | is what was built accepted for stamping? | as `outbox`, one buffer, two messages | none |

The fairness of `search` is the firmware's side of the contract ("Firmware must
also impose its own cost and elapsed time policy", `stamp.rs`): a caller that
stops calling gets no answer, and a zero budget is documented as a no-op. The
fairness of `walk` is that a function call runs.

`DeliversMail` assumes of the environment what its liveness needs and no more:
the host goes on asking when it waits for nothing (`Ask`), the node serves what
reaches it without refusing, responses that are not lost are heard, and a
deadline passes when no answer is on its way (`propagation.rs:27`, "the host must
install that ID, Link incarnation and deadline"). Each is weak fairness of one
action. Losses, refusals, early timeouts, failed writes and restarts are never
fair and are bounded by `MaxFaults`: after the last of them the system must still
get there from whatever state they left. No other property needs fairness.
Deadlock is not checked where the system stops: a walk that has returned, a
message that was delivered.

### The violated property

`stamping_promise` finds that a message built by `build_link_with_fields` may be
refused by `append_recipient_stamp` and `seal_opportunistic`. The builder checks
a value at depth 1 (`lxmf.rs:272`, "the inbound parser walks values one level
below the fields map"), and the parsers indeed walk the fields map from depth 0.
Stamping and sealing walk the whole payload array from depth 0
(`propagation.rs:305`, `lxmf.rs:821`), where the same value is one level deeper.
A value nested seven arrays deep falls between: it builds, parses at the
recipient, and cannot be stamped or sealed. The doc at `lxmf.rs:1156-1158`
promises both.

The same one level of difference is why `PathsAgree` compares the opportunistic
builder's length check with that of sealing only for messages both can walk: where a
message is nested as deep as only the builder allows and is too long as well, the
builder answers that it is too long and sealing that it is malformed.

## Proofs

All theorems are for every value of the constants under the named assumptions of
the component's module. Each safety invariant that is not inductive has its
strengthening in the proof module, one lemma per action that it survives that
action, and a temporal step at the end.

### How recursion is reasoned about

Walks over values are recursive functions on the naturals or on byte strings.
`Lemmas` proves what such proofs need from the well-foundedness of `<` on the
naturals: `LeastOf` (every non-empty set of naturals has a least element),
`SetInduction` (a set with 0 and closed under successor has every natural) and
`NatRecursion` (a function defined by recursion on the naturals exists, so its
`CHOOSE` satisfies its equation). Inductions are then over a set, namely of the
lengths, counts or positions for which the claim holds. On the same footing
`Lemmas` has `SkipForward` and its kin: announced lengths are naturals, and a
readable value's own bytes end after where they begin and inside the data.

### Stamp search (`StampSearchProofs`)

`SearchInv` is `TypeOK`, `WorkblockExact`, `ScheduleIndependent` and what makes
them inductive: while a search is active its nonce is the seed advanced by
`attempts`, its attempts are below the limit and none of the nonces tried so far
meets the cost. From it `SearchTypes`, `WorkblockIsExact`,
`ScheduleDoesNotMatter`, and `SearchKeepsPromise`: every step of a sliced search
is a step of `StampPromise` or a stutter. `SaltsAreCanonical` adds that each
absorbed salt is the shortest encoding of its round. `NoncesCountUp` is the carry
loop for every base and width: an induction over the byte at which the carry
stops; `CarryIsNextNonce` says that it computes the `Nth` by which `StampSearch`
counts. Assumed: positive round counts that fit a u16 (`RoundsFitU16`), and limits
smaller than the number of nonces, as a u64 is (`SearchAssumption`).

### Walker and iterator (`SkipValueProofs`)

`WalkInv` adds to the bounds that loops deeper than the current call are finished
and that the base loop is unfinished only at the start; with it
`WalkStaysInBounds`, `WalkWorkIsLinear` and `WalkSkipsWholeValues`.
`SkipAcceptsTheGrammar` has two halves. `OperatorInv` says that the machine is on
its way to the end that the recursive `SkipValueAt` computes: pushing the loops
that are still open through the operator, from the innermost out, gives that end.
The other half is that the operator and `ValueGrammar` agree on every string,
count and depth, by induction over the length and, within it, the count.
`BlobReadersAgree` follows from the one-step equation of the operator.
`ItemsInv` is the array iterator's: what it has not yielded was validated as
`remaining` values one level down, and what it has yielded lies before it; from it
`ItemsAreCounted` and `ItemsLieEndToEnd`.

### Fields map (`FieldScratchProofs`)

`KeysInv` keeps `index` within the announced count while checking;
`ComparedKeysAreDistinct` follows whatever the scratch held. `ScratchInv` adds
`OnTheWalk`: the loop stands where the stateless walk stands and the scratch
holds the ids of the keys before that. Then each verdict of the loop is the
stateless check's (`BothChecksAgree`), and `ScratchTypes` holds.

Those compare the nine bytes of `FieldId` with each other, and would hold of a
wrong widening too. `KeysReadAsMeant` does not: what a key means is the integer
of which its bytes are an encoding (`EncodesInteger`, from the encoder's side,
without `FieldId`). `KeysAreReadAsMeant` proves, for every message and every integer
of up to eight bytes, that no two keys of an accepted map mean the same
integer, that a lookup gives what follows the key that means it and nothing if
none does, and that two keys refused as double mean the same. It rests on
three facts. Every encoding of an integer is read as its nine bytes (`KeyRead`,
`MeaningRead`); those of different integers differ (`OctetsTellApart`); and
every key that `read_field_id` takes is an encoding of some integer
(`KeyMeansSome`, by induction over the bytes: any bytes and any sign are the
two's complement of an integer, `SomeInteger`).

### Outgoing message (`OutboxProofs`)

`WrapKeepsEntry` and `AppendKeepsSigned` are about the in-place moves for all
lengths. `OutboxInv` has five parts: what the host knows (`HostInv`), that the
length in use lies in the buffer (`BufferInv`), what was encrypted (`SealedInv`),
that a persisted entry is addressed to the recipient and still fits (`StoredInv`),
and what the buffer holds in each phase (`PhaseInv`). The last is what the others
need: a packed message begins with the recipient's address, an entry or an upload
in the buffer is the stored one, and neither has framing where a message has it,
so that a length from an earlier step stamps and seals nothing that is not a
message. `PathsInv` adds what the host has in hand before anything is encrypted: a
packed message is whole, byte for byte, and the host has no other length of it; from
it `BothPathsAgree`. From `OutboxInv` alone `OutboxTypes`, `EntryIsKept` (the node
that walks the upload's header cuts out exactly the stored entry) and
`FailuresChangeNothing`.

`MessagesSurvive` and `StampsSurvive` are the promise of the whole component, that
the recipient reads the message and the stamp that were sent, and need two things.

- *What is written is read back.* `PayloadLaid` says at which offsets the title,
  the content and the fields of a packed payload lie; its hard part is the fields
  map, which the writer joins from its entries in ascending order: `FieldsLaid`
  finds each entry in it (`FlattenPlaces`, an induction over the entries), so the
  stateless check accepts the map and the walk of it ends where it ends. `LiesIn`
  carries such a layout to wherever the payload is moved. `WholeIsRead` concludes
  that `parse_link` reads a whole message, with or without a stamp, as what it was
  built from, and `EntryOpens` and `PacketIsRead` that the receiving ends of the
  other two ways get there: no two ciphertexts look alike, so the one that opens is
  the one that was made.
- *Nothing else is ever in the buffer.* `SurvivalInv` says where the message is: as
  it was built but for the stamp, in the buffer (`InBufferInv`, while packed, stamped
  or opened) or under one ciphertext, in the buffer or in the store (`InStoreInv`).
  What makes it inductive is the length the host had before it stamped, which the
  host may pass again: `NotFramedAgain` says that the call refuses it, because the
  marker now counts five elements and only four fit (`FourDoNotEnd`). So whatever a
  call takes for a framed message is the whole message (`FramedIsWhole`), a second
  stamp is refused, and what is sealed or encrypted is the message with its stamp.
  TLC finds `SurvivalInv` true in every state of `outbox`.

`SizedBuffers` is about the two writers behind one encoder. `FieldsCounted` and
`MessageCounted` say that the one that counts, which sees lengths only, arrives at
the length of what the other writes: by induction over the entries, in the order
both write them, with text, fields or audio. Then the room that `build_link` asks
for beside the payload, prefix and message ID, is never more than `packed_len` says,
and one byte less than it says is refused.

Assumed: messages made of bytes and stamps that are opaque (`OutboxAssumption`); an
upload's wrapping, 14 bytes, is shorter than what precedes a payload and may be
walked two levels deep (`UploadAssumption`); a hash fits before the plaintext
(`LengthAssumption`); and for the last three theorems `SizeAssumption`: buffers are
smaller than `Huge`, 2^24 bytes, the length beyond which the model does not tell
headers apart, the limit of fields lies between 1 and 255 (`MAX_FIELDS` is 64),
so that a count has one significant byte, and a signature (64 bytes) is no shorter
than a message ID (32).

### Inbound parsing (`InboxProofs`)

`HintInv` is `PeekedSourceIsOwn` for hints of packets that arrived; from it
`HintsAreOwn`. `AcceptanceIsAuthentic` rests on `ValidIsSigned`: a plaintext that
`parse_decrypted` accepts carries its source's signature, which some packet
brought. `RingInv` adds that a hint's index named the packet's key in the ring it
was found in; with `OpeningNamesKey` (a ring opens a packet exactly if the packet's
key is in it) it gives `InboxTypes`, `HintsFailClosed` and `GenuineIsAccepted`. All
hold for any packets, rotations and stale hints, and any contents of the scratch.

### Propagation client (`PropagationSyncProofs`)

`NothingLost` alone is not inductive, because a purge takes effect later than it
is decided: `PurgesStored` adds that every id a request on the way deletes, and the
id of a purge about to be asked for, is of an entry already stored. From both,
`NoMailIsLost`. `AskedGoal` says that what is on the way under the awaited id
belongs to the present goal; `NoAnswerIsMistaken` follows because `response_data`
compares the id. `SyncInv`, for `SyncTypes`, adds that a fetch is under way only
from a position of the list, that a request deletes one legible entry at most and
that a list on the way is no longer than the mail. With it and `PurgesStored`,
`CollectsAsPromised` proves the safety half of the refinement of `Mailbox`: a served
purge is the abstract removal of one kept message, a commit the abstract keeping,
and every other step stutters. For every set of entries, ring, limit and number of
faults; assumed is only that request ids on the way differ.

### Structured fields (`FieldReaderProofs`)

The comparison of digit sets is transitive, so a refusal at one time carries over
to every later one: `ExpiredTicketsStayExpired`, for every message, on a clock that
does not step back (`TimesAssumption`).

`AudioIsReadAsMeant`, `MemberIsReadAsMeant` and `TicketsAreUnexpired` say that what
is read is what was meant, for every map a sender may write: a fixmap of entries
whose keys are any encoding of an integer (fixint, uint or int of a width it fits),
of a text, or neither, and whose values are whole (`MapsAssumption`, stated with the
reference encodings of `Encodings`). The first two need no invariant but themselves,
since the message never changes, and the third only that the last answer is the
answer of its moment (`Answered`); the work is in the readers. `TypesAreRight`
follows from the first two, `Answered` and `NumberIsDouble`.

- *What an integer was written as is forgotten, and nothing else.* Every encoding
  ends in the low bytes of the integer's two's complement and continues its sign
  (`HoldsInteger`), so `read_field_id` makes the same nine bytes of all of them
  (`KeyRead`) and different ones of different integers (`OctetsTellApart`); both
  are in `Lemmas`, since the fields map needs them too.
- *The walk finds each entry where it lies.* `EntriesLie` gives the offsets in the
  joined map, `SkipLocal` carries a whole value to any of them, and induction over
  the entries gives `WalkFinds` and, for texts and integers mixed, `SchemaWalkFinds`,
  up to the first key that is neither. So the stateless check takes exactly the maps
  with integer keys, none twice, whatever their encodings (`FieldsMapRead`), and a
  lookup finds the one value (`ValueFound`).
- *What encodes a mode and a bin is taken for them, and nothing else is.*
  `AudioTaken` is one direction; `NoAudioTaken` the other, from `ModeFound` (zero
  high bytes and a code below 224 leave no negative and no larger number) and
  `BlobFound` (a length that reaches the end has no spare prefix).
- *An expiry is read to within its rounding, and that is safe.* `NumberRead` says
  that the nine bytes of a sign extension, negated when they are negative, have the
  digits of the integer that was sent (`ExtendedBits`, `ComplementRead`), which are
  then rounded, and that a float is taken as it is. What rounding makes of a
  magnitude is its 53 highest digits, perhaps with a carry into the lowest gap above
  them (`RoundedParts`), so no number of 53 digits lies strictly between the two
  (`NoneAbove`, `NoneBelow`), and the host's clock is one (`TimesAssumption`). Hence
  `RoundingIsSafe`: an expiry that is read as later than now is later than now.
  `TicketTaken` and `NoTicketTaken` are the two directions of `ticket_field`. That
  what is read is always a float (`NumberIsDouble`) rests on a carry keeping the
  width, and on the exponent of a float being an integer.

`Bits` and `Float` of `Numbers` give the digits of a sender's bytes to the
reference as well as to the readers. What they give is checked apart from both: the
expiries of `field_reader` list bytes and exact digits side by side, and
`MapsAssumption`, which TLC evaluates, compares them.

### Only model-checked

- Liveness (`Terminates`, `DeliversMail`, the fair half of `KeepsFairPromise`):
  the prover has no reasoning about `ENABLED`.
- Both properties of `AnnounceReader`: what an announce means is a record of its
  elements, and there is no reference encoding of a whole announce to prove against.

## Not modelled

- `ticket_stamp` and `Workblock::value` for received stamps: pure hashes.
- Timestamps that are not finite, and a scratch smaller than the output buffer.
- `LxmfView`'s lifetimes, `Default`, conversions between error types: no
  behaviour at run time.
- UTF-8 beyond ASCII: `core::str::from_utf8` accepts or refuses, and
  `read_schema_key` does the same either way.
- `rns_lite_core` (ECIES, signatures, hashes): another repository, and external
  operators here. The order of its writes in a decryption that fails is assumed
  as `propagation.rs` relies on it.
- Which error a reader gives, where every property treats them alike: `audio_field`
  passes on what is wrong with the fields map, and the parsers' errors are one.
- `parse_decrypted`'s refusal of a payload above `MAX_LXMF_PAYLOAD`: the packets here
  are those the builders make, which are smaller.
- The index of the key that opened an entry, the third result of
  `propagation::decrypt_message`.
- The example, the tests and the scripts: no state of the library.

`encrypt_message` checks neither framing nor that the buffer still holds
plaintext. What a host gets that calls it twice, or with an old length, is a
ciphertext of garbage; there is nothing to state about it, and `Outbox` calls it
as the host is told to.

## Order of work

The stamp search, the walker, the fields map and the Link message came first,
with the proofs about them; then `Inbox` and `PropagationSync` with theirs, the
array iterator, the announce decoders, the opportunistic builders and counters,
and the structured field readers; then the proofs that rest on induction, and
`OutboxInv`; then `SurvivalInv` and `SizedBuffers`, from the lemmas that locate the
elements of a packed payload; and last the readers of structured fields, tickets
and their rounded expiries at the end. Next would be the reader of announces.

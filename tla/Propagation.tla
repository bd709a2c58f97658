---------------------------- MODULE Propagation -----------------------------
(***************************************************************************)
(* The client codecs of src/propagation.rs for a node's mailbox: requests, *)
(* responses and the entries they carry.                                   *)
(*                                                                         *)
(* An entry is [dest, key, plain, size]; while it is encrypted, key is what*)
(* authenticates it.  A response carries a sequence of items, each the ID  *)
(* of an entry, an entry, or no byte string at all.                        *)
(***************************************************************************)
EXTENDS Opening

Error(e) == [error |-> e]
NoId     == "none"

(* SHA-256 of a buffer as it is at the moment of hashing.                  *)
TransientId(buffer) == [hash |-> buffer]

IdItem(e)    == [blob |-> "id", of |-> e]
EntryItem(e) == [blob |-> "entry", of |-> e]
NoBlob       == [blob |-> "none", of |-> "none"]

(* Mutant: the fetch asks the node to delete what it returns.              *)
BuildGetRequestTaking(goal, limit) ==
  IF goal.kind = "fetch" /\ limit = 0 THEN Error("MalformedPayload")
  ELSE [error |-> "ok", lists |-> goal.kind = "list", limit |-> limit,
        wants |-> IF goal.kind = "fetch" THEN {goal.id} ELSE {},
        haves |-> IF goal.kind # "list" THEN {goal.id} ELSE {}]

(* build_get_request: what each kind asks for and deletes.                 *)
BuildGetRequest(goal, limit) ==
  IF goal.kind = "fetch" /\ limit = 0 THEN Error("MalformedPayload")
  ELSE [error |-> "ok", lists |-> goal.kind = "list", limit |-> limit,
        wants |-> IF goal.kind = "fetch" THEN {goal.id} ELSE {},
        haves |-> IF goal.kind = "purge" THEN {goal.id} ELSE {}]

(* Mutant: the request ID is not compared.                                 *)
ResponseDataOfAny(response, expected) == [error |-> "ok", items |-> response.items]

(* response_data: the value that answers exactly this request.             *)
ResponseData(response, expected) ==
  IF response.id # expected THEN Error("MalformedPayload")
  ELSE [error |-> "ok", items |-> response.items]

(* Mutant: the last position is taken for one past the list.               *)
AvailableBeforeLast(items, index) ==
  IF \E i \in DOMAIN items : items[i].blob # "id" THEN Error("MalformedPayload")
  ELSE [error |-> "ok", count |-> Len(items),
        found |-> IF index + 1 < Len(items) THEN {TransientId(items[index + 1].of)} ELSE {}]

(* available_at: the ID at a position of a list of nothing but IDs.        *)
AvailableAt(items, index) ==
  IF \E i \in DOMAIN items : items[i].blob # "id" THEN Error("MalformedPayload")
  ELSE [error |-> "ok", count |-> Len(items),
        found |-> IF index < Len(items) THEN {TransientId(items[index + 1].of)} ELSE {}]

(* fetched_message: at most one item, and that a byte string.              *)
FetchedMessage(items) ==
  IF Len(items) > 1 \/ (Len(items) = 1 /\ items[1] = NoBlob) THEN Error("MalformedPayload")
  ELSE [error |-> "ok", found |-> {items[i] : i \in DOMAIN items}]

-----------------------------------------------------------------------------
(* External: ecies_decrypt_in_place authenticates before it writes.        *)
TryInPlace(entry, key) ==
  IF entry.key = key THEN [entry EXCEPT !.key = "open"] ELSE entry

(* The buffer after each of the keys has been tried on it in turn.         *)
AfterTrying(entry, keys) ==
  LET after[i \in 0 .. Len(keys)] ==
        IF i = 0 THEN entry
        ELSE IF after[i - 1].key = "open" THEN after[i - 1]
        ELSE TryInPlace(after[i - 1], keys[i])
  IN  after[Len(keys)]

(* Mutant: the transient ID is taken of the decrypted buffer.              *)
DecryptMessageThenHash(item, ring) ==
  LET entry  == item.of
      opened == AfterTrying(entry, Append(ring, Base))
  IN  IF item.blob = "id" THEN Error("MalformedPayload")
      ELSE IF entry.dest # Me THEN Error("DestinationMismatch")
      ELSE IF opened.key # "open" THEN Error("Crypto")
      ELSE [error |-> "ok", plain |-> entry.plain, id |-> TransientId(opened)]

(* decrypt_message on one fetched byte string; an ID is too short to be an *)
(* entry.                                                                  *)
DecryptMessage(item, ring) ==
  LET entry  == item.of
      id     == TransientId(entry)
      opened == AfterTrying(entry, Append(ring, Base))
  IN  IF item.blob = "id" THEN Error("MalformedPayload")
      ELSE IF entry.dest # Me THEN Error("DestinationMismatch")
      ELSE IF opened.key # "open" THEN Error("Crypto")
      ELSE [error |-> "ok", plain |-> entry.plain, id |-> id]
=============================================================================

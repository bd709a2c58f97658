--------------------------- MODULE AnnounceReader ---------------------------
(***************************************************************************)
(* A host that hears announces.  Another implementation encodes them, with *)
(* any of MessagePack's encodings of a number and any elements this client *)
(* does not know; the radio may cut them or append to them.  An item here  *)
(* is what its sender means, by kind, with one encoding of it:             *)
(*   "integer", "float"  the digits of a number below 2^64 and not negative*)
(*   "flag"              TRUE or FALSE                                     *)
(*   "list"              a sequence of items                               *)
(*   "named"             a map, and the bytes of the name in it, or NoBytes*)
(*   "nil", "other"      nil; anything else                                *)
(***************************************************************************)
EXTENDS Announce, SequencesExt

CONSTANT Announces  \* what senders mean: sequences of items

VARIABLES
  announce,  \* the announce on the air
  damage,    \* what the way did to it: "none", "cut" or "tail"
  node,      \* what parse_node_announce made of it
  cost       \* what delivery_stamp_cost made of it

vars == <<announce, damage, node, cost>>

(* Before a parser has run.                                                *)
Unread == [ok |-> FALSE, read |-> FALSE]

ListBytes(items) == <<144 + Len(items)>> \o FlattenSeq([i \in DOMAIN items |-> items[i].bytes])
Heard ==
  LET sent == ListBytes(announce)
  IN  IF damage = "cut" THEN SubSeq(sent, 1, Len(sent) - 1)
      ELSE IF damage = "tail" THEN Append(sent, 0)
      ELSE sent

Init ==
  /\ announce \in Announces /\ damage \in {"none", "cut", "tail"}
  /\ node = Unread /\ cost = Unread

(* The announce is tried as a node's and as a recipient's.                 *)
ReadNode == node' = ParseNodeAnnounce(Heard) /\ UNCHANGED <<announce, damage, cost>>
ReadCost == cost' = DeliveryStampCost(Heard) /\ UNCHANGED <<announce, damage, node>>

Next == ReadNode \/ ReadCost

Spec == Init /\ [][Next]_vars

-----------------------------------------------------------------------------
(* What an announce means, whatever the encodings: numbers are truncated   *)
(* toward zero, and elements past the known ones are ignored.              *)
IsNumber(item) == item.kind \in {"integer", "float"}
Whole(item)    == {k \in item.means : k >= 0}
SmallNumber(item) == IsNumber(item) /\ Whole(item) \subseteq 0 .. 7

(* The most kilobytes whose bytes fit u64: 18446744073709551.              *)
MaxKilobytes == Bits(<<0, 65, 137, 55, 75, 198, 167, 239>>)

NodeMeant ==
  LET a     == announce
      costs == a[6].means
  IN  IF /\ damage = "none" /\ Len(a) >= 7
         /\ IsNumber(a[2]) /\ Whole(a[2]) \subseteq 0 .. 62
         /\ a[3].kind = "flag"
         /\ \A i \in {4, 5} : IsNumber(a[i]) /\ ~Less(MaxKilobytes, Whole(a[i]))
         /\ a[6].kind = "list" /\ Len(costs) >= 3
         /\ \A i \in 1 .. 3 : SmallNumber(costs[i])
         /\ a[7].kind = "named"
      THEN [ok |-> TRUE, timebase |-> Whole(a[2]), enabled |-> a[3].means,
            transfer_limit_kb |-> Whole(a[4]), sync_limit_kb |-> Whole(a[5]),
            stamp_cost |-> Whole(costs[1]), stamp_flex |-> Whole(costs[2]),
            peering_cost |-> Whole(costs[3]), name |-> a[7].means]
      ELSE Unknown

CostMeant ==
  IF damage # "none" \/ Len(announce) < 2 THEN Unknown
  ELSE IF announce[2].kind = "nil" THEN NilCost
  ELSE IF announce[2].kind = "integer" /\ SmallNumber(announce[2])
  THEN CostOf(announce[2].means)
  ELSE Unknown

-----------------------------------------------------------------------------
(* A node is shown as it announced itself, in every encoding, or not at    *)
(* all: no saturated float, no wrapped integer, no limit whose bytes do not*)
(* fit u64 ("Runtime byte-limit conversion must never wrap"), nothing from *)
(* a damaged announce; and a name that cannot be read costs only the name. *)
NodeAnnounceExact == node \in {Unread, NodeMeant}

(* "Never interpret absent or malformed metadata as free delivery": a cost *)
(* is known, nil or zero, only if it was announced so.                     *)
StampCostExact == cost \in {Unread, CostMeant}
=============================================================================

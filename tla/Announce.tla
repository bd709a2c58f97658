------------------------------ MODULE Announce ------------------------------
(***************************************************************************)
(* What parse_node_announce and delivery_stamp_cost of src/propagation.rs  *)
(* read out of the app data of a propagation node's or a recipient's       *)
(* announce.                                                               *)
(***************************************************************************)
EXTENDS ArrayItems, Numbers

Unknown == [ok |-> FALSE]

(* checked_mul(1000): the long multiplication carries out of eight bytes.  *)
ByteOf(n, i) == MapThenSumSet(LAMBDA k : 2^(k - 8 * i), n \cap 8 * i .. 8 * i + 7)
TimesThousandFits(n) ==
  LET carry[i \in 0 .. 8] ==
        IF i = 0 THEN 0 ELSE (1000 * ByteOf(n, i - 1) + carry[i - 1]) \div 256
  IN  carry[8] = 0

(* The advertised name: key 1 of the metadata, or none.                    *)
NodeName(metadata) ==
  LET value == FieldValueId(metadata, FieldId(<<1>>, 1))
  IN  IF value = <<>> THEN NoBytes ELSE ValueAsBytes(value)

-----------------------------------------------------------------------------
(* The guards of parse_node_announce, but for the limits.                  *)
WellFormed(items) ==
  /\ Len(items) >= 7
  /\ Unsigned(items[2]) # NoNumber /\ 63 \notin Unsigned(items[2])
  /\ items[3] \in {<<194>>, <<195>>}
  /\ \A i \in {4, 5} : Unsigned(items[i]) # NoNumber
  /\ Len(ItemsOf(items[6])) >= 3
  /\ \A i \in 1 .. 3 : FitsByte(Unsigned(ItemsOf(items[6])[i]))
  /\ IsMap(items[7][1])

(* With the limits, which the host converts to bytes.                      *)
Admissible(items) ==
  WellFormed(items) /\ \A i \in {4, 5} : TimesThousandFits(Unsigned(items[i]))

(* parse_node_announce                                                     *)
ParseNodeAnnounce(data) ==
  LET items == ItemsOf(data)
      costs == ItemsOf(items[6])
  IN  IF ~Admissible(items) THEN Unknown
      ELSE [ok |-> TRUE, timebase |-> Unsigned(items[2]), enabled |-> items[3] = <<195>>,
            transfer_limit_kb |-> Unsigned(items[4]), sync_limit_kb |-> Unsigned(items[5]),
            stamp_cost |-> Unsigned(costs[1]), stamp_flex |-> Unsigned(costs[2]),
            peering_cost |-> Unsigned(costs[3]), name |-> NodeName(items[7])]

(* The answers of delivery_stamp_cost that are not Unknown.                *)
NilCost   == [ok |-> TRUE, nil |-> TRUE]
CostOf(n) == [ok |-> TRUE, nil |-> FALSE, cost |-> n]

(* Mutant: no cost item is taken for a nil one.                            *)
DeliveryStampCostFree(data) ==
  LET items == ItemsOf(data)
  IN  IF Len(items) < 2 \/ items[2] = <<192>> THEN NilCost
      ELSE IF items[2][1] \in {202, 203} \/ ~FitsByte(Unsigned(items[2])) THEN Unknown
      ELSE CostOf(Unsigned(items[2]))

(* delivery_stamp_cost                                                     *)
DeliveryStampCost(data) ==
  LET items == ItemsOf(data)
  IN  IF Len(items) < 2 THEN Unknown
      ELSE IF items[2] = <<192>> THEN NilCost
      ELSE IF items[2][1] \in {202, 203} \/ ~FitsByte(Unsigned(items[2])) THEN Unknown
      ELSE CostOf(Unsigned(items[2]))
=============================================================================

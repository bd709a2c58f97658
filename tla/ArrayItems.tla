----------------------------- MODULE ArrayItems -----------------------------
(***************************************************************************)
(* array_items and its iterator in src/propagation.rs: a whole array is    *)
(* validated once, from depth 0, and its items are then walked one by one, *)
(* each from depth 0 again.                                                *)
(***************************************************************************)
EXTENDS MsgPack

NoItems == [ok |-> FALSE]

(* Mutant: what follows the array is not looked at.                        *)
IteratorTrailing(data) ==
  IF SkipValueAt(data, 1, 0) = Malformed \/ ~IsArray(data[1]) THEN NoItems
  ELSE [ok |-> TRUE, data |-> data, pos |-> 2 + LengthBytes(data[1]),
        remaining |-> Announced(data, 1)]

(* array_items: an iterator, when the data is one array and nothing more.  *)
IteratorOf(data) ==
  IF SkipValueAt(data, 1, 0) # Len(data) + 1 \/ ~IsArray(data[1]) THEN NoItems
  ELSE [ok |-> TRUE, data |-> data, pos |-> 2 + LengthBytes(data[1]),
        remaining |-> Announced(data, 1)]

(* Mutant: the count of what is left is not kept up.                       *)
AdvancedUncounted(it) == [it EXCEPT !.pos = SkipValueAt(it.data, it.pos, 0)]

(* ArrayItems::next: whether it yields, what, and where it then stands.    *)
Yields(it)   == it.remaining > 0 /\ SkipValueAt(it.data, it.pos, 0) # Malformed
NextItem(it) == SubSeq(it.data, it.pos, SkipValueAt(it.data, it.pos, 0) - 1)
Advanced(it) == [it EXCEPT !.pos = SkipValueAt(it.data, it.pos, 0), !.remaining = @ - 1]

(* What a caller gets that asks until there is no more.                    *)
Iterators == [ok : {TRUE}, data : Seq(Byte), pos : Nat, remaining : Nat]
ItemsOf(data) ==
  LET from[it \in Iterators] ==
        IF Yields(it) THEN <<NextItem(it)>> \o from[Advanced(it)] ELSE <<>>
  IN  IF IteratorOf(data).ok THEN from[IteratorOf(data)] ELSE <<>>
=============================================================================

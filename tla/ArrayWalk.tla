----------------------------- MODULE ArrayWalk ------------------------------
(***************************************************************************)
(* A caller of array_items that takes one item after another.  The callers *)
(* in src/propagation.rs trust len() before they take any item, and trust  *)
(* that the array was validated from another depth than the items are      *)
(* walked from.                                                            *)
(***************************************************************************)
EXTENDS ArrayItems, SequencesExt

CONSTANT Arrays  \* the byte strings taken for arrays

ASSUME ArraysAssumption == Arrays \subseteq Seq(Byte)

VARIABLES
  array,   \* the slice given to array_items
  it,      \* the iterator, NoItems before there is one
  taken,   \* the items it has yielded
  phase    \* "given", "walking", "over" or "refused"

walk == <<array, it, taken, phase>>

ArrayInit == array \in Arrays /\ it = NoItems /\ taken = <<>> /\ phase = "given"

(* array_items                                                             *)
Open ==
  /\ phase = "given"
  /\ it' = IteratorOf(array)
  /\ phase' = IF it'.ok THEN "walking" ELSE "refused"
  /\ UNCHANGED <<array, taken>>

(* next() yields an item, or nothing, as if there were no more.            *)
Take ==
  /\ phase = "walking" /\ Yields(it)
  /\ taken' = Append(taken, NextItem(it)) /\ it' = Advanced(it)
  /\ UNCHANGED <<array, phase>>
Stop ==
  /\ phase = "walking" /\ ~Yields(it)
  /\ phase' = "over"
  /\ UNCHANGED <<array, it, taken>>

ArrayNext == Open \/ Take \/ Stop

ArraySpec == ArrayInit /\ [][ArrayNext]_walk

-----------------------------------------------------------------------------
(* ExactSizeIterator: len() is the number of items still to come, so the   *)
(* walk ends only when it is 0 ("The constructor already validated every   *)
(* item and recursion bound").  It is never more than the bytes left,      *)
(* whatever a four-byte header announces.                                  *)
LenIsExact ==
  /\ it.ok => /\ Len(taken) + it.remaining = Announced(array, 1)
              /\ it.remaining \in 0 .. Len(array) + 1 - it.pos
  /\ phase = "over" => it.remaining = 0

(* The items lie end to end from the header to the last byte, and each is  *)
(* one whole value by itself: none is split, skipped or yielded twice, and *)
(* nothing follows them.                                                   *)
ItemsTile ==
  /\ it.ok => SubSeq(array, 1, 1 + LengthBytes(array[1])) \o FlattenSeq(taken)
                = SubSeq(array, 1, it.pos - 1)
  /\ \A i \in DOMAIN taken : SkipValueAt(taken[i], 1, 1) = Len(taken[i]) + 1
  /\ phase = "over" => it.pos = Len(array) + 1
=============================================================================

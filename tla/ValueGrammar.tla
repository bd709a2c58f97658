---------------------------- MODULE ValueGrammar ----------------------------
(***************************************************************************)
(* What a whole MessagePack value is, as a grammar, independent of any way *)
(* to walk it: the reference for skip_value.                               *)
(***************************************************************************)
EXTENDS MsgPack

(* The grammar, as a reference: whether s is n values nesting at most k    *)
(* levels, for each <<s, n, k>>.                                           *)
Grammar ==
  LET value[call \in Seq(Byte) \X Nat \X Int] ==
        LET s == call[1]
            n == call[2]
            k == call[3]
        IN  IF n = 0 THEN s = <<>>
            ELSE \E i \in 1 .. Len(s) :
                   LET first == SubSeq(s, 1, i)
                   IN  /\ k >= 0 /\ Readable(first, 1)
                       /\ value[<<SubSeq(s, i + 1, Len(s)), n - 1, k>>]
                       /\ value[<<SubSeq(s, OwnEnd(first, 1), i), Items(first, 1), k - 1>>]
  IN  value
IsValue(s, k) == Grammar[<<s, 1, k>>]
=============================================================================

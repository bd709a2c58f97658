---------------------------- MODULE MCSkipValue -----------------------------
(* Constants for checking SkipValue: every short byte string over one code *)
(* of each kind, alone and behind arrays that nest almost to the limit.    *)
EXTENDS SkipValue

StringsOf(bytes, n) == UNION {[1 .. k -> bytes] : k \in 0 .. n}

(* fixints, an unsupported ext8, fixstr, bin8, fixarrays, array16, fixmap  *)
(* and map16                                                               *)
Codes == {0, 1, 199, 161, 196, 145, 146, 220, 129, 222}

(* bin32, uint32, array32 and map32, with room for four-byte lengths       *)
WideInputs == {<<code>> \o s : code \in {198, 206, 221, 223}, s \in StringsOf({0, 1}, 6)}

(* behind as many arrays of one element as leave room for one more level   *)
Nest(n) == [i \in 1 .. n |-> 145]
DeepInputs == {Nest(MaxDepth - 1) \o s : s \in StringsOf({1, 144, 145, 146, 129, 161}, 3)}

MCInputs == StringsOf(Codes, 4) \cup WideInputs \cup DeepInputs
=============================================================================

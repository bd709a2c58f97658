---------------------------- MODULE MCArrayWalk -----------------------------
(* Constants for checking ArrayWalk: arrays with every kind of header over *)
(* short bodies, and nests of arrays around the limit.                     *)
EXTENDS ArrayWalk

StringsOf(bytes, n) == UNION {[1 .. k -> bytes] : k \in 0 .. n}

(* fixarrays of 0 to 3, array16 and array32 with counts in and out of range,*)
(* no array at all *)
Headers == {<<n>> : n \in 144 .. 147}
  \cup {<<220, 0, 2>>, <<221, 0, 0, 0, 1>>, <<221, 0, 0, 1, 0>>, <<220>>, <<129>>, <<>>}

(* nil, a fixint, fixstr, uint8, small arrays and a map, an ext8 *)
Codes == {1, 192, 161, 204, 144, 145, 129, 199}

MCArrays == {h \o s : h \in Headers, s \in StringsOf(Codes, 3)} \cup StringsOf({144, 145}, 6)
=============================================================================

--------------------------- MODULE MCFieldScratch ---------------------------
(* Constants for checking FieldScratch: maps of one number in several      *)
(* encodings, of numbers that only differ in sign, broken maps, and values *)
(* that are no maps.  Lookups ask for every number that a key means, and   *)
(* for one that only a wrong widening of -1 would make a key.              *)
EXTENDS FieldScratch

Keys   == {<<1>>, <<204, 1>>, <<209, 0, 1>>, <<255>>, <<208, 255>>, <<209, 255, 255>>,
           <<204, 255>>, <<161, 97>>}
Values == {<<0>>, <<145, 1>>, <<199>>}
Entries == {k \o v : k \in Keys, v \in Values}

Bodies == {<<>>, <<1, 0, 2, 0, 3, 0>>} \cup Entries \cup {a \o b : a, b \in Entries}
Headers == {<<n>> : n \in 128 .. 131} \cup {<<222, 0, 2>>}

MCIds == {-1, 1, 255, 65535}

MCMessages == {h \o b : h \in Headers, b \in Bodies} \cup {<<222, 0>>, <<192>>}
=============================================================================

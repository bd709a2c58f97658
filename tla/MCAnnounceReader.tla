-------------------------- MODULE MCAnnounceReader --------------------------
(* Constants for checking AnnounceReader: one good announce, and every     *)
(* announce that differs from it in one element or in length, with numbers *)
(* at the edges of their ranges in every encoding.                         *)
EXTENDS AnnounceReader

Item(kind, means, bytes) == [kind |-> kind, means |-> means, bytes |-> bytes]

BytesOf(n, width) ==
  [i \in 1 .. width |-> MapThenSumSet(LAMBDA k : 2^(k % 8), n \cap 8 * (width - i) .. 8 * (width - i) + 7)]
Width(code) == NumberBody(code)

(* 0, 1, 1.5, 127, 128, 255, 255.5, 256, 2^15, 2^31, 2^32, around the most *)
(* kilobytes, and around 2^63 and 2^64                                     *)
Digits == {{}, {0}, {0, -1}, {-1}, 0 .. 6, {7}, 0 .. 7, -1 .. 7, {8}, {15}, {31}, {32},
  MaxKilobytes, PlusUnit(MaxKilobytes, 0), MaxKilobytes \ {0, 1}, {62}, 0 .. 62, {63},
  11 .. 63, 10 .. 62, 0 .. 63, 40 .. 63}

Fix(n)  == IF n \subseteq 0 .. 6 THEN {Item("integer", n, BytesOf(n, 1))} ELSE {}
Ints(n) == {Item("integer", n, <<code>> \o BytesOf(n, Width(code))) : code \in
  {c \in 204 .. 207 : n \subseteq 0 .. 8 * Width(c) - 1}
    \cup {c \in 208 .. 211 : n \subseteq 0 .. 8 * Width(c) - 2}}
FloatBytes(n, width) ==
  LET bits  == FractionBits(width)
      power == Max(n)
      bias  == IF width = 4 THEN 127 ELSE 1023
      stored == {k \in 0 .. 10 : ((power + bias) \div 2^k) % 2 = 1}
  IN  IF n = {} THEN [i \in 1 .. width |-> 0]
      ELSE BytesOf({k + bits : k \in stored} \cup {k - power + bits : k \in n \ {power}}, width)
Floats(n) == {Item("float", n, <<code>> \o FloatBytes(n, Width(code))) : code \in
  {c \in {202, 203} : n = {} \/ Max(n) - Min(n) <= FractionBits(Width(c))}}

Unnumbers == {
  <<192>>, <<224>>, <<208, 255>>, <<209, 128, 0>>, <<210, 255, 255, 255, 255>>,
  <<211, 128, 0, 0, 0, 0, 0, 0, 0>>,                                   \* negative
  <<202, 127, 128, 0, 0>>, <<202, 127, 192, 0, 0>>, <<202, 95, 128, 0, 0>>,
  <<203, 127, 240, 0, 0, 0, 0, 0, 0>>, <<203, 127, 248, 0, 0, 0, 0, 0, 0>>,
  <<203, 67, 240, 0, 0, 0, 0, 0, 0>>, <<203, 191, 240, 0, 0, 0, 0, 0, 0>>,
  <<203, 128, 0, 0, 0, 0, 0, 0, 1>>,                      \* inf, NaN, 2^64, -1, below -0
  <<194>>, <<161, 49>>, <<196, 1, 1>>, <<145, 1>>, <<129, 1, 1>>}

Numbers0 == UNION {Fix(n) \cup Ints(n) \cup Floats(n) : n \in Digits}
  \cup {Item("float", {}, <<202, 128, 0, 0, 0>>), Item("float", {-1074}, <<203, 0, 0, 0, 0, 0, 0, 0, 1>>)}
  \cup {Item(IF bytes = <<192>> THEN "nil" ELSE "other", {}, bytes) : bytes \in Unnumbers}

Yes   == Item("flag", TRUE, <<195>>)
Flags == {Yes, Item("flag", FALSE, <<194>>), Item("integer", {0}, <<1>>), Item("nil", {}, <<192>>)}

One == Item("integer", {0}, <<1>>)
List(items) == Item("list", items, ListBytes(items))
Costs == {List(<<a, One, One>>) : a \in Numbers0} \cup {List(<<One, One, a>>) : a \in Numbers0}
  \cup {List(<<One, One>>), List(<<One, One, One, Yes>>), List(<<>>), One,
        Item("list", <<One, One, One>>, <<220, 0, 3, 1, 1, 1>>)}

Named(name, bytes) == Item("named", name, bytes)
Metadata == {
  Named(<<97, 98>>, <<129, 1, 196, 2, 97, 98>>), Named(<<97>>, <<130, 0, 192, 204, 1, 161, 97>>),
  Named(<<>>, <<222, 0, 1, 1, 160>>), Named(NoBytes, <<128>>), Named(NoBytes, <<129, 1, 192>>),
  Named(NoBytes, <<130, 1, 161, 97, 204, 1, 161, 98>>), Named(NoBytes, <<129, 161, 49, 161, 97>>),
  Item("nil", {}, <<192>>), List(<<One, One>>)}

Good == <<One, Item("integer", {0, 8}, <<205, 1, 1>>), Yes, One, One, List(<<One, One, One>>),
          Named(<<97>>, <<129, 1, 161, 97>>)>>

Variants(i) == IF i \in {2, 4, 5} THEN Numbers0
  ELSE IF i = 3 THEN Flags
  ELSE IF i = 6 THEN Costs
  ELSE Metadata

MCAnnounces ==
  {SubSeq(Good, 1, n) : n \in 0 .. 7} \cup {Append(Good, One)}
    \cup UNION {{[Good EXCEPT ![i] = item] : item \in Variants(i)} : i \in 1 .. 7}
    \cup {<<Named(<<97>>, <<161, 97>>), item>> : item \in Numbers0}
=============================================================================

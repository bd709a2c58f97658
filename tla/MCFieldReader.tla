--------------------------- MODULE MCFieldReader ----------------------------
(* Constants for checking FieldReader: maps of one and two entries, keys   *)
(* in several encodings, modes and expiries at the edges of theirs.        *)
EXTENDS FieldReader

BytesOf(n, width) ==
  [i \in 1 .. width |-> MapThenSumSet(LAMBDA k : 2^(k % 8), n \cap 8 * (width - i) .. 8 * (width - i) + 7)]
Other(bytes) == [kind |-> "other", means |-> <<>>, bytes |-> bytes]

Pairs == {<<146>>, <<220, 0, 2>>, <<221, 0, 0, 0, 2>>}

(* modes 3 and 200, which int8 cannot hold, in every encoding              *)
Modes == {<<m, <<c>> \o [i \in 1 .. NumberBody(c) - 1 |-> 0] \o <<m>>>> : m \in {3, 200}, c \in 204 .. 211}
  \cup {<<3, <<3>>>>}
Clips == {<<bytes, h \o bytes>> : bytes \in {<<9, 9>>}, h \in {<<196, 2>>, <<197, 0, 2>>}}
Audios == {[kind |-> "audio", means |-> <<m[1], c[1]>>, bytes |-> p \o m[2] \o c[2]] :
             m \in {m \in Modes : m[2] # <<208, 200>>}, c \in Clips, p \in Pairs}
BadAudios == {Other(bytes) : bytes \in {<<146, 208, 200, 196, 0>>, <<146, 255, 196, 0>>,
  <<146, 209, 255, 255, 196, 0>>, <<146, 3, 161, 97>>, <<147, 3, 196, 0, 1>>, <<145, 3>>,
  <<146, 205, 1, 3, 196, 0>>, <<3>>, <<146, 192, 196, 0>>, <<196, 4, 146, 3, 196, 0>>}}

Ticket == <<5, 6>>
Blobs == {<<196, 2, 5, 6>>, <<162, 5, 6>>}
Num(negative, digits, bytes) == [negative |-> negative, finite |-> TRUE, digits |-> digits, bytes |-> bytes]

(* -128, -1, 0, 1, 1.5, 255, 2^31, around 2^53, and around 2^64            *)
Expiries == {
  Num(TRUE, {7}, <<208, 128>>), Num(TRUE, {0}, <<255>>), Num(TRUE, {0}, <<211>> \o BytesOf(0 .. 63, 8)),
  Num(TRUE, {0}, <<203, 191, 240, 0, 0, 0, 0, 0, 0>>), Num(TRUE, {31}, <<210, 128, 0, 0, 0>>),
  Num(FALSE, {}, <<0>>), Num(TRUE, {}, <<203, 128, 0, 0, 0, 0, 0, 0, 0>>), Num(FALSE, {0}, <<205, 0, 1>>),
  Num(FALSE, {0, -1}, <<202, 63, 192, 0, 0>>), Num(FALSE, {0, -1}, <<203, 63, 248, 0, 0, 0, 0, 0, 0>>),
  Num(FALSE, 0 .. 7, <<204, 255>>), Num(FALSE, {31}, <<206, 128, 0, 0, 0>>)}
  \cup {Num(FALSE, n, <<c>> \o BytesOf(n, 8)) : c \in {207, 211},
          n \in {{53}, {53, 0}, {53, 1}, {53, 1, 0}, {53, 2}, 0 .. 53, 10 .. 62, 0 .. 62}}
  \cup {Num(FALSE, n, <<207>> \o BytesOf(n, 8)) : n \in {11 .. 63, 0 .. 63}}
Tickets == {[kind |-> "ticket", means |-> <<e, Ticket>>, bytes |-> <<146>> \o e.bytes \o b] :
              e \in Expiries, b \in Blobs}
  \cup {[kind |-> "ticket", means |-> <<e, Ticket>>, bytes |-> p \o e.bytes \o <<196, 2, 5, 6>>] :
          e \in {Num(FALSE, {31}, <<206, 128, 0, 0, 0>>)}, p \in Pairs}
BadTickets == {Other(bytes) : bytes \in {<<146, 202, 127, 128, 0, 0, 162, 5, 6>>,
  <<146, 203, 127, 248, 0, 0, 0, 0, 0, 0, 162, 5, 6>>, <<146, 0, 161, 5>>, <<146, 0, 163, 5, 6, 7>>,
  <<147, 1, 162, 5, 6, 1>>, <<146, 161, 49, 162, 5, 6>>, <<192>>, <<146, 205, 255, 255, 192>>}}

IntKey(n, bytes) == [key |-> <<"integer", n>>, keyBytes |-> bytes, value |-> Other(<<1>>)]
TextKey(s, bytes) == [key |-> <<"text", s>>, keyBytes |-> bytes, value |-> Other(<<145, 2>>)]
Keys == {IntKey(7, <<7>>), IntKey(7, <<204, 7>>), IntKey(7, <<209, 0, 7>>), IntKey(12, <<12>>), IntKey(97, <<97>>), IntKey(-1, <<255>>),
         IntKey(-1, <<208, 255>>), IntKey(255, <<204, 255>>),
         TextKey(<<97>>, <<161, 97>>), TextKey(<<97>>, <<217, 1, 97>>), TextKey(<<97>>, <<219, 0, 0, 0, 1, 97>>), TextKey(<<98>>, <<161, 98>>),
         [TextKey(<<>>, <<161, 255>>) EXCEPT !.key = <<"broken", <<255>>>>],
         [TextKey(<<>>, <<196, 1, 97>>) EXCEPT !.key = <<"broken", <<>>>>]}

Holding(key, values) == {[key EXCEPT !.value = v] : v \in values}
MCMaps ==
  {<<>>} \cup {<<a>> : a \in Keys} \cup {<<a, b>> : a, b \in Keys}
    \cup {<<a>> : a \in Holding(IntKey(7, <<7>>), Audios \cup BadAudios)}
    \cup {<<a>> : a \in Holding(IntKey(12, <<12>>), Tickets \cup BadTickets)}
    \cup {<<a, b>> : a \in Holding(IntKey(7, <<204, 7>>), {CHOOSE v \in Audios : TRUE}), b \in Keys}
    \cup {<<a, b>> : a \in Keys, b \in Holding(IntKey(12, <<12>>), {CHOOSE v \in Tickets : TRUE})}

Float8(negative, digits) == [negative |-> negative, finite |-> TRUE, digits |-> digits]
MCTimes == <<Float8(TRUE, {0, -1}), Float8(FALSE, {}), Float8(FALSE, {0}), Float8(FALSE, {30}),
             Float8(FALSE, {53}), Float8(FALSE, {53, 1}), Float8(FALSE, {64})>>
MCText == <<97>>
=============================================================================

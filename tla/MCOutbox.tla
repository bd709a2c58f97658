------------------------------ MODULE MCOutbox ------------------------------
(* Constants for checking Outbox: the code's own lengths, messages on both *)
(* sides of every size limit, and buffers that hold some of what is built. *)
EXTENDS Outbox

Text(n) == [i \in 1 .. n |-> 97 + (i % 7)]
Plain(n) == [title |-> <<>>, content |-> Text(n), fields |-> <<>>, audio |-> <<>>]
Audio(mode, n) == [Plain(3) EXCEPT !.audio = <<[mode |-> mode, bytes |-> Text(n)]>>]

(* Two fields out of order, one with a long id; a value nested as deep as  *)
(* the parsers allow, with a long one beside it; a repeated field; a value *)
(* with trailing bytes.                                                    *)
Fields  == <<<<200, <<129, 0, 1>>>>, <<10, <<196, 2, 7, 7>>>>>>
Nested  == <<<<10, [i \in 1 .. 8 |-> IF i < 8 THEN 145 ELSE 1]>>>>
Long    == <<Nested[1], <<11, <<197, 1, 44>> \o Text(300)>>>>
Twice   == <<<<10, <<1>>>>, <<10, <<2>>>>>>
Trailing == <<<<10, <<1, 1>>>>>>
With(fields) == [title |-> Text(3), content |-> Text(2), fields |-> fields, audio |-> <<>>]

(* Wrapped with bin8 and bin16 lengths; as long as a packet carries, one   *)
(* byte longer, too long for any buffer.                                   *)
MCMessages ==
  {Plain(0), Plain(17), Plain(287), Plain(288), Plain(400), Audio(3, 9), Audio(200, 300)}
    \cup {With(f) : f \in {Fields, Nested, Long, Twice, Trailing}}

MCStamps == {Opaque("stamp", n, "pow") : n \in {16, 20, 32}}

MCCapacities == {110, 111, 250, 300, 399, 500}

DeepMessages == {With(Nested), With(Fields)}
=============================================================================

----------------------------- MODULE Encodings ------------------------------
(***************************************************************************)
(* What MessagePack lets a sender write for what it means: the reference   *)
(* for the readers of structured fields, which have to take any of it.     *)
(***************************************************************************)
EXTENDS Numbers

(* The integer n shifted right by k bytes, and its w low bytes; a negative *)
(* one shifts towards -1, so its bytes are its two's complement.           *)
Shifted(n) ==
  LET by[k \in 0 .. 8] == IF k = 0 THEN n ELSE by[k - 1] \div 256
  IN  by
Octets(n, w) == [i \in 1 .. w |-> Shifted(n)[w - i] % 256]

UintCodes == 204 .. 207
IntCodes  == 208 .. 211

(* An encoding of the integer n: fixint, uint or int of any width it fits. *)
EncodesInteger(bytes, n) ==
  /\ n \in Int
  /\ \/ n \in 0 .. 127 /\ bytes = <<n>>
     \/ n \in -32 .. -1 /\ bytes = <<256 + n>>
     \/ \E c \in UintCodes :
          LET w == NumberBody(c)
          IN  Shifted(n)[w] = 0 /\ bytes = <<c>> \o Octets(n, w)
     \/ \E c \in IntCodes :
          LET w == NumberBody(c)
          IN  /\ Shifted(n)[w] = IF Octets(n, w)[1] >= 128 THEN -1 ELSE 0
              /\ bytes = <<c>> \o Octets(n, w)

(* An encoding of content, as a bin or str with one of the codes.          *)
EncodesBlob(bytes, content, codes) ==
  /\ content \in Seq(Byte)
  /\ \E c \in codes :
       LET w == LengthBytes(c)
           n == Len(content)
       IN  /\ IF c \in FixStr THEN n = c - 160 ELSE Shifted(n)[w] = 0
           /\ bytes = <<c>> \o Octets(n, w) \o content

BinCodes  == 196 .. 198
TextCodes == FixStr \cup 217 .. 219

(* The headers of an array of two.                                         *)
PairHeads == {<<146>>, <<220, 0, 2>>, <<221, 0, 0, 0, 2>>}

(* An encoding of [mode, bin].                                             *)
EncodesAudio(value, mode, bytes) ==
  /\ mode \in Byte
  /\ \E a, b \in 1 .. Len(value) :
       /\ SubSeq(value, 1, a) \in PairHeads
       /\ EncodesInteger(SubSeq(value, a + 1, b), mode)
       /\ EncodesBlob(SubSeq(value, b + 1, Len(value)), bytes, BinCodes)
IsAudio(value) ==
  \E i \in 1 .. Len(value) + 1 : \E mode \in Byte :
    EncodesAudio(value, mode, SubSeq(value, i, Len(value)))

-----------------------------------------------------------------------------
(* The two's complement of the digits m, in width digits: those up to the  *)
(* lowest one stay, and the others flip.                                   *)
TwosComplement(m, width) == {k \in 0 .. width - 1 : k \in m <=> \A j \in m : j >= k}

NumberBytes(bytes) == IF Len(bytes) = 1 THEN bytes ELSE Tail(bytes)
IsNumber(bytes) ==
  /\ bytes # <<>> /\ Len(bytes) = 1 + NumberBody(bytes[1])
  /\ IsInteger(bytes[1]) \/ (bytes[1] \in {202, 203} /\ Float(Tail(bytes)).finite)

(* An encoding of the finite number n: a float of IEEE, or an integer that *)
(* is unsigned, or signed with the sign in its top digit.                  *)
EncodesNumber(bytes, n) ==
  LET bits == Bits(NumberBytes(bytes))
      top  == 8 * Len(NumberBytes(bytes)) - 1
  IN  /\ IsNumber(bytes) /\ n.negative \in BOOLEAN
      /\ IF bytes[1] \in {202, 203}
         THEN n.negative = Float(Tail(bytes)).negative /\ n.digits = Float(Tail(bytes)).digits
         ELSE IF n.negative
         THEN /\ bytes[1] \in IntCodes \cup 224 .. 255 /\ top \in bits
              /\ n.digits # {} /\ n.digits \subseteq 0 .. top
              /\ bits = TwosComplement(n.digits, top + 1)
         ELSE n.digits = bits /\ (bytes[1] \in IntCodes \cup 224 .. 255 => top \notin bits)

(* An encoding of [expires, ticket].                                       *)
EncodesTicket(value, expires, ticket) ==
  \E a, b \in 1 .. Len(value) :
    /\ SubSeq(value, 1, a) \in PairHeads
    /\ EncodesNumber(SubSeq(value, a + 1, b), expires)
    /\ EncodesBlob(SubSeq(value, b + 1, Len(value)), ticket, BinCodes \cup TextCodes)
IsTicket(value, length) ==
  \E a, b \in 1 .. Len(value), i \in 1 .. Len(value) + 1 :
    /\ SubSeq(value, 1, a) \in PairHeads
    /\ IsNumber(SubSeq(value, a + 1, b))
    /\ EncodesBlob(SubSeq(value, b + 1, Len(value)), SubSeq(value, i, Len(value)),
                   BinCodes \cup TextCodes)
    /\ Len(value) + 1 - i = length
=============================================================================

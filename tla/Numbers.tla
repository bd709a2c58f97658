------------------------------ MODULE Numbers -------------------------------
(***************************************************************************)
(* The numbers that unsigned in src/propagation.rs and read_number in      *)
(* src/lxmf.rs read out of MessagePack.  A magnitude is the set of its     *)
(* binary digits: k is in it for 2^k, also for k < 0, so 64-bit integers   *)
(* and floats of any exponent stay exact.                                  *)
(***************************************************************************)
EXTENDS FieldMap, FiniteSetsExt

NoNumber == {-1}

(* The unsigned integer of big-endian bytes.                               *)
Bits(bytes) ==
  {k \in 0 .. 8 * Len(bytes) - 1 : bytes[Len(bytes) - k \div 8] \div 2^(k % 8) % 2 = 1}

(* m < n: a digit of n alone lies above all digits of m alone.             *)
Less(m, n) == \E k \in n \ m : \A j \in m \ n : j < k

(* m + 2^p, for an integer m below 2^72: the carry flips each digit above  *)
(* p that all digits from p up to it let through.                          *)
PlusUnit(m, p) == {k \in 0 .. 72 : (k \in m) # (k >= p /\ \A j \in p .. k - 1 : j \in m)}

-----------------------------------------------------------------------------
(* An IEEE float of 4 or 8 bytes: its sign, whether it is finite, and its  *)
(* digits: the fraction below a power of two, which a subnormal lacks.     *)
FractionBits(width) == IF width = 4 THEN 23 ELSE 52
Exponent(word, low, high) == MapThenSumSet(LAMBDA k : 2^(k - low), word \cap low .. high)
FloatDigits(word, bits, power, normal) ==
  {d \in power - bits .. power : IF d = power THEN normal ELSE d - power + bits \in word}
Float(bytes) ==
  LET sign   == 8 * Len(bytes) - 1
      bits   == FractionBits(Len(bytes))
      word   == Bits(bytes)
      biased == Exponent(word, bits, sign - 1)
      bias   == 2^(sign - 1 - bits) - 1
      power  == IF biased = 0 THEN 1 - bias ELSE biased - bias
  IN  [negative |-> sign \in word, finite |-> biased # 2 * bias + 1,
       digits |-> FloatDigits(word, bits, power, biased # 0)]

Truncated(m) == {k \in m : k >= 0}

(* Mutant: the cast saturates, as Rust's does by itself.                   *)
CastSaturating(f) ==
  IF f.negative THEN {}
  ELSE IF \E k \in f.digits : k >= 64 THEN 0 .. 63
  ELSE Truncated(f.digits)

(* A float as u64: finite and in 0.0 .. 2^64, and then truncated; -0.0 is  *)
(* in the range.                                                           *)
Cast(f) ==
  IF ~f.finite \/ (f.negative /\ f.digits # {}) \/ \E k \in f.digits : k >= 64
  THEN NoNumber
  ELSE Truncated(f.digits)

(* unsigned: one whole value as a u64.                                     *)
Unsigned(item) ==
  LET code == item[1]
      body == Bits(Tail(item))
  IN  IF code <= 127 THEN Bits(item)
      ELSE IF code \in 204 .. 207 THEN body
      ELSE IF code \in SignedCodes THEN IF item[2] >= 128 THEN NoNumber ELSE body
      ELSE IF code \in {202, 203} THEN Cast(Float(Tail(item)))
      ELSE NoNumber

(* u8::try_from                                                            *)
FitsByte(n) == n # NoNumber /\ n \subseteq 0 .. 7
=============================================================================

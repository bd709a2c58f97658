---------------------------- MODULE NonceCounter ----------------------------
(***************************************************************************)
(* The 256-bit counter of StampSearch::step, byte by byte.  StampSearch    *)
(* abstracts a nonce to a number (Nth); this is the carry loop that counts.*)
(***************************************************************************)
EXTENDS Integers

CONSTANTS Base,   \* values of a byte, 256 in the code
          Width   \* bytes of a nonce, 32 in the code

ASSUME CounterAssumption == Base \in Nat \ {0, 1} /\ Width \in Nat \ {0}

VARIABLE counter  \* a nonce, byte by byte

(* Mutant: the last byte wraps without a carry.                            *)
IncrementLastByte(n) == [n EXCEPT ![Width] = (@ + 1) % Base]

(* Add one from the last byte backwards, as far as the carry reaches.      *)
Increment(n) ==
  LET touched == {i \in 1 .. Width : \A j \in i + 1 .. Width : n[j] = Base - 1}
  IN  [i \in 1 .. Width |-> IF i \in touched THEN (n[i] + 1) % Base ELSE n[i]]

(* A fresh random seed, then one increment per missed attempt.             *)
CounterInit == counter \in [1 .. Width -> 0 .. Base - 1]
CounterNext == counter' = Increment(counter)
CounterSpec == CounterInit /\ [][CounterNext]_counter

-----------------------------------------------------------------------------
(* The number n is, read big-endian, and how many numbers there are.       *)
Number(n) ==
  LET upTo[i \in 0 .. Width] == IF i = 0 THEN 0 ELSE upTo[i - 1] * Base + n[i]
  IN  upTo[Width]
Space ==
  LET power[i \in 0 .. Width] == IF i = 0 THEN 1 ELSE power[i - 1] * Base
  IN  power[Width]

(* The bytes count: read big-endian they are a number that grows by one    *)
(* and wraps only after the last, so successive attempts never repeat a    *)
(* nonce ("the search visits distinct successive 256-bit nonces").         *)
CountsUp == [][Number(counter') = (Number(counter) + 1) % Space]_counter
=============================================================================

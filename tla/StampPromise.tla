---------------------------- MODULE StampPromise ----------------------------
(***************************************************************************)
(* What a stamp search promises its caller, with no slices in it: a search *)
(* is fixed by its cost, its attempt limit, its seed and the proof-of-work *)
(* function, and it is either still pending, cancelled, or settled with    *)
(* the one answer these four determine.  StampSearch implements it.        *)
(***************************************************************************)
EXTENDS Integers

CONSTANT NonceSpace  \* number of nonces; 2^256 in the code

VARIABLES cost, limit, seed, bits, result

Nonces == 0 .. NonceSpace - 1

(* The nonce reached from n by k successive increments; nonces wrap.       *)
Nth(n, k) == IF n + k < NonceSpace THEN n + k ELSE n + k - NonceSpace

Pending    == [state |-> "Pending"]
Exhausted  == [state |-> "Exhausted"]
Cancelled  == [state |-> "Cancelled"]
Complete(stamp, value) ==
  [state |-> "Complete", stamp |-> stamp, value |-> value]

(* i is the first position from the seed whose nonce meets the cost.       *)
Hit(i)      == bits[Nth(seed, i)] >= cost
FirstHit(i) == Hit(i) /\ \A j \in 0 .. i - 1 : ~Hit(j)

(* The answers a search may settle with.                                   *)
FoundAnswer == \E i \in 0 .. limit - 1 :
                 FirstHit(i) /\ result' = Complete(Nth(seed, i), bits[Nth(seed, i)])
NoAnswer    == (\A i \in 0 .. limit - 1 : ~Hit(i)) /\ result' = Exhausted

input == <<cost, limit, seed, bits>>

PromiseInit ==
  \/ cost = 0 /\ result = Complete(0, 0)
  \/ cost # 0 /\ limit = 0 /\ result = Exhausted
  \/ cost # 0 /\ limit # 0 /\ result = Pending

Settle == result = Pending /\ (FoundAnswer \/ NoAnswer) /\ UNCHANGED input
GiveUp == result = Pending /\ result' = Cancelled /\ UNCHANGED input

PromiseNext == Settle \/ GiveUp

PromiseSpec     == PromiseInit /\ [][PromiseNext]_<<input, result>>
FairPromiseSpec == PromiseSpec /\ WF_<<input, result>>(PromiseNext)
=============================================================================

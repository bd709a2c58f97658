---------------------------- MODULE StampSearch -----------------------------
(***************************************************************************)
(* The resumable proof of work of src/stamp.rs: a Workblock prepared round *)
(* by round, and a StampSearch that prepares it and then tries successive  *)
(* nonces, in slices whose budgets the caller chooses call by call.        *)
(*                                                                         *)
(* Hashes are abstract.  bits is the unknown number of leading zero bits   *)
(* of SHA256(workblock || stamp) for the search's material, one function   *)
(* per behaviour; prefix records what has been fed to the unfinalized      *)
(* SHA-256 state: the MessagePack round number salting each HKDF chunk.    *)
(***************************************************************************)
EXTENDS Integers, Sequences

CONSTANTS
  NonceSpace,      \* number of nonces, 2^256 in the code
  RoundCounts,     \* StampKind::rounds(): 3000, 1000 and 25 in the code
  Costs,           \* advertised costs, a u8 in the code
  Limits,          \* attempt limits, a u64 in the code
  Digests,         \* the functions bits may be
  RoundBudgets,    \* round budgets a caller passes to step
  AttemptBudgets   \* attempt budgets a caller passes to step

Nonces == 0 .. NonceSpace - 1

(* A u64 attempt limit is smaller than the number of 256-bit nonces.       *)
ASSUME SearchAssumption ==
  /\ NonceSpace \in Nat \ {0}
  /\ RoundCounts \subseteq Nat \ {0}
  /\ Costs \subseteq Nat
  /\ Limits \subseteq 0 .. NonceSpace - 1
  /\ Digests \subseteq [Nonces -> Nat]
  /\ RoundBudgets \subseteq Nat
  /\ AttemptBudgets \subseteq Nat

(* StampKind::rounds() is a u16.                                           *)
MaxRounds == 65535

ASSUME RoundsFitU16 == RoundCounts \subseteq 0 .. MaxRounds

VARIABLES
  rounds, cost, limit, seed, bits,  \* fixed when the search is created
  completed,                        \* Workblock::completed
  prefix,                           \* Workblock::prefix
  nonce, attempts, progress         \* StampSearch::{nonce, attempts, progress}

input == <<rounds, cost, limit, seed, bits>>
block == <<completed, prefix>>
vars  == <<input, block, nonce, attempts, progress>>

-----------------------------------------------------------------------------
(* Mutant: every round number beyond a fixint is cut to a byte.            *)
PackRoundAsByte(round) == IF round <= 127 THEN <<round>> ELSE <<204, round % 256>>

(* The canonical MessagePack unsigned integer of a round number (a u16).   *)
PackRound(round) ==
  IF round <= 127 THEN <<round>>
  ELSE IF round <= 255 THEN <<204, round>>
  ELSE <<205, round \div 256, round % 256>>

Preparing(c) == [state |-> "Preparing", completed |-> c, total |-> rounds]
Searching(a) == [state |-> "Searching", attempts |-> a]
Complete(stamp, value) ==
  [state |-> "Complete", stamp |-> stamp, value |-> value]
Exhausted    == [state |-> "Exhausted"]
Cancelled    == [state |-> "Cancelled"]

Active == progress.state \in {"Preparing", "Searching"}

Least(a, b) == IF a <= b THEN a ELSE b

(* k big-endian increments of a nonce; the carry out of the top is lost.   *)
Nth(n, k) == IF n + k < NonceSpace THEN n + k ELSE n + k - NonceSpace

-----------------------------------------------------------------------------
(* StampSearch::new, on every combination of its arguments.                *)
Init ==
  /\ rounds \in RoundCounts /\ cost \in Costs /\ limit \in Limits
  /\ seed \in Nonces /\ bits \in Digests
  /\ completed = 0 /\ prefix = <<>>
  /\ nonce = seed /\ attempts = 0
  /\ progress = IF cost = 0 THEN Complete(0, 0)
                ELSE IF limit = 0 THEN Exhausted
                ELSE Preparing(0)

(* What n rounds leave in the hash state.  Mutant: each slice starts again *)
(* with the salt of round zero.                                            *)
AbsorbedFromZero(n) ==
  [i \in 1 .. n |-> IF i <= completed THEN prefix[i] ELSE PackRound(i - 1 - completed)]
Absorbed(n) == [i \in 1 .. n |-> IF i <= completed THEN prefix[i] ELSE PackRound(i - 1)]

(* step() while preparing: Workblock::advance, then report.                *)
Prepare(roundBudget) ==
  /\ progress.state = "Preparing"
  /\ completed' = completed + Least(roundBudget, rounds - completed)
  /\ prefix' = Absorbed(completed')
  /\ progress' = IF completed' = rounds THEN Searching(attempts)
                 ELSE Preparing(completed')
  /\ UNCHANGED <<input, nonce, attempts>>

Slice(attemptBudget) == Least(attemptBudget, limit - attempts)

(* The hits among the next n nonces.  Mutant: counting starts one nonce on.*)
HitsWithinLate(n) == {i \in 0 .. n - 1 : bits[Nth(nonce, i + 1)] >= cost}
HitsWithin(n) == {i \in 0 .. n - 1 : bits[Nth(nonce, i)] >= cost}

(* What a slice without a hit reports after n attempts in all.  Mutant: the*)
(* attempts made before the slice.                                         *)
MissReportStale(n) == IF n = limit THEN Exhausted ELSE Searching(attempts)
MissReport(n)      == IF n = limit THEN Exhausted ELSE Searching(n)

(* step() while searching, when a nonce of the slice meets the cost: the   *)
(* hit is counted and the nonce stays on it.                               *)
Find(attemptBudget) ==
  /\ progress.state = "Searching"
  /\ \E i \in HitsWithin(Slice(attemptBudget)) :
       /\ \A j \in HitsWithin(Slice(attemptBudget)) : i <= j
       /\ attempts' = attempts + i + 1
       /\ nonce' = Nth(nonce, i)
       /\ progress' = Complete(nonce', bits[nonce'])
  /\ UNCHANGED <<input, block>>

(* step() while searching, when no nonce of the slice does.                *)
Miss(attemptBudget) ==
  /\ progress.state = "Searching"
  /\ HitsWithin(Slice(attemptBudget)) = {}
  /\ attempts' = attempts + Slice(attemptBudget)
  /\ nonce' = Nth(nonce, Slice(attemptBudget))
  /\ progress' = MissReport(attempts')
  /\ UNCHANGED <<input, block>>

(* step() or cancel() on a settled search.                                 *)
Settled == ~Active /\ UNCHANGED vars

Step(roundBudget, attemptBudget) ==
  Prepare(roundBudget) \/ Find(attemptBudget) \/ Miss(attemptBudget)

(* Mutant: cancelling overwrites an answer.                                *)
CancelAlways ==
  /\ progress' = Cancelled
  /\ UNCHANGED <<input, block, nonce, attempts>>

Cancel ==
  /\ Active
  /\ progress' = Cancelled
  /\ UNCHANGED <<input, block, nonce, attempts>>

Next ==
  \/ \E r \in RoundBudgets, a \in AttemptBudgets : Step(r, a)
  \/ Cancel
  \/ Settled

Spec == Init /\ [][Next]_vars

(* The caller keeps scheduling slices with a non-zero budget of each kind. *)
Fairness ==
  WF_vars(\E r \in RoundBudgets \ {0}, a \in AttemptBudgets \ {0} : Step(r, a))

FairSpec == Spec /\ Fairness

-----------------------------------------------------------------------------
(* The types of the search's state, and of what it reports: a progress    *)
(* report always repeats the counters the search works with.               *)
TypeOK ==
  /\ rounds \in RoundCounts /\ cost \in Costs /\ limit \in Limits
  /\ seed \in Nonces /\ bits \in Digests
  /\ completed \in 0 .. rounds
  /\ DOMAIN prefix = 1 .. completed
  /\ nonce \in Nonces
  /\ attempts \in 0 .. limit
  /\ \/ progress = Preparing(completed)
     \/ progress = Searching(attempts)
     \/ \E stamp \in Nonces :
          progress = Complete(stamp, IF cost = 0 THEN 0 ELSE bits[stamp])
     \/ progress \in {Exhausted, Cancelled}

(* However preparation is sliced, the hash state a search works with has   *)
(* absorbed exactly the protocol's workblock: every round once, in order.  *)
(* Searching without it is the panic of expect("prepared prefix").         *)
WorkblockExact ==
  /\ prefix = [i \in 1 .. completed |-> PackRound(i - 1)]
  /\ progress.state = "Searching" => completed = rounds

(* Each HKDF chunk is salted with its own round number, in the encoding a  *)
(* MessagePack writer would choose: it reads back as the round, no shorter *)
(* form exists, and so no two rounds of any workblock share a salt.        *)
ReadBack(bytes) ==
  IF Len(bytes) = 1 THEN bytes[1]
  ELSE IF Len(bytes) = 2 THEN bytes[2]
  ELSE 256 * bytes[2] + bytes[3]
Shortest(bytes) ==
  \/ Len(bytes) = 1 /\ bytes[1] \in 0 .. 127
  \/ Len(bytes) = 2 /\ bytes[1] = 204 /\ bytes[2] \in 128 .. 255
  \/ Len(bytes) = 3 /\ bytes[1] = 205 /\ bytes[2] \in 1 .. 255 /\ bytes[3] \in 0 .. 255
SaltsCanonical ==
  \A i \in DOMAIN prefix : ReadBack(prefix[i]) = i - 1 /\ Shortest(prefix[i])

(* A search reports a stamp or exhaustion only as one uninterrupted search *)
(* of the same inputs would: the stamp is the first nonce from the seed    *)
(* that meets the cost, and exhaustion means none of the first limit did.  *)
(* (resumable_search_emits_trusted_valid_stamp_with_identical_scheduling_  *)
(* results checks two schedules of one search.)                            *)
Meets(i) == bits[Nth(seed, i)] >= cost
ScheduleIndependent ==
  /\ progress.state = "Complete" /\ cost # 0 =>
       /\ attempts >= 1 /\ Meets(attempts - 1)
       /\ progress = Complete(Nth(seed, attempts - 1), bits[Nth(seed, attempts - 1)])
       /\ \A i \in 0 .. attempts - 2 : ~Meets(i)
  /\ progress.state = "Exhausted" =>
       attempts = limit /\ \A i \in 0 .. limit - 1 : ~Meets(i)

(* With the slices hidden a search is a StampPromise: it stays pending     *)
(* until it gives, once and for all, the one answer its inputs determine,  *)
(* or is cancelled while pending.  Scheduled with slices that are not      *)
(* empty it does not stay pending: even an impossible cost is bounded by   *)
(* the attempt limit.                                                      *)
Promise == INSTANCE StampPromise WITH
  result <- IF Active THEN [state |-> "Pending"] ELSE progress
KeepsPromise     == Promise!PromiseSpec
KeepsFairPromise == Promise!FairPromiseSpec
=============================================================================

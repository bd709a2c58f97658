------------------------- MODULE StampSearchProofs --------------------------
(***************************************************************************)
(* The stamp search of StampSearch, proved for every number of nonces,     *)
(* cost, limit, workblock and schedule of slices; and the carry loop that  *)
(* counts its nonces.                                                      *)
(***************************************************************************)
EXTENDS StampSearch, NonceCounter, Lemmas

(* What is inductive: the nonce is the seed advanced by the attempts made, *)
(* and while a search is active no attempt made so far met the cost.       *)
NonceFollows ==
  /\ progress.state # "Complete" => nonce = Nth(seed, attempts)
  /\ Active => /\ cost # 0 /\ attempts < limit
               /\ \A i \in 0 .. attempts - 1 : ~Meets(i)
  /\ progress.state = "Complete" /\ cost # 0 => attempts \in 1 .. limit

SearchInv == TypeOK /\ WorkblockExact /\ NonceFollows /\ ScheduleIndependent

(* The attempt before the one counted last, as a position from the seed.   *)
LEMMA LastAttempt ==
  ASSUME NEW n \in Nat, NEW a \in 1 .. n
  PROVE  a - 1 \in 0 .. n - 1
  OBVIOUS

USE SearchAssumption

(* Counting on from a nonce that was itself counted from the seed.         *)
LEMMA NthAdds ==
  ASSUME NEW n \in Nonces, NEW a \in Nat, NEW k \in Nat, a + k < NonceSpace
  PROVE  Nth(Nth(n, a), k) = Nth(n, a + k) /\ Nth(n, a) \in Nonces
  BY DEF Nth, Nonces

(* StampSearch::new meets the invariant, for every cost and limit.         *)
LEMMA InitSearch == Init => SearchInv
  BY DEF Init, SearchInv, TypeOK, WorkblockExact, NonceFollows,
         ScheduleIndependent, Active, Complete, Exhausted, Preparing,
         Searching, Cancelled, Nonces, Nth, Meets

(* A preparing slice of any size keeps the invariant.                      *)
LEMMA PrepareKeeps ==
  ASSUME SearchInv, NEW r \in RoundBudgets, Prepare(r)
  PROVE  SearchInv'
<1> DEFINE n == Least(r, rounds - completed)
<1>1. /\ completed \in 0 .. rounds /\ rounds \in Nat /\ r \in Nat
      /\ attempts \in 0 .. limit /\ progress.state = "Preparing" /\ Active
  BY DEF SearchInv, TypeOK, Prepare, Active
<1>2. n \in Nat /\ completed + n <= rounds /\ completed' = completed + n
  BY <1>1 DEF Prepare, Least
<1>3. completed' \in 0 .. rounds /\ completed <= completed'
  BY <1>1, <1>2
<1>4. prefix' = [i \in 1 .. completed' |-> PackRound(i - 1)]
  <2>1. \A i \in 1 .. completed' : i <= completed => prefix[i] = PackRound(i - 1)
    BY <1>1, <1>3 DEF SearchInv, WorkblockExact
  <2> QED BY <2>1 DEF Prepare, Absorbed
<1>5. /\ UNCHANGED <<rounds, cost, limit, seed, bits, nonce, attempts>>
      /\ progress' = IF completed' = rounds THEN Searching(attempts)
                     ELSE Preparing(completed')
  BY DEF Prepare, input
<1>6. /\ progress' = Preparing(completed)' \/ progress' = Searching(attempts)'
      /\ progress'.state \in {"Preparing", "Searching"}
      /\ progress'.state = "Searching" => completed' = rounds'
  BY <1>5 DEF Preparing, Searching
<1>7. TypeOK'
  BY <1>3, <1>4, <1>5, <1>6 DEF SearchInv, TypeOK
<1>8. WorkblockExact'
  BY <1>4, <1>6 DEF WorkblockExact
<1>9. NonceFollows' /\ ScheduleIndependent'
  BY <1>1, <1>5, <1>6 DEF SearchInv, NonceFollows, ScheduleIndependent, Active, Meets
<1> QED BY <1>7, <1>8, <1>9 DEF SearchInv

(* What a slice of a search finds out: the nonces it tries are the next    *)
(* ones from the seed.                                                     *)
LEMMA SliceFacts ==
  ASSUME SearchInv, progress.state = "Searching", NEW a \in AttemptBudgets
  PROVE  /\ Slice(a) \in Nat /\ attempts + Slice(a) <= limit /\ limit < NonceSpace
         /\ \A i \in 0 .. Slice(a) :
              /\ Nth(nonce, i) = Nth(seed, attempts + i)
              /\ Nth(nonce, i) \in Nonces
         /\ \A i \in 0 .. Slice(a) - 1 :
              i \in HitsWithin(Slice(a)) <=> Meets(attempts + i)
<1>1. /\ attempts \in Nat /\ limit \in Nat /\ attempts <= limit /\ seed \in Nonces
      /\ limit < NonceSpace /\ NonceSpace \in Nat /\ a \in Nat
  BY DEF SearchInv, TypeOK
<1>2. nonce = Nth(seed, attempts)
  BY DEF SearchInv, NonceFollows
<1>3. Slice(a) \in Nat /\ attempts + Slice(a) <= limit
  BY <1>1 DEF Slice, Least
<1>4. \A i \in 0 .. Slice(a) :
        Nth(nonce, i) = Nth(seed, attempts + i) /\ Nth(nonce, i) \in Nonces
  <2> TAKE i \in 0 .. Slice(a)
  <2>1. i \in Nat /\ attempts + i \in Nat /\ attempts + i < NonceSpace
    BY <1>1, <1>3
  <2>2. Nth(nonce, i) = Nth(seed, attempts + i)
    BY <1>1, <1>2, <2>1, NthAdds
  <2>3. Nth(seed, attempts + i) \in Nonces
    BY <1>1, <2>1 DEF Nth, Nonces
  <2> QED BY <2>2, <2>3
<1>5. \A i \in 0 .. Slice(a) - 1 : i \in HitsWithin(Slice(a)) <=> Meets(attempts + i)
  BY <1>3, <1>4 DEF HitsWithin, Meets
<1> QED BY <1>1, <1>3, <1>4, <1>5

(* A slice that finds a stamp keeps the invariant.                         *)
LEMMA FindKeeps ==
  ASSUME SearchInv, NEW a \in AttemptBudgets, Find(a)
  PROVE  SearchInv'
<1>1. progress.state = "Searching" /\ UNCHANGED <<input, block>>
  BY DEF Find
<1>2. PICK i \in HitsWithin(Slice(a)) :
        /\ \A j \in HitsWithin(Slice(a)) : i <= j
        /\ attempts' = attempts + i + 1
        /\ nonce' = Nth(nonce, i)
        /\ progress' = Complete(nonce', bits[nonce'])
  BY DEF Find
<1>3. /\ Slice(a) \in Nat /\ attempts + Slice(a) <= limit /\ i \in 0 .. Slice(a) - 1
      /\ attempts \in Nat /\ limit \in Nat /\ seed \in Nonces
  BY <1>1, SliceFacts DEF HitsWithin, SearchInv, TypeOK
<1>4. nonce' = Nth(seed, attempts + i) /\ nonce' \in Nonces /\ Meets(attempts + i)
  BY <1>1, <1>2, <1>3, SliceFacts
<1>5. \A j \in 0 .. attempts + i - 1 : ~Meets(j)
  <2> TAKE j \in 0 .. attempts + i - 1
  <2>1. CASE j < attempts
    BY <1>1, <1>3, <2>1 DEF SearchInv, NonceFollows, Active
  <2>2. CASE j >= attempts
    <3>1. j - attempts \in 0 .. Slice(a) - 1 /\ j - attempts < i /\ attempts + (j - attempts) = j
      BY <1>3, <2>2
    <3>2. j - attempts \notin HitsWithin(Slice(a))
      BY <1>2, <3>1, <1>3
    <3> QED BY <1>1, <3>1, <3>2, SliceFacts
  <2> QED BY <1>3, <2>1, <2>2
<1>6. attempts' \in 1 .. limit /\ attempts' - 1 = attempts + i /\ attempts' - 2 = attempts + i - 1
  BY <1>2, <1>3
<1>7. UNCHANGED <<rounds, cost, limit, seed, bits, completed, prefix>> /\ cost # 0
  BY <1>1 DEF input, block, SearchInv, NonceFollows, Active
<1>8. TypeOK'
  BY <1>2, <1>4, <1>6, <1>7 DEF SearchInv, TypeOK
<1>9. /\ progress'.state = "Complete"
      /\ progress' = Complete(Nth(seed, attempts - 1), bits[Nth(seed, attempts - 1)])'
  BY <1>2, <1>4, <1>6, <1>7 DEF Complete, Nth
<1>10. WorkblockExact' /\ NonceFollows'
  BY <1>6, <1>7, <1>9 DEF SearchInv, WorkblockExact, NonceFollows, Active
<1>11. ScheduleIndependent'
  <2>1. Meets(attempts - 1)' /\ \A j \in 0 .. attempts' - 2 : ~Meets(j)'
    BY <1>4, <1>5, <1>6, <1>7 DEF Meets, Nth
  <2>2. attempts' >= 1
    BY <1>6
  <2> QED BY <1>9, <2>1, <2>2 DEF ScheduleIndependent, Complete, Nth, Meets
<1> QED BY <1>8, <1>10, <1>11 DEF SearchInv

(* A slice without a hit keeps the invariant.                              *)
LEMMA MissKeeps ==
  ASSUME SearchInv, NEW a \in AttemptBudgets, Miss(a)
  PROVE  SearchInv'
<1>1. /\ progress.state = "Searching" /\ UNCHANGED <<input, block>>
      /\ HitsWithin(Slice(a)) = {}
      /\ attempts' = attempts + Slice(a) /\ nonce' = Nth(nonce, Slice(a))
      /\ progress' = IF attempts' = limit THEN Exhausted ELSE Searching(attempts')
  BY DEF Miss, MissReport
<1>2. /\ Slice(a) \in Nat /\ attempts + Slice(a) <= limit
      /\ attempts \in Nat /\ limit \in Nat
  BY <1>1, SliceFacts DEF SearchInv, TypeOK
<1>3. UNCHANGED <<rounds, cost, limit, seed, bits, completed, prefix>> /\ cost # 0
  BY <1>1 DEF input, block, SearchInv, NonceFollows, Active
<1>4. nonce' = Nth(seed, attempts') /\ nonce' \in Nonces
  BY <1>1, <1>2, SliceFacts
<1>5. \A j \in 0 .. attempts' - 1 : ~Meets(j)
  <2> TAKE j \in 0 .. attempts' - 1
  <2>1. CASE j < attempts
    BY <1>1, <1>2, <2>1 DEF SearchInv, NonceFollows, Active
  <2>2. CASE j >= attempts
    <3>1. j - attempts \in 0 .. Slice(a) - 1 /\ attempts + (j - attempts) = j
      BY <1>1, <1>2, <2>2
    <3> QED BY <1>1, <3>1, SliceFacts
  <2> QED BY <1>1, <1>2, <2>1, <2>2
<1>6. attempts' \in 0 .. limit
  BY <1>1, <1>2
<1>7. \/ attempts' = limit /\ progress' = Exhausted
      \/ attempts' # limit /\ progress' = Searching(attempts')
  BY <1>1
<1>8. /\ progress'.state # "Complete"
      /\ progress'.state = "Exhausted" => attempts' = limit
      /\ progress'.state \in {"Preparing", "Searching"} => attempts' < limit
  BY <1>2, <1>6, <1>7 DEF Exhausted, Searching
<1>9. TypeOK'
  BY <1>3, <1>4, <1>6, <1>7 DEF SearchInv, TypeOK, Exhausted, Searching
<1>10. WorkblockExact'
  BY <1>1, <1>3 DEF SearchInv, WorkblockExact
<1>11. \A j \in 0 .. attempts' - 1 : ~Meets(j)'
  BY <1>3, <1>5 DEF Meets
<1>12. NonceFollows' /\ ScheduleIndependent'
  BY <1>3, <1>4, <1>8, <1>11 DEF NonceFollows, ScheduleIndependent, Active
<1> QED BY <1>9, <1>10, <1>12 DEF SearchInv

(* Cancelling an active search keeps the invariant.                        *)
LEMMA CancelKeeps ==
  ASSUME SearchInv, Cancel
  PROVE  SearchInv'
<1>1. /\ UNCHANGED <<rounds, cost, limit, seed, bits, completed, prefix, nonce, attempts>>
      /\ progress' = Cancelled /\ progress'.state = "Cancelled"
      /\ progress.state # "Complete"
  BY DEF Cancel, input, block, Cancelled, Active
<1> QED
  BY <1>1 DEF SearchInv, TypeOK, WorkblockExact, NonceFollows, ScheduleIndependent,
              Active, Meets, Cancelled

(* The strengthened invariant holds in every reachable state.              *)
LEMMA SearchInvariant == Spec => []SearchInv
<1>1. SearchInv /\ [Next]_vars => SearchInv'
  <2> SUFFICES ASSUME SearchInv, [Next]_vars
               PROVE  SearchInv'
    OBVIOUS
  <2>1. ASSUME NEW r \in RoundBudgets, NEW a \in AttemptBudgets, Step(r, a)
        PROVE  SearchInv'
    BY <2>1, PrepareKeeps, FindKeeps, MissKeeps DEF Step
  <2>2. CASE Cancel
    BY <2>2, CancelKeeps
  <2>3. CASE UNCHANGED vars
    BY <2>3 DEF vars, input, block, SearchInv, TypeOK, WorkblockExact, NonceFollows,
                ScheduleIndependent, Active, Meets, Preparing, Searching
  <2> QED BY <2>1, <2>2, <2>3 DEF Next, Settled
<1> QED BY <1>1, InitSearch, PTL DEF Spec

(* The counters stay in range, and what step() reports repeats them.       *)
THEOREM SearchTypes == Spec => []TypeOK
<1>1. SearchInv => TypeOK
  BY DEF SearchInv
<1> QED BY <1>1, SearchInvariant, PTL

(* No schedule of round budgets makes Workblock::advance repeat, skip or   *)
(* reorder a round, and no search starts before the last one.              *)
THEOREM WorkblockIsExact == Spec => []WorkblockExact
<1>1. SearchInv => WorkblockExact
  BY DEF SearchInv
<1> QED BY <1>1, SearchInvariant, PTL

(* A u16 round number packs to the shortest form that reads back as it.    *)
LEMMA PackRoundCanonical ==
  ASSUME NEW round \in 0 .. MaxRounds
  PROVE  ReadBack(PackRound(round)) = round /\ Shortest(PackRound(round))
<1>1. round \in Nat /\ round \div 256 <= 255
  <2>1. round \in Nat /\ round <= 65535
    BY SMTT(30) DEF MaxRounds
  <2>2. \A n \in Nat : n = 256 * (n \div 256) + (n % 256) /\ n % 256 \in Nat /\ n \div 256 \in Nat
    OBVIOUS
  <2> QED BY <2>1, <2>2, SMT
<1>2. CASE round <= 127
  BY <1>1, <1>2 DEF PackRound, ReadBack, Shortest
<1>3. CASE round > 127 /\ round <= 255
  BY <1>1, <1>3 DEF PackRound, ReadBack, Shortest
<1>4. CASE round > 255
  <2>1. /\ round \div 256 \in 1 .. 255 /\ round % 256 \in 0 .. 255
        /\ 256 * (round \div 256) + (round % 256) = round
    BY <1>1, <1>4
  <2>2. PackRound(round) = <<205, round \div 256, round % 256>>
    BY <1>1, <1>4 DEF PackRound
  <2> QED BY <2>1, <2>2 DEF ReadBack, Shortest
<1> QED BY <1>1, <1>2, <1>3, <1>4

(* Every HKDF chunk a workblock has absorbed was salted with its own round *)
(* number in canonical MessagePack, whatever the slices and the number of  *)
(* rounds: no two chunks of a search share a salt.                         *)
THEOREM SaltsAreCanonical == Spec => []SaltsCanonical
<1>1. SearchInv => SaltsCanonical
  <2> SUFFICES ASSUME SearchInv, NEW i \in DOMAIN prefix
               PROVE  ReadBack(prefix[i]) = i - 1 /\ Shortest(prefix[i])
    BY DEF SaltsCanonical
  <2>1. i \in 1 .. completed /\ completed \in 0 .. rounds /\ rounds \in 0 .. MaxRounds
    BY RoundsFitU16 DEF SearchInv, TypeOK
  <2>2. i - 1 \in 0 .. MaxRounds
    <3>1. MaxRounds \in Nat
      BY SMT DEF MaxRounds
    <3> QED BY <2>1, <3>1
  <2>3. prefix[i] = PackRound(i - 1)
    BY <2>1 DEF SearchInv, WorkblockExact
  <2> QED BY <2>2, <2>3, PackRoundCanonical
<1> QED BY <1>1, SearchInvariant, PTL

(* No schedule of attempt budgets changes which stamp StampSearch::step    *)
(* reports, nor whether it reports exhaustion.                             *)
THEOREM ScheduleDoesNotMatter == Spec => []ScheduleIndependent
<1>1. SearchInv => ScheduleIndependent
  BY DEF SearchInv
<1> QED BY <1>1, SearchInvariant, PTL

-----------------------------------------------------------------------------
(* A search that settles by itself takes the promise's Settle step: its    *)
(* answer is the one the inductive invariant describes after the step.     *)
LEMMA AnswerSettles ==
  ASSUME SearchInv, SearchInv', Active, UNCHANGED input,
         progress'.state \in {"Complete", "Exhausted"}
  PROVE  Promise!Settle
<1> DEFINE shown == IF Active THEN [state |-> "Pending"] ELSE progress
<1>1. /\ UNCHANGED <<rounds, cost, limit, seed, bits>> /\ cost # 0
      /\ cost' # 0 /\ limit \in Nat
  BY DEF input, SearchInv, TypeOK, NonceFollows, Active
<1>2. shown = [state |-> "Pending"] /\ shown' = progress'
  BY DEF Active
<1>3. CASE progress'.state = "Complete"
  <2>1. /\ attempts' \in 1 .. limit /\ bits[Nth(seed, attempts' - 1)] >= cost
        /\ progress' = [state |-> "Complete", stamp |-> Nth(seed, attempts' - 1),
                        value |-> bits[Nth(seed, attempts' - 1)]]
        /\ \A i \in 0 .. attempts' - 2 : ~(bits[Nth(seed, i)] >= cost)
    BY <1>1, <1>3 DEF SearchInv, ScheduleIndependent, NonceFollows, Meets, Complete, Nth
  <2>2. PICK k \in 0 .. limit - 1 : k = attempts' - 1
    BY <1>1, <2>1, LastAttempt
  <2>3. /\ bits[Nth(seed, k)] >= cost
        /\ progress' = [state |-> "Complete", stamp |-> Nth(seed, k), value |-> bits[Nth(seed, k)]]
        /\ \A i \in 0 .. k - 1 : ~(bits[Nth(seed, i)] >= cost)
    <3>1. k - 1 = attempts' - 2
      BY <1>1, <2>1, <2>2
    <3> QED BY <2>1, <2>2, <3>1
  <2>4. Promise!FoundAnswer
    BY <1>2, <2>2, <2>3
       DEF Promise!FoundAnswer, Promise!FirstHit, Promise!Hit, Promise!Nth,
           Promise!Complete, Nth
  <2> QED BY <1>1, <1>2, <2>4 DEF Promise!Settle, Promise!Pending, Promise!input
<1>4. CASE progress'.state = "Exhausted"
  <2>1. progress' = Exhausted
    BY <1>4 DEF SearchInv, TypeOK, Preparing, Searching, Complete, Cancelled, Exhausted
  <2>2. \A i \in 0 .. limit - 1 : ~(bits[Nth(seed, i)] >= cost)
    BY <1>1, <1>4 DEF SearchInv, ScheduleIndependent, Meets, Nth
  <2>3. Promise!NoAnswer
    BY <1>2, <2>1, <2>2
       DEF Promise!NoAnswer, Promise!Hit, Promise!Nth, Promise!Exhausted, Exhausted, Nth
  <2> QED BY <1>1, <1>2, <2>3 DEF Promise!Settle, Promise!Pending, Promise!input
<1> QED BY <1>3, <1>4

(* With the slices hidden a search is one choice between settling with the *)
(* answer its inputs determine and being cancelled: StampSearch implements *)
(* StampPromise.                                                           *)
THEOREM SearchKeepsPromise == Spec => KeepsPromise
<1> DEFINE shown == IF Active THEN [state |-> "Pending"] ELSE progress
           Step_ == Promise!PromiseNext \/ UNCHANGED <<Promise!input, shown>>
<1>1. Init => Promise!PromiseInit
  BY DEF Init, Active, Complete, Exhausted, Preparing, Promise!PromiseInit,
         Promise!Complete, Promise!Exhausted, Promise!Pending
<1>2. SearchInv /\ SearchInv' /\ [Next]_vars => Step_
  <2> SUFFICES ASSUME SearchInv, SearchInv', [Next]_vars
               PROVE  Step_
    OBVIOUS
  <2>1. ASSUME NEW r \in RoundBudgets, NEW a \in AttemptBudgets, Step(r, a)
        PROVE  Step_
    <3>1. Active /\ UNCHANGED input
      BY <2>1 DEF Step, Prepare, Find, Miss, Active
    <3>2. CASE progress'.state \in {"Complete", "Exhausted"}
      BY <3>1, <3>2, AnswerSettles DEF Promise!PromiseNext
    <3>3. CASE progress'.state \notin {"Complete", "Exhausted"}
      <4>1. progress'.state \in {"Preparing", "Searching"}
        BY <2>1, <3>3 DEF Step, Prepare, Find, Miss, MissReport, Preparing, Searching, Complete, Exhausted
      <4>2. UNCHANGED <<Promise!input, shown>>
        BY <3>1, <4>1 DEF Active, input, Promise!input
      <4> QED BY <4>2
    <3> QED BY <3>2, <3>3
  <2>2. CASE Cancel
    <3>1. /\ shown = [state |-> "Pending"] /\ shown' = Cancelled
          /\ UNCHANGED <<rounds, cost, limit, seed, bits>>
      BY <2>2 DEF Cancel, Active, Cancelled, input
    <3> QED BY <3>1 DEF Promise!PromiseNext, Promise!GiveUp, Promise!Pending,
                        Promise!Cancelled, Promise!input, Cancelled
  <2>3. CASE UNCHANGED vars
    BY <2>3 DEF vars, input, Active, Promise!input
  <2> QED BY <2>1, <2>2, <2>3 DEF Next, Settled
<1> QED BY <1>1, <1>2, SearchInvariant, PTL DEF Spec, KeepsPromise, Promise!PromiseSpec

-----------------------------------------------------------------------------
(* The carry loop over the bytes of a nonce, for every base and width.     *)
ByteStrings == [1 .. Width -> 0 .. Base - 1]

(* What the first i bytes of a nonce stand for, and how many such numbers  *)
(* there are.                                                              *)
Reads(f, n) ==
  f = [i \in 0 .. Width |-> IF i = 0 THEN 0 ELSE f[i - 1] * Base + n[i]]
Powers(p) ==
  p = [i \in 0 .. Width |-> IF i = 0 THEN 1 ELSE p[i - 1] * Base]

(* Each is tabulated from its first value.                                 *)
Tabulates(g, first, step) ==
  g = [i \in 0 .. Width |-> IF i = 0 THEN first ELSE step[i - 1][g[i - 1]]]
LEMMA TableExists ==
  ASSUME Width \in Nat, NEW first \in Nat, NEW step \in [Nat -> [Nat -> Nat]]
  PROVE  \E g \in [0 .. Width -> Nat] : Tabulates(g, first, step)
<1>1. PICK g \in [0 .. Width -> Nat] : Begins(g, Width, first, step)
  BY BeginningExists
<1>2. ASSUME NEW i \in 0 .. Width
      PROVE  g[i] = IF i = 0 THEN first ELSE step[i - 1][g[i - 1]]
  <2>1. CASE i = 0
    BY <1>1, <2>1 DEF Begins
  <2>2. CASE i # 0
    <3>1. i - 1 \in Nat /\ i - 1 < Width /\ (i - 1) + 1 = i
      BY <2>2
    <3>2. g[(i - 1) + 1] = step[i - 1][g[i - 1]]
      BY <1>1, <3>1 DEF Begins
    <3> QED BY <2>2, <3>1, <3>2
  <2> QED BY <2>1, <2>2
<1> QED BY <1>1, <1>2 DEF Tabulates

LEMMA NumberIsRead ==
  ASSUME NEW n \in ByteStrings
  PROVE  \E f : Reads(f, n) /\ Number(n) = f[Width]
<1> DEFINE step == [i \in Nat |-> [v \in Nat |-> IF i + 1 \in 1 .. Width THEN v * Base + n[i + 1] ELSE 0]]
<1>1. Width \in Nat /\ Base \in Nat /\ \A i \in 1 .. Width : n[i] \in Nat
  BY CounterAssumption DEF ByteStrings
<1>2. step \in [Nat -> [Nat -> Nat]]
  <2>1. ASSUME NEW i \in Nat, NEW v \in Nat, i + 1 \in 1 .. Width
        PROVE  v * Base + n[i + 1] \in Nat
    BY <1>1, <2>1
  <2> QED BY <2>1
<1>3. PICK g \in [0 .. Width -> Nat] : Tabulates(g, 0, step)
  <2> HIDE DEF step
  <2>1. 0 \in Nat
    OBVIOUS
  <2> QED BY <1>1, <1>2, <2>1, TableExists, Zenon
<1>4. Reads(g, n)
  <2>1. ASSUME NEW i \in 0 .. Width
        PROVE  g[i] = IF i = 0 THEN 0 ELSE g[i - 1] * Base + n[i]
    <3>1. CASE i = 0
      BY <1>3, <3>1 DEF Tabulates
    <3>2. CASE i # 0
      <4>1. i - 1 \in Nat /\ (i - 1) + 1 = i /\ i \in 1 .. Width /\ i - 1 \in 0 .. Width
        BY <1>1, <3>2
      <4>2. g[i] = step[i - 1][g[i - 1]] /\ g[i - 1] \in Nat
        BY <1>3, <3>2, <4>1 DEF Tabulates
      <4> QED BY <4>1, <4>2, <3>2
    <3> QED BY <3>1, <3>2
  <2> HIDE DEF step
  <2> QED BY <1>3, <2>1 DEF Tabulates, Reads
<1>5. Number(n) = (CHOOSE f : Reads(f, n))[Width]
  BY DEF Number, Reads
<1>6. Reads(CHOOSE f : Reads(f, n), n)
  BY <1>4, Zenon
<1> QED BY <1>5, <1>6, Zenon

LEMMA SpaceIsPower ==
  \E p : Powers(p) /\ Space = p[Width]
<1> DEFINE step == [i \in Nat |-> [v \in Nat |-> v * Base]]
<1>1. Width \in Nat /\ Base \in Nat
  BY CounterAssumption
<1>2. step \in [Nat -> [Nat -> Nat]]
  BY <1>1
<1>3. PICK g \in [0 .. Width -> Nat] : Tabulates(g, 1, step)
  <2> HIDE DEF step
  <2>1. 1 \in Nat
    OBVIOUS
  <2> QED BY <1>1, <1>2, <2>1, TableExists, Zenon
<1>4. Powers(g)
  <2>1. ASSUME NEW i \in 0 .. Width
        PROVE  g[i] = IF i = 0 THEN 1 ELSE g[i - 1] * Base
    <3>1. CASE i = 0
      BY <1>3, <3>1 DEF Tabulates
    <3>2. CASE i # 0
      <4>1. i - 1 \in Nat /\ i - 1 \in 0 .. Width
        BY <1>1, <3>2
      <4>2. g[i] = step[i - 1][g[i - 1]] /\ g[i - 1] \in Nat
        BY <1>3, <3>2, <4>1 DEF Tabulates
      <4> QED BY <4>1, <4>2, <3>2
    <3> QED BY <3>1, <3>2
  <2> HIDE DEF step
  <2> QED BY <1>3, <2>1 DEF Tabulates, Powers
<1>5. Space = (CHOOSE p : Powers(p))[Width]
  BY DEF Space, Powers
<1>6. Powers(CHOOSE p : Powers(p))
  BY <1>4, Zenon
<1> QED BY <1>5, <1>6, Zenon

(* One digit more.                                                         *)
LEMMA DigitFits ==
  ASSUME NEW b \in Nat \ {0}, NEW v \in Nat, NEW p \in Nat, v < p, NEW d \in 0 .. b - 1
  PROVE  v * b + d \in Nat /\ v * b + d < p * b
<1>1. v * b + b <= p * b
  <2>1. PICK k \in Nat : p = v + 1 + k
    <3>1. p - v - 1 \in Nat /\ p = v + 1 + (p - v - 1)
      OBVIOUS
    <3> QED BY <3>1
  <2>2. p * b = v * b + b + k * b
    BY <2>1
  <2>3. k * b \in Nat /\ v * b \in Nat
    OBVIOUS
  <2> QED BY <2>2, <2>3
<1>2. v * b \in Nat /\ p * b \in Nat
  OBVIOUS
<1> QED BY <1>1, <1>2

LEMMA ReadingBounded ==
  ASSUME NEW n \in ByteStrings, NEW f, Reads(f, n), NEW p, Powers(p)
  PROVE  \A i \in 0 .. Width : p[i] \in Nat /\ f[i] \in Nat /\ f[i] < p[i]
<1> DEFINE T == {i \in Nat : i <= Width => p[i] \in Nat /\ f[i] \in Nat /\ f[i] < p[i]}
<1>1. Width \in Nat /\ Base \in Nat \ {0} /\ \A i \in 1 .. Width : n[i] \in 0 .. Base - 1
  BY CounterAssumption DEF ByteStrings
<1>2. 0 \in T
  BY <1>1 DEF Reads, Powers
<1>3. ASSUME NEW i \in Nat, i \in T
      PROVE  i + 1 \in T
  <2> SUFFICES ASSUME i + 1 <= Width
               PROVE  p[i + 1] \in Nat /\ f[i + 1] \in Nat /\ f[i + 1] < p[i + 1]
    OBVIOUS
  <2>1. p[i] \in Nat /\ f[i] \in Nat /\ f[i] < p[i] /\ i + 1 \in 0 .. Width /\ i + 1 \in 1 .. Width
    BY <1>1, <1>3
  <2>2. p[i + 1] = p[i] * Base /\ f[i + 1] = f[i] * Base + n[i + 1]
    <3>1. i + 1 # 0 /\ (i + 1) - 1 = i
      BY <1>3
    <3>2. p[i + 1] = p[i] * Base
      BY <2>1, <3>1 DEF Powers
    <3> QED BY <2>1, <3>1, <3>2 DEF Reads
  <2>3. n[i + 1] \in 0 .. Base - 1
    BY <1>1, <2>1
  <2>4. p[i] * Base \in Nat
    BY <1>1, <2>1
  <2> QED BY <1>1, <2>1, <2>2, <2>3, <2>4, DigitFits
<1> HIDE DEF T
<1>4. Nat \subseteq T
  BY <1>2, <1>3, SetInduction
<1> QED BY <1>1, <1>4 DEF T

(* The carry starts at one byte: bytes before it stay, bytes after it are  *)
(* all of the highest value and wrap, and it wraps itself only where it is *)
(* the first.                                                              *)
LEMMA CarryStarts ==
  ASSUME NEW n \in ByteStrings
  PROVE  /\ Increment(n) \in ByteStrings
         /\ \E k \in 1 .. Width :
              /\ \A i \in 1 .. Width : i < k => Increment(n)[i] = n[i]
              /\ \A i \in 1 .. Width : i > k => n[i] = Base - 1 /\ Increment(n)[i] = 0
              /\ \/ Increment(n)[k] = n[k] + 1
                 \/ (k = 1 /\ n[k] = Base - 1 /\ Increment(n)[k] = 0)
<1> DEFINE touched == {i \in 1 .. Width : \A j \in i + 1 .. Width : n[j] = Base - 1}
           m       == Increment(n)
<1>1. /\ Width \in Nat \ {0} /\ Base \in Nat \ {0, 1}
      /\ DOMAIN n = 1 .. Width /\ \A i \in 1 .. Width : n[i] \in 0 .. Base - 1
  BY CounterAssumption DEF ByteStrings
<1>2. m = [i \in 1 .. Width |-> IF i \in touched THEN (n[i] + 1) % Base ELSE n[i]]
  BY DEF Increment
<1> HIDE DEF m
<1>3. ASSUME NEW d \in 0 .. Base - 1
      PROVE  /\ d = Base - 1 => (d + 1) % Base = 0
             /\ d # Base - 1 => (d + 1) % Base = d + 1
  <2>1. ASSUME NEW x \in Nat, x < Base PROVE x % Base = x
    BY <1>1, <2>1
  <2>2. Base % Base = 0
    BY <1>1
  <2>3. CASE d = Base - 1
    <3>1. d + 1 = Base
      BY <1>1, <2>3
    <3> QED BY <2>2, <2>3, <3>1
  <2>4. CASE d # Base - 1
    <3>1. d + 1 \in Nat /\ d + 1 < Base
      BY <1>1, <2>4
    <3> QED BY <2>1, <2>4, <3>1
  <2> QED BY <2>3, <2>4
<1>4. m \in ByteStrings
  <2>1. ASSUME NEW i \in 1 .. Width PROVE m[i] \in 0 .. Base - 1
    <3>1. n[i] \in 0 .. Base - 1
      BY <1>1
    <3>2. (n[i] + 1) % Base \in 0 .. Base - 1
      BY <1>1, <1>3, <3>1
    <3> QED BY <1>2, <3>1, <3>2
  <2>2. m \in [1 .. Width -> 0 .. Base - 1]
    BY <1>2, <2>1
  <2> QED BY <2>2 DEF ByteStrings
<1>5. Width \in touched /\ touched \subseteq Nat
  BY <1>1
<1>6. PICK k \in touched : \A i \in touched : k <= i
  BY <1>5, LeastOf
<1>7. k \in 1 .. Width /\ \A i \in 1 .. Width : i > k => n[i] = Base - 1
  BY <1>1, <1>6
<1>8. \A i \in 1 .. Width : i >= k => i \in touched
  BY <1>1, <1>7
<1>9. ASSUME NEW i \in 1 .. Width, i < k PROVE m[i] = n[i]
  <2>1. i \notin touched
    BY <1>5, <1>6, <1>7, <1>9
  <2> QED BY <1>2, <2>1
<1>10. ASSUME NEW i \in 1 .. Width, i > k PROVE n[i] = Base - 1 /\ m[i] = 0
  <2>1. n[i] = Base - 1 /\ m[i] = (n[i] + 1) % Base
    BY <1>1, <1>2, <1>7, <1>8, <1>10
  <2> QED BY <1>1, <1>3, <2>1
<1>11. m[k] = n[k] + 1 \/ (k = 1 /\ n[k] = Base - 1 /\ m[k] = 0)
  <2>1. m[k] = (n[k] + 1) % Base /\ n[k] \in 0 .. Base - 1
    BY <1>1, <1>2, <1>6, <1>7
  <2>2. CASE n[k] # Base - 1
    BY <1>3, <2>1, <2>2
  <2>3. CASE n[k] = Base - 1
    <3>1. k = 1
      <4> SUFFICES ASSUME k # 1 PROVE FALSE
        OBVIOUS
      <4>1. k - 1 \in 1 .. Width /\ (k - 1) + 1 = k
        BY <1>1, <1>7
      <4>2. \A j \in (k - 1) + 1 .. Width : n[j] = Base - 1
        BY <1>1, <1>7, <2>3, <4>1
      <4>3. k - 1 \in touched
        BY <4>1, <4>2
      <4> QED BY <1>6, <1>7, <4>1, <4>3
    <3> QED BY <1>3, <2>1, <2>3, <3>1
  <2> QED BY <2>2, <2>3
<1> HIDE DEF touched
<1> QED BY <1>4, <1>7, <1>9, <1>10, <1>11 DEF m

(* The loop adds one to the number the bytes stand for, and wraps only     *)
(* from the last number to the first.                                      *)
LEMMA CarryAddsOne ==
  ASSUME NEW n \in ByteStrings
  PROVE  /\ Space \in Nat /\ Number(n) \in Nat
         /\ Number(n) < Space
         /\ Number(Increment(n))
              = IF Number(n) + 1 = Space THEN 0 ELSE Number(n) + 1
<1> DEFINE m == Increment(n)
<1>1. /\ Width \in Nat \ {0} /\ Base \in Nat \ {0, 1}
      /\ \A i \in 1 .. Width : n[i] \in 0 .. Base - 1
  BY CounterAssumption DEF ByteStrings
<1>2. PICK k \in 1 .. Width :
        /\ \A i \in 1 .. Width : i < k => m[i] = n[i]
        /\ \A i \in 1 .. Width : i > k => n[i] = Base - 1 /\ m[i] = 0
        /\ m[k] = n[k] + 1 \/ (k = 1 /\ n[k] = Base - 1 /\ m[k] = 0)
  BY CarryStarts
<1>3. m \in ByteStrings
  BY CarryStarts
<1> HIDE DEF m
<1>4. PICK p : Powers(p) /\ Space = p[Width]
  BY SpaceIsPower
<1>5. PICK f : Reads(f, n) /\ Number(n) = f[Width]
  BY NumberIsRead
<1>6. PICK g : Reads(g, m) /\ Number(m) = g[Width]
  BY <1>3, NumberIsRead
<1>7. /\ \A i \in 0 .. Width : p[i] \in Nat /\ f[i] \in Nat /\ f[i] < p[i]
      /\ \A i \in 0 .. Width : g[i] \in Nat /\ g[i] < p[i]
  BY <1>3, <1>4, <1>5, <1>6, ReadingBounded
<1>8. /\ f[0] = 0 /\ g[0] = 0 /\ p[0] = 1
      /\ \A i \in Nat : i < Width => /\ p[i + 1] = p[i] * Base
                                     /\ f[i + 1] = f[i] * Base + n[i + 1]
                                     /\ g[i + 1] = g[i] * Base + m[i + 1]
  BY <1>1, <1>4, <1>5, <1>6 DEF Reads, Powers
<1> DEFINE Carried(i) == IF i < k THEN g[i] = f[i]
                         ELSE g[i] = f[i] + 1 \/ (f[i] + 1 = p[i] /\ g[i] = 0)
           T == {i \in Nat : i <= Width => Carried(i)}
<1>9. 0 \in T
  BY <1>2, <1>8
<1>10. ASSUME NEW i \in Nat, i \in T
       PROVE  i + 1 \in T
  <2> SUFFICES ASSUME i + 1 <= Width
               PROVE  Carried(i + 1)
    OBVIOUS
  <2>1. /\ p[i + 1] = p[i] * Base /\ f[i + 1] = f[i] * Base + n[i + 1]
        /\ g[i + 1] = g[i] * Base + m[i + 1]
        /\ i + 1 \in 1 .. Width /\ i < Width /\ Carried(i)
        /\ p[i] \in Nat /\ f[i] \in Nat /\ g[i] \in Nat
        /\ n[i + 1] \in 0 .. Base - 1
    BY <1>1, <1>7, <1>8, <1>10
  <2>2. CASE i + 1 < k
    BY <1>1, <1>2, <2>1, <2>2
  <2>3. CASE i + 1 = k
    <3>1. g[i] = f[i]
      BY <1>2, <2>1, <2>3
    <3>2. CASE m[k] = n[k] + 1
      <4>1. g[i + 1] = f[i + 1] + 1
        <5>1. f[i] * Base \in Int
          BY <1>1, <2>1
        <5> QED BY <2>1, <2>3, <3>1, <3>2, <5>1
      <4> QED BY <1>2, <2>3, <4>1
    <3>3. CASE k = 1 /\ n[k] = Base - 1 /\ m[k] = 0
      <4>1. i = 0
        BY <2>3, <3>3
      <4>2. f[1] = 0 * Base + (Base - 1) /\ g[1] = 0 * Base + 0 /\ p[1] = 1 * Base
        BY <1>8, <2>1, <2>3, <3>3, <4>1
      <4>3. f[1] + 1 = p[1] /\ g[1] = 0
        BY <1>1, <4>2
      <4> QED BY <3>3, <4>1, <4>3
    <3> QED BY <1>2, <3>2, <3>3
  <2>4. CASE i + 1 > k
    <3>1. n[i + 1] = Base - 1 /\ m[i + 1] = 0 /\ ~ (i < k) /\ ~ (i + 1 < k)
      BY <1>2, <2>1, <2>4
    <3>2. f[i + 1] + 1 = (f[i] + 1) * Base /\ g[i + 1] = g[i] * Base
      <4>1. f[i] * Base \in Int /\ g[i] * Base \in Int /\ (f[i] + 1) * Base = f[i] * Base + Base
        BY <1>1, <2>1
      <4>2. f[i + 1] = f[i] * Base + (Base - 1) /\ g[i + 1] = g[i] * Base + 0
        BY <2>1, <3>1
      <4> HIDE DEF T, Carried
      <4> QED BY <1>1, <4>1, <4>2
    <3>3. CASE g[i] = f[i] + 1
      BY <3>1, <3>2, <3>3
    <3>4. CASE f[i] + 1 = p[i] /\ g[i] = 0
      BY <1>1, <2>1, <3>1, <3>2, <3>4
    <3> QED BY <2>1, <3>1, <3>3, <3>4
  <2> QED BY <1>2, <2>1, <2>2, <2>3, <2>4
<1> HIDE DEF T
<1>11. Nat \subseteq T
  BY <1>9, <1>10, SetInduction
<1>12. Carried(Width)
  BY <1>1, <1>11 DEF T
<1>13. /\ Space \in Nat /\ Number(n) \in Nat /\ Number(n) < Space
       /\ Number(m) < Space
  BY <1>1, <1>4, <1>5, <1>6, <1>7
<1>14. Number(m) = IF Number(n) + 1 = Space THEN 0 ELSE Number(n) + 1
  BY <1>1, <1>2, <1>4, <1>5, <1>6, <1>12, <1>13
<1> QED BY <1>13, <1>14 DEF m

(* So counting the bytes is what StampSearch takes the next nonce to be.   *)
THEOREM CarryIsNextNonce ==
  ASSUME NonceSpace = Space, NEW n \in ByteStrings
  PROVE  Number(Increment(n)) = Nth(Number(n), 1)
<1> DEFINE v == Number(n)
           w == Space
<1>1. /\ w \in Nat /\ v \in Nat /\ v < w
      /\ Number(Increment(n)) = IF v + 1 = w THEN 0 ELSE v + 1
  BY CarryAddsOne
<1>2. Nth(v, 1) = IF v + 1 < w THEN v + 1 ELSE v + 1 - w
  BY DEF Nth
<1> HIDE DEF v, w
<1>3. Nth(v, 1) = IF v + 1 = w THEN 0 ELSE v + 1
  BY <1>1, <1>2
<1> QED BY <1>1, <1>3 DEF v

(* The carry loop counts: successive attempts never repeat a nonce before  *)
(* all of them were visited, for every width and every base.               *)
THEOREM NoncesCountUp ==
  CounterSpec => CountsUp
<1> DEFINE NonceInv == counter \in ByteStrings
           Counted  == Number(counter') = (Number(counter) + 1) % Space
<1>1. CounterInit => NonceInv
  BY DEF CounterInit, ByteStrings
<1>2. NonceInv /\ [CounterNext]_counter => NonceInv'
  <2> SUFFICES ASSUME NonceInv, [CounterNext]_counter PROVE NonceInv'
    OBVIOUS
  <2>1. CASE CounterNext
    BY <2>1, CarryStarts DEF CounterNext
  <2>2. CASE UNCHANGED counter
    BY <2>2
  <2> QED BY <2>1, <2>2
<1>3. NonceInv /\ CounterNext => Counted
  <2> SUFFICES ASSUME NonceInv, CounterNext PROVE Counted
    OBVIOUS
  <2> DEFINE v == Number(counter)
             w == Space
  <2>1. /\ w \in Nat /\ v \in Nat /\ v < w
        /\ Number(counter') = IF v + 1 = w THEN 0 ELSE v + 1
    BY CarryAddsOne DEF CounterNext
  <2> HIDE DEF v, w
  <2>2. w # 0 /\ w % w = 0 /\ (v + 1 < w => (v + 1) % w = v + 1)
    BY <2>1
  <2> QED BY <2>1, <2>2 DEF v, w
<1>4. NonceInv /\ [CounterNext]_counter => [Counted]_counter
  BY <1>3
<1> QED BY <1>1, <1>2, <1>4, PTL DEF CounterSpec, CountsUp
=============================================================================

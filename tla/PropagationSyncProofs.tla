----------------------- MODULE PropagationSyncProofs ------------------------
(***************************************************************************)
(* Collecting mail loses none and takes no late answer for another, proved *)
(* for every set of entries, ring, limit and number of faults.             *)
(***************************************************************************)
EXTENDS PropagationSync, FiniteSetTheorems, TLAPS

(* Induction and recursion on the natural numbers, as Lemmas proves them;  *)
(* its lemmas about MessagePack, and their limits, play no part.           *)
Rec == INSTANCE Lemmas WITH MaxDepth <- 0, MaxFields <- 0

(* What makes NothingLost inductive: whatever a purge under way, or about  *)
(* to be asked for, names is stored.                                       *)
PurgesStored ==
  /\ \A r \in requests : \A e \in Entries :
       TransientId(e) \in r.call.haves => Stored(e)
  /\ goal.kind = "purge" => \A e \in Entries : TransientId(e) = goal.id => Stored(e)
LossInv == arrived \subseteq Entries /\ NothingLost /\ PurgesStored

(* Hashing tells entries apart.                                            *)
LEMMA IdsTellApart ==
  ASSUME NEW e, NEW f, TransientId(e) = TransientId(f)
  PROVE  e = f
<1>1. TransientId(e).hash = e /\ TransientId(f).hash = f
  BY DEF TransientId
<1> QED BY <1>1

(* Nothing but an arrival, a served request and a stored message concerns  *)
(* LossInv.                                                                *)
LEMMA QuietKeeps ==
  ASSUME LossInv, UNCHANGED <<node, arrived, inbox>>,
         requests' \subseteq requests, goal' = goal \/ goal'.kind # "purge"
  PROVE  LossInv'
BY DEF LossInv, NothingLost, PurgesStored, Stored

(* A request asks to delete only when the goal is a purge.                 *)
LEMMA AskKeeps ==
  ASSUME LossInv, Ask
  PROVE  LossInv'
<1> DEFINE call == BuildGetRequest(goal, Limit)
           asking == [id |-> asked', call |-> call, goal |-> goal]
<1>1. /\ UNCHANGED <<node, arrived, inbox, goal>>
      /\ requests' = requests \cup {asking} /\ call.error = "ok"
  BY DEF Ask
<1>2. call.haves = IF goal.kind = "purge" THEN {goal.id} ELSE {}
  BY <1>1 DEF BuildGetRequest, Error
<1>3. \A e \in Entries : TransientId(e) \in call.haves => Stored(e)
  BY <1>2 DEF LossInv, PurgesStored
<1>4. \A r \in requests' : \A e \in Entries : TransientId(e) \in r.call.haves => Stored(e)
  <2>1. asking.call = call
    OBVIOUS
  <2> HIDE DEF call
  <2> QED BY <1>1, <1>3, <2>1 DEF LossInv, PurgesStored
<1> QED BY <1>1, <1>4 DEF LossInv, NothingLost, PurgesStored, Stored

(* The node deletes only what a request names.                             *)
LEMMA ServeKeeps ==
  ASSUME LossInv, NEW r \in requests, NEW refused \in BOOLEAN, Serve(r, refused)
  PROVE  LossInv'
<1>1. /\ UNCHANGED <<arrived, inbox, goal>> /\ requests' \subseteq requests
      /\ \A e \in node : TransientId(e) \notin r.call.haves => e \in node'
  BY DEF Serve
<1>2. \A e \in arrived : e \in node' \/ Stored(e)
  BY <1>1 DEF LossInv, NothingLost, PurgesStored
<1> QED BY <1>1, <1>2 DEF LossInv, NothingLost, PurgesStored, Stored

(* What is collected carries the ID and the message of one same entry.     *)
LEMMA CollectedIsOneEntry ==
  ASSUME NEW items, NEW d \in Collected(items), NEW e, TransientId(e) = d.id
  PROVE  Len(d.plain) = Whole /\ e.plain = d.plain
<1>1. PICK item : d = DecryptMessage(item, Ring) /\ d.error = "ok" /\ Len(d.plain) = Whole
  BY DEF Collected
<1>2. d.plain = item.of.plain /\ d.id = TransientId(item.of)
  BY <1>1 DEF DecryptMessage, Error
<1> QED BY <1>1, <1>2, IdsTellApart

(* The host asks to purge a message in the step that stores it.            *)
LEMMA TakeMessageKeeps ==
  ASSUME LossInv, NEW r \in responses, NEW broken \in BOOLEAN, TakeMessage(r, broken)
  PROVE  LossInv'
<1> DEFINE good == Collected(ResponseData(r, asked).items)
<1>1. UNCHANGED <<node, arrived, requests>>
  BY DEF TakeMessage, Awaited
<1>2. CASE good = {} \/ broken
  <2>1. goal' = List /\ UNCHANGED inbox
    BY <1>2 DEF TakeMessage
  <2> QED BY <1>1, <2>1, QuietKeeps DEF List
<1>3. CASE ~(good = {} \/ broken)
  <2> DEFINE d == CHOOSE c \in good : TRUE
  <2>1. inbox' = inbox \cup {View(c.plain) : c \in good} /\ goal' = Purge(d.id)
    BY <1>3 DEF TakeMessage
  <2>2. d \in good
    BY <1>3
  <2> HIDE DEF d
  <2>3. \A e \in Entries : TransientId(e) = d.id => Stored(e)'
    BY <2>1, <2>2, CollectedIsOneEntry DEF Stored
  <2>4. goal'.id = d.id
    BY <2>1 DEF Purge
  <2>5. \A e \in Entries : Stored(e) => Stored(e)'
    BY <2>1 DEF Stored
  <2> QED BY <1>1, <2>3, <2>4, <2>5 DEF LossInv, NothingLost, PurgesStored
<1> QED BY <1>2, <1>3

(* Every step keeps LossInv ...                                            *)
LEMMA LossStep ==
  ASSUME LossInv, [Next]_vars
  PROVE  LossInv'
<1>1. ASSUME NEW e \in Entries, Arrive(e)
      PROVE  LossInv'
  BY <1>1 DEF Arrive, LossInv, NothingLost, PurgesStored, Stored
<1>2. CASE Ask
  BY <1>2, AskKeeps
<1>3. CASE Restart
  BY <1>3, QuietKeeps DEF Restart, List
<1>4. ASSUME NEW r \in requests, NEW refused \in BOOLEAN, Serve(r, refused)
      PROVE  LossInv'
  BY <1>4, ServeKeeps
<1>5. ASSUME NEW m \in requests \cup responses, Lose(m)
      PROVE  LossInv'
  BY <1>5, QuietKeeps DEF Lose
<1>6. ASSUME NEW r \in responses, Ignore(r) \/ TakeList(r) \/ TakeDone(r)
      PROVE  LossInv'
  <2>1. CASE Ignore(r)
    BY <2>1, QuietKeeps DEF Ignore
  <2>2. CASE TakeList(r)
    <3>1. goal' = goal \/ \E id : goal' = Fetch(id)
      BY <2>2 DEF TakeList
    <3> QED BY <2>2, <3>1, QuietKeeps DEF TakeList, Awaited, Fetch
  <2>3. CASE TakeDone(r)
    BY <2>3, QuietKeeps DEF TakeDone, Awaited, List
  <2> QED BY <1>6, <2>1, <2>2, <2>3
<1>7. ASSUME NEW r \in responses, NEW broken \in BOOLEAN, TakeMessage(r, broken)
      PROVE  LossInv'
  BY <1>7, TakeMessageKeeps
<1>8. ASSUME NEW early \in BOOLEAN, TimeOut(early)
      PROVE  LossInv'
  BY <1>8, QuietKeeps DEF TimeOut, List
<1>9. CASE UNCHANGED vars
  BY <1>9, QuietKeeps DEF vars
<1> QED BY <1>1, <1>2, <1>3, <1>4, <1>5, <1>6, <1>7, <1>8, <1>9 DEF Next

(* ... so LossInv holds in every reachable state.                          *)
LEMMA LossInvariant == Spec => []LossInv
<1>1. Init => LossInv
  BY DEF Init, LossInv, NothingLost, PurgesStored, List
<1> QED BY <1>1, LossStep, PTL DEF Spec

(* Every entry that has left the node is stored, whatever is lost, late or *)
(* interrupted: Fetch and Purge are separate requests, and the purge names *)
(* the entry that was decrypted.                                           *)
THEOREM NoMailIsLost == Spec => []NothingLost
<1>1. LossInv => NothingLost
  BY DEF LossInv
<1> QED BY <1>1, LossInvariant, PTL

-----------------------------------------------------------------------------
(* A message with the awaited ID belongs to the present question.          *)
AskedGoal ==
  asked # 0 => \A m \in requests \cup responses : m.id = asked => m.goal = goal

LEMMA AskedGoalStep ==
  ASSUME AskedGoal, [Next]_vars
  PROVE  AskedGoal'
<1>1. ASSUME NEW e \in Entries, Arrive(e)
      PROVE  AskedGoal'
  BY <1>1 DEF Arrive, AskedGoal
<1>2. CASE Ask
  <2> DEFINE free == (1 .. MaxInFlight) \ InFlight
             asking == [id |-> asked', call |-> BuildGetRequest(goal, Limit), goal |-> goal]
  <2>1. free # {} /\ asked' = (CHOOSE i \in free : TRUE)
    BY <1>2 DEF Ask
  <2>2. asked' \notin InFlight
    BY <2>1
  <2>3. requests' = requests \cup {asking} /\ UNCHANGED <<responses, goal>>
    BY <1>2 DEF Ask
  <2>4. asking.goal = goal
    OBVIOUS
  <2> QED BY <2>2, <2>3, <2>4 DEF AskedGoal, InFlight
<1>3. CASE Restart
  BY <1>3 DEF Restart, AskedGoal
<1>4. ASSUME NEW r \in requests, NEW refused \in BOOLEAN, Serve(r, refused)
      PROVE  AskedGoal'
  <2>1. PICK items : responses' = responses \cup {[id |-> r.id, items |-> items, goal |-> r.goal]}
    BY <1>4 DEF Serve
  <2>2. requests' \subseteq requests /\ UNCHANGED <<goal, asked>>
    BY <1>4 DEF Serve
  <2> QED BY <2>1, <2>2 DEF AskedGoal
<1>5. ASSUME NEW m \in requests \cup responses, Lose(m)
      PROVE  AskedGoal'
  BY <1>5 DEF Lose, AskedGoal
<1>6. ASSUME NEW r \in responses, Ignore(r)
      PROVE  AskedGoal'
  BY <1>6 DEF Ignore, AskedGoal
<1>7. ASSUME NEW r \in responses, NEW kind, Awaited(r, kind)
      PROVE  AskedGoal'
  BY <1>7 DEF Awaited, AskedGoal
<1>8. ASSUME NEW early \in BOOLEAN, TimeOut(early)
      PROVE  AskedGoal'
  BY <1>8 DEF TimeOut, AskedGoal
<1>9. CASE UNCHANGED vars
  BY <1>9 DEF vars, AskedGoal
<1> QED BY <1>1, <1>2, <1>3, <1>4, <1>5, <1>6, <1>7, <1>8, <1>9
        DEF Next, TakeList, TakeMessage, TakeDone

(* The step that stops waiting on hearing a response.                      *)
LEMMA HeardIsAwaited ==
  ASSUME [Next]_vars, NEW r \in responses \ responses', asked # 0, asked' = 0
  PROVE  r.id = asked
<1>1. ASSUME NEW s \in responses, NEW kind, Awaited(s, kind)
      PROVE  r.id = asked
  <2>1. s = r /\ ResponseData(r, asked).error = "ok"
    BY <1>1 DEF Awaited
  <2> QED BY <2>1 DEF ResponseData, Error
<1>2. ASSUME NEW s \in requests, NEW refused \in BOOLEAN, Serve(s, refused)
      PROVE  FALSE
  BY <1>2 DEF Serve
<1> QED
  BY <1>1, <1>2 DEF Next, Arrive, Ask, Restart, Lose, Ignore, TakeList, TakeDone,
                    TakeMessage, TimeOut, vars

(* A late answer is never taken for the answer to a later question, because*)
(* response_data compares the request ID.                                  *)
THEOREM NoAnswerIsMistaken == Spec => AnswersTheQuestion
<1>1. Init => AskedGoal
  BY DEF Init, AskedGoal
<1>2. AskedGoal /\ [Next]_vars => AskedGoal'
  BY AskedGoalStep
<1>3. AskedGoal /\ [Next]_vars =>
        [\A r \in responses \ responses' : (asked # 0 /\ asked' = 0) => r.goal = goal]_vars
  BY HeardIsAwaited DEF AskedGoal
<1> QED BY <1>1, <1>2, <1>3, PTL DEF Spec, AnswersTheQuestion

-----------------------------------------------------------------------------
(* What an item of a response may be: an ID or an entry that has been at   *)
(* the node, an entry only within the limit of a fetch.                    *)
ItemsFrom(mail) ==
  {NoBlob} \cup {IdItem(e) : e \in mail} \cup {EntryItem(e) : e \in {f \in mail : f.size <= Limit}}

(* What makes TypeOK inductive: a fetch is under way only from a position  *)
(* of the list, whose lists are no longer than the mail; requests repeat   *)
(* the limit and delete no more than one entry, a legible one.             *)
OrderOK == order \in Seq(Entries)
GoalOK ==
  /\ goal.kind = "fetch" => index < Len(order)
  /\ goal.kind = "purge" => \E e \in Legible : goal.id = TransientId(e)
RequestsOK ==
  \A r \in requests :
    /\ r.call.limit = Limit
    /\ r.call.haves = {} \/ \E e \in Legible : r.call.haves = {TransientId(e)}
ResponsesOK ==
  \A r \in responses :
    /\ r.items \in Seq(ItemsFrom(arrived))
    /\ (\A i \in DOMAIN r.items : r.items[i].blob = "id") => Len(r.items) <= Len(order)
SyncInv == TypeOK /\ OrderOK /\ GoalOK /\ RequestsOK /\ ResponsesOK

(* The function by which Listed is computed exists, so Listed is what its  *)
(* recursion says: a sequence of held entries, no longer than the mail.    *)
LEMMA ListedHeld ==
  ASSUME OrderOK, NEW held
  PROVE  Listed(held) \in Seq(held) /\ Len(Listed(held)) <= Len(order)
<1> DEFINE n == Len(order)
           Rule(f) == f = [i \in 0 .. n |->
                             IF i = 0 THEN <<>>
                             ELSE IF order[i] \in held THEN Append(f[i - 1], order[i])
                             ELSE f[i - 1]]
           list == CHOOSE f : Rule(f)
           step == [i \in Nat |-> [s \in Seq(held) |->
                      IF order[i + 1] \in held THEN Append(s, order[i + 1]) ELSE s]]
<1>1. n \in Nat
  BY DEF OrderOK
<1>2. Listed(held) = list[n]
  BY DEF Listed
<1>3. \E f : Rule(f)
  <2>1. <<>> \in Seq(held) /\ step \in [Nat -> [Seq(held) -> Seq(held)]]
    OBVIOUS
  <2>2. PICK f \in [Nat -> Seq(held)] :
          f[0] = <<>> /\ \A i \in Nat : f[i + 1] = step[i][f[i]]
    <3> DEFINE S == Seq(held)
               none == <<>>
    <3>1. none \in S /\ step \in [Nat -> [S -> S]]
      BY <2>1
    <3> HIDE DEF step, S, none
    <3>2. \E f : Rec!Recurs(f, S, none, step)
      BY <3>1, Rec!NatRecursion, Zenon
    <3> QED BY <3>2 DEF S, none, Rec!Recurs
  <2>3. \A i \in Nat : f[i + 1] = IF order[i + 1] \in held THEN Append(f[i], order[i + 1]) ELSE f[i]
    BY <2>2
  <2> DEFINE g == [i \in 0 .. n |-> f[i]]
  <2>4. \A i \in 1 .. n : g[i] = IF order[i] \in held THEN Append(g[i - 1], order[i]) ELSE g[i - 1]
    <3> SUFFICES ASSUME NEW i \in 1 .. n
                 PROVE  g[i] = IF order[i] \in held THEN Append(g[i - 1], order[i]) ELSE g[i - 1]
      OBVIOUS
    <3>1. i - 1 \in Nat /\ i - 1 \in 0 .. n /\ i \in 0 .. n /\ (i - 1) + 1 = i
      BY <1>1
    <3> QED BY <2>3, <3>1
  <2>5. g[0] = <<>>
    BY <1>1, <2>2
  <2>6. Rule(g)
    <3>1. \A i \in 0 .. n : i = 0 \/ i \in 1 .. n
      BY <1>1
    <3>2. g = [i \in 0 .. n |-> g[i]]
      OBVIOUS
    <3> HIDE DEF g
    <3> QED BY <2>4, <2>5, <3>1, <3>2
  <2> QED BY <2>6
<1>4. Rule(list)
  BY <1>3
<1> HIDE DEF list
<1> DEFINE T == {i \in Nat : i <= n => list[i] \in Seq(held) /\ Len(list[i]) <= i}
<1>5. 0 \in T
  BY <1>1, <1>4
<1>6. ASSUME NEW i \in Nat, i \in T
      PROVE  i + 1 \in T
  <2> SUFFICES ASSUME i + 1 <= n
               PROVE  list[i + 1] \in Seq(held) /\ Len(list[i + 1]) <= i + 1
    OBVIOUS
  <2>1. list[i] \in Seq(held) /\ Len(list[i]) <= i
    BY <1>1, <1>6
  <2>2. list[i + 1] = IF order[i + 1] \in held THEN Append(list[i], order[i + 1]) ELSE list[i]
    <3>1. i + 1 \in 0 .. n /\ i + 1 # 0 /\ (i + 1) - 1 = i
      BY <1>1
    <3> QED BY <1>4, <3>1
  <2> QED BY <2>1, <2>2
<1> HIDE DEF T
<1>7. n \in T
  BY <1>1, <1>5, <1>6, Rec!SetInduction
<1> QED BY <1>1, <1>2, <1>7 DEF T

(* Trying keys opens an entry only with its own: the attempts with others  *)
(* leave the one buffer as it was.                                         *)
LEMMA OpenedByItsKey ==
  ASSUME NEW e \in Entries, NEW K, NEW keys \in Seq(K), AfterTrying(e, keys).key = "open"
  PROVE  \E i \in 1 .. Len(keys) : keys[i] = e.key
<1> DEFINE n == Len(keys)
           Rule(f) == f = [i \in 0 .. n |->
                             IF i = 0 THEN e
                             ELSE IF f[i - 1].key = "open" THEN f[i - 1]
                             ELSE TryInPlace(f[i - 1], keys[i])]
           after == CHOOSE f : Rule(f)
           open == [e EXCEPT !.key = "open"]
<1>1. n \in Nat /\ e.key # "open" /\ open.key = "open"
  BY SyncAssumption DEF Entries
<1>2. AfterTrying(e, keys) = after[n]
  BY DEF AfterTrying
<1>3. \E f : Rule(f)
  <2> DEFINE g == [i \in 0 .. n |-> IF \E j \in 1 .. i : keys[j] = e.key THEN open ELSE e]
  <2> HIDE DEF open
  <2>1. g[0] = e
    BY <1>1
  <2>2. ASSUME NEW i \in 1 .. n
        PROVE  g[i] = IF g[i - 1].key = "open" THEN g[i - 1] ELSE TryInPlace(g[i - 1], keys[i])
    <3>1. i \in 0 .. n /\ i - 1 \in 0 .. n
      BY <1>1
    <3>2. CASE \E j \in 1 .. i - 1 : keys[j] = e.key
      <4>1. g[i - 1] = open /\ g[i] = open
        BY <1>1, <3>1, <3>2
      <4> QED BY <1>1, <4>1
    <3>3. CASE ~ \E j \in 1 .. i - 1 : keys[j] = e.key
      <4>1. g[i - 1] = e
        BY <3>1, <3>3
      <4>2. g[i] = IF keys[i] = e.key THEN open ELSE e
        <5>1. (\E j \in 1 .. i : keys[j] = e.key) <=> keys[i] = e.key
          BY <1>1, <3>3
        <5> QED BY <3>1, <5>1
      <4> HIDE DEF g
      <4> QED BY <1>1, <4>1, <4>2 DEF TryInPlace, open
    <3> QED BY <3>2, <3>3
  <2>3. g = [i \in 0 .. n |-> g[i]]
    OBVIOUS
  <2>4. \A i \in 0 .. n : i = 0 \/ i \in 1 .. n
    BY <1>1
  <2> HIDE DEF g
  <2> QED BY <2>1, <2>2, <2>3, <2>4
<1>4. Rule(after)
  BY <1>3
<1> HIDE DEF after
<1> SUFFICES ASSUME \A i \in 1 .. n : keys[i] # e.key
             PROVE  FALSE
  OBVIOUS
<1> DEFINE T == {i \in Nat : i <= n => after[i] = e}
<1>5. 0 \in T
  BY <1>1, <1>4
<1>6. ASSUME NEW i \in Nat, i \in T
      PROVE  i + 1 \in T
  <2> SUFFICES ASSUME i + 1 <= n
               PROVE  after[i + 1] = e
    OBVIOUS
  <2>1. after[i] = e /\ i + 1 \in 0 .. n /\ i + 1 # 0 /\ (i + 1) - 1 = i /\ i + 1 \in 1 .. n
    BY <1>1, <1>6
  <2>2. after[i + 1] = IF after[i].key = "open" THEN after[i] ELSE TryInPlace(after[i], keys[i + 1])
    BY <1>4, <2>1
  <2> QED BY <1>1, <2>1, <2>2 DEF TryInPlace
<1> HIDE DEF T
<1>7. n \in T
  BY <1>1, <1>5, <1>6, Rec!SetInduction
<1> QED BY <1>1, <1>2, <1>7 DEF T

(* What the host stores is a legible entry's message, with that entry's ID.*)
LEMMA CollectedIsLegible ==
  ASSUME arrived \subseteq Entries, NEW items \in Seq(ItemsFrom(arrived)),
         NEW d \in Collected(items)
  PROVE  \E e \in Legible \cap arrived : d.id = TransientId(e) /\ d.plain = e.plain
<1>1. /\ FetchedMessage(items).error = "ok"
      /\ \E item \in FetchedMessage(items).found : d = DecryptMessage(item, Ring)
      /\ d.error = "ok" /\ Len(d.plain) = Whole /\ Validate(d.plain, d.plain[1]) = "ok"
  BY DEF Collected
<1>2. PICK item \in FetchedMessage(items).found : d = DecryptMessage(item, Ring)
  BY <1>1
<1>3. ~(Len(items) > 1 \/ (Len(items) = 1 /\ items[1] = NoBlob))
  BY <1>1 DEF FetchedMessage, Error
<1>4. PICK i \in DOMAIN items : item = items[i]
  BY <1>2, <1>3 DEF FetchedMessage
<1>5. item \in ItemsFrom(arrived) /\ item # NoBlob
  BY <1>3, <1>4
<1>6. item.blob # "id"
  BY <1>1, <1>2 DEF DecryptMessage, Error
<1>7. PICK e \in arrived : item = EntryItem(e) /\ e.size <= Limit
  BY <1>5, <1>6 DEF ItemsFrom, IdItem
<1>8. item.of = e
  BY <1>7 DEF EntryItem
<1>9. /\ e.dest = Me /\ AfterTrying(e, Append(Ring, Base)).key = "open"
      /\ d.plain = e.plain /\ d.id = TransientId(e)
  BY <1>1, <1>2, <1>6, <1>8 DEF DecryptMessage, Error
<1>10. e.key \in {Base} \cup {Ring[j] : j \in DOMAIN Ring}
  <2> DEFINE K == ToSet(Ring) \cup {Base}
             keys == Append(Ring, Base)
  <2>1. Ring \in Seq(K) /\ keys \in Seq(K)
    BY SyncAssumption
  <2>2. PICK j \in 1 .. Len(keys) : keys[j] = e.key
    BY <1>9, <2>1, OpenedByItsKey
  <2> QED BY <2>1, <2>2
<1>11. e \in Legible
  BY <1>1, <1>7, <1>9, <1>10 DEF Legible
<1> QED BY <1>9, <1>11

(* The mail, in some order.                                                *)
LEMMA InitSync == Init => SyncInv
<1> SUFFICES ASSUME Init PROVE SyncInv
  OBVIOUS
<1>1. PICK mail \in Mails : order \in SetToSeqs(mail)
  BY DEF Init
<1>2. IsFiniteSet(mail) /\ mail \subseteq Entries
  BY SyncAssumption DEF Entries
<1>3. Cardinality(mail) \in Nat
  BY <1>2, FS_CardinalityType
<1>4. order \in [1 .. Cardinality(mail) -> mail]
  BY <1>1 DEF SetToSeqs
<1>5. OrderOK /\ Len(order) \in Nat
  BY <1>2, <1>3, <1>4 DEF OrderOK
<1>6. TypeOK
  BY <1>5, SyncAssumption DEF Init, TypeOK, List
<1> QED BY <1>5, <1>6 DEF Init, SyncInv, GoalOK, RequestsOK, ResponsesOK, List

(* Steps after which the host asks nothing new and has heard nothing new.  *)
LEMMA QuietSync ==
  ASSUME SyncInv, UNCHANGED <<order, node, arrived, inbox>>,
         requests' \subseteq requests, responses' \subseteq responses,
         goal' = goal \/ goal' = List, asked' = asked \/ asked' = 0,
         index' = index \/ (index' = 0 /\ goal'.kind # "fetch"),
         faults' \in 0 .. MaxFaults
  PROVE  SyncInv'
<1>1. OrderOK' /\ Len(order) \in Nat
  BY DEF SyncInv, OrderOK
<1>2. goal'.kind # "list" => goal' = goal
  BY DEF List
<1>3. GoalOK'
  BY <1>2 DEF SyncInv, GoalOK, List
<1>4. RequestsOK' /\ ResponsesOK'
  BY DEF SyncInv, RequestsOK, ResponsesOK
<1>5. TypeOK'
  <2>1. /\ node' \subseteq arrived' /\ arrived' \subseteq ToSet(order')
        /\ \A m \in requests' : m.id \in 1 .. MaxInFlight /\ m.call.error = "ok"
        /\ \A m \in responses' : m.id \in 1 .. MaxInFlight
        /\ inbox' \subseteq {View(e.plain) : e \in Legible}
    BY DEF SyncInv, TypeOK
  <2>2. /\ goal'.kind \in {"list", "fetch", "purge"}
        /\ goal'.kind # "list" => goal'.id \in {TransientId(e) : e \in arrived'}
    BY <1>2 DEF SyncInv, TypeOK
  <2>3. asked' \in 0 .. MaxInFlight /\ index' \in 0 .. Len(order')
    BY <1>1, SyncAssumption DEF SyncInv, TypeOK
  <2> QED BY <2>1, <2>2, <2>3 DEF TypeOK
<1> QED BY <1>1, <1>3, <1>4, <1>5 DEF SyncInv

(* More mail allows more answers.                                          *)
LEMMA ArriveSync ==
  ASSUME SyncInv, NEW e \in Entries, Arrive(e)
  PROVE  SyncInv'
<1>1. /\ UNCHANGED <<order, requests, responses, goal, asked, index, inbox, faults>>
      /\ node' = node \cup {e} /\ arrived' = arrived \cup {e} /\ e \in ToSet(order)
  BY DEF Arrive
<1>2. ItemsFrom(arrived) \subseteq ItemsFrom(arrived')
  BY <1>1 DEF ItemsFrom
<1>3. ResponsesOK'
  <2>1. \A items \in Seq(ItemsFrom(arrived)) : items \in Seq(ItemsFrom(arrived'))
    BY <1>2
  <2> QED BY <1>1, <2>1 DEF SyncInv, ResponsesOK
<1>4. TypeOK'
  BY <1>1 DEF SyncInv, TypeOK
<1> QED BY <1>1, <1>3, <1>4 DEF SyncInv, OrderOK, GoalOK, RequestsOK

(* A request carries the limit, and deletes at most the goal.              *)
LEMMA AskSync ==
  ASSUME SyncInv, Ask
  PROVE  SyncInv'
<1> DEFINE call == BuildGetRequest(goal, Limit)
           asking == [id |-> asked', call |-> call, goal |-> goal]
           free == (1 .. MaxInFlight) \ InFlight
<1>1. /\ UNCHANGED <<order, node, arrived, responses, goal, index, inbox, faults>>
      /\ requests' = requests \cup {asking} /\ call.error = "ok"
      /\ asked' = (CHOOSE i \in free : TRUE) /\ free # {}
  BY DEF Ask
<1>2. asked' \in 1 .. MaxInFlight
  BY <1>1
<1>3. /\ call.limit = Limit
      /\ call.haves = {} \/ \E e \in Legible : call.haves = {TransientId(e)}
  BY <1>1 DEF BuildGetRequest, Error, SyncInv, GoalOK
<1>4. asking.id = asked' /\ asking.call = call
  OBVIOUS
<1> HIDE DEF asking, call, free
<1>5. RequestsOK'
  BY <1>1, <1>3, <1>4 DEF SyncInv, RequestsOK
<1>6. asked' \in 0 .. MaxInFlight
  BY <1>2, SyncAssumption
<1>7. TypeOK'
  BY <1>1, <1>2, <1>4, <1>6 DEF SyncInv, TypeOK
<1> QED BY <1>1, <1>5, <1>7 DEF SyncInv, OrderOK, GoalOK, ResponsesOK

(* The node answers from its mail, within the request's limit.             *)
LEMMA ServeSync ==
  ASSUME SyncInv, NEW r \in requests, NEW refused \in BOOLEAN, Serve(r, refused)
  PROVE  SyncInv'
<1> DEFINE left   == {e \in node : TransientId(e) \notin r.call.haves}
           wanted == {e \in left : TransientId(e) \in r.call.wants /\ e.size <= r.call.limit}
           lst    == Listed(left)
           fet    == Listed(wanted)
           items  == IF refused THEN <<NoBlob>>
                     ELSE IF r.call.lists THEN [i \in DOMAIN lst |-> IdItem(lst[i])]
                     ELSE [i \in DOMAIN fet |-> EntryItem(fet[i])]
           answer == [id |-> r.id, items |-> items, goal |-> r.goal]
<1>1. /\ UNCHANGED <<order, arrived, goal, asked, index, inbox>>
      /\ requests' \subseteq requests /\ node' \subseteq node
      /\ responses' = responses \cup {answer}
      /\ faults' \in 0 .. MaxFaults
  <2>1. faults' \in 0 .. MaxFaults
    BY SyncAssumption DEF Serve, Goes, MayFail, SyncInv, TypeOK
  <2> QED BY <2>1 DEF Serve
<1>2. node \subseteq arrived /\ OrderOK /\ Len(order) \in Nat /\ r.call.limit = Limit
  BY DEF SyncInv, TypeOK, RequestsOK, OrderOK
<1>3. /\ lst \in Seq(left) /\ Len(lst) <= Len(order)
      /\ fet \in Seq(wanted)
  BY <1>2, ListedHeld
<1> HIDE DEF lst, fet
<1>4. /\ items \in Seq(ItemsFrom(arrived))
      /\ (\A i \in DOMAIN items : items[i].blob = "id") => Len(items) <= Len(order)
  <2>1. CASE refused
    <3>1. items = <<NoBlob>> /\ NoBlob \in ItemsFrom(arrived)
      BY <2>1 DEF ItemsFrom
    <3>2. items[1].blob # "id" /\ 1 \in DOMAIN items
      BY <3>1 DEF NoBlob
    <3>3. items \in Seq(ItemsFrom(arrived))
      <4> HIDE DEF items
      <4> QED BY <3>1
    <3> HIDE DEF items
    <3> QED BY <3>2, <3>3
  <2>2. CASE ~refused /\ r.call.lists
    <3>1. items = [i \in DOMAIN lst |-> IdItem(lst[i])]
      BY <2>2
    <3>2. \A i \in DOMAIN lst : IdItem(lst[i]) \in ItemsFrom(arrived)
      BY <1>2, <1>3 DEF ItemsFrom
    <3> HIDE DEF items
    <3> QED BY <1>3, <3>1, <3>2
  <2>3. CASE ~refused /\ ~r.call.lists
    <3>1. items = [i \in DOMAIN fet |-> EntryItem(fet[i])]
      BY <2>3
    <3>2. \A i \in DOMAIN fet : EntryItem(fet[i]) \in ItemsFrom(arrived)
      BY <1>2, <1>3 DEF ItemsFrom
    <3>3. items \in Seq(ItemsFrom(arrived))
      <4> HIDE DEF items
      <4> QED BY <1>3, <3>1, <3>2
    <3>4. \A i \in DOMAIN items : items[i].blob # "id"
      BY <3>1 DEF EntryItem
    <3> HIDE DEF items
    <3>5. Len(items) = 0 \/ 1 \in DOMAIN items
      BY <3>3
    <3> QED BY <1>2, <3>3, <3>4, <3>5
  <2> QED BY <2>1, <2>2, <2>3
<1>5. answer.id = r.id /\ answer.items = items
  OBVIOUS
<1> HIDE DEF items, answer
<1>6. ResponsesOK'
  BY <1>1, <1>4, <1>5 DEF SyncInv, ResponsesOK
<1>7. TypeOK'
  BY <1>1, <1>5 DEF SyncInv, TypeOK
<1> QED BY <1>1, <1>6, <1>7 DEF SyncInv, OrderOK, GoalOK, RequestsOK

(* The host goes on to fetch only what a list named, at a position in it.  *)
LEMMA TakeListSync ==
  ASSUME SyncInv, NEW r \in responses, TakeList(r)
  PROVE  SyncInv'
<1> DEFINE items == ResponseData(r, asked).items
           call  == AvailableAt(items, index)
<1>1. /\ UNCHANGED <<order, node, arrived, requests, inbox, faults>>
      /\ responses' \subseteq responses /\ asked' = 0 /\ goal.kind = "list"
      /\ ResponseData(r, asked).error = "ok"
  BY DEF TakeList, Awaited
<1>2. faults' \in 0 .. MaxFaults
  BY <1>1 DEF SyncInv, TypeOK
<1>3. CASE goal' = goal /\ (index' = index \/ index' = 0)
  BY <1>1, <1>2, <1>3, QuietSync
<1>4. CASE /\ call.error = "ok" /\ call.found # {}
           /\ goal' = Fetch(CHOOSE id \in call.found : TRUE) /\ UNCHANGED index
  <2>1. items = r.items
    BY <1>1 DEF ResponseData, Error
  <2>2. /\ items \in Seq(ItemsFrom(arrived)) /\ index \in Nat /\ Len(order) \in Nat
    BY <2>1 DEF SyncInv, ResponsesOK, TypeOK, OrderOK
  <2>3. /\ \A i \in DOMAIN items : items[i].blob = "id"
        /\ index < Len(items) /\ call.found = {TransientId(items[index + 1].of)}
    <3> HIDE DEF items
    <3> QED BY <1>4 DEF AvailableAt, Error
  <2>4. index < Len(order)
    BY <2>1, <2>2, <2>3 DEF SyncInv, ResponsesOK
  <2>5. PICK e \in arrived : items[index + 1] = IdItem(e) \/ items[index + 1] = EntryItem(e)
    <3>1. index + 1 \in DOMAIN items
      BY <2>2, <2>3
    <3>2. items[index + 1] \in ItemsFrom(arrived) /\ items[index + 1].blob = "id"
      BY <2>2, <2>3, <3>1
    <3> QED BY <3>2 DEF ItemsFrom, NoBlob
  <2>6. items[index + 1].of = e
    BY <2>5 DEF IdItem, EntryItem
  <2>7. goal' = Fetch(TransientId(e))
    BY <1>4, <2>3, <2>6
  <2>8. goal'.kind = "fetch" /\ goal'.id = TransientId(e)
    BY <2>7 DEF Fetch
  <2>9. TypeOK'
    <3>1. asked' \in 0 .. MaxInFlight /\ goal'.id \in {TransientId(f) : f \in arrived}
      BY <1>1, <2>8, SyncAssumption
    <3>2. index' = index
      BY <1>4
    <3> QED BY <1>1, <1>2, <2>8, <3>1, <3>2 DEF SyncInv, TypeOK
  <2>10. GoalOK'
    BY <1>1, <1>4, <2>4, <2>8 DEF GoalOK
  <2> QED BY <1>1, <2>9, <2>10 DEF SyncInv, OrderOK, RequestsOK, ResponsesOK
<1> QED BY <1>1, <1>3, <1>4 DEF TakeList

(* The host stores and asks to purge only legible messages.                *)
LEMMA TakeMessageSync ==
  ASSUME SyncInv, NEW r \in responses, NEW broken \in BOOLEAN, TakeMessage(r, broken)
  PROVE  SyncInv'
<1> DEFINE items == ResponseData(r, asked).items
           good  == Collected(items)
<1>1. /\ UNCHANGED <<order, node, arrived, requests>>
      /\ responses' \subseteq responses /\ asked' = 0 /\ goal.kind = "fetch"
      /\ ResponseData(r, asked).error = "ok"
  BY DEF TakeMessage, Awaited
<1>2. faults' \in 0 .. MaxFaults
  BY SyncAssumption DEF TakeMessage, Goes, MayFail, SyncInv, TypeOK
<1>3. /\ index < Len(order) /\ index \in 0 .. Len(order) /\ Len(order) \in Nat
      /\ arrived \subseteq Entries
  BY <1>1 DEF SyncInv, GoalOK, TypeOK, OrderOK, ToSet
<1>4. CASE good = {} \/ broken
  <2>1. index' = index + 1 /\ goal' = List /\ UNCHANGED inbox
    BY <1>4 DEF TakeMessage
  <2>2. index' \in 0 .. Len(order') /\ goal'.kind = "list"
    BY <1>1, <1>3, <2>1 DEF List
  <2>3. TypeOK'
    BY <1>1, <1>2, <2>1, <2>2, SyncAssumption DEF SyncInv, TypeOK
  <2> QED BY <1>1, <2>2, <2>3 DEF SyncInv, OrderOK, GoalOK, RequestsOK, ResponsesOK
<1>5. CASE ~(good = {} \/ broken)
  <2> DEFINE c == CHOOSE d \in good : TRUE
  <2>1. /\ inbox' = inbox \cup {View(d.plain) : d \in good}
        /\ goal' = Purge(c.id) /\ UNCHANGED index
    BY <1>5 DEF TakeMessage
  <2>2. c \in good
    BY <1>5
  <2> HIDE DEF c
  <2>3. items \in Seq(ItemsFrom(arrived))
    BY <1>1 DEF ResponseData, Error, SyncInv, ResponsesOK
  <2>4. \A d \in good : \E e \in Legible \cap arrived : d.id = TransientId(e) /\ d.plain = e.plain
    BY <1>3, <2>3, CollectedIsLegible
  <2> HIDE DEF good
  <2>5. goal'.kind = "purge" /\ goal'.id = c.id
    BY <2>1 DEF Purge
  <2>6. inbox' \subseteq {View(e.plain) : e \in Legible}
    BY <2>1, <2>4 DEF SyncInv, TypeOK
  <2>7. TypeOK'
    BY <1>1, <1>2, <2>1, <2>2, <2>4, <2>5, <2>6, SyncAssumption DEF SyncInv, TypeOK
  <2>8. GoalOK'
    BY <2>2, <2>4, <2>5 DEF GoalOK
  <2> QED BY <1>1, <2>7, <2>8 DEF SyncInv, OrderOK, RequestsOK, ResponsesOK
<1> QED BY <1>4, <1>5

(* Every step keeps the invariant ...                                      *)
LEMMA SyncStep ==
  ASSUME SyncInv, [Next]_vars
  PROVE  SyncInv'
<1>1. faults \in 0 .. MaxFaults /\ MaxFaults \in Nat
  BY SyncAssumption DEF SyncInv, TypeOK
<1>2. ASSUME NEW e \in Entries, Arrive(e)
      PROVE  SyncInv'
  BY <1>2, ArriveSync
<1>3. CASE Ask
  BY <1>3, AskSync
<1>4. CASE Restart
  BY <1>1, <1>4, QuietSync DEF Restart, Goes, MayFail, List
<1>5. ASSUME NEW r \in requests, NEW refused \in BOOLEAN, Serve(r, refused)
      PROVE  SyncInv'
  BY <1>5, ServeSync
<1>6. ASSUME NEW m \in requests \cup responses, Lose(m)
      PROVE  SyncInv'
  BY <1>1, <1>6, QuietSync DEF Lose, Goes, MayFail
<1>7. ASSUME NEW r \in responses, Ignore(r)
      PROVE  SyncInv'
  BY <1>1, <1>7, QuietSync DEF Ignore
<1>8. ASSUME NEW r \in responses, TakeList(r)
      PROVE  SyncInv'
  BY <1>8, TakeListSync
<1>9. ASSUME NEW r \in responses, TakeDone(r)
      PROVE  SyncInv'
  BY <1>1, <1>9, QuietSync DEF TakeDone, Awaited
<1>10. ASSUME NEW r \in responses, NEW broken \in BOOLEAN, TakeMessage(r, broken)
       PROVE  SyncInv'
  BY <1>10, TakeMessageSync
<1>11. ASSUME NEW early \in BOOLEAN, TimeOut(early)
       PROVE  SyncInv'
  BY <1>1, <1>11, QuietSync DEF TimeOut, Goes, MayFail
<1>12. CASE UNCHANGED vars
  BY <1>1, <1>12, QuietSync DEF vars
<1> QED BY <1>2, <1>3, <1>4, <1>5, <1>6, <1>7, <1>8, <1>9, <1>10, <1>11, <1>12 DEF Next

(* ... which holds in every reachable state.                               *)
LEMMA SyncInvariant == Spec => []SyncInv
BY InitSync, SyncStep, PTL DEF Spec

(* The host waits for one answer at most, looks for messages only within   *)
(* the list, asks for and purges only what has been at the node, and       *)
(* stores only what is legible, whatever is lost, late or refused.         *)
THEOREM SyncTypes == Spec => []TypeOK
<1>1. SyncInv => TypeOK
  BY DEF SyncInv
<1> QED BY <1>1, SyncInvariant, PTL

-----------------------------------------------------------------------------
(* What the mailbox calls the message of a legible entry.                  *)
MessageIn == [e \in Legible |-> View(e.plain)]

(* A served purge removes a stored message's entry, any other request none.*)
LEMMA ServeRemoves ==
  ASSUME SyncInv, LossInv, NEW r \in requests, NEW refused \in BOOLEAN, Serve(r, refused)
  PROVE  (\E e \in Legible : Promise!Remove(e)) \/ UNCHANGED <<node, inbox>>
<1> DEFINE left == {e \in node : TransientId(e) \notin r.call.haves}
<1>1. UNCHANGED inbox /\ (node' = left \/ node' = node)
  BY DEF Serve
<1>2. node \subseteq Entries
  BY DEF SyncInv, TypeOK, LossInv
<1>3. CASE left = node
  BY <1>1, <1>3
<1>4. CASE left # node /\ node' = left
  <2>1. PICK e \in node : TransientId(e) \in r.call.haves
    BY <1>4
  <2>2. PICK f \in Legible : r.call.haves = {TransientId(f)}
    BY <2>1 DEF SyncInv, RequestsOK
  <2>3. e = f
    BY <2>1, <2>2, IdsTellApart
  <2>4. left = node \ {e}
    BY <2>1, <2>2, <2>3, IdsTellApart
  <2>5. MessageIn[e] \in inbox
    BY <1>2, <2>1, <2>2, <2>3 DEF LossInv, PurgesStored, Stored, MessageIn
  <2> QED BY <1>1, <1>4, <2>1, <2>2, <2>3, <2>4, <2>5 DEF Promise!Remove, MessageIn
<1> QED BY <1>1, <1>3, <1>4

(* Storing a message that is new to the inbox keeps the message of an entry*)
(* that is still at the node.                                              *)
LEMMA TakeMessageStores ==
  ASSUME SyncInv, LossInv, NEW r \in responses, NEW broken \in BOOLEAN, TakeMessage(r, broken)
  PROVE  (\E e \in Legible : Promise!Keep(e)) \/ UNCHANGED <<node, inbox>>
<1> DEFINE items == ResponseData(r, asked).items
           good  == Collected(items)
<1>1. UNCHANGED node /\ ResponseData(r, asked).error = "ok"
  BY DEF TakeMessage, Awaited
<1>2. items \in Seq(ItemsFrom(arrived)) /\ arrived \subseteq Entries
  BY <1>1 DEF ResponseData, Error, SyncInv, ResponsesOK, LossInv
<1>3. \A d \in good : \E e \in Legible \cap arrived : d.id = TransientId(e) /\ d.plain = e.plain
  BY <1>2, CollectedIsLegible
<1>4. \A c, d \in good : c = d
  <2> HIDE DEF items
  <2>1. Len(items) \in Nat /\ DOMAIN items = 1 .. Len(items)
    BY <1>2
  <2>2. ASSUME NEW c \in good
        PROVE  Len(items) <= 1 /\ c = DecryptMessage(items[1], Ring)
    <3>1. /\ FetchedMessage(items).error = "ok"
          /\ \E item \in FetchedMessage(items).found : c = DecryptMessage(item, Ring)
      BY DEF Collected
    <3>2. Len(items) <= 1 /\ FetchedMessage(items).found = {items[i] : i \in DOMAIN items}
      BY <2>1, <3>1 DEF FetchedMessage, Error
    <3>3. \A i \in DOMAIN items : i = 1
      BY <2>1, <3>2
    <3> QED BY <3>1, <3>2, <3>3
  <2> QED BY <2>2
<1>5. CASE good = {} \/ broken
  BY <1>1, <1>5 DEF TakeMessage
<1>6. CASE ~(good = {} \/ broken)
  <2>1. inbox' = inbox \cup {View(d.plain) : d \in good}
    BY <1>6 DEF TakeMessage
  <2> HIDE DEF good
  <2>2. PICK d \in good : good = {d}
    BY <1>4, <1>6
  <2>3. PICK e \in Legible \cap arrived : d.plain = e.plain
    BY <1>3
  <2>4. inbox' = inbox \cup {MessageIn[e]} /\ MessageIn[e] = View(e.plain)
    BY <2>1, <2>2, <2>3 DEF MessageIn
  <2>5. CASE MessageIn[e] \in inbox
    BY <1>1, <2>4, <2>5
  <2>6. CASE MessageIn[e] \notin inbox
    <3>1. e \in node
      BY <2>3, <2>4, <2>6 DEF LossInv, NothingLost, Stored
    <3> QED BY <1>1, <2>3, <2>4, <2>6, <3>1 DEF Promise!Keep, MessageIn
  <2> QED BY <2>5, <2>6
<1> QED BY <1>5, <1>6

(* With requests, responses and failures hidden the node and the inbox are *)
(* a mailbox: an entry arrives once, a legible message is kept while its   *)
(* entry waits, and only an entry whose message is kept is removed.        *)
THEOREM CollectsAsPromised == Spec => Promise!SafeMail
<1>1. Init => Promise!MailInit
  BY DEF Init, Promise!MailInit
<1>2. SyncInv /\ LossInv /\ [Next]_vars => [Promise!MailNext]_Promise!mail
  <2> SUFFICES ASSUME SyncInv, LossInv, [Next]_vars
               PROVE  Promise!MailNext \/ UNCHANGED <<node, inbox>>
    BY DEF Promise!mail
  <2>1. ASSUME NEW e \in Entries, Arrive(e)
        PROVE  Promise!MailNext
    <3>1. e \notin node /\ node' = node \cup {e} /\ UNCHANGED inbox
      BY <2>1 DEF Arrive, SyncInv, TypeOK
    <3> QED BY <3>1 DEF Promise!MailNext, Promise!Arrives
  <2>2. ASSUME NEW r \in requests, NEW refused \in BOOLEAN, Serve(r, refused)
        PROVE  Promise!MailNext \/ UNCHANGED <<node, inbox>>
    BY <2>2, ServeRemoves DEF Promise!MailNext
  <2>3. ASSUME NEW r \in responses, NEW broken \in BOOLEAN, TakeMessage(r, broken)
        PROVE  Promise!MailNext \/ UNCHANGED <<node, inbox>>
    BY <2>3, TakeMessageStores DEF Promise!MailNext
  <2>4. ASSUME NEW r \in responses, Ignore(r) \/ TakeList(r) \/ TakeDone(r)
        PROVE  UNCHANGED <<node, inbox>>
    BY <2>4 DEF Ignore, TakeList, TakeDone, Awaited
  <2>5. CASE Ask
    BY <2>5 DEF Ask
  <2>6. CASE Restart \/ UNCHANGED vars
    BY <2>6 DEF Restart, vars
  <2>7. ASSUME NEW m \in requests \cup responses, Lose(m)
        PROVE  UNCHANGED <<node, inbox>>
    BY <2>7 DEF Lose
  <2>8. ASSUME NEW early \in BOOLEAN, TimeOut(early)
        PROVE  UNCHANGED <<node, inbox>>
    BY <2>8 DEF TimeOut
  <2> QED BY <2>1, <2>2, <2>3, <2>4, <2>5, <2>6, <2>7, <2>8 DEF Next
<1> QED BY <1>1, <1>2, SyncInvariant, LossInvariant, PTL DEF Spec, Promise!SafeMail
=============================================================================

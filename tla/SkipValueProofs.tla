-------------------------- MODULE SkipValueProofs ---------------------------
(***************************************************************************)
(* skip_value proved for every byte string, start position and nesting     *)
(* limit: it stays in bounds, bounds its recursion and its work, and a     *)
(* successful walk has skipped a whole value.  Then what is built on it:   *)
(* it accepts exactly the values of the format, the readers of one value   *)
(* agree about it, and array_items yields the items of an array.           *)
(***************************************************************************)
EXTENDS SkipValue, ArrayWalk, Lemmas

(* What is inductive beyond the invariants: levels below the current call  *)
(* are used up, and until a byte is consumed the first call is still due.  *)
WalkInv ==
  /\ TypeOK /\ LinearWork /\ NothingPending
  /\ \A d \in depth + 1 .. MaxDepth + 1 : left[d] = 0
  /\ pos = from => result # "ok" /\ depth = base /\ left[base] = 1

USE DepthAssumption, InputAssumption

(* The first call meets the invariant.                                     *)
LEMMA InitWalk == Init => WalkInv
<1> SUFFICES ASSUME Init PROVE WalkInv
  OBVIOUS
<1>1. /\ data \in Seq(Byte) /\ from \in 1 .. Len(data) + 1 /\ base \in 0 .. MaxDepth + 1
      /\ Len(data) \in Nat /\ from \in Nat
  BY DEF Init, Depths
<1>2. TypeOK
  BY <1>1 DEF Init, TypeOK, Depths
<1>3. LinearWork /\ NothingPending
  BY <1>1 DEF Init, LinearWork, NothingPending
<1>4. \A d \in depth + 1 .. MaxDepth + 1 : left[d] = 0
  BY <1>1 DEF Init, Depths
<1>5. result = "running" /\ depth = base /\ left[base] = 1
  BY <1>1 DEF Init, Depths
<1> QED BY <1>2, <1>3, <1>4, <1>5 DEF WalkInv

(* What a call knows: its depth indexes left, and a value it can read ends *)
(* further on.                                                             *)
LEMMA CallFacts ==
  ASSUME WalkInv
  PROVE  /\ data \in Seq(Byte) /\ Len(data) \in Nat /\ from \in Nat \ {0} /\ pos \in Nat
         /\ base \in Depths /\ depth \in Depths /\ calls \in Nat
         /\ ~Refused => /\ depth + 1 \in Depths
                        /\ OwnEnd(data, pos) \in pos + 1 .. Len(data) + 1
                        /\ Items(data, pos) \in Nat
<1>1. /\ data \in Seq(Byte) /\ Len(data) \in Nat /\ from \in Nat \ {0}
      /\ pos \in from .. Len(data) + 1 /\ base \in Nat /\ base \in Depths
      /\ depth \in base .. MaxDepth + 1 /\ calls \in Nat
  BY DEF WalkInv, TypeOK, Depths
<1>2. pos \in Nat /\ pos \in 1 .. Len(data) + 1 /\ depth \in Depths
  BY <1>1 DEF Depths
<1>3. ASSUME ~Refused
      PROVE  /\ depth + 1 \in Depths
             /\ OwnEnd(data, pos) \in pos + 1 .. Len(data) + 1
             /\ Items(data, pos) \in Nat
  <2>1. depth + 1 \in Depths
    BY <1>2, <1>3 DEF Refused, Depths
  <2> QED BY <1>1, <1>2, <1>3, <2>1, ReadingAdvances DEF Refused
<1> QED BY <1>1, <1>2, <1>3

(* Skipping a scalar or a blob keeps the invariant.                        *)
LEMMA LeafKeeps ==
  ASSUME WalkInv, Leaf
  PROVE  WalkInv'
<1>1. /\ UNCHANGED <<data, from, base, depth, result>>
      /\ calls' = calls + 1 /\ pos' = OwnEnd(data, pos)
      /\ left' = [left EXCEPT ![depth] = @ - 1]
      /\ left[depth] > 0 /\ ~Refused /\ result = "running"
  BY DEF Leaf, args
<1>2. /\ data \in Seq(Byte) /\ Len(data) \in Nat /\ from \in Nat /\ pos \in Nat
      /\ base \in Depths /\ depth \in Depths /\ calls \in Nat
      /\ pos' \in pos + 1 .. Len(data) + 1 /\ from <= pos
      /\ left \in [Depths -> Nat] /\ base <= depth
  BY <1>1, CallFacts, SMTT(30) DEF WalkInv, TypeOK, Depths
<1>3. left' \in [Depths -> Nat] /\ \A d \in Depths : d # depth => left'[d] = left[d]
  BY <1>1, <1>2
<1>4. TypeOK'
  BY <1>1, <1>2, <1>3 DEF WalkInv, TypeOK
<1>5. LinearWork' /\ NothingPending'
  BY <1>1, <1>2 DEF WalkInv, LinearWork, NothingPending
<1>6. \A d \in depth' + 1 .. MaxDepth + 1 : left'[d] = 0
  BY <1>1, <1>2, <1>3 DEF WalkInv, Depths
<1>7. pos' # from'
  BY <1>1, <1>2
<1> QED BY <1>4, <1>5, <1>6, <1>7 DEF WalkInv

(* Entering an array or a map keeps the invariant: the new loop lies one   *)
(* level deeper, where none was pending.                                   *)
LEMMA EnterKeeps ==
  ASSUME WalkInv, Enter
  PROVE  WalkInv'
<1>1. /\ UNCHANGED <<data, from, base, result>> /\ depth' = depth + 1
      /\ calls' = calls + 1 /\ pos' = OwnEnd(data, pos)
      /\ left' = [left EXCEPT ![depth] = @ - 1, ![depth + 1] = Items(data, pos)]
      /\ left[depth] > 0 /\ ~Refused /\ result = "running"
  BY DEF Enter, args
<1>2. /\ data \in Seq(Byte) /\ Len(data) \in Nat /\ from \in Nat /\ pos \in Nat
      /\ base \in Depths /\ depth \in Depths /\ calls \in Nat
      /\ pos' \in pos + 1 .. Len(data) + 1 /\ from <= pos
      /\ left \in [Depths -> Nat] /\ base <= depth
      /\ depth + 1 \in Depths /\ Items(data, pos) \in Nat
  BY <1>1, CallFacts, SMTT(30) DEF WalkInv, TypeOK, Depths
<1>3. /\ left' \in [Depths -> Nat]
      /\ \A d \in Depths : d # depth /\ d # depth + 1 => left'[d] = left[d]
  <2> DEFINE used == [left EXCEPT ![depth] = @ - 1]
  <2>1. used \in [Depths -> Nat] /\ \A d \in Depths : d # depth => used[d] = left[d]
    BY <1>1, <1>2
  <2>2. left' = [used EXCEPT ![depth + 1] = Items(data, pos)]
    BY <1>1, <1>2
  <2> HIDE DEF used
  <2> QED BY <1>2, <2>1, <2>2
<1>4. depth' \in base' .. MaxDepth + 1
  BY <1>1, <1>2 DEF Depths
<1>5. TypeOK'
  <2>1. pos' \in from .. Len(data) + 1 /\ calls' \in Nat
    BY <1>1, <1>2
  <2> QED BY <1>1, <1>3, <1>4, <2>1 DEF WalkInv, TypeOK
<1>6. LinearWork' /\ NothingPending'
  BY <1>1, <1>2 DEF WalkInv, LinearWork, NothingPending
<1>7. \A d \in depth' + 1 .. MaxDepth + 1 : left'[d] = 0
  BY <1>1, <1>2, <1>3 DEF WalkInv, Depths
<1>8. pos' # from'
  BY <1>1, <1>2
<1> QED BY <1>5, <1>6, <1>7, <1>8 DEF WalkInv

(* Returning from a finished loop keeps the invariant.                     *)
LEMMA ReturnKeeps ==
  ASSUME WalkInv, Return
  PROVE  WalkInv'
<1>1. /\ UNCHANGED <<data, from, base, pos, left, calls>>
      /\ result = "running" /\ left[depth] = 0
      /\ IF depth = base THEN result' = "ok" /\ depth' = depth
                         ELSE result' = result /\ depth' = depth - 1
  BY DEF Return, LoopDone, args
<1>2. /\ base \in Depths /\ depth \in base .. MaxDepth + 1 /\ from <= pos
      /\ pos \in Nat /\ from \in Nat /\ calls \in Nat /\ base \in Nat
      /\ left[depth] = 0 => pos # from
      /\ \A d \in depth + 1 .. MaxDepth + 1 : left[d] = 0
  BY CallFacts DEF WalkInv, TypeOK, Depths
<1>3. \A d \in depth .. MaxDepth + 1 : left[d] = 0
  BY <1>1, <1>2
<1>4. depth' \in base .. MaxDepth + 1 /\ \A d \in depth' + 1 .. MaxDepth + 1 : left[d] = 0
  BY <1>1, <1>2, <1>3
<1>5. TypeOK'
  BY <1>1, <1>4 DEF WalkInv, TypeOK
<1>6. LinearWork' /\ NothingPending'
  BY <1>1, <1>2, <1>3 DEF WalkInv, LinearWork, NothingPending
<1> QED BY <1>1, <1>2, <1>4, <1>5, <1>6 DEF WalkInv

(* A failing call is the only one that may consume nothing, and the last.  *)
LEMMA RefuseKeeps ==
  ASSUME WalkInv, Refuse
  PROVE  WalkInv'
<1>1. /\ UNCHANGED <<data, from, base, pos, depth, left>>
      /\ result = "running" /\ result' = "malformed" /\ calls' = calls + 1
  BY DEF Refuse, args
<1>2. pos \in Nat /\ from \in Nat /\ calls \in Nat
  BY CallFacts
<1> QED BY <1>1, <1>2 DEF WalkInv, TypeOK, LinearWork, NothingPending

(* The strengthened invariant holds in every reachable state.              *)
LEMMA WalkInvariant == Spec => []WalkInv
<1>1. WalkInv /\ [Next]_vars => WalkInv'
  <2> SUFFICES ASSUME WalkInv, [Next]_vars
               PROVE  WalkInv'
    OBVIOUS
  <2>1. CASE Refuse
    BY <2>1, RefuseKeeps
  <2>2. CASE Leaf
    BY <2>2, LeafKeeps
  <2>3. CASE Enter
    BY <2>3, EnterKeeps
  <2>4. CASE Return
    BY <2>4, ReturnKeeps
  <2>5. CASE UNCHANGED vars
    BY <2>5 DEF vars, args, WalkInv, TypeOK, LinearWork, NothingPending
  <2> QED BY <2>1, <2>2, <2>3, <2>4, <2>5 DEF Next
<1> QED BY <1>1, InitWalk, PTL DEF Spec

(* No input drives skip_value past the end of its data or its recursion    *)
(* past one call beyond the nesting limit.                                 *)
THEOREM WalkStaysInBounds == Spec => []TypeOK
<1>1. WalkInv => TypeOK
  BY DEF WalkInv
<1> QED BY <1>1, WalkInvariant, PTL

(* No announced count makes skip_value work more than linearly in the      *)
(* bytes it was given.                                                     *)
THEOREM WalkWorkIsLinear == Spec => []LinearWork
<1>1. WalkInv => LinearWork
  BY DEF WalkInv
<1> QED BY <1>1, WalkInvariant, PTL

(* When skip_value succeeds it has consumed something and every loop it    *)
(* entered has run to its announced end.                                   *)
THEOREM WalkSkipsWholeValues == Spec => []NothingPending
<1>1. WalkInv => NothingPending
  BY DEF WalkInv
<1> QED BY <1>1, WalkInvariant, PTL

-----------------------------------------------------------------------------
(* Where the pending loops will end: ends[c] is the position the loop at   *)
(* depth c ends at, by the operator, when the deeper ones have ended.      *)
EndsAhead(ends) ==
  /\ ends \in [Nat -> Nat]
  /\ ends[depth] = Skip(data, pos, left[depth], depth)
  /\ \A c \in Nat : base <= c /\ c < depth =>
       ends[c] = IF ends[c + 1] = Malformed THEN Malformed
                 ELSE Skip(data, ends[c + 1], left[c], c)
  /\ ends[base] = SkipValueAt(data, from, base)

(* The machine is on its way to the end that the operator computes.        *)
OperatorInv ==
  /\ result = "running"   => \E ends : EndsAhead(ends)
  /\ result = "ok"        => SkipValueAt(data, from, base) = pos
  /\ result = "malformed" => SkipValueAt(data, from, base) = Malformed

LEMMA InitOperator == Init => OperatorInv
<1> SUFFICES ASSUME Init PROVE OperatorInv
  OBVIOUS
<1>1. /\ data \in Seq(Byte) /\ Len(data) \in Nat /\ from \in Position /\ pos = from
      /\ base \in Nat /\ depth = base /\ left[base] = 1 /\ result = "running"
  BY DEF Init, Depths, Position
<1> DEFINE end == SkipValueAt(data, from, base)
           ends == [c \in Nat |-> end]
<1>2. end \in Nat
  BY <1>1, SkipForward DEF SkipsForward, SkipValueAt
<1>3. end = Skip(data, pos, left[depth], depth)
  BY <1>1 DEF SkipValueAt
<1> HIDE DEF end
<1>4. ends \in [Nat -> Nat] /\ \A c \in Nat : ends[c] = end
  BY <1>2
<1> HIDE DEF ends
<1>5. \A c \in Nat : ~ (base <= c /\ c < depth)
  BY <1>1
<1>6. EndsAhead(ends)
  BY <1>1, <1>3, <1>4, <1>5 DEF EndsAhead, end
<1> QED BY <1>1, <1>6 DEF OperatorInv

(* A call that fails makes every pending loop fail.                        *)
LEMMA RefuseFollows ==
  ASSUME WalkInv, OperatorInv, Refuse
  PROVE  OperatorInv'
<1>1. /\ UNCHANGED <<data, from, base, pos, depth, left>>
      /\ result = "running" /\ result' = "malformed" /\ left[depth] > 0
      /\ depth > MaxDepth \/ ~Readable(data, pos)
  BY DEF Refuse, Refused, args
<1>2. /\ data \in Seq(Byte) /\ pos \in Position /\ depth \in Nat /\ base \in Nat
      /\ base <= depth /\ left[depth] \in Nat
  BY CallFacts DEF WalkInv, TypeOK, Depths, Position
<1>3. PICK ends : EndsAhead(ends)
  BY <1>1 DEF OperatorInv
<1>4. ends[depth] = Malformed
  <2>1. Skip(data, pos, left[depth], depth) = Malformed
    BY <1>1, <1>2, SkipEquation
  <2> QED BY <1>3, <2>1 DEF EndsAhead
<1> DEFINE T == {k \in Nat : k <= depth - base => ends[depth - k] = Malformed}
<1>5. 0 \in T
  BY <1>2, <1>4
<1>6. ASSUME NEW k \in Nat, k \in T
      PROVE  k + 1 \in T
  <2> SUFFICES ASSUME k + 1 <= depth - base
               PROVE  ends[depth - (k + 1)] = Malformed
    OBVIOUS
  <2> DEFINE c == depth - (k + 1)
  <2>1. c \in Nat /\ base <= c /\ c < depth /\ c + 1 = depth - k /\ k <= depth - base
    BY <1>2
  <2>2. ends[c + 1] = Malformed
    BY <1>6, <2>1
  <2> HIDE DEF c
  <2>3. ends[c] = Malformed
    BY <1>3, <2>1, <2>2 DEF EndsAhead
  <2> QED BY <2>3 DEF c
<1> HIDE DEF T
<1>7. depth - base \in T
  <2>1. Nat \subseteq T
    BY <1>5, <1>6, SetInduction
  <2> QED BY <1>2, <2>1
<1>8. ends[base] = Malformed
  <2>1. depth - (depth - base) = base /\ depth - base \in Nat
    BY <1>2
  <2> QED BY <1>7, <2>1 DEF T
<1>9. SkipValueAt(data, from, base) = Malformed
  BY <1>3, <1>8 DEF EndsAhead
<1> QED BY <1>1, <1>9 DEF OperatorInv, SkipValueAt

(* A call on a leaf is one turn of its loop.                               *)
LEMMA LeafFollows ==
  ASSUME WalkInv, OperatorInv, Leaf
  PROVE  OperatorInv'
<1>1. /\ UNCHANGED <<data, from, base, depth, result>>
      /\ pos' = OwnEnd(data, pos) /\ left' = [left EXCEPT ![depth] = @ - 1]
      /\ left[depth] > 0 /\ ~Refused /\ result = "running"
      /\ IsScalar(data[pos]) \/ IsBlob(data[pos])
  BY DEF Leaf, args
<1>2. /\ data \in Seq(Byte) /\ pos \in Position /\ depth \in Nat /\ base \in Nat
      /\ depth \in Depths /\ left \in [Depths -> Nat] /\ pos' \in Position
      /\ ~ (depth > MaxDepth) /\ Readable(data, pos) /\ depth <= MaxDepth
  BY <1>1, CallFacts, SMTT(30) DEF WalkInv, TypeOK, Depths, Position, Refused
<1>3. PICK ends : EndsAhead(ends)
  BY <1>1 DEF OperatorInv
<1>4. SkipValueAt(data, pos, depth) = pos'
  BY <1>1, <1>2, BlobEnd
<1>5. Skip(data, pos, left[depth], depth) = Skip(data, pos', left[depth] - 1, depth)
  <2> DEFINE n == left[depth]
             inner == Skip(data, OwnEnd(data, pos), Items(data, pos), depth + 1)
  <2>1. n \in Nat /\ n # 0 /\ 1 \in Nat /\ pos' # Malformed
    BY <1>1, <1>2 DEF Position, Malformed
  <2>2. Skip(data, pos, n, depth) = IF inner = Malformed THEN Malformed
                                    ELSE Skip(data, inner, n - 1, depth)
    BY <1>2, <2>1, SkipEquation
  <2>3. Skip(data, pos, 1, depth) = IF inner = Malformed THEN Malformed
                                    ELSE Skip(data, inner, 1 - 1, depth)
    BY <1>2, <2>1, SkipEquation
  <2>4. inner \in Nat
    <3> DEFINE i == Items(data, pos)
               o == OwnEnd(data, pos)
    <3>1. i \in Nat /\ o \in Position /\ depth + 1 \in Nat
      BY <1>1, <1>2, CallFacts DEF Position
    <3> HIDE DEF i, o
    <3>2. Skip(data, o, i, depth + 1) \in Nat
      BY <1>2, <3>1, SkipForward DEF SkipsForward
    <3> QED BY <3>2 DEF i, o
  <2> HIDE DEF inner
  <2>5. inner # Malformed => Skip(data, inner, 0, depth) = inner
    BY <1>2, <2>4, SkipEquation DEF Position, Malformed
  <2>6. inner = pos'
    BY <1>4, <2>1, <2>3, <2>5 DEF SkipValueAt
  <2> QED BY <2>1, <2>2, <2>6
<1>6. left'[depth] = left[depth] - 1 /\ \A c \in Nat : c < depth => left'[c] = left[c]
  BY <1>1, <1>2 DEF Depths
<1>7. EndsAhead(ends)'
  BY <1>1, <1>3, <1>5, <1>6 DEF EndsAhead
<1> QED BY <1>1, <1>7 DEF OperatorInv

(* A call on a container turns one level deeper.                           *)
LEMMA EnterFollows ==
  ASSUME WalkInv, OperatorInv, Enter
  PROVE  OperatorInv'
<1>1. /\ UNCHANGED <<data, from, base, result>> /\ depth' = depth + 1
      /\ pos' = OwnEnd(data, pos)
      /\ left' = [left EXCEPT ![depth] = @ - 1, ![depth + 1] = Items(data, pos)]
      /\ left[depth] > 0 /\ ~Refused /\ result = "running"
  BY DEF Enter, args
<1>2. /\ data \in Seq(Byte) /\ pos \in Position /\ depth \in Nat /\ base \in Nat
      /\ depth \in Depths /\ left \in [Depths -> Nat] /\ pos' \in Position
      /\ ~ (depth > MaxDepth) /\ Readable(data, pos) /\ base <= depth
      /\ depth + 1 \in Depths /\ depth + 1 \in Nat /\ Items(data, pos) \in Nat
  BY <1>1, CallFacts, SMTT(30) DEF WalkInv, TypeOK, Depths, Position, Refused
<1>3. PICK ends : EndsAhead(ends)
  BY <1>1 DEF OperatorInv
<1> DEFINE n == left[depth]
           i == Items(data, pos)
           inner == Skip(data, pos', i, depth + 1)
<1>4. inner \in Nat
  <2> HIDE DEF i
  <2> QED BY <1>2, SkipForward DEF SkipsForward, i
<1>5. ends[depth] = IF inner = Malformed THEN Malformed ELSE Skip(data, inner, n - 1, depth)
  <2>1. n \in Nat /\ n # 0
    BY <1>1, <1>2
  <2>2. Skip(data, OwnEnd(data, pos), Items(data, pos), depth + 1) = inner
    BY <1>1
  <2>3. ends[depth] = Skip(data, pos, n, depth)
    BY <1>3 DEF EndsAhead
  <2> HIDE DEF n, inner
  <2>4. Skip(data, pos, n, depth) = IF inner = Malformed THEN Malformed
                                    ELSE Skip(data, inner, n - 1, depth)
    BY <1>2, <2>1, <2>2, SkipEquation
  <2> QED BY <2>3, <2>4
<1>6. left'[depth] = n - 1 /\ left'[depth + 1] = i /\ \A c \in Nat : c < depth => left'[c] = left[c]
  <2> DEFINE used == [left EXCEPT ![depth] = @ - 1]
  <2>1. used \in [Depths -> Int] /\ \A d \in Depths : used[d] = IF d = depth THEN n - 1 ELSE left[d]
    BY <1>1, <1>2
  <2>2. left' = [used EXCEPT ![depth + 1] = i]
    BY <1>1, <1>2
  <2> HIDE DEF used, n, i
  <2>3. \A d \in Depths : left'[d] = IF d = depth + 1 THEN i ELSE used[d]
    BY <1>2, <2>1, <2>2
  <2>4. \A c \in Nat : c < depth => c \in Depths /\ c # depth /\ c # depth + 1
    BY <1>2 DEF Depths
  <2> QED BY <1>2, <2>1, <2>3, <2>4
<1>7. PICK next : next = [ends EXCEPT ![depth + 1] = inner]
  OBVIOUS
<1>8. EndsAhead(next)'
  <2>1. ends \in [Nat -> Nat]
    BY <1>3 DEF EndsAhead
  <2>2. next \in [Nat -> Nat] /\ next[depth + 1] = inner
        /\ \A c \in Nat : c # depth + 1 => next[c] = ends[c]
    BY <1>2, <1>4, <1>7, <2>1
  <2>3. next[depth'] = Skip(data', pos', left'[depth'], depth')
    BY <1>1, <1>6, <2>2
  <2>4. ASSUME NEW c \in Nat, base' <= c, c < depth'
        PROVE  next[c] = IF next[c + 1] = Malformed THEN Malformed
                         ELSE Skip(data', next[c + 1], left'[c], c)
    <3> HIDE DEF inner, n, i
    <3>1. CASE c = depth
      <4>1. c + 1 = depth + 1 /\ c # depth + 1 /\ data' = data
        BY <1>1, <1>2, <3>1
      <4>2. next[c] = ends[depth] /\ next[c + 1] = inner /\ left'[c] = n - 1
        BY <1>6, <2>2, <3>1, <4>1
      <4> QED BY <1>5, <3>1, <4>1, <4>2
    <3>2. CASE c < depth
      <4>1. c # depth + 1 /\ c + 1 # depth + 1 /\ c + 1 \in Nat /\ base <= c
        BY <1>1, <1>2, <2>4, <3>2
      <4>2. ends[c] = IF ends[c + 1] = Malformed THEN Malformed
                      ELSE Skip(data, ends[c + 1], left[c], c)
        BY <1>3, <3>2, <4>1 DEF EndsAhead
      <4> QED BY <1>1, <1>6, <2>2, <3>2, <4>1, <4>2
    <3>3. c = depth \/ c < depth
      BY <1>1, <1>2, <2>4
    <3> QED BY <3>1, <3>2, <3>3
  <2>5. next[base'] = SkipValueAt(data', from', base')
    <3>1. base # depth + 1
      BY <1>2
    <3> QED BY <1>1, <1>2, <1>3, <2>2, <3>1 DEF EndsAhead
  <2> QED BY <1>1, <2>2, <2>3, <2>4, <2>5 DEF EndsAhead
<1> QED BY <1>1, <1>8 DEF OperatorInv

(* A finished loop ends where the operator says.                           *)
LEMMA ReturnFollows ==
  ASSUME WalkInv, OperatorInv, Return
  PROVE  OperatorInv'
<1>1. /\ UNCHANGED <<data, from, base, pos, left>>
      /\ result = "running" /\ left[depth] = 0
      /\ IF depth = base THEN result' = "ok" /\ depth' = depth
                         ELSE result' = result /\ depth' = depth - 1
  BY DEF Return, LoopDone, args
<1>2. /\ data \in Seq(Byte) /\ pos \in Position /\ depth \in Nat /\ base \in Nat
      /\ base <= depth
  BY CallFacts DEF WalkInv, TypeOK, Depths, Position
<1>3. PICK ends : EndsAhead(ends)
  BY <1>1 DEF OperatorInv
<1>4. ends[depth] = pos
  <2>1. Skip(data, pos, 0, depth) = pos
    BY <1>2, SkipEquation
  <2> QED BY <1>1, <1>3, <2>1 DEF EndsAhead
<1>5. CASE depth = base
  <2>1. SkipValueAt(data, from, base) = pos
    BY <1>3, <1>4, <1>5 DEF EndsAhead
  <2> QED BY <1>1, <1>5, <2>1 DEF OperatorInv, SkipValueAt
<1>6. CASE depth # base
  <2>1. depth - 1 \in Nat /\ base <= depth - 1 /\ (depth - 1) + 1 = depth /\ depth' = depth - 1
        /\ depth - 1 < depth /\ pos # Malformed
    BY <1>1, <1>2, <1>6 DEF Position, Malformed
  <2>2. ends[depth - 1] = Skip(data, pos, left[depth - 1], depth - 1)
    BY <1>3, <1>4, <2>1 DEF EndsAhead
  <2>3. \A c \in Nat : c < depth' => c < depth
    BY <1>2, <2>1
  <2>4. EndsAhead(ends)'
    BY <1>1, <1>3, <2>1, <2>2, <2>3 DEF EndsAhead
  <2> QED BY <1>1, <1>6, <2>4 DEF OperatorInv
<1> QED BY <1>5, <1>6

LEMMA OperatorInvariant == Spec => [](WalkInv /\ OperatorInv)
<1>1. WalkInv /\ OperatorInv /\ [Next]_vars => OperatorInv'
  <2> SUFFICES ASSUME WalkInv, OperatorInv, [Next]_vars
               PROVE  OperatorInv'
    OBVIOUS
  <2>1. CASE UNCHANGED vars
    BY <2>1 DEF vars, args, OperatorInv, EndsAhead
  <2> QED BY <2>1, RefuseFollows, LeafFollows, EnterFollows, ReturnFollows DEF Next
<1> QED BY <1>1, InitOperator, WalkInvariant, PTL DEF Spec

-----------------------------------------------------------------------------
(* skip_value accepts exactly the values of the grammar that fit the       *)
(* nesting left to it, and the operator the parsers are modelled with is   *)
(* what the machine computes.                                              *)
THEOREM SkipAcceptsTheGrammar == Spec => []AcceptsExactlyValues
<1>1. WalkInv /\ OperatorInv => AcceptsExactlyValues
  <2> SUFFICES ASSUME WalkInv, OperatorInv
               PROVE  AcceptsExactlyValues
    OBVIOUS
  <2>1. /\ data \in Seq(Byte) /\ Len(data) \in Nat /\ from \in Position /\ from \in Nat
        /\ base \in Nat /\ pos \in Nat /\ from <= pos /\ pos <= Len(data) + 1
    BY CallFacts DEF WalkInv, TypeOK, Depths, Position
  <2>2. \A e \in Nat : from <= e /\ e <= Len(data) + 1 =>
          (IsValue(SubSeq(data, from, e - 1), MaxDepth - base) <=> SkipValueAt(data, from, base) = e)
    <3>1. 1 \in Nat
      OBVIOUS
    <3> QED BY <2>1, <3>1, SkipsWhatTheGrammarHas DEF IsValue, SkipValueAt
  <2>3. result = "ok" => /\ IsValue(SubSeq(data, from, pos - 1), MaxDepth - base)
                         /\ SkipValueAt(data, from, base) = pos
    BY <2>1, <2>2 DEF OperatorInv
  <2>4. ASSUME result = "malformed", NEW end \in from .. Len(data)
        PROVE  ~IsValue(SubSeq(data, from, end), MaxDepth - base)
    <3>1. /\ end + 1 \in Nat /\ from <= end + 1 /\ end + 1 <= Len(data) + 1 /\ (end + 1) - 1 = end
          /\ end + 1 # Malformed
      BY <2>1 DEF Malformed
    <3>2. SkipValueAt(data, from, base) = Malformed
      BY <2>4 DEF OperatorInv
    <3>3. ~IsValue(SubSeq(data, from, (end + 1) - 1), MaxDepth - base)
      BY <2>2, <3>1, <3>2
    <3> QED BY <3>1, <3>3
  <2>5. result = "malformed" => SkipValueAt(data, from, base) = Malformed
    BY DEF OperatorInv
  <2> QED BY <2>3, <2>4, <2>5 DEF AcceptsExactlyValues
<1> QED BY <1>1, OperatorInvariant, PTL

(* read_bin ends a blob where skip_value does.                             *)
LEMMA ReadBinIsSkip ==
  ASSUME NEW s \in Seq(Byte), NEW p \in Position, NEW d \in Nat, d <= MaxDepth
  PROVE  ReadBin(s, p) = IF Readable(s, p) /\ IsBlob(s[p]) THEN SkipValueAt(s, p, d) ELSE Malformed
<1>1. p \in Nat /\ 1 <= p /\ Len(s) \in Nat
  BY DEF Position
<1>2. CASE p > Len(s)
  BY <1>1, <1>2 DEF ReadBin, Readable
<1>3. CASE ~ (p > Len(s)) /\ ~IsBlob(s[p])
  BY <1>3 DEF ReadBin
<1>4. CASE ~ (p > Len(s)) /\ IsBlob(s[p])
  <2> DEFINE w == LengthBytes(s[p])
  <2>1. p \in 1 .. Len(s) /\ s[p] \in Nat
    BY <1>1, <1>4, BytesAreNat
  <2>2. w \in Nat
    BY DEF LengthBytes
  <2>3. NumberBody(s[p]) = 0
    BY <1>4, <2>1, BlobsAreNoNumbers
  <2>4. CASE p + (1 + w) > Len(s) + 1
    <3>1. ReadBin(s, p) = Malformed
      BY <1>4, <2>4 DEF ReadBin
    <3>2. ~ (p + w <= Len(s))
      BY <1>1, <2>2, <2>4
    <3> QED BY <3>1, <3>2 DEF Readable
  <2>5. CASE ~ (p + (1 + w) > Len(s) + 1)
    <3> DEFINE a == Announced(s, p)
               end == p + (1 + w) + a
    <3>1. p + w <= Len(s)
      BY <1>1, <2>2, <2>5
    <3>2. a \in Nat
      BY <2>1, <3>1, AnnouncedIsNat
    <3>3. OwnEnd(s, p) = p + 1 + w + NumberBody(s[p]) + a
      BY <1>4 DEF OwnEnd
    <3>4. ReadBin(s, p) = IF end <= Len(s) + 1 THEN end ELSE Malformed
      BY <1>4, <2>5 DEF ReadBin
    <3>5. Readable(s, p) <=> OwnEnd(s, p) <= Len(s) + 1
      BY <1>1, <1>4, <3>1 DEF Readable
    <3>6. Readable(s, p) => SkipValueAt(s, p, d) = OwnEnd(s, p)
      BY <1>4, BlobEnd
    <3> HIDE DEF a, w
    <3>7. OwnEnd(s, p) = end
      BY <1>1, <2>2, <2>3, <3>2, <3>3
    <3> HIDE DEF end
    <3> QED BY <1>4, <3>4, <3>5, <3>6, <3>7
  <2> QED BY <2>4, <2>5
<1> QED BY <1>2, <1>3, <1>4

(* A title or content ends where skip_value says, for read_bin too: what a *)
(* builder framed is what a parser sees.                                   *)
THEOREM BlobReadersAgree == Spec => []ReadersAgree
<1>1. WalkInv /\ OperatorInv => ReadersAgree
  <2> SUFFICES ASSUME WalkInv, OperatorInv
               PROVE  ReadersAgree
    OBVIOUS
  <2>1. /\ data \in Seq(Byte) /\ from \in Position /\ base \in Nat /\ pos \in Nat /\ pos # Malformed
    BY CallFacts DEF WalkInv, TypeOK, Depths, Position, Malformed
  <2>2. ASSUME result = "ok", IsBlob(data[from])
        PROVE  ReadBin(data, from) = pos
    <3>1. SkipValueAt(data, from, base) = pos
      BY <2>2 DEF OperatorInv
    <3>2. base <= MaxDepth /\ Readable(data, from)
      <4>1. Skip(data, from, 1, base) # Malformed
        BY <2>1, <3>1 DEF SkipValueAt
      <4>2. ~ (base > MaxDepth \/ ~Readable(data, from))
        <5>1. 1 \in Nat /\ 1 # 0
          OBVIOUS
        <5> QED BY <2>1, <4>1, <5>1, SkipEquation
      <4> QED BY <2>1, <4>2, DepthAssumption
    <3> QED BY <2>1, <2>2, <3>1, <3>2, ReadBinIsSkip
  <2>3. ASSUME result = "malformed", base <= MaxDepth
        PROVE  ReadBin(data, from) = Malformed
    <3>1. SkipValueAt(data, from, base) = Malformed
      BY <2>3 DEF OperatorInv
    <3> QED BY <2>1, <2>3, <3>1, ReadBinIsSkip
  <2> QED BY <2>2, <2>3 DEF ReadersAgree
<1> QED BY <1>1, OperatorInvariant, PTL

-----------------------------------------------------------------------------
(* A caller of array_items who takes its items one by one.  The header of  *)
(* its array ends here.                                                    *)
HeaderEnd == 1 + LengthBytes(array[1])

(* Where the iterator stands: what is left was validated as items of the   *)
(* array, one level down, and what was taken lies before it.               *)
Standing ==
  /\ it \in [ok : {TRUE}, data : Seq(Byte), pos : Position, remaining : Nat] /\ it.data = array
  /\ HeaderEnd \in 1 .. Len(array)
  /\ Skip(array, it.pos, it.remaining, 1) = Len(array) + 1
  /\ Len(taken) + it.remaining = Announced(array, 1)
  /\ SubSeq(array, 1, HeaderEnd) \o FlattenSeq(taken) = SubSeq(array, 1, it.pos - 1)
  /\ \A i \in DOMAIN taken : SkipValueAt(taken[i], 1, 1) = Len(taken[i]) + 1

ItemsInv ==
  /\ array \in Seq(Byte) /\ taken \in Seq(Seq(Byte))
  /\ phase \in {"given", "walking", "over", "refused"}
  /\ phase \in {"given", "refused"} => it = NoItems /\ taken = <<>>
  /\ phase \in {"walking", "over"} => Standing
  /\ phase = "over" => it.remaining = 0

(* The array was validated whole, so its items begin behind its header and *)
(* their end is the end of the array.                                      *)
LEMMA OpenKeeps ==
  ASSUME ItemsInv, Open
  PROVE  ItemsInv'
<1>1. /\ array \in Seq(Byte) /\ taken = <<>> /\ Len(array) \in Nat
      /\ it' = IteratorOf(array) /\ UNCHANGED <<array, taken>>
      /\ phase' = IF it'.ok THEN "walking" ELSE "refused"
  BY DEF ItemsInv, Open
<1>2. CASE SkipValueAt(array, 1, 0) # Len(array) + 1 \/ ~IsArray(array[1])
  <2>1. it' = NoItems /\ phase' = "refused"
    BY <1>1, <1>2 DEF IteratorOf, NoItems
  <2> QED BY <1>1, <2>1 DEF ItemsInv
<1>3. CASE SkipValueAt(array, 1, 0) = Len(array) + 1 /\ IsArray(array[1])
  <2> DEFINE o == OwnEnd(array, 1)
             n == Announced(array, 1)
             b == array[1]
  <2>1. /\ Readable(array, 1) /\ Skip(array, o, Items(array, 1), 1) # Malformed
        /\ Skip(array, 1, 1, 0) = Skip(array, Skip(array, o, Items(array, 1), 1), 0, 0)
    <3>1. 1 \in Position /\ 1 - 1 = 0 /\ 0 + 1 = 1 /\ Len(array) + 1 # Malformed
      BY <1>1 DEF Position, Malformed
    <3>2. Skip(array, 1, 1, 0) = Len(array) + 1
      BY <1>3 DEF SkipValueAt
    <3> QED BY <1>1, <3>1, <3>2, SkipEquation
  <2>2. /\ 1 \in 1 .. Len(array) /\ 1 + LengthBytes(b) <= Len(array)
        /\ b \in Nat /\ LengthBytes(b) \in Nat
    <3>1. 1 \in 1 .. Len(array) /\ 1 + LengthBytes(b) <= Len(array)
      BY <1>1, <2>1 DEF Readable
    <3>2. b \in Nat
      BY <1>1, <3>1, BytesAreNat
    <3>3. LengthBytes(b) \in Nat
      BY DEF LengthBytes
    <3> QED BY <3>1, <3>2, <3>3
  <2>3. n \in Nat
    BY <1>1, <2>2, AnnouncedIsNat
  <2>4. ~IsBlob(b) /\ NumberBody(b) = 0
    <3>1. \A x \in Nat : IsArray(x) => ~IsBlob(x) /\ NumberBody(x) = 0
      BY SMT DEF IsArray, IsBlob, NumberBody, FixArray, FixStr
    <3> QED BY <1>3, <2>2, <3>1
  <2>5. o = 2 + LengthBytes(b) /\ Items(array, 1) = n
    BY <1>3, <2>2, <2>4 DEF OwnEnd, Items
  <2>6. Skip(array, o, n, 1) = Len(array) + 1
    <3>1. o \in Position
      BY <2>2, <2>5 DEF Position
    <3>2. Skip(array, o, n, 1) \in Position
      BY <1>1, <2>1, <2>3, <2>5, <3>1, SkipForward DEF SkipsForward, Position, Malformed
    <3>3. Skip(array, Skip(array, o, n, 1), 0, 0) = Skip(array, o, n, 1)
      BY <1>1, <3>2, SkipEquation
    <3> QED BY <1>3, <2>1, <2>5, <3>3 DEF SkipValueAt
  <2> HIDE DEF n
  <2>7. it' = [ok |-> TRUE, data |-> array, pos |-> o, remaining |-> n] /\ phase' = "walking"
    BY <1>1, <1>3, <2>5 DEF IteratorOf, n
  <2>8. SubSeq(array, 1, 1 + LengthBytes(b)) \o FlattenSeq(<<>>) = SubSeq(array, 1, o - 1)
    <3>1. FlattenSeq(<<>>) = <<>>
      BY DEF FlattenSeq
    <3>2. SubSeq(array, 1, 1 + LengthBytes(b)) \in Seq(Byte)
      BY <1>1, <2>2, SubSeqProperties
    <3>3. o - 1 = 1 + LengthBytes(b)
      BY <2>2, <2>5
    <3> QED BY <3>1, <3>2, <3>3, ConcatEmptySeq
  <2> HIDE DEF o, b
  <2>9. Standing'
    <3>1. it' \in [ok : {TRUE}, data : Seq(Byte), pos : Position, remaining : Nat]
      <4>1. o \in Position
        BY <2>2, <2>5 DEF Position
      <4> QED BY <1>1, <2>3, <2>7, <4>1
    <3>2. it'.data = array /\ it'.pos = o /\ it'.remaining = n
      BY <2>7
    <3>3. (1 + LengthBytes(array[1])) \in 1 .. Len(array)
      BY <1>1, <2>2 DEF b
    <3>4. Len(<<>>) + n = Announced(array, 1)
      BY <2>3 DEF n
    <3>5. DOMAIN taken' = {} /\ taken' = <<>> /\ array' = array
      BY <1>1
    <3>6. HeaderEnd' = 1 + LengthBytes(b)
      BY <1>1 DEF HeaderEnd, b
    <3>7. /\ Skip(array', it'.pos, it'.remaining, 1) = Len(array') + 1
          /\ Len(taken') + it'.remaining = Announced(array', 1)
          /\ SubSeq(array', 1, HeaderEnd') \o FlattenSeq(taken') = SubSeq(array', 1, it'.pos - 1)
      BY <2>6, <2>8, <3>2, <3>4, <3>5, <3>6
    <3>8. HeaderEnd' \in 1 .. Len(array')
      BY <3>3, <3>5, <3>6 DEF b
    <3>9. \A i \in DOMAIN taken' : SkipValueAt(taken'[i], 1, 1) = Len(taken'[i]) + 1
      BY <3>5
    <3> QED BY <3>1, <3>2, <3>5, <3>7, <3>8, <3>9 DEF Standing
  <2> QED BY <1>1, <2>7, <2>9 DEF ItemsInv
<1> QED BY <1>2, <1>3

(* One step of the walk: an item that was validated as part of the array   *)
(* ends at the same place when it is walked to from depth 0.               *)
LEMMA ItemAhead ==
  ASSUME ItemsInv, phase = "walking", it.remaining > 0
  PROVE  LET end == SkipValueAt(array, it.pos, 0)
         IN  /\ end \in it.pos + 1 .. Len(array) + 1
             /\ SkipValueAt(array, it.pos, 1) = end
             /\ Skip(array, end, it.remaining - 1, 1) = Len(array) + 1
<1> DEFINE p   == it.pos
           n   == it.remaining
           end == Skip(array, OwnEnd(array, p), Items(array, p), 2)
<1>1. /\ array \in Seq(Byte) /\ p \in Position /\ n \in Nat /\ n > 0 /\ Len(array) \in Nat
      /\ Skip(array, p, n, 1) = Len(array) + 1
  BY DEF ItemsInv, Standing
<1> HIDE DEF p, n
<1>2. /\ ~(1 > MaxDepth) /\ Readable(array, p) /\ end # Malformed
      /\ Skip(array, end, n - 1, 1) = Len(array) + 1
  <2>1. n # 0 /\ 1 + 1 = 2 /\ Len(array) + 1 # Malformed
    BY <1>1 DEF Malformed
  <2> QED BY <1>1, <2>1, SkipEquation
<1>3. end \in Position
  <2>1. p \in 1 .. Len(array) + 1
    BY <1>1, <1>2 DEF Readable, Position
  <2>2. OwnEnd(array, p) \in Position /\ Items(array, p) \in Nat
    BY <1>1, <1>2, <2>1, ReadingAdvances DEF Position
  <2> QED BY <1>1, <1>2, <2>2, SkipForward DEF SkipsForward, Position, Malformed
<1>4. SkipValueAt(array, p, 1) = end
  <2>1. 1 # 0 /\ 1 + 1 = 2 /\ 1 - 1 = 0
    OBVIOUS
  <2>2. SkipValueAt(array, p, 1) = Skip(array, end, 0, 1)
    BY <1>1, <1>2, <2>1, SkipEquation DEF SkipValueAt
  <2> HIDE DEF end
  <2> QED BY <1>1, <1>3, <2>2, SkipEquation
<1> HIDE DEF end
<1>5. SkipValueAt(array, p, 0) = end
  <2>1. SameAbove(array, 1, 0, p)
    BY <1>1, SkipAbove
  <2>2. 0 + 1 = 1
    OBVIOUS
  <2> QED BY <1>2, <1>4, <2>1, <2>2 DEF SameAbove, SkipValueAt
<1>6. end \in p + 1 .. Len(array) + 1
  BY <1>1, <1>2, <1>4, ValueEnds
<1> QED BY <1>2, <1>4, <1>5, <1>6 DEF p, n

(* A value cut out of the bytes around it is a value by itself.            *)
LEMMA ValueByItself ==
  ASSUME NEW s \in Seq(Byte), NEW p \in Position, NEW d \in Nat, SkipValueAt(s, p, d) # Malformed
  PROVE  LET item == SubSeq(s, p, SkipValueAt(s, p, d) - 1)
         IN  SkipValueAt(item, 1, d) = Len(item) + 1
<1>1. PICK e : e = SkipValueAt(s, p, d)
  OBVIOUS
<1>2. e \in Nat /\ p \in Nat /\ 1 <= p /\ p <= e /\ e <= Len(s) + 1 /\ Len(s) \in Nat
  BY <1>1, ValueEnds DEF Position
<1>3. PICK item : item = SubSeq(s, p, e - 1)
  OBVIOUS
<1>4. item \in Seq(Byte) /\ Len(item) = e - p
  BY <1>2, <1>3, PartOf
<1>5. Grammar[<<item, 1, MaxDepth - d>>]
  <2>1. Grammar[<<SubSeq(s, p, e - 1), 1, MaxDepth - d>>] <=> Skip(s, p, 1, d) = e
    BY <1>2, SkipsWhatTheGrammarHas
  <2> QED BY <1>1, <1>3, <2>1 DEF SkipValueAt
<1>6. PICK end : end = Len(item) + 1
  OBVIOUS
<1>7. end \in Nat /\ 1 <= end /\ end <= Len(item) + 1 /\ 1 \in Position /\ SubSeq(item, 1, end - 1) = item
  <2>1. (Len(item) + 1) - 1 = Len(item) /\ Len(item) + 1 \in Nat
    BY <1>4
  <2> QED BY <1>4, <1>6, <2>1, SubSeqFull DEF Position
<1>8. Grammar[<<SubSeq(item, 1, end - 1), 1, MaxDepth - d>>] <=> Skip(item, 1, 1, d) = end
  BY <1>4, <1>7, SkipsWhatTheGrammarHas
<1>9. Skip(item, 1, 1, d) = end
  BY <1>5, <1>7, <1>8
<1> QED BY <1>1, <1>3, <1>6, <1>9 DEF SkipValueAt

(* Taking an item moves its bytes from what is left to what was taken.     *)
LEMMA TakeKeeps ==
  ASSUME ItemsInv, Take
  PROVE  ItemsInv'
<1> DEFINE p    == it.pos
           end  == SkipValueAt(array, p, 0)
           item == SubSeq(array, p, end - 1)
<1>1. /\ phase = "walking" /\ UNCHANGED <<array, phase>> /\ it.remaining > 0 /\ it.data = array
      /\ taken' = Append(taken, item)
      /\ it' = [it EXCEPT !.pos = end, !.remaining = @ - 1]
      /\ it \in [ok : {TRUE}, data : Seq(Byte), pos : Position, remaining : Nat]
      /\ array \in Seq(Byte) /\ taken \in Seq(Seq(Byte))
  BY DEF Take, ItemsInv, Standing, Yields, NextItem, Advanced
<1>2. /\ end \in p + 1 .. Len(array) + 1 /\ SkipValueAt(array, p, 1) = end
      /\ Skip(array, end, it.remaining - 1, 1) = Len(array) + 1
  BY <1>1, ItemAhead
<1>3. /\ p \in Position /\ p \in Nat /\ 1 <= p /\ end \in Nat /\ end \in Position
      /\ Len(array) \in Nat
  BY <1>1, <1>2 DEF Position
<1> HIDE DEF end, p
<1>4. item \in Seq(Byte) /\ Len(item) = end - p
  BY <1>1, <1>2, <1>3, PartOf, SMTT(30)
<1>5. SkipValueAt(item, 1, 1) = Len(item) + 1
  <2>1. end # Malformed /\ SubSeq(array, p, SkipValueAt(array, p, 1) - 1) = item
    BY <1>2, <1>3 DEF Malformed
  <2>2. array \in Seq(Byte) /\ 1 \in Nat
    BY <1>1
  <2> HIDE DEF item
  <2> QED BY <1>2, <1>3, <2>1, <2>2, ValueByItself
<1> HIDE DEF item
<1>6. /\ taken' \in Seq(Seq(Byte)) /\ Len(taken') = Len(taken) + 1 /\ Len(taken) \in Nat
      /\ \A i \in 1 .. Len(taken) : taken'[i] = taken[i]
      /\ taken'[Len(taken) + 1] = item
  BY <1>1, <1>4, AppendProperties
<1>7. /\ it' \in [ok : {TRUE}, data : Seq(Byte), pos : Position, remaining : Nat]
      /\ it'.data = array /\ it'.pos = end /\ it'.remaining = it.remaining - 1
  <2>1. it.remaining - 1 \in Nat
    BY <1>1
  <2>2. it' = [ok |-> it.ok, data |-> it.data, pos |-> end, remaining |-> it.remaining - 1]
    BY <1>1
  <2> QED BY <1>1, <1>3, <2>1, <2>2
<1>8. /\ HeaderEnd' = HeaderEnd /\ HeaderEnd \in 1 .. Len(array)
      /\ Len(taken) + it.remaining = Announced(array, 1)
      /\ SubSeq(array, 1, HeaderEnd) \o FlattenSeq(taken) = SubSeq(array, 1, p - 1)
      /\ \A i \in DOMAIN taken : SkipValueAt(taken[i], 1, 1) = Len(taken[i]) + 1
  BY <1>1 DEF ItemsInv, Standing, HeaderEnd, p
<1>9. SubSeq(array, 1, HeaderEnd) \o FlattenSeq(taken') = SubSeq(array, 1, end - 1)
  <2>1. FlattenSeq(taken) \in Seq(Byte) /\ FlattenSeq(taken') = FlattenSeq(taken) \o item
    BY <1>1, <1>4, FlattenAppends
  <2>2. SubSeq(array, 1, HeaderEnd) \in Seq(Byte)
    BY <1>1, <1>3, <1>8, SubSeqProperties
  <2>3. SubSeq(array, 1, HeaderEnd) \o FlattenSeq(taken') = SubSeq(array, 1, p - 1) \o item
    <3> DEFINE a == SubSeq(array, 1, HeaderEnd)
               f == FlattenSeq(taken)
    <3>1. a \in Seq(Byte) /\ f \in Seq(Byte) /\ item \in Seq(Byte) /\ a \o f = SubSeq(array, 1, p - 1)
      BY <1>4, <1>8, <2>1, <2>2
    <3>2. FlattenSeq(taken') = f \o item
      BY <2>1
    <3> HIDE DEF a, f
    <3>3. (a \o f) \o item = a \o (f \o item)
      <4>1. ASSUME NEW x \in Seq(Byte), NEW y \in Seq(Byte), NEW z \in Seq(Byte)
            PROVE  (x \o y) \o z = x \o (y \o z)
        BY ConcatAssociative
      <4> QED BY <3>1, <4>1
    <3> QED BY <3>1, <3>2, <3>3 DEF a
  <2>4. SubSeq(array, 1, p - 1) \o SubSeq(array, (p - 1) + 1, end - 1) = SubSeq(array, 1, end - 1)
    <3>1. /\ 1 \in 1 .. Len(array) + 1 /\ p - 1 \in 1 - 1 .. Len(array)
          /\ end - 1 \in p - 1 .. Len(array)
      BY <1>2, <1>3
    <3> QED BY <1>1, <3>1, ConcatAdjacentSubSeq
  <2>5. (p - 1) + 1 = p
    BY <1>3
  <2> QED BY <2>3, <2>4, <2>5 DEF item
<1>10. \A i \in DOMAIN taken' : SkipValueAt(taken'[i], 1, 1) = Len(taken'[i]) + 1
  <2>1. DOMAIN taken' = 1 .. Len(taken) + 1 /\ DOMAIN taken = 1 .. Len(taken)
    BY <1>1, <1>6
  <2>2. \A i \in 1 .. Len(taken) + 1 : i \in 1 .. Len(taken) \/ i = Len(taken) + 1
    BY <1>6
  <2>3. ASSUME NEW i \in 1 .. Len(taken) + 1
        PROVE  SkipValueAt(taken'[i], 1, 1) = Len(taken'[i]) + 1
    <3>1. CASE i \in 1 .. Len(taken)
      BY <1>6, <1>8, <2>1, <3>1
    <3>2. CASE i = Len(taken) + 1
      BY <1>5, <1>6, <3>2
    <3> QED BY <2>2, <3>1, <3>2
  <2> QED BY <2>1, <2>3
<1>11. Len(taken') + it'.remaining = Announced(array, 1)
  BY <1>1, <1>6, <1>7, <1>8
<1>12. Standing'
  BY <1>1, <1>2, <1>7, <1>8, <1>9, <1>10, <1>11 DEF Standing
<1> QED BY <1>1, <1>6, <1>12 DEF ItemsInv

(* The walk stops only where nothing was left.                             *)
LEMMA StopKeeps ==
  ASSUME ItemsInv, Stop
  PROVE  ItemsInv'
<1>1. /\ phase = "walking" /\ phase' = "over" /\ UNCHANGED <<array, it, taken>>
      /\ ~Yields(it) /\ it.data = array /\ it.remaining \in Nat /\ Standing
      /\ it.pos \in Position
  BY DEF Stop, ItemsInv, Standing
<1>2. it.remaining = 0
  <2> SUFFICES ASSUME it.remaining > 0
               PROVE  FALSE
    BY <1>1
  <2>1. SkipValueAt(array, it.pos, 0) \in it.pos + 1 .. Len(array) + 1
    BY <1>1, ItemAhead
  <2>2. SkipValueAt(array, it.pos, 0) # Malformed
    BY <1>1, <2>1 DEF Position, Malformed
  <2> QED BY <1>1, <2>2 DEF Yields
<1>3. Standing'
  BY <1>1 DEF Standing, HeaderEnd
<1> QED BY <1>1, <1>2, <1>3 DEF ItemsInv

LEMMA ItemsInvariant == ArraySpec => []ItemsInv
<1>1. ArrayInit => ItemsInv
  BY ArraysAssumption DEF ArrayInit, ItemsInv
<1>2. ItemsInv /\ [ArrayNext]_walk => ItemsInv'
  <2>1. ItemsInv /\ UNCHANGED walk => ItemsInv'
    BY DEF walk, ItemsInv, Standing, HeaderEnd
  <2> QED BY <2>1, OpenKeeps, TakeKeeps, StopKeeps DEF ArrayNext
<1> QED BY <1>1, <1>2, PTL DEF ArraySpec

(* ExactSizeIterator::len is exact at every moment of every walk, and never*)
(* more than the bytes left: a caller may trust it before it takes an item.*)
THEOREM ItemsAreCounted == ArraySpec => []LenIsExact
<1>1. ItemsInv => LenIsExact
  <2> SUFFICES ASSUME ItemsInv, it.ok
               PROVE  /\ Len(taken) + it.remaining = Announced(array, 1)
                      /\ it.remaining \in 0 .. Len(array) + 1 - it.pos
    BY DEF LenIsExact, ItemsInv
  <2>1. Standing /\ array \in Seq(Byte)
    BY DEF ItemsInv, NoItems
  <2>2. /\ it.pos \in Position /\ it.remaining \in Nat /\ Len(array) \in Nat
        /\ Skip(array, it.pos, it.remaining, 1) = Len(array) + 1
    BY <2>1 DEF Standing
  <2>3. it.pos + it.remaining <= Len(array) + 1
    <3>1. SkipsForward(array, it.remaining, 1, it.pos)
      BY <2>1, <2>2, SkipForward
    <3>2. Len(array) + 1 # Malformed
      BY <2>2 DEF Malformed
    <3> QED BY <2>2, <3>1, <3>2 DEF SkipsForward
  <2> QED BY <2>1, <2>2, <2>3 DEF Standing, Position
<1> QED BY <1>1, ItemsInvariant, PTL

(* The items that array_items yields lie end to end from the header to the *)
(* last byte, and each is a whole value by itself.                         *)
THEOREM ItemsLieEndToEnd == ArraySpec => []ItemsTile
<1>1. ItemsInv => ItemsTile
  <2> SUFFICES ASSUME ItemsInv
               PROVE  ItemsTile
    OBVIOUS
  <2>1. it.ok => Standing
    BY DEF ItemsInv, NoItems
  <2>2. \A i \in DOMAIN taken : SkipValueAt(taken[i], 1, 1) = Len(taken[i]) + 1
    <3>1. CASE phase \in {"walking", "over"}
      BY <3>1 DEF ItemsInv, Standing
    <3>2. CASE phase \in {"given", "refused"}
      <4>1. DOMAIN taken = {}
        BY <3>2 DEF ItemsInv
      <4> QED BY <4>1
    <3> QED BY <3>1, <3>2 DEF ItemsInv
  <2>3. phase = "over" => it.pos = Len(array) + 1
    <3> SUFFICES ASSUME phase = "over"
                 PROVE  it.pos = Len(array) + 1
      OBVIOUS
    <3>1. /\ it.pos \in Position /\ array \in Seq(Byte) /\ it.remaining = 0
          /\ Skip(array, it.pos, 0, 1) = Len(array) + 1
      BY DEF ItemsInv, Standing
    <3> QED BY <3>1, SkipEquation
  <2>4. it.ok => SubSeq(array, 1, 1 + LengthBytes(array[1])) \o FlattenSeq(taken)
                   = SubSeq(array, 1, it.pos - 1)
    BY <2>1 DEF Standing, HeaderEnd
  <2> QED BY <2>2, <2>3, <2>4 DEF ItemsTile
<1> QED BY <1>1, ItemsInvariant, PTL
=============================================================================

------------------------------- MODULE Lemmas -------------------------------
(***************************************************************************)
(* What the proofs about several components rest on: induction on the      *)
(* natural numbers, functions defined by recursion on them, what reading   *)
(* one MessagePack header guarantees, where the pieces of a joined string  *)
(* and the entries of a map lie, and that the readers of a key find the    *)
(* integer that its encoding means.                                        *)
(***************************************************************************)
EXTENDS ValueGrammar, Encodings, SequencesExt, SequenceTheorems, WellFoundedInduction, TLAPS

(* Every non-empty set of natural numbers has a least element.             *)
LEMMA LeastOf ==
  ASSUME NEW T, T \subseteq Nat, T # {}
  PROVE  \E x \in T : \A y \in T : x <= y
<1> DEFINE Below == OpToRel(<, Nat)
<1>1. IsWellFoundedOn(Below, Nat)
  BY NatLessThanWellFounded
<1>2. \A a, b \in Nat : a < b => <<a, b>> \in Below
  BY DEF OpToRel
<1> HIDE DEF Below
<1>3. PICK x \in T : \A y \in T : ~ (<<y, x>> \in Below)
  BY <1>1, WFMin
<1>4. \A y \in T : ~ (y < x)
  BY <1>2, <1>3, Zenon
<1> QED BY <1>3, <1>4

(* Induction: a set that has 0, and with every n its successor, has all.   *)
LEMMA SetInduction ==
  ASSUME NEW S, 0 \in S, \A n \in Nat : n \in S => n + 1 \in S
  PROVE  Nat \subseteq S
<1> SUFFICES ASSUME Nat \ S # {} PROVE FALSE
  OBVIOUS
<1>1. PICK x \in Nat \ S : \A y \in Nat \ S : x <= y
  BY LeastOf
<1>2. x \in Nat /\ x # 0 /\ x - 1 \in Nat
  OBVIOUS
<1>3. x - 1 \in S
  BY <1>1, <1>2
<1> QED BY <1>1, <1>2, <1>3

(* The first n values of a function on Nat defined by recursion: step[i]   *)
(* leads from its value at i to the next.                                  *)
Begins(g, n, first, step) ==
  /\ g[0] = first
  /\ \A i \in Nat : i < n => g[i + 1] = step[i][g[i]]

(* All of them.                                                            *)
Recurs(f, S, first, step) ==
  /\ f \in [Nat -> S] /\ f[0] = first
  /\ \A i \in Nat : f[i + 1] = step[i][f[i]]

(* They can be computed for every n ...                                    *)
LEMMA BeginningExists ==
  ASSUME NEW S, NEW first \in S, NEW step \in [Nat -> [S -> S]], NEW n \in Nat
  PROVE  \E g \in [0 .. n -> S] : Begins(g, n, first, step)
<1> DEFINE T == {m \in Nat : \E g \in [0 .. m -> S] : Begins(g, m, first, step)}
<1>1. 0 \in T
  <2>1. [i \in 0 .. 0 |-> first] \in [0 .. 0 -> S] /\ Begins([i \in 0 .. 0 |-> first], 0, first, step)
    BY DEF Begins
  <2> QED BY <2>1
<1>2. ASSUME NEW m \in Nat, m \in T
      PROVE  m + 1 \in T
  <2>1. PICK g \in [0 .. m -> S] : Begins(g, m, first, step)
    BY <1>2
  <2> DEFINE h == [i \in 0 .. m + 1 |-> IF i <= m THEN g[i] ELSE step[m][g[m]]]
  <2>2. step[m][g[m]] \in S
    BY <2>1
  <2>3. h \in [0 .. m + 1 -> S]
    BY <2>2
  <2>4. Begins(h, m + 1, first, step)
    <3>1. h[0] = first
      BY <2>1 DEF Begins
    <3>2. ASSUME NEW i \in Nat, i < m + 1
          PROVE  h[i + 1] = step[i][h[i]]
      <4>1. CASE i < m
        BY <2>1, <3>2, <4>1 DEF Begins
      <4>2. CASE i = m
        BY <4>2
      <4> QED BY <3>2, <4>1, <4>2
    <3> HIDE DEF h
    <3> QED BY <3>1, <3>2 DEF Begins
  <2> QED BY <2>3, <2>4
<1> HIDE DEF T
<1>3. n \in T
  BY <1>1, <1>2, SetInduction
<1> QED BY <1>3 DEF T

(* ... in one way only ...                                                 *)
LEMMA BeginningUnique ==
  ASSUME NEW first, NEW step, NEW m \in Nat, NEW n \in Nat, m <= n,
         NEW g, NEW h, Begins(g, m, first, step), Begins(h, n, first, step)
  PROVE  g[m] = h[m]
<1> DEFINE T == {i \in Nat : i <= m => g[i] = h[i]}
<1>1. 0 \in T
  BY DEF Begins
<1>2. ASSUME NEW i \in Nat, i \in T
      PROVE  i + 1 \in T
  BY <1>2 DEF Begins
<1> HIDE DEF T
<1>3. m \in T
  BY <1>1, <1>2, SetInduction
<1> QED BY <1>3 DEF T

(* ... and together they are the function that the recursion defines.      *)
LEMMA NatRecursion ==
  ASSUME NEW S, NEW first \in S, NEW step \in [Nat -> [S -> S]]
  PROVE  \E f : Recurs(f, S, first, step)
<1> DEFINE g(n) == CHOOSE h \in [0 .. n -> S] : Begins(h, n, first, step)
           f == [n \in Nat |-> g(n)[n]]
<1>1. \A n \in Nat : g(n) \in [0 .. n -> S] /\ Begins(g(n), n, first, step)
  BY BeginningExists
<1> HIDE DEF g
<1>2. f \in [Nat -> S]
  BY <1>1
<1>3. f[0] = first
  BY <1>1 DEF Begins
<1>4. ASSUME NEW i \in Nat
      PROVE  f[i + 1] = step[i][f[i]]
  <2>1. i + 1 \in Nat /\ i <= i + 1 /\ i < i + 1
    OBVIOUS
  <2>2. g(i + 1)[i + 1] = step[i][g(i + 1)[i]]
    BY <1>1, <2>1 DEF Begins
  <2>3. g(i)[i] = g(i + 1)[i]
    BY <1>1, <2>1, BeginningUnique
  <2> QED BY <2>1, <2>2, <2>3
<1> QED BY <1>2, <1>3, <1>4 DEF Recurs

(* Putting sequences end to end, one after another.                        *)
JoinStep(S, seqs) ==
  [i \in Nat |-> [x \in Seq(S) |-> IF i < Len(seqs) THEN x \o seqs[i + 1] ELSE x]]
LEMMA JoinSteps ==
  ASSUME NEW S, NEW seqs \in Seq(Seq(S))
  PROVE  /\ JoinStep(S, seqs) \in [Nat -> [Seq(S) -> Seq(S)]]
         /\ \A i \in Nat, x \in Seq(S) :
              JoinStep(S, seqs)[i][x] = IF i < Len(seqs) THEN x \o seqs[i + 1] ELSE x
<1>1. ASSUME NEW i \in Nat, NEW x \in Seq(S)
      PROVE  (IF i < Len(seqs) THEN x \o seqs[i + 1] ELSE x) \in Seq(S)
  <2>1. CASE i < Len(seqs)
    <3>1. seqs[i + 1] \in Seq(S)
      BY <2>1
    <3> QED BY <2>1, <3>1, ConcatProperties
  <2> QED BY <2>1
<1> QED BY <1>1 DEF JoinStep

LEMMA FlattenJoins ==
  ASSUME NEW S, NEW seqs \in Seq(Seq(S)), NEW r, Recurs(r, Seq(S), <<>>, JoinStep(S, seqs))
  PROVE  FlattenSeq(seqs) = r[Len(seqs)]
<1> DEFINE n == Len(seqs)
           IsFlat(f) == f = [i \in 1 .. n |-> IF i = 1 THEN seqs[i] ELSE f[i - 1] \o seqs[i]]
<1>1. n \in Nat
  OBVIOUS
<1>2. /\ r[0] = <<>> /\ \A i \in Nat : r[i] \in Seq(S)
      /\ \A i \in Nat : i < n => r[i + 1] = r[i] \o seqs[i + 1]
  <2>1. \A i \in Nat, x \in Seq(S) :
          JoinStep(S, seqs)[i][x] = IF i < Len(seqs) THEN x \o seqs[i + 1] ELSE x
    BY JoinSteps
  <2>2. /\ r[0] = <<>> /\ \A i \in Nat : r[i] \in Seq(S)
        /\ \A i \in Nat : r[i + 1] = JoinStep(S, seqs)[i][r[i]]
    BY DEF Recurs
  <2> QED BY <2>1, <2>2
<1>3. n > 0 => r[1] = seqs[1]
  <2> SUFFICES ASSUME n > 0
               PROVE  r[1] = seqs[1]
    OBVIOUS
  <2>1. 0 \in Nat /\ 0 < n /\ 0 + 1 = 1
    OBVIOUS
  <2>2. seqs[1] \in Seq(S)
    BY <1>1, <2>1
  <2>3. r[1] = r[0] \o seqs[1]
    BY <1>2, <2>1
  <2> QED BY <1>2, <2>2, <2>3, ConcatEmptySeq
<1> HIDE DEF n
<1>4. \E f : IsFlat(f)
  <2> DEFINE f == [i \in 1 .. n |-> r[i]]
  <2>1. \A i \in 1 .. n : f[i] = IF i = 1 THEN seqs[i] ELSE f[i - 1] \o seqs[i]
    <3> SUFFICES ASSUME NEW i \in 1 .. n
                 PROVE  r[i] = IF i = 1 THEN seqs[i] ELSE f[i - 1] \o seqs[i]
      OBVIOUS
    <3>1. CASE i = 1
      BY <1>1, <1>3, <3>1
    <3>2. CASE i # 1
      <4>1. i - 1 \in Nat /\ i - 1 < n /\ (i - 1) + 1 = i /\ i - 1 \in 1 .. n
        BY <1>1, <3>2
      <4>2. f[i - 1] = r[i - 1]
        BY <4>1
      <4> HIDE DEF f
      <4>3. r[(i - 1) + 1] = r[i - 1] \o seqs[(i - 1) + 1]
        BY <1>2, <4>1
      <4> QED BY <3>2, <4>1, <4>2, <4>3
    <3> QED BY <3>1, <3>2
  <2>2. f = [i \in 1 .. n |-> IF i = 1 THEN seqs[i] ELSE f[i - 1] \o seqs[i]]
    BY <2>1
  <2> QED BY <2>2, Zenon
<1> DEFINE flat == CHOOSE f : IsFlat(f)
<1>5. IsFlat(flat)
  BY <1>4
<1>6. FlattenSeq(seqs) = IF n = 0 THEN seqs ELSE flat[n]
  BY DEF FlattenSeq, n
<1> HIDE DEF flat
<1>7. \A i \in 1 .. n : flat[i] = IF i = 1 THEN seqs[i] ELSE flat[i - 1] \o seqs[i]
  BY <1>5
<1>8. CASE n = 0
  <2>1. seqs = <<>>
    BY <1>8, EmptySeq DEF n
  <2> QED BY <1>2, <1>6, <1>8, <2>1 DEF n
<1>9. CASE n > 0
  <2> DEFINE T == {i \in Nat : i + 1 <= n => flat[i + 1] = r[i + 1]}
  <2>1. 0 \in T
    <3>1. 1 \in 1 .. n
      BY <1>1, <1>9
    <3> QED BY <1>3, <1>7, <1>9, <3>1
  <2>2. ASSUME NEW i \in Nat, i \in T
        PROVE  i + 1 \in T
    <3> SUFFICES ASSUME (i + 1) + 1 <= n
                 PROVE  flat[(i + 1) + 1] = r[(i + 1) + 1]
      OBVIOUS
    <3>1. /\ (i + 1) + 1 \in 1 .. n /\ (i + 1) + 1 # 1 /\ ((i + 1) + 1) - 1 = i + 1
          /\ i + 1 \in Nat /\ i + 1 < n
      BY <1>1
    <3>2. flat[(i + 1) + 1] = flat[i + 1] \o seqs[(i + 1) + 1]
      BY <1>7, <3>1
    <3>3. flat[i + 1] = r[i + 1]
      BY <1>1, <2>2, <3>1
    <3> QED BY <1>2, <3>1, <3>2, <3>3
  <2> HIDE DEF T
  <2>3. Nat \subseteq T
    BY <2>1, <2>2, SetInduction
  <2>4. n - 1 \in T /\ (n - 1) + 1 = n /\ (n - 1) + 1 <= n
    BY <1>1, <1>9, <2>3
  <2>5. flat[(n - 1) + 1] = r[(n - 1) + 1]
    BY <2>4 DEF T
  <2> QED BY <1>6, <1>9, <2>4, <2>5 DEF n
<1> QED BY <1>1, <1>8, <1>9

(* So one more sequence goes behind all that came before.                  *)
LEMMA FlattenAppends ==
  ASSUME NEW S, NEW t \in Seq(Seq(S)), NEW x \in Seq(S)
  PROVE  /\ FlattenSeq(t) \in Seq(S)
         /\ FlattenSeq(Append(t, x)) = FlattenSeq(t) \o x
<1> DEFINE Strings == Seq(S)
           u == Append(t, x)
           n == Len(t)
<1>1. /\ u \in Seq(Strings) /\ Len(u) = n + 1 /\ n \in Nat /\ u[n + 1] = x
      /\ \A i \in 1 .. n : u[i] = t[i]
  BY AppendProperties
<1>2. <<>> \in Strings
  OBVIOUS
<1> HIDE DEF Strings, u
<1>3. PICK r : Recurs(r, Strings, <<>>, JoinStep(S, t))
  <2>1. JoinStep(S, t) \in [Nat -> [Strings -> Strings]]
    BY JoinSteps DEF Strings
  <2> QED BY <1>2, <2>1, NatRecursion, Zenon
<1>4. PICK q : Recurs(q, Strings, <<>>, JoinStep(S, u))
  <2>1. JoinStep(S, u) \in [Nat -> [Strings -> Strings]]
    BY <1>1, JoinSteps DEF Strings
  <2> QED BY <1>2, <2>1, NatRecursion, Zenon
<1>5. Begins(q, n, <<>>, JoinStep(S, u))
  BY <1>1, <1>4 DEF Recurs, Begins
<1>6. Begins(r, n, <<>>, JoinStep(S, u))
  <2>1. r[0] = <<>> /\ \A i \in Nat : r[i] \in Strings /\ r[i + 1] = JoinStep(S, t)[i][r[i]]
    BY <1>3 DEF Recurs
  <2> SUFFICES ASSUME NEW i \in Nat, i < n
               PROVE  r[i + 1] = JoinStep(S, u)[i][r[i]]
    BY <2>1 DEF Begins
  <2>2. r[i + 1] = r[i] \o t[i + 1]
    <3>1. \A k \in Nat, y \in Seq(S) :
            JoinStep(S, t)[k][y] = IF k < Len(t) THEN y \o t[k + 1] ELSE y
      BY JoinSteps
    <3> QED BY <2>1, <3>1 DEF Strings
  <2>3. JoinStep(S, u)[i][r[i]] = r[i] \o u[i + 1]
    <3>1. Len(u) = n + 1 /\ n \in Nat
      BY <1>1
    <3> HIDE DEF n
    <3>2. i < Len(u) /\ r[i] \in Strings
      BY <2>1, <3>1
    <3>3. \A k \in Nat, y \in Seq(S) :
            JoinStep(S, u)[k][y] = IF k < Len(u) THEN y \o u[k + 1] ELSE y
      <4>1. u \in Seq(Seq(S))
        BY <1>1 DEF Strings
      <4> QED BY <4>1, JoinSteps
    <3> QED BY <3>2, <3>3 DEF Strings
  <2>4. i + 1 \in 1 .. n
    BY <1>1
  <2> QED BY <1>1, <2>2, <2>3, <2>4
<1>7. q[n] = r[n]
  BY <1>1, <1>5, <1>6, BeginningUnique
<1>8. FlattenSeq(t) = r[n] /\ FlattenSeq(u) = q[n + 1] /\ r[n] \in Strings
  <2>1. FlattenSeq(t) = r[n]
    BY <1>3, FlattenJoins DEF Strings
  <2>2. FlattenSeq(u) = q[Len(u)]
    BY <1>1, <1>4, FlattenJoins DEF Strings
  <2> QED BY <1>1, <1>3, <2>1, <2>2 DEF Recurs
<1>9. q[n + 1] = q[n] \o x
  <2>1. q[n] \in Strings /\ q[n + 1] = JoinStep(S, u)[n][q[n]] /\ n < Len(u)
    BY <1>1, <1>4 DEF Recurs
  <2> QED BY <1>1, <2>1, JoinSteps DEF Strings
<1> QED BY <1>7, <1>8, <1>9 DEF Strings, u

-----------------------------------------------------------------------------
(* The arithmetic of a prefix, apart from where its bytes come from.       *)
LEMMA ThreeBytes ==
  ASSUME NEW a \in Nat, NEW b \in Nat, NEW c \in Nat
  PROVE  65536 * a + 256 * b + c \in Nat
  OBVIOUS

(* The count or length carried by a fix code itself is a natural number.   *)
LEMMA CountInCode ==
  ASSUME NEW b \in Nat
  PROVE  (IF b \in FixStr THEN b - 160
          ELSE IF b \in FixArray THEN b - 144
          ELSE IF b \in FixMap THEN b - 128
          ELSE 0) \in Nat
  BY SMT DEF FixStr, FixArray, FixMap

(* Bytes are numbers.                                                      *)
LEMMA BytesAreNat ==
  ASSUME NEW s \in Seq(Byte)
  PROVE  \A i \in 1 .. Len(s) : s[i] \in Nat
<1>1. \A i \in 1 .. Len(s) : s[i] \in Byte
  OBVIOUS
<1>2. Byte \subseteq Nat
  BY DEF Byte
<1> QED BY <1>1, <1>2

(* A prefix of at most four bytes that lies in the data is a number.       *)
LEMMA AnnouncedIsNat ==
  ASSUME NEW s \in Seq(Byte), NEW p \in 1 .. Len(s), p + LengthBytes(s[p]) <= Len(s)
  PROVE  Announced(s, p) \in Nat
<1> HIDE DEF Byte
<1>1. \A i \in 1 .. Len(s) : s[i] \in Nat
  BY BytesAreNat
<1>2. s[p] \in Nat /\ Len(s) \in Nat
  BY <1>1
<1>3. CASE LengthBytes(s[p]) = 0
  BY <1>2, <1>3, CountInCode DEF Announced
<1>4. CASE LengthBytes(s[p]) = 1
  BY <1>1, <1>2, <1>4, SMT DEF Announced, BigEndian
<1>5. CASE LengthBytes(s[p]) = 2
  <2>1. s[p + 1] \in Nat /\ s[p + 2] \in Nat
    BY <1>1, <1>2, <1>5
  <2>2. Announced(s, p) = 256 * s[p + 1] + s[p + 2]
    BY <1>5, SMT DEF Announced, BigEndian
  <2> QED BY <2>1, <2>2
<1>6. CASE LengthBytes(s[p]) = 4
  <2>1. s[p + 1] \in Nat /\ s[p + 2] \in Nat /\ s[p + 3] \in Nat /\ s[p + 4] \in Nat
    BY <1>1, <1>2, <1>6
  <2>2. Announced(s, p) = IF s[p + 1] > 0 THEN Huge
                          ELSE 65536 * s[p + 2] + 256 * s[p + 3] + s[p + 4]
    BY <1>6, SMT DEF Announced, BigEndian
  <2>3. PICK x \in Nat, y \in Nat, z \in Nat :
          x = s[p + 2] /\ y = s[p + 3] /\ z = s[p + 4]
    BY <2>1
  <2>4. Huge \in Nat
    BY SMT DEF Huge
  <2>5. 65536 * x + 256 * y + z \in Nat
    BY ThreeBytes
  <2>6. Announced(s, p) = IF s[p + 1] > 0 THEN Huge ELSE 65536 * x + 256 * y + z
    BY <2>2, <2>3
  <2> QED BY <2>4, <2>5, <2>6
<1>7. LengthBytes(s[p]) \in {0, 1, 2, 4}
  BY DEF LengthBytes
<1> QED BY <1>3, <1>4, <1>5, <1>6, <1>7

(* Reading a value consumes at least its code and stays in the data.       *)
LEMMA ReadingAdvances ==
  ASSUME NEW s \in Seq(Byte), NEW p \in 1 .. Len(s) + 1, Readable(s, p)
  PROVE  /\ OwnEnd(s, p) \in p + 1 .. Len(s) + 1
         /\ Items(s, p) \in Nat
<1>1. p \in 1 .. Len(s) /\ p + LengthBytes(s[p]) <= Len(s) /\ OwnEnd(s, p) <= Len(s) + 1
  BY DEF Readable
<1>2. Announced(s, p) \in Nat
  BY <1>1, AnnouncedIsNat
<1>3. LengthBytes(s[p]) \in Nat /\ NumberBody(s[p]) \in Nat
  BY DEF LengthBytes, NumberBody
<1>4. OwnEnd(s, p) \in Nat /\ OwnEnd(s, p) >= p + 1
  BY <1>1, <1>2, <1>3 DEF OwnEnd
<1>5. Items(s, p) \in Nat
  BY <1>2 DEF Items
<1> QED BY <1>1, <1>4, <1>5

-----------------------------------------------------------------------------
(* Positions, and the position after n values for every n and start.       *)
Position == Nat \ {0}
EndTable == [Nat -> [Position -> Nat]]

(* What lies behind the value at p, if deeper ends the ones nested in it.  *)
After(s, deeper, p) ==
  IF Readable(s, p) THEN deeper[Items(s, p)][OwnEnd(s, p)] ELSE Malformed

(* ends is skip_n at one depth, deeper the same at the next.               *)
IsLoop(s, deeper, ends) ==
  \A p \in Position :
    /\ ends[0][p] = p
    /\ \A n \in Nat :
         ends[n + 1][p] = IF After(s, deeper, p) = Malformed THEN Malformed
                          ELSE ends[n][After(s, deeper, p)]

(* A readable value is followed by a position.                             *)
LEMMA AfterIsNat ==
  ASSUME NEW s \in Seq(Byte), NEW deeper \in EndTable, NEW p \in Position
  PROVE  After(s, deeper, p) \in Nat
<1>1. CASE Readable(s, p)
  <2>1. p \in 1 .. Len(s) + 1 /\ Len(s) \in Nat
    BY <1>1 DEF Readable, Position
  <2>2. Items(s, p) \in Nat /\ OwnEnd(s, p) \in p + 1 .. Len(s) + 1
    BY <1>1, <2>1, ReadingAdvances
  <2>3. OwnEnd(s, p) \in Position
    BY <2>1, <2>2 DEF Position
  <2> QED BY <1>1, <2>2, <2>3 DEF After, EndTable
<1>2. CASE ~Readable(s, p)
  BY <1>2 DEF After, Malformed
<1> QED BY <1>1, <1>2

(* At each depth the loop over n values is defined by the depth below it.  *)
LEMMA LoopExists ==
  ASSUME NEW s \in Seq(Byte), NEW deeper \in EndTable
  PROVE  \E ends \in EndTable : IsLoop(s, deeper, ends)
<1> DEFINE S == [Position -> Nat]
           first == [p \in Position |-> p]
           next(h) == [p \in Position |->
                         IF After(s, deeper, p) = Malformed THEN Malformed
                         ELSE h[After(s, deeper, p)]]
           step == [i \in Nat |-> [h \in S |-> next(h)]]
<1>1. first \in S
  BY DEF Position
<1>2. \A h \in S : next(h) \in S
  <2> TAKE h \in S
  <2>1. ASSUME NEW p \in Position
        PROVE  (IF After(s, deeper, p) = Malformed THEN Malformed
                ELSE h[After(s, deeper, p)]) \in Nat
    <3>1. After(s, deeper, p) \in Nat
      BY AfterIsNat
    <3> QED BY <3>1 DEF Malformed, Position
  <2> QED BY <2>1
<1> HIDE DEF next, first, S
<1>3. step \in [Nat -> [S -> S]]
  BY <1>2
<1>4. \A i \in Nat : \A h \in S : step[i][h] = next(h)
  OBVIOUS
<1> HIDE DEF step
<1>5. PICK ends : Recurs(ends, S, first, step)
  BY <1>1, <1>3, NatRecursion, Zenon
<1>6. /\ ends \in [Nat -> S] /\ ends[0] = first
      /\ \A n \in Nat : ends[n + 1] = next(ends[n])
  BY <1>4, <1>5 DEF Recurs
<1>7. \A p \in Position : ends[0][p] = p
  BY <1>6 DEF first
<1>8. ASSUME NEW p \in Position, NEW n \in Nat
      PROVE  ends[n + 1][p] = IF After(s, deeper, p) = Malformed THEN Malformed
                              ELSE ends[n][After(s, deeper, p)]
  <2>1. ends[n + 1] = next(ends[n])
    BY <1>6
  <2> QED BY <2>1, Zenon DEF next
<1>9. IsLoop(s, deeper, ends)
  BY <1>7, <1>8, Zenon DEF IsLoop
<1> QED BY <1>6, <1>9 DEF EndTable, S

(* Past the deepest level nothing is entered; each level above is a loop.  *)
Bottom == [n \in Nat |-> [p \in Position |-> IF n = 0 THEN p ELSE Malformed]]
Loop(s, deeper) == CHOOSE ends \in EndTable : IsLoop(s, deeper, ends)
LEMMA LevelsExist ==
  ASSUME NEW s \in Seq(Byte)
  PROVE  \E level \in [Nat -> EndTable] :
           level[0] = Bottom /\ \A k \in Nat : IsLoop(s, level[k], level[k + 1])
<1> DEFINE step == [i \in Nat |-> [deeper \in EndTable |-> Loop(s, deeper)]]
<1>1. \A deeper \in EndTable : Loop(s, deeper) \in EndTable /\ IsLoop(s, deeper, Loop(s, deeper))
  BY LoopExists DEF Loop
<1>2. Bottom \in EndTable
  BY DEF Bottom, EndTable, Position, Malformed
<1>3. step \in [Nat -> [EndTable -> EndTable]] /\ \A i \in Nat : \A g \in EndTable : step[i][g] = Loop(s, g)
  BY <1>1
<1> HIDE DEF step
<1>4. PICK level : Recurs(level, EndTable, Bottom, step)
  BY <1>2, <1>3, NatRecursion, Zenon
<1>5. level \in [Nat -> EndTable] /\ level[0] = Bottom
  BY <1>4 DEF Recurs
<1>6. ASSUME NEW k \in Nat
      PROVE  IsLoop(s, level[k], level[k + 1])
  <2>1. level[k] \in EndTable
    BY <1>5
  <2>2. level[k + 1] = Loop(s, level[k])
    BY <1>3, <1>4, <2>1 DEF Recurs
  <2> QED BY <1>1, <2>1, <2>2, Zenon
<1> QED BY <1>5, <1>6, Zenon

(* The same by depth, which is what skip_value carries.                    *)
LEMMA DepthsExist ==
  ASSUME NEW s \in Seq(Byte)
  PROVE  \E ends \in [Nat -> EndTable] :
           \A d \in Nat : IF d > MaxDepth THEN ends[d] = Bottom
                          ELSE IsLoop(s, ends[d + 1], ends[d])
<1>1. PICK level \in [Nat -> EndTable] :
        level[0] = Bottom /\ \A k \in Nat : IsLoop(s, level[k], level[k + 1])
  BY LevelsExist
<1> DEFINE ends == [d \in Nat |-> IF d > MaxDepth THEN Bottom ELSE level[MaxDepth + 1 - d]]
<1>2. \A d \in Nat : d <= MaxDepth => MaxDepth - d \in Nat /\ MaxDepth + 1 - d = (MaxDepth - d) + 1
  BY DepthAssumption
<1>3. ends \in [Nat -> EndTable]
  BY <1>1, <1>2, DepthAssumption
<1>4. ASSUME NEW d \in Nat
      PROVE  IF d > MaxDepth THEN ends[d] = Bottom ELSE IsLoop(s, ends[d + 1], ends[d])
  <2>1. CASE d > MaxDepth
    BY <2>1
  <2>2. CASE d <= MaxDepth
    <3>1. ends[d] = level[(MaxDepth - d) + 1]
      BY <1>2, <2>2, DepthAssumption
    <3>2. ends[d + 1] = level[MaxDepth - d]
      <4>1. CASE d = MaxDepth
        <5>1. d + 1 > MaxDepth /\ d + 1 \in Nat /\ MaxDepth - d = 0
          BY <4>1, DepthAssumption
        <5> QED BY <1>1, <5>1
      <4>2. CASE d < MaxDepth
        <5>1. /\ ~ (d + 1 > MaxDepth) /\ d + 1 \in Nat
              /\ MaxDepth + 1 - (d + 1) = MaxDepth - d
          BY <4>2, DepthAssumption
        <5> QED BY <5>1
      <4> QED BY <2>2, <4>1, <4>2, DepthAssumption
    <3>3. ~ (d > MaxDepth)
      BY <2>2, DepthAssumption
    <3> QED BY <1>1, <1>2, <2>2, <3>1, <3>2, <3>3, Zenon
  <2> QED BY <2>1, <2>2, DepthAssumption
<1> QED BY <1>3, <1>4, Zenon

(* f is the table of all calls that Skip defines by recursion.             *)
SkipStep(s, f, call) ==
  LET n == call[1]
      d == call[2]
      p == call[3]
  IN  IF n = 0 THEN p
      ELSE IF d > MaxDepth \/ ~Readable(s, p) THEN Malformed
      ELSE LET q == f[<<Items(s, p), d + 1, OwnEnd(s, p)>>]
           IN  IF q = Malformed THEN Malformed ELSE f[<<n - 1, d, q>>]
IsSkip(s, f) == f = [call \in Nat \X Nat \X (Nat \ {0}) |-> SkipStep(s, f, call)]

(* There is such a table.                                                  *)
LEMMA SkipExists ==
  ASSUME NEW s \in Seq(Byte)
  PROVE  \E f : IsSkip(s, f)
<1>1. PICK ends \in [Nat -> EndTable] :
        \A d \in Nat : IF d > MaxDepth THEN ends[d] = Bottom
                       ELSE IsLoop(s, ends[d + 1], ends[d])
  BY DepthsExist
<1> DEFINE Calls == Nat \X Nat \X (Nat \ {0})
           f == [call \in Calls |-> ends[call[2]][call[1]][call[3]]]
<1>2. ASSUME NEW n \in Nat, NEW d \in Nat, NEW p \in Position
      PROVE  f[<<n, d, p>>] = ends[d][n][p]
  BY DEF Position
<1> HIDE DEF f
<1>3. ASSUME NEW n \in Nat, NEW d \in Nat, NEW p \in Position
      PROVE  f[<<n, d, p>>] = SkipStep(s, f, <<n, d, p>>)
  <2>1. CASE n = 0
    <3>1. ends[d][0][p] = p
      <4>1. CASE d > MaxDepth
        BY <1>1, <4>1 DEF Bottom
      <4>2. CASE ~ (d > MaxDepth)
        BY <1>1, <4>2 DEF IsLoop
      <4> QED BY <4>1, <4>2
    <3> QED BY <1>2, <2>1, <3>1 DEF SkipStep
  <2>2. CASE n # 0 /\ d > MaxDepth
    BY <1>1, <1>2, <2>2 DEF SkipStep, Bottom
  <2>3. CASE n # 0 /\ ~ (d > MaxDepth)
    <3>1. PICK k \in Nat : n = k + 1 /\ k = n - 1
      <4>1. n - 1 \in Nat /\ n = (n - 1) + 1
        BY <2>3
      <4> QED BY <4>1
    <3>2. /\ IsLoop(s, ends[d + 1], ends[d]) /\ ends[d + 1] \in EndTable /\ d + 1 \in Nat
          /\ ends[d] \in EndTable
      BY <1>1, <2>3
    <3> DEFINE q == After(s, ends[d + 1], p)
    <3>3. q \in Nat
      BY <3>2, AfterIsNat
    <3>4. f[<<n, d, p>>] = IF q = Malformed THEN Malformed ELSE ends[d][k][q]
      <4>1. ends[d][k + 1][p] = IF q = Malformed THEN Malformed ELSE ends[d][k][q]
        BY <3>2, Zenon DEF IsLoop
      <4> HIDE DEF q
      <4> QED BY <1>2, <3>1, <4>1
    <3>5. CASE ~Readable(s, p)
      BY <2>3, <3>4, <3>5 DEF After, SkipStep
    <3>6. CASE Readable(s, p)
      <4>1. Items(s, p) \in Nat /\ OwnEnd(s, p) \in Position
        <5>1. p \in 1 .. Len(s) + 1 /\ Len(s) \in Nat
          BY <3>6 DEF Readable, Position
        <5> QED BY <3>6, <5>1, ReadingAdvances DEF Position
      <4>2. q = f[<<Items(s, p), d + 1, OwnEnd(s, p)>>]
        BY <1>2, <3>2, <3>6, <4>1 DEF After
      <4>3. q # Malformed => f[<<k, d, q>>] = ends[d][k][q]
        BY <1>2, <3>3 DEF Position, Malformed
      <4> HIDE DEF q
      <4> QED BY <2>3, <3>1, <3>4, <3>6, <4>2, <4>3 DEF SkipStep
    <3> QED BY <3>5, <3>6
  <2> QED BY <2>1, <2>2, <2>3
<1>4. \A call \in Calls : f[call] = SkipStep(s, f, call)
  BY <1>3 DEF Position
<1>5. f = [call \in Calls |-> f[call]]
  BY DEF f
<1>6. IsSkip(s, f)
  BY <1>4, <1>5 DEF IsSkip
<1> QED BY <1>6

(* So Skip is what its recursion says, for every call.                     *)
LEMMA SkipEquation ==
  ASSUME NEW s \in Seq(Byte), NEW n \in Nat, NEW d \in Nat, NEW p \in Position
  PROVE  Skip(s, p, n, d) =
           IF n = 0 THEN p
           ELSE IF d > MaxDepth \/ ~Readable(s, p) THEN Malformed
           ELSE IF Skip(s, OwnEnd(s, p), Items(s, p), d + 1) = Malformed THEN Malformed
           ELSE Skip(s, Skip(s, OwnEnd(s, p), Items(s, p), d + 1), n - 1, d)
<1> DEFINE f == CHOOSE g : IsSkip(s, g)
<1>1. IsSkip(s, f)
  BY SkipExists
<1>2. \A m, e, q : Skip(s, q, m, e) = f[<<m, e, q>>]
  BY DEF Skip, IsSkip, SkipStep
<1> HIDE DEF f
<1>3. f[<<n, d, p>>] = SkipStep(s, f, <<n, d, p>>)
  BY <1>1 DEF IsSkip, Position
<1> QED BY <1>2, <1>3 DEF SkipStep

(* Skipped values consume at least a byte each and stay in the data.       *)
SkipsForward(s, n, d, p) ==
  /\ Skip(s, p, n, d) \in Nat
  /\ Skip(s, p, n, d) # Malformed => /\ p + n <= Skip(s, p, n, d)
                                     /\ n > 0 => Skip(s, p, n, d) <= Len(s) + 1
LEMMA SkipForward ==
  ASSUME NEW s \in Seq(Byte), NEW n \in Nat, NEW d \in Nat, NEW p \in Position
  PROVE  SkipsForward(s, n, d, p)
<1> DEFINE Deep(k) == \A m \in Nat, e \in Nat, q \in Position :
                        MaxDepth + 1 <= e + k => SkipsForward(s, m, e, q)
           T == {k \in Nat : Deep(k)}
<1>1. ASSUME NEW e \in Nat, NEW q \in Position
      PROVE  SkipsForward(s, 0, e, q)
  <2>1. Skip(s, q, 0, e) = q
    BY <1>1, SkipEquation
  <2> QED BY <2>1 DEF SkipsForward, Position
<1>2. 0 \in T
  <2> SUFFICES ASSUME NEW m \in Nat, NEW e \in Nat, NEW q \in Position, e > MaxDepth
               PROVE  SkipsForward(s, m, e, q)
    BY DepthAssumption
  <2>1. Skip(s, q, m, e) = IF m = 0 THEN q ELSE Malformed
    BY SkipEquation
  <2> QED BY <1>1, <2>1 DEF SkipsForward, Malformed
<1>3. ASSUME NEW k \in Nat, Deep(k)
      PROVE  Deep(k + 1)
  <2> SUFFICES ASSUME NEW e \in Nat, MaxDepth + 1 <= e + (k + 1)
               PROVE  \A m \in Nat, q \in Position : SkipsForward(s, m, e, q)
    OBVIOUS
  <2> DEFINE U == {m \in Nat : \A q \in Position : SkipsForward(s, m, e, q)}
  <2>1. 0 \in U
    BY <1>1
  <2>2. ASSUME NEW m \in Nat, m \in U
        PROVE  m + 1 \in U
    <3> SUFFICES ASSUME NEW q \in Position
                 PROVE  SkipsForward(s, m + 1, e, q)
      OBVIOUS
    <3> DEFINE inner == Skip(s, OwnEnd(s, q), Items(s, q), e + 1)
    <3>1. Skip(s, q, m + 1, e) =
            IF e > MaxDepth \/ ~Readable(s, q) THEN Malformed
            ELSE IF inner = Malformed THEN Malformed ELSE Skip(s, inner, m, e)
      <4>1. m + 1 \in Nat /\ m + 1 # 0 /\ (m + 1) - 1 = m
        OBVIOUS
      <4> QED BY <4>1, SkipEquation
    <3>2. CASE e > MaxDepth \/ ~Readable(s, q)
      BY <3>1, <3>2 DEF SkipsForward, Malformed
    <3>3. CASE ~ (e > MaxDepth) /\ Readable(s, q)
      <4>1. /\ q \in Nat /\ Len(s) \in Nat /\ Items(s, q) \in Nat /\ OwnEnd(s, q) \in Position
            /\ q + 1 <= OwnEnd(s, q) /\ OwnEnd(s, q) <= Len(s) + 1
        <5>1. q \in 1 .. Len(s) + 1 /\ Len(s) \in Nat
          BY <3>3 DEF Readable, Position
        <5> QED BY <3>3, <5>1, ReadingAdvances DEF Position
      <4> DEFINE i == Items(s, q)
                 o == OwnEnd(s, q)
      <4>2. SkipsForward(s, i, e + 1, o)
        <5>1. e + 1 \in Nat /\ MaxDepth + 1 <= (e + 1) + k /\ i \in Nat /\ o \in Position
          BY <4>1, DepthAssumption
        <5> HIDE DEF i, o
        <5> QED BY <1>3, <5>1
      <4>3. inner \in Nat /\ (inner # Malformed => q + 1 <= inner /\ inner <= Len(s) + 1)
        <5>1. e + 1 \in Nat /\ i \in Nat /\ o \in Position
          BY <4>1
        <5> HIDE DEF i, o
        <5>2. i = 0 => Skip(s, o, i, e + 1) = o
          BY <5>1, SkipEquation
        <5>3. /\ Skip(s, o, i, e + 1) \in Nat
              /\ Skip(s, o, i, e + 1) # Malformed =>
                   q + 1 <= Skip(s, o, i, e + 1) /\ Skip(s, o, i, e + 1) <= Len(s) + 1
          <6>1. q + 1 <= o /\ o <= Len(s) + 1 /\ q \in Nat /\ o \in Nat /\ Len(s) \in Nat
            BY <4>1 DEF i, o, Position
          <6> DEFINE r == Skip(s, o, i, e + 1)
          <6>2. r \in Nat /\ (r # Malformed => o + i <= r /\ (i > 0 => r <= Len(s) + 1))
            BY <4>2 DEF SkipsForward
          <6>3. i = 0 => r = o
            BY <5>2
          <6> HIDE DEF r
          <6>4. r # Malformed => q + 1 <= r /\ r <= Len(s) + 1
            BY <5>1, <6>1, <6>2, <6>3
          <6> QED BY <6>2, <6>4 DEF r
        <5> QED BY <5>3 DEF i, o
      <4>4. CASE inner = Malformed
        BY <3>1, <3>3, <4>4 DEF SkipsForward, Malformed
      <4>5. CASE inner # Malformed
        <5>1. inner \in Position
          BY <4>3, <4>5 DEF Position, Malformed
        <5>2. SkipsForward(s, m, e, inner)
          BY <2>2, <5>1
        <5>3. Skip(s, q, m + 1, e) = Skip(s, inner, m, e)
          BY <3>1, <3>3, <4>5
        <5>4. m = 0 => Skip(s, inner, m, e) = inner
          BY <5>1, SkipEquation
        <5> HIDE DEF inner
        <5> QED BY <4>1, <4>3, <4>5, <5>1, <5>2, <5>3, <5>4 DEF SkipsForward
      <4> QED BY <4>4, <4>5
    <3> QED BY <3>2, <3>3
  <2> HIDE DEF U
  <2>3. Nat \subseteq U
    BY <2>1, <2>2, SetInduction
  <2> QED BY <2>3 DEF U
<1> HIDE DEF Deep
<1>4. Nat \subseteq T
  <2>1. \A k \in Nat : k \in T => k + 1 \in T
    BY <1>3
  <2> HIDE DEF T
  <2> QED BY <1>2, <2>1, SetInduction
<1>5. Deep(MaxDepth + 1)
  BY <1>4, DepthAssumption
<1> QED BY <1>5, DepthAssumption DEF Deep

(* A value ends behind its code and inside the data.                       *)
LEMMA ValueEnds ==
  ASSUME NEW s \in Seq(Byte), NEW d \in Nat, NEW p \in Position,
         SkipValueAt(s, p, d) # Malformed
  PROVE  SkipValueAt(s, p, d) \in p + 1 .. Len(s) + 1
<1>1. SkipsForward(s, 1, d, p) /\ Len(s) \in Nat /\ p \in Nat
  BY SkipForward DEF Position
<1> QED BY <1>1 DEF SkipsForward, SkipValueAt

(* What fits the nesting left at one depth fits at the depth above, and    *)
(* ends there too.                                                         *)
SameAbove(s, n, d, p) ==
  Skip(s, p, n, d + 1) # Malformed => Skip(s, p, n, d) = Skip(s, p, n, d + 1)
LEMMA SkipAbove ==
  ASSUME NEW s \in Seq(Byte), NEW n \in Nat, NEW d \in Nat, NEW p \in Position
  PROVE  SameAbove(s, n, d, p)
<1> DEFINE Deep(k) == \A m \in Nat, e \in Nat, q \in Position :
                        MaxDepth <= e + k => SameAbove(s, m, e, q)
           T == {k \in Nat : Deep(k)}
<1>1. ASSUME NEW e \in Nat, NEW q \in Position
      PROVE  SameAbove(s, 0, e, q)
  <2>1. Skip(s, q, 0, e) = q /\ Skip(s, q, 0, e + 1) = q
    BY <1>1, SkipEquation
  <2> QED BY <2>1 DEF SameAbove
<1>2. 0 \in T
  <2> SUFFICES ASSUME NEW m \in Nat, NEW e \in Nat, NEW q \in Position, e + 1 > MaxDepth
               PROVE  SameAbove(s, m, e, q)
    BY DepthAssumption
  <2>1. Skip(s, q, m, e + 1) = IF m = 0 THEN q ELSE Malformed
    BY SkipEquation
  <2> QED BY <1>1, <2>1 DEF SameAbove
<1>3. ASSUME NEW k \in Nat, Deep(k)
      PROVE  Deep(k + 1)
  <2> SUFFICES ASSUME NEW e \in Nat, MaxDepth <= e + (k + 1)
               PROVE  \A m \in Nat, q \in Position : SameAbove(s, m, e, q)
    OBVIOUS
  <2> DEFINE U == {m \in Nat : \A q \in Position : SameAbove(s, m, e, q)}
  <2>1. 0 \in U
    BY <1>1
  <2>2. ASSUME NEW m \in Nat, m \in U
        PROVE  m + 1 \in U
    <3> SUFFICES ASSUME NEW q \in Position, Skip(s, q, m + 1, e + 1) # Malformed
                 PROVE  Skip(s, q, m + 1, e) = Skip(s, q, m + 1, e + 1)
      BY DEF SameAbove
    <3> DEFINE i    == Items(s, q)
               o    == OwnEnd(s, q)
               near == Skip(s, o, i, e + 1)
               far  == Skip(s, o, i, e + 2)
    <3>1. m + 1 \in Nat /\ m + 1 # 0 /\ (m + 1) - 1 = m /\ (e + 1) + 1 = e + 2 /\ e + 1 \in Nat
      OBVIOUS
    <3>2. /\ ~ (e + 1 > MaxDepth) /\ Readable(s, q) /\ far # Malformed
          /\ Skip(s, q, m + 1, e + 1) = Skip(s, far, m, e + 1)
      BY <3>1, SkipEquation
    <3>3. i \in Nat /\ o \in Position
      <4>1. q \in 1 .. Len(s) + 1
        BY <3>2 DEF Readable, Position
      <4> QED BY <3>2, <4>1, ReadingAdvances DEF Position
    <3> HIDE DEF i, o
    <3>4. SameAbove(s, i, e + 1, o)
      <4>1. e + 1 \in Nat /\ MaxDepth <= (e + 1) + k
        BY DepthAssumption
      <4> QED BY <1>3, <3>3, <4>1
    <3>5. near = far
      BY <3>1, <3>2, <3>4 DEF SameAbove
    <3>6. Skip(s, q, m + 1, e) = Skip(s, far, m, e)
      <4>1. ~ (e > MaxDepth)
        BY <3>2, DepthAssumption
      <4> QED BY <3>1, <3>2, <3>5, <4>1, SkipEquation DEF i, o
    <3>7. far \in Position
      <4>1. SkipsForward(s, i, e + 2, o)
        BY <3>3, SkipForward
      <4> QED BY <3>2, <4>1 DEF SkipsForward, Position, Malformed
    <3> HIDE DEF near, far
    <3>8. SameAbove(s, m, e, far)
      BY <2>2, <3>7
    <3> QED BY <3>2, <3>6, <3>8 DEF SameAbove
  <2> HIDE DEF U
  <2>3. Nat \subseteq U
    BY <2>1, <2>2, SetInduction
  <2> QED BY <2>3 DEF U
<1> HIDE DEF Deep
<1>4. Nat \subseteq T
  <2>1. \A k \in Nat : k \in T => k + 1 \in T
    BY <1>3
  <2> HIDE DEF T
  <2> QED BY <1>2, <2>1, SetInduction
<1>5. Deep(MaxDepth)
  BY <1>4, DepthAssumption
<1> QED BY <1>5, DepthAssumption DEF Deep

(* Codes of scalars and blobs are not codes of containers.                 *)
LEMMA LeavesHoldNothing ==
  ASSUME NEW b \in Nat, IsScalar(b) \/ IsBlob(b)
  PROVE  ~IsArray(b) /\ ~IsMap(b)
  BY SMT DEF IsScalar, IsBlob, IsArray, IsMap, FixStr, FixArray, FixMap

LEMMA BlobsAreNoNumbers ==
  ASSUME NEW b \in Nat, IsBlob(b)
  PROVE  NumberBody(b) = 0
  BY SMT DEF NumberBody, IsBlob, FixStr

(* A scalar or a blob is skipped to the end of its body.                   *)
LEMMA BlobEnd ==
  ASSUME NEW s \in Seq(Byte), NEW d \in Nat, NEW p \in Position, d <= MaxDepth,
         Readable(s, p), IsScalar(s[p]) \/ IsBlob(s[p])
  PROVE  SkipValueAt(s, p, d) = OwnEnd(s, p)
<1>1. p \in 1 .. Len(s) + 1 /\ p \in 1 .. Len(s)
  BY DEF Readable, Position
<1>2. OwnEnd(s, p) \in Position
  BY <1>1, ReadingAdvances DEF Position
<1>3. s[p] \in Nat
  BY <1>1, BytesAreNat
<1>4. Items(s, p) = 0
  <2>1. ~IsArray(s[p]) /\ ~IsMap(s[p])
    BY <1>3, LeavesHoldNothing
  <2> QED BY <2>1 DEF Items
<1> DEFINE o == OwnEnd(s, p)
           e == d + 1
<1>5. e \in Nat /\ o \in Position /\ ~ (d > MaxDepth) /\ o # Malformed
  BY <1>2, DepthAssumption DEF Position, Malformed
<1>6. Skip(s, p, 1, d) = IF Skip(s, o, 0, e) = Malformed THEN Malformed
                         ELSE Skip(s, Skip(s, o, 0, e), 1 - 1, d)
  BY <1>4, <1>5, SkipEquation
<1> HIDE DEF e, o
<1>7. Skip(s, o, 0, e) = o /\ Skip(s, o, 0, d) = o
  BY <1>5, SkipEquation
<1>8. Skip(s, p, 1, d) = o
  BY <1>5, <1>6, <1>7
<1> QED BY <1>8 DEF o, SkipValueAt

-----------------------------------------------------------------------------
USE DepthAssumption

(* The bytes of s from p up to before q, and parts of them.                *)
LEMMA PartOf ==
  ASSUME NEW s \in Seq(Byte), NEW p \in Position, NEW q \in Nat, p <= q, q <= Len(s) + 1
  PROVE  /\ SubSeq(s, p, q - 1) \in Seq(Byte)
         /\ Len(SubSeq(s, p, q - 1)) = q - p
         /\ \A i \in 1 .. q - p : SubSeq(s, p, q - 1)[i] = s[p + i - 1]
<1>1. p \in Nat /\ p \in Int /\ q - 1 \in Int /\ Len(s) \in Nat /\ 1 <= p
  BY DEF Position
<1>2. \A i \in p .. q - 1 : s[i] \in Byte
  <2>1. \A i \in p .. q - 1 : i \in 1 .. Len(s)
    BY <1>1
  <2> QED BY <2>1, ElementOfSeq
<1>3. /\ SubSeq(s, p, q - 1) \in Seq(Byte)
      /\ Len(SubSeq(s, p, q - 1)) = IF p <= q - 1 THEN (q - 1) - p + 1 ELSE 0
      /\ \A i \in 1 .. (q - 1) - p + 1 : SubSeq(s, p, q - 1)[i] = s[p + i - 1]
  BY <1>1, <1>2, SubSeqProperties
<1>4. (q - 1) - p + 1 = q - p /\ (~ (p <= q - 1) => q - p = 0)
  BY <1>1
<1> QED BY <1>3, <1>4

LEMMA PartOfPart ==
  ASSUME NEW s \in Seq(Byte), NEW p \in Nat, NEW last \in Nat, NEW a \in Nat, NEW b \in Nat,
         1 <= p, p <= last + 1, last <= Len(s), 1 <= a, a <= b + 1, b <= last - p + 1
  PROVE  SubSeq(SubSeq(s, p, last), a, b) = SubSeq(s, p + a - 1, p + b - 1)
<1> DEFINE x == p + a - 1
           y == p + b - 1
           u == SubSeq(s, p, last)
           v == SubSeq(u, a, b)
           w == SubSeq(s, x, y)
<1>1. /\ p \in Position /\ a \in Position /\ Len(s) \in Nat
      /\ last + 1 \in Nat /\ b + 1 \in Nat /\ y + 1 \in Nat /\ x \in Position
      /\ last + 1 <= Len(s) + 1 /\ (last + 1) - 1 = last /\ (b + 1) - 1 = b /\ (y + 1) - 1 = y
      /\ x <= y + 1 /\ y + 1 <= Len(s) + 1 /\ y - x = b - a /\ x \in Nat /\ y \in Nat /\ x = p + a - 1
  BY DEF Position
<1> HIDE DEF x, y
<1>2. u \in Seq(Byte) /\ Len(u) = (last + 1) - p /\ \A i \in 1 .. (last + 1) - p : u[i] = s[p + i - 1]
  <2>1. /\ SubSeq(s, p, (last + 1) - 1) \in Seq(Byte)
        /\ Len(SubSeq(s, p, (last + 1) - 1)) = (last + 1) - p
        /\ \A i \in 1 .. (last + 1) - p : SubSeq(s, p, (last + 1) - 1)[i] = s[p + i - 1]
    BY <1>1, PartOf
  <2> QED BY <1>1, <2>1
<1> HIDE DEF u
<1>3. v \in Seq(Byte) /\ Len(v) = (b + 1) - a /\ \A i \in 1 .. (b + 1) - a : v[i] = u[a + i - 1]
  <2>1. Len(u) = (last + 1) - p
    BY <1>2
  <2>2. b + 1 <= Len(u) + 1 /\ a <= b + 1
    BY <1>1, <2>1
  <2>3. /\ SubSeq(u, a, (b + 1) - 1) \in Seq(Byte)
        /\ Len(SubSeq(u, a, (b + 1) - 1)) = (b + 1) - a
        /\ \A i \in 1 .. (b + 1) - a : SubSeq(u, a, (b + 1) - 1)[i] = u[a + i - 1]
    BY <1>1, <1>2, <2>2, PartOf
  <2> QED BY <1>1, <2>3
<1>4. w \in Seq(Byte) /\ Len(w) = (y + 1) - x /\ \A i \in 1 .. (y + 1) - x : w[i] = s[x + i - 1]
  <2>1. /\ SubSeq(s, x, (y + 1) - 1) \in Seq(Byte)
        /\ Len(SubSeq(s, x, (y + 1) - 1)) = (y + 1) - x
        /\ \A i \in 1 .. (y + 1) - x : SubSeq(s, x, (y + 1) - 1)[i] = s[x + i - 1]
    BY <1>1, PartOf
  <2> QED BY <1>1, <2>1
<1> HIDE DEF v, w
<1>5. Len(v) = Len(w) /\ \A i \in 1 .. Len(v) : v[i] = w[i]
  <2>1. Len(v) = Len(w)
    BY <1>1, <1>3, <1>4
  <2> SUFFICES ASSUME NEW i \in 1 .. Len(v)
               PROVE  v[i] = w[i]
    BY <2>1
  <2>2. i \in 1 .. (b + 1) - a /\ i \in 1 .. (y + 1) - x
    BY <1>1, <1>3, <1>4
  <2>3. a + i - 1 \in 1 .. (last + 1) - p /\ p + (a + i - 1) - 1 = x + i - 1
    BY <1>1, <2>2
  <2>4. v[i] = s[p + (a + i - 1) - 1]
    BY <1>2, <1>3, <2>2, <2>3
  <2> QED BY <1>4, <2>2, <2>3, <2>4
<1>6. v = w
  BY <1>3, <1>4, <1>5, SeqEqual
<1> QED BY <1>6 DEF u, v, w, x, y

(* A header announces the same in a part that holds it.                    *)
LEMMA SameAnnounced ==
  ASSUME NEW s \in Seq(Byte), NEW u \in Seq(Byte), NEW p \in Position,
         1 <= Len(u), p + Len(u) <= Len(s) + 1,
         \A i \in 1 .. Len(u) : u[i] = s[p + i - 1],
         1 + LengthBytes(u[1]) <= Len(u)
  PROVE  Announced(u, 1) = Announced(s, p)
<1>1. p \in Nat /\ Len(u) \in Nat
  BY DEF Position
<1>2. u[1] = s[p]
  BY <1>1
<1> DEFINE w == LengthBytes(u[1])
<1>3. w \in {0, 1, 2, 4}
  BY DEF LengthBytes
<1>4. \A i \in Nat : i < w => u[2 + i] = s[p + 1 + i]
  <2> SUFFICES ASSUME NEW i \in Nat, i < w
               PROVE  u[2 + i] = s[p + 1 + i]
    OBVIOUS
  <2>1. 2 + i \in 1 .. Len(u) /\ p + (2 + i) - 1 = p + 1 + i
    BY <1>1, <1>3
  <2> QED BY <2>1
<1>5. w > 0 => BigEndian(u, 2, w) = BigEndian(s, p + 1, w)
  <2> HIDE DEF w
  <2>1. CASE w = 1
    <3>1. u[2 + 0] = s[p + 1 + 0]
      BY <1>4, <2>1
    <3>2. u[2] = s[p + 1]
      BY <1>1, <3>1
    <3> QED BY <2>1, <3>2 DEF BigEndian
  <2>2. CASE w = 2
    <3>1. u[2 + 0] = s[p + 1 + 0] /\ u[2 + 1] = s[p + 1 + 1]
      BY <1>4, <2>2
    <3>2. u[2] = s[p + 1] /\ u[2 + 1] = s[(p + 1) + 1]
      BY <1>1, <3>1
    <3> QED BY <2>2, <3>2 DEF BigEndian
  <2>3. CASE w = 4
    <3>1. /\ u[2 + 0] = s[p + 1 + 0] /\ u[2 + 1] = s[p + 1 + 1]
          /\ u[2 + 2] = s[p + 1 + 2] /\ u[2 + 3] = s[p + 1 + 3]
      BY <1>4, <2>3
    <3>2. /\ u[2] = s[p + 1] /\ u[2 + 1] = s[(p + 1) + 1]
          /\ u[2 + 2] = s[(p + 1) + 2] /\ u[2 + 3] = s[(p + 1) + 3]
      BY <1>1, <3>1
    <3> QED BY <2>3, <3>2 DEF BigEndian
  <2> QED BY <1>3, <2>1, <2>2, <2>3
<1>6. CASE w > 0
  <2>1. 1 + 1 = 2
    OBVIOUS
  <2>2. Announced(u, 1) = BigEndian(u, 2, w)
    BY <1>6, <2>1 DEF Announced
  <2>3. Announced(s, p) = BigEndian(s, p + 1, w)
    BY <1>2, <1>6 DEF Announced
  <2> QED BY <1>5, <1>6, <2>2, <2>3
<1>7. CASE ~ (w > 0)
  <2> DEFINE count(b) == IF b \in FixStr THEN b - 160
                         ELSE IF b \in FixArray THEN b - 144
                         ELSE IF b \in FixMap THEN b - 128
                         ELSE 0
  <2>1. Announced(u, 1) = count(u[1])
    BY <1>7 DEF Announced
  <2>2. ~ (LengthBytes(s[p]) > 0)
    BY <1>2, <1>7
  <2>3. Announced(s, p) = count(s[p])
    BY <2>2 DEF Announced
  <2> HIDE DEF count
  <2> QED BY <1>2, <2>1, <2>3
<1> QED BY <1>6, <1>7

(* Whether a value can be read in a part depends on where its own bytes end. *)
LEMMA ReadableInPart ==
  ASSUME NEW s \in Seq(Byte), NEW p \in Position, NEW q \in Nat, p < q, q <= Len(s) + 1
  PROVE  LET u == SubSeq(s, p, q - 1)
         IN  /\ Readable(u, 1) <=> Readable(s, p) /\ OwnEnd(s, p) <= q
             /\ Readable(u, 1) => /\ OwnEnd(u, 1) = OwnEnd(s, p) - p + 1
                                  /\ Items(u, 1) = Items(s, p)
<1> DEFINE u == SubSeq(s, p, q - 1)
<1>1. /\ p \in Nat /\ 1 <= p /\ Len(s) \in Nat /\ u \in Seq(Byte) /\ Len(u) = q - p
      /\ \A i \in 1 .. Len(u) : u[i] = s[p + i - 1]
  BY PartOf DEF Position
<1> HIDE DEF u
<1>2. u[1] = s[p] /\ p \in 1 .. Len(s) /\ 1 \in 1 .. Len(u)
  BY <1>1
<1> DEFINE b == s[p]
           w == LengthBytes(b)
           kind == IsScalar(b) \/ IsBlob(b) \/ IsArray(b) \/ IsMap(b)
<1>3. w \in Nat /\ NumberBody(b) \in Nat
  BY DEF LengthBytes, NumberBody
<1>4. Readable(s, p) <=> kind /\ p + w <= Len(s) /\ OwnEnd(s, p) <= Len(s) + 1
  BY <1>2 DEF Readable
<1>5. Readable(u, 1) <=> kind /\ 1 + w <= Len(u) /\ OwnEnd(u, 1) <= Len(u) + 1
  BY <1>2 DEF Readable
<1>6. CASE 1 + w <= Len(u)
  <2>1. Announced(u, 1) = Announced(s, p)
    <3>1. 1 + LengthBytes(u[1]) <= Len(u)
      BY <1>2, <1>6
    <3>2. 1 <= Len(u) /\ p + Len(u) <= Len(s) + 1
      BY <1>1
    <3> HIDE DEF w
    <3> QED BY <1>1, <3>1, <3>2, SameAnnounced
  <2>2. Announced(s, p) \in Nat
    <3>1. p + w <= Len(s)
      BY <1>1, <1>3, <1>6
    <3> QED BY <1>2, <3>1, AnnouncedIsNat
  <2> DEFINE body == IF IsBlob(b) THEN Announced(s, p) ELSE 0
  <2>3. body \in Nat
    BY <2>2
  <2>4. OwnEnd(s, p) = p + 1 + w + NumberBody(b) + body /\ OwnEnd(u, 1) = 1 + 1 + w + NumberBody(b) + body
    BY <1>2, <2>1 DEF OwnEnd
  <2>5. Items(u, 1) = Items(s, p)
    BY <1>2, <2>1 DEF Items
  <2> HIDE DEF body, w, kind
  <2>6. OwnEnd(u, 1) = OwnEnd(s, p) - p + 1 /\ OwnEnd(s, p) \in Nat
    BY <1>1, <1>3, <2>3, <2>4
  <2>7. OwnEnd(u, 1) <= Len(u) + 1 <=> OwnEnd(s, p) <= q
    BY <1>1, <2>6
  <2>8. p + w <= Len(s)
    BY <1>1, <1>3, <1>6
  <2>9. OwnEnd(s, p) <= q => OwnEnd(s, p) <= Len(s) + 1
    BY <1>1, <2>6
  <2> QED BY <1>4, <1>5, <1>6, <2>5, <2>6, <2>7, <2>8, <2>9 DEF u
<1>7. CASE ~ (1 + w <= Len(u))
  <2>1. ~Readable(u, 1)
    BY <1>5, <1>7
  <2>2. ASSUME Readable(s, p)
        PROVE  ~ (OwnEnd(s, p) <= q)
    <3>1. Announced(s, p) \in Nat
      BY <1>2, <1>4, <2>2, AnnouncedIsNat
    <3> DEFINE body == IF IsBlob(b) THEN Announced(s, p) ELSE 0
    <3>2. body \in Nat /\ OwnEnd(s, p) = p + 1 + w + NumberBody(b) + body
      BY <3>1 DEF OwnEnd
    <3> HIDE DEF body, w
    <3> QED BY <1>1, <1>3, <1>7, <3>2
  <2> QED BY <2>1, <2>2 DEF u
<1> QED BY <1>6, <1>7

-----------------------------------------------------------------------------
(* The grammar's recursion over a set A of the strings already accepted.   *)
Strings == Seq(Byte) \X Nat \X Int
RestOf(s, n, k, i)  == <<SubSeq(s, i + 1, Len(s)), n - 1, k>>
InnerOf(s, k, i) ==
  LET first == SubSeq(s, 1, i)
  IN  <<SubSeq(s, OwnEnd(first, 1), i), Items(first, 1), k - 1>>
Parse(A, s, n, k) ==
  IF n = 0 THEN s = <<>>
  ELSE \E i \in 1 .. Len(s) :
         k >= 0 /\ Readable(SubSeq(s, 1, i), 1) /\ RestOf(s, n, k, i) \in A /\ InnerOf(s, k, i) \in A

(* It recurs to shorter strings only ...                                   *)
LEMMA ShorterStrings ==
  ASSUME NEW s \in Seq(Byte), NEW n \in Nat \ {0}, NEW k \in Int, NEW i \in 1 .. Len(s),
         Readable(SubSeq(s, 1, i), 1)
  PROVE  /\ RestOf(s, n, k, i) \in Strings /\ Len(RestOf(s, n, k, i)[1]) < Len(s)
         /\ InnerOf(s, k, i) \in Strings /\ Len(InnerOf(s, k, i)[1]) < Len(s)
<1> DEFINE first == SubSeq(s, 1, i)
           rest == SubSeq(s, i + 1, Len(s))
           o == OwnEnd(first, 1)
           inner == SubSeq(s, o, i)
<1>1. /\ Len(s) \in Nat /\ i \in Nat /\ 1 \in Position /\ i + 1 \in Position /\ i + 1 \in Nat
      /\ (i + 1) - 1 = i /\ (Len(s) + 1) - 1 = Len(s) /\ 1 < i + 1 /\ i + 1 <= Len(s) + 1
      /\ Len(s) + 1 \in Nat /\ Len(s) + 1 <= Len(s) + 1
  BY DEF Position
<1>2. rest \in Seq(Byte) /\ Len(rest) < Len(s)
  <2>1. SubSeq(s, i + 1, (Len(s) + 1) - 1) \in Seq(Byte)
        /\ Len(SubSeq(s, i + 1, (Len(s) + 1) - 1)) = (Len(s) + 1) - (i + 1)
    BY <1>1, PartOf
  <2>2. SubSeq(s, i + 1, (Len(s) + 1) - 1) = rest
    BY <1>1
  <2>3. (Len(s) + 1) - (i + 1) < Len(s)
    BY <1>1
  <2> HIDE DEF rest
  <2> QED BY <2>1, <2>2, <2>3
<1>3. SubSeq(s, 1, (i + 1) - 1) = first
  BY <1>1
<1>4. /\ Readable(first, 1) <=> Readable(s, 1) /\ OwnEnd(s, 1) <= i + 1
      /\ Readable(first, 1) => o = OwnEnd(s, 1) - 1 + 1 /\ Items(first, 1) = Items(s, 1)
  BY <1>1, <1>3, ReadableInPart
<1>5. /\ OwnEnd(s, 1) \in 1 + 1 .. Len(s) + 1 /\ Items(s, 1) \in Nat
      /\ OwnEnd(s, 1) <= i + 1
  <2>1. 1 \in 1 .. Len(s) + 1
    BY <1>1
  <2> QED BY <1>4, <2>1, ReadingAdvances
<1>6. o = OwnEnd(s, 1) /\ o \in Position /\ o <= i + 1 /\ 2 <= o /\ Items(first, 1) \in Nat
  BY <1>1, <1>4, <1>5 DEF Position
<1>7. inner \in Seq(Byte) /\ Len(inner) < Len(s)
  <2> HIDE DEF o
  <2>1. SubSeq(s, o, (i + 1) - 1) \in Seq(Byte) /\ Len(SubSeq(s, o, (i + 1) - 1)) = (i + 1) - o
    BY <1>1, <1>6, PartOf
  <2>2. (i + 1) - o < Len(s)
    BY <1>1, <1>6 DEF Position
  <2> QED BY <1>1, <2>1, <2>2
<1>8. RestOf(s, n, k, i) = <<rest, n - 1, k>> /\ InnerOf(s, k, i) = <<inner, Items(first, 1), k - 1>>
  BY DEF RestOf, InnerOf
<1> HIDE DEF rest, inner, first
<1>9. n - 1 \in Nat /\ k - 1 \in Int
  OBVIOUS
<1> QED BY <1>2, <1>6, <1>7, <1>8, <1>9 DEF Strings

(* ... so only these decide.                                               *)
LEMMA ParseLocal ==
  ASSUME NEW s \in Seq(Byte), NEW n \in Nat, NEW k \in Int, NEW A, NEW B,
         \A c \in Strings : Len(c[1]) < Len(s) => (c \in A <=> c \in B)
  PROVE  Parse(A, s, n, k) <=> Parse(B, s, n, k)
<1>1. CASE n = 0
  BY <1>1 DEF Parse
<1>2. CASE n # 0
  <2>1. ASSUME NEW i \in 1 .. Len(s), Readable(SubSeq(s, 1, i), 1)
        PROVE  /\ RestOf(s, n, k, i) \in A <=> RestOf(s, n, k, i) \in B
               /\ InnerOf(s, k, i) \in A <=> InnerOf(s, k, i) \in B
    BY <1>2, <2>1, ShorterStrings
  <2> QED BY <1>2, <2>1, Zenon DEF Parse
<1> QED BY <1>1, <1>2

(* A function is the grammar when it obeys the recursion.                  *)
GrammarBody(v, s, n, k) ==
  IF n = 0 THEN s = <<>>
  ELSE \E i \in 1 .. Len(s) :
         LET first == SubSeq(s, 1, i)
         IN  /\ k >= 0 /\ Readable(first, 1)
             /\ v[<<SubSeq(s, i + 1, Len(s)), n - 1, k>>]
             /\ v[<<SubSeq(s, OwnEnd(first, 1), i), Items(first, 1), k - 1>>]
IsGrammar(v) ==
  v = [call \in Seq(Byte) \X Nat \X Int |-> GrammarBody(v, call[1], call[2], call[3])]
Accepted(v) == {c \in Strings : v[c]}

LEMMA GrammarDef == Grammar = CHOOSE v : IsGrammar(v)
  BY DEF Grammar, IsGrammar, GrammarBody

LEMMA GrammarBoolean ==
  ASSUME NEW v, NEW s, NEW n, NEW k
  PROVE  GrammarBody(v, s, n, k) \in BOOLEAN
<1>1. CASE n = 0
  BY <1>1, Zenon DEF GrammarBody
<1>2. CASE n # 0
  BY <1>2, Zenon DEF GrammarBody
<1> QED BY <1>1, <1>2

LEMMA GrammarStep ==
  ASSUME NEW v, NEW s \in Seq(Byte), NEW n \in Nat, NEW k \in Int
  PROVE  Parse(Accepted(v), s, n, k) <=> GrammarBody(v, s, n, k)
<1>1. CASE n = 0
  BY <1>1, Zenon DEF Parse, GrammarBody
<1>2. CASE n # 0
  <2>1. ASSUME NEW i \in 1 .. Len(s), Readable(SubSeq(s, 1, i), 1)
        PROVE  /\ RestOf(s, n, k, i) \in Accepted(v) <=> v[RestOf(s, n, k, i)]
               /\ InnerOf(s, k, i) \in Accepted(v) <=> v[InnerOf(s, k, i)]
    <3>1. RestOf(s, n, k, i) \in Strings /\ InnerOf(s, k, i) \in Strings
      BY <1>2, <2>1, ShorterStrings
    <3> QED BY <3>1, Zenon DEF Accepted
  <2> QED BY <1>2, <2>1, Zenon DEF Parse, GrammarBody, RestOf, InnerOf
<1> QED BY <1>1, <1>2

(* Strings accepted by looking at shorter ones level times.                *)
Widen(A) == {c \in Strings : Parse(A, c[1], c[2], c[3])}
IsTower(level) ==
  /\ level \in [Nat -> SUBSET Strings] /\ level[0] = {}
  /\ \A m \in Nat : level[m + 1] = Widen(level[m])

LEMMA TowerExists == \E level : IsTower(level)
<1> DEFINE S == SUBSET Strings
           none == {}
           step == [i \in Nat |-> [A \in S |-> Widen(A)]]
<1>1. none \in S /\ step \in [Nat -> [S -> S]]
  BY DEF Widen
<1>2. \A i \in Nat, A \in S : step[i][A] = Widen(A)
  OBVIOUS
<1> HIDE DEF step, S, none
<1>3. PICK level : Recurs(level, S, none, step)
  BY <1>1, NatRecursion, Zenon
<1>4. IsTower(level)
  <2>1. level \in [Nat -> S] /\ level[0] = none
    BY <1>3 DEF Recurs
  <2>2. ASSUME NEW m \in Nat PROVE level[m + 1] = Widen(level[m])
    BY <1>2, <1>3, <2>1 DEF Recurs
  <2> QED BY <2>1, <2>2 DEF IsTower, S, none
<1> QED BY <1>4

(* A string is settled once its length has been reached.                   *)
LEMMA TowerSettles ==
  ASSUME NEW level, IsTower(level), NEW m \in Nat, NEW j \in Nat, m <= j,
         NEW c \in Strings, Len(c[1]) < m
  PROVE  c \in level[m] <=> c \in level[j]
<1> DEFINE P(x) == \A y \in Nat, e \in Strings :
                     x <= y /\ Len(e[1]) < x => (e \in level[x] <=> e \in level[y])
           T == {x \in Nat : P(x)}
<1>1. \A e \in Strings : Len(e[1]) \in Nat
  BY DEF Strings
<1>2. 0 \in T
  BY <1>1
<1>3. ASSUME NEW x \in Nat, P(x)
      PROVE  P(x + 1)
  <2> SUFFICES ASSUME NEW y \in Nat, NEW e \in Strings, x + 1 <= y, Len(e[1]) < x + 1
               PROVE  e \in level[x + 1] <=> e \in level[y]
    OBVIOUS
  <2>1. PICK z \in Nat : y = z + 1 /\ x <= z
    <3>1. y - 1 \in Nat /\ y = (y - 1) + 1 /\ x <= y - 1
      OBVIOUS
    <3> QED BY <3>1
  <2>2. e[1] \in Seq(Byte) /\ e[2] \in Nat /\ e[3] \in Int
    BY DEF Strings
  <2>3. \A a \in Strings : Len(a[1]) < Len(e[1]) => (a \in level[x] <=> a \in level[z])
    <3> SUFFICES ASSUME NEW a \in Strings, Len(a[1]) < Len(e[1])
                 PROVE  a \in level[x] <=> a \in level[z]
      OBVIOUS
    <3>1. Len(a[1]) < x
      BY <1>1
    <3> QED BY <1>3, <2>1, <3>1
  <2>4. Parse(level[x], e[1], e[2], e[3]) <=> Parse(level[z], e[1], e[2], e[3])
    BY <2>2, <2>3, ParseLocal
  <2>5. level[x + 1] = Widen(level[x]) /\ level[y] = Widen(level[z])
    BY <2>1 DEF IsTower
  <2> QED BY <2>4, <2>5 DEF Widen
<1> HIDE DEF P
<1>4. Nat \subseteq T
  <2>1. \A x \in Nat : x \in T => x + 1 \in T
    BY <1>3
  <2> HIDE DEF T
  <2> QED BY <1>2, <2>1, SetInduction
<1>5. P(m)
  BY <1>4
<1> QED BY <1>5 DEF P

(* So the grammar is a function that obeys its recursion.                  *)
LEMMA GrammarExists == \E v : IsGrammar(v)
<1>1. PICK level : IsTower(level)
  BY TowerExists
<1> DEFINE V == {c \in Strings : c \in level[Len(c[1]) + 1]}
           v == [c \in Strings |-> c \in V]
<1>2. Accepted(v) = V
  <2>1. \A c \in Strings : v[c] <=> c \in V
    BY Zenon
  <2> HIDE DEF v
  <2> QED BY <2>1, Zenon DEF Accepted
<1>3. ASSUME NEW s \in Seq(Byte), NEW n \in Nat, NEW k \in Int
      PROVE  <<s, n, k>> \in V <=> Parse(V, s, n, k)
  <2> DEFINE c == <<s, n, k>>
  <2>1. c \in Strings /\ c[1] = s /\ c[2] = n /\ c[3] = k /\ Len(s) \in Nat /\ Len(s) + 1 \in Nat
    BY DEF Strings
  <2>2. level[Len(s) + 1] = Widen(level[Len(s)])
    BY <1>1, <2>1 DEF IsTower
  <2>3. c \in V <=> Parse(level[Len(s)], s, n, k)
    BY <2>1, <2>2 DEF Widen
  <2>4. \A a \in Strings : Len(a[1]) < Len(s) => (a \in level[Len(s)] <=> a \in V)
    <3> SUFFICES ASSUME NEW a \in Strings, Len(a[1]) < Len(s)
                 PROVE  a \in level[Len(s)] <=> a \in V
      OBVIOUS
    <3>1. Len(a[1]) \in Nat /\ Len(a[1]) + 1 \in Nat /\ Len(a[1]) + 1 <= Len(s) /\ Len(a[1]) < Len(a[1]) + 1
      BY <2>1 DEF Strings
    <3>2. a \in level[Len(a[1]) + 1] <=> a \in level[Len(s)]
      BY <1>1, <2>1, <3>1, TowerSettles
    <3> QED BY <3>2
  <2>5. Parse(level[Len(s)], s, n, k) <=> Parse(V, s, n, k)
    <3> HIDE DEF V
    <3> QED BY <2>4, ParseLocal
  <2> QED BY <2>3, <2>5
<1> DEFINE body(c) == GrammarBody(v, c[1], c[2], c[3])
<1> HIDE DEF V, v
<1>4. ASSUME NEW c \in Strings
      PROVE  (c \in V) <=> body(c)
  <2>1. PICK s \in Seq(Byte), n \in Nat, k \in Int : c = <<s, n, k>>
    BY DEF Strings
  <2>2. c[1] = s /\ c[2] = n /\ c[3] = k
    BY <2>1
  <2>3. c \in V <=> Parse(Accepted(v), s, n, k)
    BY <1>2, <1>3, <2>1
  <2>4. Parse(Accepted(v), s, n, k) <=> body(c)
    BY <2>2, GrammarStep, Zenon
  <2> QED BY <2>3, <2>4
<1>5. ASSUME NEW c \in Strings
      PROVE  (c \in V) = body(c)
  <2> DEFINE inV == c \in V
             obeys == body(c)
  <2>1. inV \in BOOLEAN /\ obeys \in BOOLEAN /\ (inV <=> obeys)
    BY <1>4, GrammarBoolean
  <2> HIDE DEF inV, obeys
  <2>2. inV = obeys
    BY <2>1
  <2> QED BY <2>2 DEF inV, obeys
<1>6. v = [c \in Strings |-> body(c)]
  <2> HIDE DEF body
  <2> QED BY <1>5, Zenon DEF v
<1>7. IsGrammar(v)
  BY <1>6, Zenon DEF IsGrammar, Strings
<1> QED BY <1>7

LEMMA GrammarRule ==
  ASSUME NEW s \in Seq(Byte), NEW n \in Nat, NEW k \in Int
  PROVE  Grammar[<<s, n, k>>] <=> Parse(Accepted(Grammar), s, n, k)
<1>1. IsGrammar(Grammar)
  BY GrammarDef, GrammarExists, Zenon
<1> DEFINE c == <<s, n, k>>
<1>2. c \in Seq(Byte) \X Nat \X Int /\ c[1] = s /\ c[2] = n /\ c[3] = k
  OBVIOUS
<1> HIDE DEF c
<1>3. Grammar[c] = GrammarBody(Grammar, c[1], c[2], c[3])
  BY <1>1, <1>2, Zenon DEF IsGrammar
<1>4. Grammar[c] <=> Parse(Accepted(Grammar), s, n, k)
  BY <1>2, <1>3, GrammarStep, Zenon
<1> QED BY <1>4 DEF c

(* One value of a string and the rest of it, in terms of positions.        *)
LEMMA FirstOfPart ==
  ASSUME NEW s \in Seq(Byte), NEW p \in Nat, NEW last \in Nat, NEW i \in Nat,
         1 <= p, last <= Len(s), 1 <= i, i <= last - p + 1
  PROVE  /\ SubSeq(SubSeq(s, p, last), 1, i) = SubSeq(s, p, p + i - 1)
         /\ Len(SubSeq(s, p, last)) = last - p + 1
<1>1. /\ p \in Position /\ Len(s) \in Nat /\ p <= last + 1 /\ last + 1 \in Nat
      /\ last + 1 <= Len(s) + 1 /\ (last + 1) - 1 = last
  BY DEF Position
<1>2. SubSeq(SubSeq(s, p, last), 1, i) = SubSeq(s, p + 1 - 1, p + i - 1)
  BY <1>1, PartOfPart
<1>3. p + 1 - 1 = p
  OBVIOUS
<1>4. Len(SubSeq(s, p, (last + 1) - 1)) = (last + 1) - p
  BY <1>1, PartOf
<1> QED BY <1>1, <1>2, <1>3, <1>4

LEMMA SplitReadable ==
  ASSUME NEW s \in Seq(Byte), NEW p \in Nat, NEW last \in Nat, NEW i \in Nat,
         1 <= p, last <= Len(s), 1 <= i, i <= last - p + 1
  PROVE  LET first == SubSeq(SubSeq(s, p, last), 1, i)
         IN  /\ Readable(first, 1) <=> Readable(s, p) /\ OwnEnd(s, p) <= p + i
             /\ Readable(first, 1) => /\ OwnEnd(first, 1) = OwnEnd(s, p) - p + 1
                                      /\ Items(first, 1) = Items(s, p)
<1> DEFINE q == p + i
           first == SubSeq(SubSeq(s, p, last), 1, i)
<1>1. p \in Position /\ q \in Nat /\ p < q /\ q <= Len(s) + 1 /\ Len(s) \in Nat
  BY DEF Position
<1>2. first = SubSeq(s, p, q - 1)
  BY FirstOfPart
<1> HIDE DEF q, first
<1>3. /\ Readable(first, 1) <=> Readable(s, p) /\ OwnEnd(s, p) <= q
      /\ Readable(first, 1) => /\ OwnEnd(first, 1) = OwnEnd(s, p) - p + 1
                               /\ Items(first, 1) = Items(s, p)
  BY <1>1, <1>2, ReadableInPart
<1> QED BY <1>3 DEF q, first

LEMMA SplitRest ==
  ASSUME NEW s \in Seq(Byte), NEW p \in Nat, NEW last \in Nat, NEW i \in Nat, NEW n, NEW k,
         1 <= p, last <= Len(s), 1 <= i, i <= last - p + 1
  PROVE  RestOf(SubSeq(s, p, last), n, k, i) = <<SubSeq(s, p + i, last), n - 1, k>>
<1> DEFINE u == SubSeq(s, p, last)
<1>1. Len(u) = last - p + 1
  BY FirstOfPart
<1>2. /\ i + 1 \in Nat /\ 1 <= i + 1 /\ i + 1 <= Len(u) + 1 /\ Len(u) \in Nat
      /\ Len(u) <= last - p + 1 /\ p <= last + 1
  BY <1>1
<1>3. SubSeq(SubSeq(s, p, last), i + 1, Len(u)) = SubSeq(s, p + (i + 1) - 1, p + Len(u) - 1)
  BY <1>2, PartOfPart
<1>4. p + (i + 1) - 1 = p + i /\ p + Len(u) - 1 = last
  BY <1>1
<1> QED BY <1>3, <1>4 DEF RestOf

LEMMA SplitInner ==
  ASSUME NEW s \in Seq(Byte), NEW p \in Nat, NEW last \in Nat, NEW i \in Nat, NEW k,
         1 <= p, last <= Len(s), 1 <= i, i <= last - p + 1,
         Readable(SubSeq(SubSeq(s, p, last), 1, i), 1)
  PROVE  InnerOf(SubSeq(s, p, last), k, i) =
           <<SubSeq(s, OwnEnd(s, p), p + i - 1), Items(s, p), k - 1>>
<1> DEFINE u == SubSeq(s, p, last)
           first == SubSeq(u, 1, i)
           o == OwnEnd(first, 1)
<1>1. /\ Readable(s, p) /\ OwnEnd(s, p) <= p + i
      /\ o = OwnEnd(s, p) - p + 1 /\ Items(first, 1) = Items(s, p)
  BY SplitReadable
<1>2. OwnEnd(s, p) \in p + 1 .. Len(s) + 1
  <2>1. p \in 1 .. Len(s) + 1
    BY DEF Readable
  <2> QED BY <1>1, <2>1, ReadingAdvances
<1> HIDE DEF o
<1>3. PICK x \in Nat : x = OwnEnd(s, p) /\ p + 1 <= x /\ x <= p + i /\ o = x - p + 1
  BY <1>1, <1>2
<1>4. o \in Nat /\ 1 <= o /\ o <= i + 1 /\ p <= last + 1
  BY <1>3
<1>5. SubSeq(SubSeq(s, p, last), o, i) = SubSeq(s, p + o - 1, p + i - 1)
  BY <1>4, PartOfPart
<1>6. p + o - 1 = x
  BY <1>3
<1>7. SubSeq(u, o, i) = SubSeq(s, OwnEnd(s, p), p + i - 1)
  BY <1>3, <1>5, <1>6
<1>8. InnerOf(u, k, i) = <<SubSeq(u, o, i), Items(first, 1), k - 1>>
  BY DEF InnerOf, o
<1> QED BY <1>1, <1>7, <1>8

(* skip_n ends at e exactly when the bytes before e are n values.          *)
LEMMA SkipsWhatTheGrammarHas ==
  ASSUME NEW s \in Seq(Byte), NEW n \in Nat, NEW d \in Nat, NEW p \in Position, NEW e \in Nat,
         p <= e, e <= Len(s) + 1
  PROVE  Grammar[<<SubSeq(s, p, e - 1), n, MaxDepth - d>>] <=> Skip(s, p, n, d) = e
<1> DEFINE Same(nn, dd, pp, ee) ==
             Grammar[<<SubSeq(s, pp, ee - 1), nn, MaxDepth - dd>>] <=> Skip(s, pp, nn, dd) = ee
           P(x) == \A nn \in Nat, dd \in Nat, pp \in Position, ee \in Nat :
                     pp <= ee /\ ee <= Len(s) + 1 /\ ee - pp < x => Same(nn, dd, pp, ee)
           T == {x \in Nat : P(x)}
<1>1. 0 \in T
  <2>1. \A pp \in Position, ee \in Nat : pp <= ee => ~ (ee - pp < 0)
    BY DEF Position
  <2> HIDE DEF Same
  <2> QED BY <2>1
<1>2. ASSUME NEW x \in Nat, P(x),
             NEW nn \in Nat, NEW dd \in Nat, NEW pp \in Position, NEW ee \in Nat,
             pp <= ee, ee <= Len(s) + 1, ee - pp < x + 1
      PROVE  Same(nn, dd, pp, ee)
  <2> HIDE DEF P
  <2>1. pp <= ee /\ ee <= Len(s) + 1 /\ ee - pp < x + 1
    BY <1>2
  <2> DEFINE u == SubSeq(s, pp, ee - 1)
             k == MaxDepth - dd
             A == Accepted(Grammar)
  <2>2. u \in Seq(Byte) /\ Len(u) = ee - pp /\ k \in Int /\ pp \in Nat /\ 1 <= pp /\ Len(s) \in Nat
    BY <2>1, PartOf, DepthAssumption DEF Position
  <2>3. Grammar[<<u, nn, k>>] <=> Parse(A, u, nn, k)
    BY <2>2, GrammarRule
  <2>4. CASE nn = 0
    <3>1. Parse(A, u, nn, k) <=> u = <<>>
      BY <2>4 DEF Parse
    <3>2. u = <<>> <=> ee = pp
      BY <2>1, <2>2, EmptySeq
    <3>3. Skip(s, pp, nn, dd) = pp
      BY <2>4, SkipEquation
    <3> QED BY <2>3, <3>1, <3>2, <3>3
  <2>5. CASE nn # 0
    <3> DEFINE o == OwnEnd(s, pp)
               items == Items(s, pp)
               inner == Skip(s, o, items, dd + 1)
    <3>1. Skip(s, pp, nn, dd) = IF dd > MaxDepth \/ ~Readable(s, pp) THEN Malformed
                                ELSE IF inner = Malformed THEN Malformed
                                ELSE Skip(s, inner, nn - 1, dd)
      BY <2>5, SkipEquation
    <3>2. ASSUME Readable(s, pp)
          PROVE  o \in pp + 1 .. Len(s) + 1 /\ items \in Nat /\ o \in Position /\ o \in Nat
      <4>1. pp \in 1 .. Len(s) + 1
        BY <2>1, <2>2
      <4> QED BY <2>2, <3>2, <4>1, ReadingAdvances DEF Position
    <3>3. ASSUME NEW q \in pp + 1 .. ee, Readable(s, pp), o <= q
          PROVE  /\ Grammar[<<SubSeq(s, q, ee - 1), nn - 1, k>>] <=> Skip(s, q, nn - 1, dd) = ee
                 /\ Grammar[<<SubSeq(s, o, q - 1), items, k - 1>>] <=> inner = q
      <4>1. /\ q \in Position /\ q \in Nat /\ nn - 1 \in Nat /\ q <= ee /\ ee - q < x
            /\ dd + 1 \in Nat /\ q <= Len(s) + 1 /\ k - 1 = MaxDepth - (dd + 1)
        BY <2>1, <2>2, <2>5, DepthAssumption DEF Position
      <4>2. Same(nn - 1, dd, q, ee)
        <5> HIDE DEF Same
        <5> QED BY <1>2, <4>1 DEF P
      <4>3. q - o < x
        BY <2>1, <2>2, <3>2, <3>3
      <4>4. Same(items, dd + 1, o, q)
        <5>1. items \in Nat /\ o \in Position
          BY <3>2, <3>3
        <5> HIDE DEF Same, items, o
        <5> QED BY <1>2, <3>3, <4>1, <4>3, <5>1 DEF P
      <4> HIDE DEF o, items
      <4> QED BY <4>1, <4>2, <4>4
    <3>4. ASSUME NEW i \in Nat, NEW q \in Nat, 1 <= i, q = pp + i, q <= ee
          PROVE  /\ i \in 1 .. Len(u)
                 /\ Readable(SubSeq(u, 1, i), 1) <=> Readable(s, pp) /\ o <= q
                 /\ RestOf(u, nn, k, i) = <<SubSeq(s, q, ee - 1), nn - 1, k>>
                 /\ Readable(SubSeq(u, 1, i), 1) =>
                      InnerOf(u, k, i) = <<SubSeq(s, o, q - 1), items, k - 1>>
      <4>1. /\ ee - 1 \in Nat /\ ee - 1 <= Len(s) /\ i <= (ee - 1) - pp + 1 /\ pp \in Nat /\ 1 <= pp
        BY <2>1, <2>2, <3>4
      <4>2. i \in 1 .. Len(u)
        BY <2>2, <3>4
      <4>3. Readable(SubSeq(u, 1, i), 1) <=> Readable(s, pp) /\ o <= pp + i
        BY <3>4, <4>1, SplitReadable
      <4>4. RestOf(u, nn, k, i) = <<SubSeq(s, pp + i, ee - 1), nn - 1, k>>
        <5> HIDE DEF k
        <5> QED BY <3>4, <4>1, SplitRest
      <4>5. Readable(SubSeq(u, 1, i), 1) =>
              InnerOf(u, k, i) = <<SubSeq(s, o, pp + i - 1), items, k - 1>>
        <5> HIDE DEF k
        <5> QED BY <3>4, <4>1, SplitInner
      <4> HIDE DEF u, o, k, items
      <4>6. Readable(SubSeq(u, 1, i), 1) <=> Readable(s, pp) /\ o <= q
        BY <3>4, <4>3
      <4>7. RestOf(u, nn, k, i) = <<SubSeq(s, q, ee - 1), nn - 1, k>>
        BY <3>4, <4>4
      <4>8. Readable(SubSeq(u, 1, i), 1) =>
              InnerOf(u, k, i) = <<SubSeq(s, o, q - 1), items, k - 1>>
        <5>1. pp + i - 1 = q - 1
          BY <3>4, <4>1
        <5> QED BY <4>5, <5>1
      <4> QED BY <4>2, <4>6, <4>7, <4>8
    <3>5. ASSUME NEW i \in 1 .. Len(u), k >= 0, Readable(SubSeq(u, 1, i), 1),
                 RestOf(u, nn, k, i) \in A, InnerOf(u, k, i) \in A
          PROVE  Skip(s, pp, nn, dd) = ee
      <4> DEFINE q == pp + i
      <4>1. q \in pp + 1 .. ee /\ q \in Nat /\ q = pp + i /\ i \in Nat /\ 1 <= i /\ q <= ee /\ q # Malformed
        BY <2>1, <2>2 DEF Malformed
      <4> HIDE DEF q
      <4>2. /\ Readable(s, pp) /\ o <= q
            /\ RestOf(u, nn, k, i) = <<SubSeq(s, q, ee - 1), nn - 1, k>>
            /\ InnerOf(u, k, i) = <<SubSeq(s, o, q - 1), items, k - 1>>
        <5> HIDE DEF u, k, A, o, items
        <5> QED BY <3>5, <3>4, <4>1
      <4>3. /\ Grammar[<<SubSeq(s, q, ee - 1), nn - 1, k>>]
            /\ Grammar[<<SubSeq(s, o, q - 1), items, k - 1>>]
        BY <3>5, <4>2, Zenon DEF Accepted
      <4>4. inner = q /\ Skip(s, q, nn - 1, dd) = ee
        BY <3>3, <4>1, <4>2, <4>3
      <4>5. ~ (dd > MaxDepth)
        BY <3>5, DepthAssumption
      <4> QED BY <3>1, <4>1, <4>2, <4>4, <4>5
    <3>6. ASSUME Skip(s, pp, nn, dd) = ee
          PROVE  \E i \in 1 .. Len(u) :
                   k >= 0 /\ Readable(SubSeq(u, 1, i), 1) /\ RestOf(u, nn, k, i) \in A /\ InnerOf(u, k, i) \in A
      <4>1. ee # Malformed
        BY <2>1, <2>2 DEF Malformed
      <4>2. /\ ~ (dd > MaxDepth) /\ Readable(s, pp) /\ inner # Malformed
            /\ Skip(s, inner, nn - 1, dd) = ee
        BY <3>1, <3>6, <4>1
      <4> DEFINE q == inner
      <4>3. q \in pp + 1 .. ee /\ o <= q
        <5>1. SkipsForward(s, items, dd + 1, o)
          <6>1. items \in Nat /\ o \in Position /\ dd + 1 \in Nat
            BY <3>2, <4>2
          <6> HIDE DEF items, o
          <6> QED BY <6>1, SkipForward
        <5>2. q \in Nat /\ o <= q
          BY <3>2, <4>2, <5>1 DEF SkipsForward
        <5>3. q \in Position /\ nn - 1 \in Nat
          BY <2>5, <4>2, <5>2 DEF Position, Malformed
        <5> HIDE DEF q, o
        <5>4. SkipsForward(s, nn - 1, dd, q)
          BY <5>3, SkipForward
        <5>5. q <= ee
          <6>1. Skip(s, q, nn - 1, dd) = ee
            BY <4>2 DEF q
          <6> QED BY <4>1, <5>2, <5>3, <5>4, <6>1 DEF SkipsForward
        <5>6. pp + 1 <= q
          BY <2>2, <3>2, <4>2, <5>2
        <5> QED BY <2>2, <5>2, <5>5, <5>6
      <4>4. /\ Grammar[<<SubSeq(s, q, ee - 1), nn - 1, k>>]
            /\ Grammar[<<SubSeq(s, o, q - 1), items, k - 1>>]
        BY <3>3, <4>2, <4>3
      <4> HIDE DEF q
      <4> DEFINE i == q - pp
      <4>5. /\ i \in 1 .. Len(u) /\ Readable(SubSeq(u, 1, i), 1)
            /\ RestOf(u, nn, k, i) = <<SubSeq(s, q, ee - 1), nn - 1, k>>
            /\ InnerOf(u, k, i) = <<SubSeq(s, o, q - 1), items, k - 1>>
        <5>1. i \in Nat /\ q \in Nat /\ 1 <= i /\ q = pp + i /\ q <= ee
          BY <2>1, <2>2, <4>3
        <5> HIDE DEF u, k, A, o, items, i
        <5> QED BY <3>4, <4>2, <4>3, <5>1
      <4>6. RestOf(u, nn, k, i) \in Strings /\ InnerOf(u, k, i) \in Strings
        <5> HIDE DEF i, u, k
        <5> QED BY <2>2, <2>5, <4>5, ShorterStrings
      <4>7. RestOf(u, nn, k, i) \in A /\ InnerOf(u, k, i) \in A
        BY <4>4, <4>5, <4>6, Zenon DEF Accepted
      <4>8. k >= 0
        BY <4>2, DepthAssumption
      <4> HIDE DEF i, A, u, k
      <4> QED BY <4>5, <4>7, <4>8
    <3>7. Parse(A, u, nn, k) <=>
            \E i \in 1 .. Len(u) :
              k >= 0 /\ Readable(SubSeq(u, 1, i), 1) /\ RestOf(u, nn, k, i) \in A /\ InnerOf(u, k, i) \in A
      BY <2>5, Zenon DEF Parse
    <3> HIDE DEF A, u, k, inner
    <3>8. Parse(A, u, nn, k) <=> Skip(s, pp, nn, dd) = ee
      BY <3>5, <3>6, <3>7, Zenon
    <3> QED BY <2>3, <3>8 DEF u, k
  <2> QED BY <2>4, <2>5
<1>3. \A x \in Nat : x \in T => x + 1 \in T
  <2> HIDE DEF Same
  <2> QED BY <1>2
<1> HIDE DEF P
<1>4. Nat \subseteq T
  <2> HIDE DEF T
  <2> QED BY <1>1, <1>3, SetInduction
<1>5. P((e - p) + 1) /\ e - p < (e - p) + 1
  <2>1. (e - p) + 1 \in Nat /\ e - p < (e - p) + 1
    BY DEF Position
  <2>2. (e - p) + 1 \in T
    <3> HIDE DEF T
    <3> QED BY <1>4, <2>1
  <2> QED BY <2>1, <2>2
<1> QED BY <1>5 DEF P

-----------------------------------------------------------------------------
(* The announced number of keys is a natural number.                       *)
LEMMA CountIsNat ==
  ASSUME NEW f \in Seq(Byte), HasMapHeader(f)
  PROVE  MapCount(f) \in Nat
<1>1. 1 \in 1 .. Len(f) /\ 1 + LengthBytes(f[1]) <= Len(f)
  BY DEF HasMapHeader
<1> QED BY <1>1, AnnouncedIsNat DEF MapCount

(* A key's own bytes end inside the data, a position behind it.            *)
LEMMA KeyEnds ==
  ASSUME NEW f \in Seq(Byte), NEW p \in Position, HasFieldId(f, p)
  PROVE  AfterKey(f, p) \in p + 1 .. Len(f) + 1
<1>1. NumberBody(f[p]) \in Nat
  BY DEF NumberBody
<1> QED BY <1>1 DEF HasFieldId, AfterKey, Position

(* An entry that is whole takes at least two bytes of the data.            *)
LEMMA EntryEnds ==
  ASSUME NEW f \in Seq(Byte), NEW p \in Position
  PROVE  /\ AfterEntry(f, p) \in Nat
         /\ AfterEntry(f, p) # Malformed => AfterEntry(f, p) \in p + 2 .. Len(f) + 1
<1>1. CASE ~HasFieldId(f, p)
  BY <1>1 DEF AfterEntry, Malformed
<1>2. CASE HasFieldId(f, p)
  <2> DEFINE q == AfterKey(f, p)
  <2>1. q \in p + 1 .. Len(f) + 1 /\ q \in Nat /\ q \in Position
    BY <1>2, KeyEnds DEF Position
  <2> HIDE DEF q
  <2>2. SkipsForward(f, 1, 0, q)
    BY <2>1, SkipForward
  <2>3. SkipValueAt(f, q, 0) \in Nat
    BY <2>2 DEF SkipsForward, SkipValueAt
  <2>4. SkipValueAt(f, q, 0) # Malformed => SkipValueAt(f, q, 0) \in q + 1 .. Len(f) + 1
    BY <2>1, ValueEnds
  <2>5. AfterEntry(f, p) = SkipValueAt(f, q, 0)
    BY <1>2 DEF AfterEntry, q
  <2> QED BY <2>1, <2>3, <2>4, <2>5 DEF Position
<1> QED BY <1>1, <1>2

(* The walk from key to key is what its recursion says.                    *)
LEMMA KeyWalk ==
  ASSUME NEW f \in Seq(Byte)
  PROVE  /\ KeyPosition(f)[1] = FirstEntry(f)
         /\ \A i \in Nat \ {0} :
              /\ KeyPosition(f)[i] \in Nat
              /\ KeyPosition(f)[i + 1] =
                   IF KeyPosition(f)[i] = Malformed THEN Malformed
                   ELSE AfterEntry(f, KeyPosition(f)[i])
<1> DEFINE S == Nat
           first == FirstEntry(f)
           next(x) == IF x = Malformed THEN Malformed ELSE AfterEntry(f, x)
           step == [i \in Nat |-> [x \in S |-> next(x)]]
           IsWalk(g) == g = [i \in Nat \ {0} |-> IF i = 1 THEN FirstEntry(f)
                                                 ELSE IF g[i - 1] = Malformed THEN Malformed
                                                 ELSE AfterEntry(f, g[i - 1])]
<1>1. first \in S
  BY DEF FirstEntry, LengthBytes
<1>2. \A x \in S : next(x) \in S
  BY EntryEnds DEF Malformed, Position
<1>3. step \in [Nat -> [S -> S]] /\ \A i \in Nat, x \in S : step[i][x] = next(x)
  BY <1>2
<1> HIDE DEF S, first, step
<1>4. PICK r : Recurs(r, S, first, step)
  BY <1>1, <1>3, NatRecursion, Zenon
<1>5. r[0] = first /\ \A i \in Nat : r[i] \in S /\ r[i + 1] = next(r[i])
  BY <1>3, <1>4 DEF Recurs
<1>6. \E g : IsWalk(g)
  <2> DEFINE g == [i \in Nat \ {0} |-> r[i - 1]]
  <2>1. g = [i \in Nat \ {0} |-> IF i = 1 THEN FirstEntry(f)
                                 ELSE IF g[i - 1] = Malformed THEN Malformed
                                 ELSE AfterEntry(f, g[i - 1])]
    <3> SUFFICES ASSUME NEW i \in Nat \ {0}
                 PROVE  r[i - 1] = IF i = 1 THEN FirstEntry(f)
                                   ELSE IF g[i - 1] = Malformed THEN Malformed
                                   ELSE AfterEntry(f, g[i - 1])
      OBVIOUS
    <3>1. CASE i = 1
      BY <1>5, <3>1 DEF first
    <3>2. CASE i # 1
      <4>1. i - 2 \in Nat /\ i - 2 + 1 = i - 1 /\ i - 1 \in Nat \ {0} /\ i - 1 - 1 = i - 2
        BY <3>2
      <4>2. r[i - 1] = next(r[i - 2]) /\ g[i - 1] = r[i - 2]
        BY <1>5, <4>1
      <4> QED BY <3>2, <4>2
    <3> QED BY <3>1, <3>2
  <2> QED BY <2>1
<1>7. IsWalk(KeyPosition(f))
  BY <1>6 DEF KeyPosition
<1> DEFINE at == KeyPosition(f)
<1>8. at[1] = first /\ \A i \in Nat \ {0} : at[i + 1] = next(at[i])
  <2> HIDE DEF at
  <2>1. at[1] = first
    BY <1>7 DEF first, at
  <2>2. ASSUME NEW i \in Nat \ {0}
        PROVE  at[i + 1] = next(at[i])
    <3>1. i + 1 \in Nat \ {0} /\ i + 1 # 1 /\ i + 1 - 1 = i
      OBVIOUS
    <3> QED BY <1>7, <3>1 DEF at
  <2> QED BY <2>1, <2>2
<1>9. \A i \in Nat : at[i + 1] \in Nat
  <2> DEFINE T == {i \in Nat : at[i + 1] \in Nat}
  <2> HIDE DEF at
  <2>1. 0 \in T
    BY <1>1, <1>8 DEF S
  <2>2. ASSUME NEW i \in Nat, i \in T
        PROVE  i + 1 \in T
    <3>1. at[i + 1] \in Nat /\ i + 1 \in Nat \ {0}
      BY <2>2
    <3> QED BY <1>2, <1>8, <3>1 DEF S
  <2> HIDE DEF T
  <2>3. Nat \subseteq T
    BY <2>1, <2>2, SetInduction
  <2> QED BY <2>3 DEF T
<1>10. \A i \in Nat \ {0} : at[i] \in Nat
  <2> HIDE DEF at
  <2>1. \A i \in Nat \ {0} : i - 1 \in Nat /\ i - 1 + 1 = i
    OBVIOUS
  <2> QED BY <1>9, <2>1
<1> QED BY <1>8, <1>10 DEF first

(* From here on the limit is cited where it matters.                      *)
HIDE DepthAssumption

-----------------------------------------------------------------------------
(* What is one piece by itself is one piece wherever it lies.              *)
LiesIn(u, s, p) == p + Len(u) <= Len(s) + 1 /\ \A i \in 1 .. Len(u) : s[p + i - 1] = u[i]

Whole(v, n, d) == Skip(v, 1, n, d) = Len(v) + 1

LEMMA SkipLocal ==
  ASSUME NEW v \in Seq(Byte), NEW s \in Seq(Byte), NEW p \in Position, LiesIn(v, s, p),
         NEW n \in Nat, NEW d \in Nat, Whole(v, n, d)
  PROVE  Skip(s, p, n, d) = p + Len(v)
<1>1. PICK q : q = p + Len(v)
  OBVIOUS
<1>2. PICK e : e = Len(v) + 1
  OBVIOUS
<1>3. /\ Len(v) \in Nat /\ q \in Nat /\ p <= q /\ q <= Len(s) + 1 /\ 1 \in Position /\ e \in Nat
      /\ 1 <= e /\ e <= Len(v) + 1
  BY <1>1, <1>2 DEF Position, LiesIn
<1>4. SubSeq(s, p, q - 1) = v
  <2>1. PICK u : u = SubSeq(s, p, q - 1)
    OBVIOUS
  <2>2. u \in Seq(Byte) /\ Len(u) = Len(v) /\ \A i \in 1 .. Len(v) : u[i] = s[p + i - 1]
    <3>1. q - p = Len(v)
      BY <1>1, <1>3 DEF Position
    <3> QED BY <1>3, <2>1, <3>1, PartOf
  <2>3. \A i \in 1 .. Len(v) : u[i] = v[i]
    BY <2>2 DEF LiesIn
  <2>4. u = v
    BY <2>2, <2>3
  <2> QED BY <2>1, <2>4
<1>5. SubSeq(v, 1, e - 1) = v
  <2>1. e - 1 = Len(v)
    BY <1>2, <1>3
  <2> QED BY <2>1, SubSeqFull
<1>6. Grammar[<<SubSeq(v, 1, e - 1), n, MaxDepth - d>>] <=> Skip(v, 1, n, d) = e
  BY <1>3, SkipsWhatTheGrammarHas
<1>7. Grammar[<<SubSeq(s, p, q - 1), n, MaxDepth - d>>] <=> Skip(s, p, n, d) = q
  BY <1>3, SkipsWhatTheGrammarHas
<1>8. Skip(v, 1, n, d) = e
  BY <1>2 DEF Whole
<1> QED BY <1>1, <1>4, <1>5, <1>6, <1>7, <1>8

(* No values take no bytes; several are skipped one after the other.       *)
LEMMA SkipNone ==
  ASSUME NEW s \in Seq(Byte), NEW p \in Position, NEW d \in Nat
  PROVE  Skip(s, p, 0, d) = p
<1>1. 0 \in Nat
  OBVIOUS
<1>2. Skip(s, p, 0, d) =
        IF 0 = 0 THEN p
        ELSE IF d > MaxDepth \/ ~Readable(s, p) THEN Malformed
        ELSE IF Skip(s, OwnEnd(s, p), Items(s, p), d + 1) = Malformed THEN Malformed
        ELSE Skip(s, Skip(s, OwnEnd(s, p), Items(s, p), d + 1), 0 - 1, d)
  BY <1>1, SkipEquation
<1> QED BY <1>2, Zenon

LEMMA SkipNext ==
  ASSUME NEW s \in Seq(Byte), NEW p \in Position, NEW n \in Nat, NEW d \in Nat
  PROVE  /\ SkipValueAt(s, p, d) = Malformed => Skip(s, p, n + 1, d) = Malformed
         /\ SkipValueAt(s, p, d) # Malformed =>
              Skip(s, p, n + 1, d) = Skip(s, SkipValueAt(s, p, d), n, d)
<1> DEFINE bad   == d > MaxDepth \/ ~Readable(s, p)
           inner == Skip(s, OwnEnd(s, p), Items(s, p), d + 1)
<1>1. /\ n + 1 \in Nat /\ n + 1 # 0 /\ (n + 1) - 1 = n /\ 1 \in Nat /\ 1 # 0 /\ 1 - 1 = 0 /\ 0 \in Nat
  OBVIOUS
<1>2. Skip(s, p, n + 1, d) = IF n + 1 = 0 THEN p ELSE IF bad THEN Malformed
                             ELSE IF inner = Malformed THEN Malformed
                             ELSE Skip(s, inner, (n + 1) - 1, d)
  BY <1>1, SkipEquation
<1>3. Skip(s, p, 1, d) = IF 1 = 0 THEN p ELSE IF bad THEN Malformed
                         ELSE IF inner = Malformed THEN Malformed
                         ELSE Skip(s, inner, 1 - 1, d)
  BY <1>1, SkipEquation
<1>4. ~bad /\ inner # Malformed => inner \in Position
  <2> SUFFICES ASSUME ~bad, inner # Malformed PROVE inner \in Position
    OBVIOUS
  <2>1. p \in 1 .. Len(s) + 1 /\ Readable(s, p)
    BY DEF Position, Readable
  <2>2. OwnEnd(s, p) \in p + 1 .. Len(s) + 1 /\ Items(s, p) \in Nat
    BY <2>1, ReadingAdvances
  <2>3. OwnEnd(s, p) \in Position /\ d + 1 \in Nat
    BY <2>1, <2>2 DEF Position
  <2>4. SkipsForward(s, Items(s, p), d + 1, OwnEnd(s, p))
    BY <2>2, <2>3, SkipForward
  <2> QED BY <2>4 DEF SkipsForward, Position, Malformed
<1>5. inner \in Position => Skip(s, inner, 0, d) = inner
  <2> HIDE DEF inner
  <2> QED BY SkipNone
<1> HIDE DEF bad, inner
<1>6. SkipValueAt(s, p, d) = IF bad \/ inner = Malformed THEN Malformed ELSE inner
  BY <1>1, <1>3, <1>4, <1>5 DEF SkipValueAt
<1>7. Skip(s, p, n + 1, d) = IF bad \/ inner = Malformed THEN Malformed ELSE Skip(s, inner, n, d)
  BY <1>1, <1>2
<1> QED BY <1>6, <1>7

-----------------------------------------------------------------------------
(* A map of n entries as the writers lay it out: the i-th entry starts at  *)
(* at[i] with its id in the shortest encoding, and its value is whole one  *)
(* level down.                                                             *)
KeyWidth(id) == IF id <= 127 THEN 1 ELSE 2
KeyAt(f, p, id) == IF id <= 127 THEN f[p] = id ELSE f[p] = 204 /\ f[p + 1] = id
EntryAt(f, p, id, next) == KeyAt(f, p, id) /\ Skip(f, p + KeyWidth(id), 1, 1) = next
CountAt(f, n, first) ==
  \/ n < 16 /\ f[1] = 128 + n /\ first = 2
  \/ f[1] = 222 /\ 256 * f[2] + f[3] = n /\ first = 4
IsLaid(f, ids, at, n) ==
  /\ f \in Seq(Byte) /\ f # <<>> /\ n \in Nat /\ n <= MaxFields
  /\ ids \in [1 .. n -> Byte] /\ at \in [1 .. n + 1 -> Position]
  /\ CountAt(f, n, at[1]) /\ at[1] <= Len(f) + 1 /\ at[n + 1] = Len(f) + 1
  /\ \A k \in 1 .. n : EntryAt(f, at[k], ids[k], at[k + 1])
  /\ \A j, k \in 1 .. n : j # k => ids[j] # ids[k]

(* An id is a scalar, and its last byte is the id.                         *)
ReadsId(f, p, id) ==
  /\ Readable(f, p) /\ IsScalar(f[p]) /\ OwnEnd(f, p) = p + KeyWidth(id)
  /\ HasFieldId(f, p) /\ AfterKey(f, p) = p + KeyWidth(id)
  /\ FieldId(f, p)[9] = id

LEMMA IdRead ==
  ASSUME NEW f \in Seq(Byte), NEW p \in Position, NEW id \in Byte, KeyAt(f, p, id),
         p + KeyWidth(id) <= Len(f) + 1
  PROVE  ReadsId(f, p, id)
<1>1. Len(f) \in Nat /\ p \in Nat /\ 1 <= p /\ id \in Nat /\ id <= 255
  BY DEF Position, Byte
<1>2. CASE id <= 127
  <2>1. f[p] = id /\ KeyWidth(id) = 1 /\ p <= Len(f)
    BY <1>1, <1>2 DEF KeyAt, KeyWidth
  <2>2. LengthBytes(id) = 0 /\ NumberBody(id) = 0
    BY <1>1, <1>2 DEF LengthBytes, NumberBody
  <2>3. IsScalar(id) /\ IsInteger(id) /\ ~IsBlob(id)
    BY <1>1, <1>2 DEF IsScalar, IsInteger, IsBlob, FixStr
  <2>4. OwnEnd(f, p) = p + 1 /\ AfterKey(f, p) = p + 1
    BY <1>1, <2>1, <2>2, <2>3 DEF OwnEnd, AfterKey
  <2>5. Readable(f, p)
    BY <1>1, <2>1, <2>2, <2>3, <2>4 DEF Readable
  <2>6. HasFieldId(f, p)
    BY <1>1, <2>1, <2>2, <2>3 DEF HasFieldId
  <2>7. FieldId(f, p)[9] = id
    <3>1. Len(<<id>>) = 1 /\ <<id>>[1] = id
      BY SMT
    <3> DEFINE body == <<id>>
               sign == IF body[1] >= 128 /\ (0 = 0 \/ f[p] \in SignedCodes) THEN 255 ELSE 0
    <3>2. FieldId(f, p) = [i \in 1 .. 9 |-> IF i > 9 - Len(body) THEN body[i - 9 + Len(body)] ELSE sign]
      BY <2>1, <2>2 DEF FieldId
    <3> HIDE DEF body, sign
    <3>3. FieldId(f, p)[9] = IF 9 > 9 - Len(body) THEN body[9 - 9 + Len(body)] ELSE sign
      BY <3>2
    <3> QED BY <3>1, <3>3 DEF body
  <2> QED BY <2>1, <2>3, <2>4, <2>5, <2>6, <2>7 DEF ReadsId
<1>3. CASE ~ (id <= 127)
  <2>1. f[p] = 204 /\ f[p + 1] = id /\ KeyWidth(id) = 2 /\ p + 1 <= Len(f)
    BY <1>1, <1>3 DEF KeyAt, KeyWidth
  <2>2. LengthBytes(204) = 0 /\ NumberBody(204) = 1 /\ 204 \notin SignedCodes
    BY DEF LengthBytes, NumberBody, SignedCodes
  <2>3. IsScalar(204) /\ IsInteger(204) /\ ~IsBlob(204)
    BY DEF IsScalar, IsInteger, IsBlob, FixStr
  <2>4. OwnEnd(f, p) = p + 2 /\ AfterKey(f, p) = p + 2
    BY <1>1, <2>1, <2>2, <2>3 DEF OwnEnd, AfterKey
  <2>5. Readable(f, p)
    BY <1>1, <2>1, <2>2, <2>3, <2>4 DEF Readable
  <2>6. HasFieldId(f, p)
    BY <1>1, <2>1, <2>2, <2>3 DEF HasFieldId
  <2>7. FieldId(f, p)[9] = id
    <3> DEFINE width == NumberBody(f[p])
               body  == IF width = 0 THEN <<f[p]>> ELSE SubSeq(f, p + 1, p + width)
               sign  == IF body[1] >= 128 /\ (width = 0 \/ f[p] \in SignedCodes) THEN 255 ELSE 0
    <3>1. Len(body) = 1 /\ body[1] = id
      <4>1. width = 1
        BY <2>1, <2>2
      <4> HIDE DEF width
      <4>2. body = SubSeq(f, p + 1, p + 1)
        BY <4>1
      <4>3. Len(SubSeq(f, p + 1, p + 1)) = 1 /\ SubSeq(f, p + 1, p + 1)[1] = f[p + 1]
        BY <1>1, <2>1
      <4> HIDE DEF body
      <4> QED BY <2>1, <4>2, <4>3
    <3>2. FieldId(f, p) = [i \in 1 .. 9 |-> IF i > 9 - Len(body) THEN body[i - 9 + Len(body)] ELSE sign]
      BY DEF FieldId
    <3> HIDE DEF body, sign
    <3>3. FieldId(f, p)[9] = IF 9 > 9 - Len(body) THEN body[9 - 9 + Len(body)] ELSE sign
      BY <3>2
    <3> QED BY <3>1, <3>3
  <2> QED BY <2>1, <2>3, <2>4, <2>5, <2>6, <2>7 DEF ReadsId
<1> QED BY <1>2, <1>3

(* An entry is read as its id and a value, at its own depth or above.      *)
LEMMA EntryRead ==
  ASSUME MaxDepth >= 1, NEW f \in Seq(Byte), NEW p \in Position, NEW id \in Byte, NEW next \in Position,
         EntryAt(f, p, id, next)
  PROVE  /\ ReadsId(f, p, id) /\ p < next /\ next <= Len(f) + 1
         /\ AfterEntry(f, p) = next
         /\ \A n \in Nat : Skip(f, p, n + 2, 1) = Skip(f, next, n, 1)
<1> USE DepthAssumption
<1>1. PICK q : q = p + KeyWidth(id)
  OBVIOUS
<1>2. q \in Position /\ p < q /\ p \in Nat /\ q \in Nat
  BY <1>1 DEF KeyWidth, Position
<1>3. KeyAt(f, p, id) /\ SkipValueAt(f, q, 1) = next
  BY <1>1 DEF EntryAt, SkipValueAt
<1>4. next # Malformed
  BY DEF Position, Malformed
<1>5. next \in q + 1 .. Len(f) + 1
  <2>1. SkipValueAt(f, q, 1) # Malformed /\ 1 \in Nat
    BY <1>3, <1>4
  <2>2. SkipValueAt(f, q, 1) \in q + 1 .. Len(f) + 1
    BY <1>2, <2>1, ValueEnds
  <2> QED BY <1>3, <2>2
<1>6. p < next /\ next <= Len(f) + 1 /\ q <= Len(f) + 1
  BY <1>2, <1>5
<1>7. ReadsId(f, p, id)
  BY <1>1, <1>3, <1>6, IdRead
<1>8. AfterEntry(f, p) = next
  <2>1. SameAbove(f, 1, 0, q)
    BY <1>2, SkipAbove
  <2>2. Skip(f, q, 1, 0 + 1) # Malformed => Skip(f, q, 1, 0) = Skip(f, q, 1, 0 + 1)
    BY <2>1 DEF SameAbove
  <2>3. Skip(f, q, 1, 0) = next
    BY <1>3, <1>4, <2>2 DEF SkipValueAt
  <2> QED BY <1>1, <1>7, <2>3 DEF AfterEntry, ReadsId, SkipValueAt
<1>9. SkipValueAt(f, p, 1) = q
  <2>1. Readable(f, p) /\ IsScalar(f[p]) /\ OwnEnd(f, p) = q
    BY <1>1, <1>7 DEF ReadsId
  <2> QED BY <2>1, BlobEnd
<1>10. ASSUME NEW n \in Nat PROVE Skip(f, p, n + 2, 1) = Skip(f, next, n, 1)
  <2>1. n + 1 \in Nat /\ (n + 1) + 1 = n + 2 /\ 1 \in Nat
    OBVIOUS
  <2>2. q # Malformed
    BY <1>2 DEF Position, Malformed
  <2>3. Skip(f, p, (n + 1) + 1, 1) = Skip(f, q, n + 1, 1)
    BY <1>9, <2>1, <2>2, SkipNext
  <2>4. Skip(f, q, n + 1, 1) = Skip(f, next, n, 1)
    BY <1>2, <1>3, <1>4, SkipNext
  <2> QED BY <2>1, <2>3, <2>4
<1> QED BY <1>6, <1>7, <1>8, <1>10


(* The header of a laid map is read as it was written.                     *)
LEMMA LaidHeader ==
  ASSUME NEW f \in Seq(Byte), f # <<>>, NEW n \in Nat, NEW first \in Position,
         CountAt(f, n, first), first <= Len(f) + 1
  PROVE  /\ Readable(f, 1) /\ OwnEnd(f, 1) = first /\ Items(f, 1) = 2 * n
         /\ HasMapHeader(f) /\ MapCount(f) = n /\ FirstEntry(f) = first
<1> DEFINE c == f[1]
<1>1. Len(f) \in Nat /\ 1 <= Len(f)
  BY EmptySeq
<1>2. CASE n < 16 /\ c = 128 + n /\ first = 2
  <2>1. c \in Nat /\ 128 <= c /\ c <= 143
    BY <1>2
  <2> HIDE DEF c
  <2>2. c \in FixMap /\ c \notin FixStr /\ c \notin FixArray
    BY <2>1 DEF FixMap, FixStr, FixArray
  <2>3. LengthBytes(c) = 0
    BY <2>1 DEF LengthBytes
  <2>4. NumberBody(c) = 0
    BY <2>1 DEF NumberBody
  <2>5. IsMap(c) /\ ~IsArray(c) /\ ~IsBlob(c)
    BY <2>1, <2>2 DEF IsMap, IsArray, IsBlob
  <2>6. Announced(f, 1) = n
    <3>1. Announced(f, 1) = IF LengthBytes(c) > 0 THEN BigEndian(f, 1 + 1, LengthBytes(c))
                            ELSE IF c \in FixStr THEN c - 160
                            ELSE IF c \in FixArray THEN c - 144
                            ELSE IF c \in FixMap THEN c - 128
                            ELSE 0
      BY DEF Announced, c
    <3>2. ~ (LengthBytes(c) > 0)
      BY <2>3
    <3>3. Announced(f, 1) = c - 128
      BY <2>2, <3>1, <3>2, Zenon
    <3> QED BY <1>2, <3>3
  <2>7. OwnEnd(f, 1) = 2 /\ Items(f, 1) = 2 * n
    BY <2>3, <2>4, <2>5, <2>6 DEF OwnEnd, Items, c
  <2>8. Readable(f, 1)
    BY <1>1, <2>3, <2>5, <2>7 DEF Readable, c
  <2>9. HasMapHeader(f) /\ FirstEntry(f) = 2
    BY <1>1, <2>3, <2>5 DEF HasMapHeader, FirstEntry, c
  <2> QED BY <1>2, <2>6, <2>7, <2>8, <2>9 DEF MapCount
<1>3. CASE c = 222 /\ 256 * f[2] + f[3] = n /\ first = 4
  <2> HIDE DEF c
  <2>1. Len(f) >= 3
    BY <1>1, <1>3
  <2>2. /\ LengthBytes(222) = 2 /\ NumberBody(222) = 0 /\ IsMap(222) /\ ~IsArray(222) /\ ~IsBlob(222)
    BY DEF LengthBytes, NumberBody, IsMap, IsArray, IsBlob, FixMap, FixArray, FixStr
  <2>3. Announced(f, 1) = n
    <3>1. Announced(f, 1) = BigEndian(f, 1 + 1, 2)
      BY <1>3, <2>2 DEF Announced, c
    <3>2. BigEndian(f, 2, 2) = 256 * f[2] + f[2 + 1]
      BY DEF BigEndian
    <3>3. 1 + 1 = 2 /\ 2 + 1 = 3
      OBVIOUS
    <3> QED BY <1>3, <3>1, <3>2, <3>3
  <2>4. OwnEnd(f, 1) = 4 /\ Items(f, 1) = 2 * n
    BY <1>3, <2>2, <2>3 DEF OwnEnd, Items, c
  <2>5. Readable(f, 1)
    BY <1>1, <1>3, <2>1, <2>2, <2>4 DEF Readable, c
  <2>6. HasMapHeader(f) /\ FirstEntry(f) = 4
    BY <1>1, <1>3, <2>1, <2>2 DEF HasMapHeader, FirstEntry, c
  <2> QED BY <1>3, <2>3, <2>4, <2>5, <2>6 DEF MapCount
<1> QED BY <1>2, <1>3 DEF CountAt, c

(* So skip_value gets past it.                                             *)
LEMMA LaidSkips ==
  ASSUME MaxDepth >= 1, NEW f, NEW ids, NEW at, NEW n, IsLaid(f, ids, at, n)
  PROVE  Whole(f, 1, 0)
<1> USE DepthAssumption
<1>1. /\ f \in Seq(Byte) /\ f # <<>> /\ n \in Nat /\ CountAt(f, n, at[1]) /\ at[1] <= Len(f) + 1
      /\ at \in [1 .. n + 1 -> Position] /\ ids \in [1 .. n -> Byte] /\ at[n + 1] = Len(f) + 1
      /\ \A k \in 1 .. n : EntryAt(f, at[k], ids[k], at[k + 1])
  BY DEF IsLaid
<1>2. at[1] \in Position
  BY <1>1
<1>3. Readable(f, 1) /\ OwnEnd(f, 1) = at[1] /\ Items(f, 1) = 2 * n
  BY <1>1, <1>2, LaidHeader
<1> DEFINE T == {k \in Nat : k <= n => Skip(f, at[1], 2 * n, 1) = Skip(f, at[k + 1], 2 * (n - k), 1)}
<1>4. 0 \in T
  <2>1. 0 + 1 = 1 /\ 2 * (n - 0) = 2 * n
    BY <1>1
  <2> QED BY <2>1
<1>5. ASSUME NEW k \in Nat, k \in T PROVE k + 1 \in T
  <2> SUFFICES ASSUME k + 1 <= n
               PROVE  Skip(f, at[1], 2 * n, 1) = Skip(f, at[(k + 1) + 1], 2 * (n - (k + 1)), 1)
    OBVIOUS
  <2>1. PICK p : p = at[k + 1]
    OBVIOUS
  <2>2. PICK q : q = at[(k + 1) + 1]
    OBVIOUS
  <2>3. PICK m : m = 2 * (n - (k + 1))
    OBVIOUS
  <2>4. k + 1 \in 1 .. n /\ k + 1 \in 1 .. n + 1 /\ (k + 1) + 1 \in 1 .. n + 1 /\ k <= n
        /\ m \in Nat /\ m + 2 = 2 * (n - k)
    BY <1>1, <2>3
  <2>5. p \in Position /\ q \in Position
    BY <1>1, <2>1, <2>2, <2>4
  <2>6. ids[k + 1] \in Byte /\ EntryAt(f, p, ids[k + 1], q)
    <3> HIDE DEF Byte
    <3> QED BY <1>1, <2>1, <2>2, <2>4
  <2>7. Skip(f, p, m + 2, 1) = Skip(f, q, m, 1)
    BY <1>1, <2>4, <2>5, <2>6, EntryRead
  <2>8. Skip(f, at[1], 2 * n, 1) = Skip(f, p, m + 2, 1)
    BY <1>5, <2>1, <2>4
  <2> QED BY <2>2, <2>3, <2>7, <2>8
<1>6. n \in T
  <2> HIDE DEF T
  <2> QED BY <1>1, <1>4, <1>5, SetInduction
<1>7. Skip(f, at[1], 2 * n, 1) = Len(f) + 1
  <2>1. PICK e : e = Len(f) + 1
    OBVIOUS
  <2>2. e \in Position /\ e = at[n + 1]
    BY <1>1, <2>1
  <2>3. 2 * (n - n) = 0 /\ 1 \in Nat
    BY <1>1
  <2>4. Skip(f, at[1], 2 * n, 1) = Skip(f, e, 0, 1)
    BY <1>1, <1>6, <2>2, <2>3
  <2>5. Skip(f, e, 0, 1) = e
    BY <1>1, <2>2, <2>3, SkipNone
  <2> QED BY <2>1, <2>4, <2>5
<1>8. PICK e : e = Len(f) + 1
  OBVIOUS
<1>9. e \in Position /\ e # Malformed
  BY <1>1, <1>8 DEF Position, Malformed
<1>10. Skip(f, 1, 1, 0) = IF 1 = 0 THEN 1
                          ELSE IF 0 > MaxDepth \/ ~Readable(f, 1) THEN Malformed
                          ELSE IF Skip(f, OwnEnd(f, 1), Items(f, 1), 0 + 1) = Malformed THEN Malformed
                          ELSE Skip(f, Skip(f, OwnEnd(f, 1), Items(f, 1), 0 + 1), 1 - 1, 0)
  <2>1. 1 \in Nat /\ 0 \in Nat /\ 1 \in Position
    BY DEF Position
  <2> QED BY <1>1, <2>1, SkipEquation
<1>11. ~ (0 > MaxDepth) /\ 0 + 1 = 1 /\ 1 - 1 = 0 /\ 1 # 0 /\ 0 \in Nat
  OBVIOUS
<1>12. Skip(f, OwnEnd(f, 1), Items(f, 1), 0 + 1) = e
  BY <1>3, <1>7, <1>8, <1>11
<1>13. Skip(f, e, 0, 0) = e
  BY <1>1, <1>9, <1>11, SkipNone
<1>14. Skip(f, 1, 1, 0) = e
  BY <1>3, <1>9, <1>10, <1>11, <1>12, <1>13
<1> QED BY <1>8, <1>14 DEF Whole

(* And the stateless check finds its keys, all different, where they were  *)
(* written.                                                                *)
LEMMA LaidValid ==
  ASSUME MaxDepth >= 1, NEW f, NEW ids, NEW at, NEW n, IsLaid(f, ids, at, n)
  PROVE  ValidWithoutScratch(f)
<1> USE DepthAssumption
<1>1. /\ f \in Seq(Byte) /\ f # <<>> /\ n \in Nat /\ CountAt(f, n, at[1]) /\ at[1] <= Len(f) + 1
      /\ at \in [1 .. n + 1 -> Position] /\ ids \in [1 .. n -> Byte] /\ at[n + 1] = Len(f) + 1
      /\ \A k \in 1 .. n : EntryAt(f, at[k], ids[k], at[k + 1])
      /\ \A j, k \in 1 .. n : j # k => ids[j] # ids[k]
      /\ n <= MaxFields
  BY DEF IsLaid
<1>2. HasMapHeader(f) /\ MapCount(f) = n /\ FirstEntry(f) = at[1]
  <2>1. at[1] \in Position
    BY <1>1
  <2> QED BY <1>1, <2>1, LaidHeader
<1> DEFINE walk == KeyPosition(f)
<1>3. /\ walk[1] = FirstEntry(f)
      /\ \A i \in Nat \ {0} : walk[i + 1] = IF walk[i] = Malformed THEN Malformed
                                            ELSE AfterEntry(f, walk[i])
  BY <1>1, KeyWalk
<1> HIDE DEF walk
<1>4. ASSUME NEW k \in 1 .. n
      PROVE  /\ ReadsId(f, at[k], ids[k]) /\ AfterEntry(f, at[k]) = at[k + 1]
             /\ at[k] # Malformed
  <2>1. at[k] \in Position /\ at[k + 1] \in Position
    BY <1>1
  <2>2. ids[k] \in Byte /\ EntryAt(f, at[k], ids[k], at[k + 1])
    <3> HIDE DEF Byte
    <3> QED BY <1>1
  <2>3. ReadsId(f, at[k], ids[k]) /\ AfterEntry(f, at[k]) = at[k + 1]
    BY <1>1, <2>1, <2>2, EntryRead
  <2> QED BY <2>1, <2>3 DEF Position, Malformed
<1> DEFINE T == {k \in Nat : k <= n => walk[k + 1] = at[k + 1]}
<1>5. 0 \in T
  BY <1>2, <1>3
<1>6. ASSUME NEW k \in Nat, k \in T PROVE k + 1 \in T
  <2> SUFFICES ASSUME k + 1 <= n PROVE walk[(k + 1) + 1] = at[(k + 1) + 1]
    OBVIOUS
  <2>1. k + 1 \in 1 .. n /\ k + 1 \in Nat \ {0} /\ walk[k + 1] = at[k + 1]
    BY <1>1, <1>6
  <2> QED BY <1>3, <1>4, <2>1
<1>7. \A i \in 1 .. n + 1 : walk[i] = at[i]
  <2> SUFFICES ASSUME NEW i \in 1 .. n + 1 PROVE walk[i] = at[i]
    OBVIOUS
  <2>1. i - 1 \in Nat /\ i - 1 <= n /\ (i - 1) + 1 = i
    BY <1>1
  <2>2. i - 1 \in T
    <3> HIDE DEF T
    <3> QED BY <1>5, <1>6, <2>1, SetInduction
  <2> QED BY <2>1, <2>2
<1>8. ASSUME NEW i \in 1 .. n
      PROVE  /\ walk[i] # Malformed /\ HasFieldId(f, walk[i])
             /\ \A j \in 1 .. i - 1 : FieldId(f, walk[j]) # FieldId(f, walk[i])
  <2>1. walk[i] = at[i] /\ \A j \in 1 .. i - 1 : j \in 1 .. n /\ j # i /\ walk[j] = at[j]
    BY <1>1, <1>7
  <2>2. ASSUME NEW j \in 1 .. i - 1 PROVE FieldId(f, walk[j]) # FieldId(f, walk[i])
    <3>1. FieldId(f, at[j])[9] = ids[j] /\ FieldId(f, at[i])[9] = ids[i]
      BY <1>4, <2>1 DEF ReadsId
    <3>2. ids[j] # ids[i]
      BY <1>1, <2>1
    <3> QED BY <2>1, <3>1, <3>2
  <2> QED BY <1>4, <2>1, <2>2 DEF ReadsId
<1>9. walk[n + 1] = Len(f) + 1
  BY <1>1, <1>7
<1> QED BY <1>1, <1>2, <1>8, <1>9 DEF ValidWithoutScratch, walk

(* Where each of the sequences put end to end lies: the k-th starts behind *)
(* at[k - 1].                                                              *)
Placed(f, seqs, at) ==
  /\ at[0] = 0 /\ at[Len(seqs)] = Len(f) /\ \A k \in Nat : at[k] \in Nat
  /\ \A k \in Nat : k < Len(seqs) =>
       /\ at[k + 1] = at[k] + Len(seqs[k + 1]) /\ at[k + 1] <= Len(f)
       /\ \A i \in 1 .. Len(seqs[k + 1]) : f[at[k] + i] = seqs[k + 1][i]

KeptAt(x, at, seqs, k) == \A i \in 1 .. Len(seqs[k + 1]) : x[at[k] + i] = seqs[k + 1][i]

LEMMA FlattenPlaces ==
  ASSUME NEW S, NEW seqs \in Seq(Seq(S))
  PROVE  FlattenSeq(seqs) \in Seq(S) /\ \E at \in [Nat -> Nat] : Placed(FlattenSeq(seqs), seqs, at)
<1> DEFINE Texts == Seq(S)
           n == Len(seqs)
<1>1. n \in Nat /\ <<>> \in Texts
  OBVIOUS
<1>2. PICK r : Recurs(r, Texts, <<>>, JoinStep(S, seqs))
  <2>1. JoinStep(S, seqs) \in [Nat -> [Texts -> Texts]]
    BY JoinSteps
  <2> HIDE DEF Texts
  <2> QED BY <1>1, <2>1, NatRecursion, Zenon
<1>3. FlattenSeq(seqs) = r[n]
  BY <1>2, FlattenJoins
<1>4. ASSUME NEW k \in Nat, k < n
      PROVE  /\ seqs[k + 1] \in Texts /\ r[k + 1] = r[k] \o seqs[k + 1]
  <2>1. seqs[k + 1] \in Seq(S)
    BY <1>1, <1>4
  <2>2. r[k] \in Seq(S) /\ r[k + 1] = JoinStep(S, seqs)[k][r[k]]
    BY <1>2 DEF Recurs
  <2>3. JoinStep(S, seqs)[k][r[k]] = r[k] \o seqs[k + 1]
    BY <1>4, <2>2, JoinSteps
  <2> QED BY <2>1, <2>2, <2>3
<1>5. \A k \in Nat : r[k] \in Texts
  BY <1>2 DEF Recurs
<1>6. r[0] = <<>>
  BY <1>2 DEF Recurs
<1> HIDE DEF n
<1> DEFINE at == [k \in Nat |-> Len(r[k])]
<1>7. at \in [Nat -> Nat] /\ \A k \in Nat : at[k] = Len(r[k]) /\ at[k] \in Nat
  BY <1>5
<1>8. at[0] = 0
  BY <1>6, <1>7
<1> HIDE DEF at, Texts
<1>9. ASSUME NEW k \in Nat, k < n
      PROVE  /\ at[k + 1] = at[k] + Len(seqs[k + 1]) /\ Len(seqs[k + 1]) \in Nat
             /\ \A i \in 1 .. at[k] : r[k + 1][i] = r[k][i]
             /\ KeptAt(r[k + 1], at, seqs, k)
  <2>1. PICK a : a = r[k]
    OBVIOUS
  <2>2. PICK b : b = seqs[k + 1]
    OBVIOUS
  <2>3. PICK c : c = r[k + 1]
    OBVIOUS
  <2>4. a \in Seq(S) /\ b \in Seq(S) /\ c = a \o b
    BY <1>4, <1>5, <1>9, <2>1, <2>2, <2>3 DEF Texts
  <2>5. Len(a) = at[k] /\ at[k + 1] = Len(c)
    <3>1. k + 1 \in Nat
      OBVIOUS
    <3>2. at[k] = Len(r[k]) /\ at[k + 1] = Len(r[k + 1])
      BY <1>7, <3>1
    <3> QED BY <2>1, <2>3, <3>2
  <2>6. Len(a) \in Nat /\ Len(b) \in Nat /\ Len(c) = Len(a) + Len(b)
    BY <2>4
  <2>7. \A i \in 1 .. Len(a) : c[i] = a[i]
    BY <2>4, <2>6
  <2>8. \A i \in 1 .. Len(b) : c[Len(a) + i] = b[i]
    BY <2>4, <2>6
  <2>9. KeptAt(c, at, seqs, k)
    BY <2>2, <2>5, <2>8 DEF KeptAt
  <2> QED BY <2>1, <2>2, <2>3, <2>5, <2>6, <2>7, <2>9
<1> DEFINE Kept(j, k) == at[k + 1] <= at[j] /\ KeptAt(r[j], at, seqs, k)
           T == {j \in Nat : j <= n => \A k \in Nat : k < j => Kept(j, k)}
<1>10. 0 \in T
  OBVIOUS
<1>11. ASSUME NEW j \in Nat, j \in T PROVE j + 1 \in T
  <2> SUFFICES ASSUME j + 1 <= n PROVE \A k \in Nat : k < j + 1 => Kept(j + 1, k)
    <3> HIDE DEF Kept
    <3> QED OBVIOUS
  <2> SUFFICES ASSUME NEW k \in Nat, k < j + 1 PROVE Kept(j + 1, k)
    OBVIOUS
  <2>1. j < n /\ j <= n /\ j + 1 \in Nat
    BY <1>1
  <2>2. at[j + 1] = at[j] + Len(seqs[j + 1]) /\ Len(seqs[j + 1]) \in Nat /\ at[j] \in Nat /\ at[k] \in Nat
        /\ at[k + 1] \in Nat
    <3>1. at[j + 1] = at[j] + Len(seqs[j + 1]) /\ Len(seqs[j + 1]) \in Nat
      BY <1>9, <2>1
    <3>2. k + 1 \in Nat
      OBVIOUS
    <3>3. at[j] \in Nat /\ at[k] \in Nat /\ at[k + 1] \in Nat
      BY <1>7, <3>2
    <3> QED BY <3>1, <3>3
  <2>3. CASE k = j
    <3>1. at[k + 1] <= at[j + 1]
      BY <2>2, <2>3
    <3>2. KeptAt(r[j + 1], at, seqs, k)
      BY <1>9, <2>1, <2>3
    <3> QED BY <3>1, <3>2
  <2>4. CASE k # j
    <3>1. k < j
      BY <2>4
    <3>2. Kept(j, k)
      BY <1>11, <2>1, <3>1
    <3>3. at[k + 1] <= at[j + 1]
      BY <2>2, <3>2
    <3>4. ASSUME NEW i \in 1 .. Len(seqs[k + 1]) PROVE r[j + 1][at[k] + i] = seqs[k + 1][i]
      <4>1. k < n
        BY <1>1, <2>1, <3>1
      <4>2. at[k + 1] = at[k] + Len(seqs[k + 1]) /\ Len(seqs[k + 1]) \in Nat
        BY <1>9, <4>1
      <4>3. at[k] + i \in 1 .. at[j]
        <5>1. PICK m : m = Len(seqs[k + 1])
          OBVIOUS
        <5>2. m \in Nat /\ i \in 1 .. m /\ at[k] + m <= at[j]
          BY <3>2, <4>2, <5>1
        <5>3. PICK x : x = at[k]
          OBVIOUS
        <5>4. PICK y : y = at[j]
          OBVIOUS
        <5>5. x \in Nat /\ y \in Nat /\ x + m <= y
          BY <2>2, <5>2, <5>3, <5>4
        <5>6. x + i \in 1 .. y
          BY <5>2, <5>5
        <5> QED BY <5>3, <5>4, <5>6
      <4>4. r[j + 1][at[k] + i] = r[j][at[k] + i]
        BY <1>9, <2>1, <4>3
      <4> QED BY <3>2, <4>4 DEF KeptAt
    <3> QED BY <3>3, <3>4 DEF KeptAt
  <2> QED BY <2>3, <2>4
<1>12. n \in T
  <2> HIDE DEF T
  <2> QED BY <1>1, <1>10, <1>11, SetInduction
<1>13. Placed(r[n], seqs, at)
  <2>1. \A k \in Nat : k < n => Kept(n, k)
    <3> HIDE DEF Kept
    <3> QED BY <1>1, <1>12
  <2>2. at[n] = Len(r[n])
    BY <1>1, <1>7
  <2>3. ASSUME NEW k \in Nat, k < Len(seqs)
        PROVE  /\ at[k + 1] = at[k] + Len(seqs[k + 1]) /\ at[k + 1] <= Len(r[n])
               /\ \A i \in 1 .. Len(seqs[k + 1]) : r[n][at[k] + i] = seqs[k + 1][i]
    <3>1. k < n
      BY <2>3 DEF n
    <3>2. Kept(n, k)
      BY <2>1, <3>1
    <3> QED BY <1>9, <2>2, <3>1, <3>2 DEF KeptAt
  <2> QED BY <1>7, <1>8, <2>2, <2>3 DEF Placed, n
<1>14. r[n] \in Seq(S)
  BY <1>1, <1>5 DEF Texts
<1> QED BY <1>3, <1>7, <1>13, <1>14

(* Bytes put end to end.                                                   *)
Joined(ab, a, b) ==
  /\ ab \in Seq(Byte) /\ Len(ab) = Len(a) + Len(b)
  /\ \A i \in 1 .. Len(a) : ab[i] = a[i]
  /\ \A i \in 1 .. Len(b) : ab[Len(a) + i] = b[i]

LEMMA JoinBytes ==
  ASSUME NEW a \in Seq(Byte), NEW b \in Seq(Byte)
  PROVE  Joined(a \o b, a, b)
<1> HIDE DEF Byte
<1>1. a \o b \in Seq(Byte)
  BY ConcatProperties
<1>2. /\ Len(a \o b) = Len(a) + Len(b) /\ Len(a) \in Nat /\ Len(b) \in Nat
      /\ \A i \in 1 .. Len(a) + Len(b) :
           (a \o b)[i] = IF i <= Len(a) THEN a[i] ELSE b[i - Len(a)]
  BY ConcatProperties
<1>3. ASSUME NEW i \in 1 .. Len(b) PROVE (a \o b)[Len(a) + i] = b[i]
  <2>1. Len(a) + i \in 1 .. Len(a) + Len(b) /\ ~ (Len(a) + i <= Len(a)) /\ Len(a) + i - Len(a) = i
    BY <1>2
  <2> QED BY <1>2, <2>1
<1> QED BY <1>1, <1>2, <1>3 DEF Joined
-----------------------------------------------------------------------------
(* Shifting an integer by one byte more is what its recursion says.        *)
LEMMA ShiftSteps ==
  ASSUME NEW n \in Int
  PROVE  /\ Shifted(n)[0] = n /\ \A k \in 0 .. 8 : Shifted(n)[k] \in Int
         /\ \A k \in 0 .. 7 : Shifted(n)[k + 1] = Shifted(n)[k] \div 256
<1> DEFINE Step == [i \in Nat |-> [x \in Int |-> x \div 256]]
           Is(by) == by = [k \in 0 .. 8 |-> IF k = 0 THEN n ELSE by[k - 1] \div 256]
<1>1. Step \in [Nat -> [Int -> Int]] /\ \A i \in Nat, x \in Int : Step[i][x] = x \div 256
  OBVIOUS
<1> HIDE DEF Step
<1>2. PICK f : Recurs(f, Int, n, Step)
  BY <1>1, NatRecursion
<1>3. f[0] = n /\ \A i \in Nat : f[i] \in Int /\ f[i + 1] = f[i] \div 256
  BY <1>1, <1>2 DEF Recurs
<1> DEFINE g == [k \in 0 .. 8 |-> f[k]]
<1>4. Is(g)
  <2>1. \A k \in 0 .. 8 : f[k] = IF k = 0 THEN n ELSE g[k - 1] \div 256
    <3> SUFFICES ASSUME NEW k \in 0 .. 8, k # 0 PROVE f[k] = g[k - 1] \div 256
      BY <1>3
    <3>1. k - 1 \in Nat /\ k - 1 \in 0 .. 8 /\ (k - 1) + 1 = k
      OBVIOUS
    <3> QED BY <1>3, <3>1
  <2> QED BY <2>1
<1>5. Is(Shifted(n))
  <2>1. Shifted(n) = CHOOSE by : Is(by)
    BY DEF Shifted
  <2> HIDE DEF Is, g
  <2> QED BY <1>4, <2>1
<1>6. \A k \in 0 .. 8 : Shifted(n)[k] = f[k]
  <2> DEFINE T == {k \in Nat : k <= 8 => Shifted(n)[k] = f[k]}
  <2>1. \A k \in 0 .. 8 : Shifted(n)[k] = IF k = 0 THEN n ELSE Shifted(n)[k - 1] \div 256
    BY <1>5
  <2>2. 0 \in T
    BY <1>3, <2>1
  <2>3. ASSUME NEW k \in Nat, k \in T PROVE k + 1 \in T
    <3> SUFFICES ASSUME k + 1 <= 8 PROVE Shifted(n)[k + 1] = f[k + 1]
      OBVIOUS
    <3>1. k + 1 \in 0 .. 8 /\ k + 1 # 0 /\ (k + 1) - 1 = k /\ k <= 8
      OBVIOUS
    <3>2. Shifted(n)[k] = f[k]
      BY <2>3, <3>1
    <3>3. Shifted(n)[k + 1] = Shifted(n)[k] \div 256
      BY <2>1, <3>1
    <3> QED BY <1>3, <3>2, <3>3
  <2> HIDE DEF T
  <2>4. Nat \subseteq T
    BY <2>2, <2>3, SetInduction
  <2> QED BY <2>4 DEF T
<1>7. ASSUME NEW k \in 0 .. 7 PROVE Shifted(n)[k + 1] = Shifted(n)[k] \div 256
  BY <1>3, <1>6
<1> QED BY <1>3, <1>6, <1>7

(* What is 0 or -1 stays so.                                               *)
LEMMA ShiftedAway ==
  ASSUME NEW n \in Int, NEW w \in 0 .. 8, NEW z \in {0, -1}, Shifted(n)[w] = z
  PROVE  \A k \in w .. 8 : Shifted(n)[k] = z
<1> DEFINE T == {k \in Nat : w + k <= 8 => Shifted(n)[w + k] = z}
<1>1. 0 \in T
  OBVIOUS
<1>2. ASSUME NEW k \in Nat, k \in T PROVE k + 1 \in T
  <2> SUFFICES ASSUME w + (k + 1) <= 8 PROVE Shifted(n)[w + (k + 1)] = z
    OBVIOUS
  <2>1. w + k \in 0 .. 7 /\ (w + k) + 1 = w + (k + 1) /\ w + k <= 8
    OBVIOUS
  <2>2. Shifted(n)[(w + k) + 1] = Shifted(n)[w + k] \div 256
    BY <2>1, ShiftSteps
  <2>3. Shifted(n)[w + k] = z
    BY <1>2, <2>1
  <2>4. z \div 256 = z
    OBVIOUS
  <2> QED BY <2>1, <2>2, <2>3, <2>4
<1> HIDE DEF T
<1>3. Nat \subseteq T
  BY <1>1, <1>2, SetInduction
<1>4. ASSUME NEW k \in w .. 8 PROVE Shifted(n)[k] = z
  <2>1. k - w \in Nat /\ w + (k - w) = k /\ w + (k - w) <= 8
    OBVIOUS
  <2> QED BY <1>3, <2>1 DEF T
<1> QED BY <1>4

(* A byte is the last of its bytes, and all there is.                      *)
LEMMA ByteShifted ==
  ASSUME NEW n \in Byte
  PROVE  \A k \in 1 .. 8 : Shifted(n)[k] = 0
<1>1. Shifted(n)[0] = n /\ Shifted(n)[0 + 1] = Shifted(n)[0] \div 256
  BY ShiftSteps DEF Byte
<1>2. n \div 256 = 0 /\ n \in Int
  BY DEF Byte
<1> QED BY <1>1, <1>2, ShiftedAway

LowByte(x) == x % 256
AreOctets(s, n, w) ==
  s \in Seq(Byte) /\ Len(s) = w /\ \A i \in 1 .. w : s[i] = LowByte(Shifted(n)[w - i])
LEMMA OctetsAre ==
  ASSUME NEW n \in Int, NEW w \in 0 .. 9
  PROVE  AreOctets(Octets(n, w), n, w)
<1>1. ASSUME NEW i \in 1 .. w PROVE Shifted(n)[w - i] % 256 \in Byte
  <2>1. w - i \in 0 .. 8
    OBVIOUS
  <2>2. Shifted(n)[w - i] \in Int
    BY <2>1, ShiftSteps
  <2> QED BY <2>2 DEF Byte
<1>2. Octets(n, w) \in [1 .. w -> Byte]
  BY <1>1 DEF Octets
<1>3. w \in Nat
  OBVIOUS
<1>4. Octets(n, w) \in Seq(Byte) /\ Len(Octets(n, w)) = w
  BY <1>2, <1>3
<1> QED BY <1>4 DEF Octets, AreOctets, LowByte

(* The nine bytes of the sign extension tell integers of up to eight bytes *)
(* apart.                                                                  *)
LEMMA OctetsTellApart ==
  ASSUME NEW m \in Int, NEW n \in Int, Shifted(m)[8] \in {0, -1}, Shifted(n)[8] \in {0, -1},
         Octets(m, 9) = Octets(n, 9)
  PROVE  m = n
<1>1. ASSUME NEW k \in 0 .. 8 PROVE Shifted(m)[k] % 256 = Shifted(n)[k] % 256
  <2>1. PICK i \in 1 .. 9 : i = 9 - k
    OBVIOUS
  <2>2. 9 - i = k
    BY <2>1
  <2>3. Octets(m, 9)[i] = Shifted(m)[9 - i] % 256 /\ Octets(n, 9)[i] = Shifted(n)[9 - i] % 256
    BY DEF Octets
  <2> QED BY <2>2, <2>3
<1>2. Shifted(m)[8] = Shifted(n)[8]
  <2>1. Shifted(m)[8] % 256 = Shifted(n)[8] % 256
    BY <1>1
  <2>2. \A x, y \in {0, -1} : x % 256 = y % 256 => x = y
    OBVIOUS
  <2> QED BY <2>1, <2>2
<1> DEFINE T == {k \in Nat : k <= 8 => Shifted(m)[8 - k] = Shifted(n)[8 - k]}
<1>3. 0 \in T
  BY <1>2
<1>4. ASSUME NEW k \in Nat, k \in T PROVE k + 1 \in T
  <2> SUFFICES ASSUME k + 1 <= 8 PROVE Shifted(m)[8 - (k + 1)] = Shifted(n)[8 - (k + 1)]
    OBVIOUS
  <2>1. PICK j \in 0 .. 7 : j = 8 - (k + 1)
    OBVIOUS
  <2>2. j + 1 = 8 - k /\ j \in 0 .. 8
    BY <2>1
  <2>3. Shifted(m)[j + 1] = Shifted(n)[j + 1]
    BY <1>4, <2>2
  <2>4. /\ Shifted(m)[j + 1] = Shifted(m)[j] \div 256 /\ Shifted(m)[j] \in Int
        /\ Shifted(n)[j + 1] = Shifted(n)[j] \div 256 /\ Shifted(n)[j] \in Int
    BY <2>2, ShiftSteps
  <2>5. Shifted(m)[j] % 256 = Shifted(n)[j] % 256
    BY <1>1, <2>2
  <2>6. \A x, y \in Int : x \div 256 = y \div 256 /\ x % 256 = y % 256 => x = y
    OBVIOUS
  <2>7. Shifted(m)[j] \div 256 = Shifted(n)[j] \div 256
    BY <2>3, <2>4
  <2>8. Shifted(m)[j] = Shifted(n)[j]
    BY <2>4, <2>5, <2>6, <2>7
  <2> QED BY <2>1, <2>8
<1> HIDE DEF T
<1>5. 8 \in T
  BY <1>3, <1>4, SetInduction
<1>6. Shifted(m)[0] = Shifted(n)[0]
  BY <1>5 DEF T
<1> QED BY <1>6, ShiftSteps

-----------------------------------------------------------------------------
(* The bytes that hold an integer's digits: behind its code, or the code.  *)
BodyLen(b) == IF NumberBody(b) = 0 THEN 1 ELSE NumberBody(b)
Negative(u, first) == u[first] >= 128 /\ (NumberBody(u[1]) = 0 \/ u[1] \in SignedCodes)
HoldsInteger(u, n) ==
  LET v == BodyLen(u[1])
  IN  /\ n \in Int /\ u # <<>> /\ IsInteger(u[1]) /\ Len(u) = 1 + NumberBody(u[1])
      /\ \A i \in 1 .. v : u[Len(u) - v + i] = LowByte(Shifted(n)[v - i])
      /\ Shifted(n)[v] = IF Negative(u, Len(u) - v + 1) THEN -1 ELSE 0

LEMMA CodeWidth ==
  ASSUME NEW c \in Int
  PROVE  /\ NumberBody(c) \in {0, 1, 2, 4, 8}
         /\ IsInteger(c) => BodyLen(c) \in 1 .. 8
         /\ c \in UintCodes => NumberBody(c) # 0 /\ IsInteger(c) /\ c \notin SignedCodes
         /\ c \in IntCodes => NumberBody(c) # 0 /\ IsInteger(c) /\ c \in SignedCodes
         /\ IsInteger(c) /\ NumberBody(c) = 0 => c \in 0 .. 127 \cup 224 .. 255
         /\ IsInteger(c) /\ NumberBody(c) # 0 => c \in UintCodes \cup IntCodes
  BY DEF NumberBody, IsInteger, BodyLen, UintCodes, IntCodes, SignedCodes

(* A code and the bytes behind it.                                         *)
IsCoded(u, c, n, w) ==
  /\ u \in Seq(Byte) /\ Len(u) = 1 + w /\ u[1] = c
  /\ \A i \in 1 .. w : u[1 + i] = LowByte(Shifted(n)[w - i])
LEMMA CodedBytes ==
  ASSUME NEW c \in Byte, NEW n \in Int, NEW w \in 0 .. 9
  PROVE  IsCoded(<<c>> \o Octets(n, w), c, n, w)
<1> DEFINE a == <<c>>
           b == Octets(n, w)
<1>1. a \in Seq(Byte) /\ Len(a) = 1 /\ a[1] = c
  OBVIOUS
<1>2. b \in Seq(Byte) /\ Len(b) = w /\ \A i \in 1 .. w : b[i] = LowByte(Shifted(n)[w - i])
  BY OctetsAre DEF AreOctets
<1> HIDE DEF a, b
<1>3. Joined(a \o b, a, b)
  BY <1>1, <1>2, JoinBytes
<1>4. /\ a \o b \in Seq(Byte) /\ Len(a \o b) = 1 + w /\ (a \o b)[1] = c
      /\ \A i \in 1 .. w : (a \o b)[1 + i] = LowByte(Shifted(n)[w - i])
  <2>1. 1 \in 1 .. Len(a)
    BY <1>1
  <2>2. /\ a \o b \in Seq(Byte) /\ Len(a \o b) = 1 + w /\ (a \o b)[1] = c
        /\ \A i \in 1 .. w : (a \o b)[1 + i] = b[i]
    BY <1>1, <1>2, <1>3, <2>1 DEF Joined
  <2> QED BY <1>2, <2>2
<1> QED BY <1>4 DEF a, b, IsCoded

(* Every encoding of an integer holds its two's complement.                *)
LEMMA IntegerHeld ==
  ASSUME NEW u, NEW n, EncodesInteger(u, n)
  PROVE  HoldsInteger(u, n) /\ u \in Seq(Byte)
<1>1. n \in Int /\ Shifted(n)[0] = n /\ Shifted(n)[1] = n \div 256
  <2>1. n \in Int
    BY DEF EncodesInteger
  <2>2. Shifted(n)[0] = n /\ Shifted(n)[0 + 1] = Shifted(n)[0] \div 256
    BY <2>1, ShiftSteps
  <2> QED BY <2>1, <2>2
<1>2. CASE n \in -32 .. 127 /\ u = <<n % 256>>
  <2>1. PICK b : b = n % 256
    OBVIOUS
  <2>2. /\ b \in 0 .. 127 \cup 224 .. 255 /\ n \div 256 = (IF b >= 128 THEN -1 ELSE 0)
    BY <1>2, <2>1
  <2>3. NumberBody(b) = 0 /\ IsInteger(b) /\ BodyLen(b) = 1 /\ b \in Byte
    BY <2>2 DEF NumberBody, IsInteger, BodyLen, Byte
  <2>4. u \in Seq(Byte) /\ Len(u) = 1 /\ u[1] = b /\ u # <<>>
    BY <1>2, <2>1, <2>3
  <2>5. \A i \in 1 .. 1 : u[Len(u) - 1 + i] = LowByte(Shifted(n)[1 - i])
    <3>1. u[1 - 1 + 1] = LowByte(Shifted(n)[1 - 1])
      BY <1>1, <2>1, <2>4 DEF LowByte
    <3>2. \A i \in 1 .. 1 : i = 1
      OBVIOUS
    <3> QED BY <2>4, <3>1, <3>2
  <2>6. Shifted(n)[1] = IF Negative(u, Len(u) - 1 + 1) THEN -1 ELSE 0
    <3>1. Len(u) - 1 + 1 = 1
      BY <2>4
    <3>2. Negative(u, 1) <=> b >= 128
      BY <2>3, <2>4 DEF Negative
    <3> QED BY <1>1, <2>2, <3>1, <3>2
  <2> QED BY <1>1, <2>3, <2>4, <2>5, <2>6 DEF HoldsInteger
<1>3. ASSUME NEW c \in UintCodes \cup IntCodes, NEW w, w = NumberBody(c), u = <<c>> \o Octets(n, w),
             Shifted(n)[w] = IF Octets(n, w)[1] >= 128 /\ c \in SignedCodes THEN -1 ELSE 0
      PROVE  HoldsInteger(u, n) /\ u \in Seq(Byte)
  <2>1. c \in Byte /\ w \in 1 .. 8 /\ BodyLen(c) = w /\ IsInteger(c)
    BY <1>3, CodeWidth DEF UintCodes, IntCodes, Byte, BodyLen
  <2>0. w \in 0 .. 9
    BY <2>1
  <2>2. /\ u \in Seq(Byte) /\ Len(u) = 1 + w /\ u[1] = c
        /\ \A i \in 1 .. w : u[1 + i] = LowByte(Shifted(n)[w - i])
    <3>1. u = <<c>> \o Octets(n, w) /\ c \in Byte /\ n \in Int
      BY <1>1, <1>3, <2>1
    <3>2. IsCoded(u, c, n, w)
      BY <2>0, <3>1, CodedBytes
    <3> QED BY <3>2 DEF IsCoded
  <2>3. Octets(n, w)[1] = u[2]
    <3>1. 1 \in 1 .. w /\ w \in 0 .. 9
      BY <2>1
    <3>2. Octets(n, w)[1] = LowByte(Shifted(n)[w - 1])
      BY <1>1, <3>1, OctetsAre DEF AreOctets
    <3>3. u[1 + 1] = LowByte(Shifted(n)[w - 1])
      BY <2>2, <3>1
    <3> QED BY <3>2, <3>3
  <2>4. \A i \in 1 .. w : u[Len(u) - w + i] = LowByte(Shifted(n)[w - i])
    <3>1. Len(u) - w = 1
      BY <2>1, <2>2
    <3> QED BY <2>2, <3>1
  <2>5. Shifted(n)[w] = IF Negative(u, Len(u) - w + 1) THEN -1 ELSE 0
    <3>1. Len(u) - w + 1 = 2
      BY <2>1, <2>2
    <3>2. Negative(u, 2) <=> u[2] >= 128 /\ c \in SignedCodes
      BY <1>3, <2>1, <2>2 DEF Negative
    <3> QED BY <1>3, <2>3, <3>1, <3>2
  <2>6. u # <<>>
    BY <2>1, <2>2
  <2>7. BodyLen(u[1]) = w /\ IsInteger(u[1]) /\ Len(u) = 1 + NumberBody(u[1])
    BY <1>3, <2>1, <2>2
  <2>8. HoldsInteger(u, n)
    BY <1>1, <2>4, <2>5, <2>6, <2>7, Zenon DEF HoldsInteger
  <2> QED BY <2>2, <2>8
<1>4. \/ n \in 0 .. 127 /\ u = <<n>>
      \/ n \in -32 .. -1 /\ u = <<256 + n>>
      \/ \E c \in UintCodes : Shifted(n)[NumberBody(c)] = 0 /\ u = <<c>> \o Octets(n, NumberBody(c))
      \/ \E c \in IntCodes :
           /\ Shifted(n)[NumberBody(c)] = IF Octets(n, NumberBody(c))[1] >= 128 THEN -1 ELSE 0
           /\ u = <<c>> \o Octets(n, NumberBody(c))
  BY DEF EncodesInteger
<1>5. CASE n \in 0 .. 127 /\ u = <<n>>
  BY <1>2, <1>5
<1>6. CASE n \in -32 .. -1 /\ u = <<256 + n>>
  <2>1. 256 + n = n % 256
    BY <1>6
  <2> QED BY <1>2, <1>6, <2>1
<1>7. ASSUME NEW c \in UintCodes, Shifted(n)[NumberBody(c)] = 0, u = <<c>> \o Octets(n, NumberBody(c))
      PROVE  HoldsInteger(u, n) /\ u \in Seq(Byte)
  <2>1. c \notin SignedCodes
    BY DEF UintCodes, SignedCodes
  <2> QED BY <1>3, <1>7, <2>1
<1>8. ASSUME NEW c \in IntCodes, u = <<c>> \o Octets(n, NumberBody(c)),
             Shifted(n)[NumberBody(c)] = IF Octets(n, NumberBody(c))[1] >= 128 THEN -1 ELSE 0
      PROVE  HoldsInteger(u, n) /\ u \in Seq(Byte)
  <2>1. c \in SignedCodes
    BY DEF IntCodes, SignedCodes
  <2> QED BY <1>3, <1>8, <2>1
<1> QED BY <1>4, <1>5, <1>6, <1>7, <1>8

(* It fits eight bytes, so its nine bytes tell which it is.                *)
LEMMA HeldFits ==
  ASSUME NEW u \in Seq(Byte), NEW n, HoldsInteger(u, n)
  PROVE  n \in Int /\ Shifted(n)[8] \in {0, -1}
<1>1. u[1] \in Int /\ n \in Int
  <2>1. 1 \in 1 .. Len(u)
    BY DEF HoldsInteger
  <2>2. u[1] \in Byte
    BY <2>1
  <2> QED BY <2>2 DEF HoldsInteger, Byte
<1>2. BodyLen(u[1]) \in 1 .. 8 /\ Shifted(n)[BodyLen(u[1])] \in {0, -1}
  BY <1>1, CodeWidth DEF HoldsInteger
<1> QED BY <1>1, <1>2, ShiftedAway

(* Wherever it lies, the readers find its identity and its end.            *)
LEMMA KeyRead ==
  ASSUME NEW u \in Seq(Byte), NEW n, HoldsInteger(u, n),
         NEW f \in Seq(Byte), NEW p \in Position, LiesIn(u, f, p)
  PROVE  /\ HasFieldId(f, p) /\ AfterKey(f, p) = p + Len(u) /\ FieldId(f, p) = Octets(n, 9)
         /\ f[p] = u[1]
<1> DEFINE w == NumberBody(u[1])
           v == BodyLen(u[1])
           body == IF w = 0 THEN <<f[p]>> ELSE SubSeq(f, p + 1, p + w)
           sign == IF body[1] >= 128 /\ (w = 0 \/ f[p] \in SignedCodes) THEN 255 ELSE 0
<1>1. /\ u[1] \in Byte /\ Len(u) \in Nat /\ Len(u) >= 1 /\ p \in Nat /\ Len(f) \in Nat
      /\ n \in Int /\ IsInteger(u[1]) /\ Len(u) = 1 + w
  BY DEF HoldsInteger, Position
<1>2. w \in {0, 1, 2, 4, 8} /\ v \in 1 .. 8 /\ v = IF w = 0 THEN 1 ELSE w
  <2>1. u[1] \in Int
    <3>1. u[1] \in Byte
      BY <1>1
    <3>2. \A b \in Byte : b \in Int
      BY DEF Byte
    <3> QED BY <3>1, <3>2
  <2>2. NumberBody(u[1]) \in {0, 1, 2, 4, 8}
    BY <2>1, CodeWidth
  <2>3. BodyLen(u[1]) \in 1 .. 8
    BY <1>1, <2>1, CodeWidth
  <2> QED BY <2>2, <2>3 DEF BodyLen
<1>h. /\ \A i \in 1 .. v : u[Len(u) - v + i] = LowByte(Shifted(n)[v - i])
      /\ Shifted(n)[v] = IF Negative(u, Len(u) - v + 1) THEN -1 ELSE 0
  BY DEF HoldsInteger
<1>3. p + Len(u) <= Len(f) + 1 /\ \A i \in 1 .. Len(u) : f[p + i - 1] = u[i]
  BY DEF LiesIn
<1>4. f[p] = u[1]
  <2>1. 1 \in 1 .. Len(u) /\ p + 1 - 1 = p
    BY <1>1
  <2> QED BY <1>3, <2>1
<1>5. HasFieldId(f, p) /\ AfterKey(f, p) = p + Len(u)
  <2>1. NumberBody(f[p]) = w /\ IsInteger(f[p])
    BY <1>1, <1>4
  <2> HIDE DEF w
  <2> QED BY <1>1, <1>2, <1>3, <2>1 DEF HasFieldId, AfterKey
<1>6. Len(body) = v /\ \A i \in 1 .. v : body[i] = u[Len(u) - v + i]
  <2>1. CASE w = 0
    <3>1. body = <<f[p]>> /\ v = 1 /\ Len(u) = 1
      BY <1>1, <1>2, <2>1
    <3>2. Len(body) = 1 /\ body[1] = u[1 - 1 + 1]
      <4> HIDE DEF body, v, w
      <4>1. Len(<<f[p]>>) = 1 /\ <<f[p]>>[1] = f[p] /\ 1 - 1 + 1 = 1
        OBVIOUS
      <4> QED BY <1>4, <3>1, <4>1
    <3>3. \A i \in 1 .. 1 : i = 1
      OBVIOUS
    <3> HIDE DEF body, v
    <3> QED BY <3>1, <3>2, <3>3
  <2>2. CASE w # 0
    <3>1. body = SubSeq(f, p + 1, p + w) /\ v = w /\ Len(u) - v = 1
      <4>1. body = SubSeq(f, p + 1, p + w)
        BY <2>2
      <4> HIDE DEF body, v, w
      <4> QED BY <1>1, <1>2, <2>2, <4>1
    <3> HIDE DEF body, v, w
    <3>2. p + 1 \in Position /\ p + w + 1 \in Nat /\ p + 1 <= p + w + 1 /\ p + w + 1 <= Len(f) + 1
      BY <1>1, <1>2, <1>3 DEF Position
    <3>3. p + w + 1 - 1 = p + w /\ p + w + 1 - (p + 1) = w
      BY <1>1, <1>2
    <3>4. Len(body) = w /\ \A i \in 1 .. w : body[i] = f[p + 1 + i - 1]
      <4>1. PICK q \in Nat : q = p + w + 1
        BY <3>2
      <4>2. q - 1 = p + w /\ q - (p + 1) = w /\ p + 1 <= q /\ q <= Len(f) + 1
        <5>1. p \in Nat /\ w \in Nat
          BY <1>1, <1>2
        <5> QED BY <3>2, <4>1, <5>1
      <4>3. /\ Len(SubSeq(f, p + 1, q - 1)) = q - (p + 1)
            /\ \A i \in 1 .. q - (p + 1) : SubSeq(f, p + 1, q - 1)[i] = f[p + 1 + i - 1]
        BY <3>2, <4>2, PartOf
      <4> QED BY <3>1, <4>2, <4>3
    <3>5. ASSUME NEW i \in 1 .. w PROVE body[i] = u[1 + i]
      <4>1. 1 + i \in 1 .. Len(u) /\ p + (1 + i) - 1 = p + 1 + i - 1
        BY <1>1, <1>2
      <4>2. f[p + (1 + i) - 1] = u[1 + i]
        BY <1>3, <4>1
      <4> QED BY <3>4, <4>1, <4>2
    <3> QED BY <3>1, <3>4, <3>5
  <2> QED BY <2>1, <2>2
<1>7. FieldId(f, p) = [i \in 1 .. 9 |-> IF i > 9 - Len(body) THEN body[i - 9 + Len(body)] ELSE sign]
  BY <1>4 DEF FieldId
<1>8. Shifted(n)[v] = (IF sign = 255 THEN -1 ELSE 0) /\ sign \in {0, 255}
  <2>1. body[1] = u[Len(u) - v + 1]
    <3> HIDE DEF body, v, w
    <3>1. 1 \in 1 .. v
      BY <1>2
    <3> QED BY <1>6, <3>1
  <2>2. Negative(u, Len(u) - v + 1) <=> body[1] >= 128 /\ (w = 0 \/ f[p] \in SignedCodes)
    BY <1>4, <2>1 DEF Negative
  <2> HIDE DEF body, v, w
  <2> QED BY <1>h, <2>2
<1> HIDE DEF body, sign, v, w
<1>9. ASSUME NEW i \in 1 .. 9
      PROVE  (IF i > 9 - Len(body) THEN body[i - 9 + Len(body)] ELSE sign) = LowByte(Shifted(n)[9 - i])
  <2>1. CASE i > 9 - v
    <3>1. PICK j \in 1 .. v : j = i - 9 + v
      BY <1>2, <2>1
    <3>2. v - j = 9 - i
      BY <1>2, <3>1
    <3>3. body[j] = LowByte(Shifted(n)[9 - i])
      <4>1. body[j] = u[Len(u) - v + j]
        BY <1>6
      <4>2. u[Len(u) - v + j] = LowByte(Shifted(n)[v - j])
        BY <1>h
      <4> QED BY <3>2, <4>1, <4>2
    <3> QED BY <1>6, <2>1, <3>1, <3>3
  <2>2. CASE ~ (i > 9 - v)
    <3>1. 9 - i \in v .. 8 /\ v \in 0 .. 8
      BY <1>2, <2>2
    <3>2. Shifted(n)[9 - i] = IF sign = 255 THEN -1 ELSE 0
      <4>1. PICK z \in {0, -1} : z = IF sign = 255 THEN -1 ELSE 0
        OBVIOUS
      <4>2. Shifted(n)[v] = z /\ v \in 0 .. 8
        BY <1>8, <3>1, <4>1
      <4>3. \A k \in v .. 8 : Shifted(n)[k] = z
        BY <1>1, <4>2, ShiftedAway
      <4> QED BY <3>1, <4>1, <4>3
    <3>3. \A z \in {0, -1} : LowByte(z) = IF z = -1 THEN 255 ELSE 0
      BY DEF LowByte
    <3>4. LowByte(IF sign = 255 THEN -1 ELSE 0) = sign
      BY <1>8, <3>3
    <3> QED BY <1>6, <1>8, <2>2, <3>2, <3>4
  <2> QED BY <2>1, <2>2
<1>10. FieldId(f, p) = Octets(n, 9)
  BY <1>7, <1>9 DEF Octets, LowByte
<1> QED BY <1>4, <1>5, <1>10

=============================================================================

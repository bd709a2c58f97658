---------------------------- MODULE OutboxProofs ----------------------------
(***************************************************************************)
(* What the in-place moves of a buffer leave, for every buffer and length; *)
(* that whatever the host passes and however often it retries, the entry   *)
(* that a propagation node stores is the one the host persisted; that the  *)
(* recipient reads, either way, the message and stamp that were sent; and  *)
(* that the counted length of a message is the length it takes.            *)
(***************************************************************************)
EXTENDS Outbox, Lemmas

USE LengthAssumption

(* An upload of n cells, between its header and its stamp.                 *)
HoldsUpload(wrapped, N, cells, n, header, pn) ==
  /\ DOMAIN wrapped = 1 .. N
  /\ \A i \in 1 .. Len(header) : wrapped[i] = header[i]
  /\ \A i \in 1 .. n : wrapped[Len(header) + i] = cells[i]
  /\ \A i \in 1 .. Len(pn) : wrapped[Len(header) + n + i] = pn[i]

(* wrap_upload, step by step in the one buffer, leaves the header, the     *)
(* whole entry unchanged after it and the stamp after that: the moves      *)
(* overlap, but none overwrites what a later one still has to read.        *)
THEOREM WrapKeepsEntry ==
  ASSUME NEW N \in Nat, NEW buf, DOMAIN buf = 1 .. N,
         NEW S, NEW header \in Seq(S), NEW pn \in Seq(S), NEW n \in Nat,
         Len(header) + n + Len(pn) <= N
  PROVE  HoldsUpload(Wrapped(buf, n, header, pn), N, buf, n, header, pn)
<1> DEFINE h       == Len(header)
           s       == Len(pn)
           moved   == CopyWithin(buf, 1, n, h + 1)
           stamped == Put(moved, h + n + 1, pn)
           wrapped == Put(stamped, 1, header)
<1>1. h \in Nat /\ s \in Nat /\ h + n + s <= N
  OBVIOUS
<1> HIDE DEF h, s
<1>2. /\ DOMAIN moved = 1 .. N
      /\ \A i \in 1 .. n : moved[h + i] = buf[i]
  <2>1. \A i \in 1 .. N : moved[i] = IF i \in h + 1 .. h + 1 + n - 1
                                     THEN buf[i - (h + 1) + 1] ELSE buf[i]
    BY DEF CopyWithin
  <2>2. ASSUME NEW i \in 1 .. n PROVE moved[h + i] = buf[i]
    <3>1. h + i \in 1 .. N /\ h + i \in h + 1 .. h + 1 + n - 1 /\ (h + i) - (h + 1) + 1 = i
      BY <1>1
    <3> QED BY <2>1, <3>1
  <2> QED BY <2>2 DEF CopyWithin
<1> HIDE DEF moved
<1>3. /\ DOMAIN stamped = 1 .. N
      /\ \A i \in 1 .. n : stamped[h + i] = buf[i]
      /\ \A i \in 1 .. s : stamped[h + n + i] = pn[i]
  <2>1. \A i \in 1 .. N : stamped[i] = IF i \in h + n + 1 .. h + n + 1 + s - 1
                                       THEN pn[i - (h + n + 1) + 1] ELSE moved[i]
    BY <1>2 DEF Put, s
  <2>2. ASSUME NEW i \in 1 .. n PROVE stamped[h + i] = buf[i]
    <3>1. h + i \in 1 .. N /\ h + i \notin h + n + 1 .. h + n + 1 + s - 1
      BY <1>1
    <3> QED BY <1>2, <2>1, <3>1
  <2>3. ASSUME NEW i \in 1 .. s PROVE stamped[h + n + i] = pn[i]
    <3>1. /\ h + n + i \in 1 .. N /\ h + n + i \in h + n + 1 .. h + n + 1 + s - 1
          /\ (h + n + i) - (h + n + 1) + 1 = i
      BY <1>1
    <3> QED BY <2>1, <3>1
  <2> QED BY <1>2, <2>2, <2>3 DEF Put
<1> HIDE DEF stamped
<1>4. \A i \in 1 .. N : wrapped[i] = IF i \in 1 .. 1 + h - 1
                                     THEN header[i - 1 + 1] ELSE stamped[i]
  BY <1>3 DEF Put, h
<1>5. ASSUME NEW i \in 1 .. h PROVE wrapped[i] = header[i]
  <2>1. i \in 1 .. N /\ i \in 1 .. 1 + h - 1 /\ i - 1 + 1 = i
    BY <1>1
  <2> QED BY <1>4, <2>1
<1>6. ASSUME NEW i \in 1 .. n PROVE wrapped[h + i] = buf[i]
  <2>1. h + i \in 1 .. N /\ h + i \notin 1 .. 1 + h - 1
    BY <1>1
  <2> QED BY <1>3, <1>4, <2>1
<1>7. ASSUME NEW i \in 1 .. s PROVE wrapped[h + n + i] = pn[i]
  <2>1. h + n + i \in 1 .. N /\ h + n + i \notin 1 .. 1 + h - 1
    BY <1>1
  <2> QED BY <1>3, <1>4, <2>1
<1>8. DOMAIN wrapped = 1 .. N
  BY <1>3 DEF Put
<1>9. Wrapped(buf, n, header, pn) = wrapped
  BY DEF Wrapped, wrapped, stamped, moved, h
<1> HIDE DEF wrapped
<1> QED BY <1>5, <1>6, <1>7, <1>8, <1>9 DEF h, s, HoldsUpload

(* append_recipient_stamp touches nothing the sender signed except the     *)
(* array marker, which every verifier resets to four elements.             *)
THEOREM AppendKeepsSigned ==
  ASSUME NEW N \in Nat, NEW buf, DOMAIN buf = 1 .. N,
         NEW S, NEW element \in Seq(S), NEW marker,
         NEW n \in PackedPrefix + 1 .. N, n + Len(element) <= N
  PROVE  LET appended == Appended(buf, n, element, marker)
         IN  /\ DOMAIN appended = 1 .. N
             /\ \A i \in 1 .. n : i # PackedPrefix + 1 => appended[i] = buf[i]
             /\ appended[PackedPrefix + 1] = marker
             /\ \A i \in 1 .. Len(element) : appended[n + i] = element[i]
<1> DEFINE p        == PackedPrefix + 1
           e        == Len(element)
           longer   == Put(buf, n + 1, element)
           appended == Put(longer, p, <<marker>>)
<1>1. p \in Nat \ {0} /\ e \in Nat /\ n \in Nat /\ p <= n /\ n + e <= N
  <2>1. PackedPrefix \in Nat
    BY DEF PackedPrefix
  <2>2. e \in Nat
    OBVIOUS
  <2> HIDE DEF e
  <2>3. n + e <= N
    BY DEF e
  <2> QED BY <2>1, <2>2, <2>3
<1> HIDE DEF p, e
<1>2. /\ DOMAIN longer = 1 .. N
      /\ \A i \in 1 .. n : longer[i] = buf[i]
      /\ \A i \in 1 .. e : longer[n + i] = element[i]
  <2>1. \A i \in 1 .. N : longer[i] = IF i \in n + 1 .. n + 1 + e - 1
                                      THEN element[i - (n + 1) + 1] ELSE buf[i]
    BY DEF Put, e
  <2>2. ASSUME NEW i \in 1 .. n PROVE longer[i] = buf[i]
    <3>1. i \in 1 .. N /\ i \notin n + 1 .. n + 1 + e - 1
      BY <1>1
    <3> QED BY <2>1, <3>1
  <2>3. ASSUME NEW i \in 1 .. e PROVE longer[n + i] = element[i]
    <3>1. n + i \in 1 .. N /\ n + i \in n + 1 .. n + 1 + e - 1 /\ (n + i) - (n + 1) + 1 = i
      BY <1>1
    <3> QED BY <2>1, <3>1
  <2> QED BY <2>2, <2>3 DEF Put
<1> HIDE DEF longer
<1>3. \A i \in 1 .. N : appended[i] = IF i = p THEN marker ELSE longer[i]
  <2>1. ASSUME NEW i \in 1 .. N
        PROVE  appended[i] = IF i = p THEN marker ELSE longer[i]
    <3>1. i \in p .. p + Len(<<marker>>) - 1 <=> i = p
      BY <1>1
    <3>2. p - p + 1 = 1 /\ <<marker>>[1] = marker
      BY <1>1
    <3>3. appended[i] = IF i \in p .. p + Len(<<marker>>) - 1
                        THEN <<marker>>[i - p + 1] ELSE longer[i]
      BY <1>2 DEF Put
    <3>4. CASE i = p
      BY <3>1, <3>2, <3>3, <3>4
    <3>5. CASE i # p
      BY <3>1, <3>3, <3>5
    <3> QED BY <3>4, <3>5
  <2> QED BY <2>1
<1>4. DOMAIN appended = 1 .. N
  BY <1>2 DEF Put
<1>5. Appended(buf, n, element, marker) = appended
  BY DEF Appended, appended, longer, p
<1> HIDE DEF appended
<1>6. \A i \in 1 .. n : i # p => appended[i] = buf[i]
  BY <1>1, <1>2, <1>3
<1>7. appended[p] = marker
  BY <1>1, <1>3
<1>8. \A i \in 1 .. e : appended[n + i] = element[i]
  <2>1. ASSUME NEW i \in 1 .. e PROVE appended[n + i] = element[i]
    <3>1. n + i \in 1 .. N /\ n + i # p
      BY <1>1
    <3> QED BY <1>2, <1>3, <3>1
  <2> QED BY <2>1
<1> QED BY <1>4, <1>5, <1>6, <1>7, <1>8 DEF p, e

-----------------------------------------------------------------------------
(* Sequences of cells of any kind.                                         *)
Listed(s) == s \in Seq({s[i] : i \in DOMAIN s})

LEMMA ListedFacts ==
  ASSUME NEW s, Listed(s)
  PROVE  Len(s) \in Nat /\ DOMAIN s = 1 .. Len(s)
  BY DEF Listed

LEMMA SeqIsListed ==
  ASSUME NEW S, NEW s \in Seq(S)
  PROVE  Listed(s)
<1> DEFINE R == {s[i] : i \in DOMAIN s}
<1>1. DOMAIN s = 1 .. Len(s) /\ Len(s) \in Nat /\ s = [i \in 1 .. Len(s) |-> s[i]]
  OBVIOUS
<1>2. s \in [1 .. Len(s) -> R]
  BY <1>1
<1>3. s \in Seq(R)
  <2> HIDE DEF R
  <2> QED BY <1>1, <1>2
<1> QED BY <1>3 DEF Listed

LEMMA WiderSeq ==
  ASSUME NEW C, NEW S, C \subseteq S, NEW c \in Seq(C)
  PROVE  c \in Seq(S)
<1>1. c \in [1 .. Len(c) -> C] /\ Len(c) \in Nat
  OBVIOUS
<1>2. c \in [1 .. Len(c) -> S]
  BY <1>1
<1> QED BY <1>1, <1>2

LEMMA FunctionIsListed ==
  ASSUME NEW n \in Nat, NEW S, NEW f \in [1 .. n -> S]
  PROVE  Listed(f) /\ Len(f) = n
<1>1. f \in Seq(S) /\ Len(f) = n
  OBVIOUS
<1> QED BY <1>1, SeqIsListed

LEMMA SliceIsListed ==
  ASSUME NEW s, Listed(s), NEW m \in Nat \ {0}, NEW n \in 0 .. Len(s)
  PROVE  Listed(SubSeq(s, m, n))
<1> DEFINE S == {s[i] : i \in DOMAIN s}
<1>1. s \in Seq(S) /\ Len(s) \in Nat
  BY DEF Listed
<1> HIDE DEF S
<1>2. SubSeq(s, m, n) \in Seq(S)
  BY <1>1, SubSeqProperties
<1> QED BY <1>2, SeqIsListed

IsPrefixOf(p, s, n) ==
  Listed(p) /\ Len(p) = n /\ \A i \in 1 .. n : p[i] = s[i]

LEMMA PrefixIsListed ==
  ASSUME NEW s, Listed(s), NEW n \in 0 .. Len(s)
  PROVE  IsPrefixOf(SubSeq(s, 1, n), s, n)
<1> DEFINE S == {s[i] : i \in DOMAIN s}
           p == SubSeq(s, 1, n)
<1>1. s \in Seq(S)
  BY DEF Listed
<1> HIDE DEF S
<1>2. Len(p) = n /\ \A i \in 1 .. n : p[i] = s[i]
  BY <1>1
<1>3. Listed(p)
  BY SliceIsListed
<1> HIDE DEF p
<1>4. IsPrefixOf(p, s, n)
  BY <1>2, <1>3 DEF IsPrefixOf
<1> QED BY <1>4 DEF p

LEMMA JoinIsListed ==
  ASSUME NEW a, Listed(a), NEW b, Listed(b)
  PROVE  /\ Listed(a \o b) /\ Len(a \o b) = Len(a) + Len(b)
         /\ \A i \in 1 .. Len(a) : (a \o b)[i] = a[i]
         /\ \A i \in 1 .. Len(b) : (a \o b)[Len(a) + i] = b[i]
<1> DEFINE S == {a[i] : i \in DOMAIN a} \cup {b[i] : i \in DOMAIN b}
<1>1. a \in Seq({a[i] : i \in DOMAIN a}) /\ b \in Seq({b[i] : i \in DOMAIN b})
  BY DEF Listed
<1>2. a \in Seq(S) /\ b \in Seq(S)
  BY <1>1
<1> HIDE DEF S
<1>3. a \o b \in Seq(S)
  BY <1>2, ConcatProperties
<1>4. Listed(a \o b)
  BY <1>3, SeqIsListed
<1>5. /\ Len(a \o b) = Len(a) + Len(b) /\ Len(a) \in Nat /\ Len(b) \in Nat
      /\ \A i \in 1 .. Len(a) + Len(b) :
           (a \o b)[i] = IF i <= Len(a) THEN a[i] ELSE b[i - Len(a)]
  BY <1>2, ConcatProperties
<1>6. ASSUME NEW i \in 1 .. Len(b) PROVE (a \o b)[Len(a) + i] = b[i]
  <2>1. Len(a) + i \in 1 .. Len(a) + Len(b) /\ ~ (Len(a) + i <= Len(a)) /\ Len(a) + i - Len(a) = i
    BY <1>5
  <2> QED BY <1>5, <2>1
<1> QED BY <1>4, <1>5, <1>6

(* The same as one fact.                                                   *)
Concatenates(ab, a, b) ==
  /\ Listed(ab) /\ Len(ab) = Len(a) + Len(b)
  /\ \A i \in 1 .. Len(a) : ab[i] = a[i]
  /\ \A i \in 1 .. Len(b) : ab[Len(a) + i] = b[i]

LEMMA JoinConcatenates ==
  ASSUME NEW a, Listed(a), NEW b, Listed(b)
  PROVE  Concatenates(a \o b, a, b)
  BY JoinIsListed DEF Concatenates

LEMMA OpaqueIsListed ==
  ASSUME NEW kind, NEW n \in Nat, NEW of
  PROVE  /\ Listed(Opaque(kind, n, of)) /\ Len(Opaque(kind, n, of)) = n
         /\ \A i \in 1 .. n : Opaque(kind, n, of)[i] = <<kind, i, of>>
<1> DEFINE f == Opaque(kind, n, of)
           S == {f[i] : i \in 1 .. n}
<1>1. f = [i \in 1 .. n |-> <<kind, i, of>>]
  BY DEF Opaque
<1>2. f \in [1 .. n -> S]
  BY <1>1
<1> HIDE DEF f, S
<1>3. Listed(f) /\ Len(f) = n
  BY <1>2, FunctionIsListed
<1> QED BY <1>1, <1>3 DEF f

(* Rewriting cells of a buffer leaves a buffer of that size.               *)
OfSize(s, n) == Listed(s) /\ Len(s) = n
Rewritten(after, buf, at, cells) ==
  /\ OfSize(after, Len(buf))
  /\ \A i \in 1 .. Len(buf) :
       after[i] = IF i \in at .. at + Len(cells) - 1 THEN cells[i - at + 1] ELSE buf[i]

LEMMA PutKeeps ==
  ASSUME NEW buf, Listed(buf), NEW at \in Nat \ {0}, NEW cells, Listed(cells)
  PROVE  Rewritten(Put(buf, at, cells), buf, at, cells)
<1> DEFINE put == Put(buf, at, cells)
           S == {put[i] : i \in 1 .. Len(buf)}
<1>1. Len(buf) \in Nat /\ DOMAIN buf = 1 .. Len(buf)
  BY ListedFacts
<1>2. put = [i \in 1 .. Len(buf) |-> IF i \in at .. at + Len(cells) - 1
                                     THEN cells[i - at + 1] ELSE buf[i]]
  BY <1>1 DEF Put
<1>3. put \in [1 .. Len(buf) -> S]
  BY <1>2
<1> HIDE DEF put, S
<1>4. OfSize(put, Len(buf))
  BY <1>1, <1>3, FunctionIsListed DEF OfSize
<1>5. Rewritten(put, buf, at, cells)
  BY <1>2, <1>4 DEF Rewritten
<1> QED BY <1>5 DEF put

(* The first n cells of one buffer are those of another.                   *)
BeginsWith(s, start, n) ==
  Listed(s) /\ n <= Len(s) /\ \A i \in 1 .. n : s[i] = start[i]

LEMMA JoinBegins ==
  ASSUME NEW n \in Nat, NEW start, NEW a, BeginsWith(a, start, n), NEW b, Listed(b)
  PROVE  BeginsWith(a \o b, start, n)
<1> DEFINE s == a \o b
<1>1. Listed(a) /\ n <= Len(a) /\ Len(a) \in Nat /\ Len(b) \in Nat
  BY ListedFacts DEF BeginsWith
<1>2. /\ Listed(s) /\ Len(s) = Len(a) + Len(b)
      /\ \A i \in 1 .. Len(a) : s[i] = a[i]
  BY <1>1, JoinIsListed
<1> HIDE DEF s
<1>3. ASSUME NEW i \in 1 .. n PROVE s[i] = start[i]
  <2>1. i \in 1 .. Len(a)
    BY <1>1
  <2> QED BY <1>2, <2>1 DEF BeginsWith
<1>4. BeginsWith(s, start, n)
  BY <1>1, <1>2, <1>3 DEF BeginsWith
<1> QED BY <1>4 DEF s

LEMMA PutBegins ==
  ASSUME NEW buf, Listed(buf), NEW n \in Nat, n <= Len(buf),
         NEW start, NEW cells, BeginsWith(cells, start, n)
  PROVE  BeginsWith(Put(buf, 1, cells), start, n) /\ Len(Put(buf, 1, cells)) = Len(buf)
<1> DEFINE s == Put(buf, 1, cells)
<1>1. /\ Listed(cells) /\ n <= Len(cells) /\ Len(cells) \in Nat /\ Len(buf) \in Nat
      /\ 1 \in Nat \ {0}
  BY ListedFacts DEF BeginsWith
<1>2. Rewritten(s, buf, 1, cells)
  BY <1>1, PutKeeps
<1> HIDE DEF s
<1>3. ASSUME NEW i \in 1 .. n PROVE s[i] = start[i]
  <2>1. i \in 1 .. Len(buf) /\ i \in 1 .. 1 + Len(cells) - 1 /\ i - 1 + 1 = i
    BY <1>1
  <2>2. s[i] = cells[i]
    BY <1>2, <2>1 DEF Rewritten
  <2> QED BY <2>2 DEF BeginsWith
<1>4. Listed(s) /\ Len(s) = Len(buf)
  BY <1>2 DEF Rewritten, OfSize
<1>5. BeginsWith(s, start, n)
  BY <1>1, <1>3, <1>4 DEF BeginsWith
<1> QED BY <1>4, <1>5 DEF s

Recopied(after, buf, first, last, at) ==
  /\ OfSize(after, Len(buf))
  /\ \A i \in 1 .. Len(buf) :
       after[i] = IF i \in at .. at + last - first THEN buf[i - at + first] ELSE buf[i]

LEMMA CopyKeeps ==
  ASSUME NEW buf, Listed(buf), NEW first \in Nat \ {0}, NEW last \in Nat, NEW at \in Nat \ {0}
  PROVE  Recopied(CopyWithin(buf, first, last, at), buf, first, last, at)
<1> DEFINE copy == CopyWithin(buf, first, last, at)
           S == {copy[i] : i \in 1 .. Len(buf)}
<1>1. Len(buf) \in Nat /\ DOMAIN buf = 1 .. Len(buf)
  BY ListedFacts
<1>2. copy = [i \in 1 .. Len(buf) |-> IF i \in at .. at + last - first
                                      THEN buf[i - at + first] ELSE buf[i]]
  BY <1>1 DEF CopyWithin
<1>3. copy \in [1 .. Len(buf) -> S]
  BY <1>2
<1> HIDE DEF copy, S
<1>4. OfSize(copy, Len(buf))
  BY <1>1, <1>3, FunctionIsListed DEF OfSize
<1>5. Recopied(copy, buf, first, last, at)
  BY <1>2, <1>4 DEF Recopied
<1> QED BY <1>5 DEF copy

(* A ciphertext is longer than what it encrypts, by all its overhead.      *)
LEMMA CiphertextIsLonger ==
  ASSUME NEW n \in Nat
  PROVE  /\ CiphertextLen(n) \in Nat /\ CiphertextLen(n) > FixedOverhead + n
         /\ CiphertextLen(n) >= FixedOverhead + Block
<1> DEFINE q == n \div Block
<1>1. Block \in Nat \ {0} /\ FixedOverhead \in Nat
  OBVIOUS
<1>2. q \in Nat /\ n < Block * (q + 1)
  BY <1>1
<1> HIDE DEF q
<1>3. Block * (q + 1) \in Nat
  BY <1>1, <1>2
<1>4. CiphertextLen(n) = FixedOverhead + Block * (q + 1)
  BY DEF CiphertextLen, q
<1>5. Block * (q + 1) >= Block
  BY <1>1, <1>2
<1> QED BY <1>1, <1>2, <1>3, <1>4, <1>5

-----------------------------------------------------------------------------
(* What each call leaves: the buffer as it was if it fails; or a buffer of *)
(* the same size, and what of it the later calls look at.                  *)
Same(call, buf) == call.buffer = buf
Sized(call, buf) ==
  Listed(call.buffer) /\ Len(call.buffer) = Len(buf) /\ call.len \in 0 .. Len(buf)

(* A message is framed by a byte; a hash, a stamp or a ciphertext is not.  *)
LEMMA FramedByAByte ==
  ASSUME NEW buf, NEW n, NEW markers, Framed(buf, n, markers)
  PROVE  n > PackedPrefix /\ n <= Len(buf) /\ buf[PackedPrefix + 1][1] = "byte"
  BY DEF Framed

LEMMA PrefixKept ==
  ASSUME NEW a, Listed(a), NEW b, Listed(b), HashLength <= Len(a), HashLength <= Len(b),
         \A i \in 1 .. HashLength : b[i] = a[i]
  PROVE  SubSeq(b, 1, HashLength) = SubSeq(a, 1, HashLength)
<1>1. HashLength \in Nat /\ Len(a) \in Nat /\ Len(b) \in Nat
  BY ListedFacts
<1>2. /\ SubSeq(a, 1, HashLength) = [i \in 1 .. HashLength |-> a[i]]
      /\ SubSeq(b, 1, HashLength) = [i \in 1 .. HashLength |-> b[i]]
  BY <1>1 DEF Listed
<1> QED BY <1>2

LEMMA StampLeaves ==
  ASSUME NEW buf, Listed(buf), NEW n \in Nat, NEW s, Listed(s)
  PROVE  LET call == AppendRecipientStamp(buf, n, s)
         IN  /\ call.error # "ok" => Same(call, buf)
             /\ call.error = "ok" => /\ Framed(buf, n, {148}) /\ Sized(call, buf)
                                     /\ \A i \in 1 .. HashLength : call.buffer[i] = buf[i]
<1> DEFINE call    == AppendRecipientStamp(buf, n, s)
           end     == n + 2 + Len(s)
           element == Cells(<<196, Len(s)>>) \o s
           after   == Appended(buf, n, element, <<"byte", 149>>)
           refused == Len(s) \notin {16, 32} \/ ~Framed(buf, n, {148})
<1>1. call = IF refused THEN Failed("MalformedPayload", buf, n)
             ELSE IF end > Len(buf) THEN Failed("OutputTooSmall", buf, n)
             ELSE Ok(after, end)
  BY DEF AppendRecipientStamp
<1>2. CASE refused
  BY <1>1, <1>2 DEF Failed, Same
<1>3. CASE ~refused /\ end > Len(buf)
  BY <1>1, <1>3 DEF Failed, Same
<1>4. CASE ~refused /\ ~ (end > Len(buf))
  <2>1. call = Ok(after, end) /\ Framed(buf, n, {148})
    BY <1>1, <1>4
  <2>2. /\ Len(s) \in Nat /\ Len(buf) \in Nat /\ n > PackedPrefix /\ end \in 0 .. Len(buf)
        /\ HashLength \in Nat /\ PackedPrefix \in Nat /\ HashLength <= PackedPrefix
    <3>1. Len(s) \in {16, 32} /\ n > PackedPrefix /\ ~ (end > Len(buf)) /\ Len(buf) \in Nat
      BY <1>4, <2>1, ListedFacts, FramedByAByte
    <3>2. HashLength \in Nat /\ PackedPrefix \in Nat /\ HashLength <= PackedPrefix
      BY DEF PackedPrefix
    <3> QED BY <3>1, <3>2
  <2>3. Listed(element)
    <3>1. Cells(<<196, Len(s)>>) = <<<<"byte", 196>>, <<"byte", Len(s)>>>>
      BY DEF Cells
    <3>2. Listed(Cells(<<196, Len(s)>>))
      <4> DEFINE c == <<"byte", 196>>
                 d == <<"byte", Len(s)>>
      <4> HIDE DEF c, d
      <4>1. <<c, d>> \in Seq({c, d})
        OBVIOUS
      <4>2. Listed(<<c, d>>)
        BY <4>1, SeqIsListed, Zenon
      <4> QED BY <3>1, <4>2, Zenon DEF c, d
    <3> QED BY <3>2, JoinIsListed
  <2> HIDE DEF element
  <2> DEFINE longer == Put(buf, n + 1, element)
  <2>4. Rewritten(longer, buf, n + 1, element) /\ OfSize(longer, Len(buf))
    <3>1. n + 1 \in Nat \ {0}
      BY <2>2
    <3>2. Rewritten(longer, buf, n + 1, element)
      BY <2>3, <3>1, PutKeeps, Zenon
    <3> QED BY <3>2, Zenon DEF Rewritten
  <2>5. Listed(<<<<"byte", 149>>>>) /\ Len(<<<<"byte", 149>>>>) = 1
    <3> DEFINE c == <<"byte", 149>>
    <3>1. <<c>> \in Seq({c}) /\ Len(<<c>>) = 1
      OBVIOUS
    <3> QED BY <3>1, SeqIsListed
  <2>6. after = Put(longer, PackedPrefix + 1, <<<<"byte", 149>>>>)
    BY DEF Appended
  <2> HIDE DEF longer
  <2> DEFINE five == <<<<"byte", 149>>>>
  <2>7. Rewritten(after, longer, PackedPrefix + 1, five) /\ OfSize(after, Len(buf))
    <3>1. PackedPrefix + 1 \in Nat \ {0} /\ Listed(longer) /\ Len(longer) = Len(buf)
      BY <2>2, <2>4 DEF OfSize
    <3> HIDE DEF five
    <3>2. Rewritten(Put(longer, PackedPrefix + 1, five), longer, PackedPrefix + 1, five)
      BY <2>5, <3>1, PutKeeps, Zenon DEF five
    <3>3. after = Put(longer, PackedPrefix + 1, five)
      BY <2>6 DEF five
    <3>4. Rewritten(after, longer, PackedPrefix + 1, five)
      BY <3>2, <3>3, Zenon
    <3> QED BY <3>1, <3>4 DEF Rewritten
  <2> HIDE DEF five, after
  <2>8. ASSUME NEW i \in 1 .. Len(buf), i <= PackedPrefix PROVE after[i] = longer[i]
    <3>1. i \notin PackedPrefix + 1 .. PackedPrefix + 1 + Len(five) - 1
      BY <2>2, <2>5, <2>8 DEF five
    <3>2. Len(longer) = Len(buf)
      BY <2>4 DEF OfSize
    <3> QED BY <2>7, <3>1, <3>2, Zenon DEF Rewritten
  <2>9. \A i \in 1 .. HashLength : after[i] = buf[i]
    <3> SUFFICES ASSUME NEW i \in 1 .. HashLength PROVE after[i] = buf[i]
      OBVIOUS
    <3>1. i \in 1 .. Len(buf) /\ i <= PackedPrefix /\ i \notin n + 1 .. n + 1 + Len(element) - 1
      BY <2>2, <2>3, ListedFacts
    <3>2. longer[i] = buf[i]
      BY <2>4, <3>1, Zenon DEF Rewritten
    <3>3. after[i] = longer[i]
      BY <2>8, <3>1, Zenon
    <3> QED BY <3>2, <3>3, Zenon
  <2> QED BY <2>1, <2>2, <2>9, <2>7 DEF Ok, Sized, OfSize
<1> QED BY <1>2, <1>3, <1>4

(* The opaque cells of a ciphertext that was written into a buffer.        *)
Ciphered(buf, base, total, e) == Put(buf, base + 1, Opaque("cipher", total, e))
HoldsCipher(after, buf, base, total, e) ==
  /\ Listed(after) /\ Len(after) = Len(buf)
  /\ \A i \in 1 .. base : after[i] = buf[i]
  /\ \A i \in 1 .. total : after[base + i] = <<"cipher", i, e>>
LEMMA CipherWritten ==
  ASSUME NEW buf, Listed(buf), NEW base \in Nat, NEW total \in Nat, NEW e, base + total <= Len(buf)
  PROVE  HoldsCipher(Ciphered(buf, base, total, e), buf, base, total, e)
<1> DEFINE c     == Opaque("cipher", total, e)
           after == Put(buf, base + 1, c)
<1>1. Listed(c) /\ Len(c) = total /\ \A i \in 1 .. total : c[i] = <<"cipher", i, e>>
  BY OpaqueIsListed
<1>2. Len(buf) \in Nat
  BY ListedFacts
<1> HIDE DEF c
<1>3. Rewritten(after, buf, base + 1, c)
  <2>1. base + 1 \in Nat \ {0}
    OBVIOUS
  <2> QED BY <1>1, <2>1, PutKeeps, Zenon
<1> HIDE DEF after
<1>4. /\ Listed(after) /\ Len(after) = Len(buf)
      /\ \A i \in 1 .. Len(buf) : after[i] = IF i \in base + 1 .. base + 1 + total - 1
                                             THEN c[i - (base + 1) + 1] ELSE buf[i]
  BY <1>1, <1>3 DEF Rewritten, OfSize
<1>5. \A i \in 1 .. base : after[i] = buf[i]
  BY <1>2, <1>4
<1>6. ASSUME NEW i \in 1 .. total PROVE after[base + i] = <<"cipher", i, e>>
  <2>1. /\ base + i \in 1 .. Len(buf) /\ base + i \in base + 1 .. base + 1 + total - 1
        /\ base + i - (base + 1) + 1 = i
    BY <1>2
  <2>2. after[base + i] = c[base + i - (base + 1) + 1]
    BY <1>1, <1>4, <2>1
  <2>3. c[i] = <<"cipher", i, e>>
    BY <1>1
  <2> QED BY <2>1, <2>2, <2>3, Zenon
<1> QED BY <1>4, <1>5, <1>6 DEF Ciphered, HoldsCipher, after, c

(* A call leaves the ciphertext of k cells after base others.              *)
Enciphers(call, base, k, e) ==
  /\ call.len = base + CiphertextLen(k)
  /\ \A i \in 1 .. CiphertextLen(k) : call.buffer[base + i] = <<"cipher", i, e>>

LEMMA SealLeaves ==
  ASSUME NEW buf, Listed(buf), NEW n \in Nat, NEW to, NEW e
  PROVE  LET call == SealOpportunistic(buf, n, to, e)
         IN  /\ call.error # "ok" => Same(call, buf)
             /\ call.error = "ok" => /\ Framed(buf, n, {148, 149}) /\ Sized(call, buf)
                                     /\ call.buffer[PackedPrefix + 1][1] # "byte"
                                     /\ Enciphers(call, 0, n - HashLength, e)
<1> DEFINE call  == SealOpportunistic(buf, n, to, e)
           m     == n - HashLength
           total == CiphertextLen(m)
           moved == CopyWithin(buf, HashLength + 1, n, PlaintextOffset + 1)
           after == Ciphered(moved, 0, total, e)
           bad   == ~Framed(buf, n, {148, 149})
           other == SubSeq(buf, 1, HashLength) # DestHash(to)
<1>1. call = IF bad THEN Failed("MalformedPayload", buf, n)
             ELSE IF other THEN Failed("DestinationMismatch", buf, n)
             ELSE IF m > MaxPlaintext THEN Failed("TooLong", buf, n)
             ELSE IF total > Len(buf) THEN Failed("OutputTooSmall", buf, n)
             ELSE IF total < total THEN Failed("OutputTooSmall", moved, m)
             ELSE Ok(after, 0 + total)
  BY DEF SealOpportunistic, EncryptInPlace, Ciphered
<1>2. CASE bad \/ other \/ m > MaxPlaintext \/ total > Len(buf)
  BY <1>1, <1>2 DEF Failed, Same
<1>3. CASE ~ (bad \/ other \/ m > MaxPlaintext \/ total > Len(buf))
  <2>1. Framed(buf, n, {148, 149}) /\ ~ (total > Len(buf))
    BY <1>3
  <2>2. /\ HashLength \in Nat /\ SignatureLength \in Nat /\ PackedPrefix = 2 * HashLength + SignatureLength
        /\ n > PackedPrefix /\ Len(buf) \in Nat /\ PlaintextOffset \in Nat
        /\ HashLength <= FixedOverhead /\ FixedOverhead \in Nat
    BY <2>1, ListedFacts, FramedByAByte DEF PackedPrefix
  <2>3. m \in Nat
    BY <2>2
  <2> HIDE DEF m
  <2>4. total \in Nat /\ total > FixedOverhead + m
    BY <2>3, CiphertextIsLonger
  <2>5. Listed(moved) /\ Len(moved) = Len(buf)
    <3> DEFINE first == HashLength + 1
               at    == PlaintextOffset + 1
    <3>1. first \in Nat \ {0} /\ at \in Nat \ {0}
      BY <2>2
    <3>2. moved = CopyWithin(buf, first, n, at)
      OBVIOUS
    <3> HIDE DEF moved, first, at
    <3>3. Recopied(CopyWithin(buf, first, n, at), buf, first, n, at)
      BY <3>1, CopyKeeps, Zenon
    <3> QED BY <3>2, <3>3, Zenon DEF Recopied, OfSize
  <2> HIDE DEF moved, total
  <2>6. 0 \in Nat /\ 0 + total <= Len(moved)
    BY <2>1, <2>2, <2>4, <2>5
  <2>7. /\ Listed(after) /\ Len(after) = Len(moved)
        /\ \A i \in 1 .. total : after[0 + i] = <<"cipher", i, e>>
    <3>1. Listed(moved) /\ 0 \in Nat /\ total \in Nat /\ 0 + total <= Len(moved)
      BY <2>4, <2>5, <2>6
    <3>2. HoldsCipher(after, moved, 0, total, e)
      BY <3>1, CipherWritten
    <3> HIDE DEF after
    <3> QED BY <3>2 DEF HoldsCipher
  <2> HIDE DEF after
  <2>8. PackedPrefix + 1 \in 1 .. total
    BY <2>2, <2>3, <2>4 DEF m
  <2>9. after[PackedPrefix + 1][1] # "byte"
    <3>1. 0 + (PackedPrefix + 1) = PackedPrefix + 1
      BY <2>2
    <3>2. after[PackedPrefix + 1] = <<"cipher", PackedPrefix + 1, e>>
      BY <2>7, <2>8, <3>1
    <3> QED BY <3>2
  <2>10. call = Ok(after, total) /\ total \in 0 .. Len(buf)
    BY <1>1, <1>3, <2>1, <2>2, <2>4
  <2>11. Enciphers(call, 0, m, e)
    <3>1. total = CiphertextLen(m) /\ call.buffer = after /\ call.len = total /\ 0 + total = total
      BY <2>4, <2>10 DEF total, Ok
    <3> QED BY <2>7, <3>1, Zenon DEF Enciphers
  <2> QED BY <2>1, <2>5, <2>7, <2>9, <2>10, <2>11 DEF Ok, Sized, m
<1> QED BY <1>2, <1>3

(* encrypt_message leaves an entry: the recipient's hash, then ciphertext, *)
(* and none of it is taken for framing.                                    *)
IsEntry(cells) ==
  /\ Listed(cells) /\ Len(cells) > PackedPrefix
  /\ SubSeq(cells, 1, HashLength) = DestHash("recipient")
  /\ \A i \in 1 .. Len(cells) : cells[i][1] # "byte"

LEMMA EncryptLeaves ==
  ASSUME NEW buf, Listed(buf), NEW n \in Nat, NEW to, NEW e
  PROVE  LET call == EncryptMessage(buf, n, to, e)
         IN  /\ call.error # "ok" => Same(call, buf) /\ call.len = n
             /\ call.error = "ok" =>
                  /\ Sized(call, buf) /\ call.len > PackedPrefix
                  /\ SubSeq(call.buffer, 1, HashLength) = DestHash(to)
                  /\ SubSeq(buf, 1, HashLength) = DestHash(to)
                  /\ \A i \in HashLength + 1 .. call.len : call.buffer[i][1] # "byte"
                  /\ Enciphers(call, HashLength, n - HashLength, e)
<1> DEFINE call  == EncryptMessage(buf, n, to, e)
           m     == n - HashLength
           part  == CiphertextLen(m)
           total == HashLength + part
           moved == CopyWithin(buf, HashLength + 1, n, HashLength + PlaintextOffset + 1)
           after == Ciphered(moved, HashLength, part, e)
           bad   == n <= PackedPrefix \/ n > Len(buf)
           other == SubSeq(buf, 1, HashLength) # DestHash(to)
<1>1. call = IF bad THEN Failed("MalformedPayload", buf, n)
             ELSE IF other THEN Failed("DestinationMismatch", buf, n)
             ELSE IF total > Len(buf) THEN Failed("OutputTooSmall", buf, n)
             ELSE EncryptInPlace(moved, HashLength, total - HashLength, m, e)
  BY DEF EncryptMessage
<1>2. CASE bad \/ other \/ total > Len(buf)
  BY <1>1, <1>2 DEF Failed, Same
<1>3. CASE ~ (bad \/ other \/ total > Len(buf))
  <2>1. SubSeq(buf, 1, HashLength) = DestHash(to) /\ ~ (total > Len(buf)) /\ ~bad
    BY <1>3
  <2>2. /\ HashLength \in Nat /\ SignatureLength \in Nat /\ PackedPrefix = 2 * HashLength + SignatureLength
        /\ n > PackedPrefix /\ Len(buf) \in Nat /\ PlaintextOffset \in Nat
        /\ HashLength <= FixedOverhead /\ FixedOverhead \in Nat
    BY <2>1, ListedFacts DEF PackedPrefix
  <2>3. m \in Nat
    BY <2>2
  <2> HIDE DEF m
  <2>4. part \in Nat /\ part > FixedOverhead + m
    BY <2>3, CiphertextIsLonger
  <2> HIDE DEF part
  <2>5. /\ Listed(moved) /\ Len(moved) = Len(buf)
        /\ \A i \in 1 .. Len(buf) :
             moved[i] = IF i \in HashLength + PlaintextOffset + 1
                                 .. HashLength + PlaintextOffset + 1 + n - (HashLength + 1)
                        THEN buf[i - (HashLength + PlaintextOffset + 1) + (HashLength + 1)] ELSE buf[i]
    <3> DEFINE first == HashLength + 1
               at    == HashLength + PlaintextOffset + 1
    <3>1. first \in Nat \ {0} /\ at \in Nat \ {0}
      BY <2>2
    <3>2. moved = CopyWithin(buf, first, n, at)
      OBVIOUS
    <3> HIDE DEF moved, first, at
    <3>3. Recopied(CopyWithin(buf, first, n, at), buf, first, n, at)
      BY <3>1, CopyKeeps, Zenon
    <3>4. Recopied(moved, buf, first, n, at)
      BY <3>2, <3>3, Zenon
    <3> QED BY <3>4 DEF Recopied, OfSize, first, at
  <2> HIDE DEF moved
  <2>6. HashLength + part <= Len(moved) /\ total - HashLength = part
    BY <2>1, <2>2, <2>4, <2>5
  <2>7. /\ Listed(after) /\ Len(after) = Len(moved)
        /\ \A i \in 1 .. HashLength : after[i] = moved[i]
        /\ \A i \in 1 .. part : after[HashLength + i] = <<"cipher", i, e>>
    <3>1. Listed(moved) /\ HashLength \in Nat /\ part \in Nat /\ HashLength + part <= Len(moved)
      BY <2>2, <2>4, <2>5, <2>6
    <3>2. HoldsCipher(after, moved, HashLength, part, e)
      BY <3>1, CipherWritten
    <3> HIDE DEF after
    <3> QED BY <3>2 DEF HoldsCipher
  <2>8. call = Ok(after, total)
    <3>1. call = EncryptInPlace(moved, HashLength, part, m, e)
      BY <1>1, <1>3, <2>6
    <3>2. EncryptInPlace(moved, HashLength, part, m, e)
            = IF part < part THEN Failed("OutputTooSmall", moved, m) ELSE Ok(after, HashLength + part)
      BY DEF EncryptInPlace, Ciphered, part
    <3> QED BY <2>4, <3>1, <3>2
  <2> HIDE DEF after
  <2>9. SubSeq(after, 1, HashLength) = DestHash(to)
    <3>1. \A i \in 1 .. HashLength : after[i] = buf[i]
      BY <2>2, <2>4, <2>5, <2>6, <2>7
    <3>2. HashLength <= Len(buf) /\ HashLength <= Len(after)
      BY <2>2, <2>4, <2>5, <2>6, <2>7
    <3> QED BY <2>1, <2>7, <3>1, <3>2, PrefixKept
  <2>10. ASSUME NEW i \in HashLength + 1 .. total PROVE after[i][1] # "byte"
    <3>1. i - HashLength \in 1 .. part /\ HashLength + (i - HashLength) = i
      BY <2>2, <2>4
    <3>2. after[i] = <<"cipher", i - HashLength, e>>
      BY <2>7, <3>1
    <3> QED BY <3>2
  <2>11. total \in 0 .. Len(buf) /\ total > PackedPrefix
    BY <2>1, <2>2, <2>3, <2>4 DEF m
  <2>12. call.error = "ok" /\ call.buffer = after /\ call.len = total
    BY <2>8 DEF Ok
  <2>13. Enciphers(call, HashLength, m, e)
    <3>1. call.buffer = after /\ call.len = HashLength + part /\ part = CiphertextLen(m)
      BY <2>12 DEF part
    <3> QED BY <2>7, <3>1, Zenon DEF Enciphers
  <2> HIDE DEF call, total
  <2> QED BY <2>1, <2>5, <2>7, <2>9, <2>10, <2>11, <2>12, <2>13 DEF Sized, call, m
<1> QED BY <1>2, <1>3

LEMMA EntryMade ==
  ASSUME NEW buf, Listed(buf), NEW n \in Nat, n <= Len(buf), n > PackedPrefix,
         SubSeq(buf, 1, HashLength) = DestHash("recipient"),
         \A i \in HashLength + 1 .. n : buf[i][1] # "byte"
  PROVE  IsEntry(SubSeq(buf, 1, n)) /\ Len(SubSeq(buf, 1, n)) = n
<1> DEFINE entry == SubSeq(buf, 1, n)
<1>1. /\ HashLength \in Nat /\ PackedPrefix \in Nat /\ HashLength <= PackedPrefix /\ Len(buf) \in Nat
      /\ n \in 0 .. Len(buf) /\ HashLength <= n
  BY ListedFacts DEF PackedPrefix
<1>2. Listed(entry)
  BY <1>1, SliceIsListed
<1>3. Len(entry) = n /\ \A i \in 1 .. n : entry[i] = buf[i]
  BY <1>1 DEF Listed
<1> HIDE DEF entry
<1>4. SubSeq(entry, 1, HashLength) = SubSeq(buf, 1, HashLength)
  <2>1. \A i \in 1 .. HashLength : entry[i] = buf[i]
    BY <1>1, <1>3
  <2> QED BY <1>1, <1>2, <1>3, <2>1, PrefixKept
<1>5. ASSUME NEW i \in 1 .. n PROVE entry[i][1] # "byte"
  <2>1. CASE i <= HashLength
    <3>1. SubSeq(buf, 1, HashLength)[i] = buf[i]
      BY <1>1, <2>1 DEF Listed
    <3>2. DestHash("recipient")[i] = <<"hash", i, "recipient">>
      BY <1>1, <2>1 DEF DestHash, Opaque
    <3>3. buf[i] = <<"hash", i, "recipient">>
      BY <3>1, <3>2
    <3> QED BY <1>3, <3>3
  <2>2. CASE ~ (i <= HashLength)
    <3>1. i \in HashLength + 1 .. n
      BY <1>1, <2>2
    <3> QED BY <1>3, <3>1
  <2> QED BY <2>1, <2>2
<1>6. IsEntry(entry)
  BY <1>2, <1>3, <1>4, <1>5 DEF IsEntry
<1> QED BY <1>3, <1>6 DEF entry

(* The header of an upload, byte by byte: an array of two, a float, an     *)
(* array of one, and a bin that is as long as entry and stamp.             *)
UploadLead == <<146, 203>> \o Timestamp \o <<145>>

LEMMA UploadLeadBytes ==
  /\ UploadLead \in Seq(Byte) /\ Len(UploadLead) = 11
  /\ UploadLead[1] = 146 /\ UploadLead[2] = 203 /\ UploadLead[11] = 145
<1> DEFINE a  == <<146, 203>>
           t  == Timestamp
           z  == <<145>>
           at == a \o t
           l  == at \o z
<1>1. a \in Seq(Byte) /\ t \in Seq(Byte) /\ z \in Seq(Byte)
  BY SMT DEF Byte, Timestamp
<1>2. Len(a) = 2 /\ Len(t) = 8 /\ Len(z) = 1 /\ a[1] = 146 /\ a[2] = 203 /\ z[1] = 145
  BY SMT DEF Timestamp
<1>3. UploadLead = l
  BY DEF UploadLead
<1> HIDE DEF a, t, z
<1>4. Joined(at, a, t)
  BY <1>1, JoinBytes, Zenon
<1> HIDE DEF at
<1>5. at \in Seq(Byte) /\ Len(at) = 10 /\ at[1] = 146 /\ at[2] = 203
  BY <1>2, <1>4 DEF Joined
<1>6. Joined(l, at, z)
  BY <1>1, <1>5, JoinBytes, Zenon
<1> HIDE DEF l
<1>7. l \in Seq(Byte) /\ Len(l) = 11 /\ l[1] = 146 /\ l[2] = 203 /\ l[11] = 145
  BY <1>2, <1>5, <1>6 DEF Joined
<1> QED BY <1>3, <1>7, Zenon

(* A bin header of the length n, as bin8 or bin16, at offset o of h.       *)
IsBinHeader(h, o, n) ==
  \/ Len(h) = o + 2 /\ h[o + 1] = 196 /\ h[o + 2] = n
  \/ Len(h) = o + 3 /\ h[o + 1] = 197 /\ 256 * h[o + 2] + h[o + 3] = n

(* Lengths that fit bin16.                                                 *)
Bin16 == {n \in Nat : n < 65536}

LEMMA BinHeaderBytes ==
  ASSUME NEW n \in Bin16
  PROVE  BinHeader(n) \in Seq(Byte) /\ IsBinHeader(BinHeader(n), 0, n)
<1>1. CASE n <= 255
  <2>1. BinHeader(n) = <<196, n>>
    BY <1>1, SMT DEF BinHeader
  <2>2. 196 \in Byte /\ n \in Byte
    BY <1>1, SMT DEF Byte, Bin16
  <2>3. <<196, n>> \in Seq(Byte) /\ Len(<<196, n>>) = 2
    BY <2>2
  <2>4. <<196, n>>[1] = 196 /\ <<196, n>>[2] = n
    BY SMT
  <2> QED BY <2>1, <2>3, <2>4, SMT DEF IsBinHeader
<1>2. CASE ~ (n <= 255)
  <2> DEFINE h == n \div 256
             l == n % 256
  <2>1. h \in Byte /\ l \in Byte /\ 256 * h + l = n /\ 197 \in Byte
    BY <1>2, SMT DEF Byte, Bin16
  <2>2. BinHeader(n) = <<197, h, l>>
    BY <1>2, SMT DEF BinHeader, Bin16
  <2> HIDE DEF h, l
  <2>3. <<197, h, l>> \in Seq(Byte) /\ Len(<<197, h, l>>) = 3
    BY <2>1
  <2>4. <<197, h, l>>[1] = 197 /\ <<197, h, l>>[2] = h /\ <<197, h, l>>[3] = l
    BY SMT
  <2> QED BY <2>1, <2>2, <2>3, <2>4, SMT DEF IsBinHeader
<1> QED BY <1>1, <1>2, SMT

IsUploadHeader(h, n) ==
  h \in Seq(Byte) /\ h[1] = 146 /\ h[2] = 203 /\ h[11] = 145 /\ IsBinHeader(h, 11, n)

LEMMA UploadHeaderBytes ==
  ASSUME NEW n \in Bin16
  PROVE  IsUploadHeader(UploadHeader(n), n)
<1> DEFINE a == UploadLead
           b == BinHeader(n)
           h == UploadHeader(n)
<1>1. a \in Seq(Byte) /\ Len(a) = 11 /\ a[1] = 146 /\ a[2] = 203 /\ a[11] = 145
  BY UploadLeadBytes
<1>2. b \in Seq(Byte) /\ IsBinHeader(b, 0, n)
  BY BinHeaderBytes
<1>3. h = a \o b
  BY DEF UploadHeader, UploadLead
<1> HIDE DEF a, b
<1>4. Joined(h, a, b)
  <2>1. Joined(a \o b, a, b)
    BY <1>1, <1>2, JoinBytes, Zenon
  <2> QED BY <1>3, <2>1, Zenon
<1> HIDE DEF h
<1>5. /\ h \in Seq(Byte) /\ Len(h) = 11 + Len(b)
      /\ \A i \in 1 .. 11 : h[i] = a[i]
      /\ \A i \in 1 .. Len(b) : h[11 + i] = b[i]
  BY <1>1, <1>4 DEF Joined
<1>6. h[1] = 146 /\ h[2] = 203 /\ h[11] = 145
  BY <1>1, <1>5
<1>7. IsBinHeader(h, 11, n)
  <2>1. CASE Len(b) = 0 + 2 /\ b[0 + 1] = 196 /\ b[0 + 2] = n
    <3>1. h[11 + 1] = 196 /\ h[11 + 2] = n /\ Len(h) = 11 + 2
      BY <1>5, <2>1
    <3> QED BY <3>1 DEF IsBinHeader
  <2>2. CASE Len(b) = 0 + 3 /\ b[0 + 1] = 197 /\ 256 * b[0 + 2] + b[0 + 3] = n
    <3>1. /\ h[11 + 1] = 197 /\ h[11 + 2] = b[0 + 2] /\ h[11 + 3] = b[0 + 3]
          /\ Len(h) = 11 + 3
      BY <1>5, <2>2
    <3> QED BY <2>2, <3>1 DEF IsBinHeader
  <2> QED BY <1>2, <2>1, <2>2 DEF IsBinHeader
<1>8. IsUploadHeader(h, n)
  BY <1>5, <1>6, <1>7 DEF IsUploadHeader
<1> QED BY <1>8 DEF h

(* A node that reads such a header finds one whole value that ends with    *)
(* the bin.                                                                *)
LEMMA SkipOne ==
  ASSUME NEW b \in Seq(Byte), NEW p \in Position, NEW n \in Nat, NEW d \in Nat, NEW end \in Position,
         n > 0, d <= MaxDepth, Readable(b, p),
         Skip(b, OwnEnd(b, p), Items(b, p), d + 1) = end
  PROVE  Skip(b, p, n, d) = Skip(b, end, n - 1, d)
<1>1. end # Malformed /\ n # 0 /\ ~ (d > MaxDepth) /\ MaxDepth \in Nat
  BY DepthAssumption DEF Position, Malformed
<1>2. Skip(b, p, n, d) =
        IF n = 0 THEN p
        ELSE IF d > MaxDepth \/ ~Readable(b, p) THEN Malformed
        ELSE IF Skip(b, OwnEnd(b, p), Items(b, p), d + 1) = Malformed THEN Malformed
        ELSE Skip(b, Skip(b, OwnEnd(b, p), Items(b, p), d + 1), n - 1, d)
  BY SkipEquation
<1> QED BY <1>1, <1>2, Zenon

(* A small array takes one byte and holds as many values as it says.       *)
ReadsAsArray(b, p, n) == Readable(b, p) /\ OwnEnd(b, p) = p + 1 /\ Items(b, p) = n

LEMMA SmallArrayRead ==
  ASSUME NEW b \in Seq(Byte), NEW p \in Position, p <= Len(b), NEW n \in Nat, n <= 15, b[p] = 144 + n
  PROVE  ReadsAsArray(b, p, n)
<1> DEFINE c == b[p]
<1>1. c \in Nat /\ 144 <= c /\ c <= 159 /\ c - 144 = n
  OBVIOUS
<1> HIDE DEF c
<1>2. c \in FixArray /\ c \notin FixStr
  BY <1>1 DEF FixArray, FixStr
<1>3. LengthBytes(c) = 0
  BY <1>1 DEF LengthBytes
<1>4. NumberBody(c) = 0
  BY <1>1 DEF NumberBody
<1>5. IsArray(c) /\ ~IsBlob(c)
  BY <1>1, <1>2 DEF IsArray, IsBlob
<1>6. Announced(b, p) = n
  <2>1. Announced(b, p) = IF LengthBytes(c) > 0 THEN BigEndian(b, p + 1, LengthBytes(c))
                          ELSE IF c \in FixStr THEN c - 160
                          ELSE IF c \in FixArray THEN c - 144
                          ELSE IF c \in FixMap THEN c - 128
                          ELSE 0
    BY DEF Announced, c
  <2>2. ~ (LengthBytes(c) > 0)
    BY <1>3
  <2> QED BY <1>1, <1>2, <2>1, <2>2, Zenon
<1>7. OwnEnd(b, p) = p + 1
  <2>1. OwnEnd(b, p) = p + 1 + LengthBytes(c) + NumberBody(c)
                       + (IF IsBlob(c) THEN Announced(b, p) ELSE 0)
    BY DEF OwnEnd, c
  <2>2. p \in Nat
    BY DEF Position
  <2> QED BY <1>3, <1>4, <1>5, <2>1, <2>2
<1>8. Items(b, p) = n
  <2>1. Items(b, p) = IF IsArray(c) THEN Announced(b, p)
                      ELSE IF IsMap(c) THEN 2 * Announced(b, p) ELSE 0
    BY DEF Items, c
  <2> QED BY <1>5, <1>6, <2>1, Zenon
<1>9. p <= Len(b) /\ p + LengthBytes(c) <= Len(b) /\ OwnEnd(b, p) <= Len(b) + 1
  <2>1. Len(b) \in Nat /\ p \in Nat
    BY DEF Position
  <2> QED BY <1>3, <1>7, <2>1
<1> QED BY <1>5, <1>7, <1>8, <1>9 DEF ReadsAsArray, Readable, c

LEMMA PairRead ==
  ASSUME NEW b \in Seq(Byte), Len(b) >= 12, b[1] = 146
  PROVE  ReadsAsArray(b, 1, 2)
<1>1. 1 \in Position /\ 1 <= Len(b) /\ 2 \in Nat /\ 2 <= 15
  BY DEF Position
<1>2. b[1] = 144 + 2
  OBVIOUS
<1> QED BY <1>1, <1>2, SmallArrayRead, SMT

(* An eight-byte float takes nine bytes and holds nothing.                 *)
ReadsAsFloat(b, p, end) == Readable(b, p) /\ OwnEnd(b, p) = end /\ Items(b, p) = 0

LEMMA FloatRead ==
  ASSUME NEW b \in Seq(Byte), NEW p \in Position, b[p] = 203, NEW end, end = p + 9, end <= Len(b) + 1
  PROVE  ReadsAsFloat(b, p, end)
<1>1. /\ LengthBytes(203) = 0 /\ NumberBody(203) = 8 /\ IsScalar(203)
      /\ ~IsArray(203) /\ ~IsBlob(203) /\ ~IsMap(203)
  BY DEF LengthBytes, NumberBody, IsScalar, IsArray, IsBlob, IsMap, FixArray, FixStr, FixMap
<1>2. p \in Nat /\ Len(b) \in Nat
  BY DEF Position
<1>3. OwnEnd(b, p) = end
  BY <1>1, <1>2, SMTT(30) DEF OwnEnd
<1>4. Items(b, p) = 0
  BY <1>1 DEF Items
<1>5. p <= Len(b) /\ p + 0 <= Len(b)
  BY <1>2
<1> QED BY <1>1, <1>3, <1>4, <1>5 DEF Readable, ReadsAsFloat

LEMMA UploadIsRead ==
  ASSUME MaxDepth >= 2, NEW b \in Seq(Byte), b[1] = 146, b[2] = 203, b[11] = 145,
         Len(b) >= 12, IsBlob(b[12]), ReadBin(b, 12) = Len(b) + 1
  PROVE  SkipValueAt(b, 1, 0) = Len(b) + 1
<1> USE DepthAssumption
<1>1. /\ Len(b) \in Nat /\ 1 \in Position /\ 2 \in Position /\ 11 \in Position /\ 12 \in Position
      /\ Len(b) + 1 \in Position /\ Len(b) + 1 # Malformed
  <2> DEFINE l == Len(b)
  <2>1. l \in Nat
    OBVIOUS
  <2> HIDE DEF l
  <2>2. l + 1 \in Nat /\ l + 1 # 0
    BY <2>1
  <2> QED BY <2>1, <2>2 DEF Position, Malformed, l
<1>2. Readable(b, 1) /\ OwnEnd(b, 1) = 2 /\ Items(b, 1) = 2
  <2>1. ReadsAsArray(b, 1, 2)
    BY PairRead
  <2> QED BY <2>1 DEF ReadsAsArray
<1>3. Readable(b, 2) /\ OwnEnd(b, 2) = 11 /\ Items(b, 2) = 0
  <2>1. PICK p \in Position : p = 2
    BY <1>1
  <2>2. PICK e : e = p + 9
    OBVIOUS
  <2>3. b[p] = 203 /\ e <= Len(b) + 1
    BY <1>1, <2>1, <2>2
  <2>4. ReadsAsFloat(b, p, e)
    BY <2>2, <2>3, FloatRead
  <2>5. e = 11
    BY <2>1, <2>2
  <2> QED BY <2>1, <2>4, <2>5 DEF ReadsAsFloat
<1>4. Readable(b, 11) /\ OwnEnd(b, 11) = 12 /\ Items(b, 11) = 1
  <2>1. 11 <= Len(b) /\ 1 \in Nat /\ 1 <= 15 /\ b[11] = 144 + 1
    BY <1>1
  <2>2. ReadsAsArray(b, 11, 1)
    BY <1>1, <2>1, SmallArrayRead
  <2> QED BY <2>2 DEF ReadsAsArray
<1>5. Readable(b, 12) /\ OwnEnd(b, 12) = Len(b) + 1 /\ Items(b, 12) = 0
  <2> DEFINE w == LengthBytes(b[12])
             a == Announced(b, 12)
  <2>1. w \in Nat
    BY DEF LengthBytes
  <2>2. ReadBin(b, 12) = IF ~IsBlob(b[12]) \/ 12 + (1 + w) > Len(b) + 1 THEN Malformed
                         ELSE IF 12 + (1 + w) + a <= Len(b) + 1 THEN 12 + (1 + w) + a
                         ELSE Malformed
    BY <1>1 DEF ReadBin
  <2>3. 12 \in 1 .. Len(b)
    BY <1>1
  <2>4. b[12] \in Nat
    BY <2>3, BytesAreNat
  <2>5. NumberBody(b[12]) = 0 /\ ~IsArray(b[12]) /\ ~IsMap(b[12])
    BY <2>4, BlobsAreNoNumbers, LeavesHoldNothing
  <2>6. OwnEnd(b, 12) = 12 + 1 + w + NumberBody(b[12]) + a
    BY DEF OwnEnd
  <2> HIDE DEF w, a
  <2>7. ~ (12 + (1 + w) > Len(b) + 1) /\ 12 + (1 + w) + a = Len(b) + 1
    BY <1>1, <2>2
  <2>8. 12 + w <= Len(b)
    BY <1>1, <2>1, <2>7
  <2>9. a \in Nat
    BY <2>3, <2>8, AnnouncedIsNat DEF a, w
  <2>10. OwnEnd(b, 12) = Len(b) + 1
    BY <1>1, <2>1, <2>5, <2>6, <2>7, <2>9
  <2>11. Readable(b, 12)
    BY <1>1, <2>3, <2>8, <2>10 DEF Readable, w
  <2> QED BY <2>5, <2>10, <2>11 DEF Items
<1>6. /\ 0 <= MaxDepth /\ 1 <= MaxDepth /\ 2 <= MaxDepth /\ 0 + 1 = 1 /\ 1 + 1 = 2
      /\ 1 - 1 = 0 /\ 2 - 1 = 1 /\ 1 > 0 /\ 2 > 0
      /\ 0 \in Nat /\ 1 \in Nat /\ 2 \in Nat /\ 3 \in Nat /\ 2 + 1 = 3
  OBVIOUS
<1>7. \A p \in Position, d \in Nat : Skip(b, p, 0, d) = p
  <2> SUFFICES ASSUME NEW p \in Position, NEW d \in Nat PROVE Skip(b, p, 0, d) = p
    OBVIOUS
  <2>1. Skip(b, p, 0, d) =
          IF 0 = 0 THEN p
          ELSE IF d > MaxDepth \/ ~Readable(b, p) THEN Malformed
          ELSE IF Skip(b, OwnEnd(b, p), Items(b, p), d + 1) = Malformed THEN Malformed
          ELSE Skip(b, Skip(b, OwnEnd(b, p), Items(b, p), d + 1), 0 - 1, d)
    BY <1>6, SkipEquation
  <2> QED BY <2>1, Zenon
<1>8. Skip(b, 12, 1, 2) = Len(b) + 1
  <2>1. Skip(b, OwnEnd(b, 12), Items(b, 12), 2 + 1) = Len(b) + 1
    BY <1>1, <1>5, <1>6, <1>7
  <2> QED BY <1>1, <1>5, <1>6, <1>7, <2>1, SkipOne
<1>9. Skip(b, 11, 1, 1) = Len(b) + 1
  <2>1. Skip(b, OwnEnd(b, 11), Items(b, 11), 1 + 1) = Len(b) + 1
    BY <1>4, <1>6, <1>8
  <2> QED BY <1>1, <1>4, <1>6, <1>7, <2>1, SkipOne
<1>10. Skip(b, 2, 2, 1) = Len(b) + 1
  <2>1. Skip(b, OwnEnd(b, 2), Items(b, 2), 1 + 1) = 11
    BY <1>1, <1>3, <1>6, <1>7
  <2> QED BY <1>1, <1>3, <1>6, <1>9, <2>1, SkipOne
<1>11. Skip(b, 1, 1, 0) = Len(b) + 1
  <2>1. Skip(b, OwnEnd(b, 1), Items(b, 1), 0 + 1) = Len(b) + 1
    BY <1>2, <1>6, <1>10
  <2> QED BY <1>1, <1>2, <1>6, <1>7, <2>1, SkipOne
<1> QED BY <1>11 DEF SkipValueAt

(* A node that reads an upload takes the entry out of it.                  *)
IsUpload(cells, n, header, entry) ==
  /\ Listed(cells) /\ Len(cells) = Len(header) + Len(entry) + PnStampLength
  /\ IsUploadHeader(header, n)
  /\ \A i \in 1 .. Len(header) : cells[i] = <<"byte", header[i]>>
  /\ \A i \in 1 .. Len(entry) : cells[Len(header) + i] = entry[i]
  /\ \A i \in Len(header) + 1 .. Len(cells) : cells[i][1] # "byte"

ReadsHeader(bytes, cells, header) ==
  /\ bytes \in Seq(Byte) /\ Len(bytes) = Len(cells)
  /\ \A i \in 1 .. Len(header) : bytes[i] = header[i]

LEMMA UploadBytes ==
  ASSUME NEW cells, NEW header, NEW entry, Listed(entry), NEW n,
         IsUpload(cells, n, header, entry)
  PROVE  ReadsHeader(Bytes(cells), cells, header)
<1> DEFINE b == Bytes(cells)
<1>1. DOMAIN cells = 1 .. Len(cells) /\ Len(cells) \in Nat /\ Len(entry) \in Nat
  BY ListedFacts DEF IsUpload
<1>2. header \in Seq(Byte)
  BY DEF IsUpload, IsUploadHeader
<1>3. b = [i \in 1 .. Len(cells) |-> IF cells[i][1] = "byte" THEN cells[i][2] ELSE 193]
  BY <1>1 DEF Bytes
<1> HIDE DEF b
<1>4. Len(header) \in Nat /\ Len(header) <= Len(cells) /\ \A i \in 1 .. Len(header) : header[i] \in Byte
  BY <1>1, <1>2 DEF IsUpload
<1>5. ASSUME NEW i \in 1 .. Len(header) PROVE b[i] = header[i]
  <2>1. i \in 1 .. Len(cells)
    BY <1>1, <1>4
  <2>2. cells[i] = <<"byte", header[i]>>
    BY DEF IsUpload
  <2>3. cells[i][1] = "byte" /\ cells[i][2] = header[i]
    BY <2>2
  <2> QED BY <1>3, <2>1, <2>3
<1>6. ASSUME NEW i \in 1 .. Len(cells) PROVE b[i] \in Byte
  <2>1. CASE i <= Len(header)
    <3>1. i \in 1 .. Len(header)
      BY <1>1, <1>4, <2>1
    <3> QED BY <1>4, <1>5, <3>1
  <2>2. CASE ~ (i <= Len(header))
    <3>1. i \in Len(header) + 1 .. Len(cells)
      BY <1>1, <1>4, <2>2
    <3>2. cells[i][1] # "byte"
      BY <3>1 DEF IsUpload
    <3>3. b[i] = 193
      BY <1>3, <3>2
    <3> QED BY <3>3, SMT DEF Byte
  <2> QED BY <2>1, <2>2
<1> HIDE DEF Byte
<1>7. b \in [1 .. Len(cells) -> Byte]
  BY <1>3, <1>6
<1>8. b \in Seq(Byte) /\ Len(b) = Len(cells)
  BY <1>1, <1>7
<1>9. ReadsHeader(b, cells, header)
  BY <1>5, <1>8 DEF ReadsHeader
<1> QED BY <1>9 DEF b

LEMMA EntryUnwrapped ==
  ASSUME NEW cells, NEW entry, IsEntry(entry), NEW header,
         IsUpload(cells, Len(entry) + PnStampLength, header, entry)
  PROVE  Entry(cells) = entry
<1> DEFINE b == Bytes(cells)
           h == Len(header)
           e == Len(entry)
           P == PnStampLength
<1>1. /\ header \in Seq(Byte) /\ Listed(cells) /\ Listed(entry)
      /\ IsUploadHeader(header, e + P)
  BY DEF IsUpload, IsUploadHeader, IsEntry
<1>2. /\ h \in Nat /\ e \in Nat /\ P \in Nat /\ Len(cells) = h + e + P /\ Len(cells) \in Nat
      /\ e > PackedPrefix /\ PackedPrefix \in Nat /\ PackedPrefix >= 14
  <2>1. h \in Nat /\ Len(cells) = h + e + P
    BY <1>1 DEF IsUpload
  <2>2. e \in Nat
    BY <1>1, ListedFacts
  <2>3. P \in Nat
    OBVIOUS
  <2>4. e > PackedPrefix
    BY DEF IsEntry
  <2>5. PackedPrefix \in Nat
    BY DEF PackedPrefix
  <2> HIDE DEF h, e, P
  <2> QED BY <2>1, <2>2, <2>3, <2>4, <2>5, UploadAssumption
<1>3. ReadsHeader(b, cells, header)
  BY <1>1, UploadBytes, Zenon
<1>4. b \in Seq(Byte) /\ Len(b) = Len(cells)
  BY <1>3, Zenon DEF ReadsHeader
<1>5. ASSUME NEW i \in 1 .. h PROVE b[i] = header[i]
  BY <1>3, Zenon DEF ReadsHeader
<1>6. header[1] = 146 /\ header[2] = 203 /\ header[11] = 145 /\ IsBinHeader(header, 11, e + P)
  BY <1>1 DEF IsUploadHeader
<1> HIDE DEF b, h, e, P
<1>7. (h = 13 \/ h = 14) /\ LengthBytes(b[12]) = h - 12 /\ IsBlob(b[12]) /\ Announced(b, 12) = e + P
  <2>1. CASE h = 11 + 2 /\ header[11 + 1] = 196 /\ header[11 + 2] = e + P
    <3>1. h = 13 /\ header[12] = 196 /\ header[13] = e + P
      BY <2>1
    <3>2. 12 \in 1 .. h /\ 13 \in 1 .. h
      BY <3>1
    <3>3. b[12] = header[12] /\ b[13] = header[13]
      BY <1>5, <3>2, Zenon
    <3> QED BY <3>1, <3>3, SMT DEF LengthBytes, IsBlob, Announced, BigEndian, FixStr
  <2>2. CASE h = 11 + 3 /\ header[11 + 1] = 197 /\ 256 * header[11 + 2] + header[11 + 3] = e + P
    <3>1. h = 14 /\ header[12] = 197 /\ 256 * header[13] + header[14] = e + P
      BY <2>2
    <3>2. 12 \in 1 .. h /\ 13 \in 1 .. h /\ 14 \in 1 .. h
      BY <3>1
    <3>3. b[12] = header[12] /\ b[13] = header[13] /\ b[14] = header[14]
      BY <1>5, <3>2, Zenon
    <3> QED BY <3>1, <3>3, SMT DEF LengthBytes, IsBlob, Announced, BigEndian, FixStr
  <2> QED BY <1>6, <2>1, <2>2 DEF IsBinHeader, h
<1>8. b[1] = 146 /\ b[2] = 203 /\ b[11] = 145
  <2>1. 1 \in 1 .. h /\ 2 \in 1 .. h /\ 11 \in 1 .. h
    BY <1>7
  <2>2. b[1] = header[1] /\ b[2] = header[2] /\ b[11] = header[11]
    BY <1>5, <2>1, Zenon
  <2> QED BY <1>6, <2>2
<1>9. ReadBin(b, 12) = Len(b) + 1
  <2> DEFINE w == LengthBytes(b[12])
             a == Announced(b, 12)
             l == Len(b)
  <2>1. ReadBin(b, 12) = IF 12 > l THEN Malformed
                         ELSE IF ~IsBlob(b[12]) \/ 12 + (1 + w) > l + 1 THEN Malformed
                         ELSE IF 12 + (1 + w) + a <= l + 1 THEN 12 + (1 + w) + a ELSE Malformed
    BY DEF ReadBin
  <2>2. w = h - 12 /\ a = e + P /\ l = h + e + P /\ IsBlob(b[12])
    BY <1>2, <1>4, <1>7
  <2>3. h \in {13, 14} /\ e \in Nat /\ P \in Nat
    BY <1>2, <1>7
  <2> HIDE DEF w, a, l
  <2>4. ~ (12 > l) /\ ~ (12 + (1 + w) > l + 1) /\ 12 + (1 + w) + a = l + 1
    BY <2>2, <2>3
  <2>5. l + 1 <= l + 1
    BY <2>2, <2>3
  <2>6. ReadBin(b, 12) = l + 1
    BY <2>1, <2>2, <2>4, <2>5
  <2> QED BY <2>6 DEF l
<1>10. SkipValueAt(b, 1, 0) = Len(b) + 1
  <2>1. Len(b) >= 12
    <3>1. h \in {13, 14} /\ e \in Nat /\ P \in Nat /\ Len(b) = h + e + P
      BY <1>2, <1>4, <1>7
    <3> QED BY <3>1
  <2> QED BY <1>4, <1>7, <1>8, <1>9, <2>1, UploadIsRead, UploadAssumption
<1>11. SubSeq(b, 1, 2) = <<146, 203>>
  <2>1. SubSeq(b, 1, 2) = [i \in 1 .. 2 |-> b[i]]
    BY <1>2, <1>4, <1>7
  <2>2. [i \in 1 .. 2 |-> b[i]] = <<b[1], b[2]>>
    OBVIOUS
  <2> QED BY <1>8, <2>1, <2>2, Zenon
<1>12. Entry(cells) = SubSeq(cells, 13 + LengthBytes(b[12]), Len(cells) - P)
  BY <1>8, <1>9, <1>10, <1>11 DEF Entry, b, P
<1>13. 13 + LengthBytes(b[12]) = h + 1 /\ Len(cells) - P = h + e
  BY <1>2, <1>7
<1>14. SubSeq(cells, h + 1, h + e) = entry
  <2>1. \A i \in 1 .. e : cells[h + i] = entry[i]
    BY DEF IsUpload, h, e
  <2>2. SubSeq(cells, h + 1, h + e) = [i \in 1 .. e |-> cells[h + i]]
    BY <1>1, <1>2 DEF Listed
  <2>3. entry = [i \in 1 .. e |-> entry[i]]
    BY <1>1 DEF Listed, e
  <2> QED BY <2>1, <2>2, <2>3
<1> QED BY <1>12, <1>13, <1>14

LEMMA CellsOfBytes ==
  ASSUME NEW bytes \in Seq(Byte)
  PROVE  /\ Listed(Cells(bytes)) /\ Len(Cells(bytes)) = Len(bytes)
         /\ \A i \in 1 .. Len(bytes) : Cells(bytes)[i] = <<"byte", bytes[i]>>
<1> HIDE DEF Byte
<1> DEFINE c == Cells(bytes)
           S == {c[i] : i \in 1 .. Len(bytes)}
<1>1. Len(bytes) \in Nat /\ DOMAIN bytes = 1 .. Len(bytes)
  OBVIOUS
<1>2. c = [i \in 1 .. Len(bytes) |-> <<"byte", bytes[i]>>]
  BY <1>1 DEF Cells
<1>3. c \in [1 .. Len(bytes) -> S]
  BY <1>2
<1> HIDE DEF c, S
<1>4. Listed(c) /\ Len(c) = Len(bytes)
  BY <1>1, <1>3, FunctionIsListed
<1> QED BY <1>2, <1>4 DEF c

LEMMA WrappedCells ==
  ASSUME NEW buf, Listed(buf), NEW n \in Nat, n <= Len(buf), IsEntry(SubSeq(buf, 1, n)),
         NEW header, IsUploadHeader(header, n + PnStampLength),
         Len(header) + n + PnStampLength <= Len(buf)
  PROVE  LET wrapped == Wrapped(buf, n, Cells(header), PnStamp)
             total   == Len(header) + n + PnStampLength
         IN  /\ Listed(wrapped) /\ Len(wrapped) = Len(buf)
             /\ IsUpload(SubSeq(wrapped, 1, total), n + PnStampLength, header, SubSeq(buf, 1, n))
<1> DEFINE c       == Cells(header)
           h       == Len(header)
           P       == PnStampLength
           p       == PnStamp
           N       == Len(buf)
           total   == h + n + P
           wrapped == Wrapped(buf, n, c, p)
           cells   == SubSeq(wrapped, 1, total)
           entry   == SubSeq(buf, 1, n)
<1>1. header \in Seq(Byte) /\ h \in Nat /\ N \in Nat /\ DOMAIN buf = 1 .. N /\ P \in Nat
  BY ListedFacts DEF IsUploadHeader
<1>2. Listed(c) /\ Len(c) = h /\ \A i \in 1 .. h : c[i] = <<"byte", header[i]>>
  BY <1>1, CellsOfBytes
<1>3. Listed(p) /\ Len(p) = P /\ \A i \in 1 .. P : p[i] = <<"pn", i, "stamp">>
  BY <1>1, OpaqueIsListed DEF PnStamp
<1>4. /\ Listed(entry) /\ Len(entry) = n /\ \A i \in 1 .. n : entry[i] = buf[i]
      /\ \A i \in 1 .. n : entry[i][1] # "byte"
  <2>1. Len(entry) = n /\ \A i \in 1 .. n : entry[i] = buf[i]
    BY <1>1 DEF Listed
  <2> QED BY <2>1 DEF IsEntry
<1> HIDE DEF c, h, P, p, N, entry
<1>5. /\ DOMAIN wrapped = 1 .. N
      /\ \A i \in 1 .. h : wrapped[i] = c[i]
      /\ \A i \in 1 .. n : wrapped[h + i] = buf[i]
      /\ \A i \in 1 .. P : wrapped[h + n + i] = p[i]
  <2> DEFINE S == {c[i] : i \in DOMAIN c} \cup {p[i] : i \in DOMAIN p}
  <2>1. c \in Seq({c[i] : i \in DOMAIN c}) /\ p \in Seq({p[i] : i \in DOMAIN p})
    BY <1>2, <1>3 DEF Listed
  <2>2. c \in Seq(S) /\ p \in Seq(S)
    <3> DEFINE C == {c[i] : i \in DOMAIN c}
               Q == {p[i] : i \in DOMAIN p}
    <3>1. c \in Seq(C) /\ p \in Seq(Q) /\ C \subseteq S /\ Q \subseteq S
      BY <2>1, Zenon
    <3> HIDE DEF C, Q, S
    <3> QED BY <3>1, WiderSeq
  <2> HIDE DEF S
  <2>3. Len(c) + n + Len(p) <= N
    BY <1>2, <1>3 DEF h, P, N
  <2> HIDE DEF wrapped
  <2>4. HoldsUpload(Wrapped(buf, n, c, p), N, buf, n, c, p)
    BY <1>1, <2>2, <2>3, WrapKeepsEntry
  <2>5. HoldsUpload(wrapped, N, buf, n, c, p)
    BY <2>4 DEF wrapped
  <2> QED BY <1>2, <1>3, <2>5 DEF HoldsUpload
<1>6. Listed(wrapped) /\ Len(wrapped) = N
  <2> DEFINE moved   == CopyWithin(buf, 1, n, Len(c) + 1)
             stamped == Put(moved, Len(c) + n + 1, p)
  <2>1. Len(c) \in Nat
    BY <1>2, ListedFacts, Zenon
  <2>2. Len(c) + 1 \in Nat \ {0} /\ Len(c) + n + 1 \in Nat \ {0} /\ 1 \in Nat \ {0}
    BY <2>1
  <2>3. Listed(moved) /\ Len(moved) = N
    <3>1. OfSize(moved, Len(buf))
      BY <2>2, CopyKeeps, Zenon DEF Recopied
    <3> QED BY <3>1 DEF N, OfSize
  <2> HIDE DEF moved
  <2>4. Listed(stamped) /\ Len(stamped) = N
    <3>1. Rewritten(stamped, moved, Len(c) + n + 1, p)
      BY <1>3, <2>2, <2>3, PutKeeps, Zenon
    <3> QED BY <2>3, <3>1 DEF Rewritten, OfSize
  <2>5. wrapped = Put(stamped, 1, c)
    BY DEF Wrapped, moved
  <2> HIDE DEF stamped, wrapped
  <2>6. Rewritten(Put(stamped, 1, c), stamped, 1, c)
    BY <1>2, <2>2, <2>4, PutKeeps, Zenon
  <2>7. OfSize(Put(stamped, 1, c), N)
    BY <2>4, <2>6 DEF Rewritten
  <2> QED BY <2>5, <2>7 DEF OfSize
<1> HIDE DEF wrapped
<1>7. total \in Nat /\ total <= N
  BY <1>1 DEF h, P, N
<1>8. Listed(cells) /\ Len(cells) = total /\ \A i \in 1 .. total : cells[i] = wrapped[i]
  <2>1. total \in 0 .. Len(wrapped)
    BY <1>6, <1>7
  <2> HIDE DEF total
  <2>2. IsPrefixOf(cells, wrapped, total)
    BY <1>6, <2>1, PrefixIsListed
  <2> HIDE DEF cells
  <2> QED BY <2>2 DEF IsPrefixOf
<1> HIDE DEF cells
<1>9. \A i \in 1 .. h : cells[i] = <<"byte", header[i]>>
  <2> SUFFICES ASSUME NEW i \in 1 .. h PROVE cells[i] = <<"byte", header[i]>>
    OBVIOUS
  <2>1. i \in 1 .. total
    BY <1>1
  <2>2. cells[i] = wrapped[i] /\ wrapped[i] = c[i]
    BY <1>5, <1>8, <2>1, Zenon
  <2> QED BY <1>2, <2>2, Zenon
<1>10. \A i \in 1 .. n : cells[h + i] = entry[i]
  <2> SUFFICES ASSUME NEW i \in 1 .. n PROVE cells[h + i] = entry[i]
    OBVIOUS
  <2>1. h + i \in 1 .. total
    BY <1>1
  <2> QED BY <1>4, <1>5, <1>8, <2>1
<1>11. ASSUME NEW i \in h + 1 .. total PROVE cells[i][1] # "byte"
  <2>1. CASE i <= h + n
    <3>1. i - h \in 1 .. n /\ h + (i - h) = i
      BY <1>1, <2>1
    <3> QED BY <1>4, <1>10, <3>1
  <2>2. CASE ~ (i <= h + n)
    <3>1. i - (h + n) \in 1 .. P /\ h + n + (i - (h + n)) = i /\ i \in 1 .. total
      BY <1>1, <2>2
    <3>2. cells[i] = <<"pn", i - (h + n), "stamp">>
      BY <1>3, <1>5, <1>8, <3>1
    <3> QED BY <3>2
  <2> QED BY <2>1, <2>2
<1>12. IsUpload(cells, n + P, header, entry)
  <2>1. Len(cells) = Len(header) + Len(entry) + PnStampLength
    BY <1>4, <1>8 DEF h, P
  <2> QED BY <1>4, <1>8, <1>9, <1>10, <1>11, <2>1 DEF IsUpload, h, P
<1> QED BY <1>6, <1>12 DEF cells, entry, wrapped, c, p, P, h, N

LEMMA PrefixInside ==
  ASSUME NEW h \in {13, 14}, NEW k \in Nat, k >= 14, NEW n \in Nat, n > k, NEW m \in Nat
  PROVE  k + 1 \in h + 1 .. h + n + m /\ k + 1 \in 1 .. h + n + m
  OBVIOUS

LEMMA WrapLeaves ==
  ASSUME NEW buf, Listed(buf), NEW n \in Nat, n <= Len(buf) => IsEntry(SubSeq(buf, 1, n))
  PROVE  LET call == WrapUpload(buf, n, PnStamp)
         IN  /\ call.error # "ok" => Same(call, buf) /\ call.len = n
             /\ call.error = "ok" =>
                  /\ Sized(call, buf) /\ n <= Len(buf)
                  /\ call.buffer[PackedPrefix + 1][1] # "byte"
                  /\ Entry(SubSeq(call.buffer, 1, call.len)) = SubSeq(buf, 1, n)
<1> DEFINE call    == WrapUpload(buf, n, PnStamp)
           m       == n + PnStampLength
           header  == UploadHeader(m)
           wrapped == Wrapped(buf, n, Cells(header), PnStamp)
           short   == n < HashLength + FixedOverhead + Block \/ n > Len(buf)
           long    == m > 65535
           over    == m + Len(header) > Len(buf)
<1>1. call = IF short THEN Failed("MalformedPayload", buf, n)
             ELSE IF long THEN Failed("TooLong", buf, n)
             ELSE IF over THEN Failed("OutputTooSmall", buf, n)
             ELSE Ok(wrapped, m + Len(header))
  BY SMT DEF WrapUpload
<1> HIDE DEF call
<1>2. CASE short \/ long \/ over
  <2> HIDE DEF short, long, over, wrapped, header, m
  <2>1. /\ Failed("MalformedPayload", buf, n) = [error |-> "MalformedPayload", buffer |-> buf, len |-> n]
        /\ Failed("TooLong", buf, n) = [error |-> "TooLong", buffer |-> buf, len |-> n]
        /\ Failed("OutputTooSmall", buf, n) = [error |-> "OutputTooSmall", buffer |-> buf, len |-> n]
    BY DEF Failed
  <2> QED BY <1>1, <1>2, <2>1 DEF Same, call
<1>3. CASE ~ (short \/ long \/ over)
  <2>1. call = Ok(wrapped, m + Len(header))
    BY <1>1, <1>3
  <2>2. /\ n <= Len(buf) /\ m \in Nat /\ m \in Bin16 /\ ~over
        /\ Len(buf) \in Nat /\ PnStampLength \in Nat
    <3>1. Len(buf) \in Nat /\ PnStampLength \in Nat /\ m \in Nat
      BY ListedFacts
    <3>2. ~ (n > Len(buf)) /\ ~ (m > 65535) /\ ~over
      BY <1>3
    <3> HIDE DEF m, over
    <3>3. m \in Bin16 /\ n <= Len(buf)
      BY <3>1, <3>2 DEF Bin16
    <3> QED BY <3>1, <3>2, <3>3
  <2> HIDE DEF short, long, m
  <2>3. IsUploadHeader(header, m)
    BY <2>2, UploadHeaderBytes
  <2> HIDE DEF header
  <2>4. Len(header) \in Nat /\ Len(header) \in {13, 14}
    BY <2>3 DEF IsUploadHeader, IsBinHeader
  <2>5. Len(header) + n + PnStampLength <= Len(buf) /\ m + Len(header) = Len(header) + n + PnStampLength
    BY <2>2, <2>4 DEF m
  <2> DEFINE entry == SubSeq(buf, 1, n)
             total == Len(header) + n + PnStampLength
             cells == SubSeq(wrapped, 1, total)
  <2>6. /\ Listed(wrapped) /\ Len(wrapped) = Len(buf)
        /\ IsUpload(cells, m, header, entry)
    BY <2>2, <2>3, <2>5, WrappedCells DEF m
  <2>7. IsEntry(entry)
    BY <2>2
  <2> HIDE DEF wrapped, entry
  <2>8. Entry(cells) = entry
    <3>1. Len(entry) = n
      BY <2>2, ListedFacts DEF entry, Listed
    <3> QED BY <2>6, <2>7, <3>1, EntryUnwrapped DEF m
  <2>9. total \in 0 .. Len(buf)
    BY <2>2, <2>4, <2>5
  <2>10. wrapped[PackedPrefix + 1][1] # "byte"
    <3> DEFINE first == PackedPrefix + 1
               after == Len(header) + 1
    <3>1. Len(entry) = n /\ n > PackedPrefix /\ PackedPrefix \in Nat /\ PackedPrefix >= 14
      <4>1. IsPrefixOf(entry, buf, n)
        BY <2>2, PrefixIsListed DEF entry
      <4>2. Len(entry) = n
        BY <4>1 DEF IsPrefixOf
      <4>3. Len(entry) > PackedPrefix
        BY <2>7 DEF IsEntry
      <4>4. PackedPrefix \in Nat
        BY DEF PackedPrefix
      <4> QED BY <4>2, <4>3, <4>4, UploadAssumption
    <3>2. /\ PackedPrefix + 1 \in Len(header) + 1 .. Len(header) + n + PnStampLength
          /\ PackedPrefix + 1 \in 1 .. Len(header) + n + PnStampLength
      BY <2>2, <2>4, <3>1, PrefixInside
    <3>3. after = Len(header) + 1
      OBVIOUS
    <3> HIDE DEF first, after, total
    <3>4. first \in after .. total /\ first \in 1 .. total
      BY <3>2 DEF first, after, total
    <3>5. IsPrefixOf(cells, wrapped, total)
      BY <2>6, <2>9, PrefixIsListed
    <3> HIDE DEF cells
    <3>6. Len(cells) = total /\ cells[first] = wrapped[first]
      BY <3>4, <3>5 DEF IsPrefixOf
    <3>7. wrapped[first][1] # "byte"
      BY <2>6, <3>3, <3>4, <3>6 DEF IsUpload
    <3> QED BY <3>7 DEF first
  <2>11. call.error = "ok" /\ call.buffer = wrapped /\ call.len = total
    BY <2>1, <2>5 DEF Ok
  <2> HIDE DEF total
  <2> QED BY <2>2, <2>6, <2>8, <2>9, <2>10, <2>11 DEF Sized, call, cells, entry
<1> QED BY <1>2, <1>3

-----------------------------------------------------------------------------
(* What is packed is a string of numbers, of some length.                  *)
Ascends(p, id, k) == \A a, b \in 1 .. k : a < b => id[p[a]] < id[p[b]]

LEMMA LessThrough ==
  ASSUME NEW m \in Nat, NEW x \in Nat, NEW n \in Nat, m < x, n > x
  PROVE  m < n
  OBVIOUS

(* Distinct ids can be put in order.                                       *)
LEMMA OrderExtends ==
  ASSUME NEW n \in Nat, NEW id \in [1 .. n -> Nat], \A a, b \in 1 .. n : a # b => id[a] # id[b],
         NEW k \in Nat, k + 1 <= n, NEW q \in [1 .. k -> 1 .. k], Ascends(q, id, k)
  PROVE  \E p \in [1 .. k + 1 -> 1 .. k + 1] : Ascends(p, id, k + 1)
<1> DEFINE x    == id[k + 1]
           v(i) == id[q[i]]
           J    == {i \in 1 .. k : v(i) > x}
<1>1. ASSUME NEW i \in 1 .. k PROVE q[i] \in 1 .. k /\ q[i] \in 1 .. n /\ q[i] # k + 1
  OBVIOUS
<1>2. x \in Nat /\ \A i \in 1 .. k : v(i) \in Nat /\ v(i) # x
  <2>1. k + 1 \in 1 .. n
    OBVIOUS
  <2>2. x \in Nat
    BY <2>1
  <2>3. ASSUME NEW i \in 1 .. k PROVE v(i) \in Nat /\ v(i) # x
    BY <1>1, <2>1, <2>3, Zenon
  <2> QED BY <2>2, <2>3
<1>3. \A a, b \in 1 .. k : a < b => v(a) < v(b)
  BY DEF Ascends
<1> HIDE DEF x, v
<1>4. \E j \in 1 .. k + 1 : /\ \A i \in 1 .. k : i < j => v(i) < x
                            /\ \A i \in 1 .. k : j <= i => v(i) > x
  <2>1. CASE J = {}
    <3>1. ASSUME NEW i \in 1 .. k PROVE v(i) < x
      <4>1. ~ (v(i) > x)
        BY <2>1
      <4>2. v(i) \in Nat /\ v(i) # x /\ x \in Nat
        BY <1>2
      <4> QED BY <4>1, <4>2
    <3>2. k + 1 \in 1 .. k + 1 /\ \A i \in 1 .. k : ~ (k + 1 <= i)
      OBVIOUS
    <3> QED BY <3>1, <3>2
  <2>2. CASE J # {}
    <3>1. J \subseteq Nat
      OBVIOUS
    <3>2. PICK j \in J : \A i \in J : j <= i
      BY <2>2, <3>1, LeastOf
    <3>3. j \in 1 .. k /\ j \in 1 .. k + 1 /\ v(j) > x
      BY <3>2
    <3>4. ASSUME NEW i \in 1 .. k, i < j PROVE v(i) < x
      <4>1. ~ (v(i) > x)
        BY <3>2, <3>3, <3>4
      <4>2. v(i) \in Nat /\ v(i) # x /\ x \in Nat
        BY <1>2
      <4> QED BY <4>1, <4>2
    <3>5. ASSUME NEW i \in 1 .. k, j <= i PROVE v(i) > x
      <4>1. CASE i = j
        BY <3>3, <4>1
      <4>2. CASE i # j
        <5>1. v(j) < v(i)
          BY <1>3, <3>3, <3>5, <4>2
        <5>2. v(j) \in Nat /\ v(i) \in Nat
          BY <1>2, <3>3
        <5> QED BY <1>2, <3>3, <5>1, <5>2
      <4> QED BY <4>1, <4>2
    <3> HIDE DEF J
    <3>6. \A i \in 1 .. k : (i < j => v(i) < x) /\ (j <= i => v(i) > x)
      BY <3>4, <3>5
    <3> QED BY <3>3, <3>6, Zenon
  <2> QED BY <2>1, <2>2
<1>5. PICK j \in 1 .. k + 1 : /\ \A i \in 1 .. k : i < j => v(i) < x
                              /\ \A i \in 1 .. k : j <= i => v(i) > x
  BY <1>4
<1> DEFINE p == [i \in 1 .. k + 1 |-> IF i < j THEN q[i] ELSE IF i = j THEN k + 1 ELSE q[i - 1]]
<1>6. p \in [1 .. k + 1 -> 1 .. k + 1]
  <2> SUFFICES ASSUME NEW i \in 1 .. k + 1
               PROVE  (IF i < j THEN q[i] ELSE IF i = j THEN k + 1 ELSE q[i - 1]) \in 1 .. k + 1
    OBVIOUS
  <2>1. CASE i < j
    <3>1. i \in 1 .. k
      BY <2>1
    <3>2. q[i] \in 1 .. k
      BY <1>1, <3>1
    <3> QED BY <2>1, <3>2
  <2>2. CASE i = j
    BY <2>2
  <2>3. CASE i > j
    <3>1. i - 1 \in 1 .. k /\ ~ (i < j) /\ i # j
      BY <2>3
    <3>2. q[i - 1] \in 1 .. k
      BY <1>1, <3>1
    <3> QED BY <3>1, <3>2
  <2> QED BY <2>1, <2>2, <2>3
<1> DEFINE w(i) == id[p[i]]
<1>7. \A i \in 1 .. k + 1 : /\ i < j => i \in 1 .. k /\ w(i) = v(i)
                            /\ i = j => w(i) = x
                            /\ i > j => i - 1 \in 1 .. k /\ j <= i - 1 /\ w(i) = v(i - 1)
  <2> SUFFICES ASSUME NEW i \in 1 .. k + 1
               PROVE  /\ i < j => i \in 1 .. k /\ w(i) = v(i)
                      /\ i = j => w(i) = x
                      /\ i > j => i - 1 \in 1 .. k /\ j <= i - 1 /\ w(i) = v(i - 1)
    OBVIOUS
  <2>1. CASE i < j
    BY <2>1 DEF v
  <2>2. CASE i = j
    BY <2>2 DEF x
  <2>3. CASE i > j
    BY <2>3 DEF v
  <2> QED BY <2>1, <2>2, <2>3
<1> HIDE DEF p, w
<1>8. ASSUME NEW a \in 1 .. k + 1, NEW b \in 1 .. k + 1, a < b
      PROVE  w(a) < w(b)
  <2>1. CASE b < j
    <3>1. a \in 1 .. k /\ b \in 1 .. k /\ w(a) = v(a) /\ w(b) = v(b)
      BY <1>7, <1>8, <2>1
    <3> QED BY <1>8, <1>3, <3>1
  <2>2. CASE b = j
    <3>1. a < j /\ a \in 1 .. k /\ w(a) = v(a) /\ w(b) = x
      BY <1>7, <1>8, <2>2
    <3> QED BY <1>5, <3>1
  <2>3. CASE b > j
    <3>1. b - 1 \in 1 .. k /\ w(b) = v(b - 1) /\ v(b - 1) > x
      BY <1>5, <1>7, <2>3
    <3>2. CASE a < j
      <4>1. a \in 1 .. k /\ w(a) = v(a) /\ v(a) < x
        BY <1>5, <1>7, <3>2
      <4>2. v(a) \in Nat /\ v(b - 1) \in Nat /\ x \in Nat
        BY <1>2, <3>1, <4>1
      <4>3. v(a) < v(b - 1)
        BY <3>1, <4>1, <4>2, LessThrough, Zenon
      <4> QED BY <3>1, <4>1, <4>3, Zenon
    <3>3. CASE a = j
      <4>1. w(a) = x
        BY <1>7, <3>3
      <4> QED BY <1>2, <3>1, <4>1
    <3>4. CASE a > j
      <4>1. a - 1 \in 1 .. k /\ w(a) = v(a - 1) /\ a - 1 < b - 1
        BY <1>7, <1>8, <3>4
      <4> QED BY <1>3, <3>1, <4>1
    <3> QED BY <3>2, <3>3, <3>4
  <2> QED BY <2>1, <2>2, <2>3
<1>9. Ascends(p, id, k + 1)
  BY <1>8 DEF Ascends, w
<1>10. p \in [1 .. k + 1 -> 1 .. k + 1] /\ Ascends(p, id, k + 1)
  BY <1>6, <1>9, Zenon
<1> QED BY <1>10, Zenon

(* The ids of the first k are in order.                                    *)
Orders(id, k) == \E p \in [1 .. k -> 1 .. k] : Ascends(p, id, k)

LEMMA OrderExists ==
  ASSUME NEW n \in Nat, NEW id \in [1 .. n -> Nat], \A a, b \in 1 .. n : a # b => id[a] # id[b]
  PROVE  Orders(id, n)
<1> DEFINE T == {k \in Nat : k <= n => Orders(id, k)}
<1>1. 0 \in T
  <2>1. [i \in 1 .. 0 |-> i] \in [1 .. 0 -> 1 .. 0] /\ Ascends([i \in 1 .. 0 |-> i], id, 0)
    BY DEF Ascends
  <2>2. Orders(id, 0)
    BY <2>1, Zenon DEF Orders
  <2> QED BY <2>2
<1>2. ASSUME NEW k \in Nat, k \in T PROVE k + 1 \in T
  <2>1. ASSUME k + 1 <= n PROVE Orders(id, k + 1)
    <3>1. Orders(id, k)
      BY <1>2, <2>1
    <3>2. PICK q \in [1 .. k -> 1 .. k] : Ascends(q, id, k)
      BY <3>1, Zenon DEF Orders
    <3>3. \E p \in [1 .. k + 1 -> 1 .. k + 1] : Ascends(p, id, k + 1)
      BY <2>1, <3>2, OrderExtends
    <3> QED BY <3>3, Zenon DEF Orders
  <2> QED BY <2>1
<1> HIDE DEF T
<1>3. n \in T
  BY <1>1, <1>2, SetInduction
<1> QED BY <1>3 DEF T

(* Numbers put end to end.                                                 *)
LEMMA JoinNumbers ==
  ASSUME NEW a \in Seq(Nat), NEW b \in Seq(Nat)
  PROVE  a \o b \in Seq(Nat)
  BY ConcatProperties

(* Strings of numbers put end to end, and their lengths.                   *)
LEMMA NumbersJoined ==
  ASSUME NEW a \in Seq(Nat), NEW b \in Seq(Nat)
  PROVE  a \o b \in Seq(Nat) /\ Len(a \o b) = Len(a) + Len(b) /\ Len(a) \in Nat /\ Len(b) \in Nat
  BY ConcatProperties

LEMMA BytesAreNumbers ==
  ASSUME NEW s \in Seq(Byte)
  PROVE  s \in Seq(Nat)
<1>1. Byte \subseteq Nat
  BY SMT DEF Byte
<1> HIDE DEF Byte
<1>2. Len(s) \in Nat /\ s = [i \in 1 .. Len(s) |-> s[i]] /\ \A i \in 1 .. Len(s) : s[i] \in Byte
  OBVIOUS
<1>3. s \in [1 .. Len(s) -> Nat]
  BY <1>1, <1>2
<1> QED BY <1>2, <1>3

LEMMA HeaderIsNumbers ==
  ASSUME NEW n \in Nat
  PROVE  BinHeader(n) \in Seq(Nat)
<1>1. /\ 196 \in Nat /\ 197 \in Nat /\ 198 \in Nat
      /\ n \div 256 \in Nat /\ n % 256 \in Nat /\ n \div 16777216 \in Nat
      /\ n \div 65536 % 256 \in Nat /\ n \div 256 % 256 \in Nat
  BY SMT
<1> DEFINE a == n \div 256
           b == n % 256
           c == n \div 16777216
           d == n \div 65536 % 256
           e == n \div 256 % 256
<1>2. BinHeader(n) \in {<<196, n>>, <<197, a, b>>, <<198, c, d, e, b>>}
  <2>1. CASE n <= 255
    <3>1. BinHeader(n) = <<196, n>>
      BY <2>1, SMT DEF BinHeader
    <3> HIDE DEF a, b, c, d, e
    <3> QED BY <3>1
  <2>2. CASE ~ (n <= 255) /\ n <= 65535
    <3>1. BinHeader(n) = <<197, a, b>>
      BY <2>2, SMT DEF BinHeader
    <3> HIDE DEF a, b, c, d, e
    <3> QED BY <3>1
  <2>3. CASE ~ (n <= 255) /\ ~ (n <= 65535)
    <3>1. BinHeader(n) = <<198, c, d, e, b>>
      BY <2>3, SMT DEF BinHeader
    <3> HIDE DEF a, b, c, d, e
    <3> QED BY <3>1
  <2> QED BY <2>1, <2>2, <2>3
<1> HIDE DEF a, b, c, d, e
<1>3. a \in Nat /\ b \in Nat /\ c \in Nat /\ d \in Nat /\ e \in Nat
  BY <1>1 DEF a, b, c, d, e
<1>4. <<196, n>> \in Seq(Nat) /\ <<197, a, b>> \in Seq(Nat) /\ <<198, c, d, e, b>> \in Seq(Nat)
  BY <1>3, SMT
<1> QED BY <1>2, <1>4

LEMMA BinIsNumbers ==
  ASSUME NEW bytes \in Seq(Byte)
  PROVE  Bin(bytes) \in Seq(Nat)
<1>1. PICK n : n = Len(bytes)
  OBVIOUS
<1>2. BinHeader(n) \in Seq(Nat)
  BY <1>1, HeaderIsNumbers
<1>3. bytes \in Seq(Nat)
  BY BytesAreNumbers
<1> QED BY <1>1, <1>2, <1>3, JoinNumbers DEF Bin

LEMMA BinIsLonger ==
  ASSUME NEW bytes \in Seq(Byte)
  PROVE  Len(Bin(bytes)) \in Nat /\ Len(bytes) \in Nat /\ Len(bytes) <= Len(Bin(bytes))
<1>1. Bin(bytes) \in Seq(Nat) /\ bytes \in Seq(Nat)
  BY BinIsNumbers, BytesAreNumbers
<1>2. PICK h : h = BinHeader(Len(bytes))
  OBVIOUS
<1>3. PICK n \in Nat : n = Len(bytes)
  BY <1>1
<1>4. h \in Seq(Nat)
  BY <1>2, <1>3, HeaderIsNumbers
<1>5. Listed(h)
  BY <1>4, SeqIsListed
<1>6. Listed(bytes)
  <2> HIDE DEF Byte
  <2> QED BY SeqIsListed
<1>7. Bin(bytes) = h \o bytes
  BY <1>2 DEF Bin
<1>8. Len(h \o bytes) = Len(h) + Len(bytes) /\ Len(h) \in Nat
  BY <1>5, <1>6, JoinIsListed, ListedFacts
<1>9. PICK k : k = Len(h)
  OBVIOUS
<1>10. PICK l : l = Len(Bin(bytes))
  OBVIOUS
<1>11. l = k + n /\ k \in Nat
  BY <1>3, <1>7, <1>8, <1>9, <1>10
<1> QED BY <1>3, <1>10, <1>11

LEMMA IdIsNumbers ==
  ASSUME NEW id \in Byte
  PROVE  FieldId8(id) \in Seq(Nat)
<1>1. id \in Nat /\ 204 \in Nat
  BY SMT DEF Byte
<1>2. <<id>> \in Seq(Nat) /\ <<204, id>> \in Seq(Nat)
  BY <1>1, SMT
<1>3. FieldId8(id) = <<id>> \/ FieldId8(id) = <<204, id>>
  BY SMT DEF FieldId8
<1> QED BY <1>2, <1>3

(* Fields whose ids are distinct, as encoded_field_set demands, can be     *)
(* packed: the writer finds an order for them.                             *)
LEMMA FieldsArePacked ==
  ASSUME NEW fields \in Seq(Byte \X Seq(Byte)), FieldSetError(fields) = "ok"
  PROVE  FieldsElement(fields) \in Seq(Nat)
<1> DEFINE n        == Len(fields)
           repeated == {i \in DOMAIN fields : \E j \in 1 .. i - 1 : fields[j][1] = fields[i][1]}
           broken   == {i \in DOMAIN fields :
                          SkipValueAt(fields[i][2], 1, 1) # Len(fields[i][2]) + 1}
           id       == [i \in 1 .. n |-> fields[i][1]]
<1>1. n \in Nat /\ DOMAIN fields = 1 .. n /\ \A i \in 1 .. n : fields[i] \in Byte \X Seq(Byte)
  OBVIOUS
<1>2. \A i \in 1 .. n : fields[i][1] \in Byte /\ fields[i][2] \in Seq(Byte)
  <2> HIDE DEF Byte
  <2> QED BY <1>1
<1>3. \A a, b \in 1 .. n : a < b => fields[a][1] # fields[b][1]
  <2>1. repeated \cup broken = {}
    <3>1. FieldSetError(fields) = IF Len(fields) > MaxFields THEN "TooManyFields"
                                  ELSE IF repeated \cup broken = {} THEN "ok"
                                  ELSE IF Min(repeated \cup broken) \in repeated THEN "DuplicateField"
                                  ELSE "MalformedPayload"
      BY DEF FieldSetError
    <3> HIDE DEF repeated, broken
    <3> QED BY <3>1
  <2> SUFFICES ASSUME NEW a \in 1 .. n, NEW b \in 1 .. n, a < b, fields[a][1] = fields[b][1]
               PROVE  FALSE
    OBVIOUS
  <2>2. a \in 1 .. b - 1 /\ b \in DOMAIN fields
    BY <1>1
  <2>3. b \in repeated
    BY <2>2
  <2> QED BY <2>1, <2>3
<1>4. \E p \in [DOMAIN fields -> DOMAIN fields] :
        \A i, j \in DOMAIN fields : i < j => fields[p[i]][1] < fields[p[j]][1]
  <2>1. \A i \in 1 .. n : id[i] = fields[i][1]
    OBVIOUS
  <2>2. id \in [1 .. n -> Nat]
    <3>1. Byte \subseteq Nat
      BY SMT DEF Byte
    <3> HIDE DEF Byte
    <3> QED BY <1>2, <3>1
  <2> HIDE DEF id
  <2>3. ASSUME NEW a \in 1 .. n, NEW b \in 1 .. n, a # b PROVE id[a] # id[b]
    <3>1. a < b \/ b < a
      BY <2>3
    <3> QED BY <1>3, <2>1, <3>1
  <2>4. PICK p \in [1 .. n -> 1 .. n] : Ascends(p, id, n)
    <3>1. Orders(id, n)
      BY <1>1, <2>2, <2>3, OrderExists
    <3> QED BY <3>1, Zenon DEF Orders
  <2>5. \A i, j \in 1 .. n : i < j => fields[p[i]][1] < fields[p[j]][1]
    BY <2>1, <2>4 DEF Ascends
  <2> QED BY <1>1, <2>4, <2>5
<1> DEFINE order == CHOOSE p \in [DOMAIN fields -> DOMAIN fields] :
                      \A i, j \in DOMAIN fields : i < j => fields[p[i]][1] < fields[p[j]][1]
           sorted == Ascending(fields)
<1>5. order \in [1 .. n -> 1 .. n]
  BY <1>1, <1>4
<1>6. sorted = [i \in 1 .. n |-> fields[order[i]]]
  BY <1>1 DEF Ascending
<1> HIDE DEF order, sorted, n
<1>7. DOMAIN sorted = 1 .. n /\ \A i \in 1 .. n : sorted[i][1] \in Byte /\ sorted[i][2] \in Seq(Byte)
  <2> HIDE DEF Byte
  <2> QED BY <1>2, <1>5, <1>6
<1> DEFINE pieces == [i \in DOMAIN sorted |-> FieldId8(sorted[i][1]) \o sorted[i][2]]
           header == IF Len(fields) < 16 THEN <<128 + Len(fields)>> ELSE <<222, 0, Len(fields)>>
<1>8. pieces \in Seq(Seq(Nat))
  <2>1. ASSUME NEW i \in 1 .. n PROVE FieldId8(sorted[i][1]) \o sorted[i][2] \in Seq(Nat)
    BY <1>7, IdIsNumbers, BytesAreNumbers, JoinNumbers
  <2> DEFINE Strings8 == Seq(Nat)
  <2>2. pieces \in [1 .. n -> Strings8]
    BY <1>7, <2>1
  <2> HIDE DEF pieces, Strings8
  <2>3. pieces \in Seq(Strings8)
    BY <1>1, <2>2
  <2> QED BY <2>3 DEF Strings8
<1> HIDE DEF pieces
<1>9. FlattenSeq(pieces) \in Seq(Nat)
  <2>1. <<>> \in Seq(Nat)
    OBVIOUS
  <2> QED BY <1>8, <2>1, FlattenAppends
<1>10. header \in Seq(Nat)
  <2>1. 128 + Len(fields) \in Nat /\ 222 \in Nat /\ 0 \in Nat /\ Len(fields) \in Nat
    BY <1>1 DEF n
  <2> DEFINE k == 128 + Len(fields)
             m == Len(fields)
  <2> HIDE DEF k, m
  <2>2. <<k>> \in Seq(Nat) /\ <<222, 0, m>> \in Seq(Nat)
    BY <2>1, SMT DEF k, m
  <2> QED BY <2>2 DEF k, m
<1> HIDE DEF header
<1>11. FieldsElement(fields) = header \o FlattenSeq(pieces)
  BY DEF FieldsElement, header, pieces, sorted
<1> QED BY <1>9, <1>10, <1>11, JoinNumbers

(* The types of a message's parts.                                         *)
LEMMA MessageParts ==
  ASSUME NEW m \in Messages
  PROVE  /\ m.title \in Seq(Byte) /\ m.content \in Seq(Byte) /\ m.fields \in Seq(Byte \X Seq(Byte))
         /\ m.audio # <<>> => m.audio[1].mode \in Byte /\ m.audio[1].bytes \in Seq(Byte)
<1> HIDE DEF Byte
<1>1. /\ m.title \in Seq(Byte) /\ m.content \in Seq(Byte) /\ m.fields \in Seq(Byte \X Seq(Byte))
      /\ m.audio \in Seq([mode : Byte, bytes : Seq(Byte)])
  BY OutboxAssumption
<1>2. ASSUME m.audio # <<>> PROVE m.audio[1].mode \in Byte /\ m.audio[1].bytes \in Seq(Byte)
  <2> DEFINE all == m.audio
             S   == [mode : Byte, bytes : Seq(Byte)]
  <2>1. all \in Seq(S) /\ all # <<>>
    BY <1>1, <1>2
  <2> HIDE DEF all, S
  <2>2. all[1] \in S
    BY <2>1
  <2>3. m.audio[1] \in S
    BY <2>2 DEF all
  <2> QED BY <2>3 DEF S
<1> QED BY <1>1, <1>2

LEMMA AudioIsNumbers ==
  ASSUME NEW a, a.mode \in Byte, a.bytes \in Seq(Byte)
  PROVE  /\ AudioElement(a) \in Seq(Nat) /\ Len(AudioElement(a)) \in Nat /\ Len(a.bytes) \in Nat
         /\ Len(a.bytes) <= Len(AudioElement(a))
<1>1. PICK lead : lead = <<129, AudioId, 146>>
  OBVIOUS
<1>2. lead \in Seq(Nat)
  <2>1. 129 \in Nat /\ AudioId \in Nat /\ 146 \in Nat
    BY DEF AudioId
  <2> QED BY <1>1, <2>1, SMT
<1>3. PICK mode \in Byte : mode = a.mode
  BY Zenon
<1>4. PICK bytes \in Seq(Byte) : bytes = a.bytes
  BY Zenon
<1>5. PICK i \in Seq(Nat) : i = FieldId8(mode)
  BY IdIsNumbers
<1>6. PICK u \in Seq(Nat) : u = Bin(bytes)
  BY BinIsNumbers
<1>7. PICK k : k = Len(lead \o i)
  OBVIOUS
<1>8. lead \o i \in Seq(Nat) /\ k \in Nat
  BY <1>2, <1>7, NumbersJoined
<1>9. /\ (lead \o i) \o u \in Seq(Nat) /\ Len((lead \o i) \o u) = Len(lead \o i) + Len(u)
      /\ Len(u) \in Nat
  BY <1>8, NumbersJoined
<1>10. AudioElement(a) = (lead \o i) \o u
  BY <1>1, <1>3, <1>4, <1>5, <1>6, Zenon DEF AudioElement
<1>11. Len(u) \in Nat /\ Len(bytes) \in Nat /\ Len(bytes) <= Len(u)
  BY <1>6, BinIsLonger
<1>12. PICK n \in Nat : n = Len(u)
  BY <1>9
<1>13. PICK l \in Nat : l = Len(bytes)
  BY <1>11
<1>14. PICK whole : whole = Len(AudioElement(a))
  OBVIOUS
<1>15. whole = k + n /\ l <= n
  BY <1>7, <1>9, <1>10, <1>11, <1>12, <1>13, <1>14, Zenon
<1>16. whole \in Nat /\ l <= whole
  BY <1>8, <1>15
<1> QED BY <1>4, <1>9, <1>10, <1>13, <1>14, <1>16

LEMMA OuterIsNumbers ==
  ASSUME NEW m \in Messages, FieldSetError(m.fields) = "ok"
  PROVE  OuterFields(m) \in Seq(Nat)
<1>1. /\ m.fields \in Seq(Byte \X Seq(Byte))
      /\ m.audio # <<>> => m.audio[1].mode \in Byte /\ m.audio[1].bytes \in Seq(Byte)
  BY MessageParts
<1>2. CASE m.audio # <<>>
  <2>1. AudioElement(m.audio[1]) \in Seq(Nat)
    BY <1>1, <1>2, AudioIsNumbers
  <2> QED BY <1>2, <2>1 DEF OuterFields
<1>3. CASE m.audio = <<>>
  <2>1. FieldsElement(m.fields) \in Seq(Nat)
    BY <1>1, FieldsArePacked
  <2> QED BY <1>3, <2>1 DEF OuterFields
<1> QED BY <1>2, <1>3

LEMMA PayloadIsNumbers ==
  ASSUME NEW m \in Messages, FieldSetError(m.fields) = "ok"
  PROVE  /\ PackPayload(m) \in Seq(Nat)
         /\ Len(PackPayload(m)) =
              ((10 + Len(Bin(m.title))) + Len(Bin(m.content))) + Len(OuterFields(m))
<1>1. Bin(m.title) \in Seq(Nat) /\ Bin(m.content) \in Seq(Nat) /\ OuterFields(m) \in Seq(Nat)
  BY MessageParts, BinIsNumbers, OuterIsNumbers
<1>2. PICK lead : lead = <<148, 203>> \o Timestamp
  OBVIOUS
<1>3. lead \in Seq(Nat) /\ Len(lead) = 10
  <2>1. PICK marker : marker = <<148, 203>>
    OBVIOUS
  <2>2. marker \in Seq(Nat) /\ Len(marker) = 2 /\ Timestamp \in Seq(Nat) /\ Len(Timestamp) = 8
    BY <2>1, SMT DEF Timestamp
  <2>3. marker \o Timestamp \in Seq(Nat) /\ Len(marker \o Timestamp) = Len(marker) + Len(Timestamp)
    BY <2>2, NumbersJoined
  <2> QED BY <1>2, <2>1, <2>2, <2>3
<1>4. PICK t \in Seq(Nat) : t = Bin(m.title)
  BY <1>1
<1>5. PICK c \in Seq(Nat) : c = Bin(m.content)
  BY <1>1
<1>6. PICK f \in Seq(Nat) : f = OuterFields(m)
  BY <1>1
<1>7. PICK first : first = lead \o t
  OBVIOUS
<1>8. first \in Seq(Nat) /\ Len(first) = Len(lead) + Len(t)
  BY <1>3, <1>7, NumbersJoined
<1>9. PICK second : second = first \o c
  OBVIOUS
<1>10. second \in Seq(Nat) /\ Len(second) = Len(first) + Len(c)
  BY <1>8, <1>9, NumbersJoined
<1>11. PackPayload(m) = second \o f
  BY <1>2, <1>4, <1>5, <1>6, <1>7, <1>9, Zenon DEF PackPayload
<1>12. second \o f \in Seq(Nat) /\ Len(second \o f) = Len(second) + Len(f)
  BY <1>10, NumbersJoined
<1> QED BY <1>3, <1>4, <1>5, <1>6, <1>8, <1>10, <1>11, <1>12, Zenon

-----------------------------------------------------------------------------
(* What the builders leave, and decrypt_message at the other end.          *)
LEMMA SliceLength ==
  ASSUME NEW s, NEW a \in Nat, NEW k \in Nat
  PROVE  Len(SubSeq(s, a + 1, a + k)) = k
<1>1. SubSeq(s, a + 1, a + k) = [i \in 1 .. k |-> s[a + i]]
  OBVIOUS
<1> QED BY <1>1

LEMMA CellsOfNumbers ==
  ASSUME NEW bytes \in Seq(Nat)
  PROVE  Listed(Cells(bytes)) /\ Len(Cells(bytes)) = Len(bytes)
<1> DEFINE c == Cells(bytes)
           S == {c[i] : i \in 1 .. Len(bytes)}
<1>1. Len(bytes) \in Nat /\ DOMAIN bytes = 1 .. Len(bytes)
  OBVIOUS
<1>2. c = [i \in 1 .. Len(bytes) |-> <<"byte", bytes[i]>>]
  BY <1>1 DEF Cells
<1>3. c \in [1 .. Len(bytes) -> S]
  BY <1>2
<1> HIDE DEF c, S
<1>4. Listed(c) /\ Len(c) = Len(bytes)
  BY <1>1, <1>3, FunctionIsListed
<1> QED BY <1>4 DEF c

LEMMA HashIsListed ==
  ASSUME NEW who
  PROVE  Listed(DestHash(who)) /\ Len(DestHash(who)) = HashLength /\ HashLength \in Nat
  BY OpaqueIsListed DEF DestHash

LEMMA BuildLeaves ==
  ASSUME NEW buf, Listed(buf), NEW m \in Messages
  PROVE  LET call == BuildLink(buf, m, "recipient")
         IN  /\ call.error # "ok" => Same(call, buf) /\ call.len = 0
             /\ call.error = "ok" => /\ Sized(call, buf)
                                     /\ SubSeq(call.buffer, 1, HashLength) = DestHash("recipient")
<1> DEFINE call    == BuildLink(buf, m, "recipient")
           payload == PackPayload(m)
           err     == FieldSetError(m.fields)
           room    == Len(buf) - 2 * HashLength - 32
           n       == PackedPrefix + Len(payload)
           d       == DestHash("recipient")
           ends    == d \o DestHash("sender")
           lead    == ends \o Opaque("sig", SignatureLength, "sender")
           packed  == lead \o Cells(payload)
           after   == Put(buf, 1, packed)
           small   == Len(buf) < PackedPrefix + 11
           long    == Len(payload) > room \/ Len(buf) < n
<1>1. call = IF err # "ok" THEN Failed(err, buf, 0)
             ELSE IF small THEN Failed("OutputTooSmall", buf, 0)
             ELSE IF long THEN Failed("TooLong", buf, 0)
             ELSE Ok(after, n)
  BY DEF BuildLink
<1> HIDE DEF call, payload
<1>2. CASE err # "ok" \/ small \/ long
  <2> HIDE DEF err, small, long, after, n
  <2> QED BY <1>1, <1>2 DEF Failed, Same, call
<1>3. CASE ~ (err # "ok" \/ small \/ long)
  <2>1. call = Ok(after, n)
    BY <1>1, <1>3
  <2>2. payload \in Seq(Nat) /\ Len(payload) \in Nat
    BY <1>3, PayloadIsNumbers DEF payload
  <2>3. /\ HashLength \in Nat /\ SignatureLength \in Nat /\ Len(buf) \in Nat
        /\ PackedPrefix = 2 * HashLength + SignatureLength /\ ~ (Len(buf) < n)
    BY <1>3, ListedFacts DEF PackedPrefix
  <2>4. n \in 0 .. Len(buf) /\ HashLength <= Len(buf)
    BY <2>2, <2>3
  <2>5. Listed(d) /\ Len(d) = HashLength /\ Listed(DestHash("sender"))
    BY HashIsListed
  <2> HIDE DEF d
  <2>6. BeginsWith(d, d, HashLength)
    BY <2>3, <2>5 DEF BeginsWith
  <2>7. BeginsWith(ends, d, HashLength)
    BY <2>3, <2>5, <2>6, JoinBegins
  <2> HIDE DEF ends
  <2>8. BeginsWith(lead, d, HashLength)
    <3>1. Listed(Opaque("sig", SignatureLength, "sender"))
      BY <2>3, OpaqueIsListed
    <3> QED BY <2>3, <2>7, <3>1, JoinBegins
  <2> HIDE DEF lead
  <2>9. BeginsWith(packed, d, HashLength)
    <3>1. Listed(Cells(payload))
      BY <2>2, CellsOfNumbers
    <3> QED BY <2>3, <2>8, <3>1, JoinBegins
  <2> HIDE DEF packed
  <2>10. BeginsWith(after, d, HashLength) /\ Len(after) = Len(buf)
    BY <2>3, <2>4, <2>9, PutBegins
  <2> HIDE DEF after
  <2>11. SubSeq(after, 1, HashLength) = d
    <3>1. SubSeq(after, 1, HashLength) = [i \in 1 .. HashLength |-> after[i]]
      BY <2>3, <2>10 DEF BeginsWith, Listed
    <3>2. d = [i \in 1 .. HashLength |-> d[i]]
      BY <2>5 DEF Listed
    <3> QED BY <2>10, <3>1, <3>2 DEF BeginsWith
  <2> HIDE DEF n
  <2>12. call.error = "ok" /\ call.buffer = after /\ call.len = n
    BY <2>1 DEF Ok
  <2> QED BY <2>4, <2>10, <2>12, <2>11 DEF Sized, call, d, BeginsWith
<1> QED BY <1>2, <1>3

LEMMA PlainHasLength ==
  ASSUME NEW m \in Messages, FieldSetError(m.fields) = "ok"
  PROVE  Len(DirectPlain(m)) \in Nat /\ Len(DirectPlain(m)) >= HashLength + SignatureLength
<1> DEFINE payload == PackPayload(m)
           c       == Cells(payload)
           hash    == DestHash("sender")
           sig     == Opaque("sig", SignatureLength, "sender")
           lead    == hash \o sig
<1>1. payload \in Seq(Nat)
  BY PayloadIsNumbers
<1> HIDE DEF payload
<1>2. Listed(c) /\ Listed(hash) /\ Listed(sig) /\ Len(hash) = HashLength /\ Len(sig) = SignatureLength
  BY <1>1, CellsOfNumbers, HashIsListed, OpaqueIsListed
<1> HIDE DEF c, hash, sig
<1>3. Listed(lead) /\ Len(lead) = HashLength + SignatureLength
  BY <1>2, JoinIsListed
<1> HIDE DEF lead
<1>4. Len(lead \o c) = Len(lead) + Len(c) /\ Len(c) \in Nat
  BY <1>2, <1>3, JoinIsListed, ListedFacts
<1>5. DirectPlain(m) = lead \o c
  BY DEF DirectPlain, lead, hash, sig, c, payload
<1> QED BY <1>3, <1>4, <1>5

LEMMA PacketLeaves ==
  ASSUME NEW buf, Listed(buf), NEW m \in Messages, NEW e
  PROVE  LET built == BuildOpportunistic(buf, m, e)
             call  == built.call
         IN  /\ call.error # "ok" => Same(call, buf) /\ call.len = 0
             /\ call.error = "ok" => /\ Sized(call, buf) /\ built.named
                                     /\ call.buffer[PackedPrefix + 1][1] # "byte"
                                     /\ FieldSetError(m.fields) = "ok"
                                     /\ Len(DirectPlain(m)) \in Nat
                                     /\ Enciphers(call, 0, Len(DirectPlain(m)), e)
<1> DEFINE built == BuildOpportunistic(buf, m, e)
           call  == built.call
           err   == FieldSetError(m.fields)
           k     == Len(DirectPlain(m))
           total == CiphertextLen(k)
           after == Ciphered(buf, 0, total, e)
           long  == Len(PackPayload(m)) > MaxPayload
           small == total > Len(buf)
           was   == IF err # "ok" THEN Failed(err, buf, 0)
                    ELSE IF long THEN Failed("TooLong", buf, 0)
                    ELSE IF small THEN Failed("OutputTooSmall", buf, 0)
                    ELSE Ok(after, total)
<1>1. 0 + 1 = 1
  OBVIOUS
<1>2. call = was /\ built.named = (call.error \in {"ok", "OutputTooSmall"})
  BY <1>1 DEF BuildOpportunistic, Ciphered
<1> HIDE DEF call, built
<1>3. CASE err # "ok" \/ long \/ small
  <2> HIDE DEF err, long, small, after, total
  <2> QED BY <1>2, <1>3 DEF Failed, Same, call, built
<1>4. CASE ~ (err # "ok" \/ long \/ small)
  <2>1. k \in Nat /\ k >= HashLength + SignatureLength
    BY <1>4, PlainHasLength
  <2>2. /\ HashLength \in Nat /\ SignatureLength \in Nat /\ Len(buf) \in Nat
        /\ PackedPrefix = 2 * HashLength + SignatureLength /\ ~ (total > Len(buf))
        /\ HashLength <= FixedOverhead /\ FixedOverhead \in Nat
    BY <1>4, ListedFacts DEF PackedPrefix
  <2>3. call = Ok(after, total)
    BY <1>2, <1>4
  <2> HIDE DEF k
  <2>4. total \in Nat /\ total > FixedOverhead + k
    BY <2>1, CiphertextIsLonger
  <2> HIDE DEF total
  <2>5. 0 \in Nat /\ 0 + total <= Len(buf) /\ total \in 0 .. Len(buf)
    BY <2>2, <2>4
  <2>6. HoldsCipher(after, buf, 0, total, e)
    BY <2>4, <2>5, CipherWritten
  <2> HIDE DEF after
  <2>7. /\ Listed(after) /\ Len(after) = Len(buf)
        /\ \A i \in 1 .. total : after[0 + i] = <<"cipher", i, e>>
    BY <2>6 DEF HoldsCipher
  <2>8. after[PackedPrefix + 1][1] # "byte"
    <3>1. PackedPrefix + 1 \in 1 .. total /\ 0 + (PackedPrefix + 1) = PackedPrefix + 1
      BY <2>1, <2>2, <2>4
    <3>2. after[PackedPrefix + 1] = <<"cipher", PackedPrefix + 1, e>>
      BY <2>7, <3>1
    <3> QED BY <3>2
  <2>9. call.error = "ok" /\ call.buffer = after /\ call.len = total
    BY <2>3 DEF Ok
  <2>10. built.named
    BY <1>2, <2>9
  <2>11. Enciphers(call, 0, k, e) /\ err = "ok"
    <3>1. call.buffer = after /\ call.len = total /\ 0 + total = total /\ total = CiphertextLen(k)
      BY <2>4, <2>9 DEF total
    <3>2. err = "ok"
      BY <1>4
    <3> QED BY <2>7, <3>1, <3>2, Zenon DEF Enciphers
  <2> QED BY <2>1, <2>5, <2>7, <2>8, <2>9, <2>10, <2>11 DEF Sized, call, built, k
<1> QED BY <1>3, <1>4

LEMMA OpenLeaves ==
  ASSUME NEW buf, Listed(buf), NEW ring, NEW keys,
         \A e \in DOMAIN ring : Len(ring[e].plain) \in Nat
  PROVE  LET call == DecryptMessage(buf, "recipient", keys, ring)
         IN  /\ call.error # "ok" => Same(call, buf) /\ call.len = Len(buf)
             /\ call.error = "ok" => Sized(call, buf)
<1> DEFINE call    == DecryptMessage(buf, "recipient", keys, ring)
           body    == SubSeq(buf, HashLength + 1, Len(buf))
           opens   == Opens(body, ring, keys)
           e       == CHOOSE x \in opens : TRUE
           plain   == ring[e].plain
           k       == Len(plain)
           start   == HashLength + PlaintextOffset + 1
           inPlace == Put(buf, start, plain)
           after   == CopyWithin(inPlace, start, start + k - 1, HashLength + 1)
           short   == Len(buf) < HashLength + FixedOverhead + Block
           other   == SubSeq(buf, 1, HashLength) # DestHash("recipient")
           none    == opens = {}
<1>1. call = IF short THEN Failed("MalformedPayload", buf, Len(buf))
             ELSE IF other THEN Failed("DestinationMismatch", buf, Len(buf))
             ELSE IF none THEN Failed("Crypto", buf, Len(buf))
             ELSE Ok(after, HashLength + k)
  BY DEF DecryptMessage
<1> HIDE DEF call
<1>2. CASE short \/ other \/ none
  <2> HIDE DEF short, other, none, after, k
  <2> QED BY <1>1, <1>2 DEF Failed, Same, call
<1>3. CASE ~ (short \/ other \/ none)
  <2>1. /\ HashLength \in Nat /\ PlaintextOffset \in Nat /\ FixedOverhead \in Nat /\ Block \in Nat
        /\ Len(buf) \in Nat /\ HashLength <= Len(buf) /\ start \in Nat \ {0}
    BY <1>3, ListedFacts
  <2>2. e \in opens
    BY <1>3
  <2> HIDE DEF e
  <2>3. e \in DOMAIN ring /\ body = Opaque("cipher", CiphertextLen(k), e)
    BY <2>2 DEF Opens
  <2>4. k \in Nat
    BY <2>3
  <2> HIDE DEF k, plain
  <2>5. CiphertextLen(k) \in Nat /\ CiphertextLen(k) > FixedOverhead + k
    BY <2>4, CiphertextIsLonger
  <2> DEFINE t == CiphertextLen(k)
  <2> HIDE DEF t
  <2> HIDE DEF body
  <2>6. Len(body) = t
    <3>1. t \in Nat /\ body = Opaque("cipher", t, e)
      BY <2>3, <2>5 DEF t
    <3>2. Len(Opaque("cipher", t, e)) = t
      BY <3>1, OpaqueIsListed
    <3> QED BY <3>1, <3>2, Zenon
  <2>7. Len(body) = Len(buf) - HashLength
    <3> DEFINE r == Len(buf) - HashLength
    <3>1. r \in Nat /\ HashLength + r = Len(buf)
      BY <2>1
    <3> HIDE DEF r
    <3>2. Len(SubSeq(buf, HashLength + 1, HashLength + r)) = r
      BY <2>1, <3>1, SliceLength
    <3>3. Len(body) = r
      BY <3>1, <3>2 DEF body
    <3> QED BY <3>3 DEF r
  <2>8. HashLength + k \in 0 .. Len(buf)
    BY <2>1, <2>4, <2>5, <2>6, <2>7 DEF t
  <2>9. Listed(inPlace) /\ Len(inPlace) = Len(buf)
    <3> DEFINE S == {inPlace[i] : i \in 1 .. Len(buf)}
    <3>1. DOMAIN inPlace = 1 .. Len(buf)
      BY ListedFacts DEF Put
    <3>2. inPlace = [i \in 1 .. Len(buf) |-> inPlace[i]]
      BY ListedFacts DEF Put
    <3>3. inPlace \in [1 .. Len(buf) -> S]
      BY <3>1, <3>2
    <3> HIDE DEF inPlace, S
    <3> QED BY <2>1, <3>3, FunctionIsListed
  <2> HIDE DEF inPlace
  <2>10. Listed(after) /\ Len(after) = Len(buf)
    <3>1. start + k - 1 \in Nat /\ HashLength + 1 \in Nat \ {0}
      BY <2>1, <2>4
    <3>2. OfSize(after, Len(inPlace))
      BY <2>1, <2>9, <3>1, CopyKeeps DEF Recopied
    <3> QED BY <2>9, <3>2 DEF OfSize
  <2> HIDE DEF after
  <2>11. call.error = "ok" /\ call.buffer = after /\ call.len = HashLength + k
    BY <1>1, <1>3 DEF Ok
  <2> QED BY <2>8, <2>10, <2>11 DEF Sized, call
<1> QED BY <1>2, <1>3

-----------------------------------------------------------------------------
(* The stamp and seal calls return a buffer, a length and an error.        *)
IsCall(call) == call = [error |-> call.error, buffer |-> call.buffer, len |-> call.len]

LEMMA CallsReturn ==
  ASSUME NEW err, NEW buf, NEW n
  PROVE  IsCall(Ok(buf, n)) /\ IsCall(Failed(err, buf, n))
  BY DEF IsCall, Ok, Failed

LEMMA StampReturns ==
  ASSUME NEW buf, NEW n, NEW s
  PROVE  IsCall(AppendRecipientStamp(buf, n, s))
<1> DEFINE bad   == Len(s) \notin {16, 32} \/ ~Framed(buf, n, {148})
           small == n + 2 + Len(s) > Len(buf)
           after == Appended(buf, n, Cells(<<196, Len(s)>>) \o s, <<"byte", 149>>)
<1>1. AppendRecipientStamp(buf, n, s) =
        IF bad THEN Failed("MalformedPayload", buf, n)
        ELSE IF small THEN Failed("OutputTooSmall", buf, n) ELSE Ok(after, n + 2 + Len(s))
  BY DEF AppendRecipientStamp
<1> HIDE DEF bad, small, after
<1> QED BY <1>1, CallsReturn

LEMMA SealReturns ==
  ASSUME NEW buf, NEW n, NEW to, NEW e
  PROVE  IsCall(SealOpportunistic(buf, n, to, e))
<1> DEFINE m     == n - HashLength
           total == CiphertextLen(m)
           moved == CopyWithin(buf, HashLength + 1, n, PlaintextOffset + 1)
           after == Put(moved, 0 + 1, Opaque("cipher", total, e))
           bad   == ~Framed(buf, n, {148, 149})
           other == SubSeq(buf, 1, HashLength) # DestHash(to)
           long  == m > MaxPlaintext
           small == total > Len(buf)
           less  == total < total
<1>1. SealOpportunistic(buf, n, to, e) =
        IF bad THEN Failed("MalformedPayload", buf, n)
        ELSE IF other THEN Failed("DestinationMismatch", buf, n)
        ELSE IF long THEN Failed("TooLong", buf, n)
        ELSE IF small THEN Failed("OutputTooSmall", buf, n)
        ELSE IF less THEN Failed("OutputTooSmall", moved, m)
        ELSE Ok(after, 0 + total)
  BY DEF SealOpportunistic, EncryptInPlace
<1> HIDE DEF bad, other, long, small, less, moved, after, total, m
<1> QED BY <1>1, CallsReturn

(* A call that fails leaves the host with the length it had.               *)
KeepLen(call, l) == [call EXCEPT !.len = IF call.error = "ok" THEN @ ELSE l]

LEMMA LenKept ==
  ASSUME NEW call, IsCall(call), NEW l
  PROVE  /\ KeepLen(call, l).error = call.error /\ KeepLen(call, l).buffer = call.buffer
         /\ KeepLen(call, l).len = IF call.error = "ok" THEN call.len ELSE l
<1> DEFINE e == call.error
           b == call.buffer
           n == call.len
<1>1. call = [error |-> e, buffer |-> b, len |-> n]
  BY DEF IsCall
<1> HIDE DEF e, b, n
<1>2. KeepLen([error |-> e, buffer |-> b, len |-> n], l) =
        [error |-> e, buffer |-> b, len |-> IF e = "ok" THEN n ELSE l]
  BY DEF KeepLen
<1>3. KeepLen(call, l) = [error |-> e, buffer |-> b, len |-> IF e = "ok" THEN n ELSE l]
  BY <1>1, <1>2
<1> QED BY <1>3 DEF e, b, n

(* A ciphertext stands for a plaintext of some length.                     *)
LEMMA PlaintextHasLength ==
  ASSUME NEW buf, NEW n \in Nat, n > PackedPrefix
  PROVE  Len(SealedPlain(buf, n)) \in Nat /\ Len(EncryptedPlain(buf, n)) \in Nat
<1> DEFINE k == n - HashLength
           a == HashLength + PlaintextOffset
<1>1. k \in Nat /\ a \in Nat /\ PlaintextOffset \in Nat /\ 0 + PlaintextOffset = PlaintextOffset
  BY DEF PackedPrefix
<1> DEFINE one == CopyWithin(buf, HashLength + 1, n, PlaintextOffset + 1)
           two == CopyWithin(buf, HashLength + 1, n, HashLength + PlaintextOffset + 1)
<1>2. /\ SealedPlain(buf, n) = SubSeq(one, 0 + PlaintextOffset + 1, 0 + PlaintextOffset + k)
      /\ EncryptedPlain(buf, n) = SubSeq(two, a + 1, a + k)
  BY DEF SealedPlain, EncryptedPlain, PlaintextAt
<1> HIDE DEF one, two, k, a
<1>3. Len(SubSeq(one, PlaintextOffset + 1, PlaintextOffset + k)) = k /\ Len(SubSeq(two, a + 1, a + k)) = k
  BY <1>1, SliceLength
<1> QED BY <1>1, <1>2, <1>3

LEMMA AppendIsListed ==
  ASSUME NEW s, Listed(s), NEW x
  PROVE  /\ Listed(Append(s, x)) /\ Len(Append(s, x)) = Len(s) + 1
         /\ \A i \in 1 .. Len(s) : Append(s, x)[i] = s[i]
         /\ Append(s, x)[Len(s) + 1] = x
<1> DEFINE S == {s[i] : i \in DOMAIN s} \cup {x}
<1>1. s \in Seq({s[i] : i \in DOMAIN s})
  BY DEF Listed
<1>2. s \in Seq(S) /\ x \in S
  BY <1>1
<1> HIDE DEF S
<1>3. Append(s, x) \in Seq(S)
  BY <1>2
<1>4. Listed(Append(s, x))
  BY <1>3, SeqIsListed
<1>5. /\ Len(Append(s, x)) = Len(s) + 1 /\ \A i \in 1 .. Len(s) : Append(s, x)[i] = s[i]
      /\ Append(s, x)[Len(s) + 1] = x
  BY <1>2
<1> QED BY <1>4, <1>5

LEMMA BlankIsListed ==
  ASSUME NEW n \in Nat
  PROVE  Listed(Blank(n)) /\ Len(Blank(n)) = n
<1> DEFINE c == <<"byte", 0>>
           f == [i \in 1 .. n |-> c]
<1>1. f \in [1 .. n -> {c}]
  OBVIOUS
<1>2. Blank(n) = f
  BY DEF Blank
<1> HIDE DEF c, f
<1> QED BY <1>1, <1>2, FunctionIsListed

-----------------------------------------------------------------------------
(* What holds throughout, by what it speaks of: the host's knowledge, the  *)
(* buffer, the ciphertexts, the persisted entry, and what the buffer holds *)
(* in each phase.  That a packet, an entry and an upload have no framing   *)
(* where a message has it is what keeps a stray length from stamping or    *)
(* sealing them; that a packed message is addressed to the recipient is    *)
(* what makes the entry addressed to it.                                   *)
HostInv ==
  /\ message \in Messages /\ stamp \in Stamps \cup {<<>>}
  /\ phase \in {"new", "packed", "stamped", "packet", "entry", "upload", "served", "opened"}
  /\ phase # "new" => named
BufferInv == Listed(buffer) /\ len \in 0 .. Len(buffer) /\ earlier \subseteq Nat
SealedInv ==
  /\ Listed(sealed) /\ Len(sealed) <= MaxSeals
  /\ \A e \in DOMAIN sealed : sealed[e].key \in HostKeys /\ Len(sealed[e].plain) \in Nat
StoredInv ==
  /\ stored # <<>> => IsEntry(stored)
  /\ phase \notin {"served", "opened"} => Len(stored) <= Len(buffer)
PhaseInv ==
  /\ phase = "new" => len = 0
  /\ phase \in {"packed", "stamped"} => SubSeq(buffer, 1, HashLength) = DestHash("recipient")
  /\ phase \in {"packet", "entry", "upload"} => buffer[PackedPrefix + 1][1] # "byte"
  /\ phase = "entry" => stored # <<>> /\ InUse = stored
  /\ phase = "upload" => stored # <<>> /\ Entry(InUse) = stored
  /\ phase = "served" => len = Len(buffer)
OutboxInv == HostInv /\ BufferInv /\ SealedInv /\ StoredInv /\ PhaseInv

LEMMA OutboxInit == Init => OutboxInv
<1> SUFFICES ASSUME Init PROVE OutboxInv
  OBVIOUS
<1>1. PICK n \in Capacities : buffer = Blank(n)
  BY DEF Init
<1>2. n \in Nat
  BY <1>1, OutboxAssumption
<1>3. Listed(buffer) /\ Len(buffer) = n
  BY <1>1, <1>2, BlankIsListed
<1>4. HostInv /\ BufferInv
  BY <1>2, <1>3 DEF Init, HostInv, BufferInv
<1>5. SealedInv
  <2>1. <<>> \in Seq({}) /\ Len(<<>>) = 0 /\ DOMAIN <<>> = {}
    OBVIOUS
  <2>2. Listed(<<>>)
    BY <2>1, SeqIsListed
  <2>3. 0 <= MaxSeals
    BY OutboxAssumption
  <2> QED BY <2>1, <2>2, <2>3 DEF Init, SealedInv
<1>6. StoredInv /\ PhaseInv
  BY <1>2, <1>3 DEF Init, StoredInv, PhaseInv
<1> QED BY <1>4, <1>5, <1>6 DEF OutboxInv

(* A call leaves a buffer of the same size, and if it fails the same one.  *)
Harmless == outcome' # "ok" => UNCHANGED <<buffer, len>>

LEMMA ReturnKeeps ==
  ASSUME BufferInv, NEW call, NEW next, Returns(call, next),
         call.error # "ok" => Same(call, buffer) /\ call.len = len,
         call.error = "ok" => Sized(call, buffer)
  PROVE  /\ BufferInv' /\ Harmless /\ Len(buffer') = Len(buffer)
         /\ outcome' = call.error
         /\ call.error = "ok" => phase' = next /\ buffer' = call.buffer /\ len' = call.len
         /\ call.error # "ok" => UNCHANGED <<buffer, len, phase, earlier>>
<1>1. outcome' = call.error /\ buffer' = call.buffer /\ len' = call.len
  BY DEF Returns
<1>2. CASE call.error = "ok"
  <2>1. phase' = next /\ earlier' = earlier \cup {len} /\ len \in Nat
    BY <1>2, ListedFacts DEF Returns, Lengths, BufferInv
  <2> QED BY <1>1, <1>2, <2>1 DEF BufferInv, Harmless, Sized
<1>3. CASE call.error # "ok"
  <2>1. UNCHANGED <<buffer, len, phase, earlier>>
    BY <1>1, <1>3 DEF Returns, Same
  <2> QED BY <1>1, <1>3, <2>1 DEF BufferInv, Harmless
<1> QED BY <1>2, <1>3

(* A failed call keeps everything.                                         *)
LEMMA FailureKeeps ==
  ASSUME OutboxInv, UNCHANGED <<message, buffer, len, earlier, phase, stamp, stored, sealed>>,
         named => named'
  PROVE  OutboxInv'
<1>1. HostInv' /\ BufferInv' /\ SealedInv' /\ StoredInv'
  BY DEF OutboxInv, HostInv, BufferInv, SealedInv, StoredInv
<1>2. PhaseInv'
  BY DEF OutboxInv, PhaseInv, InUse
<1> QED BY <1>1, <1>2 DEF OutboxInv

LEMMA BuildKeeps ==
  ASSUME OutboxInv, Build
  PROVE  OutboxInv' /\ Harmless
<1> DEFINE call == BuildLink(buffer, message, "recipient")
<1>1. /\ phase = "new" /\ len = 0 /\ Listed(buffer) /\ message \in Messages
      /\ Returns(call, "packed") /\ named' = (named \/ outcome' = "ok")
      /\ UNCHANGED <<message, stamp, stored, sealed>>
  BY DEF Build, OutboxInv, HostInv, BufferInv, PhaseInv
<1>2. /\ call.error # "ok" => Same(call, buffer) /\ call.len = 0
      /\ call.error = "ok" => /\ Sized(call, buffer)
                              /\ SubSeq(call.buffer, 1, HashLength) = DestHash("recipient")
  BY <1>1, BuildLeaves
<1> HIDE DEF call
<1>3. /\ BufferInv' /\ Harmless /\ Len(buffer') = Len(buffer) /\ outcome' = call.error
      /\ call.error = "ok" => phase' = "packed" /\ buffer' = call.buffer /\ len' = call.len
      /\ call.error # "ok" => UNCHANGED <<buffer, len, phase, earlier>>
  BY <1>1, <1>2, ReturnKeeps DEF OutboxInv
<1>4. CASE call.error = "ok"
  <2>1. HostInv' /\ SealedInv' /\ StoredInv'
    BY <1>1, <1>3, <1>4 DEF OutboxInv, HostInv, SealedInv, StoredInv
  <2>2. PhaseInv'
    BY <1>2, <1>3, <1>4 DEF PhaseInv
  <2> QED BY <1>3, <2>1, <2>2 DEF OutboxInv
<1>5. CASE call.error # "ok"
  BY <1>1, <1>3, <1>5, FailureKeeps
<1> QED BY <1>4, <1>5

(* One more ciphertext.                                                    *)
LEMMA SealedGrows ==
  ASSUME SealedInv, NEW key \in HostKeys, NEW plain, Len(plain) \in Nat,
         Len(sealed) + 1 <= MaxSeals, sealed' = Append(sealed, [key |-> key, plain |-> plain])
  PROVE  SealedInv'
<1> DEFINE x == [key |-> key, plain |-> plain]
           n == Len(sealed)
<1>1. x.key \in HostKeys /\ Len(x.plain) \in Nat
  OBVIOUS
<1>2. sealed' = Append(sealed, x) /\ n + 1 <= MaxSeals
  OBVIOUS
<1>3. Listed(sealed) /\ DOMAIN sealed = 1 .. n /\ n \in Nat
  BY ListedFacts DEF SealedInv
<1> HIDE DEF x, n
<1>4. /\ Listed(sealed') /\ Len(sealed') = n + 1 /\ DOMAIN (sealed') = 1 .. n + 1
      /\ \A i \in 1 .. n : sealed'[i] = sealed[i]
      /\ sealed'[n + 1] = x
  BY <1>2, <1>3, AppendIsListed, ListedFacts DEF n
<1>5. ASSUME NEW e \in 1 .. n + 1
      PROVE  sealed'[e].key \in HostKeys /\ Len(sealed'[e].plain) \in Nat
  <2>1. CASE e = n + 1
    BY <1>1, <1>4, <2>1
  <2>2. CASE e # n + 1
    <3>1. e \in 1 .. n
      BY <1>3, <2>2
    <3>2. sealed[e].key \in HostKeys /\ Len(sealed[e].plain) \in Nat
      BY <1>3, <3>1 DEF SealedInv
    <3> QED BY <1>4, <3>1, <3>2
  <2> QED BY <2>1, <2>2
<1>6. \A e \in DOMAIN (sealed') : sealed'[e].key \in HostKeys /\ Len(sealed'[e].plain) \in Nat
  BY <1>4, <1>5
<1> QED BY <1>2, <1>4, <1>6 DEF SealedInv

LEMMA BuildPacketKeeps ==
  ASSUME OutboxInv, NEW key \in HostKeys, BuildPacket(key)
  PROVE  OutboxInv' /\ Harmless
<1> DEFINE e     == Len(sealed) + 1
           built == BuildOpportunistic(buffer, message, e)
           call  == built.call
           plain == DirectPlain(message)
<1>1. /\ phase = "new" /\ len = 0 /\ Listed(buffer) /\ message \in Messages /\ e <= MaxSeals
      /\ Returns(call, "packet") /\ named' = (named \/ built.named)
      /\ sealed' = IF outcome' = "ok" THEN Append(sealed, [key |-> key, plain |-> plain]) ELSE sealed
      /\ UNCHANGED <<message, stamp, stored>>
  BY DEF BuildPacket, OutboxInv, HostInv, BufferInv, PhaseInv
<1> HIDE DEF e
<1>2. /\ call.error # "ok" => Same(call, buffer) /\ call.len = 0
      /\ call.error = "ok" => /\ Sized(call, buffer) /\ built.named
                              /\ call.buffer[PackedPrefix + 1][1] # "byte"
                              /\ Len(plain) \in Nat
  BY <1>1, PacketLeaves
<1> HIDE DEF call, built, plain
<1>3. /\ BufferInv' /\ Harmless /\ Len(buffer') = Len(buffer) /\ outcome' = call.error
      /\ call.error = "ok" => phase' = "packet" /\ buffer' = call.buffer /\ len' = call.len
      /\ call.error # "ok" => UNCHANGED <<buffer, len, phase, earlier>>
  BY <1>1, <1>2, ReturnKeeps DEF OutboxInv
<1>4. CASE call.error = "ok"
  <2>1. HostInv' /\ StoredInv'
    BY <1>1, <1>2, <1>3, <1>4 DEF OutboxInv, HostInv, StoredInv
  <2>2. PhaseInv'
    BY <1>2, <1>3, <1>4 DEF PhaseInv
  <2>3. SealedInv'
    BY <1>1, <1>2, <1>3, <1>4, SealedGrows DEF OutboxInv, e
  <2> QED BY <1>3, <2>1, <2>2, <2>3 DEF OutboxInv
<1>5. CASE call.error # "ok"
  <2>1. UNCHANGED sealed
    BY <1>1, <1>3, <1>5
  <2> QED BY <1>1, <1>3, <1>5, <2>1, FailureKeeps
<1> QED BY <1>4, <1>5

(* What is framed as a message is none of a packet, an entry or an upload. *)
LEMMA OnlyMessagesAreFramed ==
  ASSUME PhaseInv, NEW n, NEW markers, Framed(buffer, n, markers)
  PROVE  phase \notin {"packet", "entry", "upload"}
  BY FramedByAByte DEF PhaseInv

LEMMA StampKeeps ==
  ASSUME OutboxInv, NEW n \in Lengths, NEW s \in Stamps, Stamp(n, s)
  PROVE  OutboxInv' /\ Harmless
<1> DEFINE call == AppendRecipientStamp(buffer, n, s)
           kept == KeepLen(call, len)
<1>1. /\ phase \in {"packed", "stamped", "packet", "entry", "upload"}
      /\ Returns(kept, "stamped")
      /\ stamp' = IF call.error = "ok" THEN s ELSE stamp
      /\ UNCHANGED <<message, stored, sealed, named>>
      /\ Listed(buffer)
  BY DEF Stamp, KeepLen, OutboxInv, BufferInv
<1>2. n \in Nat
  BY ListedFacts DEF Lengths, OutboxInv, BufferInv
<1>3. Listed(s)
  <2>1. Len(s) \in Nat /\ s = Opaque("stamp", Len(s), "pow")
    BY OutboxAssumption
  <2>2. Listed(Opaque("stamp", Len(s), "pow"))
    BY <2>1, OpaqueIsListed
  <2> QED BY <2>1, <2>2
<1>4. /\ call.error # "ok" => Same(call, buffer)
      /\ call.error = "ok" => /\ Framed(buffer, n, {148}) /\ Sized(call, buffer)
                              /\ \A i \in 1 .. HashLength : call.buffer[i] = buffer[i]
  BY <1>1, <1>2, <1>3, StampLeaves
<1>5. /\ kept.error = call.error /\ kept.buffer = call.buffer
      /\ kept.len = IF call.error = "ok" THEN call.len ELSE len
  BY StampReturns, LenKept
<1> HIDE DEF call, kept
<1>6. /\ kept.error # "ok" => Same(kept, buffer) /\ kept.len = len
      /\ kept.error = "ok" => Sized(kept, buffer)
  BY <1>4, <1>5 DEF Same, Sized
<1>7. /\ BufferInv' /\ Harmless /\ Len(buffer') = Len(buffer) /\ outcome' = kept.error
      /\ kept.error = "ok" => phase' = "stamped" /\ buffer' = kept.buffer /\ len' = kept.len
      /\ kept.error # "ok" => UNCHANGED <<buffer, len, phase, earlier>>
  BY <1>1, <1>6, ReturnKeeps DEF OutboxInv
<1>8. CASE call.error = "ok"
  <2>1. phase \in {"packed", "stamped"}
    BY <1>1, <1>4, <1>8, OnlyMessagesAreFramed DEF OutboxInv
  <2>2. HostInv' /\ SealedInv' /\ StoredInv'
    BY <1>1, <1>5, <1>7, <1>8, <2>1 DEF OutboxInv, HostInv, SealedInv, StoredInv
  <2>3. SubSeq(buffer', 1, HashLength) = DestHash("recipient")
    <3>1. Listed(buffer') /\ Listed(buffer) /\ HashLength <= Len(buffer) /\ HashLength <= Len(buffer')
      <4>1. PackedPrefix + 1 <= Len(buffer)
        <5>1. n > PackedPrefix /\ n <= Len(buffer)
          BY <1>4, <1>8, FramedByAByte
        <5> QED BY <1>1, <1>2, <5>1, ListedFacts DEF PackedPrefix
      <4>2. HashLength <= PackedPrefix /\ PackedPrefix \in Nat /\ HashLength \in Nat
        BY DEF PackedPrefix
      <4> QED BY <1>1, <1>7, <4>1, <4>2, ListedFacts DEF BufferInv
    <3>2. \A i \in 1 .. HashLength : buffer'[i] = buffer[i]
      BY <1>4, <1>5, <1>7, <1>8
    <3>3. SubSeq(buffer', 1, HashLength) = SubSeq(buffer, 1, HashLength)
      BY <3>1, <3>2, PrefixKept
    <3> QED BY <2>1, <3>3 DEF OutboxInv, PhaseInv
  <2>4. PhaseInv'
    BY <1>5, <1>7, <1>8, <2>3 DEF PhaseInv
  <2> QED BY <1>7, <2>2, <2>4 DEF OutboxInv
<1>9. CASE call.error # "ok"
  BY <1>1, <1>5, <1>7, <1>9, FailureKeeps
<1> QED BY <1>8, <1>9

LEMMA SealKeeps ==
  ASSUME OutboxInv, NEW n \in Lengths, NEW to, NEW key \in HostKeys, Seal(n, to, key)
  PROVE  OutboxInv' /\ Harmless
<1> DEFINE e     == Len(sealed) + 1
           call  == SealOpportunistic(buffer, n, to, e)
           kept  == KeepLen(call, len)
           plain == SealedPlain(buffer, n)
<1>1. /\ phase \in {"packed", "stamped", "packet", "entry", "upload"} /\ e <= MaxSeals
      /\ Returns(kept, "packet")
      /\ sealed' = IF call.error = "ok" THEN Append(sealed, [key |-> key, plain |-> plain]) ELSE sealed
      /\ UNCHANGED <<message, stamp, stored, named>>
      /\ Listed(buffer)
  BY DEF Seal, KeepLen, OutboxInv, BufferInv
<1>2. n \in Nat
  BY ListedFacts DEF Lengths, OutboxInv, BufferInv
<1> HIDE DEF e
<1>3. /\ call.error # "ok" => Same(call, buffer)
      /\ call.error = "ok" => /\ Framed(buffer, n, {148, 149}) /\ Sized(call, buffer)
                              /\ call.buffer[PackedPrefix + 1][1] # "byte"
  BY <1>1, <1>2, SealLeaves
<1>4. /\ kept.error = call.error /\ kept.buffer = call.buffer
      /\ kept.len = IF call.error = "ok" THEN call.len ELSE len
  BY SealReturns, LenKept
<1> HIDE DEF call, kept, plain
<1>5. /\ kept.error # "ok" => Same(kept, buffer) /\ kept.len = len
      /\ kept.error = "ok" => Sized(kept, buffer)
  BY <1>3, <1>4 DEF Same, Sized
<1>6. /\ BufferInv' /\ Harmless /\ Len(buffer') = Len(buffer) /\ outcome' = kept.error
      /\ kept.error = "ok" => phase' = "packet" /\ buffer' = kept.buffer /\ len' = kept.len
      /\ kept.error # "ok" => UNCHANGED <<buffer, len, phase, earlier>>
  BY <1>1, <1>5, ReturnKeeps DEF OutboxInv
<1>7. CASE call.error = "ok"
  <2>1. phase \in {"packed", "stamped"}
    BY <1>1, <1>3, <1>7, OnlyMessagesAreFramed DEF OutboxInv
  <2>2. HostInv' /\ StoredInv'
    BY <1>1, <1>4, <1>6, <1>7, <2>1 DEF OutboxInv, HostInv, StoredInv
  <2>3. PhaseInv'
    BY <1>3, <1>4, <1>6, <1>7 DEF PhaseInv
  <2>4. SealedInv'
    <3>1. Len(plain) \in Nat
      BY <1>2, <1>3, <1>7, FramedByAByte, PlaintextHasLength DEF plain
    <3> QED BY <1>1, <1>7, <3>1, SealedGrows DEF OutboxInv, e
  <2> QED BY <1>6, <2>2, <2>3, <2>4 DEF OutboxInv
<1>8. CASE call.error # "ok"
  BY <1>1, <1>4, <1>6, <1>8, FailureKeeps
<1> QED BY <1>7, <1>8

LEMMA EncryptKeeps ==
  ASSUME OutboxInv, NEW to, NEW key \in HostKeys, Encrypt(to, key)
  PROVE  OutboxInv' /\ Harmless
<1> DEFINE e     == Len(sealed) + 1
           call  == EncryptMessage(buffer, len, to, e)
           plain == EncryptedPlain(buffer, len)
           entry == SubSeq(call.buffer, 1, call.len)
<1>1. /\ phase \in {"packed", "stamped"} /\ e <= MaxSeals
      /\ Returns(call, "entry")
      /\ IF call.error = "ok"
         THEN sealed' = Append(sealed, [key |-> key, plain |-> plain]) /\ stored' = entry
         ELSE UNCHANGED <<sealed, stored>>
      /\ UNCHANGED <<message, stamp, named>>
      /\ Listed(buffer) /\ len \in Nat /\ SubSeq(buffer, 1, HashLength) = DestHash("recipient")
  BY ListedFacts DEF Encrypt, OutboxInv, BufferInv, PhaseInv
<1> HIDE DEF e
<1>2. /\ call.error # "ok" => Same(call, buffer) /\ call.len = len
      /\ call.error = "ok" =>
           /\ Sized(call, buffer) /\ call.len > PackedPrefix
           /\ SubSeq(call.buffer, 1, HashLength) = DestHash(to)
           /\ SubSeq(buffer, 1, HashLength) = DestHash(to)
           /\ \A i \in HashLength + 1 .. call.len : call.buffer[i][1] # "byte"
  BY <1>1, EncryptLeaves
<1>3. call.error = "ok" => len > PackedPrefix
  <2> DEFINE m     == len - HashLength
             total == HashLength + CiphertextLen(m)
             moved == CopyWithin(buffer, HashLength + 1, len, HashLength + PlaintextOffset + 1)
             bad   == len <= PackedPrefix \/ len > Len(buffer)
             other == SubSeq(buffer, 1, HashLength) # DestHash(to)
             rest  == IF other THEN Failed("DestinationMismatch", buffer, len)
                      ELSE IF total > Len(buffer) THEN Failed("OutputTooSmall", buffer, len)
                      ELSE EncryptInPlace(moved, HashLength, total - HashLength, m, e)
  <2>1. call = IF bad THEN Failed("MalformedPayload", buffer, len) ELSE rest
    BY DEF EncryptMessage
  <2> HIDE DEF call, rest
  <2>2. bad => call.error # "ok"
    BY <2>1 DEF Failed
  <2> QED BY <1>1, <2>2 DEF PackedPrefix
<1> HIDE DEF call, plain, entry
<1>4. /\ BufferInv' /\ Harmless /\ Len(buffer') = Len(buffer) /\ outcome' = call.error
      /\ call.error = "ok" => phase' = "entry" /\ buffer' = call.buffer /\ len' = call.len
      /\ call.error # "ok" => UNCHANGED <<buffer, len, phase, earlier>>
  BY <1>1, <1>2, ReturnKeeps DEF OutboxInv
<1>5. CASE call.error = "ok"
  <2>1. HostInv'
    BY <1>1, <1>4, <1>5 DEF OutboxInv, HostInv
  <2>2. IsEntry(entry) /\ Len(entry) = call.len
    <3> DEFINE b == call.buffer
               k == call.len
    <3>1. Listed(b) /\ k \in Nat /\ k <= Len(b) /\ k > PackedPrefix
      BY <1>2, <1>5, ListedFacts DEF Sized
    <3>2. /\ SubSeq(b, 1, HashLength) = DestHash("recipient")
          /\ \A i \in HashLength + 1 .. k : b[i][1] # "byte"
      BY <1>1, <1>2, <1>5
    <3>3. entry = SubSeq(b, 1, k)
      BY DEF entry
    <3> HIDE DEF b, k
    <3>4. IsEntry(SubSeq(b, 1, k)) /\ Len(SubSeq(b, 1, k)) = k
      BY <3>1, <3>2, EntryMade
    <3> QED BY <3>3, <3>4 DEF k
  <2>3. stored' = entry /\ Len(entry) <= Len(buffer')
    BY <1>1, <1>2, <1>4, <1>5, <2>2, ListedFacts DEF Sized
  <2>4. StoredInv'
    <3>1. IsEntry(stored') /\ Len(stored') <= Len(buffer')
      BY <2>2, <2>3
    <3> QED BY <3>1 DEF StoredInv
  <2>5. SealedInv'
    <3>1. Len(plain) \in Nat
      BY <1>1, <1>3, <1>5, PlaintextHasLength DEF plain
    <3> QED BY <1>1, <1>5, <3>1, SealedGrows DEF OutboxInv, e
  <2>6. PhaseInv'
    <3>1. entry # <<>>
      <4>1. Len(entry) # 0 /\ Len(<<>>) = 0
        BY <1>2, <1>5, <2>2 DEF PackedPrefix, Sized
      <4> QED BY <4>1
    <3>2. buffer'[PackedPrefix + 1][1] # "byte"
      <4>1. PackedPrefix + 1 \in HashLength + 1 .. call.len
        <5>1. HashLength \in Nat /\ PackedPrefix \in Nat /\ HashLength <= PackedPrefix
          BY DEF PackedPrefix
        <5>2. call.len \in Nat /\ call.len > PackedPrefix
          BY <1>1, <1>2, <1>5, ListedFacts DEF Sized
        <5> QED BY <5>1, <5>2
      <4> QED BY <1>2, <1>4, <1>5, <4>1
    <3>3. SubSeq(buffer', 1, len') = entry
      BY <1>4, <1>5 DEF entry
    <3> QED BY <1>4, <1>5, <2>3, <3>1, <3>2, <3>3 DEF PhaseInv, InUse
  <2> QED BY <1>4, <2>1, <2>4, <2>5, <2>6 DEF OutboxInv
<1>6. CASE call.error # "ok"
  BY <1>1, <1>4, <1>6, FailureKeeps
<1> QED BY <1>5, <1>6

LEMMA WrapKeeps ==
  ASSUME OutboxInv, Wrap
  PROVE  OutboxInv' /\ Harmless
<1> DEFINE call == WrapUpload(buffer, len, PnStamp)
<1>1. /\ phase = "entry" /\ Returns(call, "upload")
      /\ UNCHANGED <<message, stamp, stored, sealed, named>>
      /\ Listed(buffer) /\ len \in Nat /\ len <= Len(buffer)
      /\ stored # <<>> /\ SubSeq(buffer, 1, len) = stored /\ IsEntry(stored)
  BY ListedFacts DEF Wrap, OutboxInv, BufferInv, StoredInv, PhaseInv, InUse
<1>2. /\ call.error # "ok" => Same(call, buffer) /\ call.len = len
      /\ call.error = "ok" =>
           /\ Sized(call, buffer)
           /\ call.buffer[PackedPrefix + 1][1] # "byte"
           /\ Entry(SubSeq(call.buffer, 1, call.len)) = stored
  <2>1. IsEntry(SubSeq(buffer, 1, len))
    BY <1>1
  <2> QED BY <1>1, <2>1, WrapLeaves
<1> HIDE DEF call
<1>3. /\ BufferInv' /\ Harmless /\ Len(buffer') = Len(buffer) /\ outcome' = call.error
      /\ call.error = "ok" => phase' = "upload" /\ buffer' = call.buffer /\ len' = call.len
      /\ call.error # "ok" => UNCHANGED <<buffer, len, phase, earlier>>
  BY <1>1, <1>2, ReturnKeeps DEF OutboxInv
<1>4. CASE call.error = "ok"
  <2>1. HostInv' /\ SealedInv' /\ StoredInv'
    BY <1>1, <1>3, <1>4 DEF OutboxInv, HostInv, SealedInv, StoredInv
  <2>2. PhaseInv'
    <3>1. Entry(SubSeq(buffer', 1, len')) = stored'
      BY <1>1, <1>2, <1>3, <1>4
    <3> QED BY <1>1, <1>2, <1>3, <1>4, <3>1 DEF PhaseInv, InUse
  <2> QED BY <1>3, <2>1, <2>2 DEF OutboxInv
<1>5. CASE call.error # "ok"
  BY <1>1, <1>3, <1>5, FailureKeeps
<1> QED BY <1>4, <1>5

LEMMA RestartKeeps ==
  ASSUME OutboxInv, Restart
  PROVE  OutboxInv' /\ Harmless
<1> DEFINE n == Len(buffer)
<1>1. /\ phase \in {"packed", "stamped", "packet", "entry", "upload"}
      /\ earlier' = {} /\ outcome' = "ok" /\ UNCHANGED <<message, stored, sealed, named>>
      /\ Listed(buffer) /\ n \in Nat /\ Len(stored) <= n
  BY ListedFacts DEF Restart, OutboxInv, BufferInv, StoredInv
<1>2. Harmless
  BY <1>1 DEF Harmless
<1>3. SealedInv'
  BY <1>1 DEF OutboxInv, SealedInv
<1>4. Listed(Blank(n)) /\ Len(Blank(n)) = n
  BY <1>1, BlankIsListed
<1> HIDE DEF n
<1>5. CASE stored # <<>>
  <2>1. /\ buffer' = Put(Blank(n), 1, stored) /\ len' = Len(stored) /\ phase' = "entry"
        /\ UNCHANGED stamp
    BY <1>5 DEF Restart, n
  <2>2. IsEntry(stored) /\ Listed(stored) /\ Len(stored) > PackedPrefix /\ Len(stored) \in Nat
    BY <1>5, ListedFacts DEF OutboxInv, StoredInv, IsEntry
  <2>3. BeginsWith(buffer', stored, Len(stored)) /\ Len(buffer') = n
    <3>1. BeginsWith(stored, stored, Len(stored))
      BY <2>2 DEF BeginsWith
    <3>2. Len(stored) <= Len(Blank(n))
      BY <1>1, <1>4 DEF n
    <3>3. LET after == Put(Blank(n), 1, stored)
          IN  BeginsWith(after, stored, Len(stored)) /\ Len(after) = n
      BY <1>4, <2>2, <3>1, <3>2, PutBegins
    <3> QED BY <2>1, <3>3
  <2>4. Listed(buffer') /\ \A i \in 1 .. Len(stored) : buffer'[i] = stored[i]
    BY <2>3 DEF BeginsWith
  <2>5. SubSeq(buffer', 1, len') = stored
    <3>1. SubSeq(buffer', 1, Len(stored)) = [i \in 1 .. Len(stored) |-> buffer'[i]]
      BY <1>1, <2>2, <2>3, <2>4 DEF Listed, n
    <3>2. stored = [i \in 1 .. Len(stored) |-> stored[i]]
      BY <2>2 DEF Listed
    <3> QED BY <2>1, <2>4, <3>1, <3>2
  <2>6. buffer'[PackedPrefix + 1][1] # "byte"
    <3>1. PackedPrefix + 1 \in 1 .. Len(stored)
      BY <2>2 DEF PackedPrefix
    <3> QED BY <2>2, <2>4, <3>1 DEF IsEntry
  <2>7. HostInv' /\ BufferInv' /\ StoredInv' /\ PhaseInv'
    <3>1. HostInv'
      BY <1>1, <2>1 DEF OutboxInv, HostInv
    <3>2. BufferInv'
      BY <1>1, <2>1, <2>2, <2>3, <2>4 DEF BufferInv, n
    <3>3. StoredInv'
      BY <1>1, <2>1, <2>3 DEF OutboxInv, StoredInv, n
    <3>4. PhaseInv'
      BY <1>1, <1>5, <2>1, <2>5, <2>6 DEF PhaseInv, InUse
    <3> QED BY <3>1, <3>2, <3>3, <3>4
  <2> QED BY <1>2, <1>3, <2>7 DEF OutboxInv
<1>6. CASE stored = <<>>
  <2>1. buffer' = Blank(n) /\ len' = 0 /\ phase' = "new" /\ stamp' = <<>>
    BY <1>6 DEF Restart, n
  <2>2. HostInv'
    BY <1>1, <2>1 DEF OutboxInv, HostInv
  <2>3. BufferInv'
    BY <1>1, <1>4, <2>1 DEF BufferInv, n
  <2>4. StoredInv'
    BY <1>1, <1>4, <1>6, <2>1 DEF StoredInv, n
  <2>5. PhaseInv'
    BY <2>1 DEF PhaseInv
  <2> QED BY <1>2, <1>3, <2>2, <2>3, <2>4, <2>5 DEF OutboxInv
<1> QED BY <1>5, <1>6

LEMMA ServeKeeps ==
  ASSUME OutboxInv, Serve
  PROVE  OutboxInv' /\ Harmless
<1>1. /\ phase = "upload" /\ buffer' = Entry(InUse) /\ len' = Len(buffer')
      /\ phase' = "served" /\ outcome' = "ok"
      /\ UNCHANGED <<message, earlier, stamp, stored, sealed, named>>
  BY DEF Serve
<1>2. Entry(InUse) = stored /\ stored # <<>>
  BY <1>1 DEF OutboxInv, PhaseInv
<1>3. Listed(stored) /\ Len(stored) \in Nat
  BY <1>2, ListedFacts DEF OutboxInv, StoredInv, IsEntry
<1>4. buffer' = stored /\ len' = Len(stored)
  BY <1>1, <1>2
<1>5. HostInv' /\ SealedInv' /\ StoredInv'
  BY <1>1 DEF OutboxInv, HostInv, SealedInv, StoredInv
<1>6. BufferInv'
  BY <1>1, <1>3, <1>4 DEF OutboxInv, BufferInv
<1>7. PhaseInv'
  BY <1>1 DEF PhaseInv
<1>8. Harmless
  BY <1>1 DEF Harmless
<1> QED BY <1>5, <1>6, <1>7, <1>8 DEF OutboxInv

LEMMA OpenKeeps ==
  ASSUME OutboxInv, Open
  PROVE  OutboxInv' /\ Harmless
<1> DEFINE call == DecryptMessage(buffer, "recipient", HostKeys, sealed)
<1>1. /\ phase = "served" /\ len = Len(buffer) /\ Listed(buffer)
      /\ Returns(call, "opened") /\ UNCHANGED <<message, stamp, stored, sealed, named>>
      /\ \A e \in DOMAIN sealed : Len(sealed[e].plain) \in Nat
  BY DEF Open, OutboxInv, BufferInv, SealedInv, PhaseInv
<1>2. /\ call.error # "ok" => Same(call, buffer) /\ call.len = Len(buffer)
      /\ call.error = "ok" => Sized(call, buffer)
  BY <1>1, OpenLeaves
<1> HIDE DEF call
<1>3. /\ BufferInv' /\ Harmless /\ Len(buffer') = Len(buffer) /\ outcome' = call.error
      /\ call.error = "ok" => phase' = "opened" /\ buffer' = call.buffer /\ len' = call.len
      /\ call.error # "ok" => UNCHANGED <<buffer, len, phase, earlier>>
  BY <1>1, <1>2, ReturnKeeps DEF OutboxInv
<1>4. CASE call.error = "ok"
  <2>1. HostInv' /\ SealedInv' /\ StoredInv'
    BY <1>1, <1>3, <1>4 DEF OutboxInv, HostInv, SealedInv, StoredInv
  <2>2. PhaseInv'
    BY <1>3, <1>4 DEF PhaseInv
  <2> QED BY <1>3, <2>1, <2>2 DEF OutboxInv
<1>5. CASE call.error # "ok"
  BY <1>1, <1>3, <1>5, FailureKeeps
<1> QED BY <1>4, <1>5

LEMMA OutboxStep ==
  ASSUME OutboxInv, Next
  PROVE  OutboxInv' /\ Harmless
<1>1. CASE Build
  BY <1>1, BuildKeeps
<1>2. ASSUME NEW key \in HostKeys, BuildPacket(key) PROVE OutboxInv' /\ Harmless
  BY <1>2, BuildPacketKeeps
<1>3. ASSUME NEW n \in Lengths, NEW s \in Stamps, Stamp(n, s) PROVE OutboxInv' /\ Harmless
  BY <1>3, StampKeeps
<1>4. ASSUME NEW n \in Lengths, NEW to \in Ends, NEW key \in HostKeys, Seal(n, to, key)
      PROVE  OutboxInv' /\ Harmless
  BY <1>4, SealKeeps
<1>5. ASSUME NEW to \in Ends, NEW key \in HostKeys, Encrypt(to, key)
      PROVE  OutboxInv' /\ Harmless
  BY <1>5, EncryptKeeps
<1>6. CASE Wrap
  BY <1>6, WrapKeeps
<1>7. CASE Restart
  BY <1>7, RestartKeeps
<1>8. CASE Serve
  BY <1>8, ServeKeeps
<1>9. CASE Open
  BY <1>9, OpenKeeps
<1> QED BY <1>1, <1>2, <1>3, <1>4, <1>5, <1>6, <1>7, <1>8, <1>9 DEF Next

LEMMA OutboxStutter ==
  ASSUME OutboxInv, UNCHANGED vars
  PROVE  OutboxInv'
  BY FailureKeeps DEF vars

LEMMA OutboxAlways == Spec => []OutboxInv
<1>1. OutboxInv /\ [Next]_vars => OutboxInv'
  BY OutboxStep, OutboxStutter
<1> QED BY <1>1, OutboxInit, PTL DEF Spec

(* Whatever calls the host makes, in whatever order and however they fail, *)
(* the length it is given lies in its buffer, what it sealed was for its   *)
(* own keys, and an entry it persists is addressed to the recipient.       *)
THEOREM OutboxTypes == Spec => []TypeOK
<1>1. OutboxInv => TypeOK
  <2> SUFFICES ASSUME OutboxInv PROVE TypeOK
    OBVIOUS
  <2>1. Len(buffer) >= len /\ len \in Nat
    BY ListedFacts DEF OutboxInv, BufferInv
  <2>2. stored # <<>> => SubSeq(stored, 1, HashLength) = DestHash("recipient")
    BY DEF OutboxInv, StoredInv, IsEntry
  <2> QED BY <2>1, <2>2 DEF TypeOK, OutboxInv, HostInv, BufferInv, SealedInv
<1> QED BY <1>1, OutboxAlways, PTL

(* Wrapping, losing and wrapping again, the node always unwraps the entry  *)
(* that the propagation stamp was computed over.                           *)
THEOREM EntryIsKept == Spec => []RetriesKeepEntry
<1>1. OutboxInv => RetriesKeepEntry
  BY DEF OutboxInv, PhaseInv, RetriesKeepEntry
<1> QED BY <1>1, OutboxAlways, PTL

(* No call that fails changes the buffer or the length the host holds.     *)
THEOREM FailuresChangeNothing == Spec => FailureIsHarmless
<1>1. OutboxInv /\ [Next]_vars => [outcome' # "ok" => UNCHANGED <<buffer, len>>]_vars
  BY OutboxStep DEF Harmless
<1> QED BY <1>1, OutboxAlways, PTL DEF Spec, FailureIsHarmless
-----------------------------------------------------------------------------
(* The packed message and the packet carry the same bytes.                 *)
Carries(buf, n, m) ==
  /\ FieldSetError(m.fields) = "ok"
  /\ n = HashLength + Len(DirectPlain(m))
  /\ \A i \in 1 .. Len(DirectPlain(m)) : buf[HashLength + i] = DirectPlain(m)[i]

LEMMA LengthFacts ==
  /\ HashLength \in Nat /\ SignatureLength \in Nat /\ PackedPrefix = 2 * HashLength + SignatureLength
  /\ PlaintextOffset \in Nat /\ FixedOverhead \in Nat /\ PlaintextOffset <= FixedOverhead
  /\ MaxPlaintext \in Nat
  BY LengthAssumption DEF PackedPrefix

LEMMA PlainIsListed ==
  ASSUME NEW m \in Messages, FieldSetError(m.fields) = "ok"
  PROVE  /\ Len(PackPayload(m)) \in Nat
         /\ OfSize(DirectPlain(m), HashLength + SignatureLength + Len(PackPayload(m)))
<1> DEFINE payload == PackPayload(m)
           c       == Cells(payload)
           hash    == DestHash("sender")
           sig     == Opaque("sig", SignatureLength, "sender")
           lead    == hash \o sig
<1>1. payload \in Seq(Nat) /\ Len(payload) \in Nat
  BY PayloadIsNumbers
<1> HIDE DEF payload
<1>2. /\ Listed(c) /\ Listed(hash) /\ Listed(sig) /\ Len(c) = Len(payload)
      /\ Len(hash) = HashLength /\ Len(sig) = SignatureLength
  <2>1. Listed(c) /\ Len(c) = Len(payload)
    BY <1>1, CellsOfNumbers
  <2>2. Listed(hash) /\ Len(hash) = HashLength
    BY HashIsListed
  <2>3. Listed(sig) /\ Len(sig) = SignatureLength
    BY LengthFacts, OpaqueIsListed
  <2> HIDE DEF c, hash, sig
  <2> QED BY <2>1, <2>2, <2>3
<1> HIDE DEF c, hash, sig
<1>3. Listed(lead) /\ Len(lead) = HashLength + SignatureLength
  BY <1>2, JoinIsListed
<1> HIDE DEF lead
<1>4. Listed(lead \o c) /\ Len(lead \o c) = HashLength + SignatureLength + Len(payload)
  BY <1>2, <1>3, JoinIsListed
<1>5. DirectPlain(m) = lead \o c
  BY DEF DirectPlain, lead, hash, sig, c, payload
<1> QED BY <1>1, <1>4, <1>5 DEF OfSize, payload

(* What follows the first of four joined pieces are the other three.       *)
EndsWith(s, n, tail) == \A i \in 1 .. Len(tail) : s[n + i] = tail[i]

LEMMA EndsWithMore ==
  ASSUME NEW n \in Nat, NEW s, Listed(s), NEW t, Listed(t), Len(s) = n + Len(t), EndsWith(s, n, t),
         NEW d, Listed(d)
  PROVE  /\ EndsWith(s \o d, n, t \o d) /\ Len(s \o d) = n + Len(t \o d)
         /\ Listed(s \o d) /\ Listed(t \o d)
<1> DEFINE u == s \o d
           v == t \o d
<1>1. Len(s) \in Nat /\ Len(t) \in Nat /\ Len(d) \in Nat
  BY ListedFacts
<1>2. Concatenates(u, s, d)
  BY JoinConcatenates, Zenon
<1>3. Concatenates(v, t, d)
  BY JoinConcatenates, Zenon
<1> HIDE DEF u, v
<1>4. ASSUME NEW i \in 1 .. Len(v) PROVE u[n + i] = v[i]
  <2>1. CASE i <= Len(t)
    <3>1. i \in 1 .. Len(t) /\ n + i \in 1 .. Len(s)
      BY <1>1, <2>1
    <3> QED BY <1>2, <1>3, <3>1 DEF EndsWith, Concatenates
  <2>2. CASE i > Len(t)
    <3> DEFINE j == i - Len(t)
    <3>1. j \in 1 .. Len(d) /\ n + i = Len(s) + j /\ i = Len(t) + j
      BY <1>1, <1>3, <2>2 DEF Concatenates
    <3> HIDE DEF j
    <3> QED BY <1>2, <1>3, <3>1 DEF Concatenates
  <2> QED BY <1>1, <1>3, <2>1, <2>2 DEF Concatenates
<1>5. EndsWith(u, n, v)
  BY <1>4 DEF EndsWith
<1>6. Len(u) = n + Len(v)
  BY <1>1, <1>2, <1>3 DEF Concatenates
<1> QED BY <1>2, <1>3, <1>5, <1>6 DEF u, v, Concatenates

LEMMA JoinEndsWith ==
  ASSUME NEW a, Listed(a), NEW b, Listed(b), NEW c, Listed(c), NEW d, Listed(d)
  PROVE  EndsWith(((a \o b) \o c) \o d, Len(a), (b \o c) \o d)
<1> DEFINE ab  == a \o b
           abc == ab \o c
           bc  == b \o c
<1>1. Len(a) \in Nat
  BY ListedFacts
<1>2. EndsWith(ab, Len(a), b) /\ Len(ab) = Len(a) + Len(b) /\ Listed(ab)
  BY JoinIsListed DEF EndsWith
<1> HIDE DEF ab
<1>3. EndsWith(abc, Len(a), bc) /\ Len(abc) = Len(a) + Len(bc) /\ Listed(abc) /\ Listed(bc)
  BY <1>1, <1>2, EndsWithMore
<1> HIDE DEF abc, bc
<1>4. EndsWith(abc \o d, Len(a), bc \o d)
  BY <1>1, <1>3, EndsWithMore
<1> QED BY <1>4 DEF abc, bc, ab

LEMMA BuildCarries ==
  ASSUME NEW buf, Listed(buf), NEW m \in Messages,
         BuildLink(buf, m, "recipient").error = "ok"
  PROVE  LET call == BuildLink(buf, m, "recipient") IN Carries(call.buffer, call.len, m)
<1> DEFINE call    == BuildLink(buf, m, "recipient")
           payload == PackPayload(m)
           err     == FieldSetError(m.fields)
           room    == Len(buf) - 2 * HashLength - 32
           n       == PackedPrefix + Len(payload)
           d       == DestHash("recipient")
           hash    == DestHash("sender")
           sig     == Opaque("sig", SignatureLength, "sender")
           packed  == ((d \o hash) \o sig) \o Cells(payload)
           plain   == (hash \o sig) \o Cells(payload)
           after   == Put(buf, 1, packed)
           small   == Len(buf) < PackedPrefix + 11
           long    == Len(payload) > room \/ Len(buf) < n
<1>1. call = IF err # "ok" THEN Failed(err, buf, 0)
             ELSE IF small THEN Failed("OutputTooSmall", buf, 0)
             ELSE IF long THEN Failed("TooLong", buf, 0)
             ELSE Ok(after, n)
  BY DEF BuildLink
<1>2. call.error = "ok"
  OBVIOUS
<1>3. DirectPlain(m) = plain
  BY DEF DirectPlain
<1> HIDE DEF call, payload, packed, plain, after, n, err, small, long
<1>4. err = "ok" /\ ~small /\ ~long /\ call = Ok(after, n)
  BY <1>1, <1>2 DEF Failed
<1>5. /\ payload \in Seq(Nat) /\ Len(payload) \in Nat /\ OfSize(plain, HashLength + SignatureLength + Len(payload))
  BY <1>3, <1>4, PayloadIsNumbers, PlainIsListed DEF payload, err
<1>6. /\ HashLength \in Nat /\ SignatureLength \in Nat /\ Len(buf) \in Nat
      /\ n = 2 * HashLength + SignatureLength + Len(payload) /\ n <= Len(buf)
  <2>1. ~ (Len(buf) < n) /\ n = PackedPrefix + Len(payload)
    BY <1>4 DEF long, n
  <2>2. Len(buf) \in Nat
    BY ListedFacts
  <2> QED BY <1>5, <2>1, <2>2, LengthFacts
<1>7. Listed(d) /\ Len(d) = HashLength /\ Listed(hash) /\ Listed(sig) /\ Listed(Cells(payload))
  BY <1>5, <1>6, HashIsListed, OpaqueIsListed, CellsOfNumbers
<1> DEFINE k == Len(plain)
<1>8. k = HashLength + SignatureLength + Len(payload) /\ k \in Nat /\ n = HashLength + k
  BY <1>5, <1>6 DEF OfSize
<1>9. \A i \in 1 .. k : packed[HashLength + i] = plain[i]
  <2> DEFINE c == Cells(payload)
  <2> HIDE DEF d, hash, sig, c
  <2>1. Listed(d) /\ Listed(hash) /\ Listed(sig) /\ Listed(c)
    BY <1>7 DEF c
  <2>2. EndsWith(((d \o hash) \o sig) \o c, Len(d), (hash \o sig) \o c)
    BY <2>1, JoinEndsWith, Zenon
  <2>3. EndsWith(packed, Len(d), plain)
    BY <2>2, Zenon DEF packed, plain, c
  <2> QED BY <1>7, <2>3 DEF EndsWith
<1>10. Listed(packed) /\ Len(packed) = n
  <2> DEFINE c == Cells(payload)
             one == d \o hash
             two == one \o sig
  <2>1. Listed(c) /\ Len(c) = Len(payload) /\ Len(hash) = HashLength /\ Len(sig) = SignatureLength
    BY <1>5, <1>6, CellsOfNumbers, HashIsListed, OpaqueIsListed
  <2> HIDE DEF c, d, hash, sig
  <2>2. Listed(one) /\ Len(one) = HashLength + HashLength
    BY <1>7, <2>1, JoinIsListed
  <2> HIDE DEF one
  <2>3. Listed(two) /\ Len(two) = HashLength + HashLength + SignatureLength
    BY <1>7, <2>1, <2>2, JoinIsListed
  <2> HIDE DEF two
  <2>4. Listed(two \o c) /\ Len(two \o c) = HashLength + HashLength + SignatureLength + Len(payload)
    BY <2>1, <2>3, JoinIsListed
  <2>5. packed = two \o c
    BY DEF packed, two, one, c
  <2> QED BY <1>5, <1>6, <2>4, <2>5
<1>11. \A i \in 1 .. n : after[i] = packed[i]
  <2>1. BeginsWith(packed, packed, n) /\ n \in Nat
    BY <1>5, <1>6, <1>10 DEF BeginsWith
  <2>2. BeginsWith(Put(buf, 1, packed), packed, n)
    BY <1>6, <2>1, PutBegins
  <2> QED BY <2>2 DEF BeginsWith, after
<1>12. ASSUME NEW i \in 1 .. k PROVE after[HashLength + i] = plain[i]
  <2>1. HashLength + i \in 1 .. n
    BY <1>6, <1>8
  <2> QED BY <1>9, <1>11, <2>1
<1>13. call.buffer = after /\ call.len = n
  BY <1>4 DEF Ok
<1> HIDE DEF k
<1>14. Carries(after, n, m)
  BY <1>3, <1>4, <1>8, <1>12 DEF Carries, k, err
<1> QED BY <1>13, <1>14 DEF call

(* What seal_opportunistic encrypts is the message without its address.    *)
LEMMA SealCarries ==
  ASSUME NEW buf, Listed(buf), NEW m \in Messages, NEW n, Carries(buf, n, m),
         CiphertextLen(n - HashLength) <= Len(buf)
  PROVE  SealedPlain(buf, n) = DirectPlain(m)
<1> DEFINE plain == DirectPlain(m)
           k     == Len(plain)
           copy  == CopyWithin(buf, HashLength + 1, n, PlaintextOffset + 1)
<1>1. /\ OfSize(plain, k) /\ k \in Nat
  BY PlainIsListed, ListedFacts DEF OfSize, Carries
<1>2. /\ n = HashLength + k /\ \A i \in 1 .. k : buf[HashLength + i] = plain[i]
  BY DEF Carries
<1> HIDE DEF plain, k
<1>3. HashLength \in Nat /\ PlaintextOffset \in Nat /\ FixedOverhead \in Nat /\ PlaintextOffset <= FixedOverhead
  BY LengthFacts, Zenon
<1>4. n - HashLength = k /\ n \in Nat /\ Len(buf) \in Nat
  BY <1>1, <1>2, <1>3, ListedFacts
<1>5. PlaintextOffset + k <= Len(buf)
  <2>1. CiphertextLen(k) \in Nat /\ CiphertextLen(k) > FixedOverhead + k
    BY <1>1, CiphertextIsLonger
  <2>2. CiphertextLen(k) <= Len(buf)
    BY <1>4
  <2> QED BY <1>1, <1>3, <1>4, <2>1, <2>2
<1>6. Recopied(copy, buf, HashLength + 1, n, PlaintextOffset + 1)
  <2> DEFINE first == HashLength + 1
             at    == PlaintextOffset + 1
  <2>1. first \in Nat \ {0} /\ at \in Nat \ {0}
    BY <1>3
  <2> HIDE DEF first, at
  <2>2. Recopied(CopyWithin(buf, first, n, at), buf, first, n, at)
    BY <1>4, <2>1, CopyKeeps, Zenon
  <2> QED BY <2>2 DEF first, at
<1> HIDE DEF copy
<1>7. ASSUME NEW i \in 1 .. k PROVE copy[PlaintextOffset + i] = plain[i]
  <2> DEFINE j == PlaintextOffset + i
  <2>1. /\ j \in 1 .. Len(buf) /\ j \in PlaintextOffset + 1 .. PlaintextOffset + 1 + n - (HashLength + 1)
        /\ j - (PlaintextOffset + 1) + (HashLength + 1) = HashLength + i
    BY <1>1, <1>2, <1>3, <1>4, <1>5
  <2> HIDE DEF j
  <2>2. copy[j] = buf[HashLength + i]
    BY <1>6, <2>1 DEF Recopied
  <2> QED BY <1>2, <2>2 DEF j
<1>8. SealedPlain(buf, n) = SubSeq(copy, PlaintextOffset + 1, PlaintextOffset + k)
  BY <1>3, <1>4 DEF SealedPlain, PlaintextAt, copy
<1>9. SubSeq(copy, PlaintextOffset + 1, PlaintextOffset + k) = [i \in 1 .. k |-> copy[PlaintextOffset + i]]
  BY <1>1, <1>3
<1>10. plain = [i \in 1 .. k |-> plain[i]]
  BY <1>1 DEF OfSize, Listed
<1>11. SealedPlain(buf, n) = plain
  BY <1>7, <1>8, <1>9, <1>10
<1> QED BY <1>11 DEF plain


LEMMA LastSealed ==
  ASSUME Listed(sealed), NEW x, sealed' = Append(sealed, x)
  PROVE  Last(sealed') = x
<1>1. Listed(sealed') /\ Len(sealed') = Len(sealed) + 1 /\ sealed'[Len(sealed) + 1] = x
  BY AppendIsListed
<1> QED BY <1>1 DEF Last

(* When seal_opportunistic accepts a message, and when it is too long.     *)
LEMMA SealVerdict ==
  ASSUME NEW buf, NEW n, NEW to, NEW e
  PROVE  LET call == SealOpportunistic(buf, n, to, e)
         IN  /\ call.error = "ok" => /\ Framed(buf, n, {148, 149})
                                     /\ ~ (CiphertextLen(n - HashLength) > Len(buf))
             /\ Framed(buf, n, {148, 149}) /\ SubSeq(buf, 1, HashLength) = DestHash(to)
                  => (call.error = "TooLong" <=> n - HashLength > MaxPlaintext)
<1> DEFINE call  == SealOpportunistic(buf, n, to, e)
           m     == n - HashLength
           total == CiphertextLen(m)
           moved == CopyWithin(buf, HashLength + 1, n, PlaintextOffset + 1)
           done  == EncryptInPlace(moved, 0, total, m, e)
           bad   == ~Framed(buf, n, {148, 149})
           other == SubSeq(buf, 1, HashLength) # DestHash(to)
           long  == m > MaxPlaintext
           small == total > Len(buf)
<1>1. call = IF bad THEN Failed("MalformedPayload", buf, n)
             ELSE IF other THEN Failed("DestinationMismatch", buf, n)
             ELSE IF long THEN Failed("TooLong", buf, n)
             ELSE IF small THEN Failed("OutputTooSmall", buf, n)
             ELSE done
  BY DEF SealOpportunistic
<1>2. done.error \in {"OutputTooSmall", "ok"}
  <2> DEFINE x == moved
             y == total
             z == m
  <2> HIDE DEF x, y, z
  <2>1. EncryptInPlace(x, 0, y, z, e).error \in {"OutputTooSmall", "ok"}
    BY DEF EncryptInPlace, Failed, Ok
  <2> QED BY <2>1 DEF x, y, z
<1> HIDE DEF call, done, bad, other, long, small
<1>3. /\ call.error = "ok" => ~bad /\ ~small
      /\ ~bad /\ ~other => (call.error = "TooLong" <=> long)
  BY <1>1, <1>2 DEF Failed
<1> QED BY <1>3 DEF call, bad, other, long, small

(* When a packet cannot be built because the message is too long.          *)
LEMMA PacketVerdict ==
  ASSUME NEW buf, NEW m, FieldSetError(m.fields) = "ok", NEW e
  PROVE  BuildOpportunistic(buf, m, e).call.error = "TooLong" <=> Len(PackPayload(m)) > MaxPayload
<1> DEFINE total == CiphertextLen(Len(DirectPlain(m)))
           long  == Len(PackPayload(m)) > MaxPayload
           small == total > Len(buf)
           after == Put(buf, 1, Opaque("cipher", total, e))
           call  == BuildOpportunistic(buf, m, e).call
<1>1. call = IF long THEN Failed("TooLong", buf, 0)
             ELSE IF small THEN Failed("OutputTooSmall", buf, 0)
             ELSE Ok(after, total)
  BY DEF BuildOpportunistic
<1> HIDE DEF call, long, small, after, total
<1>2. call.error = "TooLong" <=> long
  BY <1>1 DEF Failed, Ok
<1> QED BY <1>2 DEF call, long

-----------------------------------------------------------------------------
(* What the host has in hand while the message is not yet encrypted: a     *)
(* packed message is whole and there is no other length of it, and a packet*)
(* without a stamp was made of it.                                         *)
PathsInv ==
  /\ phase = "new" => stamp = <<>> /\ earlier = {}
  /\ phase = "packed" => stamp = <<>> /\ earlier \subseteq {0} /\ Carries(buffer, len, message)
  /\ phase = "stamped" => stamp # <<>>
  /\ phase = "packet" /\ stamp = <<>> => Last(sealed).plain = DirectPlain(message)

LEMMA PathsInit == Init => PathsInv
  BY DEF Init, PathsInv

LEMMA PathsUnchanged ==
  ASSUME PathsInv, UNCHANGED <<message, buffer, len, earlier, phase, stamp, sealed>>
  PROVE  PathsInv'
  BY DEF PathsInv

(* A call returns what it made, or the host has what it had.               *)
LEMMA CallReturned ==
  ASSUME NEW call, NEW next, Returns(call, next), Harmless
  PROVE  /\ outcome' = call.error
         /\ call.error = "ok" => /\ buffer' = call.buffer /\ len' = call.len
                                 /\ phase' = next /\ earlier' = earlier \cup {len}
         /\ call.error # "ok" => UNCHANGED <<buffer, len, phase, earlier>>
<1>1. CASE call.error = "ok"
  BY <1>1 DEF Returns, Lengths
<1>2. CASE call.error # "ok"
  BY <1>2 DEF Returns, Harmless
<1> QED BY <1>1, <1>2

LEMMA BuildPaths ==
  ASSUME OutboxInv, PathsInv, Build, Harmless
  PROVE  PathsInv'
<1> DEFINE call == BuildLink(buffer, message, "recipient")
<1>1. /\ phase = "new" /\ len = 0 /\ Listed(buffer) /\ message \in Messages
      /\ Returns(call, "packed") /\ UNCHANGED <<message, stamp, stored, sealed>>
      /\ stamp = <<>> /\ earlier = {}
  BY DEF Build, OutboxInv, HostInv, BufferInv, PhaseInv, PathsInv
<1>2. call.error = "ok" => Carries(call.buffer, call.len, message)
  BY <1>1, BuildCarries
<1> HIDE DEF call
<1>3. /\ call.error = "ok" => /\ buffer' = call.buffer /\ len' = call.len
                              /\ phase' = "packed" /\ earlier' = earlier \cup {len}
      /\ call.error # "ok" => UNCHANGED <<buffer, len, phase, earlier>>
  BY <1>1, CallReturned
<1>4. CASE call.error = "ok"
  <2>1. Carries(buffer', len', message')
    BY <1>1, <1>2, <1>3, <1>4
  <2> QED BY <1>1, <1>3, <1>4, <2>1 DEF PathsInv
<1>5. CASE call.error # "ok"
  BY <1>1, <1>3, <1>5, PathsUnchanged
<1> QED BY <1>4, <1>5

LEMMA BuildPacketPaths ==
  ASSUME OutboxInv, PathsInv, NEW key, BuildPacket(key), Harmless
  PROVE  PathsInv'
<1> DEFINE call  == BuildOpportunistic(buffer, message, Len(sealed) + 1).call
           plain == DirectPlain(message)
           x     == [key |-> key, plain |-> plain]
<1>1. /\ Returns(call, "packet") /\ UNCHANGED <<message, stamp>>
      /\ sealed' = IF outcome' = "ok" THEN Append(sealed, x) ELSE sealed
  BY DEF BuildPacket
<1>2. x.plain = plain
  OBVIOUS
<1>3. Listed(sealed)
  BY DEF OutboxInv, SealedInv
<1> HIDE DEF call, x, plain
<1>4. /\ outcome' = call.error
      /\ call.error = "ok" => phase' = "packet"
      /\ call.error # "ok" => UNCHANGED <<buffer, len, phase, earlier>>
  BY <1>1, CallReturned
<1>5. CASE call.error = "ok"
  <2>1. Last(sealed') = x
    BY <1>1, <1>3, <1>4, <1>5, LastSealed
  <2>2. Last(sealed').plain = DirectPlain(message')
    BY <1>1, <1>2, <2>1 DEF plain
  <2> QED BY <1>4, <1>5, <2>2 DEF PathsInv
<1>6. CASE call.error # "ok"
  BY <1>1, <1>4, <1>6, PathsUnchanged
<1> QED BY <1>5, <1>6

LEMMA StampPaths ==
  ASSUME OutboxInv, PathsInv, NEW n, NEW s, Stamp(n, s), Harmless
  PROVE  PathsInv'
<1> DEFINE call == AppendRecipientStamp(buffer, n, s)
           kept == KeepLen(call, len)
<1>1. /\ Returns(kept, "stamped") /\ stamp' = IF call.error = "ok" THEN s ELSE stamp
      /\ UNCHANGED <<message, stored, sealed, named>>
  BY DEF Stamp, KeepLen
<1>2. kept.error = call.error
  BY StampReturns, LenKept
<1>3. call.error = "ok" => s # <<>>
  <2> DEFINE bad   == Len(s) \notin {16, 32} \/ ~Framed(buffer, n, {148})
             small == n + 2 + Len(s) > Len(buffer)
             after == Appended(buffer, n, Cells(<<196, Len(s)>>) \o s, <<"byte", 149>>)
             rest  == IF small THEN Failed("OutputTooSmall", buffer, n) ELSE Ok(after, n + 2 + Len(s))
  <2>1. call = IF bad THEN Failed("MalformedPayload", buffer, n) ELSE rest
    BY DEF AppendRecipientStamp
  <2> HIDE DEF call, rest
  <2>2. call.error = "ok" => ~bad
    <3> HIDE DEF bad
    <3> QED BY <2>1 DEF Failed
  <2>3. s = <<>> => bad
    OBVIOUS
  <2> QED BY <2>2, <2>3
<1> HIDE DEF call, kept
<1>4. /\ kept.error = "ok" => phase' = "stamped"
      /\ kept.error # "ok" => UNCHANGED <<buffer, len, phase, earlier>>
  BY <1>1, CallReturned
<1>5. CASE call.error = "ok"
  BY <1>1, <1>2, <1>3, <1>4, <1>5 DEF PathsInv
<1>6. CASE call.error # "ok"
  BY <1>1, <1>2, <1>4, <1>6, PathsUnchanged
<1> QED BY <1>5, <1>6

LEMMA SealPaths ==
  ASSUME OutboxInv, PathsInv, NEW n \in Lengths, NEW to, NEW key, Seal(n, to, key), Harmless
  PROVE  PathsInv'
<1> DEFINE call  == SealOpportunistic(buffer, n, to, Len(sealed) + 1)
           kept  == KeepLen(call, len)
           plain == SealedPlain(buffer, n)
           x     == [key |-> key, plain |-> plain]
<1>1. /\ phase \in {"packed", "stamped", "packet", "entry", "upload"}
      /\ Returns(kept, "packet")
      /\ sealed' = IF call.error = "ok" THEN Append(sealed, x) ELSE sealed
      /\ UNCHANGED <<message, stamp, stored, named>>
      /\ Listed(buffer) /\ Listed(sealed) /\ message \in Messages /\ PhaseInv
      /\ len \in Nat
  BY ListedFacts DEF Seal, KeepLen, OutboxInv, BufferInv, SealedInv, HostInv
<1>2. kept.error = call.error
  BY SealReturns, LenKept
<1>3. call.error = "ok" => /\ Framed(buffer, n, {148, 149})
                           /\ ~ (CiphertextLen(n - HashLength) > Len(buffer))
  BY SealVerdict
<1>4. x.plain = plain
  OBVIOUS
<1> HIDE DEF call, kept, x, plain
<1>5. /\ kept.error = "ok" => phase' = "packet"
      /\ kept.error # "ok" => UNCHANGED <<buffer, len, phase, earlier>>
  BY <1>1, CallReturned
<1>6. CASE call.error = "ok"
  <2>1. phase' = "packet" /\ Last(sealed') = x
    BY <1>1, <1>2, <1>5, <1>6, LastSealed
  <2>2. phase \in {"packed", "stamped"}
    BY <1>1, <1>3, <1>6, OnlyMessagesAreFramed
  <2>3. CASE stamp = <<>>
    <3>1. phase = "packed" /\ earlier \subseteq {0} /\ Carries(buffer, len, message)
      BY <2>2, <2>3 DEF PathsInv
    <3>2. n = len
      <4>1. n > PackedPrefix /\ PackedPrefix \in Nat
        BY <1>3, <1>6, FramedByAByte, LengthFacts
      <4>2. n = 0 \/ n = len
        BY <3>1 DEF Lengths
      <4> QED BY <4>1, <4>2
    <3>3. CiphertextLen(len - HashLength) <= Len(buffer)
      <4>1. Len(buffer) \in Nat /\ len - HashLength \in Nat
        <5>1. len > PackedPrefix
          BY <1>3, <1>6, <3>2, FramedByAByte
        <5> QED BY <1>1, <5>1, ListedFacts, LengthFacts
      <4>2. CiphertextLen(len - HashLength) \in Nat
        BY <4>1, CiphertextIsLonger
      <4> QED BY <1>3, <1>6, <3>2, <4>1, <4>2
    <3>4. plain = DirectPlain(message)
      BY <1>1, <3>1, <3>2, <3>3, SealCarries DEF plain
    <3>5. Last(sealed').plain = DirectPlain(message')
      BY <1>1, <1>4, <2>1, <3>4
    <3> QED BY <2>1, <3>5 DEF PathsInv
  <2>4. CASE stamp # <<>>
    BY <1>1, <2>1, <2>4 DEF PathsInv
  <2> QED BY <2>3, <2>4
<1>7. CASE call.error # "ok"
  BY <1>1, <1>2, <1>5, <1>7, PathsUnchanged
<1> QED BY <1>6, <1>7

LEMMA EncryptPaths ==
  ASSUME PathsInv, NEW to, NEW key, Encrypt(to, key), Harmless
  PROVE  PathsInv'
<1> DEFINE call == EncryptMessage(buffer, len, to, Len(sealed) + 1)
<1>1. /\ Returns(call, "entry") /\ UNCHANGED <<message, stamp>>
      /\ call.error # "ok" => UNCHANGED <<sealed, stored>>
  BY DEF Encrypt
<1> HIDE DEF call
<1>2. /\ call.error = "ok" => phase' = "entry"
      /\ call.error # "ok" => UNCHANGED <<buffer, len, phase, earlier>>
  BY <1>1, CallReturned
<1>3. CASE call.error = "ok"
  BY <1>2, <1>3 DEF PathsInv
<1>4. CASE call.error # "ok"
  BY <1>1, <1>2, <1>4, PathsUnchanged
<1> QED BY <1>3, <1>4

LEMMA WrapPaths ==
  ASSUME PathsInv, Wrap, Harmless
  PROVE  PathsInv'
<1> DEFINE call == WrapUpload(buffer, len, PnStamp)
<1>1. Returns(call, "upload") /\ UNCHANGED <<message, stamp, sealed>>
  BY DEF Wrap
<1> HIDE DEF call
<1>2. /\ call.error = "ok" => phase' = "upload"
      /\ call.error # "ok" => UNCHANGED <<buffer, len, phase, earlier>>
  BY <1>1, CallReturned
<1>3. CASE call.error = "ok"
  BY <1>2, <1>3 DEF PathsInv
<1>4. CASE call.error # "ok"
  BY <1>1, <1>2, <1>4, PathsUnchanged
<1> QED BY <1>3, <1>4

LEMMA RestartPaths ==
  ASSUME Restart
  PROVE  PathsInv'
<1>1. CASE stored # <<>>
  <2>1. phase' = "entry"
    BY <1>1 DEF Restart
  <2> QED BY <2>1 DEF PathsInv
<1>2. CASE stored = <<>>
  <2>1. phase' = "new" /\ stamp' = <<>> /\ earlier' = {}
    BY <1>2 DEF Restart
  <2> QED BY <2>1 DEF PathsInv
<1> QED BY <1>1, <1>2

LEMMA OpenPaths ==
  ASSUME PathsInv, Open, Harmless
  PROVE  PathsInv'
<1> DEFINE call == DecryptMessage(buffer, "recipient", HostKeys, sealed)
<1>1. Returns(call, "opened") /\ UNCHANGED <<message, stamp, sealed>>
  BY DEF Open
<1> HIDE DEF call
<1>2. /\ call.error = "ok" => phase' = "opened"
      /\ call.error # "ok" => UNCHANGED <<buffer, len, phase, earlier>>
  BY <1>1, CallReturned
<1>3. CASE call.error = "ok"
  BY <1>2, <1>3 DEF PathsInv
<1>4. CASE call.error # "ok"
  BY <1>1, <1>2, <1>4, PathsUnchanged
<1> QED BY <1>3, <1>4

LEMMA PathsStep ==
  ASSUME OutboxInv, PathsInv, Next
  PROVE  PathsInv'
<1>1. Harmless
  BY OutboxStep
<1>2. CASE Build
  BY <1>1, <1>2, BuildPaths
<1>3. ASSUME NEW key \in HostKeys, BuildPacket(key) PROVE PathsInv'
  BY <1>1, <1>3, BuildPacketPaths
<1>4. ASSUME NEW n \in Lengths, NEW s \in Stamps, Stamp(n, s) PROVE PathsInv'
  BY <1>1, <1>4, StampPaths
<1>5. ASSUME NEW n \in Lengths, NEW to \in Ends, NEW key \in HostKeys, Seal(n, to, key)
      PROVE  PathsInv'
  BY <1>1, <1>5, SealPaths
<1>6. ASSUME NEW to \in Ends, NEW key \in HostKeys, Encrypt(to, key)
      PROVE  PathsInv'
  BY <1>1, <1>6, EncryptPaths
<1>7. CASE Wrap
  BY <1>1, <1>7, WrapPaths
<1>8. CASE Restart
  BY <1>8, RestartPaths
<1>9. CASE Serve
  BY <1>9 DEF Serve, PathsInv
<1>10. CASE Open
  BY <1>1, <1>10, OpenPaths
<1> QED BY <1>2, <1>3, <1>4, <1>5, <1>6, <1>7, <1>8, <1>9, <1>10 DEF Next

LEMMA PathsAlways == Spec => [](OutboxInv /\ PathsInv)
<1>1. OutboxInv /\ PathsInv /\ UNCHANGED vars => PathsInv'
  BY PathsUnchanged DEF vars
<1>2. OutboxInv /\ PathsInv /\ [Next]_vars => PathsInv'
  BY <1>1, PathsStep
<1> QED BY <1>2, PathsInit, OutboxAlways, PTL DEF Spec

(* A message sealed into a packet and a packet built at once carry the same*)
(* bytes, and are too long for a packet at the same length.                *)
THEOREM BothPathsAgree == Spec => []PathsAgree
<1>1. ASSUME OutboxInv, PathsInv PROVE PathsAgree
  <2>1. phase = "packet" /\ stamp = <<>> => Last(sealed).plain = DirectPlain(message)
    BY <1>1 DEF PathsInv
  <2>2. ASSUME phase = "packed", Framed(buffer, len, {148})
        PROVE  SealOpportunistic(buffer, len, "recipient", 1).error = "TooLong"
                 <=> BuildOpportunistic(buffer, message, 1).call.error = "TooLong"
    <3>1. /\ Carries(buffer, len, message) /\ message \in Messages
          /\ SubSeq(buffer, 1, HashLength) = DestHash("recipient")
      BY <1>1, <2>2 DEF PathsInv, OutboxInv, HostInv, PhaseInv
    <3>2. Framed(buffer, len, {148, 149})
      <4>1. \A c : c \in {<<"byte", m>> : m \in {148}} => c \in {<<"byte", m>> : m \in {148, 149}}
        OBVIOUS
      <4> QED BY <2>2, <4>1 DEF Framed
    <3>3. SealOpportunistic(buffer, len, "recipient", 1).error = "TooLong"
            <=> len - HashLength > MaxPlaintext
      BY <3>1, <3>2, SealVerdict
    <3>4. FieldSetError(message.fields) = "ok" /\ len = HashLength + Len(DirectPlain(message))
      BY <3>1 DEF Carries
    <3>5. BuildOpportunistic(buffer, message, 1).call.error = "TooLong"
            <=> Len(PackPayload(message)) > MaxPayload
      BY <3>4, PacketVerdict
    <3> DEFINE k == Len(PackPayload(message))
    <3>6. k \in Nat /\ Len(DirectPlain(message)) = HashLength + SignatureLength + k
      BY <3>1, <3>4, PlainIsListed DEF OfSize
    <3> HIDE DEF k
    <3>7. len - HashLength > MaxPlaintext <=> k > MaxPayload
      BY <3>4, <3>6, LengthFacts DEF MaxPayload
    <3> QED BY <3>3, <3>5, <3>7 DEF k
  <2> QED BY <2>1, <2>2 DEF PathsAgree
<1>2. OutboxInv /\ PathsInv => PathsAgree
  BY <1>1
<1> QED BY <1>2, PathsAlways, PTL

(* From here on the lengths are cited where they matter.                   *)
HIDE LengthAssumption

-----------------------------------------------------------------------------
(* A bin header of any length the model tells apart, byte by byte.         *)
BinLead(h, n) ==
  /\ h \in Seq(Byte)
  /\ \/ Len(h) = 2 /\ h[1] = 196 /\ h[2] = n
     \/ Len(h) = 3 /\ h[1] = 197 /\ 256 * h[2] + h[3] = n
     \/ Len(h) = 5 /\ h[1] = 198 /\ h[2] = 0 /\ 65536 * h[3] + 256 * h[4] + h[5] = n

LEMMA BinLeadBytes ==
  ASSUME NEW n \in Nat, n < Huge
  PROVE  BinLead(BinHeader(n), n)
<1>1. CASE n < 65536
  <2>1. n \in Bin16
    BY <1>1 DEF Bin16
  <2>2. BinHeader(n) \in Seq(Byte) /\ IsBinHeader(BinHeader(n), 0, n)
    BY <2>1, BinHeaderBytes
  <2> DEFINE h == BinHeader(n)
  <2> HIDE DEF h
  <2>3. h \in Seq(Byte) /\ IsBinHeader(h, 0, n)
    BY <2>2 DEF h
  <2>4. BinLead(h, n)
    BY <2>3 DEF IsBinHeader, BinLead
  <2> QED BY <2>4 DEF h
<1>2. CASE ~ (n < 65536)
  <2> DEFINE c == n \div 16777216
             d == n \div 65536 % 256
             e == n \div 256 % 256
             l == n % 256
  <2>1. BinHeader(n) = <<198, c, d, e, l>>
    BY <1>2, SMT DEF BinHeader
  <2>2. c = 0
    BY <1>2, SMT DEF Huge
  <2>3. /\ d \in Nat /\ d < 256 /\ e \in Nat /\ e < 256 /\ l \in Nat /\ l < 256
        /\ 65536 * d + 256 * e + l = n
    <3>1. PICK x : x = n \div 256
      OBVIOUS
    <3>2. x \in Nat /\ n = 256 * x + l /\ l \in Nat /\ l < 256 /\ x < 65536
      BY <3>1, SMT DEF Huge
    <3>3. PICK y : y = x \div 256
      OBVIOUS
    <3>4. y \in Nat /\ y < 256 /\ x = 256 * y + e /\ e \in Nat /\ e < 256
      BY <3>1, <3>2, <3>3, SMT
    <3>5. n \div 65536 = y
      BY <3>2, <3>4, SMT
    <3>6. d = y
      BY <3>4, <3>5, SMT
    <3> HIDE DEF d, e, l
    <3> QED BY <3>2, <3>4, <3>6
  <2>4. 198 \in Byte /\ 0 \in Byte
    BY DEF Byte
  <2> HIDE DEF c, d, e, l
  <2>5. d \in Byte /\ e \in Byte /\ l \in Byte
    BY <2>3 DEF Byte
  <2> DEFINE h == <<198, 0, d, e, l>>
  <2>6. h \in Seq(Byte) /\ Len(h) = 5 /\ h[1] = 198 /\ h[2] = 0 /\ h[3] = d /\ h[4] = e /\ h[5] = l
    <3> HIDE DEF Byte
    <3> QED BY <2>4, <2>5
  <2> HIDE DEF h
  <2>7. BinLead(h, n)
    BY <2>3, <2>6 DEF BinLead
  <2>8. BinHeader(n) = h
    BY <2>1, <2>2 DEF h
  <2> QED BY <2>7, <2>8
<1> QED BY <1>1, <1>2

(* What a bin holds is read back wherever it lies.                         *)
ReadsBin(b, p, t, e) ==
  /\ Readable(b, p) /\ IsBlob(b[p]) /\ OwnEnd(b, p) = e /\ ReadBin(b, p) = e
  /\ SubSeq(b, p + 1 + LengthBytes(b[p]), e - 1) = t

LEMMA BinBytes ==
  ASSUME NEW t \in Seq(Byte), Len(t) < Huge
  PROVE  BinLead(BinHeader(Len(t)), Len(t)) /\ Joined(Bin(t), BinHeader(Len(t)), t)
<1>1. BinLead(BinHeader(Len(t)), Len(t))
  BY BinLeadBytes
<1> DEFINE h == BinHeader(Len(t))
<1>2. h \in Seq(Byte)
  BY <1>1 DEF BinLead
<1>3. Bin(t) = h \o t
  BY DEF Bin
<1> HIDE DEF h
<1>4. Joined(h \o t, h, t)
  BY <1>2, JoinBytes
<1> QED BY <1>1, <1>3, <1>4 DEF h

LEMMA BinReads ==
  ASSUME NEW b \in Seq(Byte), NEW p \in Position, NEW t \in Seq(Byte), Len(t) < Huge,
         LiesIn(Bin(t), b, p), NEW e, e = p + Len(Bin(t))
  PROVE  ReadsBin(b, p, t, e)
<1> DEFINE n == Len(t)
           h == BinHeader(n)
           u == Bin(t)
<1>1. BinLead(h, n) /\ Joined(u, h, t)
  BY BinBytes
<1>2. n \in Nat /\ p \in Nat /\ p >= 1
  BY DEF Position
<1> HIDE DEF h, u
<1>3. h \in Seq(Byte) /\ Len(h) \in {2, 3, 5}
  BY <1>1 DEF BinLead
<1>4. /\ Len(u) = Len(h) + n /\ \A i \in 1 .. Len(h) : b[p + i - 1] = h[i]
      /\ \A i \in 1 .. n : b[p + Len(h) + i - 1] = t[i]
      /\ p + Len(h) + n <= Len(b) + 1 /\ u \in Seq(Byte)
  <2>1. Len(u) = Len(h) + n /\ LiesIn(u, b, p) /\ u \in Seq(Byte)
    BY <1>1 DEF Joined, u, n
  <2>2. ASSUME NEW i \in 1 .. Len(h) PROVE b[p + i - 1] = h[i]
    <3>1. i \in 1 .. Len(u) /\ u[i] = h[i]
      BY <1>1, <1>2, <1>3, <2>1 DEF Joined
    <3> QED BY <2>1, <3>1 DEF LiesIn
  <2>3. ASSUME NEW i \in 1 .. n PROVE b[p + Len(h) + i - 1] = t[i]
    <3>1. Len(h) + i \in 1 .. Len(u) /\ u[Len(h) + i] = t[i]
      BY <1>1, <1>2, <1>3, <2>1 DEF Joined
    <3>2. p + (Len(h) + i) - 1 = p + Len(h) + i - 1
      BY <1>2, <1>3
    <3> QED BY <2>1, <3>1, <3>2 DEF LiesIn
  <2> QED BY <1>2, <1>3, <2>1, <2>2, <2>3 DEF LiesIn
<1>5. /\ Len(h) = 1 + LengthBytes(b[p]) /\ IsBlob(b[p]) /\ NumberBody(b[p]) = 0
      /\ Announced(b, p) = n
  <2>1. CASE Len(h) = 2
    <3>1. b[p] = 196 /\ b[p + 1] = n
      <4>1. h[1] = 196 /\ h[2] = n
        BY <1>1, <2>1 DEF BinLead
      <4>2. b[p + 1 - 1] = h[1] /\ b[p + 2 - 1] = h[2]
        BY <1>4, <2>1
      <4>3. p + 1 - 1 = p /\ p + 2 - 1 = p + 1
        BY <1>2
      <4> QED BY <4>1, <4>2, <4>3
    <3>2. LengthBytes(196) = 1 /\ IsBlob(196) /\ NumberBody(196) = 0
      BY DEF LengthBytes, IsBlob, NumberBody
    <3>3. Announced(b, p) = BigEndian(b, p + 1, 1)
      BY <3>1, <3>2 DEF Announced
    <3>4. BigEndian(b, p + 1, 1) = b[p + 1]
      BY DEF BigEndian
    <3> QED BY <2>1, <3>1, <3>2, <3>3, <3>4
  <2>2. CASE Len(h) = 3
    <3>1. b[p] = 197 /\ 256 * b[p + 1] + b[p + 1 + 1] = n
      <4>1. h[1] = 197 /\ 256 * h[2] + h[3] = n
        BY <1>1, <2>2 DEF BinLead
      <4>2. b[p + 1 - 1] = h[1] /\ b[p + 2 - 1] = h[2] /\ b[p + 3 - 1] = h[3]
        BY <1>4, <2>2
      <4>3. p + 1 - 1 = p /\ p + 2 - 1 = p + 1 /\ p + 3 - 1 = p + 1 + 1
        BY <1>2
      <4> QED BY <4>1, <4>2, <4>3
    <3>2. LengthBytes(197) = 2 /\ IsBlob(197) /\ NumberBody(197) = 0
      BY DEF LengthBytes, IsBlob, NumberBody
    <3>3. Announced(b, p) = BigEndian(b, p + 1, 2)
      BY <3>1, <3>2 DEF Announced
    <3>4. BigEndian(b, p + 1, 2) = 256 * b[p + 1] + b[p + 1 + 1]
      BY DEF BigEndian
    <3> QED BY <2>2, <3>1, <3>2, <3>3, <3>4
  <2>3. CASE Len(h) = 5
    <3>1. b[p] = 198 /\ b[p + 1] = 0 /\ 65536 * b[p + 1 + 1] + 256 * b[p + 1 + 2] + b[p + 1 + 3] = n
      <4>1. h[1] = 198 /\ h[2] = 0 /\ 65536 * h[3] + 256 * h[4] + h[5] = n
        BY <1>1, <2>3 DEF BinLead
      <4>2. /\ b[p + 1 - 1] = h[1] /\ b[p + 2 - 1] = h[2] /\ b[p + 3 - 1] = h[3]
            /\ b[p + 4 - 1] = h[4] /\ b[p + 5 - 1] = h[5]
        BY <1>4, <2>3
      <4>3. /\ p + 1 - 1 = p /\ p + 2 - 1 = p + 1 /\ p + 3 - 1 = p + 1 + 1
            /\ p + 4 - 1 = p + 1 + 2 /\ p + 5 - 1 = p + 1 + 3
        BY <1>2
      <4>4. /\ b[p] = h[1] /\ b[p + 1] = h[2] /\ b[p + 1 + 1] = h[3]
            /\ b[p + 1 + 2] = h[4] /\ b[p + 1 + 3] = h[5]
        BY <4>2, <4>3, Zenon
      <4> QED BY <4>1, <4>4
    <3>2. LengthBytes(198) = 4 /\ IsBlob(198) /\ NumberBody(198) = 0
      BY DEF LengthBytes, IsBlob, NumberBody
    <3>3. Announced(b, p) = BigEndian(b, p + 1, 4)
      BY <3>1, <3>2 DEF Announced
    <3>4. BigEndian(b, p + 1, 4) = 65536 * b[p + 1 + 1] + 256 * b[p + 1 + 2] + b[p + 1 + 3]
      BY <3>1 DEF BigEndian
    <3> QED BY <2>3, <3>1, <3>2, <3>3, <3>4
  <2> QED BY <1>3, <2>1, <2>2, <2>3
<1>6. PICK k : k = Len(h)
  OBVIOUS
<1>7. PICK w : w = LengthBytes(b[p])
  OBVIOUS
<1>8. e = p + Len(u)
  BY DEF u
<1>9. /\ k \in Nat /\ k = 1 + w /\ k >= 2 /\ w \in Nat /\ e = p + k + n /\ e <= Len(b) + 1
      /\ p <= Len(b) /\ Len(b) \in Nat /\ e \in Nat
  <2>1. k \in {2, 3, 5} /\ k = 1 + w /\ e = p + (k + n) /\ p + k + n <= Len(b) + 1
    BY <1>3, <1>4, <1>5, <1>6, <1>7, <1>8
  <2>2. Len(b) \in Nat
    OBVIOUS
  <2>3. k \in Nat /\ k >= 2
    BY <2>1
  <2>4. w = k - 1
    <3>1. w \in Nat
      BY <1>7 DEF LengthBytes
    <3> QED BY <2>1, <3>1
  <2> QED BY <1>2, <2>1, <2>2, <2>3, <2>4
<1>10. OwnEnd(b, p) = e
  <2>1. OwnEnd(b, p) = p + 1 + w + 0 + n
    BY <1>5, <1>7 DEF OwnEnd
  <2> QED BY <1>2, <1>9, <2>1
<1>11. Readable(b, p)
  <2>1. p + w <= Len(b) /\ e <= Len(b) + 1 /\ p <= Len(b)
    BY <1>2, <1>9
  <2> QED BY <1>5, <1>7, <1>10, <2>1 DEF Readable
<1>12. ReadBin(b, p) = e
  <2> DEFINE header == 1 + LengthBytes(b[p])
             end    == p + header + Announced(b, p)
  <2>1. ReadBin(b, p) = IF p > Len(b) THEN Malformed
                        ELSE IF ~IsBlob(b[p]) \/ p + header > Len(b) + 1 THEN Malformed
                        ELSE IF end <= Len(b) + 1 THEN end ELSE Malformed
    BY DEF ReadBin
  <2>2. header = k /\ end = e
    BY <1>2, <1>5, <1>7, <1>9
  <2> HIDE DEF header, end
  <2>3. end <= Len(b) + 1 /\ ~ (p + header > Len(b) + 1) /\ ~ (p > Len(b))
    BY <1>2, <1>9, <2>2
  <2> QED BY <1>5, <2>1, <2>2, <2>3
<1>13. SubSeq(b, p + 1 + LengthBytes(b[p]), e - 1) = t
  <2>1. PICK q : q = p + k
    OBVIOUS
  <2>2. q \in Position /\ q <= e
    BY <1>2, <1>9, <2>1 DEF Position
  <2>3. e - q = n
    BY <1>2, <1>9, <2>1
  <2>4. p + 1 + LengthBytes(b[p]) = q
    BY <1>2, <1>7, <1>9, <2>1
  <2>5. PICK v : v = SubSeq(b, q, e - 1)
    OBVIOUS
  <2>6. v \in Seq(Byte) /\ Len(v) = e - q /\ \A i \in 1 .. e - q : v[i] = b[q + i - 1]
    BY <1>9, <2>2, <2>5, PartOf
  <2>7. v \in Seq(Byte) /\ Len(v) = n /\ \A i \in 1 .. n : v[i] = b[q + i - 1]
    BY <2>3, <2>6
  <2>8. \A i \in 1 .. n : v[i] = t[i]
    BY <1>4, <1>6, <2>1, <2>7
  <2>9. v = t
    BY <2>7, <2>8
  <2> QED BY <2>5, <2>9, <2>4
<1> QED BY <1>5, <1>11, <1>12, <1>13, <1>10, Zenon DEF ReadsBin

(* Fields that encoded_field_set accepts are few, their ids distinct and   *)
(* their values whole, so the writer finds an order for them.              *)
OrderedFields(sorted, n) ==
  /\ DOMAIN sorted = 1 .. n /\ n \in Nat /\ n <= MaxFields
  /\ \A i \in 1 .. n : sorted[i][1] \in Byte /\ sorted[i][2] \in Seq(Byte) /\ Whole(sorted[i][2], 1, 1)
  /\ \A i, j \in 1 .. n : i < j => sorted[i][1] < sorted[j][1]

LEMMA FieldsOrdered ==
  ASSUME NEW fields \in Seq(Byte \X Seq(Byte)), FieldSetError(fields) = "ok"
  PROVE  OrderedFields(Ascending(fields), Len(fields))
<1> DEFINE n        == Len(fields)
           repeated == {i \in DOMAIN fields : \E j \in 1 .. i - 1 : fields[j][1] = fields[i][1]}
           broken   == {i \in DOMAIN fields :
                          SkipValueAt(fields[i][2], 1, 1) # Len(fields[i][2]) + 1}
           id       == [i \in 1 .. n |-> fields[i][1]]
<1>1. n \in Nat /\ DOMAIN fields = 1 .. n /\ \A i \in 1 .. n : fields[i] \in Byte \X Seq(Byte)
  OBVIOUS
<1>2. \A i \in 1 .. n : fields[i][1] \in Byte /\ fields[i][2] \in Seq(Byte)
  <2> HIDE DEF Byte
  <2> QED BY <1>1
<1>3. repeated \cup broken = {} /\ ~ (Len(fields) > MaxFields)
  <2>1. FieldSetError(fields) = IF Len(fields) > MaxFields THEN "TooManyFields"
                                ELSE IF repeated \cup broken = {} THEN "ok"
                                ELSE IF Min(repeated \cup broken) \in repeated THEN "DuplicateField"
                                ELSE "MalformedPayload"
    BY DEF FieldSetError
  <2> HIDE DEF repeated, broken
  <2> QED BY <2>1
<1>4. \A a, b \in 1 .. n : a < b => fields[a][1] # fields[b][1]
  <2> SUFFICES ASSUME NEW a \in 1 .. n, NEW b \in 1 .. n, a < b, fields[a][1] = fields[b][1]
               PROVE  FALSE
    OBVIOUS
  <2>1. a \in 1 .. b - 1 /\ b \in DOMAIN fields
    BY <1>1
  <2>2. b \in repeated
    BY <2>1
  <2> QED BY <1>3, <2>2
<1>5. \A i \in 1 .. n : Whole(fields[i][2], 1, 1)
  <2> SUFFICES ASSUME NEW i \in 1 .. n PROVE Whole(fields[i][2], 1, 1)
    OBVIOUS
  <2>1. i \in DOMAIN fields /\ i \notin broken
    BY <1>1, <1>3
  <2> QED BY <2>1 DEF Whole, SkipValueAt
<1>6. \E p \in [DOMAIN fields -> DOMAIN fields] :
        \A i, j \in DOMAIN fields : i < j => fields[p[i]][1] < fields[p[j]][1]
  <2>1. \A i \in 1 .. n : id[i] = fields[i][1]
    OBVIOUS
  <2>2. id \in [1 .. n -> Nat]
    <3>1. Byte \subseteq Nat
      BY SMT DEF Byte
    <3> HIDE DEF Byte
    <3> QED BY <1>2, <3>1
  <2> HIDE DEF id
  <2>3. ASSUME NEW a \in 1 .. n, NEW b \in 1 .. n, a # b PROVE id[a] # id[b]
    <3>1. a < b \/ b < a
      BY <2>3
    <3> QED BY <1>4, <2>1, <3>1
  <2>4. PICK p \in [1 .. n -> 1 .. n] : Ascends(p, id, n)
    <3>1. Orders(id, n)
      BY <1>1, <2>2, <2>3, OrderExists
    <3> QED BY <3>1, Zenon DEF Orders
  <2>5. \A i, j \in 1 .. n : i < j => fields[p[i]][1] < fields[p[j]][1]
    BY <2>1, <2>4 DEF Ascends
  <2> QED BY <1>1, <2>4, <2>5
<1> DEFINE order == CHOOSE p \in [DOMAIN fields -> DOMAIN fields] :
                      \A i, j \in DOMAIN fields : i < j => fields[p[i]][1] < fields[p[j]][1]
           sorted == Ascending(fields)
<1>7. order \in [1 .. n -> 1 .. n] /\ \A i, j \in 1 .. n : i < j => fields[order[i]][1] < fields[order[j]][1]
  BY <1>1, <1>6
<1>8. sorted = [i \in 1 .. n |-> fields[order[i]]]
  BY <1>1 DEF Ascending
<1> HIDE DEF order, sorted, n
<1>9. DOMAIN sorted = 1 .. n /\ \A i \in 1 .. n : order[i] \in 1 .. n /\ sorted[i] = fields[order[i]]
  BY <1>7, <1>8
<1>10. \A i, j \in 1 .. n : i < j => sorted[i][1] < sorted[j][1]
  BY <1>7, <1>9
<1>11. \A i \in 1 .. n : sorted[i][1] \in Byte /\ sorted[i][2] \in Seq(Byte) /\ Whole(sorted[i][2], 1, 1)
  <2> HIDE DEF Byte
  <2> QED BY <1>2, <1>5, <1>9
<1>12. n <= MaxFields
  BY <1>1, <1>3, FieldsAssumption DEF n
<1>13. OrderedFields(sorted, n)
  BY <1>1, <1>9, <1>10, <1>11, <1>12 DEF OrderedFields
<1> QED BY <1>13 DEF sorted, n

(* Such a fields element is a map laid out by its entries.                 *)
IdBytes(s, id) == s \in Seq(Byte) /\ Len(s) = KeyWidth(id) /\ KeyAt(s, 1, id)

LEMMA IdIsBytes ==
  ASSUME NEW id \in Byte
  PROVE  IdBytes(FieldId8(id), id)
<1>1. id \in Nat /\ 204 \in Byte
  BY SMT DEF Byte
<1>2. CASE id <= 127
  <2>1. FieldId8(id) = <<id>>
    BY <1>2 DEF FieldId8
  <2>2. <<id>> \in Seq(Byte) /\ Len(<<id>>) = 1 /\ <<id>>[1] = id
    <3> HIDE DEF Byte
    <3> QED OBVIOUS
  <2>3. IdBytes(<<id>>, id)
    BY <1>2, <2>2 DEF IdBytes, KeyWidth, KeyAt
  <2> QED BY <2>1, <2>3
<1>3. CASE ~ (id <= 127)
  <2>1. FieldId8(id) = <<204, id>>
    BY <1>3 DEF FieldId8
  <2>2. <<204, id>> \in Seq(Byte) /\ Len(<<204, id>>) = 2 /\ <<204, id>>[1] = 204 /\ <<204, id>>[2] = id
    <3> HIDE DEF Byte
    <3> QED BY <1>1
  <2>3. 1 + 1 = 2
    OBVIOUS
  <2>4. IdBytes(<<204, id>>, id)
    BY <1>3, <2>2, <2>3 DEF IdBytes, KeyWidth, KeyAt
  <2> QED BY <2>1, <2>4
<1> QED BY <1>2, <1>3

(* One entry, wherever it lies.                                            *)
LEMMA EntryLies ==
  ASSUME NEW f \in Seq(Byte), NEW p \in Position, NEW id \in Byte, NEW v \in Seq(Byte), Whole(v, 1, 1),
         NEW u, u = FieldId8(id) \o v, LiesIn(u, f, p), NEW next, next = p + Len(u)
  PROVE  EntryAt(f, p, id, next)
<1>1. PICK a : a = FieldId8(id)
  OBVIOUS
<1>2. IdBytes(a, id)
  BY <1>1, IdIsBytes
<1>3. Joined(u, a, v)
  <2>1. u = a \o v /\ a \in Seq(Byte)
    BY <1>1, <1>2 DEF IdBytes
  <2> QED BY <2>1, JoinBytes
<1>4. PICK w : w = KeyWidth(id)
  OBVIOUS
<1>5. /\ w \in {1, 2} /\ Len(a) = w /\ KeyAt(a, 1, id) /\ Len(v) \in Nat /\ p \in Nat /\ 1 <= p
      /\ Len(u) = w + Len(v) /\ p + Len(u) <= Len(f) + 1
  BY <1>2, <1>3, <1>4 DEF IdBytes, KeyWidth, Joined, LiesIn, Position
<1>6. \A i \in 1 .. w : f[p + i - 1] = a[i]
  <2> SUFFICES ASSUME NEW i \in 1 .. w PROVE f[p + i - 1] = a[i]
    OBVIOUS
  <2>1. i \in 1 .. Len(u) /\ i \in 1 .. Len(a)
    BY <1>5
  <2> QED BY <1>3, <2>1 DEF Joined, LiesIn
<1>7. \A i \in 1 .. Len(v) : f[(p + w) + i - 1] = v[i]
  <2> SUFFICES ASSUME NEW i \in 1 .. Len(v) PROVE f[(p + w) + i - 1] = v[i]
    OBVIOUS
  <2>1. w + i \in 1 .. Len(u) /\ (p + w) + i - 1 = p + (w + i) - 1
    BY <1>5
  <2>2. u[w + i] = v[i]
    BY <1>3, <1>5 DEF Joined
  <2>3. f[p + (w + i) - 1] = u[w + i]
    BY <2>1 DEF LiesIn
  <2> QED BY <2>1, <2>2, <2>3
<1>8. KeyAt(f, p, id)
  <2>1. CASE id <= 127
    <3>1. w = 1 /\ a[1] = id /\ p + 1 - 1 = p
      BY <1>4, <1>5, <2>1 DEF KeyWidth, KeyAt
    <3>2. f[p + 1 - 1] = a[1]
      BY <1>6, <3>1
    <3> QED BY <2>1, <3>1, <3>2 DEF KeyAt
  <2>2. CASE ~ (id <= 127)
    <3>1. w = 2 /\ a[1] = 204 /\ a[2] = id
      <4>1. 1 + 1 = 2
        OBVIOUS
      <4> QED BY <1>4, <1>5, <2>2, <4>1 DEF KeyWidth, KeyAt
    <3>2. f[p + 1 - 1] = a[1] /\ f[p + 2 - 1] = a[2]
      BY <1>6, <3>1
    <3>3. p + 1 - 1 = p /\ p + 2 - 1 = p + 1
      BY <1>5
    <3> QED BY <2>2, <3>1, <3>2, <3>3 DEF KeyAt
  <2> QED BY <2>1, <2>2
<1>9. PICK q : q = p + w
  OBVIOUS
<1>10. q \in Position /\ q \in Nat
  BY <1>5, <1>9 DEF Position
<1>11. LiesIn(v, f, q)
  BY <1>5, <1>7, <1>9 DEF LiesIn
<1>12. Skip(f, q, 1, 1) = q + Len(v)
  <2>1. 1 \in Nat
    OBVIOUS
  <2> QED BY <1>10, <1>11, <2>1, SkipLocal
<1>13. next = q + Len(v)
  BY <1>5, <1>9
<1> QED BY <1>4, <1>8, <1>9, <1>12, <1>13 DEF EntryAt

MapHeader(n) == IF n < 16 THEN <<128 + n>> ELSE <<222, 0, n>>
Laid(f, n) == \E ids, at : IsLaid(f, ids, at, n)

LEMMA MapHeaderBytes ==
  ASSUME NEW n \in Nat, n <= 255
  PROVE  MapHeader(n) \in Seq(Byte) /\ MapHeader(n) # <<>> /\ CountAt(MapHeader(n), n, Len(MapHeader(n)) + 1)
<1>1. CASE n < 16
  <2>1. PICK c : c = 128 + n
    OBVIOUS
  <2>2. c \in Byte /\ c = 128 + n
    BY <1>1, <2>1 DEF Byte
  <2>3. MapHeader(n) = <<c>>
    BY <1>1, <2>1 DEF MapHeader
  <2>4. <<c>> \in Seq(Byte) /\ <<c>> # <<>> /\ Len(<<c>>) = 1 /\ <<c>>[1] = c
    <3> HIDE DEF Byte
    <3> QED BY <2>2
  <2>5. CountAt(<<c>>, n, 2)
    BY <1>1, <2>2, <2>4 DEF CountAt
  <2> QED BY <2>3, <2>4, <2>5
<1>2. CASE ~ (n < 16)
  <2>1. 222 \in Byte /\ 0 \in Byte /\ n \in Byte
    BY DEF Byte
  <2>2. MapHeader(n) = <<222, 0, n>>
    BY <1>2 DEF MapHeader
  <2> DEFINE h == <<222, 0, n>>
  <2>3. h \in Seq(Byte) /\ h # <<>> /\ Len(h) = 3 /\ h[1] = 222 /\ h[2] = 0 /\ h[3] = n
    <3> HIDE DEF Byte
    <3> QED BY <2>1
  <2> HIDE DEF h
  <2>4. CountAt(h, n, 4)
    BY <1>2, <2>3 DEF CountAt
  <2> QED BY <2>2, <2>3, <2>4 DEF h
<1> QED BY <1>1, <1>2

(* The count stays what it is when entries follow.                         *)
LEMMA CountFollowed ==
  ASSUME NEW h \in Seq(Byte), NEW n, CountAt(h, n, Len(h) + 1), NEW f, NEW g, Joined(f, h, g)
  PROVE  CountAt(f, n, Len(h) + 1)
<1>1. Len(h) \in Nat /\ \A i \in 1 .. Len(h) : f[i] = h[i]
  BY DEF Joined
<1>2. CASE n < 16 /\ h[1] = 128 + n /\ Len(h) + 1 = 2
  <2>1. 1 \in 1 .. Len(h)
    BY <1>1, <1>2
  <2> QED BY <1>1, <1>2, <2>1 DEF CountAt
<1>3. CASE h[1] = 222 /\ 256 * h[2] + h[3] = n /\ Len(h) + 1 = 4
  <2>1. 1 \in 1 .. Len(h) /\ 2 \in 1 .. Len(h) /\ 3 \in 1 .. Len(h)
    BY <1>1, <1>3
  <2>2. f[1] = h[1] /\ f[2] = h[2] /\ f[3] = h[3]
    BY <1>1, <2>1
  <2> QED BY <1>3, <2>2 DEF CountAt
<1> QED BY <1>2, <1>3 DEF CountAt

LEMMA FieldsLaid ==
  ASSUME MaxFields <= 255, NEW fields \in Seq(Byte \X Seq(Byte)), FieldSetError(fields) = "ok"
  PROVE  Laid(FieldsElement(fields), Len(fields))
<1> DEFINE n      == Len(fields)
           sorted == Ascending(fields)
           pieces == [i \in DOMAIN sorted |-> FieldId8(sorted[i][1]) \o sorted[i][2]]
           h      == MapHeader(n)
           flat   == FlattenSeq(pieces)
           f      == h \o flat
<1>1. FieldsElement(fields) = f
  BY DEF FieldsElement, MapHeader
<1>2. OrderedFields(sorted, n)
  BY FieldsOrdered
<1> HIDE DEF n, sorted, f, flat, h
<1>3. DOMAIN sorted = 1 .. n /\ n \in Nat /\ n <= MaxFields /\ n <= 255
  BY <1>2, FieldsAssumption DEF OrderedFields
<1>4. ASSUME NEW i \in 1 .. n
      PROVE  /\ pieces[i] = FieldId8(sorted[i][1]) \o sorted[i][2] /\ pieces[i] \in Seq(Byte)
             /\ sorted[i][1] \in Byte /\ sorted[i][2] \in Seq(Byte) /\ Whole(sorted[i][2], 1, 1)
  <2>1. sorted[i][1] \in Byte /\ sorted[i][2] \in Seq(Byte) /\ Whole(sorted[i][2], 1, 1)
    <3> HIDE DEF Byte
    <3> QED BY <1>2 DEF OrderedFields
  <2>2. FieldId8(sorted[i][1]) \in Seq(Byte)
    BY <2>1, IdIsBytes DEF IdBytes
  <2>3. Joined(FieldId8(sorted[i][1]) \o sorted[i][2], FieldId8(sorted[i][1]), sorted[i][2])
    BY <2>1, <2>2, JoinBytes
  <2>4. pieces[i] = FieldId8(sorted[i][1]) \o sorted[i][2]
    BY <1>3
  <2> QED BY <2>1, <2>3, <2>4 DEF Joined
<1>5. pieces \in Seq(Seq(Byte)) /\ Len(pieces) = n
  <2> DEFINE Strings8 == Seq(Byte)
  <2>1. pieces \in [1 .. n -> Strings8]
    BY <1>3, <1>4
  <2> HIDE DEF pieces, Strings8
  <2>2. pieces \in Seq(Strings8) /\ Len(pieces) = n
    BY <1>3, <2>1
  <2> QED BY <2>2 DEF Strings8
<1> HIDE DEF pieces
<1>6. flat \in Seq(Byte) /\ \E place \in [Nat -> Nat] : Placed(flat, pieces, place)
  <2> HIDE DEF Byte
  <2> QED BY <1>5, FlattenPlaces DEF flat
<1>7. PICK place \in [Nat -> Nat] : Placed(flat, pieces, place)
  BY <1>6
<1>8. h \in Seq(Byte) /\ h # <<>> /\ CountAt(h, n, Len(h) + 1)
  BY <1>3, MapHeaderBytes DEF h
<1>9. Joined(f, h, flat)
  BY <1>6, <1>8, JoinBytes DEF f
<1>10. PICK l : l = Len(h)
  OBVIOUS
<1>11. /\ l \in Nat /\ l >= 1 /\ Len(f) = l + Len(flat) /\ Len(flat) \in Nat /\ f \in Seq(Byte) /\ Len(f) \in Nat
       /\ \A i \in 1 .. Len(flat) : f[l + i] = flat[i]
  <2>1. l \in Nat /\ l >= 1 /\ Len(flat) \in Nat
    <3> HIDE DEF Byte
    <3>1. Len(flat) \in Nat
      BY <1>6
    <3>2. Len(h) \in Nat /\ Len(h) # 0
      BY <1>8, EmptySeq
    <3> QED BY <1>10, <3>1, <3>2
  <2> QED BY <1>9, <1>10, <2>1 DEF Joined
<1>12. /\ place[0] = 0 /\ place[n] = Len(flat) /\ \A k \in Nat : place[k] \in Nat
       /\ \A k \in Nat : k < n => place[k + 1] = place[k] + Len(pieces[k + 1]) /\ place[k + 1] <= Len(flat)
                                  /\ \A i \in 1 .. Len(pieces[k + 1]) : flat[place[k] + i] = pieces[k + 1][i]
  BY <1>5, <1>7 DEF Placed
<1> DEFINE at  == [k \in 1 .. n + 1 |-> l + 1 + place[k - 1]]
           ids == [k \in 1 .. n |-> sorted[k][1]]
<1>13. ids \in [1 .. n -> Byte] /\ \A k \in 1 .. n : ids[k] = sorted[k][1]
  <2> HIDE DEF Byte
  <2> QED BY <1>4
<1>14. ASSUME NEW k \in 1 .. n + 1 PROVE at[k] = l + 1 + place[k - 1] /\ at[k] \in Position
  <2>1. k - 1 \in Nat
    BY <1>3
  <2>2. place[k - 1] \in Nat
    BY <1>12, <2>1
  <2>3. at[k] = l + 1 + place[k - 1]
    OBVIOUS
  <2> HIDE DEF at
  <2>4. l + 1 + place[k - 1] \in Position
    <3>1. PICK x : x = place[k - 1]
      OBVIOUS
    <3>2. x \in Nat /\ l \in Nat
      BY <1>11, <2>2, <3>1
    <3>3. l + 1 + x \in Position
      BY <3>2 DEF Position
    <3> QED BY <3>1, <3>3
  <2> QED BY <2>3, <2>4
<1>15. at \in [1 .. n + 1 -> Position]
  BY <1>14
<1> HIDE DEF at, ids
<1>16. at[1] = Len(h) + 1 /\ at[1] <= Len(f) + 1 /\ at[n + 1] = Len(f) + 1
  <2>1. 1 \in 1 .. n + 1 /\ n + 1 \in 1 .. n + 1 /\ 1 - 1 = 0 /\ (n + 1) - 1 = n
    BY <1>3
  <2>2. at[1] = l + 1 + 0 /\ at[n + 1] = l + 1 + Len(flat)
    BY <1>12, <1>14, <2>1
  <2> QED BY <1>10, <1>11, <2>2
<1>17. CountAt(f, n, at[1])
  BY <1>8, <1>9, <1>16, CountFollowed
<1>18. ASSUME NEW k \in 1 .. n PROVE EntryAt(f, at[k], ids[k], at[k + 1])
  <2>1. PICK j : j = k - 1
    OBVIOUS
  <2>2. j \in Nat /\ j < n /\ j + 1 = k /\ k \in 1 .. n + 1 /\ k + 1 \in 1 .. n + 1 /\ (k + 1) - 1 = k
    BY <1>3, <2>1
  <2>3. PICK u : u = pieces[k]
    OBVIOUS
  <2>4. PICK p : p = at[k]
    OBVIOUS
  <2>5. p = l + 1 + place[j] /\ p \in Position /\ at[k + 1] = l + 1 + place[k] /\ place[j] \in Nat
    BY <1>12, <1>14, <2>1, <2>2, <2>4
  <2>6. /\ place[k] = place[j] + Len(u) /\ place[k] <= Len(flat)
        /\ \A i \in 1 .. Len(u) : flat[place[j] + i] = u[i]
    BY <1>12, <2>2, <2>3
  <2>7. u \in Seq(Byte) /\ u = FieldId8(sorted[k][1]) \o sorted[k][2]
    BY <1>4, <2>3
  <2>8. Len(u) \in Nat
    <3> HIDE DEF Byte
    <3>1. u \in Seq(Byte)
      BY <2>7
    <3> QED BY <3>1
  <2>9. at[k + 1] = p + Len(u) /\ p + Len(u) <= Len(f) + 1
    <3>1. PICK x : x = place[j]
      OBVIOUS
    <3>2. PICK y : y = place[k]
      OBVIOUS
    <3>3. x \in Nat /\ p = l + 1 + x /\ at[k + 1] = l + 1 + y /\ y = x + Len(u) /\ y <= Len(flat)
      BY <2>5, <2>6, <3>1, <3>2
    <3>4. PICK m : m = Len(u)
      OBVIOUS
    <3>5. m \in Nat /\ Len(f) = l + Len(flat) /\ l \in Nat /\ Len(flat) \in Nat
      BY <1>11, <2>8, <3>4
    <3> QED BY <3>3, <3>4, <3>5
  <2>10. LiesIn(u, f, p)
    <3>1. p + Len(u) <= Len(f) + 1
      BY <2>9
    <3>2. ASSUME NEW i \in 1 .. Len(u) PROVE f[p + i - 1] = u[i]
      <4>1. PICK x : x = place[j]
        OBVIOUS
      <4>2. x \in Nat /\ x + Len(u) <= Len(flat) /\ p = l + 1 + x /\ flat[x + i] = u[i]
        BY <2>5, <2>6, <4>1
      <4>3. x + i \in 1 .. Len(flat) /\ p + i - 1 = l + (x + i)
        BY <1>11, <2>8, <4>2
      <4> QED BY <1>11, <4>2, <4>3
    <3> QED BY <3>1, <3>2 DEF LiesIn
  <2>11. sorted[k][1] \in Byte /\ sorted[k][2] \in Seq(Byte) /\ Whole(sorted[k][2], 1, 1)
    BY <1>4
  <2>12. EntryAt(f, p, sorted[k][1], at[k + 1])
    BY <1>11, <2>5, <2>7, <2>9, <2>10, <2>11, EntryLies
  <2> QED BY <1>13, <2>4, <2>12
<1>19. ASSUME NEW j \in 1 .. n, NEW k \in 1 .. n, j # k PROVE ids[j] # ids[k]
  <2>1. j < k \/ k < j
    BY <1>19
  <2>2. ids[j] < ids[k] \/ ids[k] < ids[j]
    BY <1>2, <1>13, <2>1 DEF OrderedFields
  <2>3. PICK x : x = ids[j]
    OBVIOUS
  <2>4. PICK y : y = ids[k]
    OBVIOUS
  <2>5. x \in Byte /\ y \in Byte
    <3> HIDE DEF Byte
    <3> QED BY <1>13, <2>3, <2>4
  <2>6. x \in Nat /\ y \in Nat /\ (x < y \/ y < x)
    <3>1. x \in Nat /\ y \in Nat
      <4>1. Byte \subseteq Nat
        BY SMT DEF Byte
      <4> HIDE DEF Byte
      <4> QED BY <2>5, <4>1
    <3>2. x < y \/ y < x
      BY <2>2, <2>3, <2>4, Zenon
    <3> QED BY <3>1, <3>2
  <2>7. x # y
    BY <2>6
  <2> QED BY <2>3, <2>4, <2>7
<1>20. f # <<>>
  <2>1. Len(f) >= 1
    BY <1>11
  <2> QED BY <2>1
<1>21. IsLaid(f, ids, at, n)
  <2> HIDE DEF Byte
  <2> QED BY <1>3, <1>11, <1>13, <1>15, <1>16, <1>17, <1>18, <1>19, <1>20 DEF IsLaid
<1>22. Laid(f, n)
  BY <1>21, Zenon DEF Laid
<1> QED BY <1>1, <1>22 DEF n

(* The element of a native audio field is such a map too.                  *)
AudioParts(f, mode, u, w) ==
  /\ f \in Seq(Byte) /\ Len(f) = 3 + w + Len(u) /\ Len(u) \in Nat
  /\ f[1] = 129 /\ f[2] = 7 /\ f[3] = 146 /\ KeyAt(f, 4, mode) /\ LiesIn(u, f, 4 + w)

LEMMA AudioBytes ==
  ASSUME NEW mode \in Byte, NEW bytes \in Seq(Byte), Len(bytes) < Huge,
         NEW f, f = <<129, AudioId, 146>> \o FieldId8(mode) \o Bin(bytes)
  PROVE  AudioParts(f, mode, Bin(bytes), KeyWidth(mode))
<1>1. PICK a : a = <<129, AudioId, 146>>
  OBVIOUS
<1>2. a \in Seq(Byte) /\ Len(a) = 3 /\ a[1] = 129 /\ a[2] = 7 /\ a[3] = 146
  <2>1. 129 \in Byte /\ 7 \in Byte /\ 146 \in Byte
    BY DEF Byte
  <2> HIDE DEF Byte
  <2> QED BY <1>1, <2>1 DEF AudioId
<1>3. PICK i : i = FieldId8(mode)
  OBVIOUS
<1>4. PICK u : u = Bin(bytes)
  OBVIOUS
<1>5. PICK w : w = KeyWidth(mode)
  OBVIOUS
<1>6. IdBytes(i, mode) /\ u \in Seq(Byte) /\ i \in Seq(Byte) /\ Len(i) = w /\ KeyAt(i, 1, mode) /\ w \in {1, 2}
  <2>1. IdBytes(i, mode)
    BY <1>3, IdIsBytes
  <2>2. u \in Seq(Byte)
    BY <1>4, BinBytes DEF Joined
  <2> QED BY <1>5, <2>1, <2>2 DEF IdBytes, KeyWidth
<1>7. PICK g : g = a \o i
  OBVIOUS
<1>8. Joined(g, a, i)
  BY <1>2, <1>6, <1>7, JoinBytes
<1>9. f = g \o u /\ g \in Seq(Byte)
  BY <1>1, <1>3, <1>4, <1>7, <1>8 DEF Joined
<1>10. Joined(f, g, u)
  BY <1>6, <1>9, JoinBytes
<1>11. PICK m : m = Len(u)
  OBVIOUS
<1>12. m \in Nat
  <2> HIDE DEF Byte
  <2> QED BY <1>6, <1>11
<1>13. /\ f \in Seq(Byte) /\ Len(g) = 3 + w /\ Len(f) = 3 + w + m
       /\ \A j \in 1 .. 3 : g[j] = a[j]
       /\ \A j \in 1 .. w : g[3 + j] = i[j]
       /\ \A j \in 1 .. 3 + w : f[j] = g[j]
       /\ \A j \in 1 .. m : f[(3 + w) + j] = u[j]
  <2>1. /\ Len(g) = Len(a) + Len(i) /\ \A j \in 1 .. Len(a) : g[j] = a[j]
        /\ \A j \in 1 .. Len(i) : g[Len(a) + j] = i[j]
    BY <1>8 DEF Joined
  <2>2. Len(g) = 3 + w /\ (\A j \in 1 .. 3 : g[j] = a[j]) /\ \A j \in 1 .. w : g[3 + j] = i[j]
    BY <1>2, <1>6, <2>1
  <2>3. /\ f \in Seq(Byte) /\ Len(f) = Len(g) + Len(u) /\ \A j \in 1 .. Len(g) : f[j] = g[j]
        /\ \A j \in 1 .. Len(u) : f[Len(g) + j] = u[j]
    BY <1>10 DEF Joined
  <2>4. /\ Len(f) = (3 + w) + m /\ \A j \in 1 .. 3 + w : f[j] = g[j]
        /\ \A j \in 1 .. m : f[(3 + w) + j] = u[j]
    <3>1. PICK l : l = Len(g)
      OBVIOUS
    <3>2. l = 3 + w
      BY <2>2, <3>1
    <3>3. Len(f) = l + m /\ (\A j \in 1 .. l : f[j] = g[j]) /\ \A j \in 1 .. m : f[l + j] = u[j]
      BY <1>11, <2>3, <3>1, Zenon
    <3> QED BY <3>2, <3>3
  <2> QED BY <2>2, <2>3, <2>4
<1>14. f[1] = 129 /\ f[2] = 7 /\ f[3] = 146
  <2>1. 1 \in 1 .. 3 + w /\ 2 \in 1 .. 3 + w /\ 3 \in 1 .. 3 + w
    BY <1>6
  <2>2. f[1] = g[1] /\ f[2] = g[2] /\ f[3] = g[3]
    BY <1>13, <2>1
  <2>3. g[1] = a[1] /\ g[2] = a[2] /\ g[3] = a[3]
    BY <1>13
  <2> QED BY <1>2, <2>2, <2>3
<1>15. \A j \in 1 .. w : f[3 + j] = i[j]
  <2> SUFFICES ASSUME NEW j \in 1 .. w PROVE f[3 + j] = i[j]
    OBVIOUS
  <2>1. 3 + j \in 1 .. 3 + w
    BY <1>6
  <2> QED BY <1>13, <2>1
<1>16. KeyAt(f, 4, mode)
  <2>1. CASE mode <= 127
    <3>1. w = 1 /\ i[1] = mode
      BY <1>5, <1>6, <2>1 DEF KeyWidth, KeyAt
    <3>2. 1 \in 1 .. w /\ 3 + 1 = 4
      BY <3>1
    <3>3. f[3 + 1] = i[1]
      BY <1>15, <3>2, Zenon
    <3> QED BY <2>1, <3>1, <3>2, <3>3 DEF KeyAt
  <2>2. CASE ~ (mode <= 127)
    <3>1. w = 2 /\ i[1] = 204 /\ i[1 + 1] = mode
      BY <1>5, <1>6, <2>2 DEF KeyWidth, KeyAt
    <3>2. 1 \in 1 .. w /\ 2 \in 1 .. w /\ 3 + 1 = 4 /\ 3 + 2 = 4 + 1 /\ 1 + 1 = 2
      BY <3>1
    <3>3. f[3 + 1] = i[1] /\ f[3 + 2] = i[2]
      BY <1>15, <3>2, Zenon
    <3> QED BY <2>2, <3>1, <3>2, <3>3 DEF KeyAt
  <2> QED BY <2>1, <2>2
<1>17. LiesIn(u, f, 4 + w)
  <2>1. (4 + w) + m <= Len(f) + 1
    <3>1. PICK l : l = Len(f)
      OBVIOUS
    <3>2. l = 3 + w + m /\ w \in {1, 2}
      BY <1>6, <1>13, <3>1
    <3>3. (4 + w) + m <= l + 1
      BY <1>12, <3>2
    <3> QED BY <3>1, <3>3
  <2>2. ASSUME NEW j \in 1 .. m PROVE f[(4 + w) + j - 1] = u[j]
    <3>1. (4 + w) + j - 1 = (3 + w) + j
      BY <1>6
    <3> QED BY <1>13, <3>1
  <2> QED BY <1>11, <2>1, <2>2 DEF LiesIn
<1>18. AudioParts(f, mode, u, w)
  BY <1>11, <1>12, <1>13, <1>14, <1>16, <1>17 DEF AudioParts
<1> QED BY <1>4, <1>5, <1>18

LEMMA AudioLaid ==
  ASSUME MaxDepth >= 2, MaxFields >= 1, NEW a, a.mode \in Byte, a.bytes \in Seq(Byte), Len(a.bytes) < Huge
  PROVE  Laid(AudioElement(a), 1)
<1> USE DepthAssumption, FieldsAssumption
<1>1. PICK f : f = AudioElement(a)
  OBVIOUS
<1>2. PICK mode \in Byte : mode = a.mode
  BY Zenon
<1>3. PICK u : u = Bin(a.bytes)
  OBVIOUS
<1>4. PICK w : w = KeyWidth(mode)
  OBVIOUS
<1>5. /\ f \in Seq(Byte) /\ Len(f) = 3 + w + Len(u) /\ Len(u) \in Nat
      /\ f[1] = 129 /\ f[2] = 7 /\ f[3] = 146 /\ KeyAt(f, 4, mode) /\ LiesIn(u, f, 4 + w)
  <2>1. f = <<129, AudioId, 146>> \o FieldId8(mode) \o Bin(a.bytes)
    BY <1>1, <1>2 DEF AudioElement
  <2>2. PICK bytes \in Seq(Byte) : bytes = a.bytes
    BY Zenon
  <2>3. f = <<129, AudioId, 146>> \o FieldId8(mode) \o Bin(bytes) /\ Len(bytes) < Huge /\ u = Bin(bytes)
    BY <1>3, <2>1, <2>2
  <2>4. AudioParts(f, mode, u, w)
    BY <1>4, <2>3, AudioBytes, Zenon
  <2> QED BY <2>4 DEF AudioParts
<1>6. PICK e : e = Len(f) + 1
  OBVIOUS
<1>7. PICK q : q = 4 + w
  OBVIOUS
<1>8. /\ e \in Position /\ q \in Position /\ 3 \in Position /\ 4 \in Position /\ 2 \in Position
      /\ q + Len(u) = e /\ 4 + w <= Len(f) + 1 /\ 3 <= Len(f)
      /\ q # Malformed /\ e # Malformed
  BY <1>4, <1>5, <1>6, <1>7 DEF Position, KeyWidth, Malformed
<1>9. /\ 1 \in Nat /\ 2 \in Nat /\ 0 \in Nat /\ 1 + 1 = 2 /\ 1 - 1 = 0 /\ 0 + 1 = 1 /\ 2 <= MaxDepth /\ 1 <= MaxDepth
      /\ 1 > 0 /\ 3 + 1 = 4
  OBVIOUS
<1>10. SkipValueAt(f, 4, 2) = q
  <2>1. 4 + KeyWidth(mode) <= Len(f) + 1
    BY <1>4, <1>8
  <2>2. ReadsId(f, 4, mode)
    BY <1>5, <1>8, <2>1, IdRead
  <2>3. Readable(f, 4) /\ IsScalar(f[4]) /\ OwnEnd(f, 4) = q
    BY <1>4, <1>7, <2>2 DEF ReadsId
  <2> QED BY <1>5, <1>8, <1>9, <2>3, BlobEnd
<1>11. SkipValueAt(f, q, 2) = e
  <2>1. ReadsBin(f, q, a.bytes, e)
    BY <1>3, <1>5, <1>7, <1>8, BinReads
  <2> QED BY <1>5, <1>8, <1>9, <2>1, BlobEnd DEF ReadsBin
<1>12. Skip(f, 4, 2, 2) = e
  <2>1. Skip(f, 4, 1 + 1, 2) = Skip(f, q, 1, 2)
    BY <1>5, <1>8, <1>9, <1>10, SkipNext
  <2> QED BY <1>9, <1>11, <2>1 DEF SkipValueAt
<1>13. Readable(f, 3) /\ OwnEnd(f, 3) = 4 /\ Items(f, 3) = 2
  <2>1. f[3] = 144 + 2 /\ 2 <= 15
    BY <1>5
  <2>2. ReadsAsArray(f, 3, 2)
    BY <1>5, <1>8, <1>9, <2>1, SmallArrayRead
  <2> QED BY <1>9, <2>2 DEF ReadsAsArray
<1>14. Skip(f, 3, 1, 1) = e
  <2>1. Skip(f, OwnEnd(f, 3), Items(f, 3), 1 + 1) = e
    BY <1>9, <1>12, <1>13
  <2>2. Skip(f, 3, 1, 1) = Skip(f, e, 1 - 1, 1)
    BY <1>5, <1>8, <1>9, <1>13, <2>1, SkipOne
  <2>3. Skip(f, e, 0, 1) = e
    BY <1>5, <1>8, <1>9, SkipNone
  <2> QED BY <1>9, <2>2, <2>3
<1> DEFINE ids == [k \in 1 .. 1 |-> 7]
           at  == [k \in 1 .. 1 + 1 |-> IF k = 1 THEN 2 ELSE e]
<1>15. 7 \in Byte
  BY DEF Byte
<1>16. ids \in [1 .. 1 -> Byte] /\ ids[1] = 7
  <2> HIDE DEF Byte
  <2> QED BY <1>15
<1>17. at \in [1 .. 1 + 1 -> Position] /\ at[1] = 2 /\ at[1 + 1] = e
  <2> HIDE DEF Position
  <2> QED BY <1>8
<1> HIDE DEF ids, at
<1>18. EntryAt(f, 2, 7, e)
  <2>1. KeyWidth(7) = 1 /\ KeyAt(f, 2, 7) /\ 2 + 1 = 3
    BY <1>5 DEF KeyWidth, KeyAt
  <2> QED BY <1>14, <2>1 DEF EntryAt
<1>19. CountAt(f, 1, 2)
  BY <1>5 DEF CountAt
<1>20. f # <<>> /\ 2 <= Len(f) + 1
  <2>1. Len(f) >= 3
    BY <1>8
  <2> QED BY <2>1
<1>21. \A k \in 1 .. 1 : k = 1
  OBVIOUS
<1>22. IsLaid(f, ids, at, 1)
  <2> HIDE DEF Byte, Position
  <2>1. \A k \in 1 .. 1 : EntryAt(f, at[k], ids[k], at[k + 1])
    BY <1>16, <1>17, <1>18, <1>21
  <2>2. \A j, k \in 1 .. 1 : j # k => ids[j] # ids[k]
    BY <1>21
  <2> QED BY <1>5, <1>6, <1>9, <1>16, <1>17, <1>19, <1>20, <2>1, <2>2 DEF IsLaid
<1>23. Laid(f, 1)
  BY <1>22, Zenon DEF Laid
<1> QED BY <1>1, <1>23

(* The payload of a message that a builder accepts, part by part: the lead,*)
(* title, content and fields, from offset o of b.                          *)
Packable(m) == m \in Messages /\ FieldSetError(m.fields) = "ok" /\ Len(PackPayload(m)) < Huge
TitleEnd(m)   == 11 + Len(Bin(m.title))
ContentEnd(m) == TitleEnd(m) + Len(Bin(m.content))
Layout(b, o, m) ==
  /\ b[o + 2] = 203 /\ LiesIn(Bin(m.title), b, o + 11)
  /\ LiesIn(Bin(m.content), b, o + TitleEnd(m)) /\ LiesIn(OuterFields(m), b, o + ContentEnd(m))


(* What lies in a string lies in it when more follows, which lies there too.*)
LEMMA JoinLies ==
  ASSUME NEW a \in Seq(Byte), NEW b \in Seq(Byte), NEW ab, Joined(ab, a, b), NEW n, n = Len(a) + 1
  PROVE  /\ LiesIn(b, ab, n)
         /\ \A u, p : p \in Position /\ Len(u) \in Nat /\ LiesIn(u, a, p) => LiesIn(u, ab, p)
<1>1. PICK k \in Nat : k = Len(a)
  OBVIOUS
<1>2. PICK l \in Nat : l = Len(b)
  OBVIOUS
<1>3. Len(ab) = k + l /\ \A i \in 1 .. k : ab[i] = a[i]
  BY <1>1, <1>2 DEF Joined
<1>4. \A i \in 1 .. l : ab[k + i] = b[i]
  BY <1>1, <1>2 DEF Joined
<1>5. LiesIn(b, ab, n)
  <2>1. n + l <= Len(ab) + 1
    BY <1>1, <1>2, <1>3
  <2>2. ASSUME NEW i \in 1 .. l PROVE ab[n + i - 1] = b[i]
    <3>1. n + i - 1 = k + i
      BY <1>1
    <3> QED BY <1>4, <3>1
  <2> QED BY <1>2, <2>1, <2>2 DEF LiesIn
<1>6. ASSUME NEW u, NEW p, p \in Position, Len(u) \in Nat, LiesIn(u, a, p) PROVE LiesIn(u, ab, p)
  <2>1. PICK w \in Nat : w = Len(u)
    BY <1>6
  <2>2. p \in Nat /\ p >= 1 /\ p + w <= k + 1 /\ \A i \in 1 .. w : a[p + i - 1] = u[i]
    BY <1>1, <1>6, <2>1 DEF LiesIn, Position
  <2>3. p + w <= Len(ab) + 1
    BY <1>2, <1>3, <2>2
  <2>4. ASSUME NEW i \in 1 .. w PROVE ab[p + i - 1] = u[i]
    <3>1. p + i - 1 \in 1 .. k
      BY <2>2
    <3> QED BY <1>3, <2>2, <3>1
  <2> QED BY <2>1, <2>3, <2>4 DEF LiesIn
<1> QED BY <1>5, <1>6, Zenon

(* No part is longer than the whole; so the parts are bytes.               *)
LEMMA PartsAreSmall ==
  ASSUME NEW m, Packable(m)
  PROVE  /\ m.title \in Seq(Byte) /\ m.content \in Seq(Byte)
         /\ Len(m.title) < Huge /\ Len(m.content) < Huge /\ Len(OuterFields(m)) < Huge
<1>1. m \in Messages /\ FieldSetError(m.fields) = "ok" /\ Len(PackPayload(m)) < Huge
  BY DEF Packable
<1>2. m.title \in Seq(Byte) /\ m.content \in Seq(Byte)
  BY <1>1, MessageParts
<1>3. PICK t \in Nat : t = Len(Bin(m.title))
  BY <1>2, BinIsLonger
<1>4. PICK c \in Nat : c = Len(Bin(m.content))
  BY <1>2, BinIsLonger
<1>5. PICK f \in Nat : f = Len(OuterFields(m))
  BY <1>1, OuterIsNumbers
<1>6. PICK x \in Nat : x = Len(m.title)
  BY <1>2, BinIsLonger
<1>7. PICK y \in Nat : y = Len(m.content)
  BY <1>2, BinIsLonger
<1>8. x <= t /\ y <= c
  BY <1>2, <1>3, <1>4, <1>6, <1>7, BinIsLonger
<1>9. ((10 + t) + c) + f < Huge
  BY <1>1, <1>3, <1>4, <1>5, PayloadIsNumbers
<1>10. x < Huge /\ y < Huge /\ f < Huge
  BY <1>8, <1>9 DEF Huge
<1> QED BY <1>2, <1>5, <1>6, <1>7, <1>10

LEMMA OuterLaid ==
  ASSUME NEW m, Packable(m)
  PROVE  \E n : Laid(OuterFields(m), n)
<1>1. m \in Messages /\ FieldSetError(m.fields) = "ok" /\ Len(OuterFields(m)) < Huge
  BY PartsAreSmall DEF Packable
<1>2. /\ m.fields \in Seq(Byte \X Seq(Byte))
      /\ m.audio # <<>> => m.audio[1].mode \in Byte /\ m.audio[1].bytes \in Seq(Byte)
  BY <1>1, MessageParts
<1>3. CASE m.audio # <<>>
  <2>1. PICK a : a = m.audio[1]
    OBVIOUS
  <2>2. a.mode \in Byte /\ a.bytes \in Seq(Byte) /\ OuterFields(m) = AudioElement(a)
    BY <1>2, <1>3, <2>1 DEF OuterFields
  <2>3. /\ Len(AudioElement(a)) \in Nat /\ Len(a.bytes) \in Nat
        /\ Len(a.bytes) <= Len(AudioElement(a))
    BY <2>2, AudioIsNumbers
  <2>4. PICK x \in Nat : x = Len(a.bytes)
    BY <2>3
  <2>5. PICK y \in Nat : y = Len(AudioElement(a))
    BY <2>3
  <2>6. y < Huge /\ x <= y
    BY <1>1, <2>2, <2>3, <2>4, <2>5
  <2>7. x < Huge
    BY <2>6 DEF Huge
  <2>8. Laid(AudioElement(a), 1)
    BY <2>2, <2>4, <2>7, AudioLaid, UploadAssumption, SizeAssumption
  <2> QED BY <2>2, <2>8
<1>4. CASE m.audio = <<>>
  <2>1. Laid(FieldsElement(m.fields), Len(m.fields))
    BY <1>1, <1>2, FieldsLaid, SizeAssumption
  <2> QED BY <1>4, <2>1 DEF OuterFields
<1> QED BY <1>3, <1>4

(* The payload that is packed is laid out so, and nothing follows.         *)
PayloadOf(p, m) ==
  /\ p \in Seq(Byte) /\ p[1] = 148 /\ Layout(p, 0, m)
  /\ Len(p) + 1 = ContentEnd(m) + Len(OuterFields(m))

LEMMA PayloadLaid ==
  ASSUME NEW m, Packable(m)
  PROVE  PayloadOf(PackPayload(m), m)
<1>1. /\ m.title \in Seq(Byte) /\ m.content \in Seq(Byte)
      /\ Len(m.title) < Huge /\ Len(m.content) < Huge
  BY PartsAreSmall
<1>2. PICK t : t = Bin(m.title)
  OBVIOUS
<1>3. PICK c : c = Bin(m.content)
  OBVIOUS
<1>4. PICK f : f = OuterFields(m)
  OBVIOUS
<1>5. t \in Seq(Byte) /\ c \in Seq(Byte)
  BY <1>1, <1>2, <1>3, BinBytes, Zenon DEF Joined
<1>6. f \in Seq(Byte)
  <2>1. PICK n : Laid(OuterFields(m), n)
    BY OuterLaid
  <2> QED BY <1>4, <2>1, Zenon DEF Laid, IsLaid
<1>7. PICK lead : lead = <<148, 203>> \o Timestamp
  OBVIOUS
<1>8. lead \in Seq(Byte) /\ Len(lead) = 10 /\ lead[1] = 148 /\ lead[2] = 203
  <2>1. PICK x : x = <<148, 203>>
    OBVIOUS
  <2>2. x \in Seq(Byte) /\ Len(x) = 2 /\ x[1] = 148 /\ x[2] = 203
    <3>1. 148 \in Byte /\ 203 \in Byte
      BY DEF Byte
    <3> HIDE DEF Byte
    <3> QED BY <2>1, <3>1
  <2>3. Timestamp \in Seq(Byte) /\ Len(Timestamp) = 8
    <3>1. 65 \in Byte /\ 218 \in Byte /\ 19 \in Byte /\ 64 \in Byte /\ 120 \in Byte /\ 0 \in Byte
      BY DEF Byte
    <3> HIDE DEF Byte
    <3> QED BY <3>1 DEF Timestamp
  <2>4. Joined(lead, x, Timestamp)
    BY <1>7, <2>1, <2>2, <2>3, JoinBytes
  <2>5. lead \in Seq(Byte) /\ Len(lead) = Len(x) + Len(Timestamp) /\ \A i \in 1 .. Len(x) : lead[i] = x[i]
    BY <2>4 DEF Joined
  <2>6. 1 \in 1 .. Len(x) /\ 2 \in 1 .. Len(x)
    BY <2>2
  <2> QED BY <2>2, <2>3, <2>5, <2>6
<1>9. PICK first : first = lead \o t
  OBVIOUS
<1>10. Joined(first, lead, t)
  BY <1>5, <1>8, <1>9, JoinBytes
<1>11. PICK second : second = first \o c
  OBVIOUS
<1>12. first \in Seq(Byte) /\ Joined(second, first, c)
  BY <1>5, <1>10, <1>11, JoinBytes DEF Joined
<1>13. PICK p : p = second \o f
  OBVIOUS
<1>14. second \in Seq(Byte) /\ Joined(p, second, f)
  BY <1>6, <1>12, <1>13, JoinBytes DEF Joined
<1>15. p = PackPayload(m)
  BY <1>2, <1>3, <1>4, <1>7, <1>9, <1>11, <1>13, Zenon DEF PackPayload
<1>16. PICK x \in Nat : x = Len(t)
  BY <1>5
<1>17. PICK y \in Nat : y = Len(c)
  BY <1>5
<1>18. PICK z \in Nat : z = Len(f)
  BY <1>6
<1>19. Len(first) = 10 + x /\ Len(second) = (10 + x) + y /\ Len(p) = ((10 + x) + y) + z
  BY <1>8, <1>10, <1>12, <1>14, <1>16, <1>17, <1>18 DEF Joined
<1>20. /\ 11 \in Position /\ 11 + x \in Position /\ (11 + x) + y \in Position
       /\ 11 = Len(lead) + 1 /\ 11 + x = Len(first) + 1 /\ (11 + x) + y = Len(second) + 1
  BY <1>8, <1>19 DEF Position
<1>21. LiesIn(t, p, 11)
  <2>1. LiesIn(t, first, 11)
    <3>1. PICK q : q = Len(lead) + 1
      OBVIOUS
    <3>2. lead \in Seq(Byte) /\ t \in Seq(Byte)
      BY <1>5, <1>8
    <3>3. LiesIn(t, first, q)
      BY <1>10, <3>1, <3>2, JoinLies
    <3> QED BY <1>20, <3>1, <3>3, Zenon
  <2>2. LiesIn(t, second, 11)
    BY <1>5, <1>12, <1>16, <1>20, <2>1, JoinLies
  <2> QED BY <1>6, <1>14, <1>16, <1>20, <2>2, JoinLies
<1>22. LiesIn(c, p, 11 + x)
  <2>1. LiesIn(c, second, 11 + x)
    BY <1>5, <1>12, <1>20, JoinLies
  <2> QED BY <1>6, <1>14, <1>17, <1>20, <2>1, JoinLies
<1>23. LiesIn(f, p, (11 + x) + y)
  BY <1>6, <1>14, <1>20, JoinLies
<1>24. p[1] = 148 /\ p[2] = 203
  <2>1. \A i \in {1, 2} : p[i] = second[i]
    BY <1>14, <1>19 DEF Joined
  <2>2. \A i \in {1, 2} : second[i] = first[i]
    BY <1>12, <1>19 DEF Joined
  <2>3. \A i \in {1, 2} : first[i] = lead[i]
    BY <1>8, <1>10 DEF Joined
  <2> QED BY <1>8, <2>1, <2>2, <2>3
<1>25. TitleEnd(m) = 11 + x /\ ContentEnd(m) = (11 + x) + y
  BY <1>2, <1>3, <1>16, <1>17 DEF TitleEnd, ContentEnd
<1>26. Layout(p, 0, m)
  <2>1. 0 + 2 = 2 /\ 0 + 11 = 11 /\ 0 + (11 + x) = 11 + x /\ 0 + ((11 + x) + y) = (11 + x) + y
    OBVIOUS
  <2> QED BY <1>2, <1>3, <1>4, <1>21, <1>22, <1>23, <1>24, <1>25, <2>1 DEF Layout
<1>27. PayloadOf(p, m)
  <2>1. Len(p) + 1 = ((11 + x) + y) + z
    BY <1>19
  <2> QED BY <1>4, <1>14, <1>18, <1>24, <1>25, <1>26, <2>1 DEF PayloadOf, Joined
<1> QED BY <1>15, <1>27

(* Whoever reads a payload from offset o finds a float, the title, the     *)
(* content and a fields map, each ending where the next starts.            *)
ReadsParts(b, o, m, title, content, fields) ==
  /\ title \in Position /\ content \in Position /\ fields \in Position /\ fields <= Len(b) + 1
  /\ o + 11 < title /\ title < content /\ content <= fields
  /\ ReadsAsFloat(b, o + 2, o + 11)
  /\ ReadsBin(b, o + 11, m.title, title) /\ ReadsBin(b, title, m.content, content)
  /\ SkipValueAt(b, content, 0) = fields /\ SubSeq(b, content, fields - 1) = OuterFields(m)

LEMMA LayoutReads ==
  ASSUME NEW m, Packable(m), NEW b \in Seq(Byte), NEW o \in Nat, Layout(b, o, m)
  PROVE  ReadsParts(b, o, m, o + TitleEnd(m), o + ContentEnd(m),
                    o + ContentEnd(m) + Len(OuterFields(m)))
<1>1. /\ m.title \in Seq(Byte) /\ m.content \in Seq(Byte)
      /\ Len(m.title) < Huge /\ Len(m.content) < Huge
  BY PartsAreSmall
<1>2. PICK t : t = Bin(m.title)
  OBVIOUS
<1>3. PICK c : c = Bin(m.content)
  OBVIOUS
<1>4. PICK f : f = OuterFields(m)
  OBVIOUS
<1>5. f \in Seq(Byte) /\ Whole(f, 1, 0)
  <2>1. PICK n : Laid(OuterFields(m), n)
    BY OuterLaid
  <2>2. PICK ids, at : IsLaid(f, ids, at, n)
    BY <1>4, <2>1, Zenon DEF Laid
  <2>3. MaxDepth >= 1
    BY UploadAssumption, DepthAssumption
  <2> QED BY <2>2, <2>3, LaidSkips DEF IsLaid
<1>6. PICK x \in Nat : x = Len(t) /\ x >= 1
  <2>1. BinLead(BinHeader(Len(m.title)), Len(m.title))
        /\ Joined(t, BinHeader(Len(m.title)), m.title)
    BY <1>1, <1>2, BinBytes
  <2>2. PICK h : h = BinHeader(Len(m.title))
    OBVIOUS
  <2>3. Len(h) \in {2, 3, 5} /\ Len(t) = Len(h) + Len(m.title)
    BY <2>1, <2>2 DEF BinLead, Joined
  <2>4. PICK l \in Nat : l = Len(m.title)
    BY <1>1
  <2>5. PICK k : k = Len(h)
    OBVIOUS
  <2>6. k \in Nat /\ k + l \in Nat /\ k + l >= 1
    BY <2>3, <2>5
  <2>7. Len(t) = k + l
    BY <2>3, <2>4, <2>5
  <2> QED BY <2>6, <2>7
<1>7. PICK y \in Nat : y = Len(c) /\ y >= 1
  <2>1. BinLead(BinHeader(Len(m.content)), Len(m.content))
        /\ Joined(c, BinHeader(Len(m.content)), m.content)
    BY <1>1, <1>3, BinBytes
  <2>2. PICK h : h = BinHeader(Len(m.content))
    OBVIOUS
  <2>3. Len(h) \in {2, 3, 5} /\ Len(c) = Len(h) + Len(m.content)
    BY <2>1, <2>2 DEF BinLead, Joined
  <2>4. PICK l \in Nat : l = Len(m.content)
    BY <1>1
  <2>5. PICK k : k = Len(h)
    OBVIOUS
  <2>6. k \in Nat /\ k + l \in Nat /\ k + l >= 1
    BY <2>3, <2>5
  <2>7. Len(c) = k + l
    BY <2>3, <2>4, <2>5
  <2> QED BY <2>6, <2>7
<1>8. PICK z \in Nat : z = Len(f)
  BY <1>5
<1>9. PICK p : p = o + 11
  OBVIOUS
<1>10. PICK q : q = o + TitleEnd(m)
  OBVIOUS
<1>11. PICK r : r = o + ContentEnd(m)
  OBVIOUS
<1>12. PICK e : e = r + z
  OBVIOUS
<1>13. q = p + x /\ r = q + y /\ e = r + z
  <2>1. TitleEnd(m) = 11 + x /\ ContentEnd(m) = (11 + x) + y
    BY <1>2, <1>3, <1>6, <1>7 DEF TitleEnd, ContentEnd
  <2> QED BY <1>9, <1>10, <1>11, <1>12, <2>1
<1>14. /\ p \in Position /\ q \in Position /\ r \in Position /\ e \in Position
       /\ p < q /\ q < r /\ r <= e /\ e - r = z /\ r \in Nat /\ e \in Nat /\ r >= 1 /\ p >= 11 /\ q >= 1
  BY <1>6, <1>7, <1>9, <1>13 DEF Position
<1>15. b[o + 2] = 203 /\ LiesIn(t, b, p) /\ LiesIn(c, b, q) /\ LiesIn(f, b, r)
  BY <1>2, <1>3, <1>4, <1>9, <1>10, <1>11 DEF Layout
<1>16. ReadsBin(b, p, m.title, q)
  BY <1>1, <1>2, <1>6, <1>13, <1>14, <1>15, BinReads
<1>17. ReadsBin(b, q, m.content, r)
  BY <1>1, <1>3, <1>7, <1>13, <1>14, <1>15, BinReads
<1>18. e <= Len(b) + 1 /\ \A i \in 1 .. z : b[r + i - 1] = f[i]
  BY <1>8, <1>12, <1>15 DEF LiesIn
<1>19. SkipValueAt(b, r, 0) = e
  <2>1. Skip(b, r, 1, 0) = r + Len(f)
    BY <1>5, <1>14, <1>15, SkipLocal
  <2> QED BY <1>8, <1>13, <2>1 DEF SkipValueAt
<1>20. SubSeq(b, r, e - 1) = f
  <2>1. PICK v : v = SubSeq(b, r, e - 1)
    OBVIOUS
  <2>2. v \in Seq(Byte) /\ Len(v) = e - r /\ \A i \in 1 .. e - r : v[i] = b[r + i - 1]
    BY <1>14, <1>18, <2>1, PartOf
  <2>3. Len(v) = z /\ \A i \in 1 .. z : v[i] = f[i]
    BY <1>14, <1>18, <2>2
  <2>4. v = f
    BY <1>5, <1>8, <2>2, <2>3
  <2> QED BY <2>1, <2>4
<1>21. ReadsAsFloat(b, o + 2, o + 11)
  <2>1. o + 2 \in Position /\ o + 11 = (o + 2) + 9
    BY DEF Position
  <2>2. o + 11 <= Len(b) + 1
    BY <1>9, <1>14, <1>18
  <2> QED BY <1>15, <2>1, <2>2, FloatRead
<1>22. ReadsParts(b, o, m, q, r, e)
  BY <1>4, <1>9, <1>14, <1>16, <1>17, <1>18, <1>19, <1>20, <1>21 DEF ReadsParts
<1> QED BY <1>4, <1>8, <1>10, <1>11, <1>12, <1>22

-----------------------------------------------------------------------------
(* The message as it is at any moment: what a packet of it carries, which  *)
(* is all but the destination, and the whole; with the stamp it has.       *)
Trailer(s) == IF s = <<>> THEN <<>> ELSE Cells(<<196, Len(s)>>) \o s
Marker(s)  == IF s = <<>> THEN 148 ELSE 149
Lead       == HashLength + SignatureLength
Body(m, s) == [DirectPlain(m) EXCEPT ![Lead + 1] = <<"byte", Marker(s)>>] \o Trailer(s)
WholeMessage(m, s) == DestHash("recipient") \o Body(m, s)

Stampable(s) == s = <<>> \/ (s \in Stamps /\ Len(s) \in {16, 32})

LEMMA StampFacts ==
  ASSUME NEW s, s \in Stamps
  PROVE  Listed(s) /\ Len(s) \in Nat /\ \A i \in 1 .. Len(s) : s[i] = <<"stamp", i, "pow">>
<1>1. Len(s) \in Nat /\ s = Opaque("stamp", Len(s), "pow")
  BY OutboxAssumption
<1>2. PICK n \in Nat : n = Len(s)
  BY <1>1
<1>3. s = Opaque("stamp", n, "pow")
  BY <1>1, <1>2
<1>4. Listed(Opaque("stamp", n, "pow")) /\ \A i \in 1 .. n : Opaque("stamp", n, "pow")[i] = <<"stamp", i, "pow">>
  BY OpaqueIsListed
<1> QED BY <1>1, <1>2, <1>3, <1>4, Zenon

(* What the stamp adds: nothing, or a bin header and the stamp.            *)
TrailerIs(t, s) ==
  \/ s = <<>> /\ t = <<>> /\ Len(t) = 0
  \/ /\ s # <<>> /\ Len(s) \in {16, 32} /\ Len(t) = 2 + Len(s)
     /\ t[1] = <<"byte", 196>> /\ t[2] = <<"byte", Len(s)>>
     /\ \A i \in 1 .. Len(s) : t[2 + i] = <<"stamp", i, "pow">>

LEMMA TrailerCells ==
  ASSUME NEW s, Stampable(s)
  PROVE  Listed(Trailer(s)) /\ Len(Trailer(s)) \in Nat /\ TrailerIs(Trailer(s), s)
<1>1. CASE s = <<>>
  <2>1. Trailer(s) = <<>>
    BY <1>1 DEF Trailer
  <2>2. Listed(<<>>) /\ Len(<<>>) = 0
    BY DEF Listed
  <2> QED BY <1>1, <2>1, <2>2 DEF TrailerIs
<1>2. CASE s # <<>>
  <2>1. s \in Stamps /\ Len(s) \in {16, 32}
    BY <1>2 DEF Stampable
  <2>2. Listed(s) /\ Len(s) \in Nat /\ \A i \in 1 .. Len(s) : s[i] = <<"stamp", i, "pow">>
    BY <2>1, StampFacts
  <2>3. PICK n : n = Len(s)
    OBVIOUS
  <2>4. PICK h : h = <<196, n>>
    OBVIOUS
  <2>5. h \in Seq(Byte) /\ Len(h) = 2 /\ h[1] = 196 /\ h[2] = n
    <3>1. 196 \in Byte /\ 16 \in Byte /\ 32 \in Byte
      BY DEF Byte
    <3>2. n = 16 \/ n = 32
      BY <2>1, <2>3
    <3> HIDE DEF Byte
    <3>3. n \in Byte
      BY <3>1, <3>2
    <3> QED BY <2>4, <3>1, <3>3
  <2>6. Listed(Cells(h)) /\ Len(Cells(h)) = 2 /\ \A i \in 1 .. 2 : Cells(h)[i] = <<"byte", h[i]>>
    BY <2>5, CellsOfBytes
  <2>7. PICK c : c = Cells(h)
    OBVIOUS
  <2>8. Concatenates(c \o s, c, s)
    BY <2>2, <2>6, <2>7, JoinConcatenates
  <2>9. PICK t : t = c \o s
    OBVIOUS
  <2>10. t = Trailer(s)
    BY <1>2, <2>3, <2>4, <2>7, <2>9, Zenon DEF Trailer
  <2>11. /\ Listed(t) /\ Len(t) = 2 + n
         /\ \A i \in 1 .. 2 : t[i] = c[i]
         /\ \A i \in 1 .. n : t[2 + i] = s[i]
    BY <2>3, <2>6, <2>7, <2>8, <2>9 DEF Concatenates
  <2>12. t[1] = <<"byte", 196>> /\ t[2] = <<"byte", n>>
    BY <2>5, <2>6, <2>7, <2>11
  <2>13. \A i \in 1 .. n : t[2 + i] = <<"stamp", i, "pow">>
    BY <2>2, <2>3, <2>11
  <2>14. TrailerIs(t, s)
    BY <1>2, <2>1, <2>3, <2>11, <2>12, <2>13 DEF TrailerIs
  <2>15. Len(t) \in Nat
    BY <2>1, <2>3, <2>11
  <2> QED BY <2>10, <2>11, <2>14, <2>15
<1> QED BY <1>1, <1>2

(* Sequences that agree everywhere are equal.                              *)
LEMMA SameCells ==
  ASSUME NEW a, Listed(a), NEW b, Listed(b), Len(a) = Len(b), \A i \in 1 .. Len(a) : a[i] = b[i]
  PROVE  a = b
<1> DEFINE S == {a[i] : i \in DOMAIN a} \cup {b[i] : i \in DOMAIN b}
<1>1. a \in Seq({a[i] : i \in DOMAIN a}) /\ b \in Seq({b[i] : i \in DOMAIN b})
  BY DEF Listed
<1>2. a \in Seq(S) /\ b \in Seq(S)
  BY <1>1
<1> HIDE DEF S
<1> QED BY <1>2

(* A packet's plaintext, cell by cell.                                     *)
PlainIs(x, p) ==
  /\ OfSize(x, Lead + Len(p))
  /\ \A i \in 1 .. HashLength : x[i] = <<"hash", i, "sender">>
  /\ \A i \in 1 .. SignatureLength : x[HashLength + i] = <<"sig", i, "sender">>
  /\ \A i \in 1 .. Len(p) : x[Lead + i] = <<"byte", p[i]>>

LEMMA PlainCells ==
  ASSUME NEW m, Packable(m)
  PROVE  PlainIs(DirectPlain(m), PackPayload(m)) /\ Len(PackPayload(m)) \in Nat /\ Lead \in Nat
<1>1. PICK p \in Seq(Byte) : p = PackPayload(m)
  BY PayloadLaid DEF PayloadOf
<1>2. PICK n \in Nat : n = Len(p)
  OBVIOUS
<1>3. PICK h : h = DestHash("sender")
  OBVIOUS
<1>4. PICK g : g = Opaque("sig", SignatureLength, "sender")
  OBVIOUS
<1>5. PICK c : c = Cells(p)
  OBVIOUS
<1>6. Listed(h) /\ Len(h) = HashLength /\ \A i \in 1 .. HashLength : h[i] = <<"hash", i, "sender">>
  <2>1. HashLength \in Nat
    BY LengthFacts
  <2>2. h = Opaque("hash", HashLength, "sender")
    BY <1>3 DEF DestHash
  <2> QED BY <2>1, <2>2, OpaqueIsListed
<1>7. Listed(g) /\ Len(g) = SignatureLength /\ \A i \in 1 .. SignatureLength : g[i] = <<"sig", i, "sender">>
  <2>1. SignatureLength \in Nat
    BY LengthFacts
  <2> QED BY <1>4, <2>1, OpaqueIsListed
<1>8. Listed(c) /\ Len(c) = n /\ \A i \in 1 .. n : c[i] = <<"byte", p[i]>>
  BY <1>2, <1>5, CellsOfBytes
<1>9. PICK a : a = h \o g
  OBVIOUS
<1>10. Concatenates(a, h, g)
  BY <1>6, <1>7, <1>9, JoinConcatenates
<1>11. PICK x : x = a \o c
  OBVIOUS
<1>12. Concatenates(x, a, c)
  <2>1. Listed(a) /\ Listed(c)
    BY <1>8, <1>10 DEF Concatenates
  <2> QED BY <1>11, <2>1, JoinConcatenates
<1>13. x = DirectPlain(m)
  BY <1>1, <1>3, <1>4, <1>5, <1>9, <1>11, Zenon DEF DirectPlain
<1>14. /\ Listed(a) /\ Len(a) = Lead /\ \A i \in 1 .. HashLength : a[i] = h[i]
       /\ \A i \in 1 .. SignatureLength : a[HashLength + i] = g[i]
  BY <1>6, <1>7, <1>10 DEF Concatenates, Lead
<1>15. /\ Listed(x) /\ Len(x) = Lead + n /\ \A i \in 1 .. Lead : x[i] = a[i]
       /\ \A i \in 1 .. n : x[Lead + i] = c[i]
  BY <1>8, <1>12, <1>14 DEF Concatenates
<1>16. HashLength \in Nat /\ SignatureLength \in Nat /\ Lead = HashLength + SignatureLength
  BY LengthFacts DEF Lead
<1>17. \A i \in 1 .. HashLength : x[i] = <<"hash", i, "sender">>
  BY <1>6, <1>14, <1>15, <1>16
<1>18. \A i \in 1 .. SignatureLength : x[HashLength + i] = <<"sig", i, "sender">>
  <2> SUFFICES ASSUME NEW i \in 1 .. SignatureLength PROVE x[HashLength + i] = <<"sig", i, "sender">>
    OBVIOUS
  <2>1. HashLength + i \in 1 .. Lead
    BY <1>16
  <2> QED BY <1>7, <1>14, <1>15, <2>1
<1>19. \A i \in 1 .. n : x[Lead + i] = <<"byte", p[i]>>
  BY <1>8, <1>15
<1>20. PlainIs(x, p)
  BY <1>2, <1>15, <1>17, <1>18, <1>19 DEF PlainIs, OfSize
<1> QED BY <1>1, <1>2, <1>13, <1>16, <1>20

LEMMA PayloadNotEmpty ==
  ASSUME NEW m, Packable(m)
  PROVE  Len(PackPayload(m)) \in Nat /\ Len(PackPayload(m)) >= 11
<1>1. m \in Messages /\ FieldSetError(m.fields) = "ok" /\ m.title \in Seq(Byte) /\ m.content \in Seq(Byte)
  BY PartsAreSmall DEF Packable
<1>2. PICK t \in Nat : t = Len(Bin(m.title)) /\ t >= 1
  <2>1. BinLead(BinHeader(Len(m.title)), Len(m.title))
        /\ Joined(Bin(m.title), BinHeader(Len(m.title)), m.title)
    BY PartsAreSmall, BinBytes
  <2>2. PICK h : h = BinHeader(Len(m.title))
    OBVIOUS
  <2>3. PICK k : k = Len(h)
    OBVIOUS
  <2>4. k \in {2, 3, 5} /\ Len(Bin(m.title)) = k + Len(m.title)
    BY <2>1, <2>2, <2>3 DEF BinLead, Joined
  <2>5. PICK l \in Nat : l = Len(m.title)
    BY <1>1
  <2>6. k + l \in Nat /\ k + l >= 1
    BY <2>4
  <2> QED BY <2>4, <2>5, <2>6
<1>3. PICK c \in Nat : c = Len(Bin(m.content))
  BY <1>1, BinIsLonger
<1>4. PICK f \in Nat : f = Len(OuterFields(m))
  BY <1>1, OuterIsNumbers
<1>5. Len(PackPayload(m)) = ((10 + t) + c) + f
  BY <1>1, <1>2, <1>3, <1>4, PayloadIsNumbers
<1> QED BY <1>2, <1>5

(* A message with its stamp: as it was packed, but for the marker, and the *)
(* stamp behind it.                                                        *)
BodyIs(x, plain, s) ==
  /\ OfSize(x, Len(plain) + Len(Trailer(s)))
  /\ x[Lead + 1] = <<"byte", Marker(s)>>
  /\ \A i \in 1 .. Len(plain) : i # Lead + 1 => x[i] = plain[i]
  /\ \A i \in 1 .. Len(Trailer(s)) : x[Len(plain) + i] = Trailer(s)[i]

LEMMA BodyCells ==
  ASSUME NEW m, Packable(m), NEW s, Stampable(s)
  PROVE  BodyIs(Body(m, s), DirectPlain(m), s)
<1>1. PICK d : d = DirectPlain(m)
  OBVIOUS
<1>2. PICK n \in Nat : n = Len(d)
  BY <1>1, PlainCells, ListedFacts DEF PlainIs, OfSize
<1>3. Listed(d) /\ Lead + 1 \in 1 .. n
  <2>1. PICK k : k = Len(PackPayload(m))
    OBVIOUS
  <2>2. k \in Nat /\ k >= 11
    BY <2>1, PayloadNotEmpty
  <2>3. Listed(d) /\ Len(d) = Lead + k /\ Lead \in Nat
    BY <1>1, <2>1, PlainCells DEF PlainIs, OfSize
  <2> QED BY <1>2, <2>2, <2>3
<1>4. PICK v : v = <<"byte", Marker(s)>>
  OBVIOUS
<1>5. PICK e : e = [d EXCEPT ![Lead + 1] = v]
  OBVIOUS
<1>6. DOMAIN d = 1 .. n
  BY <1>2, <1>3, ListedFacts
<1>7. e = [i \in 1 .. n |-> IF i = Lead + 1 THEN v ELSE d[i]]
  BY <1>5, <1>6
<1>8. Listed(e) /\ Len(e) = n
  <2> DEFINE S == {e[i] : i \in 1 .. n}
  <2>1. e \in [1 .. n -> S]
    BY <1>7
  <2> HIDE DEF S
  <2> QED BY <2>1, FunctionIsListed
<1>9. e[Lead + 1] = v /\ \A i \in 1 .. n : i # Lead + 1 => e[i] = d[i]
  BY <1>3, <1>7
<1>10. PICK t : t = Trailer(s)
  OBVIOUS
<1>11. Listed(t)
  BY <1>10, TrailerCells
<1>12. PICK x : x = e \o t
  OBVIOUS
<1>13. Concatenates(x, e, t)
  BY <1>8, <1>11, <1>12, JoinConcatenates
<1>14. /\ Listed(x) /\ Len(x) = n + Len(t) /\ \A i \in 1 .. n : x[i] = e[i]
       /\ \A i \in 1 .. Len(t) : x[n + i] = t[i]
  BY <1>8, <1>13 DEF Concatenates
<1>15. x = Body(m, s)
  BY <1>1, <1>4, <1>5, <1>10, <1>12, Zenon DEF Body
<1>16. BodyIs(x, d, s)
  BY <1>2, <1>3, <1>4, <1>9, <1>10, <1>14 DEF BodyIs, OfSize
<1> QED BY <1>1, <1>15, <1>16

LEMMA BodyOnly ==
  ASSUME NEW m, Packable(m), NEW s, Stampable(s), NEW x, BodyIs(x, DirectPlain(m), s)
  PROVE  x = Body(m, s)
<1>1. PICK y : y = Body(m, s)
  OBVIOUS
<1>2. PICK d : d = DirectPlain(m)
  OBVIOUS
<1>3. PICK t : t = Trailer(s)
  OBVIOUS
<1>4. PICK n \in Nat : n = Len(d)
  BY <1>2, PlainCells, ListedFacts DEF PlainIs, OfSize
<1>5. PICK k \in Nat : k = Len(t)
  BY <1>3, TrailerCells
<1>6. BodyIs(x, d, s) /\ BodyIs(y, d, s)
  BY <1>1, <1>2, BodyCells
<1>7. ASSUME NEW z, BodyIs(z, d, s)
      PROVE  /\ Listed(z) /\ Len(z) = n + k /\ z[Lead + 1] = <<"byte", Marker(s)>>
             /\ \A i \in 1 .. n : i # Lead + 1 => z[i] = d[i]
             /\ \A i \in 1 .. k : z[n + i] = t[i]
  BY <1>3, <1>4, <1>5, <1>7 DEF BodyIs, OfSize
<1>8. ASSUME NEW i \in 1 .. n + k PROVE x[i] = y[i]
  <2>1. CASE i = Lead + 1
    BY <1>6, <1>7, <2>1
  <2>2. CASE i # Lead + 1 /\ i <= n
    <3>1. i \in 1 .. n
      BY <2>2
    <3> QED BY <1>6, <1>7, <2>2, <3>1
  <2>3. CASE i > n
    <3>1. PICK j \in 1 .. k : i = n + j
      <4>1. i - n \in 1 .. k /\ i = n + (i - n)
        BY <2>3
      <4> QED BY <4>1
    <3> QED BY <1>6, <1>7, <3>1
  <2> QED BY <2>1, <2>2, <2>3
<1>9. Listed(x) /\ Listed(y) /\ Len(x) = n + k /\ Len(y) = n + k
  BY <1>6, <1>7
<1>10. x = y
  BY <1>8, <1>9, SameCells
<1> QED BY <1>1, <1>10

(* The whole message, cell by cell.                                        *)
IsWhole(w, p, s) ==
  /\ OfSize(w, PackedPrefix + Len(p) + Len(Trailer(s)))
  /\ \A i \in 1 .. HashLength : w[i] = <<"hash", i, "recipient">>
  /\ \A i \in 1 .. HashLength : w[HashLength + i] = <<"hash", i, "sender">>
  /\ \A i \in 1 .. SignatureLength : w[2 * HashLength + i] = <<"sig", i, "sender">>
  /\ w[PackedPrefix + 1] = <<"byte", Marker(s)>>
  /\ \A i \in 2 .. Len(p) : w[PackedPrefix + i] = <<"byte", p[i]>>
  /\ \A i \in 1 .. Len(Trailer(s)) : w[PackedPrefix + Len(p) + i] = Trailer(s)[i]

LEMMA WholeCells ==
  ASSUME NEW m, Packable(m), NEW s, Stampable(s)
  PROVE  IsWhole(WholeMessage(m, s), PackPayload(m), s)
<1>1. PICK p : p = PackPayload(m)
  OBVIOUS
<1>2. PICK d : d = DirectPlain(m)
  OBVIOUS
<1>3. PICK y : y = Body(m, s)
  OBVIOUS
<1>4. PICK t : t = Trailer(s)
  OBVIOUS
<1>5. PICK h \in Nat : h = HashLength
  BY LengthFacts
<1>6. PICK g \in Nat : g = SignatureLength
  BY LengthFacts
<1>7. PICK n \in Nat : n = Len(p) /\ n >= 11
  BY <1>1, PayloadNotEmpty
<1>8. PICK k \in Nat : k = Len(t)
  BY <1>4, TrailerCells
<1>9. /\ Listed(d) /\ Len(d) = (h + g) + n
      /\ \A i \in 1 .. h : d[i] = <<"hash", i, "sender">>
      /\ \A i \in 1 .. g : d[h + i] = <<"sig", i, "sender">>
      /\ \A i \in 1 .. n : d[(h + g) + i] = <<"byte", p[i]>>
  BY <1>1, <1>2, <1>5, <1>6, <1>7, PlainCells DEF PlainIs, OfSize, Lead
<1>10. BodyIs(y, d, s)
  BY <1>2, <1>3, BodyCells
<1>11. PICK l \in Nat : l = (h + g) + n
  OBVIOUS
<1>12. /\ Listed(y) /\ Len(y) = l + k /\ y[(h + g) + 1] = <<"byte", Marker(s)>>
       /\ \A i \in 1 .. l : i # (h + g) + 1 => y[i] = d[i]
       /\ \A i \in 1 .. k : y[l + i] = t[i]
  BY <1>4, <1>5, <1>6, <1>8, <1>9, <1>10, <1>11 DEF BodyIs, OfSize, Lead
<1>13. PICK a : a = DestHash("recipient")
  OBVIOUS
<1>14. Listed(a) /\ Len(a) = h /\ \A i \in 1 .. h : a[i] = <<"hash", i, "recipient">>
  BY <1>5, <1>13, OpaqueIsListed DEF DestHash
<1>15. PICK w : w = a \o y
  OBVIOUS
<1>16. w = WholeMessage(m, s)
  BY <1>3, <1>13, <1>15, Zenon DEF WholeMessage
<1>17. Concatenates(w, a, y)
  BY <1>12, <1>14, <1>15, JoinConcatenates
<1>18. /\ Listed(w) /\ Len(w) = h + (l + k) /\ \A i \in 1 .. h : w[i] = a[i]
       /\ \A i \in 1 .. l + k : w[h + i] = y[i]
  BY <1>12, <1>14, <1>17 DEF Concatenates
<1>19. PackedPrefix = (h + h) + g
  BY <1>5, <1>6 DEF PackedPrefix
<1>20. \A i \in 1 .. h : w[h + i] = <<"hash", i, "sender">>
  <2> SUFFICES ASSUME NEW i \in 1 .. h PROVE w[h + i] = <<"hash", i, "sender">>
    OBVIOUS
  <2>1. i \in 1 .. l + k /\ i \in 1 .. l /\ i # (h + g) + 1
    BY <1>11
  <2> QED BY <1>9, <1>12, <1>18, <2>1
<1>21. \A i \in 1 .. g : w[(h + h) + i] = <<"sig", i, "sender">>
  <2> SUFFICES ASSUME NEW i \in 1 .. g PROVE w[(h + h) + i] = <<"sig", i, "sender">>
    OBVIOUS
  <2>1. h + i \in 1 .. l + k /\ h + i \in 1 .. l /\ h + i # (h + g) + 1 /\ h + (h + i) = (h + h) + i
    BY <1>11
  <2>2. w[h + (h + i)] = y[h + i] /\ y[h + i] = d[h + i]
    BY <1>12, <1>18, <2>1
  <2> QED BY <1>9, <2>1, <2>2
<1>22. w[((h + h) + g) + 1] = <<"byte", Marker(s)>>
  <2>1. (h + g) + 1 \in 1 .. l + k /\ h + ((h + g) + 1) = ((h + h) + g) + 1
    BY <1>7, <1>11
  <2>2. w[h + ((h + g) + 1)] = y[(h + g) + 1]
    BY <1>18, <2>1
  <2> QED BY <1>12, <2>1, <2>2
<1>23. \A i \in 2 .. n : w[((h + h) + g) + i] = <<"byte", p[i]>>
  <2> SUFFICES ASSUME NEW i \in 2 .. n PROVE w[((h + h) + g) + i] = <<"byte", p[i]>>
    OBVIOUS
  <2>1. /\ (h + g) + i \in 1 .. l + k /\ (h + g) + i \in 1 .. l /\ (h + g) + i # (h + g) + 1
        /\ h + ((h + g) + i) = ((h + h) + g) + i /\ i \in 1 .. n
    BY <1>7, <1>11
  <2>2. w[h + ((h + g) + i)] = y[(h + g) + i] /\ y[(h + g) + i] = d[(h + g) + i]
    BY <1>12, <1>18, <2>1
  <2> QED BY <1>9, <2>1, <2>2
<1>24. \A i \in 1 .. k : w[(((h + h) + g) + n) + i] = t[i]
  <2> SUFFICES ASSUME NEW i \in 1 .. k PROVE w[(((h + h) + g) + n) + i] = t[i]
    OBVIOUS
  <2>1. l + i \in 1 .. l + k /\ h + (l + i) = (((h + h) + g) + n) + i
    BY <1>7, <1>11
  <2>2. w[h + (l + i)] = y[l + i]
    BY <1>18, <2>1
  <2> QED BY <1>12, <2>1, <2>2
<1>25. Len(w) = (((h + h) + g) + n) + k
  BY <1>11, <1>18
<1>26. 2 * h = h + h
  OBVIOUS
<1>27. IsWhole(w, p, s)
  <2>1. OfSize(w, PackedPrefix + Len(p) + Len(Trailer(s)))
    BY <1>4, <1>7, <1>8, <1>18, <1>19, <1>25 DEF OfSize
  <2>2. \A i \in 1 .. HashLength : w[i] = <<"hash", i, "recipient">>
    BY <1>5, <1>14, <1>18
  <2>3. \A i \in 1 .. HashLength : w[HashLength + i] = <<"hash", i, "sender">>
    BY <1>5, <1>20
  <2>4. \A i \in 1 .. SignatureLength : w[2 * HashLength + i] = <<"sig", i, "sender">>
    BY <1>5, <1>6, <1>21, <1>26
  <2>5. w[PackedPrefix + 1] = <<"byte", Marker(s)>>
    BY <1>19, <1>22
  <2>6. \A i \in 2 .. Len(p) : w[PackedPrefix + i] = <<"byte", p[i]>>
    BY <1>7, <1>19, <1>23
  <2>7. \A i \in 1 .. Len(Trailer(s)) : w[PackedPrefix + Len(p) + i] = Trailer(s)[i]
    BY <1>4, <1>7, <1>8, <1>19, <1>24
  <2> QED BY <2>1, <2>2, <2>3, <2>4, <2>5, <2>6, <2>7, Zenon DEF IsWhole
<1> QED BY <1>1, <1>16, <1>27

(* The bytes that a reader takes cells for.                                *)
ReadsCells(b, cells) ==
  /\ b \in Seq(Byte) /\ Len(b) = Len(cells)
  /\ \A i \in 1 .. Len(cells) : cells[i][1] = "byte" => b[i] = cells[i][2]

LEMMA BytesOfCells ==
  ASSUME NEW cells, Listed(cells),
         \A i \in 1 .. Len(cells) : cells[i][1] = "byte" => cells[i][2] \in Byte
  PROVE  ReadsCells(Bytes(cells), cells)
<1>1. PICK n \in Nat : n = Len(cells)
  BY ListedFacts
<1>2. PICK b : b = Bytes(cells)
  OBVIOUS
<1>3. DOMAIN cells = 1 .. n
  BY <1>1, ListedFacts
<1>4. b = [i \in 1 .. n |-> IF cells[i][1] = "byte" THEN cells[i][2] ELSE 193]
  BY <1>2, <1>3 DEF Bytes
<1>5. 193 \in Byte
  BY DEF Byte
<1> HIDE DEF Byte
<1>6. b \in [1 .. n -> Byte]
  BY <1>1, <1>4, <1>5
<1>7. b \in Seq(Byte) /\ Len(b) = n
  BY <1>6
<1>8. ReadsCells(b, cells)
  BY <1>1, <1>4, <1>7 DEF ReadsCells
<1> QED BY <1>2, <1>8

(* A payload keeps its layout wherever its bytes lie, whatever its marker. *)
HoldsPayload(b, o, p, marker) ==
  /\ b \in Seq(Byte) /\ o + Len(p) <= Len(b) /\ b[o + 1] = marker
  /\ \A i \in 2 .. Len(p) : b[o + i] = p[i]

LEMMA LayoutKept ==
  ASSUME NEW m, Packable(m), NEW b, NEW o \in Nat, NEW marker,
         HoldsPayload(b, o, PackPayload(m), marker)
  PROVE  Layout(b, o, m)
<1>1. PICK p \in Seq(Byte) : p = PackPayload(m) /\ Layout(p, 0, m)
  BY PayloadLaid DEF PayloadOf
<1>2. PICK n \in Nat : n = Len(p) /\ n >= 11
  BY <1>1, PayloadNotEmpty
<1>3. PICK l \in Nat : l = Len(b)
  BY DEF HoldsPayload
<1>4. o + n <= l /\ \A i \in 2 .. n : b[o + i] = p[i]
  BY <1>1, <1>2, <1>3 DEF HoldsPayload
<1>5. ASSUME NEW u, Len(u) \in Nat, NEW q \in Nat, q >= 2, LiesIn(u, p, 0 + q)
      PROVE  LiesIn(u, b, o + q)
  <2>1. PICK k \in Nat : k = Len(u)
    BY <1>5
  <2>2. q + k <= n + 1 /\ \A i \in 1 .. k : p[q + i - 1] = u[i]
    BY <1>2, <1>5, <2>1 DEF LiesIn
  <2>3. (o + q) + k <= l + 1
    BY <1>4, <2>2
  <2>4. ASSUME NEW i \in 1 .. k PROVE b[(o + q) + i - 1] = u[i]
    <3>1. q + i - 1 \in 2 .. n /\ o + (q + i - 1) = (o + q) + i - 1
      BY <1>5, <2>2
    <3>2. b[o + (q + i - 1)] = p[q + i - 1]
      BY <1>4, <3>1
    <3> QED BY <2>2, <3>1, <3>2
  <2> QED BY <1>3, <2>1, <2>3, <2>4 DEF LiesIn
<1>6. PICK x \in Nat : x = Len(Bin(m.title))
  BY PartsAreSmall, BinIsLonger
<1>7. PICK y \in Nat : y = Len(Bin(m.content))
  BY PartsAreSmall, BinIsLonger
<1>8. Len(OuterFields(m)) \in Nat
  <2>1. OuterFields(m) \in Seq(Nat)
    BY OuterIsNumbers DEF Packable
  <2> QED BY <2>1
<1>9. TitleEnd(m) \in Nat /\ TitleEnd(m) >= 2 /\ ContentEnd(m) \in Nat /\ ContentEnd(m) >= 2
  BY <1>6, <1>7 DEF TitleEnd, ContentEnd
<1>10. LiesIn(Bin(m.title), b, o + 11)
  <2>1. LiesIn(Bin(m.title), p, 0 + 11)
    BY <1>1 DEF Layout
  <2>2. PICK q \in Nat : q = 11 /\ q >= 2
    OBVIOUS
  <2>3. Len(Bin(m.title)) \in Nat /\ LiesIn(Bin(m.title), p, 0 + q)
    BY <1>6, <2>1, <2>2
  <2> QED BY <1>5, <2>2, <2>3
<1>11. LiesIn(Bin(m.content), b, o + TitleEnd(m))
  <2>1. LiesIn(Bin(m.content), p, 0 + TitleEnd(m))
    BY <1>1 DEF Layout
  <2>2. Len(Bin(m.content)) \in Nat
    BY <1>7
  <2> QED BY <1>5, <1>9, <2>1, <2>2
<1>12. LiesIn(OuterFields(m), b, o + ContentEnd(m))
  <2>1. LiesIn(OuterFields(m), p, 0 + ContentEnd(m))
    BY <1>1 DEF Layout
  <2> QED BY <1>5, <1>8, <1>9, <2>1
<1>13. b[o + 2] = 203
  <2>1. p[0 + 2] = 203
    BY <1>1 DEF Layout
  <2>2. 2 \in 2 .. n /\ 0 + 2 = 2
    BY <1>2
  <2> QED BY <1>4, <2>1, <2>2
<1> QED BY <1>10, <1>11, <1>12, <1>13 DEF Layout

(* What a parser cuts out of a whole message: its payload, as bytes, and   *)
(* what follows the fields.                                                *)
CutFrom(w, p, s) ==
  LET payload == SubSeq(w, PackedPrefix + 1, Len(w))
  IN  /\ HoldsPayload(Bytes(payload), 0, p, Marker(s))
      /\ Len(Bytes(payload)) = Len(p) + Len(Trailer(s))
      /\ SubSeq(payload, Len(p) + 1, Len(payload)) = Trailer(s)

LEMMA WholeCut ==
  ASSUME NEW p \in Seq(Byte), Len(p) >= 11, NEW s, Stampable(s), NEW w, IsWhole(w, p, s)
  PROVE  CutFrom(w, p, s)
<1>1. PICK n \in Nat : n = Len(p) /\ n >= 11
  OBVIOUS
<1>2. PICK t : t = Trailer(s)
  OBVIOUS
<1>3. PICK k \in Nat : k = Len(t)
  BY <1>2, TrailerCells
<1>4. PICK o \in Nat : o = PackedPrefix
  BY LengthFacts
<1>5. PICK l \in Nat : l = (o + n) + k
  OBVIOUS
<1>6. /\ Listed(w) /\ Len(w) = l /\ w[o + 1] = <<"byte", Marker(s)>>
      /\ \A i \in 2 .. n : w[o + i] = <<"byte", p[i]>>
      /\ \A i \in 1 .. k : w[(o + n) + i] = t[i]
  BY <1>1, <1>2, <1>3, <1>4, <1>5 DEF IsWhole, OfSize
<1>7. PICK c : c = SubSeq(w, o + 1, l)
  OBVIOUS
<1>8. Listed(c) /\ Len(c) = n + k /\ \A i \in 1 .. n + k : c[i] = w[o + i]
  <2>1. o + 1 \in Nat \ {0} /\ l \in 0 .. Len(w)
    BY <1>5, <1>6
  <2>2. /\ Listed(c) /\ Len(c) = (IF o + 1 <= l THEN l - (o + 1) + 1 ELSE 0)
        /\ \A i \in 1 .. Len(c) : c[i] = w[(o + 1) + i - 1]
    BY <1>6, <1>7, <2>1, SliceIsListed
  <2>3. Len(c) = n + k
    BY <1>1, <1>5, <2>2
  <2>4. ASSUME NEW i \in 1 .. n + k PROVE c[i] = w[o + i]
    <3>1. (o + 1) + i - 1 = o + i
      OBVIOUS
    <3> QED BY <2>2, <2>3, <3>1
  <2> QED BY <2>2, <2>3, <2>4
<1>9. c[1] = <<"byte", Marker(s)>> /\ \A i \in 2 .. n : c[i] = <<"byte", p[i]>>
  BY <1>1, <1>6, <1>8
<1>10. \A i \in 1 .. k : c[n + i] = t[i]
  <2> SUFFICES ASSUME NEW i \in 1 .. k PROVE c[n + i] = t[i]
    OBVIOUS
  <2>1. n + i \in 1 .. n + k /\ o + (n + i) = (o + n) + i
    OBVIOUS
  <2> QED BY <1>6, <1>8, <2>1
<1>11. \A i \in 1 .. k : t[i][1] = "byte" => t[i][2] \in Byte
  <2>1. TrailerIs(t, s)
    BY <1>2, TrailerCells
  <2>2. CASE s = <<>>
    BY <1>3, <2>1, <2>2 DEF TrailerIs
  <2>3. CASE s # <<>>
    <3>1. PICK j : j = Len(s)
      OBVIOUS
    <3>2. /\ j \in {16, 32} /\ k = 2 + j /\ t[1] = <<"byte", 196>> /\ t[2] = <<"byte", j>>
          /\ \A i \in 1 .. j : t[2 + i] = <<"stamp", i, "pow">>
      BY <1>3, <2>1, <2>3, <3>1 DEF TrailerIs
    <3>3. 196 \in Byte /\ j \in Byte
      <4>1. 196 \in Byte /\ 16 \in Byte /\ 32 \in Byte
        BY DEF Byte
      <4> HIDE DEF Byte
      <4> QED BY <3>2, <4>1
    <3> HIDE DEF Byte
    <3> SUFFICES ASSUME NEW i \in 1 .. k PROVE t[i][1] = "byte" => t[i][2] \in Byte
      OBVIOUS
    <3>4. CASE i = 1
      BY <3>2, <3>3, <3>4
    <3>5. CASE i = 2
      BY <3>2, <3>3, <3>5
    <3>6. CASE i > 2
      <4>1. i - 2 \in 1 .. j /\ 2 + (i - 2) = i
        BY <3>2, <3>6
      <4>2. t[i] = <<"stamp", i - 2, "pow">>
        BY <3>2, <4>1
      <4> QED BY <4>2
    <3> QED BY <3>4, <3>5, <3>6
  <2> QED BY <2>2, <2>3
<1>12. \A i \in 1 .. n + k : c[i][1] = "byte" => c[i][2] \in Byte
  <2>1. Marker(s) \in Byte /\ \A i \in 1 .. n : p[i] \in Byte
    <3>1. 148 \in Byte /\ 149 \in Byte
      BY DEF Byte
    <3> HIDE DEF Byte
    <3> QED BY <1>1, <3>1 DEF Marker
  <2> HIDE DEF Byte
  <2> SUFFICES ASSUME NEW i \in 1 .. n + k PROVE c[i][1] = "byte" => c[i][2] \in Byte
    OBVIOUS
  <2>2. CASE i = 1
    BY <1>9, <2>1, <2>2
  <2>3. CASE i # 1 /\ i <= n
    <3>1. i \in 2 .. n /\ i \in 1 .. n
      BY <2>3
    <3> QED BY <1>9, <2>1, <3>1
  <2>4. CASE i > n
    <3>1. i - n \in 1 .. k /\ n + (i - n) = i
      BY <2>4
    <3>2. c[i] = t[i - n]
      BY <1>10, <3>1
    <3> QED BY <1>11, <3>1, <3>2
  <2> QED BY <2>2, <2>3, <2>4
<1>13. PICK b : b = Bytes(c)
  OBVIOUS
<1>14. b \in Seq(Byte) /\ Len(b) = n + k /\ \A i \in 1 .. n + k : c[i][1] = "byte" => b[i] = c[i][2]
  <2>1. \A i \in 1 .. Len(c) : c[i][1] = "byte" => c[i][2] \in Byte
    BY <1>8, <1>12
  <2>2. ReadsCells(b, c)
    BY <1>8, <1>13, <2>1, BytesOfCells
  <2> QED BY <1>8, <2>2 DEF ReadsCells
<1>15. HoldsPayload(b, 0, p, Marker(s))
  <2>1. b[0 + 1] = Marker(s)
    <3>1. 1 \in 1 .. n + k /\ c[1][1] = "byte" /\ c[1][2] = Marker(s)
      BY <1>1, <1>9
    <3> QED BY <1>14, <3>1
  <2>2. ASSUME NEW i \in 2 .. n PROVE b[0 + i] = p[i]
    <3>1. i \in 1 .. n + k /\ c[i][1] = "byte" /\ c[i][2] = p[i] /\ 0 + i = i
      BY <1>9
    <3> QED BY <1>14, <3>1
  <2>3. 0 + n <= Len(b)
    BY <1>14
  <2> QED BY <1>1, <1>14, <2>1, <2>2, <2>3 DEF HoldsPayload
<1>16. SubSeq(c, n + 1, n + k) = t
  <2>1. PICK x : x = SubSeq(c, n + 1, n + k)
    OBVIOUS
  <2>2. n + 1 \in Nat \ {0} /\ n + k \in 0 .. Len(c)
    BY <1>8
  <2>3. /\ Listed(x) /\ Len(x) = (IF n + 1 <= n + k THEN n + k - (n + 1) + 1 ELSE 0)
        /\ \A i \in 1 .. Len(x) : x[i] = c[(n + 1) + i - 1]
    BY <1>8, <2>1, <2>2, SliceIsListed
  <2>4. Len(x) = k
    BY <2>3
  <2>5. ASSUME NEW i \in 1 .. k PROVE x[i] = t[i]
    <3>1. (n + 1) + i - 1 = n + i
      OBVIOUS
    <3>2. x[i] = c[n + i]
      BY <2>3, <2>4, <3>1
    <3> QED BY <1>10, <3>2
  <2>6. Listed(t)
    BY <1>2, TrailerCells
  <2>7. x = t
    BY <1>3, <2>3, <2>4, <2>5, <2>6, SameCells
  <2> QED BY <2>1, <2>7
<1>17. PICK r : r = SubSeq(w, PackedPrefix + 1, Len(w))
  OBVIOUS
<1>18. r = c /\ Len(c) = n + k
  BY <1>4, <1>6, <1>7, <1>8, <1>17, Zenon
<1>19. /\ HoldsPayload(Bytes(r), 0, p, Marker(s)) /\ Len(Bytes(r)) = Len(p) + Len(Trailer(s))
       /\ SubSeq(r, Len(p) + 1, Len(r)) = Trailer(s)
  BY <1>1, <1>2, <1>3, <1>13, <1>14, <1>15, <1>16, <1>18, Zenon
<1> QED BY <1>17, <1>19, Zenon DEF CutFrom

(* The cells before the payload: both hashes and the signature.            *)
CellsAt(x, w, a, k) ==
  Listed(w) /\ a + k <= Len(w) /\ OfSize(x, k) /\ \A i \in 1 .. k : w[a + i] = x[i]

LEMMA SliceOf ==
  ASSUME NEW w, NEW a \in Nat, NEW k \in Nat, NEW x, CellsAt(x, w, a, k)
  PROVE  SubSeq(w, a + 1, a + k) = x
<1> USE DEF CellsAt
<1>1. PICK v : v = SubSeq(w, a + 1, a + k)
  OBVIOUS
<1>2. a + 1 \in Nat \ {0} /\ a + k \in 0 .. Len(w)
  BY ListedFacts
<1>3. /\ Listed(v) /\ Len(v) = (IF a + 1 <= a + k THEN a + k - (a + 1) + 1 ELSE 0)
      /\ \A i \in 1 .. Len(v) : v[i] = w[(a + 1) + i - 1]
  BY <1>1, <1>2, SliceIsListed
<1>4. Len(v) = k
  BY <1>3
<1>5. ASSUME NEW i \in 1 .. k PROVE v[i] = x[i]
  <2>1. (a + 1) + i - 1 = a + i
    OBVIOUS
  <2>2. v[i] = w[a + i]
    BY <1>3, <1>4, <2>1
  <2> QED BY <2>2
<1>6. Listed(x) /\ Len(x) = k
  BY DEF OfSize
<1>7. v = x
  BY <1>3, <1>4, <1>5, <1>6, SameCells
<1> QED BY <1>1, <1>7

Addressed(w) ==
  /\ Len(w) > PackedPrefix /\ SubSeq(w, 1, HashLength) = DestHash("recipient")
  /\ SubSeq(w, HashLength + 1, 2 * HashLength) = DestHash("sender")
  /\ SubSeq(w, 2 * HashLength + 1, PackedPrefix) = Opaque("sig", SignatureLength, "sender")

LEMMA WholeIsAddressed ==
  ASSUME NEW p, Len(p) \in Nat, Len(p) >= 11, NEW s, Stampable(s), NEW w, IsWhole(w, p, s)
  PROVE  Addressed(w)
<1>1. PICK n \in Nat : n = Len(p) /\ n >= 11
  OBVIOUS
<1>2. PICK k \in Nat : k = Len(Trailer(s))
  BY TrailerCells
<1>3. PICK h \in Nat : h = HashLength
  BY LengthFacts
<1>4. PICK g \in Nat : g = SignatureLength
  BY LengthFacts
<1>5. PICK o \in Nat : o = PackedPrefix /\ o = 2 * h + g
  BY <1>3, <1>4, LengthFacts
<1>6. /\ Listed(w)
      /\ \A i \in 1 .. h : w[i] = <<"hash", i, "recipient">>
      /\ \A i \in 1 .. h : w[h + i] = <<"hash", i, "sender">>
      /\ \A i \in 1 .. g : w[2 * h + i] = <<"sig", i, "sender">>
  BY <1>1, <1>2, <1>3, <1>4, <1>5 DEF IsWhole, OfSize
<1>7. PICK a : a = DestHash("recipient")
  OBVIOUS
<1>8. OfSize(a, h) /\ \A i \in 1 .. h : a[i] = <<"hash", i, "recipient">>
  BY <1>3, <1>7, OpaqueIsListed DEF DestHash, OfSize
<1>9. PICK b : b = DestHash("sender")
  OBVIOUS
<1>10. OfSize(b, h) /\ \A i \in 1 .. h : b[i] = <<"hash", i, "sender">>
  BY <1>3, <1>9, OpaqueIsListed DEF DestHash, OfSize
<1>11. PICK c : c = Opaque("sig", SignatureLength, "sender")
  OBVIOUS
<1>12. OfSize(c, g) /\ \A i \in 1 .. g : c[i] = <<"sig", i, "sender">>
  BY <1>4, <1>11, OpaqueIsListed DEF OfSize
<1>13. PICK l : l = Len(w)
  OBVIOUS
<1>14. l \in Nat /\ h <= l /\ h + h <= l /\ 2 * h + g <= l /\ l > o
  <2>1. l = o + n + k
    BY <1>1, <1>2, <1>5, <1>13 DEF IsWhole, OfSize
  <2> QED BY <1>1, <1>5, <2>1
<1>15. SubSeq(w, 1, h) = a
  <2>1. PICK z \in Nat : z = 0
    OBVIOUS
  <2>2. CellsAt(a, w, z, h)
    <3>1. z + h <= Len(w)
      BY <1>13, <1>14, <2>1
    <3>2. ASSUME NEW i \in 1 .. h PROVE w[z + i] = a[i]
      <4>1. z + i = i
        BY <2>1
      <4> QED BY <1>6, <1>8, <4>1
    <3> QED BY <1>6, <1>8, <3>1, <3>2 DEF CellsAt
  <2>3. SubSeq(w, z + 1, z + h) = a
    BY <2>2, SliceOf, Zenon
  <2>4. z + 1 = 1 /\ z + h = h
    BY <2>1
  <2> QED BY <2>3, <2>4
<1>16. SubSeq(w, h + 1, 2 * h) = b
  <2>1. CellsAt(b, w, h, h)
    BY <1>6, <1>10, <1>13, <1>14 DEF CellsAt
  <2>2. SubSeq(w, h + 1, h + h) = b
    BY <2>1, SliceOf, Zenon
  <2>3. h + h = 2 * h
    OBVIOUS
  <2> QED BY <2>2, <2>3
<1>17. SubSeq(w, 2 * h + 1, o) = c
  <2>1. PICK z \in Nat : z = 2 * h
    OBVIOUS
  <2>2. CellsAt(c, w, z, g)
    BY <1>6, <1>12, <1>13, <1>14, <2>1 DEF CellsAt
  <2>3. SubSeq(w, z + 1, z + g) = c
    BY <2>2, SliceOf, Zenon
  <2> QED BY <1>5, <2>1, <2>3
<1> QED BY <1>3, <1>4, <1>5, <1>7, <1>9, <1>11, <1>13, <1>14, <1>15, <1>16, <1>17 DEF Addressed

(* So the recipient of the whole message reads what the sender put into it.*)
ReadsAs(view, m, s) ==
  /\ view.ok /\ view.title = m.title /\ view.content = m.content
  /\ view.fields = OuterFields(m) /\ view.trailer = Trailer(s)

LEMMA WholeIsRead ==
  ASSUME NEW m, Packable(m), NEW s, Stampable(s)
  PROVE  ReadsAs(ParseLink(WholeMessage(m, s), "recipient", Signed("recipient", PackPayload(m))), m, s)
<1>1. PICK p \in Seq(Byte) : p = PackPayload(m) /\ p[1] = 148 /\ Len(p) + 1 = ContentEnd(m) + Len(OuterFields(m))
  BY PayloadLaid DEF PayloadOf
<1>2. PICK n \in Nat : n = Len(p) /\ n >= 11
  BY <1>1, PayloadNotEmpty
<1>3. PICK w : w = WholeMessage(m, s)
  OBVIOUS
<1>4. IsWhole(w, p, s)
  BY <1>1, <1>3, WholeCells
<1>5. PICK me : me = "recipient"
  OBVIOUS
<1>6. PICK sg : sg = Signed(me, p)
  OBVIOUS
<1> DEFINE payload == SubSeq(w, PackedPrefix + 1, Len(w))
           b       == Bytes(payload)
           title   == ReadBin(b, 11)
           content == IF title = Malformed THEN Malformed ELSE ReadBin(b, title)
           fields  == IF content = Malformed THEN Malformed ELSE SkipValueAt(b, content, 0)
           element == SubSeq(b, content, fields - 1)
           guard == /\ Len(w) > PackedPrefix
                    /\ SubSeq(w, 1, HashLength) = DestHash(me)
                    /\ SubSeq(w, HashLength + 1, 2 * HashLength) = DestHash("sender")
                    /\ b[1] \in 148 .. 159 /\ Len(b) >= 10 /\ b[2] = 203
                    /\ fields # Malformed
                    /\ HasMapHeader(element) => ValidWithoutScratch(element)
                    /\ SubSeq(w, 2 * HashLength + 1, PackedPrefix)
                         = Opaque("sig", SignatureLength, "sender")
                    /\ Signed(me, [SubSeq(b, 1, fields - 1) EXCEPT ![1] = 148]) = sg
           view == [title |-> SubSeq(b, 11 + 1 + LengthBytes(b[11]), title - 1),
                    content |-> SubSeq(b, title + 1 + LengthBytes(b[title]), content - 1),
                    fields |-> element,
                    trailer |-> SubSeq(payload, fields, Len(payload)), ok |-> TRUE]
<1>7. ParseLink(w, me, sg) = IF guard THEN view ELSE Unreadable
  BY DEF ParseLink
<1>8. /\ HoldsPayload(b, 0, p, Marker(s)) /\ Len(b) = n + Len(Trailer(s))
      /\ SubSeq(payload, n + 1, Len(payload)) = Trailer(s)
  <2>1. CutFrom(w, p, s)
    BY <1>2, <1>4, WholeCut
  <2> QED BY <1>2, <2>1 DEF CutFrom
<1> HIDE DEF b
<1>9. PICK q : q = 0 + TitleEnd(m)
  OBVIOUS
<1>10. PICK r : r = 0 + ContentEnd(m)
  OBVIOUS
<1>11. PICK e : e = 0 + ContentEnd(m) + Len(OuterFields(m))
  OBVIOUS
<1>12. b \in Seq(Byte)
  BY <1>8 DEF HoldsPayload
<1>13. Layout(b, 0, m)
  <2>1. PICK o \in Nat : o = 0
    OBVIOUS
  <2>2. PICK marker : marker = Marker(s)
    OBVIOUS
  <2>3. HoldsPayload(b, o, PackPayload(m), marker)
    BY <1>1, <1>8, <2>1, <2>2, Zenon
  <2>4. Layout(b, o, m)
    BY <2>3, LayoutKept, Zenon
  <2> QED BY <2>1, <2>4, Zenon
<1>14. ReadsParts(b, 0, m, q, r, e)
  <2>1. 0 \in Nat
    OBVIOUS
  <2> QED BY <1>9, <1>10, <1>11, <1>12, <1>13, <2>1, LayoutReads, Zenon
<1>15. /\ q \in Position /\ r \in Position /\ e \in Position /\ e = n + 1 /\ e <= Len(b) + 1
       /\ ReadBin(b, 11) = q /\ SubSeq(b, 11 + 1 + LengthBytes(b[11]), q - 1) = m.title
       /\ ReadBin(b, q) = r /\ SubSeq(b, q + 1 + LengthBytes(b[q]), r - 1) = m.content
       /\ SkipValueAt(b, r, 0) = e /\ SubSeq(b, r, e - 1) = OuterFields(m)
  <2>1. ReadsBin(b, 0 + 11, m.title, q) /\ 0 + 11 = 11
    BY <1>14 DEF ReadsParts
  <2>2. ReadsBin(b, 11, m.title, q)
    BY <2>1
  <2>3. ReadsBin(b, q, m.content, r)
    BY <1>14 DEF ReadsParts
  <2>4. e = n + 1
    <3>1. PICK x \in Nat : x = ContentEnd(m)
      <4>1. Len(Bin(m.title)) \in Nat /\ Len(Bin(m.content)) \in Nat
        BY PartsAreSmall, BinIsLonger
      <4> QED BY <4>1 DEF ContentEnd, TitleEnd
    <3>2. PICK y \in Nat : y = Len(OuterFields(m))
      <4>1. OuterFields(m) \in Seq(Nat)
        BY OuterIsNumbers DEF Packable
      <4> QED BY <4>1
    <3>3. n + 1 = x + y /\ e = (0 + x) + y
      BY <1>1, <1>2, <1>11, <3>1, <3>2
    <3> QED BY <3>3
  <2> QED BY <1>14, <2>2, <2>3, <2>4 DEF ReadsParts, ReadsBin
<1>16. q # Malformed /\ r # Malformed /\ e # Malformed
  BY <1>15 DEF Position, Malformed
<1>17. title = q /\ content = r /\ fields = e /\ element = OuterFields(m)
  BY <1>15, <1>16
<1>18. b[1] \in 148 .. 159 /\ Len(b) >= 10 /\ b[2] = 203
  <2>1. b[0 + 1] = Marker(s) /\ 0 + n <= Len(b)
    BY <1>2, <1>8 DEF HoldsPayload
  <2>2. b[0 + 2] = 203
    BY <1>13 DEF Layout
  <2>3. Marker(s) \in 148 .. 159
    BY DEF Marker
  <2> QED BY <1>2, <1>12, <2>1, <2>2, <2>3
<1>19. ValidWithoutScratch(OuterFields(m))
  <2>1. PICK k : Laid(OuterFields(m), k)
    BY OuterLaid
  <2>2. PICK ids, at : IsLaid(OuterFields(m), ids, at, k)
    BY <2>1, Zenon DEF Laid
  <2>3. MaxDepth >= 1
    BY UploadAssumption, DepthAssumption
  <2> QED BY <2>2, <2>3, LaidValid, Zenon
<1>20. [SubSeq(b, 1, e - 1) EXCEPT ![1] = 148] = p
  <2>1. PICK v : v = SubSeq(b, 1, n)
    OBVIOUS
  <2>2. v \in Seq(Byte) /\ Len(v) = n /\ \A i \in 1 .. n : v[i] = b[i]
    <3>1. PICK f : f = n + 1
      OBVIOUS
    <3>2. 1 \in Position /\ f \in Nat /\ 1 <= f /\ f <= Len(b) + 1 /\ f - 1 = n
      BY <1>15, <3>1 DEF Position
    <3>3. SubSeq(b, 1, f - 1) \in Seq(Byte) /\ Len(SubSeq(b, 1, f - 1)) = f - 1
          /\ \A i \in 1 .. f - 1 : SubSeq(b, 1, f - 1)[i] = b[1 + i - 1]
      BY <1>12, <3>2, PartOf
    <3> QED BY <2>1, <3>2, <3>3
  <2>3. \A i \in 2 .. n : b[i] = p[i]
    <3>1. \A i \in 2 .. n : b[0 + i] = p[i]
      BY <1>2, <1>8 DEF HoldsPayload
    <3> QED BY <3>1
  <2>4. PICK x : x = [v EXCEPT ![1] = 148]
    OBVIOUS
  <2>5. DOMAIN x = 1 .. n /\ \A i \in 1 .. n : x[i] = IF i = 1 THEN 148 ELSE v[i]
    BY <2>2, <2>4
  <2>6. \A i \in 1 .. n : x[i] = p[i]
    BY <1>1, <2>2, <2>3, <2>5
  <2>7. 148 \in Byte /\ x = [i \in 1 .. n |-> x[i]]
    <3>1. 148 \in Byte
      BY DEF Byte
    <3> HIDE DEF Byte
    <3>2. DOMAIN x = DOMAIN v
      BY <2>4
    <3>3. x = [i \in DOMAIN x |-> x[i]]
      BY <2>4
    <3> QED BY <3>1, <3>3, <2>5
  <2>8. x \in Seq(Byte) /\ Len(x) = n
    <3> HIDE DEF Byte
    <3>1. \A i \in 1 .. n : x[i] \in Byte
      BY <2>2, <2>5, <2>7
    <3>2. x \in [1 .. n -> Byte]
      BY <2>7, <3>1
    <3> QED BY <3>2
  <2>9. x = p
    BY <1>2, <2>6, <2>8
  <2>10. e - 1 = n
    BY <1>15
  <2> QED BY <2>1, <2>4, <2>9, <2>10
<1>21. Addressed(w)
  BY <1>2, <1>4, WholeIsAddressed
<1>22. guard
  <2> HIDE DEF payload, title, content, element, fields
  <2>1. Signed(me, [SubSeq(b, 1, fields - 1) EXCEPT ![1] = 148]) = sg
    BY <1>6, <1>17, <1>20, Zenon
  <2> QED BY <1>5, <1>16, <1>17, <1>18, <1>19, <1>21, <2>1, Zenon DEF Addressed
<1>23. ParseLink(w, me, sg) = view
  <2> HIDE DEF guard, view
  <2> QED BY <1>7, <1>22, Zenon
<1>24. /\ view.ok /\ view.title = m.title /\ view.content = m.content
       /\ view.fields = OuterFields(m) /\ view.trailer = Trailer(s)
  <2> HIDE DEF payload, title, content, element, fields
  <2> QED BY <1>8, <1>15, <1>17
<1>25. ReadsAs(view, m, s)
  <2> HIDE DEF view
  <2> QED BY <1>24, Zenon DEF ReadsAs
<1> HIDE DEF view
<1> QED BY <1>1, <1>3, <1>5, <1>6, <1>23, <1>25, Zenon

-----------------------------------------------------------------------------
(* A buffer whose first n cells are w.                                     *)
Holds(buf, n, w) == Listed(buf) /\ n = Len(w) /\ n <= Len(buf) /\ \A i \in 1 .. n : buf[i] = w[i]

LEMMA HoldsIsSlice ==
  ASSUME NEW buf, NEW w, Listed(w), NEW n, Holds(buf, n, w)
  PROVE  SubSeq(buf, 1, n) = w
<1>1. n \in Nat /\ n <= Len(buf) /\ Len(buf) \in Nat /\ Listed(buf)
  BY ListedFacts DEF Holds
<1>2. PICK x : x = SubSeq(buf, 1, n)
  OBVIOUS
<1>3. Listed(x) /\ Len(x) = n /\ \A i \in 1 .. n : x[i] = buf[i]
  BY <1>1, <1>2, PrefixIsListed DEF IsPrefixOf
<1>4. x = w
  BY <1>3, SameCells DEF Holds
<1> QED BY <1>2, <1>4

LEMMA SliceIsHeld ==
  ASSUME NEW buf, Listed(buf), NEW n \in 0 .. Len(buf), NEW w, SubSeq(buf, 1, n) = w
  PROVE  Holds(buf, n, w)
<1>1. Listed(w) /\ Len(w) = n /\ \A i \in 1 .. n : w[i] = buf[i]
  BY PrefixIsListed DEF IsPrefixOf
<1>2. Len(buf) \in Nat
  BY ListedFacts
<1> QED BY <1>1, <1>2 DEF Holds

(* The whole message is its address and its body.                          *)
LEMMA WholeParts ==
  ASSUME NEW m, Packable(m), NEW s, Stampable(s)
  PROVE  /\ Concatenates(WholeMessage(m, s), DestHash("recipient"), Body(m, s))
         /\ Listed(Body(m, s)) /\ Len(Body(m, s)) \in Nat
<1>1. PICK y : y = Body(m, s)
  OBVIOUS
<1>2. Listed(y)
  BY <1>1, BodyCells DEF BodyIs, OfSize
<1>3. PICK a : a = DestHash("recipient")
  OBVIOUS
<1>4. Listed(a)
  BY <1>3, HashIsListed
<1>5. Concatenates(a \o y, a, y) /\ Len(y) \in Nat
  BY <1>2, <1>4, JoinConcatenates, ListedFacts
<1> QED BY <1>1, <1>2, <1>3, <1>5, Zenon DEF WholeMessage

LEMMA PlainBody ==
  ASSUME NEW m, Packable(m)
  PROVE  Body(m, <<>>) = DirectPlain(m) /\ Stampable(<<>>)
<1>1. PICK s : s = <<>>
  OBVIOUS
<1>2. Stampable(s)
  BY <1>1 DEF Stampable
<1>3. PICK d : d = DirectPlain(m)
  OBVIOUS
<1>4. PICK p : p = PackPayload(m)
  OBVIOUS
<1>5. PICK n \in Nat : n = Len(p) /\ n >= 11
  BY <1>4, PayloadNotEmpty
<1>6. PICK t : t = Trailer(s)
  OBVIOUS
<1>7. Len(t) = 0 /\ t = <<>>
  BY <1>1, <1>6 DEF Trailer
<1>8. PlainIs(d, p) /\ Lead \in Nat
  BY <1>3, <1>4, PlainCells
<1>9. d[Lead + 1] = <<"byte", p[1]>> /\ Listed(d) /\ Len(d) \in Nat
  <2>1. 1 \in 1 .. n
    BY <1>5
  <2>2. Listed(d) /\ \A i \in 1 .. n : d[Lead + i] = <<"byte", p[i]>>
    BY <1>5, <1>8 DEF PlainIs, OfSize
  <2> QED BY <2>1, <2>2, ListedFacts
<1>10. p[1] = 148
  BY <1>4, PayloadLaid DEF PayloadOf
<1>11. Marker(s) = 148
  BY <1>1 DEF Marker
<1>12. BodyIs(d, d, s)
  <2>1. Len(Trailer(s)) = 0 /\ OfSize(d, Len(d) + Len(Trailer(s)))
    BY <1>6, <1>7, <1>9 DEF OfSize
  <2> QED BY <1>9, <1>10, <1>11, <2>1 DEF BodyIs
<1>13. d = Body(m, s)
  BY <1>2, <1>3, <1>12, BodyOnly
<1> QED BY <1>1, <1>2, <1>3, <1>13

(* So that is what build_link leaves.                                      *)
LEMMA BuildHolds ==
  ASSUME NEW buf, Listed(buf), Len(buf) < Huge, NEW m \in Messages,
         BuildLink(buf, m, "recipient").error = "ok"
  PROVE  LET call == BuildLink(buf, m, "recipient")
         IN  Packable(m) /\ Holds(call.buffer, call.len, WholeMessage(m, <<>>))
<1> DEFINE call == BuildLink(buf, m, "recipient")
<1>1. Carries(call.buffer, call.len, m)
  BY BuildCarries
<1>2. Sized(call, buf) /\ SubSeq(call.buffer, 1, HashLength) = DestHash("recipient")
  BY BuildLeaves
<1>3. PICK after : after = call.buffer
  OBVIOUS
<1>4. PICK l : l = call.len
  OBVIOUS
<1> HIDE DEF call
<1>5. PICK d : d = DirectPlain(m)
  OBVIOUS
<1>6. /\ FieldSetError(m.fields) = "ok" /\ l = HashLength + Len(d)
      /\ \A i \in 1 .. Len(d) : after[HashLength + i] = d[i]
  BY <1>1, <1>3, <1>4, <1>5 DEF Carries
<1>7. Listed(after) /\ Len(after) = Len(buf) /\ l \in 0 .. Len(buf)
  BY <1>2, <1>3, <1>4 DEF Sized
<1>8. HashLength \in Nat /\ SignatureLength \in Nat /\ Len(buf) \in Nat
  BY LengthFacts, ListedFacts
<1>9. Packable(m)
  <2>1. PICK k : k = Len(PackPayload(m))
    OBVIOUS
  <2>2. k \in Nat /\ OfSize(d, HashLength + SignatureLength + k)
    BY <1>5, <1>6, <2>1, PlainIsListed
  <2>3. k < Huge
    <3>1. PICK w \in Nat : w = Huge
      BY DEF Huge
    <3>2. PICK j : j = Len(d)
      OBVIOUS
    <3>3. j = HashLength + SignatureLength + k /\ l = HashLength + j /\ l <= Len(buf) /\ Len(buf) < w
      BY <1>6, <1>7, <1>8, <2>2, <3>1, <3>2 DEF OfSize
    <3>4. k < w
      BY <1>8, <2>2, <3>3
    <3> QED BY <3>1, <3>4
  <2> QED BY <1>6, <2>1, <2>3 DEF Packable
<1>10. PICK w : w = WholeMessage(m, <<>>)
  OBVIOUS
<1>11. PICK a : a = DestHash("recipient")
  OBVIOUS
<1>12. Concatenates(w, a, d) /\ Listed(d) /\ Len(d) \in Nat
  BY <1>5, <1>9, <1>10, <1>11, PlainBody, WholeParts
<1>13. Len(a) = HashLength /\ Listed(a)
  BY <1>11, HashIsListed
<1>14. \A i \in 1 .. HashLength : after[i] = a[i]
  <2>1. HashLength \in 0 .. Len(after)
    BY <1>6, <1>7, <1>8, <1>12
  <2>2. IsPrefixOf(SubSeq(after, 1, HashLength), after, HashLength)
    BY <1>7, <2>1, PrefixIsListed
  <2>3. IsPrefixOf(a, after, HashLength)
    BY <1>2, <1>3, <1>11, <2>2
  <2> QED BY <2>3 DEF IsPrefixOf
<1>15. PICK h \in Nat : h = HashLength
  BY <1>8
<1>16. PICK k \in Nat : k = Len(d)
  BY <1>12
<1>17. ASSUME NEW i \in 1 .. h + k PROVE after[i] = w[i]
  <2>1. CASE i <= h
    <3>1. i \in 1 .. h
      BY <2>1
    <3> QED BY <1>12, <1>13, <1>14, <1>15, <3>1 DEF Concatenates
  <2>2. CASE i > h
    <3>1. i - h \in 1 .. k /\ h + (i - h) = i
      BY <2>2
    <3>2. after[h + (i - h)] = d[i - h]
      BY <1>6, <1>15, <1>16, <3>1
    <3>3. w[h + (i - h)] = d[i - h]
      BY <1>12, <1>13, <1>15, <1>16, <3>1 DEF Concatenates
    <3> QED BY <3>1, <3>2, <3>3
  <2> QED BY <2>1, <2>2
<1>18. Len(w) = h + k /\ l = h + k
  BY <1>6, <1>12, <1>13, <1>15, <1>16 DEF Concatenates
<1>19. Holds(after, l, w)
  BY <1>7, <1>17, <1>18 DEF Holds
<1> QED BY <1>3, <1>4, <1>9, <1>10, <1>19 DEF call

(* A stamp goes behind the message, and only the marker changes.           *)
StampedOver(after, buf, n, t) ==
  /\ OfSize(after, Len(buf)) /\ n + Len(t) <= Len(buf)
  /\ after[PackedPrefix + 1] = <<"byte", 149>>
  /\ \A i \in 1 .. n : i # PackedPrefix + 1 => after[i] = buf[i]
  /\ \A i \in 1 .. Len(t) : after[n + i] = t[i]

LEMMA StampWrites ==
  ASSUME NEW buf, Listed(buf), NEW n \in Nat, NEW s, s \in Stamps,
         AppendRecipientStamp(buf, n, s).error = "ok"
  PROVE  LET call == AppendRecipientStamp(buf, n, s)
         IN  /\ Stampable(s) /\ s # <<>> /\ Framed(buf, n, {148})
             /\ call.len = n + Len(Trailer(s)) /\ StampedOver(call.buffer, buf, n, Trailer(s))
<1> DEFINE call    == AppendRecipientStamp(buf, n, s)
           end     == n + 2 + Len(s)
           element == Cells(<<196, Len(s)>>) \o s
           after   == Appended(buf, n, element, <<"byte", 149>>)
           refused == Len(s) \notin {16, 32} \/ ~Framed(buf, n, {148})
<1>1. call = IF refused THEN Failed("MalformedPayload", buf, n)
             ELSE IF end > Len(buf) THEN Failed("OutputTooSmall", buf, n)
             ELSE Ok(after, end)
  BY DEF AppendRecipientStamp
<1>2. call.error = "ok"
  OBVIOUS
<1>3. PICK l \in Nat : l = Len(s)
  BY StampFacts
<1>4. element = Trailer(s) \/ s = <<>>
  BY DEF Trailer
<1>5. PICK x : x = after
  OBVIOUS
<1>6. PICK f : f = end
  OBVIOUS
<1>7. f = n + 2 + l
  BY <1>3, <1>6
<1> HIDE DEF call, refused, end, after
<1>8. ~refused /\ ~ (f > Len(buf)) /\ call = Ok(x, f)
  <2>1. Failed("MalformedPayload", buf, n).error # "ok" /\ Failed("OutputTooSmall", buf, n).error # "ok"
    BY DEF Failed
  <2> QED BY <1>1, <1>2, <1>5, <1>6, <2>1
<1>9. l \in {16, 32} /\ Framed(buf, n, {148})
  BY <1>3, <1>8 DEF refused
<1>10. s # <<>> /\ Stampable(s)
  <2>1. Len(<<>>) = 0
    OBVIOUS
  <2>2. l # 0
    BY <1>9
  <2>3. s # <<>>
    BY <1>3, <2>1, <2>2
  <2>4. Len(s) \in {16, 32}
    BY <1>3, <1>9
  <2> QED BY <2>3, <2>4, Zenon DEF Stampable
<1>11. PICK t : t = Trailer(s)
  OBVIOUS
<1>12. Listed(t) /\ Len(t) = 2 + l
  BY <1>3, <1>10, <1>11, TrailerCells DEF TrailerIs
<1>13. x = Appended(buf, n, t, <<"byte", 149>>)
  BY <1>4, <1>5, <1>10, <1>11 DEF after
<1>14. PICK k \in Nat : k = Len(buf)
  BY ListedFacts
<1>15. n > PackedPrefix /\ PackedPrefix \in Nat /\ n + Len(t) <= k
  <2>1. n > PackedPrefix
    BY <1>9, FramedByAByte
  <2>2. PackedPrefix \in Nat
    BY LengthFacts
  <2> QED BY <1>7, <1>8, <1>12, <1>14, <2>1, <2>2
<1>16. /\ DOMAIN x = 1 .. k /\ x[PackedPrefix + 1] = <<"byte", 149>>
       /\ \A i \in 1 .. n : i # PackedPrefix + 1 => x[i] = buf[i]
       /\ \A i \in 1 .. Len(t) : x[n + i] = t[i]
  <2> DEFINE S == {t[i] : i \in DOMAIN t}
             marker == <<"byte", 149>>
  <2>1. t \in Seq(S)
    BY <1>12 DEF Listed
  <2>2. DOMAIN buf = 1 .. k
    BY <1>14, ListedFacts
  <2>3. n \in PackedPrefix + 1 .. k
    BY <1>12, <1>15
  <2> HIDE DEF S, marker
  <2>4. LET appended == Appended(buf, n, t, marker)
        IN  /\ DOMAIN appended = 1 .. k
            /\ \A i \in 1 .. n : i # PackedPrefix + 1 => appended[i] = buf[i]
            /\ appended[PackedPrefix + 1] = marker
            /\ \A i \in 1 .. Len(t) : appended[n + i] = t[i]
    BY <1>15, <2>1, <2>2, <2>3, AppendKeepsSigned
  <2> QED BY <1>13, <2>4 DEF marker
<1>17. Sized(call, buf) /\ call.buffer = x /\ call.len = f
  <2>1. call.buffer = x /\ call.len = f
    BY <1>8 DEF Ok
  <2>2. Listed(s)
    BY StampFacts
  <2>3. Sized(call, buf)
    BY <1>2, <2>2, StampLeaves DEF call
  <2> QED BY <2>1, <2>3
<1>18. StampedOver(x, buf, n, t)
  BY <1>14, <1>15, <1>16, <1>17 DEF StampedOver, Sized, OfSize
<1> QED BY <1>7, <1>9, <1>10, <1>11, <1>12, <1>17, <1>18 DEF call

LEMMA StampHolds ==
  ASSUME NEW m, Packable(m), NEW s, Stampable(s), s # <<>>,
         NEW buf, NEW n, Holds(buf, n, WholeMessage(m, <<>>)), NEW after, StampedOver(after, buf, n, Trailer(s))
  PROVE  Holds(after, n + Len(Trailer(s)), WholeMessage(m, s)) /\ n = PackedPrefix + Len(PackPayload(m))
<1>1. PICK d : d = DirectPlain(m)
  OBVIOUS
<1>2. PICK y : y = Body(m, s)
  OBVIOUS
<1>3. PICK t : t = Trailer(s)
  OBVIOUS
<1>4. PICK a : a = DestHash("recipient")
  OBVIOUS
<1>5. PICK h \in Nat : h = HashLength
  BY LengthFacts
<1>6. PICK g \in Nat : g = SignatureLength
  BY LengthFacts
<1>7. PICK p : p = PackPayload(m)
  OBVIOUS
<1>8. PICK j \in Nat : j = Len(p) /\ j >= 11
  BY <1>7, PayloadNotEmpty
<1>9. PICK k \in Nat : k = (h + g) + j
  OBVIOUS
<1>10. Listed(d) /\ Len(d) = k
  BY <1>1, <1>5, <1>6, <1>7, <1>8, <1>9, PlainCells DEF PlainIs, OfSize, Lead
<1>11. PICK l \in Nat : l = Len(t)
  BY <1>3, TrailerCells
<1>12. PackedPrefix = h + (h + g)
  BY <1>5, <1>6 DEF PackedPrefix
<1>13. Listed(a) /\ Len(a) = h
  BY <1>4, <1>5, HashIsListed
<1>14. PICK w : w = WholeMessage(m, <<>>)
  OBVIOUS
<1>15. PICK v : v = WholeMessage(m, s)
  OBVIOUS
<1>16. Concatenates(w, a, d)
  BY <1>1, <1>4, <1>14, PlainBody, WholeParts
<1>17. Concatenates(v, a, y) /\ Len(y) \in Nat
  BY <1>2, <1>4, <1>15, WholeParts
<1>18. BodyIs(y, d, s) /\ Marker(s) = 149
  BY <1>1, <1>2, BodyCells DEF Marker
<1>19. /\ Len(y) = k + l /\ y[(h + g) + 1] = <<"byte", 149>>
       /\ \A i \in 1 .. k : i # (h + g) + 1 => y[i] = d[i]
       /\ \A i \in 1 .. l : y[k + i] = t[i]
  BY <1>3, <1>5, <1>6, <1>10, <1>11, <1>18 DEF BodyIs, OfSize, Lead
<1>20. /\ n = h + k /\ \A i \in 1 .. h : buf[i] = a[i]
       /\ \A i \in 1 .. k : buf[h + i] = d[i]
  <2>1. n = Len(w) /\ \A i \in 1 .. n : buf[i] = w[i]
    BY <1>14 DEF Holds
  <2>2. n = h + k
    BY <1>10, <1>13, <1>16, <2>1 DEF Concatenates
  <2>3. ASSUME NEW i \in 1 .. h PROVE buf[i] = a[i]
    <3>1. i \in 1 .. n
      BY <2>2
    <3> QED BY <1>13, <1>16, <2>1, <3>1 DEF Concatenates
  <2>4. ASSUME NEW i \in 1 .. k PROVE buf[h + i] = d[i]
    <3>1. h + i \in 1 .. n
      BY <2>2
    <3>2. w[h + i] = d[i]
      BY <1>10, <1>13, <1>16 DEF Concatenates
    <3> QED BY <2>1, <3>1, <3>2
  <2> QED BY <2>2, <2>3, <2>4
<1>21. /\ Listed(after) /\ n + l <= Len(after) /\ after[(h + (h + g)) + 1] = <<"byte", 149>>
       /\ \A i \in 1 .. n : i # (h + (h + g)) + 1 => after[i] = buf[i]
       /\ \A i \in 1 .. l : after[n + i] = t[i]
  BY <1>3, <1>11, <1>12 DEF StampedOver, OfSize
<1>22. ASSUME NEW i \in 1 .. n + l PROVE after[i] = v[i]
  <2>1. CASE i <= h
    <3>1. i \in 1 .. h /\ i \in 1 .. n /\ i # (h + (h + g)) + 1
      BY <1>20, <2>1
    <3>2. v[i] = a[i]
      BY <1>13, <1>17, <3>1 DEF Concatenates
    <3> QED BY <1>20, <1>21, <3>1, <3>2
  <2>2. CASE h < i /\ i <= n
    <3>1. PICK x : x = i - h
      OBVIOUS
    <3>2. x \in 1 .. k /\ x \in 1 .. k + l /\ h + x = i /\ i \in 1 .. n
      BY <1>20, <2>2, <3>1
    <3>3. v[i] = y[x]
      BY <1>13, <1>17, <1>19, <3>2 DEF Concatenates
    <3>4. CASE x = (h + g) + 1
      <4>1. i = (h + (h + g)) + 1
        BY <3>2, <3>4
      <4> QED BY <1>19, <1>21, <3>3, <3>4, <4>1
    <3>5. CASE x # (h + g) + 1
      <4>1. i # (h + (h + g)) + 1
        BY <3>2, <3>5
      <4>2. after[i] = buf[i] /\ buf[i] = d[x]
        BY <1>20, <1>21, <3>2, <4>1
      <4>3. y[x] = d[x]
        BY <1>19, <3>2, <3>5
      <4> QED BY <3>3, <4>2, <4>3
    <3> QED BY <3>4, <3>5
  <2>3. CASE i > n
    <3>1. PICK x : x = i - n
      OBVIOUS
    <3>2. x \in 1 .. l /\ n + x = i /\ k + x \in 1 .. k + l /\ h + (k + x) = i
      BY <1>20, <2>3, <3>1
    <3>3. v[i] = y[k + x]
      BY <1>13, <1>17, <1>19, <3>2 DEF Concatenates
    <3> QED BY <1>19, <1>21, <3>2, <3>3
  <2> QED BY <1>20, <2>1, <2>2, <2>3
<1>23. Len(v) = n + l
  BY <1>13, <1>17, <1>19, <1>20 DEF Concatenates
<1>24. Holds(after, n + l, v)
  BY <1>21, <1>22, <1>23 DEF Holds
<1> QED BY <1>3, <1>7, <1>8, <1>9, <1>11, <1>12, <1>15, <1>20, <1>24

(* The length before the stamp is no framed message any more: the marker   *)
(* counts five elements, and only four fit.                                *)
FiveOf(b, o, m) ==
  /\ b \in Seq(Byte) /\ o \in Nat /\ o + 1 <= Len(b) /\ b[o + 1] = 149 /\ Layout(b, o, m)
  /\ o + ContentEnd(m) + Len(OuterFields(m)) = Len(b) + 1

LEMMA FourDoNotEnd ==
  ASSUME NEW m, Packable(m), NEW b, NEW o, FiveOf(b, o, m)
  PROVE  SkipValueAt(b, o + 1, 0) # Len(b) + 1
<1>1. PICK t : t = o + TitleEnd(m)
  OBVIOUS
<1>2. PICK c : c = o + ContentEnd(m)
  OBVIOUS
<1>3. PICK f : f = o + ContentEnd(m) + Len(OuterFields(m))
  OBVIOUS
<1>4. b \in Seq(Byte) /\ o \in Nat /\ f = Len(b) + 1 /\ b[o + 1] = 149 /\ o + 1 <= Len(b)
  BY <1>3 DEF FiveOf
<1>5. ReadsParts(b, o, m, t, c, f)
  BY <1>1, <1>2, <1>3, LayoutReads DEF FiveOf
<1>6. /\ t \in Position /\ c \in Position /\ f \in Position
      /\ o + 1 \in Position /\ o + 2 \in Position /\ o + 11 \in Position
  BY <1>4, <1>5 DEF ReadsParts, Position
<1>7. 0 \in Nat /\ 1 \in Nat /\ 2 \in Nat /\ 3 \in Nat /\ 4 \in Nat /\ 5 \in Nat
  OBVIOUS
<1>8. 0 <= MaxDepth /\ 1 <= MaxDepth /\ 1 + 1 = 2 /\ 0 + 1 = 1 /\ 5 - 1 = 4 /\ 4 - 1 = 3 /\ 3 - 1 = 2 /\ 1 - 1 = 0
      /\ 5 > 0 /\ 4 > 0 /\ 3 > 0 /\ 1 > 0 /\ 1 + 1 = 2
  BY UploadAssumption, DepthAssumption
<1>9. Readable(b, o + 1) /\ OwnEnd(b, o + 1) = o + 2 /\ Items(b, o + 1) = 5
  <2>1. PICK q \in Position : q = o + 1
    BY <1>6
  <2>2. q <= Len(b) /\ 5 \in Nat /\ 5 <= 15 /\ b[q] = 144 + 5
    BY <1>4, <2>1
  <2>3. ReadsAsArray(b, q, 5)
    BY <1>4, <2>2, SmallArrayRead
  <2>4. q + 1 = o + 2
    BY <1>4, <2>1
  <2> QED BY <2>1, <2>3, <2>4 DEF ReadsAsArray
<1>10. Readable(b, o + 2) /\ OwnEnd(b, o + 2) = o + 11 /\ Items(b, o + 2) = 0
  BY <1>5 DEF ReadsParts, ReadsAsFloat
<1>11. ASSUME NEW p, NEW x, NEW e, ReadsBin(b, p, x, e), p \in Position, p < e
       PROVE  Readable(b, p) /\ OwnEnd(b, p) = e /\ Items(b, p) = 0
  <2>1. Readable(b, p) /\ OwnEnd(b, p) = e /\ IsBlob(b[p])
    BY <1>11 DEF ReadsBin
  <2>2. p \in 1 .. Len(b)
    BY <1>4, <1>11, <2>1 DEF Readable, Position
  <2>3. b[p] \in Nat
    BY <1>4, <2>2, BytesAreNat
  <2>4. ~IsArray(b[p]) /\ ~IsMap(b[p])
    BY <2>1, <2>3, LeavesHoldNothing, BlobsAreNoNumbers
  <2> QED BY <2>1, <2>4 DEF Items
<1>12. ReadsBin(b, o + 11, m.title, t) /\ ReadsBin(b, t, m.content, c) /\ SkipValueAt(b, c, 0) = f
       /\ o + 11 < t /\ t < c
  BY <1>5 DEF ReadsParts
<1>13. Readable(b, o + 11) /\ OwnEnd(b, o + 11) = t /\ Items(b, o + 11) = 0
  BY <1>6, <1>11, <1>12
<1>14. Readable(b, t) /\ OwnEnd(b, t) = c /\ Items(b, t) = 0
  BY <1>6, <1>11, <1>12
<1>15. \A p \in Position : Skip(b, p, 0, 2) = p
  BY <1>4, <1>7, SkipNone
<1>16. Skip(b, o + 2, 5, 1) = Skip(b, o + 11, 4, 1)
  <2>1. Skip(b, OwnEnd(b, o + 2), Items(b, o + 2), 1 + 1) = o + 11
    BY <1>6, <1>8, <1>10, <1>15
  <2> QED BY <1>4, <1>6, <1>7, <1>8, <1>10, <2>1, SkipOne
<1>17. Skip(b, o + 11, 4, 1) = Skip(b, t, 3, 1)
  <2>1. Skip(b, OwnEnd(b, o + 11), Items(b, o + 11), 1 + 1) = t
    BY <1>6, <1>8, <1>13, <1>15
  <2> QED BY <1>4, <1>6, <1>7, <1>8, <1>13, <2>1, SkipOne
<1>18. Skip(b, t, 3, 1) = Skip(b, c, 2, 1)
  <2>1. Skip(b, OwnEnd(b, t), Items(b, t), 1 + 1) = c
    BY <1>6, <1>8, <1>14, <1>15
  <2> QED BY <1>4, <1>6, <1>7, <1>8, <1>14, <2>1, SkipOne
<1>19. Skip(b, o + 2, 5, 1) = Skip(b, c, 2, 1)
  BY <1>16, <1>17, <1>18
<1>20. PICK l \in Nat : l = Len(b)
  BY <1>4
<1>21. Skip(b, c, 2, 1) = Malformed \/ Skip(b, c, 2, 1) = Skip(b, f, 1, 1)
  <2>1. CASE SkipValueAt(b, c, 1) = Malformed
    BY <1>4, <1>6, <1>7, <1>8, <2>1, SkipNext
  <2>2. CASE SkipValueAt(b, c, 1) # Malformed
    <3>1. Skip(b, c, 1 + 1, 1) = Skip(b, SkipValueAt(b, c, 1), 1, 1)
      BY <1>4, <1>6, <1>7, <2>2, SkipNext
    <3>2. SameAbove(b, 1, 0, c)
      BY <1>4, <1>6, <1>7, SkipAbove
    <3>3. SkipValueAt(b, c, 1) = f
      BY <1>8, <1>12, <2>2, <3>2 DEF SameAbove, SkipValueAt
    <3> QED BY <1>8, <3>1, <3>3
  <2> QED BY <2>1, <2>2
<1>22. Skip(b, f, 1, 1) # f
  <2>1. SkipsForward(b, 1, 1, f)
    BY <1>4, <1>6, <1>7, SkipForward
  <2>2. f \in Nat /\ f > 0
    BY <1>6 DEF Position
  <2> QED BY <2>1, <2>2 DEF SkipsForward, Malformed
<1>23. PICK z : z = Skip(b, o + 2, 5, 1)
  OBVIOUS
<1>24. z # f
  BY <1>6, <1>19, <1>21, <1>22, <1>23 DEF Malformed, Position
<1>25. Skip(b, o + 1, 1, 0) = Malformed \/ Skip(b, o + 1, 1, 0) = z
  <2>1. Skip(b, o + 1, 1, 0) =
          IF 1 = 0 THEN o + 1
          ELSE IF 0 > MaxDepth \/ ~Readable(b, o + 1) THEN Malformed
          ELSE IF Skip(b, OwnEnd(b, o + 1), Items(b, o + 1), 0 + 1) = Malformed THEN Malformed
          ELSE Skip(b, Skip(b, OwnEnd(b, o + 1), Items(b, o + 1), 0 + 1), 1 - 1, 0)
    <3>1. PICK q \in Position : q = o + 1
      BY <1>6
    <3>2. PICK k \in Nat : k = 1
      OBVIOUS
    <3>3. PICK d \in Nat : d = 0
      OBVIOUS
    <3>4. Skip(b, q, k, d) =
            IF k = 0 THEN q
            ELSE IF d > MaxDepth \/ ~Readable(b, q) THEN Malformed
            ELSE IF Skip(b, OwnEnd(b, q), Items(b, q), d + 1) = Malformed THEN Malformed
            ELSE Skip(b, Skip(b, OwnEnd(b, q), Items(b, q), d + 1), k - 1, d)
      BY <1>4, SkipEquation
    <3> QED BY <3>1, <3>2, <3>3, <3>4, Zenon
  <2>2. Skip(b, OwnEnd(b, o + 1), Items(b, o + 1), 0 + 1) = z
    BY <1>8, <1>9, <1>23
  <2>3. CASE z = Malformed
    BY <1>8, <1>9, <2>1, <2>2, <2>3
  <2>4. CASE z # Malformed
    <3>1. SkipsForward(b, 5, 1, o + 2)
      BY <1>4, <1>6, <1>7, SkipForward
    <3>2. z \in Position
      BY <1>23, <2>4, <3>1 DEF SkipsForward, Malformed, Position
    <3>3. Skip(b, z, 0, 0) = z
      BY <1>4, <1>7, <3>2, SkipNone
    <3> QED BY <1>8, <1>9, <2>1, <2>2, <2>4, <3>3
  <2> QED BY <2>3, <2>4
<1>26. SkipValueAt(b, o + 1, 0) # f
  BY <1>6, <1>24, <1>25 DEF SkipValueAt, Malformed, Position
<1> QED BY <1>4, <1>26

LEMMA NotFramedAgain ==
  ASSUME NEW m, Packable(m), NEW s, Stampable(s), s # <<>>, NEW buf, NEW n,
         Holds(buf, n, WholeMessage(m, s)), NEW l, l = PackedPrefix + Len(PackPayload(m)), NEW markers
  PROVE  ~Framed(buf, l, markers)
<1>1. PICK p : p = PackPayload(m)
  OBVIOUS
<1>2. PICK k \in Nat : k = Len(p) /\ k >= 11
  BY <1>1, PayloadNotEmpty
<1>3. PICK o \in Nat : o = PackedPrefix
  BY LengthFacts
<1>4. PICK w : w = WholeMessage(m, s)
  OBVIOUS
<1>5. IsWhole(w, p, s)
  BY <1>1, <1>4, WholeCells
<1>6. PayloadOf(p, m)
  BY <1>1, PayloadLaid
<1>7. l \in Nat /\ l = o + k
  BY <1>1, <1>2, <1>3
<1>8. PICK j \in Nat : j = Len(Trailer(s))
  BY TrailerCells
<1>9. Listed(buf) /\ l <= Len(buf) /\ Len(buf) \in Nat /\ \A i \in 1 .. l : buf[i] = w[i]
  <2>1. Listed(buf) /\ n <= Len(buf) /\ n = Len(w) /\ \A i \in 1 .. n : buf[i] = w[i]
    BY <1>4 DEF Holds
  <2>2. Len(buf) \in Nat
    BY <2>1, ListedFacts
  <2>3. n = (o + k) + j
    BY <1>2, <1>3, <1>5, <1>8, <2>1 DEF IsWhole, OfSize
  <2> QED BY <1>7, <2>1, <2>2, <2>3
<1>10. PICK x : x = SubSeq(buf, 1, l)
  OBVIOUS
<1>11. Listed(x) /\ Len(x) = l /\ \A i \in 1 .. l : x[i] = w[i]
  <2>1. l \in 0 .. Len(buf)
    BY <1>7, <1>9
  <2>2. Listed(x) /\ Len(x) = l /\ \A i \in 1 .. l : x[i] = buf[i]
    BY <1>9, <1>10, <2>1, PrefixIsListed DEF IsPrefixOf
  <2> QED BY <1>9, <2>2
<1>12. /\ \A i \in 1 .. o : x[i][1] # "byte"
       /\ x[o + 1] = <<"byte", 149>> /\ \A i \in 2 .. k : x[o + i] = <<"byte", p[i]>>
  <2>1. PICK h \in Nat : h = HashLength
    BY LengthFacts
  <2>2. PICK g \in Nat : g = SignatureLength
    BY LengthFacts
  <2>3. o = (h + h) + g /\ 2 * h = h + h
    BY <1>3, <2>1, <2>2 DEF PackedPrefix
  <2>4. Marker(s) = 149
    BY DEF Marker
  <2>5. /\ \A i \in 1 .. h : w[i] = <<"hash", i, "recipient">>
        /\ \A i \in 1 .. h : w[h + i] = <<"hash", i, "sender">>
        /\ \A i \in 1 .. g : w[2 * h + i] = <<"sig", i, "sender">>
        /\ w[o + 1] = <<"byte", 149>> /\ \A i \in 2 .. k : w[o + i] = <<"byte", p[i]>>
    BY <1>2, <1>3, <1>5, <2>1, <2>2, <2>4 DEF IsWhole
  <2>6. ASSUME NEW i \in 1 .. o PROVE x[i][1] # "byte"
    <3>1. x[i] = w[i]
      BY <1>7, <1>11
    <3>2. CASE i <= h
      <4>1. i \in 1 .. h
        BY <3>2
      <4>2. w[i] = <<"hash", i, "recipient">>
        BY <2>5, <4>1
      <4> QED BY <3>1, <4>2
    <3>3. CASE h < i /\ i <= h + h
      <4>1. i - h \in 1 .. h /\ h + (i - h) = i
        BY <3>3
      <4>2. w[i] = <<"hash", i - h, "sender">>
        BY <2>5, <4>1
      <4> QED BY <3>1, <4>2
    <3>4. CASE i > h + h
      <4>1. PICK y : y = i - (h + h)
        OBVIOUS
      <4>2. y \in 1 .. g /\ (h + h) + y = i
        BY <2>3, <3>4, <4>1
      <4>3. w[i] = <<"sig", y, "sender">>
        BY <2>3, <2>5, <4>2
      <4> QED BY <3>1, <4>3
    <3> QED BY <3>2, <3>3, <3>4
  <2>7. o + 1 \in 1 .. l /\ \A i \in 2 .. k : o + i \in 1 .. l
    BY <1>2, <1>7
  <2> QED BY <1>11, <2>5, <2>6, <2>7
<1>13. PICK b : b = Bytes(x)
  OBVIOUS
<1>14. ReadsCells(b, x)
  <2>1. 149 \in Byte
    BY DEF Byte
  <2> HIDE DEF Byte
  <2>2. ASSUME NEW i \in 1 .. l, x[i][1] = "byte" PROVE x[i][2] \in Byte
    <3>1. CASE i <= o
      <4>1. i \in 1 .. o
        BY <3>1
      <4> QED BY <1>12, <2>2, <4>1
    <3>2. CASE i = o + 1
      BY <1>12, <2>1, <3>2
    <3>3. CASE i > o + 1
      <4>1. PICK y : y = i - o
        OBVIOUS
      <4>2. y \in 2 .. k /\ o + y = i /\ y \in 1 .. k
        BY <1>7, <3>3, <4>1
      <4>3. p[y] \in Byte
        BY <1>2, <1>6, <4>2 DEF PayloadOf
      <4>4. x[i] = <<"byte", p[y]>>
        BY <1>12, <4>2
      <4> QED BY <4>3, <4>4
    <3> QED BY <3>1, <3>2, <3>3
  <2> QED BY <1>11, <1>13, <2>2, BytesOfCells
<1>15. /\ b \in Seq(Byte) /\ Len(b) = l /\ b[o + 1] = 149 /\ \A i \in 2 .. k : b[o + i] = p[i]
  <2>1. /\ b \in Seq(Byte) /\ Len(b) = l /\ \A i \in 1 .. l : x[i][1] = "byte" => b[i] = x[i][2]
    BY <1>11, <1>14 DEF ReadsCells
  <2>2. o + 1 \in 1 .. l /\ \A i \in 2 .. k : o + i \in 1 .. l
    BY <1>2, <1>7
  <2>3. b[o + 1] = 149
    BY <1>12, <2>1, <2>2
  <2>4. ASSUME NEW i \in 2 .. k PROVE b[o + i] = p[i]
    <3>1. x[o + i] = <<"byte", p[i]>> /\ o + i \in 1 .. l
      BY <1>12, <2>2
    <3> QED BY <2>1, <3>1
  <2> QED BY <2>1, <2>3, <2>4
<1>16. FiveOf(b, o, m)
  <2>1. HoldsPayload(b, o, p, 149)
    BY <1>2, <1>7, <1>15 DEF HoldsPayload
  <2>2. Layout(b, o, m)
    BY <1>1, <2>1, LayoutKept
  <2>3. PICK c : c = ContentEnd(m)
    OBVIOUS
  <2>4. PICK u : u = Len(OuterFields(m))
    OBVIOUS
  <2>5. k + 1 = c + u
    BY <1>2, <1>6, <2>3, <2>4 DEF PayloadOf
  <2>6. o + 1 <= Len(b)
    BY <1>2, <1>7, <1>15
  <2>7. c \in Nat /\ u \in Nat
    <3>1. OuterFields(m) \in Seq(Byte)
      <4>1. PICK i : Laid(OuterFields(m), i)
        BY OuterLaid
      <4> QED BY <4>1 DEF Laid, IsLaid
    <3>2. m.title \in Seq(Byte) /\ m.content \in Seq(Byte) /\ Len(m.title) < Huge /\ Len(m.content) < Huge
      BY PartsAreSmall
    <3>3. Bin(m.title) \in Seq(Byte) /\ Bin(m.content) \in Seq(Byte)
      BY <3>2, BinBytes DEF Joined
    <3> QED BY <2>3, <2>4, <3>1, <3>3 DEF ContentEnd, TitleEnd
  <2>8. (o + c) + u = Len(b) + 1
    BY <1>7, <1>15, <2>5, <2>7
  <2> QED BY <1>15, <2>2, <2>3, <2>4, <2>6, <2>8 DEF FiveOf
<1>17. SkipValueAt(b, o + 1, 0) # l + 1
  BY <1>15, <1>16, FourDoNotEnd
<1>18. Framed(buf, l, markers) => SkipValueAt(b, o + 1, 0) = l + 1
  BY <1>3, <1>10, <1>13 DEF Framed
<1> QED BY <1>17, <1>18

-----------------------------------------------------------------------------
(* What a sealing call leaves in use: ciphertext, behind an address when it*)
(* is an entry.                                                            *)
Cipher(k, e) == Opaque("cipher", CiphertextLen(k), e)

LEMMA CipherIsLeft ==
  ASSUME NEW call, NEW buf, Sized(call, buf), NEW k \in Nat, NEW e, Enciphers(call, 0, k, e)
  PROVE  SubSeq(call.buffer, 1, call.len) = Cipher(k, e)
<1>1. PICK t \in Nat : t = CiphertextLen(k)
  BY CiphertextIsLonger
<1>2. PICK after : after = call.buffer
  OBVIOUS
<1>3. call.len = t /\ t <= Len(after) /\ Listed(after) /\ \A i \in 1 .. t : after[i] = <<"cipher", i, e>>
  <2>1. call.len = 0 + t /\ \A i \in 1 .. t : after[0 + i] = <<"cipher", i, e>>
    BY <1>1, <1>2 DEF Enciphers
  <2>2. Listed(after) /\ Len(after) = Len(buf) /\ call.len \in 0 .. Len(buf)
    BY <1>2 DEF Sized
  <2>3. call.len = t
    BY <2>1
  <2>4. Len(after) \in Nat
    BY <2>2, ListedFacts
  <2> QED BY <2>1, <2>2, <2>3, <2>4
<1>4. PICK c : c = Opaque("cipher", t, e)
  OBVIOUS
<1>5. Listed(c) /\ Len(c) = t /\ \A i \in 1 .. t : c[i] = <<"cipher", i, e>>
  BY <1>4, OpaqueIsListed
<1>6. Holds(after, t, c)
  BY <1>3, <1>5 DEF Holds
<1>7. SubSeq(after, 1, t) = c
  BY <1>5, <1>6, HoldsIsSlice
<1> QED BY <1>1, <1>2, <1>3, <1>4, <1>7, Zenon DEF Cipher

LEMMA EntryIsLeft ==
  ASSUME NEW call, NEW buf, Sized(call, buf), NEW k \in Nat, NEW e, Enciphers(call, HashLength, k, e),
         SubSeq(call.buffer, 1, HashLength) = DestHash("recipient")
  PROVE  SubSeq(call.buffer, 1, call.len) = DestHash("recipient") \o Cipher(k, e)
<1>1. PICK t \in Nat : t = CiphertextLen(k)
  BY CiphertextIsLonger
<1>2. PICK after : after = call.buffer
  OBVIOUS
<1>3. PICK h \in Nat : h = HashLength
  BY LengthFacts
<1>4. /\ call.len = h + t /\ h + t <= Len(after) /\ Listed(after)
      /\ \A i \in 1 .. t : after[h + i] = <<"cipher", i, e>>
  <2>1. call.len = h + t /\ \A i \in 1 .. t : after[h + i] = <<"cipher", i, e>>
    BY <1>1, <1>2, <1>3 DEF Enciphers
  <2>2. Listed(after) /\ Len(after) = Len(buf) /\ call.len \in 0 .. Len(buf)
    BY <1>2 DEF Sized
  <2>3. PICK l \in Nat : l = Len(after)
    BY <2>2, ListedFacts
  <2>4. call.len <= l
    BY <2>2, <2>3
  <2>5. h + t <= l
    BY <2>1, <2>4
  <2> QED BY <2>1, <2>2, <2>3, <2>5
<1>5. PICK c : c = Cipher(k, e)
  OBVIOUS
<1>6. Listed(c) /\ Len(c) = t /\ \A i \in 1 .. t : c[i] = <<"cipher", i, e>>
  BY <1>1, <1>5, OpaqueIsListed DEF Cipher
<1>7. PICK a : a = DestHash("recipient")
  OBVIOUS
<1>8. Listed(a) /\ Len(a) = h /\ \A i \in 1 .. h : a[i] = after[i]
  <2>1. h \in 0 .. Len(after)
    BY <1>4, ListedFacts
  <2>2. IsPrefixOf(SubSeq(after, 1, h), after, h)
    BY <1>4, <2>1, PrefixIsListed
  <2>3. SubSeq(after, 1, h) = a
    BY <1>2, <1>3, <1>7
  <2> QED BY <2>2, <2>3 DEF IsPrefixOf
<1>9. PICK w : w = a \o c
  OBVIOUS
<1>10. Concatenates(w, a, c)
  BY <1>6, <1>8, <1>9, JoinConcatenates
<1>11. Listed(w) /\ Len(w) = h + t /\ (\A i \in 1 .. h : w[i] = a[i]) /\ \A i \in 1 .. t : w[h + i] = c[i]
  BY <1>6, <1>8, <1>10 DEF Concatenates
<1>12. ASSUME NEW i \in 1 .. h + t PROVE after[i] = w[i]
  <2>1. CASE i <= h
    <3>1. i \in 1 .. h
      BY <2>1
    <3> QED BY <1>8, <1>11, <3>1
  <2>2. CASE i > h
    <3>1. i - h \in 1 .. t /\ h + (i - h) = i
      BY <2>2
    <3>2. after[h + (i - h)] = <<"cipher", i - h, e>> /\ w[h + (i - h)] = <<"cipher", i - h, e>>
      BY <1>4, <1>6, <1>11, <3>1
    <3> QED BY <3>1, <3>2
  <2> QED BY <2>1, <2>2
<1>13. Holds(after, h + t, w)
  BY <1>4, <1>11, <1>12 DEF Holds
<1>14. SubSeq(after, 1, h + t) = w
  BY <1>11, <1>13, HoldsIsSlice
<1> QED BY <1>2, <1>4, <1>5, <1>7, <1>9, <1>14, Zenon

(* What is encrypted is what lay behind the address.                       *)
Behind(buf, n, x) ==
  /\ Listed(x) /\ Len(x) \in Nat /\ n = HashLength + Len(x)
  /\ \A i \in 1 .. Len(x) : buf[HashLength + i] = x[i]
HasRoom(buf, base, at, x) ==
  at = (base + PlaintextOffset) + 1 /\ (base + PlaintextOffset) + Len(x) <= Len(buf)

LEMMA MovedPlain ==
  ASSUME NEW buf, Listed(buf), NEW x, NEW n, Behind(buf, n, x), NEW base \in Nat, NEW at, HasRoom(buf, base, at, x)
  PROVE  PlaintextAt(CopyWithin(buf, HashLength + 1, n, at), base, n - HashLength) = x
<1>1. PICK k \in Nat : k = Len(x)
  BY DEF Behind
<1>2. PICK h \in Nat : h = HashLength
  BY LengthFacts
<1>3. PICK o \in Nat : o = base + PlaintextOffset
  BY LengthFacts
<1>4. PICK first \in Nat \ {0} : first = h + 1
  OBVIOUS
<1>5. PICK copy : copy = CopyWithin(buf, first, n, at)
  OBVIOUS
<1>6. n \in Nat /\ n = h + k /\ at \in Nat \ {0} /\ at = o + 1 /\ Len(buf) \in Nat /\ o + k <= Len(buf)
  BY <1>1, <1>2, <1>3, ListedFacts DEF Behind, HasRoom
<1>7. Recopied(copy, buf, first, n, at)
  BY <1>5, <1>6, CopyKeeps
<1>8. ASSUME NEW i \in 1 .. k PROVE copy[o + i] = x[i]
  <2>1. PICK j : j = o + i
    OBVIOUS
  <2>2. j \in 1 .. Len(buf) /\ j \in at .. at + n - first /\ j - at + first = h + i
    <3>1. PICK l \in Nat : l = Len(buf)
      BY <1>6
    <3>2. j >= 1 /\ j <= o + k /\ o + k <= l
      BY <1>6, <2>1, <3>1
    <3>3. at = o + 1 /\ n = h + k /\ first = h + 1 /\ j = o + i
      BY <1>4, <1>6, <2>1
    <3>4. at + n - first = o + k
      BY <3>3
    <3>5. at <= j /\ j \in Int
      BY <3>3
    <3>6. j - at + first = h + i
      BY <3>3
    <3>7. j \in 1 .. Len(buf)
      BY <3>1, <3>2, <3>5
    <3>8. j \in at .. at + n - first
      BY <3>2, <3>4, <3>5
    <3> QED BY <3>6, <3>7, <3>8
  <2>3. copy[j] = buf[h + i]
    BY <1>7, <2>2 DEF Recopied
  <2>4. buf[h + i] = x[i]
    BY <1>1, <1>2 DEF Behind
  <2> QED BY <2>1, <2>3, <2>4
<1>9. Listed(copy) /\ Len(copy) = Len(buf)
  BY <1>7 DEF Recopied, OfSize
<1>10. CellsAt(x, copy, o, k)
  BY <1>1, <1>6, <1>8, <1>9 DEF CellsAt, OfSize, Behind
<1>11. SubSeq(copy, o + 1, o + k) = x
  BY <1>10, SliceOf
<1>12. n - HashLength = k /\ copy = CopyWithin(buf, HashLength + 1, n, at)
  BY <1>2, <1>4, <1>5, <1>6
<1> QED BY <1>3, <1>11, <1>12 DEF PlaintextAt

LEMMA WholeBehind ==
  ASSUME NEW m, Packable(m), NEW s, Stampable(s), NEW buf, NEW n, Holds(buf, n, WholeMessage(m, s))
  PROVE  Behind(buf, n, Body(m, s))
<1>1. PICK w : w = WholeMessage(m, s)
  OBVIOUS
<1>2. PICK y : y = Body(m, s)
  OBVIOUS
<1>3. PICK a : a = DestHash("recipient")
  OBVIOUS
<1>4. PICK h \in Nat : h = HashLength
  BY LengthFacts
<1>5. Concatenates(w, a, y) /\ Listed(y) /\ Len(y) \in Nat
  BY <1>1, <1>2, <1>3, WholeParts
<1>6. Len(a) = h
  BY <1>3, <1>4, HashIsListed
<1>7. n = Len(w) /\ \A i \in 1 .. n : buf[i] = w[i]
  BY <1>1 DEF Holds
<1>8. n = h + Len(y) /\ \A i \in 1 .. Len(y) : w[h + i] = y[i]
  BY <1>5, <1>6, <1>7 DEF Concatenates
<1>9. ASSUME NEW i \in 1 .. Len(y) PROVE buf[h + i] = y[i]
  <2>1. h + i \in 1 .. n
    BY <1>5, <1>8
  <2> QED BY <1>7, <1>8, <2>1
<1> QED BY <1>2, <1>4, <1>5, <1>8, <1>9 DEF Behind

LEMMA PlainIsBody ==
  ASSUME NEW buf, Listed(buf), NEW x, NEW n, Behind(buf, n, x)
  PROVE  /\ n - HashLength = Len(x)
         /\ CiphertextLen(Len(x)) <= Len(buf) => SealedPlain(buf, n) = x
         /\ HashLength + CiphertextLen(Len(x)) <= Len(buf) => EncryptedPlain(buf, n) = x
<1>1. PICK k \in Nat : k = Len(x)
  BY DEF Behind
<1>2. HashLength \in Nat /\ PlaintextOffset \in Nat /\ FixedOverhead \in Nat /\ PlaintextOffset <= FixedOverhead
  BY LengthFacts
<1>3. CiphertextLen(k) \in Nat /\ CiphertextLen(k) > FixedOverhead + k /\ Len(buf) \in Nat
  BY CiphertextIsLonger, ListedFacts
<1>4. Listed(x) /\ n = HashLength + Len(x) /\ \A i \in 1 .. Len(x) : buf[HashLength + i] = x[i]
  BY DEF Behind
<1>5. n - HashLength = k
  BY <1>1, <1>2, <1>4
<1>6. ASSUME CiphertextLen(k) <= Len(buf) PROVE SealedPlain(buf, n) = x
  <2>1. PICK at : at = PlaintextOffset + 1
    OBVIOUS
  <2>2. PICK base \in Nat : base = 0
    OBVIOUS
  <2>3. HasRoom(buf, base, at, x)
    BY <1>1, <1>2, <1>3, <1>6, <2>1, <2>2 DEF HasRoom
  <2>4. PlaintextAt(CopyWithin(buf, HashLength + 1, n, at), base, n - HashLength) = x
    BY <2>3, MovedPlain
  <2> QED BY <2>1, <2>2, <2>4 DEF SealedPlain
<1>7. ASSUME HashLength + CiphertextLen(k) <= Len(buf) PROVE EncryptedPlain(buf, n) = x
  <2>1. PICK at : at = HashLength + PlaintextOffset + 1
    OBVIOUS
  <2>2. HasRoom(buf, HashLength, at, x)
    BY <1>1, <1>2, <1>3, <1>7, <2>1 DEF HasRoom
  <2>3. PlaintextAt(CopyWithin(buf, HashLength + 1, n, at), HashLength, n - HashLength) = x
    BY <1>2, <2>2, MovedPlain
  <2> QED BY <2>1, <2>3 DEF EncryptedPlain
<1> QED BY <1>1, <1>5, <1>6, <1>7

-----------------------------------------------------------------------------
(* The other end: no two ciphertexts look alike, so the one that opens is  *)
(* the one that was made.                                                  *)
LEMMA OnlyItself ==
  ASSUME NEW ring, NEW keys, NEW e \in DOMAIN ring, ring[e].key \in keys,
         NEW k \in Nat, Len(ring[e].plain) = k
  PROVE  Opens(Cipher(k, e), ring, keys) = {e}
<1>1. Cipher(Len(ring[e].plain), e) = Cipher(k, e)
  OBVIOUS
<1>2. e \in Opens(Cipher(k, e), ring, keys)
  BY <1>1 DEF Opens, Cipher
<1>3. ASSUME NEW f \in Opens(Cipher(k, e), ring, keys) PROVE f = e
  <2>1. PICK c : c = Cipher(k, e)
    OBVIOUS
  <2>2. PICK t : t = CiphertextLen(Len(ring[f].plain))
    OBVIOUS
  <2>3. c = Opaque("cipher", t, f)
    BY <1>3, <2>1, <2>2 DEF Opens
  <2>4. PICK r \in Nat : r = CiphertextLen(k) /\ r > 0
    <3>1. CiphertextLen(k) \in Nat /\ CiphertextLen(k) > FixedOverhead + k /\ FixedOverhead \in Nat
      BY CiphertextIsLonger, LengthFacts
    <3> QED BY <3>1
  <2>5. c = [i \in 1 .. r |-> <<"cipher", i, e>>] /\ c = [i \in 1 .. t |-> <<"cipher", i, f>>]
    BY <2>1, <2>3, <2>4 DEF Cipher, Opaque
  <2>6. 1 \in DOMAIN c
    BY <2>4, <2>5
  <2>7. c[1] = <<"cipher", 1, e>> /\ c[1] = <<"cipher", 1, f>>
    <3>1. 1 \in 1 .. r /\ 1 \in 1 .. t
      BY <2>5, <2>6
    <3> QED BY <2>5, <3>1
  <2> QED BY <2>7
<1> QED BY <1>2, <1>3

(* A call went well, and what it left in use.                              *)
Leaves(call, w) == call.error = "ok" /\ SubSeq(call.buffer, 1, call.len) = w

(* The ring has e, for a key of the host's, and it stands for x.           *)
StandsFor(ring, e, x) ==
  /\ e \in DOMAIN ring /\ ring[e].key \in HostKeys /\ ring[e].plain = x
  /\ Listed(x) /\ Len(x) \in Nat

LEMMA OpensIt ==
  ASSUME NEW ring, NEW e, NEW x, StandsFor(ring, e, x), NEW o, o = Opens(Cipher(Len(x), e), ring, HostKeys)
  PROVE  o # {} /\ ring[CHOOSE f \in o : TRUE].plain = x
<1>1. o = {e}
  <2>1. PICK k \in Nat : k = Len(x)
    BY DEF StandsFor
  <2>2. Len(ring[e].plain) = k /\ e \in DOMAIN ring /\ ring[e].key \in HostKeys
    BY <2>1 DEF StandsFor
  <2>3. Opens(Cipher(k, e), ring, HostKeys) = {e}
    BY <2>2, OnlyItself
  <2> QED BY <2>1, <2>3
<1>2. (CHOOSE f \in o : TRUE) \in o
  BY <1>1
<1>3. (CHOOSE f \in o : TRUE) = e
  BY <1>1, <1>2
<1> QED BY <1>1, <1>3 DEF StandsFor

(* A packet's parser has then the message.                                 *)
LEMMA PacketIsRead ==
  ASSUME NEW m, Packable(m), NEW s, Stampable(s), NEW ring, NEW e, StandsFor(ring, e, Body(m, s))
  PROVE  ReadsAs(ParseOpportunistic(Cipher(Len(Body(m, s)), e), "recipient", HostKeys, ring,
                                    Signed("recipient", PackPayload(m))), m, s)
<1>1. PICK x : x = Body(m, s)
  OBVIOUS
<1>2. PICK c : c = Cipher(Len(x), e)
  OBVIOUS
<1>3. PICK o : o = Opens(c, ring, HostKeys)
  OBVIOUS
<1>4. o # {} /\ ring[CHOOSE f \in o : TRUE].plain = x
  BY <1>1, <1>2, <1>3, OpensIt
<1>5. PICK sg : sg = Signed("recipient", PackPayload(m))
  OBVIOUS
<1>6. ParseOpportunistic(c, "recipient", HostKeys, ring, sg)
        = ParseLink(WholeMessage(m, s), "recipient", sg)
  BY <1>1, <1>3, <1>4 DEF ParseOpportunistic, ParseDecrypted, WholeMessage
<1>7. ReadsAs(ParseLink(WholeMessage(m, s), "recipient", sg), m, s)
  BY <1>5, WholeIsRead
<1> QED BY <1>1, <1>2, <1>5, <1>6, <1>7, Zenon

(* And decrypt_message leaves it, out of the entry.                        *)
LEMMA EntryOpens ==
  ASSUME NEW ring, NEW e, NEW x, StandsFor(ring, e, x),
         NEW buf, buf = DestHash("recipient") \o Cipher(Len(x), e)
  PROVE  Leaves(DecryptMessage(buf, "recipient", HostKeys, ring), DestHash("recipient") \o x)
<1>1. PICK k \in Nat : k = Len(x)
  BY DEF StandsFor
<1>2. PICK h \in Nat : h = HashLength
  BY LengthFacts
<1>3. PICK t \in Nat : t = CiphertextLen(k) /\ t > FixedOverhead + k /\ t >= FixedOverhead + Block
  BY <1>1, CiphertextIsLonger
<1>4. PICK a : a = DestHash("recipient")
  OBVIOUS
<1>5. PICK c : c = Cipher(k, e)
  OBVIOUS
<1>6. Listed(a) /\ Len(a) = h /\ Listed(c) /\ Len(c) = t
  BY <1>2, <1>3, <1>4, <1>5, HashIsListed, OpaqueIsListed DEF Cipher
<1>7. Concatenates(buf, a, c)
  BY <1>1, <1>4, <1>5, <1>6, JoinConcatenates
<1>8. /\ Listed(buf) /\ Len(buf) = h + t
      /\ (\A i \in 1 .. h : buf[i] = a[i]) /\ \A i \in 1 .. t : buf[h + i] = c[i]
  BY <1>6, <1>7 DEF Concatenates
<1>9. SubSeq(buf, 1, h) = a
  <2>1. Holds(buf, h, a)
    BY <1>6, <1>8 DEF Holds
  <2> QED BY <1>6, <2>1, HoldsIsSlice
<1>10. SubSeq(buf, h + 1, h + t) = c
  <2>1. CellsAt(c, buf, h, t)
    BY <1>6, <1>8 DEF CellsAt, OfSize
  <2> QED BY <2>1, SliceOf
<1>11. PICK o : o = Opens(c, ring, HostKeys)
  OBVIOUS
<1>12. o # {} /\ ring[CHOOSE f \in o : TRUE].plain = x
  BY <1>1, <1>5, <1>11, OpensIt
<1>13. PICK start \in Nat \ {0} : start = h + PlaintextOffset + 1
  BY LengthFacts
<1>14. PICK put : put = Put(buf, start, x)
  OBVIOUS
<1>15. PICK after : after = CopyWithin(put, start, start + k - 1, h + 1)
  OBVIOUS
<1>16. PICK call : call = DecryptMessage(buf, "recipient", HostKeys, ring)
  OBVIOUS
<1>17. call = Ok(after, h + k)
  <2> DEFINE body  == SubSeq(buf, HashLength + 1, Len(buf))
             short == Len(buf) < HashLength + FixedOverhead + Block
             other == SubSeq(buf, 1, HashLength) # DestHash("recipient")
             none  == Opens(body, ring, HostKeys) = {}
             plain == ring[CHOOSE f \in Opens(body, ring, HostKeys) : TRUE].plain
             begin == HashLength + PlaintextOffset + 1
             done  == Ok(CopyWithin(Put(buf, begin, plain), begin, begin + Len(plain) - 1, HashLength + 1),
                         HashLength + Len(plain))
  <2>1. call = IF short THEN Failed("MalformedPayload", buf, Len(buf))
               ELSE IF other THEN Failed("DestinationMismatch", buf, Len(buf))
               ELSE IF none THEN Failed("Crypto", buf, Len(buf))
               ELSE done
    BY <1>16 DEF DecryptMessage
  <2>2. body = c
    BY <1>2, <1>8, <1>10
  <2>3. ~none /\ plain = x
    BY <1>11, <1>12, <2>2
  <2>4. ~other
    BY <1>2, <1>4, <1>9
  <2>5. ~short
    <3>1. PICK f \in Nat : f = FixedOverhead
      BY LengthFacts
    <3>2. PICK z \in Nat : z = Block
      BY LengthAssumption
    <3>3. t >= f + z
      BY <1>3, <3>1, <3>2
    <3>4. ~ (h + t < h + f + z)
      BY <3>3
    <3> QED BY <1>2, <1>8, <3>1, <3>2, <3>4
  <2>6. done = Ok(after, h + k)
    <3> HIDE DEF plain
    <3>1. begin = start
      BY <1>2, <1>13
    <3> HIDE DEF begin
    <3> QED BY <1>1, <1>2, <1>14, <1>15, <2>3, <3>1
  <2> HIDE DEF short, other, none, done
  <2> QED BY <2>1, <2>3, <2>4, <2>5, <2>6
<1>18. Listed(x)
  BY DEF StandsFor
<1>19. Rewritten(put, buf, start, x)
  BY <1>8, <1>13, <1>14, <1>18, PutKeeps
<1>20. PICK last \in Nat : last = start + k - 1
  BY <1>1, <1>13
<1>21. PICK first \in Nat \ {0} : first = h + 1
  BY <1>2
<1>22. Listed(put) /\ Len(put) = Len(buf)
  BY <1>19 DEF Rewritten, OfSize
<1>23. Recopied(after, put, start, last, first)
  <2>1. after = CopyWithin(put, start, last, first)
    BY <1>15, <1>20, <1>21
  <2> QED BY <1>13, <1>20, <1>21, <1>22, <2>1, CopyKeeps
<1>24. PICK w : w = a \o x
  OBVIOUS
<1>25. Concatenates(w, a, x)
  BY <1>6, <1>18, <1>24, JoinConcatenates
<1>26. PICK l \in Nat : l = h + t
  OBVIOUS
<1>27. start = (h + PlaintextOffset) + 1 /\ start + k - 1 <= l /\ PlaintextOffset \in Nat
  <2>1. PlaintextOffset \in Nat /\ FixedOverhead \in Nat /\ PlaintextOffset <= FixedOverhead
    BY LengthFacts
  <2> QED BY <1>3, <1>13, <1>26, <2>1
<1>28. \A i \in 1 .. l : put[i] = IF i \in start .. start + k - 1 THEN x[i - start + 1] ELSE buf[i]
  BY <1>1, <1>8, <1>19, <1>26 DEF Rewritten
<1>29. \A i \in 1 .. l : after[i] = IF i \in first .. first + last - start THEN put[i - first + start] ELSE put[i]
  BY <1>8, <1>22, <1>23, <1>26 DEF Recopied
<1>30. Listed(after) /\ Len(after) = l
  BY <1>8, <1>22, <1>23, <1>26 DEF Recopied, OfSize
<1>31. \A i \in 1 .. h : after[i] = a[i]
  <2> SUFFICES ASSUME NEW i \in 1 .. h PROVE after[i] = a[i]
    OBVIOUS
  <2>1. i \in 1 .. l /\ i \notin first .. first + last - start /\ i \notin start .. start + k - 1
    BY <1>2, <1>21, <1>26, <1>27
  <2>2. after[i] = put[i] /\ put[i] = buf[i]
    BY <1>28, <1>29, <2>1
  <2> QED BY <1>8, <2>2
<1>32. \A i \in 1 .. k : after[h + i] = x[i]
  <2> SUFFICES ASSUME NEW i \in 1 .. k PROVE after[h + i] = x[i]
    OBVIOUS
  <2>1. PICK j : j = h + i
    OBVIOUS
  <2>2. PICK q : q = start + i - 1
    OBVIOUS
  <2>3. j \in 1 .. l
    BY <1>2, <1>3, <1>26, <2>1, LengthFacts
  <2>4. j \in first .. first + last - start /\ j - first + start = q
    <3>1. last = start + k - 1 /\ first = h + 1 /\ j = h + i /\ q = start + i - 1
      BY <1>20, <1>21, <2>1, <2>2
    <3>2. first + last - start = h + k
      BY <3>1
    <3>3. j - first + start = q
      BY <3>1
    <3>4. first <= j /\ j <= h + k /\ j \in Int
      BY <3>1
    <3> QED BY <3>2, <3>3, <3>4
  <2>5. q \in 1 .. l /\ q \in start .. start + k - 1 /\ q - start + 1 = i
    BY <1>13, <1>27, <2>2
  <2>6. after[j] = put[q]
    BY <1>29, <2>3, <2>4
  <2>7. put[q] = x[i]
    BY <1>28, <2>5
  <2> QED BY <2>1, <2>6, <2>7
<1>33. Holds(after, h + k, w)
  <2>1. Len(w) = h + k /\ (\A i \in 1 .. h : w[i] = a[i]) /\ \A i \in 1 .. k : w[h + i] = x[i]
    BY <1>1, <1>6, <1>25 DEF Concatenates
  <2>2. ASSUME NEW i \in 1 .. h + k PROVE after[i] = w[i]
    <3>1. CASE i <= h
      <4>1. i \in 1 .. h
        BY <3>1
      <4> QED BY <1>31, <2>1, <4>1
    <3>2. CASE i > h
      <4>1. i - h \in 1 .. k /\ h + (i - h) = i
        BY <3>2
      <4>2. after[h + (i - h)] = x[i - h] /\ w[h + (i - h)] = x[i - h]
        BY <1>32, <2>1, <4>1
      <4> QED BY <4>1, <4>2
    <3> QED BY <3>1, <3>2
  <2>3. h + k <= Len(after)
    BY <1>3, <1>26, <1>30, LengthFacts
  <2> QED BY <1>30, <2>1, <2>2, <2>3 DEF Holds
<1>34. Listed(w)
  BY <1>25 DEF Concatenates
<1>35. SubSeq(after, 1, h + k) = w
  BY <1>33, <1>34, HoldsIsSlice
<1>36. call.error = "ok" /\ call.buffer = after /\ call.len = h + k
  BY <1>17 DEF Ok
<1>37. Leaves(call, w)
  BY <1>35, <1>36 DEF Leaves
<1> QED BY <1>4, <1>16, <1>24, <1>37

-----------------------------------------------------------------------------
(* Where the message is, in every phase: whole in the buffer; or all but   *)
(* its address in a ciphertext, and that in the buffer or in the store.    *)
Sent(e) == StandsFor(sealed, e, Body(message, stamp))
SentAs(e) == Cipher(Len(Body(message, stamp)), e)

FitsInv ==
  /\ phase # "new" => Packable(message)
  /\ Stampable(stamp)
  /\ phase \notin {"served", "opened"} => Len(buffer) < Huge
InBufferInv ==
  /\ phase \in {"packed", "stamped", "opened"} => InUse = WholeMessage(message, stamp)
  /\ phase = "stamped" => earlier \subseteq {0, PackedPrefix + Len(PackPayload(message))}
  /\ phase = "packet" => \E e : Sent(e) /\ InUse = SentAs(e)
  /\ phase = "served" => InUse = stored
InStoreInv ==
  /\ stored # <<>> => \E e : Sent(e) /\ stored = DestHash("recipient") \o SentAs(e)
  /\ stored # <<>> <=> phase \in {"entry", "upload", "served", "opened"}
SurvivalInv == FitsInv /\ InBufferInv /\ InStoreInv

LEMMA SurvivalInit == Init => SurvivalInv
<1> SUFFICES ASSUME Init PROVE SurvivalInv
  OBVIOUS
<1>1. phase = "new" /\ stamp = <<>> /\ stored = <<>> /\ buffer \in {Blank(n) : n \in Capacities}
  BY DEF Init
<1>2. PICK n \in Capacities : buffer = Blank(n)
  BY <1>1
<1>3. n \in Nat /\ n < Huge
  BY <1>2, OutboxAssumption, SizeAssumption
<1>4. Len(buffer) < Huge
  BY <1>2, <1>3, BlankIsListed
<1>5. FitsInv
  BY <1>1, <1>4 DEF FitsInv, Stampable
<1>6. InBufferInv /\ InStoreInv
  BY <1>1 DEF InBufferInv, InStoreInv
<1> QED BY <1>5, <1>6 DEF SurvivalInv

LEMMA SurvivalUnchanged ==
  ASSUME SurvivalInv, UNCHANGED <<message, buffer, len, earlier, phase, stamp, stored, sealed>>
  PROVE  SurvivalInv'
  BY DEF SurvivalInv, FitsInv, InBufferInv, InStoreInv, Sent, SentAs, InUse

(* A new ciphertext stands for what it was made of.                        *)
LEMMA NewlySealed ==
  ASSUME NEW ring, Listed(ring), NEW key \in HostKeys, NEW x, Listed(x)
  PROVE  StandsFor(Append(ring, [key |-> key, plain |-> x]), Len(ring) + 1, x)
<1>1. PICK r : r = [key |-> key, plain |-> x]
  OBVIOUS
<1>2. r.key = key /\ r.plain = x
  BY <1>1
<1>3. PICK e : e = Len(ring) + 1
  OBVIOUS
<1>4. PICK more : more = Append(ring, r)
  OBVIOUS
<1>5. Listed(more) /\ Len(more) = e /\ more[e] = r
  BY <1>3, <1>4, AppendIsListed
<1>6. e \in DOMAIN more
  <2>1. Len(ring) \in Nat
    BY ListedFacts
  <2>2. e \in Nat /\ e >= 1
    BY <1>3, <2>1
  <2> QED BY <1>5, <2>2, ListedFacts
<1>7. Len(x) \in Nat
  BY ListedFacts
<1>8. StandsFor(more, e, x)
  BY <1>2, <1>5, <1>6, <1>7 DEF StandsFor
<1> QED BY <1>1, <1>3, <1>4, <1>8

(* What is framed as a message is the whole message.                       *)
LEMMA FramedIsWhole ==
  ASSUME OutboxInv, PathsInv, SurvivalInv, phase # "new", phase # "opened", phase # "served",
         NEW n \in Lengths, NEW markers, Framed(buffer, n, markers)
  PROVE  /\ n = len /\ phase \in {"packed", "stamped"} /\ Packable(message) /\ Stampable(stamp)
         /\ Holds(buffer, len, WholeMessage(message, stamp))
<1>1. /\ HostInv /\ PhaseInv /\ Listed(buffer) /\ len \in 0 .. Len(buffer)
      /\ FitsInv /\ InBufferInv
  BY DEF OutboxInv, BufferInv, SurvivalInv
<1>2. phase \notin {"packet", "entry", "upload"}
  BY <1>1, OnlyMessagesAreFramed
<1>3. phase \in {"packed", "stamped"}
  BY <1>1, <1>2 DEF HostInv
<1>4. Packable(message) /\ Stampable(stamp) /\ InUse = WholeMessage(message, stamp)
  BY <1>1, <1>3 DEF FitsInv, InBufferInv
<1>5. Holds(buffer, len, WholeMessage(message, stamp))
  BY <1>1, <1>4, SliceIsHeld DEF InUse
<1>6. n # 0
  BY FramedByAByte, LengthFacts
<1>7. n = len
  <2>1. CASE phase = "packed"
    BY <1>6, <2>1 DEF PathsInv, Lengths
  <2>2. CASE phase = "stamped"
    <3>1. stamp # <<>>
      BY <2>2 DEF PathsInv
    <3>2. n # PackedPrefix + Len(PackPayload(message))
      BY <1>4, <1>5, <3>1, NotFramedAgain
    <3>3. n \in {0, PackedPrefix + Len(PackPayload(message))} \/ n = len
      BY <1>1, <2>2 DEF InBufferInv, Lengths
    <3> QED BY <1>6, <3>2, <3>3
  <2> QED BY <1>3, <2>1, <2>2
<1> QED BY <1>3, <1>4, <1>5, <1>7

LEMMA BuildSurvives ==
  ASSUME OutboxInv, PathsInv, SurvivalInv, Build, Harmless
  PROVE  SurvivalInv'
<1>1. PICK call : call = BuildLink(buffer, message, "recipient")
  OBVIOUS
<1>2. /\ phase = "new" /\ Returns(call, "packed") /\ UNCHANGED <<message, stamp, stored, sealed>>
  BY <1>1 DEF Build
<1>3. /\ call.error = "ok" => buffer' = call.buffer /\ len' = call.len /\ phase' = "packed"
      /\ call.error # "ok" => UNCHANGED <<buffer, len, phase, earlier>>
  BY <1>2, CallReturned
<1>4. CASE call.error = "ok"
  <2>1. /\ message \in Messages /\ Listed(buffer) /\ Len(buffer) < Huge /\ stamp = <<>> /\ stored = <<>>
    BY <1>2 DEF OutboxInv, HostInv, BufferInv, SurvivalInv, FitsInv, InStoreInv, PathsInv
  <2>2. Packable(message) /\ Holds(call.buffer, call.len, WholeMessage(message, <<>>))
    BY <1>1, <1>4, <2>1, BuildHolds
  <2>3. Sized(call, buffer)
    BY <1>1, <1>4, <2>1, BuildLeaves
  <2>4. Stampable(<<>>)
    BY DEF Stampable
  <2>5. Listed(WholeMessage(message, <<>>))
    BY <2>2, <2>4, WholeParts DEF Concatenates
  <2>6. SubSeq(call.buffer, 1, call.len) = WholeMessage(message, <<>>)
    BY <2>2, <2>5, HoldsIsSlice
  <2>7. InUse' = WholeMessage(message', stamp') /\ phase' = "packed"
    BY <1>2, <1>3, <1>4, <2>1, <2>6 DEF InUse
  <2>8. Len(buffer') < Huge
    BY <1>3, <1>4, <2>1, <2>3 DEF Sized
  <2>9. FitsInv'
    BY <1>2, <2>1, <2>2, <2>4, <2>8 DEF FitsInv
  <2>10. InBufferInv' /\ InStoreInv'
    BY <1>2, <2>1, <2>7 DEF InBufferInv, InStoreInv
  <2> QED BY <2>9, <2>10 DEF SurvivalInv
<1>5. CASE call.error # "ok"
  BY <1>2, <1>3, <1>5, SurvivalUnchanged
<1> QED BY <1>4, <1>5

(* A packet that is built or sealed carries the message.                   *)
LEMMA PacketSurvives ==
  ASSUME SealedInv, InStoreInv, stored = <<>>, NEW call, Sized(call, buffer), Len(buffer) < Huge,
         Packable(message), Stampable(stamp), NEW key \in HostKeys,
         NEW x, x = Body(message, stamp), NEW e, e = Len(sealed) + 1, Enciphers(call, 0, Len(x), e),
         UNCHANGED <<message, stamp, stored>>, buffer' = call.buffer, len' = call.len, phase' = "packet",
         sealed' = Append(sealed, [key |-> key, plain |-> x])
  PROVE  SurvivalInv'
<1>1. Listed(sealed)
  BY DEF SealedInv
<1>2. Listed(x) /\ Len(x) \in Nat
  BY WholeParts
<1>3. StandsFor(sealed', e, x)
  BY <1>1, <1>2, NewlySealed
<1>4. SubSeq(call.buffer, 1, call.len) = Cipher(Len(x), e)
  BY <1>2, CipherIsLeft
<1>5. Sent(e)' /\ InUse' = SentAs(e)'
  BY <1>3, <1>4 DEF Sent, SentAs, InUse
<1>6. Len(buffer') < Huge
  BY DEF Sized
<1>7. FitsInv' /\ InStoreInv'
  BY <1>6 DEF FitsInv, InStoreInv
<1>8. InBufferInv'
  BY <1>5 DEF InBufferInv
<1> QED BY <1>7, <1>8 DEF SurvivalInv

LEMMA BuildPacketSurvives ==
  ASSUME OutboxInv, PathsInv, SurvivalInv, NEW key \in HostKeys, BuildPacket(key), Harmless
  PROVE  SurvivalInv'
<1>1. PICK e : e = Len(sealed) + 1
  OBVIOUS
<1>2. PICK built : built = BuildOpportunistic(buffer, message, e)
  OBVIOUS
<1>3. PICK call : call = built.call
  OBVIOUS
<1>4. PICK plain : plain = DirectPlain(message)
  OBVIOUS
<1>5. PICK x : x = [key |-> key, plain |-> plain]
  OBVIOUS
<1>6. /\ phase = "new" /\ Returns(call, "packet")
      /\ sealed' = IF outcome' = "ok" THEN Append(sealed, x) ELSE sealed
      /\ UNCHANGED <<message, stamp, stored>>
  BY <1>1, <1>2, <1>3, <1>4, <1>5 DEF BuildPacket
<1>7. /\ outcome' = call.error
      /\ call.error = "ok" => buffer' = call.buffer /\ len' = call.len /\ phase' = "packet"
      /\ call.error # "ok" => UNCHANGED <<buffer, len, phase, earlier>>
  BY <1>6, CallReturned
<1>8. CASE call.error = "ok"
  <2>1. /\ message \in Messages /\ Listed(buffer) /\ Len(buffer) < Huge /\ stamp = <<>> /\ stored = <<>>
        /\ SealedInv /\ InStoreInv
    BY <1>6 DEF OutboxInv, HostInv, BufferInv, SurvivalInv, FitsInv, InStoreInv, PathsInv
  <2>2. /\ Sized(call, buffer) /\ FieldSetError(message.fields) = "ok"
        /\ Len(plain) \in Nat /\ Enciphers(call, 0, Len(plain), e)
    BY <1>2, <1>3, <1>4, <1>8, <2>1, PacketLeaves
  <2>3. Packable(message)
    <3>1. PICK k \in Nat : k = Len(PackPayload(message))
      BY <2>1, <2>2, PlainIsListed
    <3>2. PICK l \in Nat : l = Len(plain) /\ k <= l
      BY <1>4, <2>1, <2>2, <3>1, PlainIsListed, LengthFacts DEF OfSize
    <3>3. PICK t \in Nat : t = CiphertextLen(l) /\ t > FixedOverhead + l
      BY CiphertextIsLonger
    <3>4. call.len = 0 + t
      BY <2>2, <3>2, <3>3 DEF Enciphers
    <3>5. PICK w \in Nat : w = Huge
      BY DEF Huge
    <3>6. PICK z \in Nat : z = Len(buffer)
      BY <2>1, ListedFacts
    <3>7. t <= z /\ z < w
      BY <2>1, <2>2, <3>4, <3>5, <3>6 DEF Sized
    <3>8. k < w
      BY <3>2, <3>3, <3>7, LengthFacts
    <3> QED BY <2>1, <2>2, <3>1, <3>5, <3>8 DEF Packable
  <2>4. plain = Body(message, stamp) /\ Stampable(stamp)
    BY <1>4, <2>1, <2>3, PlainBody
  <2> QED BY <1>1, <1>5, <1>6, <1>7, <1>8, <2>1, <2>2, <2>3, <2>4, PacketSurvives
<1>9. CASE call.error # "ok"
  BY <1>6, <1>7, <1>9, SurvivalUnchanged
<1> QED BY <1>8, <1>9

LEMMA StampSurvivesIt ==
  ASSUME OutboxInv, PathsInv, SurvivalInv, NEW n \in Lengths, NEW s \in Stamps, Stamp(n, s), Harmless
  PROVE  SurvivalInv'
<1>1. PICK call : call = AppendRecipientStamp(buffer, n, s)
  OBVIOUS
<1>2. PICK kept : kept = KeepLen(call, len)
  OBVIOUS
<1>3. /\ phase \in {"packed", "stamped", "packet", "entry", "upload"} /\ Returns(kept, "stamped")
      /\ stamp' = IF call.error = "ok" THEN s ELSE stamp
      /\ UNCHANGED <<message, stored, sealed>>
  BY <1>1, <1>2 DEF Stamp, KeepLen
<1>4. /\ kept.error = call.error /\ kept.buffer = call.buffer
      /\ call.error = "ok" => kept.len = call.len
  <2>1. IsCall(call)
    BY <1>1, StampReturns
  <2> QED BY <1>2, <2>1, LenKept
<1>5. /\ kept.error = "ok" => /\ buffer' = kept.buffer /\ len' = kept.len
                              /\ phase' = "stamped" /\ earlier' = earlier \cup {len}
      /\ kept.error # "ok" => UNCHANGED <<buffer, len, phase, earlier>>
  BY <1>3, CallReturned
<1>6. CASE call.error = "ok"
  <2>1. /\ Listed(buffer) /\ Len(buffer) < Huge /\ n \in Nat /\ FitsInv /\ InStoreInv
    <3>1. Listed(buffer) /\ len \in 0 .. Len(buffer) /\ earlier \subseteq Nat
      BY DEF OutboxInv, BufferInv
    <3>2. n \in Nat
      BY <3>1 DEF Lengths
    <3> QED BY <1>3, <3>1, <3>2 DEF SurvivalInv, FitsInv
  <2>2. /\ Stampable(s) /\ s # <<>> /\ Framed(buffer, n, {148}) /\ call.len = n + Len(Trailer(s))
        /\ StampedOver(call.buffer, buffer, n, Trailer(s))
    BY <1>1, <1>6, <2>1, StampWrites
  <2>3. /\ n = len /\ phase \in {"packed", "stamped"} /\ Packable(message)
        /\ Stampable(stamp) /\ Holds(buffer, len, WholeMessage(message, stamp))
    BY <1>3, <2>2, FramedIsWhole
  <2>4. stamp = <<>> /\ phase = "packed"
    <3>1. CASE phase = "stamped"
      <4>1. stamp # <<>>
        BY <3>1 DEF PathsInv
      <4>2. PICK w : w = WholeMessage(message, stamp)
        OBVIOUS
      <4>3. PICK p : p = PackPayload(message)
        OBVIOUS
      <4>4. IsWhole(w, p, stamp)
        BY <2>3, <4>2, <4>3, WholeCells
      <4>5. w[PackedPrefix + 1] = <<"byte", 149>>
        BY <4>1, <4>4 DEF IsWhole, Marker
      <4>6. PackedPrefix + 1 \in 1 .. len
        BY <2>1, <2>2, <2>3, FramedByAByte, LengthFacts
      <4>7. buffer[PackedPrefix + 1] = <<"byte", 149>>
        BY <2>3, <4>2, <4>5, <4>6 DEF Holds
      <4>8. buffer[PackedPrefix + 1] = <<"byte", 148>>
        BY <2>2 DEF Framed
      <4> QED BY <4>7, <4>8
    <3>2. CASE phase = "packed"
      BY <3>2 DEF PathsInv
    <3> QED BY <2>3, <3>1, <3>2
  <2>5. /\ Holds(call.buffer, call.len, WholeMessage(message, s))
        /\ len = PackedPrefix + Len(PackPayload(message))
    BY <2>2, <2>3, <2>4, StampHolds
  <2>6. SubSeq(call.buffer, 1, call.len) = WholeMessage(message, s)
    <3>1. Listed(WholeMessage(message, s))
      BY <2>2, <2>3, WholeParts DEF Concatenates
    <3> QED BY <2>5, <3>1, HoldsIsSlice
  <2>7. earlier' \subseteq {0, PackedPrefix + Len(PackPayload(message))}
    BY <1>4, <1>5, <1>6, <2>4, <2>5 DEF PathsInv
  <2>8. /\ stamp' = s /\ buffer' = call.buffer /\ len' = call.len /\ phase' = "stamped"
    BY <1>3, <1>4, <1>5, <1>6
  <2>9. Len(buffer') < Huge
    BY <2>1, <2>2, <2>8 DEF StampedOver, OfSize
  <2>10. FitsInv'
    BY <1>3, <2>2, <2>3, <2>8, <2>9 DEF FitsInv
  <2>11. InStoreInv'
    BY <1>3, <2>1, <2>4, <2>8 DEF InStoreInv
  <2>12. InUse' = WholeMessage(message', stamp')
    BY <1>3, <2>6, <2>8 DEF InUse
  <2>13. InBufferInv'
    BY <1>3, <2>7, <2>8, <2>12 DEF InBufferInv
  <2> QED BY <2>10, <2>11, <2>13 DEF SurvivalInv
<1>7. CASE call.error # "ok"
  BY <1>3, <1>4, <1>5, <1>7, SurvivalUnchanged
<1> QED BY <1>6, <1>7

LEMMA SealSurvives ==
  ASSUME OutboxInv, PathsInv, SurvivalInv, NEW n \in Lengths, NEW to, NEW key \in HostKeys,
         Seal(n, to, key), Harmless
  PROVE  SurvivalInv'
<1>1. PICK e : e = Len(sealed) + 1
  OBVIOUS
<1>2. PICK call : call = SealOpportunistic(buffer, n, to, e)
  OBVIOUS
<1>3. PICK kept : kept = KeepLen(call, len)
  OBVIOUS
<1>4. PICK plain : plain = SealedPlain(buffer, n)
  OBVIOUS
<1>5. /\ phase \in {"packed", "stamped", "packet", "entry", "upload"} /\ Returns(kept, "packet")
      /\ sealed' = IF call.error = "ok" THEN Append(sealed, [key |-> key, plain |-> plain]) ELSE sealed
      /\ UNCHANGED <<message, stamp, stored>>
  BY <1>1, <1>2, <1>3, <1>4 DEF Seal, KeepLen
<1>6. /\ kept.error = call.error /\ kept.buffer = call.buffer
      /\ call.error = "ok" => kept.len = call.len
  <2>1. IsCall(call)
    BY <1>2, SealReturns
  <2> QED BY <1>3, <2>1, LenKept
<1>7. /\ kept.error = "ok" => buffer' = kept.buffer /\ len' = kept.len /\ phase' = "packet"
      /\ kept.error # "ok" => UNCHANGED <<buffer, len, phase, earlier>>
  BY <1>5, CallReturned
<1>8. CASE call.error = "ok"
  <2>1. /\ Listed(buffer) /\ Len(buffer) < Huge /\ n \in Nat /\ SealedInv /\ InStoreInv
    <3>1. Listed(buffer) /\ len \in 0 .. Len(buffer) /\ earlier \subseteq Nat /\ SealedInv
      BY DEF OutboxInv, BufferInv
    <3>2. n \in Nat
      BY <3>1 DEF Lengths
    <3> QED BY <1>5, <3>1, <3>2 DEF SurvivalInv, FitsInv
  <2>2. Framed(buffer, n, {148, 149}) /\ Sized(call, buffer) /\ Enciphers(call, 0, n - HashLength, e)
    BY <1>2, <1>8, <2>1, SealLeaves
  <2>3. /\ n = len /\ phase \in {"packed", "stamped"} /\ Packable(message)
        /\ Stampable(stamp) /\ Holds(buffer, len, WholeMessage(message, stamp))
    BY <1>5, <2>2, FramedIsWhole
  <2>4. PICK x : x = Body(message, stamp)
    OBVIOUS
  <2>5. Behind(buffer, n, x)
    BY <2>3, <2>4, WholeBehind
  <2>6. n - HashLength = Len(x)
    BY <2>1, <2>5, PlainIsBody
  <2>7. CiphertextLen(Len(x)) <= Len(buffer)
    <3>1. call.len = 0 + CiphertextLen(Len(x)) /\ call.len \in 0 .. Len(buffer)
      BY <2>2, <2>6 DEF Enciphers, Sized
    <3>2. CiphertextLen(Len(x)) \in Nat
      BY <2>5, CiphertextIsLonger DEF Behind
    <3> QED BY <3>1, <3>2
  <2>8. plain = x
    BY <1>4, <2>1, <2>5, <2>7, PlainIsBody
  <2>9. stored = <<>>
    BY <2>1, <2>3 DEF InStoreInv
  <2>10. /\ Enciphers(call, 0, Len(x), e) /\ buffer' = call.buffer /\ len' = call.len /\ phase' = "packet"
         /\ sealed' = Append(sealed, [key |-> key, plain |-> x])
    BY <1>5, <1>6, <1>7, <1>8, <2>2, <2>6, <2>8
  <2> QED BY <1>1, <1>5, <2>1, <2>2, <2>3, <2>4, <2>9, <2>10, PacketSurvives
<1>9. CASE call.error # "ok"
  BY <1>5, <1>6, <1>7, <1>9, SurvivalUnchanged
<1> QED BY <1>8, <1>9

LEMMA EncryptSurvives ==
  ASSUME OutboxInv, PathsInv, SurvivalInv, NEW to, NEW key \in HostKeys, Encrypt(to, key), Harmless
  PROVE  SurvivalInv'
<1>1. PICK e : e = Len(sealed) + 1
  OBVIOUS
<1>2. PICK call : call = EncryptMessage(buffer, len, to, e)
  OBVIOUS
<1>3. PICK plain : plain = EncryptedPlain(buffer, len)
  OBVIOUS
<1>4. /\ phase \in {"packed", "stamped"} /\ Returns(call, "entry")
      /\ call.error = "ok" => /\ sealed' = Append(sealed, [key |-> key, plain |-> plain])
                              /\ stored' = SubSeq(call.buffer, 1, call.len)
      /\ call.error # "ok" => UNCHANGED <<sealed, stored>>
      /\ UNCHANGED <<message, stamp>>
  BY <1>1, <1>2, <1>3 DEF Encrypt
<1>5. /\ call.error = "ok" => buffer' = call.buffer /\ len' = call.len /\ phase' = "entry"
      /\ call.error # "ok" => UNCHANGED <<buffer, len, phase, earlier>>
  BY <1>4, CallReturned
<1>6. CASE call.error = "ok"
  <2>1. /\ Listed(buffer) /\ Len(buffer) < Huge /\ len \in 0 .. Len(buffer) /\ len \in Nat /\ Listed(sealed)
        /\ SubSeq(buffer, 1, HashLength) = DestHash("recipient")
        /\ Packable(message) /\ Stampable(stamp) /\ InUse = WholeMessage(message, stamp)
    BY <1>4 DEF OutboxInv, BufferInv, SealedInv, PhaseInv, SurvivalInv, FitsInv, InBufferInv
  <2>2. /\ Sized(call, buffer) /\ SubSeq(call.buffer, 1, HashLength) = DestHash("recipient")
        /\ Enciphers(call, HashLength, len - HashLength, e)
    BY <1>2, <1>6, <2>1, EncryptLeaves
  <2>3. PICK x : x = Body(message, stamp)
    OBVIOUS
  <2>4. Behind(buffer, len, x) /\ Listed(x) /\ Len(x) \in Nat
    <3>1. Holds(buffer, len, WholeMessage(message, stamp))
      BY <2>1, SliceIsHeld DEF InUse
    <3>2. Behind(buffer, len, x)
      BY <2>1, <2>3, <3>1, WholeBehind
    <3> QED BY <3>2 DEF Behind
  <2>5. len - HashLength = Len(x)
    BY <2>1, <2>4, PlainIsBody
  <2>6. Enciphers(call, HashLength, Len(x), e)
    BY <2>2, <2>5
  <2>7. HashLength + CiphertextLen(Len(x)) <= Len(buffer)
    <3>1. call.len = HashLength + CiphertextLen(Len(x)) /\ call.len \in 0 .. Len(buffer)
      BY <2>2, <2>6 DEF Enciphers, Sized
    <3> QED BY <3>1
  <2>8. plain = x
    BY <1>3, <2>1, <2>4, <2>7, PlainIsBody
  <2>9. stored' = DestHash("recipient") \o Cipher(Len(x), e)
    BY <1>4, <1>6, <2>2, <2>4, <2>6, EntryIsLeft
  <2>10. StandsFor(sealed', e, x)
    BY <1>1, <1>4, <1>6, <2>1, <2>4, <2>8, NewlySealed
  <2>11. Sent(e)' /\ stored' = DestHash("recipient") \o SentAs(e)'
    BY <1>4, <2>3, <2>9, <2>10 DEF Sent, SentAs
  <2>12. stored' # <<>>
    <3>1. HashLength + CiphertextLen(Len(x)) > 0
      BY <2>4, CiphertextIsLonger, LengthFacts
    <3>2. Len(stored') = HashLength + CiphertextLen(Len(x))
      <4>1. PICK c : c = Cipher(Len(x), e)
        OBVIOUS
      <4>2. PICK t \in Nat : t = CiphertextLen(Len(x))
        BY <2>4, CiphertextIsLonger
      <4>3. Listed(c) /\ Len(c) = t
        BY <4>1, <4>2, OpaqueIsListed DEF Cipher
      <4>4. Len(DestHash("recipient") \o c) = HashLength + t
        BY <4>3, HashIsListed, JoinIsListed
      <4> QED BY <2>9, <4>1, <4>2, <4>4
    <3>3. Len(<<>>) = 0
      OBVIOUS
    <3> QED BY <3>1, <3>2, <3>3
  <2>13. InStoreInv'
    BY <1>5, <1>6, <2>11, <2>12 DEF InStoreInv
  <2>14. Len(buffer') < Huge
    BY <1>5, <1>6, <2>1, <2>2 DEF Sized
  <2>15. FitsInv'
    BY <1>4, <2>1, <2>14 DEF FitsInv
  <2>16. InBufferInv'
    BY <1>5, <1>6 DEF InBufferInv
  <2> QED BY <2>13, <2>15, <2>16 DEF SurvivalInv
<1>7. CASE call.error # "ok"
  BY <1>4, <1>5, <1>7, SurvivalUnchanged
<1> QED BY <1>6, <1>7

LEMMA WrapSurvives ==
  ASSUME OutboxInv, SurvivalInv, Wrap, Harmless
  PROVE  SurvivalInv'
<1>1. PICK call : call = WrapUpload(buffer, len, PnStamp)
  OBVIOUS
<1>2. phase = "entry" /\ Returns(call, "upload") /\ UNCHANGED <<message, stamp, stored, sealed>>
  BY <1>1 DEF Wrap
<1>3. /\ call.error = "ok" => buffer' = call.buffer /\ phase' = "upload"
      /\ call.error # "ok" => UNCHANGED <<buffer, len, phase, earlier>>
  BY <1>2, CallReturned
<1>4. CASE call.error = "ok"
  <2>1. Listed(buffer) /\ len \in Nat /\ IsEntry(SubSeq(buffer, 1, len))
    <3>1. Listed(buffer) /\ len \in 0 .. Len(buffer)
      BY DEF OutboxInv, BufferInv
    <3>2. len \in Nat
      BY <3>1, ListedFacts
    <3>3. InUse = stored /\ IsEntry(stored)
      <4>1. stored # <<>> /\ InUse = stored
        BY <1>2 DEF OutboxInv, PhaseInv
      <4>2. StoredInv
        BY DEF OutboxInv
      <4> QED BY <4>1, <4>2 DEF StoredInv
    <3> QED BY <3>1, <3>2, <3>3 DEF InUse
  <2>2. Sized(call, buffer)
    BY <1>1, <1>4, <2>1, WrapLeaves
  <2>3. FitsInv'
    BY <1>2, <1>3, <1>4, <2>2 DEF SurvivalInv, FitsInv, Sized
  <2>4. InBufferInv' /\ InStoreInv'
    BY <1>2, <1>3, <1>4 DEF SurvivalInv, InBufferInv, InStoreInv, Sent, SentAs
  <2> QED BY <2>3, <2>4 DEF SurvivalInv
<1>5. CASE call.error # "ok"
  BY <1>2, <1>3, <1>5, SurvivalUnchanged
<1> QED BY <1>4, <1>5

LEMMA RestartSurvives ==
  ASSUME OutboxInv, SurvivalInv, Restart
  PROVE  SurvivalInv'
<1>1. PICK n \in Nat : n = Len(buffer)
  BY ListedFacts DEF OutboxInv, BufferInv
<1>2. /\ phase \in {"packed", "stamped", "packet", "entry", "upload"}
      /\ UNCHANGED <<message, stored, sealed>>
  BY DEF Restart
<1>3. n < Huge /\ Packable(message) /\ Stampable(stamp)
  BY <1>1, <1>2 DEF SurvivalInv, FitsInv
<1>4. Listed(Blank(n)) /\ Len(Blank(n)) = n
  BY BlankIsListed
<1>5. CASE stored # <<>>
  <2>1. /\ buffer' = Put(Blank(n), 1, stored) /\ phase' = "entry" /\ UNCHANGED stamp
    BY <1>1, <1>5 DEF Restart
  <2>2. Listed(stored)
    BY <1>5 DEF OutboxInv, StoredInv, IsEntry
  <2>3. Len(buffer') = n
    <3>1. 1 \in Nat \ {0}
      OBVIOUS
    <3>2. Rewritten(Put(Blank(n), 1, stored), Blank(n), 1, stored)
      BY <1>4, <2>2, <3>1, PutKeeps
    <3> QED BY <1>4, <2>1, <3>2 DEF Rewritten, OfSize
  <2>4. FitsInv'
    BY <1>2, <1>3, <2>1, <2>3 DEF FitsInv
  <2>5. InBufferInv' /\ InStoreInv'
    BY <1>2, <1>5, <2>1 DEF SurvivalInv, InBufferInv, InStoreInv, Sent, SentAs
  <2> QED BY <2>4, <2>5 DEF SurvivalInv
<1>6. CASE stored = <<>>
  <2>1. buffer' = Blank(n) /\ phase' = "new" /\ stamp' = <<>>
    BY <1>1, <1>6 DEF Restart
  <2>2. FitsInv'
    BY <1>3, <1>4, <2>1 DEF FitsInv, Stampable
  <2>3. InBufferInv' /\ InStoreInv'
    BY <1>2, <1>6, <2>1 DEF InBufferInv, InStoreInv
  <2> QED BY <2>2, <2>3 DEF SurvivalInv
<1> QED BY <1>5, <1>6

LEMMA ServeSurvives ==
  ASSUME OutboxInv, SurvivalInv, Serve
  PROVE  SurvivalInv'
<1>1. /\ phase = "upload" /\ buffer' = Entry(InUse) /\ len' = Len(buffer') /\ phase' = "served"
      /\ UNCHANGED <<message, stamp, stored, sealed>>
  BY DEF Serve
<1>2. buffer' = stored /\ stored # <<>> /\ Listed(stored)
  BY <1>1 DEF OutboxInv, PhaseInv, StoredInv, IsEntry
<1>3. InUse' = stored'
  <2>1. PICK n : n = Len(stored)
    OBVIOUS
  <2>2. n \in Nat
    BY <1>2, <2>1, ListedFacts
  <2>3. Holds(stored, n, stored)
    BY <1>2, <2>1, <2>2 DEF Holds
  <2>4. SubSeq(stored, 1, n) = stored
    BY <1>2, <2>3, HoldsIsSlice
  <2> QED BY <1>1, <1>2, <2>1, <2>4 DEF InUse
<1>4. FitsInv'
  BY <1>1 DEF SurvivalInv, FitsInv
<1>5. InBufferInv'
  BY <1>1, <1>3 DEF InBufferInv
<1>6. InStoreInv'
  BY <1>1 DEF SurvivalInv, InStoreInv, Sent, SentAs
<1> QED BY <1>4, <1>5, <1>6 DEF SurvivalInv

(* What is stored opens to the message.                                    *)
LEMMA StoredOpens ==
  ASSUME InStoreInv, stored # <<>>, NEW entry, entry = stored,
         NEW call, call = DecryptMessage(entry, "recipient", HostKeys, sealed)
  PROVE  Leaves(call, WholeMessage(message, stamp))
<1>1. PICK e : Sent(e) /\ stored = DestHash("recipient") \o SentAs(e)
  BY DEF InStoreInv
<1>2. PICK x : x = Body(message, stamp)
  OBVIOUS
<1>3. StandsFor(sealed, e, x) /\ entry = DestHash("recipient") \o Cipher(Len(x), e)
  BY <1>1, <1>2 DEF Sent, SentAs
<1>4. Leaves(DecryptMessage(entry, "recipient", HostKeys, sealed), DestHash("recipient") \o x)
  BY <1>3, EntryOpens
<1> QED BY <1>2, <1>4 DEF WholeMessage

LEMMA OpenSurvives ==
  ASSUME OutboxInv, SurvivalInv, Open, Harmless
  PROVE  SurvivalInv'
<1>1. PICK call : call = DecryptMessage(buffer, "recipient", HostKeys, sealed)
  OBVIOUS
<1>2. phase = "served" /\ Returns(call, "opened") /\ UNCHANGED <<message, stamp, stored, sealed>>
  BY <1>1 DEF Open
<1>3. InStoreInv /\ stored # <<>>
  BY <1>2 DEF SurvivalInv, InStoreInv
<1>4. buffer = stored
  <2>1. Listed(buffer) /\ len = Len(buffer) /\ InUse = stored
    BY <1>2 DEF OutboxInv, BufferInv, PhaseInv, SurvivalInv, InBufferInv
  <2>2. Holds(buffer, len, buffer)
    BY <2>1, ListedFacts DEF Holds
  <2>3. SubSeq(buffer, 1, len) = buffer
    BY <2>1, <2>2, HoldsIsSlice
  <2> QED BY <2>1, <2>3 DEF InUse
<1>5. call.error = "ok" /\ SubSeq(call.buffer, 1, call.len) = WholeMessage(message, stamp)
  BY <1>1, <1>3, <1>4, StoredOpens DEF Leaves
<1>6. buffer' = call.buffer /\ len' = call.len /\ phase' = "opened"
  BY <1>2, <1>5, CallReturned
<1>7. InUse' = WholeMessage(message', stamp')
  BY <1>2, <1>5, <1>6 DEF InUse, WholeMessage
<1>8. FitsInv'
  BY <1>2, <1>6 DEF SurvivalInv, FitsInv
<1>9. InBufferInv'
  BY <1>6, <1>7 DEF InBufferInv
<1>10. InStoreInv'
  BY <1>2, <1>6 DEF SurvivalInv, InStoreInv, Sent, SentAs
<1> QED BY <1>8, <1>9, <1>10 DEF SurvivalInv

LEMMA SurvivalStep ==
  ASSUME OutboxInv, PathsInv, SurvivalInv, Next
  PROVE  SurvivalInv'
<1>1. Harmless
  BY OutboxStep
<1>2. CASE Build
  BY <1>1, <1>2, BuildSurvives
<1>3. ASSUME NEW key \in HostKeys, BuildPacket(key) PROVE SurvivalInv'
  BY <1>1, <1>3, BuildPacketSurvives
<1>4. ASSUME NEW n \in Lengths, NEW s \in Stamps, Stamp(n, s) PROVE SurvivalInv'
  BY <1>1, <1>4, StampSurvivesIt
<1>5. ASSUME NEW n \in Lengths, NEW to \in Ends, NEW key \in HostKeys, Seal(n, to, key)
      PROVE  SurvivalInv'
  BY <1>1, <1>5, SealSurvives
<1>6. ASSUME NEW to \in Ends, NEW key \in HostKeys, Encrypt(to, key)
      PROVE  SurvivalInv'
  BY <1>1, <1>6, EncryptSurvives
<1>7. CASE Wrap
  BY <1>1, <1>7, WrapSurvives
<1>8. CASE Restart
  BY <1>8, RestartSurvives
<1>9. CASE Serve
  BY <1>9, ServeSurvives
<1>10. CASE Open
  BY <1>1, <1>10, OpenSurvives
<1> QED BY <1>2, <1>3, <1>4, <1>5, <1>6, <1>7, <1>8, <1>9, <1>10 DEF Next

LEMMA SurvivalAlways == Spec => [](OutboxInv /\ SurvivalInv)
<1>1. OutboxInv /\ PathsInv /\ SurvivalInv /\ UNCHANGED vars => SurvivalInv'
  BY SurvivalUnchanged DEF vars
<1>2. OutboxInv /\ PathsInv /\ SurvivalInv /\ [Next]_vars => SurvivalInv'
  BY <1>1, SurvivalStep
<1> QED BY <1>2, SurvivalInit, PathsAlways, PTL DEF Spec

LEMMA ReceivedIsRead ==
  ASSUME OutboxInv, SurvivalInv, phase # "new"
  PROVE  ReadsAs(Received, message, stamp)
<1>1. PICK sg : sg = Signed("recipient", PackPayload(message))
  OBVIOUS
<1>2. Packable(message) /\ Stampable(stamp)
  BY DEF SurvivalInv, FitsInv
<1>3. PICK w : w = WholeMessage(message, stamp)
  OBVIOUS
<1>4. ReadsAs(ParseLink(w, "recipient", sg), message, stamp)
  BY <1>1, <1>2, <1>3, WholeIsRead
<1>5. phase \in {"packed", "stamped", "packet", "entry", "upload", "served", "opened"}
  BY DEF OutboxInv, HostInv
<1>6. CASE phase \in {"packed", "stamped", "opened"}
  <2>1. InUse = w
    BY <1>3, <1>6 DEF SurvivalInv, InBufferInv
  <2>2. Received = ParseLink(InUse, "recipient", sg)
    BY <1>1, <1>6 DEF Received
  <2> QED BY <1>4, <2>1, <2>2
<1>7. CASE phase = "packet"
  <2>1. PICK e : Sent(e) /\ InUse = SentAs(e)
    BY <1>7 DEF SurvivalInv, InBufferInv
  <2>2. Received = ParseOpportunistic(InUse, "recipient", HostKeys, sealed, sg)
    BY <1>1, <1>7 DEF Received
  <2> QED BY <1>1, <1>2, <2>1, <2>2, PacketIsRead DEF Sent, SentAs
<1>8. CASE phase \in {"entry", "upload", "served"}
  <2>1. InStoreInv /\ stored # <<>>
    BY <1>8 DEF SurvivalInv, InStoreInv
  <2>2. PICK call : call = DecryptMessage(stored, "recipient", HostKeys, sealed)
    OBVIOUS
  <2>3. SubSeq(call.buffer, 1, call.len) = w
    BY <1>3, <2>1, <2>2, StoredOpens DEF Leaves
  <2>4. Received = ParseLink(SubSeq(call.buffer, 1, call.len), "recipient", sg)
    <3>1. CASE phase = "upload"
      <4>1. Entry(InUse) = stored
        BY <3>1 DEF OutboxInv, PhaseInv
      <4> QED BY <1>1, <2>2, <3>1, <4>1 DEF Received
    <3>2. CASE phase \in {"entry", "served"}
      <4>1. InUse = stored
        BY <3>2 DEF OutboxInv, PhaseInv, SurvivalInv, InBufferInv
      <4> QED BY <1>1, <2>2, <3>2, <4>1 DEF Received
    <3> QED BY <1>8, <3>1, <3>2
  <2> QED BY <1>4, <2>3, <2>4
<1> QED BY <1>5, <1>6, <1>7, <1>8

(* Whichever way the message goes and whatever fails or is retried on it,  *)
(* the recipient reads what was built: its title, content and fields, under*)
(* a signature that verifies, for no in-place move of a builder, a stamp,  *)
(* a sealing, a wrapping or an opening damages what it moves.              *)
THEOREM MessagesSurvive == Spec => []MessageSurvives
<1>1. OutboxInv /\ SurvivalInv => MessageSurvives
  <2> SUFFICES ASSUME OutboxInv, SurvivalInv, phase # "new"
               PROVE  /\ Received.ok /\ Received.title = message.title
                      /\ Received.content = message.content /\ Received.fields = OuterFields(message)
    BY DEF MessageSurvives
  <2> QED BY ReceivedIsRead DEF ReadsAs
<1> QED BY <1>1, SurvivalAlways, PTL

(* With it comes the stamp that append_recipient_stamp put behind it, whole*)
(* and once, whatever earlier length the host sealed or stamped with.      *)
THEOREM StampsSurvive == Spec => []StampSurvives
<1>1. OutboxInv /\ SurvivalInv => StampSurvives
  <2> SUFFICES ASSUME OutboxInv, SurvivalInv, phase # "new"
               PROVE  Received.trailer = IF stamp = <<>> THEN <<>> ELSE Cells(<<196, Len(stamp)>>) \o stamp
    BY DEF StampSurvives
  <2> QED BY ReceivedIsRead DEF ReadsAs, Trailer
<1> QED BY <1>1, SurvivalAlways, PTL

-----------------------------------------------------------------------------
(* The counting writer adds up what the other writes, entry by entry.      *)
LEMMA FieldsCounted ==
  ASSUME NEW fields \in Seq(Byte \X Seq(Byte)), FieldSetError(fields) = "ok"
  PROVE  FieldsLen(fields) = Len(FieldsElement(fields)) /\ Len(FieldsElement(fields)) \in Nat
<1> DEFINE n      == Len(fields)
           sorted == Ascending(fields)
           pieces == [i \in DOMAIN sorted |-> FieldId8(sorted[i][1]) \o sorted[i][2]]
           h      == MapHeader(n)
           flat   == FlattenSeq(pieces)
           first  == IF Len(fields) < 16 THEN 1 ELSE 3
           more(i) == Len(FieldId8(sorted[i][1])) + Len(sorted[i][2])
           IsCount(u) == u = [i \in 0 .. n |->
                                IF i = 0 THEN first
                                ELSE u[i - 1] + Len(FieldId8(sorted[i][1])) + Len(sorted[i][2])]
           upTo   == CHOOSE u : IsCount(u)
<1>1. FieldsElement(fields) = h \o flat /\ FieldsLen(fields) = upTo[n]
  BY DEF FieldsElement, MapHeader, FieldsLen
<1>2. OrderedFields(sorted, n)
  BY FieldsOrdered
<1> HIDE DEF sorted, flat, h, upTo
<1>3. DOMAIN sorted = 1 .. n /\ n \in Nat /\ n <= 255
  BY <1>2, FieldsAssumption, SizeAssumption DEF OrderedFields
<1>4. ASSUME NEW i \in 1 .. n
      PROVE  /\ pieces[i] \in Seq(Nat) /\ Len(pieces[i]) = more(i)
             /\ Len(FieldId8(sorted[i][1])) \in Nat /\ Len(sorted[i][2]) \in Nat
  <2>1. PICK id \in Byte : id = sorted[i][1]
    <3> HIDE DEF Byte
    <3> QED BY <1>2 DEF OrderedFields
  <2>2. PICK v \in Seq(Byte) : v = sorted[i][2]
    <3> HIDE DEF Byte
    <3> QED BY <1>2 DEF OrderedFields
  <2>3. FieldId8(id) \in Seq(Nat) /\ v \in Seq(Nat)
    BY <2>1, <2>2, IdIsNumbers, BytesAreNumbers
  <2>4. /\ FieldId8(id) \o v \in Seq(Nat) /\ Len(FieldId8(id) \o v) = Len(FieldId8(id)) + Len(v)
        /\ Len(FieldId8(id)) \in Nat /\ Len(v) \in Nat
    BY <2>3, NumbersJoined
  <2>5. pieces[i] = FieldId8(id) \o v
    BY <1>3, <2>1, <2>2, Zenon
  <2> QED BY <2>1, <2>2, <2>4, <2>5, Zenon
<1>5. pieces \in Seq(Seq(Nat)) /\ Len(pieces) = n
  <2> DEFINE Strings8 == Seq(Nat)
  <2>1. pieces \in [1 .. n -> Strings8]
    BY <1>3, <1>4
  <2> HIDE DEF pieces, Strings8, n
  <2>2. pieces \in Seq(Strings8) /\ Len(pieces) = n
    BY <1>3, <2>1
  <2> QED BY <2>2 DEF Strings8
<1> HIDE DEF pieces
<1>6. flat \in Seq(Nat) /\ \E at \in [Nat -> Nat] : Placed(flat, pieces, at)
  BY <1>5, FlattenPlaces DEF flat
<1>7. PICK at \in [Nat -> Nat] : Placed(flat, pieces, at)
  BY <1>6
<1>8. /\ at[0] = 0 /\ at[n] = Len(flat) /\ \A k \in Nat : at[k] \in Nat
      /\ \A k \in Nat : k < n => at[k + 1] = at[k] + Len(pieces[k + 1])
  BY <1>5, <1>7 DEF Placed
<1>9. h \in Seq(Nat) /\ Len(h) = first /\ first \in Nat
  <2>1. CASE n < 16
    <3>1. PICK c \in Nat : c = 128 + n
      BY <1>3
    <3>2. h = <<c>>
      BY <2>1, <3>1 DEF h, MapHeader
    <3> QED BY <2>1, <3>2
  <2>2. CASE ~ (n < 16)
    <3>1. PICK c \in Nat : c = n
      BY <1>3
    <3>2. h = <<222, 0, c>>
      BY <2>2, <3>1 DEF h, MapHeader
    <3>3. <<222, 0, c>> \in Seq(Nat) /\ Len(<<222, 0, c>>) = 3
      BY <3>1
    <3> QED BY <2>2, <3>2, <3>3
  <2> QED BY <2>1, <2>2
<1>10. PICK start \in Nat : start = first
  BY <1>9
<1> HIDE DEF n
<1> DEFINE sum == [i \in 0 .. n |-> start + at[i]]
<1>11. IsCount(sum)
  <2> SUFFICES ASSUME NEW i \in 0 .. n
               PROVE  start + at[i] = IF i = 0 THEN first
                        ELSE sum[i - 1] + Len(FieldId8(sorted[i][1])) + Len(sorted[i][2])
    OBVIOUS
  <2>1. CASE i = 0
    BY <1>8, <1>10, <2>1
  <2>2. CASE i # 0
    <3>1. PICK k \in Nat : k = i - 1
      BY <1>3, <2>2
    <3>2. k < n /\ k + 1 = i /\ i \in 1 .. n /\ k \in 0 .. n
      BY <1>3, <2>2, <3>1
    <3>3. sum[k] = start + at[k] /\ at[k] \in Nat /\ at[i] = at[k] + Len(pieces[i])
      BY <1>8, <3>2
    <3>4. /\ Len(pieces[i]) = more(i) /\ Len(FieldId8(sorted[i][1])) \in Nat
          /\ Len(sorted[i][2]) \in Nat
      BY <1>4, <3>2
    <3> HIDE DEF sum
    <3>5. PICK a \in Nat : a = Len(FieldId8(sorted[i][1]))
      BY <3>4
    <3>6. PICK b \in Nat : b = Len(sorted[i][2])
      BY <3>4
    <3>7. PICK x \in Nat : x = at[k]
      BY <3>3
    <3>8. at[i] = x + (a + b) /\ sum[k] = start + x
      BY <3>3, <3>4, <3>5, <3>6, <3>7, Zenon
    <3>9. start + at[i] = sum[k] + a + b
      BY <3>8
    <3> QED BY <2>2, <3>1, <3>5, <3>6, <3>9
  <2> QED BY <2>1, <2>2
<1>12. IsCount(upTo)
  <2> HIDE DEF sum, IsCount
  <2> QED BY <1>11 DEF upTo
<1>13. /\ upTo[0] = first
       /\ \A i \in 1 .. n :
            upTo[i] = upTo[i - 1] + Len(FieldId8(sorted[i][1])) + Len(sorted[i][2])
  <2>1. \A i \in 0 .. n :
          upTo[i] = IF i = 0 THEN first
                    ELSE upTo[i - 1] + Len(FieldId8(sorted[i][1])) + Len(sorted[i][2])
    <3> HIDE DEF first
    <3> QED BY <1>12, Zenon
  <2>2. 0 \in 0 .. n /\ \A i \in 1 .. n : i \in 0 .. n /\ i # 0
    BY <1>3
  <2> HIDE DEF first
  <2> QED BY <2>1, <2>2, Zenon
<1> DEFINE T == {i \in Nat : i <= n => upTo[i] = start + at[i]}
<1>14. 0 \in T
  BY <1>8, <1>10, <1>13
<1>15. ASSUME NEW k \in Nat, k \in T PROVE k + 1 \in T
  <2> SUFFICES ASSUME k + 1 <= n PROVE upTo[k + 1] = start + at[k + 1]
    OBVIOUS
  <2>1. k < n /\ k + 1 \in 1 .. n /\ (k + 1) - 1 = k
    BY <1>3
  <2>2. PICK i : i = k + 1
    OBVIOUS
  <2>3. /\ upTo[i] = upTo[k] + Len(FieldId8(sorted[i][1])) + Len(sorted[i][2])
        /\ upTo[k] = start + at[k]
    BY <1>3, <1>13, <1>15, <2>1, <2>2
  <2>4. at[i] = at[k] + Len(pieces[i]) /\ at[k] \in Nat
    BY <1>8, <2>1, <2>2
  <2>5. /\ Len(pieces[i]) = more(i) /\ Len(FieldId8(sorted[i][1])) \in Nat
        /\ Len(sorted[i][2]) \in Nat
    BY <1>4, <2>1, <2>2
  <2>6. PICK a \in Nat : a = Len(FieldId8(sorted[i][1]))
    BY <2>5
  <2>7. PICK b \in Nat : b = Len(sorted[i][2])
    BY <2>5
  <2>8. PICK x \in Nat : x = at[k]
    BY <2>4
  <2>9. at[i] = x + (a + b) /\ upTo[i] = start + x + a + b
    BY <2>3, <2>4, <2>5, <2>6, <2>7, <2>8, Zenon
  <2>10. upTo[i] = start + at[i]
    BY <2>9
  <2> QED BY <2>2, <2>10
<1>16. n \in T
  <2> HIDE DEF T
  <2> QED BY <1>3, <1>14, <1>15, SetInduction
<1>17. upTo[n] = start + Len(flat)
  <2>1. n \in Nat /\ n <= n
    BY <1>3
  <2> QED BY <1>8, <1>16, <2>1, Zenon
<1>18. Len(h \o flat) = Len(h) + Len(flat) /\ Len(h) \in Nat /\ Len(flat) \in Nat
  BY <1>6, <1>9, NumbersJoined
<1>19. PICK l \in Nat : l = Len(flat)
  BY <1>18
<1>20. upTo[n] = start + l /\ Len(h \o flat) = start + l
  BY <1>9, <1>10, <1>17, <1>18, <1>19, Zenon
<1> QED BY <1>1, <1>20 DEF n

LEMMA BinCounted ==
  ASSUME NEW bytes \in Seq(Byte)
  PROVE  BinLen(Len(bytes)) = Len(Bin(bytes)) /\ Len(Bin(bytes)) \in Nat /\ Len(Bin(bytes)) >= 2
<1>1. PICK n \in Nat : n = Len(bytes)
  BY BinIsLonger
<1>2. PICK h \in Seq(Nat) : h = BinHeader(n)
  BY HeaderIsNumbers
<1>3. bytes \in Seq(Nat)
  BY BytesAreNumbers
<1>4. Len(h \o bytes) = Len(h) + Len(bytes) /\ Len(h) \in Nat
  BY <1>2, <1>3, NumbersJoined
<1>5. PICK k \in Nat : k = Len(h)
  BY <1>4
<1>6. PICK l : l = Len(Bin(bytes))
  OBVIOUS
<1>7. l = k + n /\ BinLen(n) = k + n
  BY <1>1, <1>2, <1>4, <1>5, <1>6 DEF Bin, BinLen
<1>8. k >= 2
  <2>1. Len(BinHeader(n)) \in {2, 3, 5}
    BY <1>1, SMT DEF BinHeader
  <2> QED BY <1>2, <1>5, <2>1
<1>9. l \in Nat /\ l >= 2 /\ BinLen(n) = l
  BY <1>7, <1>8
<1> QED BY <1>1, <1>6, <1>9

LEMMA AudioCounted ==
  ASSUME NEW a, a.mode \in Byte, a.bytes \in Seq(Byte)
  PROVE  /\ 3 + Len(FieldId8(a.mode)) + BinLen(Len(a.bytes)) = Len(AudioElement(a))
         /\ Len(AudioElement(a)) \in Nat
<1>1. PICK lead : lead = <<129, AudioId, 146>>
  OBVIOUS
<1>2. lead \in Seq(Nat) /\ Len(lead) = 3
  <2>1. 129 \in Nat /\ AudioId \in Nat /\ 146 \in Nat
    BY DEF AudioId
  <2> QED BY <1>1, <2>1, SMT
<1>3. PICK mode \in Byte : mode = a.mode
  BY Zenon
<1>4. PICK bytes \in Seq(Byte) : bytes = a.bytes
  BY Zenon
<1>5. PICK i \in Seq(Nat) : i = FieldId8(mode)
  BY IdIsNumbers
<1>6. PICK u \in Seq(Nat) : u = Bin(bytes)
  BY BinIsNumbers
<1>7. PICK both \in Seq(Nat) : both = lead \o i
  BY <1>2, NumbersJoined
<1>8. Len(both) = Len(lead) + Len(i) /\ Len(i) \in Nat
  BY <1>2, <1>7, NumbersJoined
<1>9. Len(both \o u) = Len(both) + Len(u) /\ Len(u) \in Nat
  BY NumbersJoined
<1>10. AudioElement(a) = both \o u
  BY <1>1, <1>3, <1>4, <1>5, <1>6, <1>7, Zenon DEF AudioElement
<1>11. BinLen(Len(a.bytes)) = Len(u)
  BY <1>4, <1>6, BinCounted
<1>12. PICK x \in Nat : x = Len(i)
  BY <1>8
<1>13. PICK y \in Nat : y = Len(u)
  BY <1>9
<1>14. Len(AudioElement(a)) = (3 + x) + y
  BY <1>2, <1>8, <1>9, <1>10, <1>12, <1>13, Zenon
<1>15. 3 + Len(FieldId8(a.mode)) + BinLen(Len(a.bytes)) = (3 + x) + y
  BY <1>3, <1>5, <1>11, <1>12, <1>13, Zenon
<1> QED BY <1>14, <1>15

(* packed_len counts what build_link writes, prefix and payload.           *)
LEMMA MessageCounted ==
  ASSUME NEW m \in Messages, FieldSetError(m.fields) = "ok"
  PROVE  /\ PackedLen(m) = PackedPrefix + Len(PackPayload(m))
         /\ Len(PackPayload(m)) \in Nat /\ Len(PackPayload(m)) >= 14
<1>1. /\ m.title \in Seq(Byte) /\ m.content \in Seq(Byte) /\ m.fields \in Seq(Byte \X Seq(Byte))
      /\ m.audio # <<>> => m.audio[1].mode \in Byte /\ m.audio[1].bytes \in Seq(Byte)
  BY MessageParts
<1> DEFINE outer == IF m.audio # <<>>
                    THEN 3 + Len(FieldId8(m.audio[1].mode)) + BinLen(Len(m.audio[1].bytes))
                    ELSE FieldsLen(m.fields)
<1>2. outer = Len(OuterFields(m)) /\ Len(OuterFields(m)) \in Nat
  <2>1. CASE m.audio # <<>>
    <3>1. PICK a : a = m.audio[1]
      OBVIOUS
    <3>2. a.mode \in Byte /\ a.bytes \in Seq(Byte)
      BY <1>1, <2>1, <3>1
    <3>3. /\ 3 + Len(FieldId8(a.mode)) + BinLen(Len(a.bytes)) = Len(AudioElement(a))
          /\ Len(AudioElement(a)) \in Nat
      BY <3>2, AudioCounted
    <3>4. OuterFields(m) = AudioElement(a)
      BY <2>1, <3>1 DEF OuterFields
    <3>5. outer = 3 + Len(FieldId8(a.mode)) + BinLen(Len(a.bytes))
      BY <2>1, <3>1
    <3> HIDE DEF outer
    <3> QED BY <3>3, <3>4, <3>5
  <2>2. CASE m.audio = <<>>
    <3>1. FieldsLen(m.fields) = Len(FieldsElement(m.fields)) /\ Len(FieldsElement(m.fields)) \in Nat
      BY <1>1, FieldsCounted
    <3>2. outer = FieldsLen(m.fields) /\ OuterFields(m) = FieldsElement(m.fields)
      BY <2>2 DEF OuterFields
    <3> HIDE DEF outer
    <3> QED BY <3>1, <3>2
  <2> QED BY <2>1, <2>2
<1>3. PackedLen(m) = PackedPrefix + 10 + BinLen(Len(m.title)) + BinLen(Len(m.content)) + outer
  BY Zenon DEF PackedLen
<1> HIDE DEF outer
<1>4. PICK t \in Nat : t = Len(Bin(m.title)) /\ t = BinLen(Len(m.title)) /\ t >= 2
  BY <1>1, BinCounted
<1>5. PICK c \in Nat : c = Len(Bin(m.content)) /\ c = BinLen(Len(m.content)) /\ c >= 2
  BY <1>1, BinCounted
<1>6. PICK f \in Nat : f = outer /\ f = Len(OuterFields(m))
  BY <1>2
<1>7. PICK l : l = Len(PackPayload(m))
  OBVIOUS
<1>8. l = ((10 + t) + c) + f
  BY <1>4, <1>5, <1>6, <1>7, PayloadIsNumbers, Zenon
<1>9. PackedPrefix \in Nat
  BY LengthAssumption DEF PackedPrefix
<1>10. PackedLen(m) = PackedPrefix + 10 + t + c + f
  BY <1>3, <1>4, <1>5, <1>6, Zenon
<1>11. PackedLen(m) = PackedPrefix + l /\ l \in Nat /\ l >= 14
  <2>1. PICK p \in Nat : p = PackedPrefix
    BY <1>9
  <2>2. PackedLen(m) = p + 10 + t + c + f
    BY <1>10, <2>1
  <2>3. l = ((10 + t) + c) + f
    BY <1>8
  <2>4. t >= 2 /\ c >= 2
    BY <1>4, <1>5
  <2>5. PICK k \in Nat : k = ((10 + t) + c) + f
    OBVIOUS
  <2>6. p + 10 + t + c + f = p + k /\ k >= 14
    BY <2>4, <2>5
  <2> QED BY <2>1, <2>2, <2>3, <2>5, <2>6
<1> QED BY <1>7, <1>11

(* A host that asks packed_len first gets its message built in a buffer of *)
(* that size, and in no smaller one: what the counting writer counts, in   *)
(* every variant, is what the other writes, and the room that build_link   *)
(* demands beside it is never more.                                        *)
THEOREM SizedBuffers == Spec => []SizedBufferSuffices
<1>1. OutboxInv => SizedBufferSuffices
  <2> SUFFICES ASSUME OutboxInv, FieldSetError(message.fields) = "ok"
               PROVE  BuildLink(buffer, message, "recipient").error = "ok"
                        <=> Len(buffer) >= PackedLen(message)
    BY DEF SizedBufferSuffices
  <2> DEFINE after == Put(buffer, 1, DestHash("recipient") \o DestHash("sender")
                            \o Opaque("sig", SignatureLength, "sender") \o Cells(PackPayload(message)))
  <2>1. message \in Messages /\ Len(buffer) \in Nat
    BY ListedFacts DEF OutboxInv, HostInv, BufferInv
  <2>2. PICK l \in Nat : l = Len(PackPayload(message)) /\ l >= 14
    BY <2>1, MessageCounted
  <2>3. PICK size \in Nat : size = Len(buffer)
    BY <2>1
  <2>4. PICK call : call = BuildLink(buffer, message, "recipient")
    OBVIOUS
  <2>5. call = IF size < PackedPrefix + 11 THEN Failed("OutputTooSmall", buffer, 0)
               ELSE IF l > size - 2 * HashLength - 32 \/ size < PackedPrefix + l
               THEN Failed("TooLong", buffer, 0)
               ELSE Ok(after, PackedPrefix + l)
    BY <2>2, <2>3, <2>4, Zenon DEF BuildLink
  <2> HIDE DEF after
  <2>6. HashLength \in Nat /\ SignatureLength \in Nat /\ SignatureLength >= 32
    BY LengthAssumption, SizeAssumption
  <2>7. PackedPrefix = 2 * HashLength + SignatureLength
    BY DEF PackedPrefix
  <2>8. CASE size < PackedPrefix + l
    <3>1. call.error # "ok"
      BY <2>5, <2>8 DEF Failed
    <3>2. PackedLen(message) = PackedPrefix + l
      BY <2>1, <2>2, MessageCounted
    <3>3. ~ (size >= PackedPrefix + l)
      BY <2>6, <2>7, <2>8
    <3> QED BY <2>3, <2>4, <3>1, <3>2, <3>3
  <2>9. CASE ~ (size < PackedPrefix + l)
    <3>1. ~ (size < PackedPrefix + 11) /\ ~ (l > size - 2 * HashLength - 32) /\ size >= PackedPrefix + l
      BY <2>2, <2>6, <2>7, <2>9
    <3>2. call.error = "ok"
      BY <2>5, <3>1, <2>9 DEF Ok
    <3>3. PackedLen(message) = PackedPrefix + l
      BY <2>1, <2>2, MessageCounted
    <3> QED BY <2>3, <2>4, <3>1, <3>2, <3>3
  <2> QED BY <2>8, <2>9
<1> QED BY <1>1, OutboxAlways, PTL
=============================================================================

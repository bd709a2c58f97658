------------------------------ MODULE MsgPack -------------------------------
(***************************************************************************)
(* The MessagePack profile of src/lxmf.rs: what one header byte announces, *)
(* and the readers built on it.  Positions count from 1; a position past   *)
(* the end is Len(data) + 1.                                               *)
(***************************************************************************)
EXTENDS Integers, Sequences

CONSTANT MaxDepth  \* deepest nesting skip_value enters, 8 in the code

ASSUME DepthAssumption == MaxDepth \in Nat

Byte == 0 .. 255

(* A four-byte length this large exceeds every buffer; it stands for all   *)
(* larger ones, whose arithmetic the code checks.                          *)
Huge == 16777216

-----------------------------------------------------------------------------
FixMap   == 128 .. 143
FixArray == 144 .. 159
FixStr   == 160 .. 191

(* Bytes of body that follow a number's code; nil, bool and fixint are     *)
(* complete by themselves.                                                 *)
NumberBody(b) ==
  IF b \in {204, 208} THEN 1
  ELSE IF b \in {205, 209} THEN 2
  ELSE IF b \in {202, 206, 210} THEN 4
  ELSE IF b \in {203, 207, 211} THEN 8
  ELSE 0

(* Bytes of the length prefix that follows the code of bin8/16/32,         *)
(* str8/16/32, array16/32 and map16/32.                                    *)
LengthBytes(b) ==
  IF b \in {196, 217} THEN 1
  ELSE IF b \in {197, 218, 220, 222} THEN 2
  ELSE IF b \in {198, 219, 221, 223} THEN 4
  ELSE 0

IsScalar(b) == b \in 0 .. 127 \cup {192, 194, 195} \cup 202 .. 211 \cup 224 .. 255
IsBlob(b)   == b \in FixStr \cup 196 .. 198 \cup 217 .. 219
IsArray(b)  == b \in FixArray \cup {220, 221}
IsMap(b)    == b \in FixMap \cup {222, 223}

BigEndian(data, p, w) ==
  IF w = 1 THEN data[p]
  ELSE IF w = 2 THEN 256 * data[p] + data[p + 1]
  ELSE IF data[p] > 0 THEN Huge
  ELSE 65536 * data[p + 1] + 256 * data[p + 2] + data[p + 3]

(* The length or count announced at p, from the prefix or the code itself. *)
Announced(data, p) ==
  LET b == data[p]
  IN  IF LengthBytes(b) > 0 THEN BigEndian(data, p + 1, LengthBytes(b))
      ELSE IF b \in FixStr THEN b - 160
      ELSE IF b \in FixArray THEN b - 144
      ELSE IF b \in FixMap THEN b - 128
      ELSE 0

(* One value's own bytes: its header, with a blob's or number's body.      *)
(* Mutant: the code byte is not counted.                                   *)
OwnEndShort(data, p) ==
  LET b == data[p]
  IN  p + LengthBytes(b) + NumberBody(b) + (IF IsBlob(b) THEN Announced(data, p) ELSE 0)
OwnEnd(data, p) ==
  LET b == data[p]
  IN  p + 1 + LengthBytes(b) + NumberBody(b) + (IF IsBlob(b) THEN Announced(data, p) ELSE 0)

(* The values nested directly inside it.                                   *)
Items(data, p) ==
  IF IsArray(data[p]) THEN Announced(data, p)
  ELSE IF IsMap(data[p]) THEN 2 * Announced(data, p)
  ELSE 0

(* A supported code whose own bytes all lie inside the data.               *)
Readable(data, p) ==
  /\ p <= Len(data)
  /\ IsScalar(data[p]) \/ IsBlob(data[p]) \/ IsArray(data[p]) \/ IsMap(data[p])
  /\ p + LengthBytes(data[p]) <= Len(data)
  /\ OwnEnd(data, p) <= Len(data) + 1

-----------------------------------------------------------------------------
Malformed == 0

(* skip_value and skip_n: the position past n values that start at p, at   *)
(* depth d, for each call <<n, d, p>>.                                     *)
Skip(data, start, n0, d0) ==
  LET skip[call \in Nat \X Nat \X (Nat \ {0})] ==
        LET n == call[1]
            d == call[2]
            p == call[3]
        IN  IF n = 0 THEN p
            ELSE IF d > MaxDepth \/ ~Readable(data, p) THEN Malformed
            ELSE LET q == skip[<<Items(data, p), d + 1, OwnEnd(data, p)>>]
                 IN  IF q = Malformed THEN Malformed ELSE skip[<<n - 1, d, q>>]
  IN  skip[<<n0, d0, start>>]

SkipValueAt(data, p, d) == Skip(data, p, 1, d)

(* Mutant: the announced length is not checked against the data.           *)
ReadBinUnchecked(data, p) ==
  IF p > Len(data) THEN Malformed
  ELSE LET b == data[p]
           header == 1 + LengthBytes(b)
       IN  IF ~IsBlob(b) \/ p + header > Len(data) + 1 THEN Malformed
           ELSE p + header + Announced(data, p)

(* read_bin: title and content, as bin or str.                             *)
ReadBin(data, p) ==
  IF p > Len(data) THEN Malformed
  ELSE LET b == data[p]
           header == 1 + LengthBytes(b)
       IN  IF ~IsBlob(b) \/ p + header > Len(data) + 1 THEN Malformed
           ELSE LET end == p + header + Announced(data, p)
                IN  IF end <= Len(data) + 1 THEN end ELSE Malformed
=============================================================================

----------------------------- MODULE SkipValue ------------------------------
(***************************************************************************)
(* skip_value of src/lxmf.rs as the machine that runs it: one step per     *)
(* call, one level of pending values per skip_n loop on the call stack.    *)
(* Every parser, and every builder that accepts encoded values, relies on  *)
(* it to find the end of a value in untrusted bytes.                       *)
(***************************************************************************)
EXTENDS ValueGrammar

CONSTANTS Inputs,  \* the byte strings walked
          Starts   \* the positions in them a caller may start at

ASSUME InputAssumption == Inputs \subseteq Seq(Byte) /\ Starts \subseteq Nat \ {0}

VARIABLES
  data, from, base,  \* the arguments: skip_value(data, pos, depth)
  pos,               \* position reached
  depth,             \* depth of the call being made
  left,              \* per depth, values the enclosing loop still has to skip
  calls,             \* calls of skip_value made
  result             \* "running", "ok" or "malformed"

args == <<data, from, base>>
vars == <<args, pos, depth, left, calls, result>>

Depths == 0 .. MaxDepth + 1

(* Callers start at depth 0, or at 1 for a value of the fields map.        *)
Init ==
  /\ data \in Inputs /\ from \in Starts \cap 1 .. Len(data) + 1
  /\ base \in {0, 1} \cap Depths
  /\ pos = from /\ depth = base
  /\ left = [d \in Depths |-> IF d = base THEN 1 ELSE 0]
  /\ calls = 0 /\ result = "running"

(* The calls that fail at once.  Mutants: no depth limit; a limit one level*)
(* short.                                                                  *)
RefusedUnbounded == ~Readable(data, pos)
RefusedShallow   == depth >= MaxDepth \/ ~Readable(data, pos)
Refused          == depth > MaxDepth \/ ~Readable(data, pos)

(* A call of skip_value on a value that cannot be read.                    *)
Refuse ==
  /\ result = "running" /\ left[depth] > 0 /\ Refused
  /\ calls' = calls + 1 /\ result' = "malformed"
  /\ UNCHANGED <<args, pos, depth, left>>

(* A call on a scalar or a blob returns the end of its body.               *)
Leaf ==
  /\ result = "running" /\ left[depth] > 0 /\ ~Refused
  /\ IsScalar(data[pos]) \/ IsBlob(data[pos])
  /\ calls' = calls + 1 /\ pos' = OwnEnd(data, pos)
  /\ left' = [left EXCEPT ![depth] = @ - 1]
  /\ UNCHANGED <<args, depth, result>>

(* A call on an array or a map enters the loop over what it holds.         *)
Enter ==
  /\ result = "running" /\ left[depth] > 0 /\ ~Refused
  /\ IsArray(data[pos]) \/ IsMap(data[pos])
  /\ calls' = calls + 1 /\ pos' = OwnEnd(data, pos)
  /\ left' = [left EXCEPT ![depth] = @ - 1, ![depth + 1] = Items(data, pos)]
  /\ depth' = depth + 1
  /\ UNCHANGED <<args, result>>

(* A loop has skipped what it was entered for.  Mutant: the outermost never*)
(* has.                                                                    *)
LoopDoneInside == left[depth] = 0 /\ depth # base
LoopDone       == left[depth] = 0

(* A finished loop returns to the loop around it, the outermost one to the *)
(* caller.                                                                 *)
Return ==
  /\ result = "running" /\ LoopDone
  /\ IF depth = base THEN result' = "ok" /\ depth' = depth
                     ELSE result' = result /\ depth' = depth - 1
  /\ UNCHANGED <<args, pos, left, calls>>

Next == Refuse \/ Leaf \/ Enter \/ Return

Spec     == Init /\ [][Next]_vars
FairSpec == Spec /\ WF_vars(Next)

-----------------------------------------------------------------------------
(* The walk stays inside its data and its stack: positions never pass the  *)
(* end ("ALWAYS <= data.len()") and calls nest one level past MaxDepth at  *)
(* most ("Bounded recursion").                                             *)
TypeOK ==
  /\ data \in Inputs /\ from \in Starts \cap 1 .. Len(data) + 1 /\ base \in {0, 1} \cap Depths
  /\ pos \in from .. Len(data) + 1
  /\ depth \in base .. MaxDepth + 1
  /\ left \in [Depths -> Nat]
  /\ calls \in Nat
  /\ result \in {"running", "ok", "malformed"}

(* Work is linear in the bytes, whatever counts the headers announce: each *)
(* call but a failing last one consumed at least one byte.                 *)
LinearWork == calls <= pos - from + (IF result = "malformed" THEN 1 ELSE 0)

(* A successful walk has skipped a whole value and left no loop half done. *)
NothingPending ==
  result = "ok" => /\ depth = base /\ from < pos
                   /\ \A d \in base .. MaxDepth + 1 : left[d] = 0

(* The machine accepts exactly the values of the grammar that fit the      *)
(* nesting left to it, ends where they end, and refuses everything else;   *)
(* the recursive operator the other modules use agrees with it.            *)
AcceptsExactlyValues ==
  /\ result = "ok" => /\ IsValue(SubSeq(data, from, pos - 1), MaxDepth - base)
                      /\ SkipValueAt(data, from, base) = pos
  /\ result = "malformed" =>
       /\ \A end \in from .. Len(data) : ~IsValue(SubSeq(data, from, end), MaxDepth - base)
       /\ SkipValueAt(data, from, base) = Malformed

(* read_bin and skip_value agree on where a title or content ends, so a    *)
(* message framed for stamping or sealing is the one a parser will see.    *)
ReadersAgree ==
  /\ result = "ok" /\ IsBlob(data[from]) => ReadBin(data, from) = pos
  /\ result = "malformed" /\ base <= MaxDepth => ReadBin(data, from) = Malformed

(* Every walk returns.                                                     *)
Terminates == <>(result # "running")
=============================================================================

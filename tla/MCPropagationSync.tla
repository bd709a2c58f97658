------------------------- MODULE MCPropagationSync --------------------------
(* Constants for checking PropagationSync: either a message under the      *)
(* second ratchet, one under the base key and one that cannot be opened, or*)
(* one message twice, and one that no fetch may return.                    *)
EXTENDS PropagationSync

Letter(key, body, size) ==
  [dest |-> "me", key |-> key, size |-> size,
   plain |-> <<"ann", SignatureOf("ann", "me", "ann", body),
               [form |-> "ok", body |-> body, stamp |-> FALSE]>>]

Letters == {Letter("r1", "hi", 1), Letter("base", "yes", 1), Letter("lost", "no", 1)}
DoubledAndLarge == {Letter("r1", "hi", 1), Letter("base", "hi", 1), Letter("base", "long", 2)}
MCMails == {Letters, DoubledAndLarge}
MCRing == <<"r2", "r1">>
=============================================================================

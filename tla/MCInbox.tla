------------------------------ MODULE MCInbox -------------------------------
(* Constants for checking Inbox: genuine messages under each kind of key,  *)
(* with and without a stamp, and messages put together from others' parts. *)
EXTENDS Inbox

Ok(body, stamp) == [form |-> "ok", body |-> body, stamp |-> stamp]
Signed(who, body) == SignatureOf(who, "me", who, body)

MCPackets ==
  { [key |-> "base", plain |-> <<"ann", Signed("ann", "hi"), Ok("hi", FALSE)>>],
    [key |-> "r1", plain |-> <<"ann", Signed("ann", "hello"), Ok("hello", TRUE)>>],
    [key |-> "r2", plain |-> <<"bob", Signed("bob", "yes"), Ok("yes", FALSE)>>],
    \* too short for a payload, and for a source
    [key |-> "r2", plain |-> <<"bob", Signed("bob", "yes")>>],
    [key |-> "r1", plain |-> <<>>],
    \* another's signature, another's name, another recipient
    [key |-> "base", plain |-> <<"ann", Signed("bob", "yes"), Ok("yes", FALSE)>>],
    [key |-> "r1", plain |-> <<"ann", SignatureOf("bob", "me", "ann", "hi ann"),
                               Ok("hi ann", FALSE)>>],
    [key |-> "base", plain |-> <<"ann", SignatureOf("ann", "bob", "ann", "bye"),
                                 Ok("bye", FALSE)>>],
    \* fields the map check refuses
    [key |-> "r2", plain |-> <<"ann", Signed("ann", "twice"),
                               [form |-> "DuplicateField", body |-> "twice", stamp |-> FALSE]>>] }

MCIdentities == {"ann", "bob"}
MCRatchets == <<"r1", "r2">>
=============================================================================

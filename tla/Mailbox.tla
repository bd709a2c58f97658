------------------------------ MODULE Mailbox -------------------------------
(***************************************************************************)
(* What collecting mail from a propagation node promises: an entry leaves  *)
(* the node only when its message is kept, and every message that can be   *)
(* read is kept and its entry removed in the end.                          *)
(***************************************************************************)
EXTENDS Naturals

CONSTANTS
  Entries,        \* what a node may hold
  Legible,        \* the entries the host can read
  MessageIn       \* the message of each of them

VARIABLES
  waiting,  \* the entries at the node
  kept      \* the messages in the host's durable inbox

mail == <<waiting, kept>>

MailInit == waiting \subseteq Entries /\ kept = {}

Arrives(e) ==
  /\ e \notin waiting /\ waiting' = waiting \cup {e}
  /\ UNCHANGED kept

Keep(e) ==
  /\ e \in waiting /\ MessageIn[e] \notin kept
  /\ kept' = kept \cup {MessageIn[e]}
  /\ UNCHANGED waiting

Remove(e) ==
  /\ e \in waiting /\ MessageIn[e] \in kept
  /\ waiting' = waiting \ {e}
  /\ UNCHANGED kept

MailNext ==
  \/ \E e \in Entries : Arrives(e)
  \/ \E e \in Legible : Keep(e) \/ Remove(e)

SafeMail == MailInit /\ [][MailNext]_mail
FairMail == SafeMail /\ \A e \in Legible : WF_mail(Keep(e)) /\ WF_mail(Remove(e))
=============================================================================

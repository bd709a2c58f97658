-------------------------- MODULE PropagationSync ---------------------------
(***************************************************************************)
(* A host that collects its mail from a propagation node: list, fetch one, *)
(* decrypt, validate, store durably, and only then purge.  Requests and    *)
(* responses may be lost, late and out of order, the node may refuse one,  *)
(* storing may fail, and the host may time out too early and restart.      *)
(* The codecs are those of Propagation; the host follows their comments.   *)
(***************************************************************************)
EXTENDS Propagation, SequencesExt

CONSTANTS
  Mails,        \* the sets of entries that may arrive at the node
  Ring,         \* the host's ratchet keys
  Limit,        \* bytes one fetch may return
  MaxFaults,    \* bound on losses, refusals, early timeouts and restarts
  MaxInFlight   \* request IDs told apart at once

(* What arrives is an entry, and encrypted.                                *)
ASSUME SyncAssumption ==
  /\ \A mail \in Mails :
       /\ IsFiniteSet(mail)
       /\ \A e \in mail :
            DOMAIN e = {"dest", "key", "plain", "size"} /\ e.key # "open"
  /\ Ring \in Seq(ToSet(Ring))
  /\ MaxFaults \in Nat
  /\ Limit \in Nat \ {0} /\ MaxInFlight \in Nat \ {0}

Entries == UNION Mails

VARIABLES
  order,      \* the mail, in the order of the node's lists, which is its own
  node,       \* the entries at the node
  arrived,    \* the entries that have ever been there
  requests,   \* on the way to the node
  responses,  \* on the way back
  goal,       \* what the host asks now: its kind and the ID it is about
  asked,      \* the ID of the request it waits for, 0 for none
  index,      \* how many listed entries it has skipped
  inbox,      \* the messages stored durably
  faults      \* how many things have gone wrong

vars == <<order, node, arrived, requests, responses, goal, asked, index,
          inbox, faults>>

List      == [kind |-> "list", id |-> NoId]
Fetch(id) == [kind |-> "fetch", id |-> id]
Purge(id) == [kind |-> "purge", id |-> id]

(* The entries held, in the order of the node's list.                      *)
Listed(held) ==
  LET list[i \in 0 .. Len(order)] ==
        IF i = 0 THEN <<>>
        ELSE IF order[i] \in held THEN Append(list[i - 1], order[i])
        ELSE list[i - 1]
  IN  list[Len(order)]

InFlight  == {m.id : m \in requests \cup responses}
Goes(wrong) == faults' = IF wrong THEN faults + 1 ELSE faults
MayFail == faults < MaxFaults

Init ==
  /\ order \in UNION {SetToSeqs(mail) : mail \in Mails}
  /\ node = {} /\ arrived = {} /\ requests = {} /\ responses = {}
  /\ goal = List /\ asked = 0 /\ index = 0 /\ inbox = {} /\ faults = 0

(* External: a sender's upload reaches the node.                           *)
Arrive(e) ==
  /\ e \in ToSet(order) \ arrived
  /\ node' = node \cup {e} /\ arrived' = arrived \cup {e}
  /\ UNCHANGED <<order, requests, responses, goal, asked, index, inbox, faults>>

(* A request goes out under an ID, its packet's hash, that no other on the *)
(* way has.                                                                *)
Ask ==
  LET call == BuildGetRequest(goal, Limit)
      free == (1 .. MaxInFlight) \ InFlight
  IN  /\ asked = 0 /\ free # {} /\ call.error = "ok"
      /\ asked' = CHOOSE i \in free : TRUE
      /\ requests' = requests \cup {[id |-> asked', call |-> call, goal |-> goal]}
      /\ UNCHANGED <<order, node, arrived, responses, goal, index, inbox, faults>>

(* External: the node deletes the haves, then returns its list, or what is *)
(* wanted and within the limit, or refuses.                                *)
Serve(r, refused) ==
  LET left   == {e \in node : TransientId(e) \notin r.call.haves}
      wanted == {e \in left : TransientId(e) \in r.call.wants /\ e.size <= r.call.limit}
      items  == IF refused THEN <<NoBlob>>
                ELSE IF r.call.lists
                THEN [i \in DOMAIN Listed(left) |-> IdItem(Listed(left)[i])]
                ELSE [i \in DOMAIN Listed(wanted) |-> EntryItem(Listed(wanted)[i])]
  IN  /\ r \in requests /\ requests' = requests \ {r}
      /\ node' = IF refused THEN node ELSE left
      /\ responses' = responses \cup {[id |-> r.id, items |-> items, goal |-> r.goal]}
      /\ refused => MayFail
      /\ Goes(refused)
      /\ UNCHANGED <<order, arrived, goal, asked, index, inbox>>

Lose(m) ==
  /\ MayFail /\ Goes(TRUE)
  /\ m \in requests \cup responses
  /\ requests' = requests \ {m} /\ responses' = responses \ {m}
  /\ UNCHANGED <<order, node, arrived, goal, asked, index, inbox>>

(* A response that is not the awaited one changes nothing.                 *)
Ignore(r) ==
  /\ r \in responses /\ responses' = responses \ {r}
  /\ asked = 0 \/ ResponseData(r, asked).error # "ok"
  /\ UNCHANGED <<order, node, arrived, requests, goal, asked, index, inbox, faults>>

Awaited(r, kind) ==
  /\ r \in responses /\ responses' = responses \ {r}
  /\ asked # 0 /\ ResponseData(r, asked).error = "ok"
  /\ goal.kind = kind /\ asked' = 0
  /\ UNCHANGED <<order, node, arrived, requests>>

(* The ID at the position reached; past the last, the next list starts over*)
TakeList(r) ==
  LET call == AvailableAt(ResponseData(r, asked).items, index)
  IN  /\ Awaited(r, "list")
      /\ IF call.error # "ok" THEN UNCHANGED <<goal, index>>
         ELSE IF call.found = {} THEN index' = 0 /\ UNCHANGED goal
         ELSE goal' = Fetch(CHOOSE id \in call.found : TRUE) /\ UNCHANGED index
      /\ UNCHANGED <<inbox, faults>>

(* The message in what was fetched: decrypted, and valid for parse_link by *)
(* the key of the source it names; with the ID that a purge of it needs.   *)
Collected(items) ==
  LET fetched == FetchedMessage(items)
      opened  == {DecryptMessage(item, Ring) : item \in fetched.found}
  IN  IF fetched.error # "ok" THEN {}
      ELSE {d \in opened : /\ d.error = "ok" /\ Len(d.plain) = Whole
                           /\ Validate(d.plain, d.plain[1]) = "ok"}

TakeMessage(r, broken) ==
  LET good == Collected(ResponseData(r, asked).items)
  IN  /\ Awaited(r, "fetch")
      /\ broken => MayFail /\ good # {}
      /\ Goes(broken)
      /\ IF good = {} \/ broken
         THEN index' = index + 1 /\ goal' = List /\ UNCHANGED inbox
         ELSE /\ inbox' = inbox \cup {View(d.plain) : d \in good}
              /\ goal' = Purge((CHOOSE d \in good : TRUE).id)
              /\ UNCHANGED index

TakeDone(r) ==
  /\ Awaited(r, "purge") /\ goal' = List
  /\ UNCHANGED <<index, inbox, faults>>

(* The deadline passes; early, while the answer is still to come, or not.  *)
TimeOut(early) ==
  /\ asked # 0 /\ early = (asked \in InFlight)
  /\ early => MayFail
  /\ asked' = 0 /\ goal' = List
  /\ Goes(early)
  /\ UNCHANGED <<order, node, arrived, requests, responses, index, inbox>>

(* The host restarts with nothing but its inbox.                           *)
Restart ==
  /\ MayFail /\ Goes(TRUE)
  /\ asked' = 0 /\ goal' = List /\ index' = 0
  /\ UNCHANGED <<order, node, arrived, requests, responses, inbox>>

Hear(r) == Ignore(r) \/ TakeList(r) \/ TakeMessage(r, FALSE) \/ TakeDone(r)

Next ==
  \/ \E e \in Entries : Arrive(e)
  \/ Ask \/ Restart
  \/ \E r \in requests, refused \in BOOLEAN : Serve(r, refused)
  \/ \E m \in requests \cup responses : Lose(m)
  \/ \E r \in responses : Ignore(r) \/ TakeList(r) \/ TakeDone(r)
  \/ \E r \in responses, broken \in BOOLEAN : TakeMessage(r, broken)
  \/ \E early \in BOOLEAN : TimeOut(early)

Fairness ==
  /\ WF_vars(Ask)
  /\ WF_vars(\E r \in requests : Serve(r, FALSE))
  /\ WF_vars(\E r \in responses : Hear(r))
  /\ WF_vars(TimeOut(FALSE))

Spec == Init /\ [][Next]_vars /\ Fairness

-----------------------------------------------------------------------------
Legible == {e \in Entries : /\ e.dest = Me /\ e.size <= Limit
                            /\ e.key \in {Base} \cup {Ring[i] : i \in DOMAIN Ring}
                            /\ Len(e.plain) = Whole
                            /\ Validate(e.plain, e.plain[1]) = "ok"}
Stored(e) == Len(e.plain) = Whole /\ View(e.plain) \in inbox

(* The types; the host waits for at most one answer.                       *)
TypeOK ==
  /\ node \subseteq arrived /\ arrived \subseteq ToSet(order)
  /\ \A m \in requests : m.id \in 1 .. MaxInFlight /\ m.call.error = "ok"
  /\ \A m \in responses : m.id \in 1 .. MaxInFlight
  /\ goal.kind \in {"list", "fetch", "purge"}
  /\ goal.kind # "list" => goal.id \in {TransientId(e) : e \in arrived}
  /\ asked \in 0 .. MaxInFlight
  /\ index \in 0 .. Len(order)
  /\ inbox \subseteq {View(e.plain) : e \in Legible}
  /\ faults \in 0 .. MaxFaults

(* Whatever is lost, late, refused or interrupted, an entry that has left  *)
(* the node is in the durable inbox: a fetch deletes nothing, and no purge *)
(* overtakes the commit ("Fetch never includes haves").                    *)
NothingLost == \A e \in arrived : e \in node \/ Stored(e)

(* An answer is acted upon only by the request that asked for it, never by *)
(* a later one that waits while it arrives late.                           *)
AnswersTheQuestion ==
  [][\A r \in responses \ responses' : (asked # 0 /\ asked' = 0) => r.goal = goal]_vars

(* The host implements a mailbox: in particular an entry that cannot be    *)
(* read never keeps it from the others, wherever in the list it stands     *)
(* (available_at: "without ... allowing that entry to block all later      *)
(* messages"), and whatever is stored is purged in the end.                *)
Promise == INSTANCE Mailbox WITH waiting <- node, kept <- inbox,
             MessageIn <- [e \in Legible |-> View(e.plain)]
DeliversMail == Promise!FairMail
=============================================================================

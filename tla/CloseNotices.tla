---------------------------- MODULE CloseNotices ----------------------------
(***************************************************************************)
(* What OnCloseNotify, RemoveNotify and Close promise the users of a       *)
(* node's mailboxes, with no mutex, no loop over a list and no lookup: an  *)
(* address that is linked to a mailbox when that shuts, or asks once it is *)
(* on its way out, is due a notice; nobody else gets one; a notice reaches *)
(* its target unless that is on its way out too, and no mailbox accepts    *)
(* one after it was shut.  CloseNotify.tla is shown to implement it.       *)
(***************************************************************************)
CONSTANTS Mailboxes

VARIABLES
  phase,   \* of each mailbox: open, closing (Close has begun) or closed
  links,   \* the mailboxes that are to be told when each one shuts
  due,     \* the notices to be given: <<a, t>> when t is to be told of a
  told     \* the mailboxes each one was told of

vars == <<phase, links, due, told>>

Init ==
  /\ phase = [a \in Mailboxes |-> "open"]
  /\ links = [a \in Mailboxes |-> {}]
  /\ due = {}
  /\ told = [a \in Mailboxes |-> {}]

\* a.OnCloseNotify(t), in time.
Link(a, t) ==
  /\ phase[a] # "closed"
  /\ links' = [links EXCEPT ![a] = @ \cup {t}]
  /\ UNCHANGED <<phase, due, told>>

\* a.OnCloseNotify(t), when the lookup finds a gone, or the call finds it closed.
AskLate(a, t) ==
  /\ phase[a] # "open"
  /\ due' = due \cup {<<a, t>>}
  /\ UNCHANGED <<phase, links, told>>

\* a.RemoveNotify(t)
Unlink(a, t) ==
  /\ phase[a] # "closed"
  /\ links' = [links EXCEPT ![a] = @ \ {t}]
  /\ UNCHANGED <<phase, due, told>>

\* a.Close() begins ...
Leave(a) ==
  /\ phase[a] = "open"
  /\ phase' = [phase EXCEPT ![a] = "closing"]
  /\ UNCHANGED <<links, due, told>>

\* ... and shuts the mailbox: from here on the links are notices.
Shut(a) ==
  /\ phase[a] = "closing"
  /\ phase' = [phase EXCEPT ![a] = "closed"]
  /\ due' = due \cup {a} \X links[a]
  /\ links' = [links EXCEPT ![a] = {}]
  /\ UNCHANGED told

\* The notice is given; it stays due if it was asked for more than once.
Settle(a, t) ==
  /\ <<a, t>> \in due
  /\ due' \in {due, due \ {<<a, t>>}}
  /\ UNCHANGED <<phase, links>>

Tell(a, t) ==
  /\ Settle(a, t)
  /\ phase[t] # "closed"
  /\ told' = [told EXCEPT ![t] = @ \cup {a}]

\* Nobody is there to accept it.
Miss(a, t) ==
  /\ Settle(a, t)
  /\ phase[t] # "open"
  /\ UNCHANGED told

Next ==
  \/ \E a, t \in Mailboxes : Link(a, t) \/ AskLate(a, t) \/ Unlink(a, t) \/ Tell(a, t) \/ Miss(a, t)
  \/ \E a \in Mailboxes : Leave(a) \/ Shut(a)

Spec == Init /\ [][Next]_vars
=============================================================================

------------------------------ MODULE Addresses ------------------------------
(***************************************************************************)
(* Addresses of the mailboxes of one node (MailboxTable): what an Address  *)
(* carries when it is marshalled and unmarshalled, on this node or another *)
(* one, by whom it is resolved, what it caches, and where a message sent   *)
(* to it arrives.                                                          *)
(*                                                                         *)
(* The text of an address is its two numbers; what they are written with,  *)
(* and the variable-length number of the binary form, is left out: ten     *)
(* bytes hold every 64-bit ID, and no counter of an ID reaches the limit   *)
(* of the text form, 2^56.                                                 *)
(***************************************************************************)
EXTENDS MailboxTable, FiniteSets

CONSTANTS
  Slots,   \* the variables of type Address the program has
  Home,    \* the ID of the node of the table
  Nodes,   \* the nodes of the cluster
  OldIDs   \* IDs that were written down in an earlier execution of Home

VARIABLES
  held,   \* of each variable, the address in it
  failed  \* history: the variables whose address was used at Home and led nowhere

avars == <<vars, held, failed>>

-----------------------------------------------------------------------------
(* MailboxID *)

NodeID(mID) == mID % 256
mailboxOnlyID(mID) == mID \div 256
MakeID(num, node) == num * 256 + node

ASSUME AddressesAssumption ==
  /\ Home \in Nodes /\ Nodes \subseteq 0..255
  /\ OldIDs \subseteq Nat /\ \A i \in OldIDs : NodeID(i) = Home

\* The ID newLocalMailbox gives to mailbox b.
IDOf(b) == MakeID(idOf[b], Home)

-----------------------------------------------------------------------------
(* Address.  target, which the code does not have, is the mailbox the address was
   made for, 0 if it does not stem from one of this execution.  mailbox is what
   the field caches: nothing, a *Mailbox (which: box), a boundRemoteAddress, the
   *noMailbox of getAddress, or the noMailbox of an unmarshalled X. *)

Caches == {"nil", "*Mailbox", "boundRemoteAddress", "*noMailbox", "noMailbox"}

Address(target, node, mID, cache, box) ==
  [target |-> target, node |-> node, mailboxID |-> mID, mailbox |-> cache, box |-> box]

Unresolved(target, node, mID) == Address(target, node, mID, "nil", 0)

\* A variable nobody has set, as good as an unmarshalled X.
X(node) == Address(0, node, 0, "noMailbox", 0)

Addresses == [target : Nat, node : Nodes, mailboxID : Nat, mailbox : Caches, box : Nat]

\* mailboxByID, by a node that knows the ID is its own: the table is Home's, the
\* other nodes have no mailboxes here.
Lookup(node, mID) == IF node = Home THEN mailboxByID(mailboxOnlyID(mID)) ELSE {}

\* Seeded fault for Resolved: a mailbox that is not found is looked for again.
ResolvedAgain(a) ==
  CASE a.mailbox # "nil" -> a
    [] a.mailbox = "nil" /\ NodeID(a.mailboxID) # a.node -> [a EXCEPT !.mailbox = "boundRemoteAddress"]
    [] OTHER -> IF Lookup(a.node, a.mailboxID) = {} THEN a
                ELSE [a EXCEPT !.mailbox = "*Mailbox",
                               !.box = CHOOSE b \in Lookup(a.node, a.mailboxID) : TRUE]

\* getAddress; it panics when the node is not defined.
CanResolve(a) == a.mailbox # "nil" \/ NodeID(a.mailboxID) \in Nodes

Resolved(a) ==
  CASE a.mailbox # "nil" -> a
    [] a.mailbox = "nil" /\ NodeID(a.mailboxID) # a.node -> [a EXCEPT !.mailbox = "boundRemoteAddress"]
    [] OTHER -> IF Lookup(a.node, a.mailboxID) = {} THEN [a EXCEPT !.mailbox = "*noMailbox"]
                ELSE [a EXCEPT !.mailbox = "*Mailbox",
                               !.box = CHOOSE b \in Lookup(a.node, a.mailboxID) : TRUE]

\* Where a message sent to address a arrives: at the mailbox cached, unless it is
\* closed, or at the one Home finds.
Reaches(a) ==
  CASE a.mailbox = "*Mailbox" -> {a.box} \cap open
    [] a.mailbox \in {"*noMailbox", "noMailbox"} -> {}
    [] OTHER -> IF NodeID(a.mailboxID) = Home THEN Lookup(Home, a.mailboxID) ELSE {}

-----------------------------------------------------------------------------
(* Encodings: the two numbers, or X.  In JSON an X has no quotes and is refused by
   the encoder.  A *noMailbox is none of the cases of the Marshal methods. *)

Marshals(a, format) ==
  \/ a.mailbox \in {"*Mailbox", "boundRemoteAddress"}
  \/ a.mailbox = "noMailbox" /\ format # "JSON"

MarshalledID(a) == IF a.mailbox = "*Mailbox" THEN IDOf(a.box) ELSE a.mailboxID

\* Seeded fault for UnmarshalText: the number is not shifted.
UnmarshalTextUnshifted(node, num) == num + node

UnmarshalText(node, num) == MakeID(num, node)

UnmarshalledID(mID, format) ==
  IF format = "binary" THEN mID ELSE UnmarshalText(NodeID(mID), mailboxOnlyID(mID))

-----------------------------------------------------------------------------
AddressInit ==
  /\ Init
  /\ held \in [Slots -> {X(node) : node \in Nodes}]
  /\ failed = {}

\* newLocalMailbox returns the address of the mailbox, its cache filled.
Hold(s, b) ==
  /\ held' = [held EXCEPT ![s] = Address(b, Home, IDOf(b), "*Mailbox", b)]
  /\ failed' = failed \ {s}
  /\ UNCHANGED vars

\* An address an earlier execution wrote down is read.
ReadOld(s, node, mID) ==
  /\ held' = [held EXCEPT ![s] = Unresolved(0, node, mID)]
  /\ failed' = failed \ {s}
  /\ UNCHANGED vars

\* Send and every other method resolve the address and keep the result.
Use(s) ==
  /\ CanResolve(held[s])
  /\ held' = [held EXCEPT ![s] = Resolved(held[s])]
  /\ failed' = IF held[s].node = Home /\ Reaches(Resolved(held[s])) = {}
               THEN failed \cup {s} ELSE failed
  /\ UNCHANGED vars

\* The address in s is marshalled, and unmarshalled into t at a node: nil is cached
\* there, except for an X.  Or the marshalling fails.
Pass(s, t, node, format) ==
  /\ CanResolve(held[s])
  /\ LET a == Resolved(held[s])
         copy == IF a.mailbox = "noMailbox" THEN X(node)
                 ELSE Unresolved(a.target, node, UnmarshalledID(MarshalledID(a), format))
     IN IF Marshals(a, format)
          THEN held' = [held EXCEPT ![s] = a, ![t] = copy] /\ failed' = failed \ {t}
          ELSE held' = [held EXCEPT ![s] = a] /\ UNCHANGED failed
  /\ UNCHANGED vars

\* UnmarshalFromID, with the ID of another address.
UnmarshalFromID(s, t) ==
  /\ held' = [held EXCEPT ![t] = Unresolved(held[s].target, held[t].node, held[s].mailboxID)]
  /\ failed' = failed \ {t}
  /\ UNCHANGED vars

AddressNext ==
  \/ Next /\ UNCHANGED <<held, failed>>
  \/ \E s \in Slots :
       \/ \E b \in DOMAIN idOf : Hold(s, b)
       \/ \E node \in Nodes, mID \in OldIDs : ReadOld(s, node, mID)
       \/ Use(s)
       \/ \E t \in Slots \ {s} :
            \/ UnmarshalFromID(s, t)
            \/ \E node \in Nodes, format \in {"text", "binary", "JSON"} : Pass(s, t, node, format)

AddressSpec == AddressInit /\ [][AddressNext]_avars

-----------------------------------------------------------------------------
\* What an address carries and caches is true: of the mailbox it was made for, the
\* ID; in a cache, a mailbox of that ID, or none if that mailbox was closed.
Truthful(a) ==
  /\ a.target \in {0} \cup DOMAIN idOf
  /\ a.target # 0 => a.mailboxID = IDOf(a.target) /\ a.mailbox # "noMailbox"
  /\ a.mailbox = "*Mailbox" =>
       a.box \in DOMAIN idOf /\ a.mailboxID = IDOf(a.box) /\ a.target \in {0, a.box}
  /\ a.mailbox = "*noMailbox" => a.target \notin open
  /\ a.mailbox = "boundRemoteAddress" => NodeID(a.mailboxID) # a.node

\* Every address the program has is truthful, and one that was used is resolved.
AddressInv ==
  /\ held \in [Slots -> Addresses]
  /\ \A s \in Slots : Truthful(held[s])
  /\ failed \subseteq Slots
  /\ \A s \in failed : held[s].node = Home /\ held[s].mailbox # "nil"

\* Through however many nodes and encodings an address went, and whenever it is
\* resolved, what is sent to it arrives at the mailbox it was made for as long as
\* that is open, and nowhere else or later.
DeliveryIsExact == \A s \in Slots : held[s].target # 0 =>
  Reaches(held[s]) = IF held[s].target \in open THEN {held[s].target} ELSE {}

\* An address that led nowhere when it was used will never lead anywhere: "this
\* should not 'magically' turn into a mailbox" (mailbox.go:823-827), even if it is of
\* an earlier execution and its ID is given out again.
DeadStaysDead == \A s \in failed : Reaches(held[s]) = {}
=============================================================================

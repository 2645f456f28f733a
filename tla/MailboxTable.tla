---------------------------- MODULE MailboxTable ----------------------------
(***************************************************************************)
(* The table of the mailboxes of one node: how newLocalMailbox makes an ID *)
(* and registers a mailbox under it, how Close takes it out, and what a    *)
(* lookup by ID finds.                                                     *)
(*                                                                         *)
(* newLocalMailbox adds one to nextMailboxID twice: atomically, for the    *)
(* ID, and then with a plain ++, which is a load and a store that other    *)
(* creators can come between.  The ID is the counter shifted left by eight *)
(* bits plus the number of the node; the shift is left out, it maps        *)
(* different counters to different IDs.                                    *)
(***************************************************************************)
EXTENDS Naturals, Sequences

CONSTANTS
  Creators,   \* goroutines that create mailboxes
  Serial,     \* whether the program lets only one of them create at a time
  MaxBoxes    \* bound: mailboxes created

ASSUME TableAssumption == Serial \in BOOLEAN /\ MaxBoxes \in Nat

VARIABLES
  nextMailboxID,
  mailboxes,  \* ID -> the mailbox registered under it: its place in idOf
  idOf,       \* the ID of each mailbox, in the order they were registered
  open,       \* the mailboxes nobody closed
  pc,         \* where each creator is
  id,         \* the ID it took
  read        \* what its ++ loaded

vars == <<nextMailboxID, mailboxes, idOf, open, pc, id, read>>

Labels == {"idle", "load", "store", "register"}

TypeOK ==
  /\ nextMailboxID \in Nat
  /\ idOf \in Seq(Nat)
  /\ DOMAIN mailboxes \subseteq Nat
  /\ mailboxes \in [DOMAIN mailboxes -> DOMAIN idOf]
  /\ open \subseteq DOMAIN idOf
  /\ pc \in [Creators -> Labels]
  /\ id \in [Creators -> Nat]
  /\ read \in [Creators -> Nat]

Init ==
  /\ nextMailboxID = 1
  /\ mailboxes = <<>>
  /\ idOf = <<>>
  /\ open = {}
  /\ pc = [c \in Creators |-> "idle"]
  /\ id = [c \in Creators |-> 0]
  /\ read = [c \in Creators |-> 0]

-----------------------------------------------------------------------------
(* newLocalMailbox *)

\* Seeded fault for Add: numbers IDs by the mailboxes registered now.
AddBySize(c) ==
  /\ pc[c] = "idle"
  /\ Serial => \A d \in Creators : pc[d] = "idle"
  /\ Len(idOf) < MaxBoxes
  /\ \E n \in 0..MaxBoxes :
       /\ n \notin DOMAIN mailboxes /\ \A k \in 0..n - 1 : k \in DOMAIN mailboxes
       /\ id' = [id EXCEPT ![c] = n]
  /\ pc' = [pc EXCEPT ![c] = "load"]
  /\ UNCHANGED <<nextMailboxID, mailboxes, idOf, open, read>>

\* atomic.AddUint64(&m.nextMailboxID, 1)
Add(c) ==
  /\ pc[c] = "idle"
  /\ Serial => \A d \in Creators : pc[d] = "idle"
  /\ Len(idOf) < MaxBoxes
  /\ nextMailboxID' = nextMailboxID + 1
  /\ id' = [id EXCEPT ![c] = nextMailboxID + 1]
  /\ pc' = [pc EXCEPT ![c] = "load"]
  /\ UNCHANGED <<mailboxes, idOf, open, read>>

\* m.nextMailboxID++: the load ...
Load(c) ==
  /\ pc[c] = "load"
  /\ read' = [read EXCEPT ![c] = nextMailboxID]
  /\ pc' = [pc EXCEPT ![c] = "store"]
  /\ UNCHANGED <<nextMailboxID, mailboxes, idOf, open, id>>

\* ... and the store.
Store(c) ==
  /\ pc[c] = "store"
  /\ nextMailboxID' = read[c] + 1
  /\ pc' = [pc EXCEPT ![c] = "register"]
  /\ UNCHANGED <<mailboxes, idOf, open, id, read>>

\* registerMailbox: an entry of the same ID is overwritten.
Register(c) ==
  /\ pc[c] = "register"
  /\ idOf' = Append(idOf, id[c])
  /\ mailboxes' = [i \in DOMAIN mailboxes \cup {id[c]} |->
                     IF i = id[c] THEN Len(idOf) + 1 ELSE mailboxes[i]]
  /\ open' = open \cup {Len(idOf) + 1}
  /\ pc' = [pc EXCEPT ![c] = "idle"]
  /\ UNCHANGED <<nextMailboxID, id, read>>

-----------------------------------------------------------------------------
\* Close of a mailbox, for the first time or again: unregisterMailbox deletes
\* whatever is registered under its ID.
Close(b) ==
  /\ b \in DOMAIN idOf
  /\ open' = open \ {b}
  /\ mailboxes' = [i \in DOMAIN mailboxes \ {idOf[b]} |-> mailboxes[i]]
  /\ UNCHANGED <<nextMailboxID, idOf, pc, id, read>>

Create(c) == Add(c) \/ Load(c) \/ Store(c) \/ Register(c)

Next == (\E c \in Creators : Create(c)) \/ (\E b \in DOMAIN idOf : Close(b))

Spec == Init /\ [][Next]_vars

-----------------------------------------------------------------------------
(* What the table promises *)

\* mailboxByID: the mailboxes a lookup of ID i returns, at most one.
mailboxByID(i) == IF i \in DOMAIN mailboxes THEN {mailboxes[i]} ELSE {}

\* However many were created and closed, and closed again, in between, the ID of
\* an open mailbox leads to that mailbox, and an ID kept from a closed one leads
\* nowhere, never to a mailbox created later.
LookupIsExact == \A b \in DOMAIN idOf :
  mailboxByID(idOf[b]) = IF b \in open THEN {b} ELSE {}

\* mailbox.go:465, "it is an error to call this with the same mID more than once":
\* no two mailboxes are registered under one ID.
IDsAreUnique == \A b, d \in DOMAIN idOf : idOf[b] = idOf[d] => b = d

-----------------------------------------------------------------------------
\* An entry of the table leads to a mailbox that has its ID.
EntriesAreTrue == \A i \in DOMAIN mailboxes : idOf[mailboxes[i]] = i

\* The counter is past every ID in use; a creator at work has one of its own.
CounterAhead ==
  /\ \A b \in DOMAIN idOf : idOf[b] <= nextMailboxID
  /\ \A c \in Creators : pc[c] # "idle" =>
       /\ id[c] <= nextMailboxID
       /\ \A b \in DOMAIN idOf : idOf[b] < id[c]
       /\ \A d \in Creators \ {c} : pc[d] = "idle"
       /\ pc[c] = "store" => read[c] = nextMailboxID

TableInv == TypeOK /\ LookupIsExact /\ IDsAreUnique /\ EntriesAreTrue /\ CounterAhead
=============================================================================

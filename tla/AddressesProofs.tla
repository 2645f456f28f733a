--------------------------- MODULE AddressesProofs ---------------------------
(***************************************************************************)
(* An address reaches the mailbox it was made for, however often it was    *)
(* marshalled, unmarshalled and resolved, on whatever nodes, as long as    *)
(* that mailbox is open, and nothing afterwards.  The argument: the table  *)
(* is exact, an encoding keeps the ID, and a cache is                      *)
(* filled with what the table has under that ID.                           *)
(***************************************************************************)
EXTENDS Addresses, TLAPS

-----------------------------------------------------------------------------
(* The table.  Between two creations the counter is past every ID in use, and a
   creator at work is alone, so that its ++ loses no other's addition. *)

\* Initially there is no mailbox.
LEMMA TableInit == Init => TableInv
  BY DEF Init, TableInv, TypeOK, LookupIsExact, IDsAreUnique, EntriesAreTrue, CounterAhead, Labels

\* Every step of a node whose creators take turns keeps the invariant.
LEMMA TableStep ==
  ASSUME Serial
  PROVE  TableInv /\ [Next]_vars => TableInv'
<1> SUFFICES ASSUME TableInv, [Next]_vars PROVE TableInv'
  OBVIOUS
<1>0. TypeOK /\ LookupIsExact /\ IDsAreUnique /\ EntriesAreTrue /\ CounterAhead
  BY DEF TableInv
<1>1. ASSUME NEW c \in Creators, Add(c) PROVE TableInv'
  <2>1. TypeOK'
    BY <1>0, <1>1 DEF Add, TypeOK, Labels
  <2>2. LookupIsExact' /\ IDsAreUnique' /\ EntriesAreTrue'
    BY <1>0, <1>1 DEF Add, LookupIsExact, IDsAreUnique, EntriesAreTrue, mailboxByID
  <2>3. CounterAhead'
    BY <1>0, <1>1 DEF Add, TypeOK, CounterAhead
  <2> QED BY <2>1, <2>2, <2>3 DEF TableInv
<1>2. ASSUME NEW c \in Creators, Load(c) PROVE TableInv'
  <2>1. TypeOK'
    BY <1>0, <1>2 DEF Load, TypeOK, Labels
  <2>2. LookupIsExact' /\ IDsAreUnique' /\ EntriesAreTrue'
    BY <1>0, <1>2 DEF Load, LookupIsExact, IDsAreUnique, EntriesAreTrue, mailboxByID
  <2>3. CounterAhead'
    BY <1>0, <1>2 DEF Load, TypeOK, CounterAhead
  <2> QED BY <2>1, <2>2, <2>3 DEF TableInv
<1>3. ASSUME NEW c \in Creators, Store(c) PROVE TableInv'
  <2>1. /\ nextMailboxID' = nextMailboxID + 1
        /\ pc' = [pc EXCEPT ![c] = "register"] /\ pc[c] = "store"
        /\ UNCHANGED <<mailboxes, idOf, open, id, read>>
    BY <1>0, <1>3 DEF Store, CounterAhead
  <2>2. TypeOK'
    BY <1>0, <2>1 DEF TypeOK, Labels
  <2>3. LookupIsExact' /\ IDsAreUnique' /\ EntriesAreTrue'
    BY <1>0, <2>1 DEF LookupIsExact, IDsAreUnique, EntriesAreTrue, mailboxByID
  <2>4. CounterAhead'
    BY <1>0, <2>1 DEF TypeOK, CounterAhead
  <2> QED BY <2>2, <2>3, <2>4 DEF TableInv
<1>4. ASSUME NEW c \in Creators, Register(c) PROVE TableInv'
  <2> DEFINE n == Len(idOf) + 1
  <2>1. /\ idOf' = Append(idOf, id[c])
        /\ mailboxes' = [i \in DOMAIN mailboxes \cup {id[c]} |->
                           IF i = id[c] THEN n ELSE mailboxes[i]]
        /\ open' = open \cup {n}
        /\ pc' = [pc EXCEPT ![c] = "idle"] /\ pc[c] = "register"
        /\ UNCHANGED <<nextMailboxID, id, read>>
    BY <1>4 DEF Register
  <2>2. /\ DOMAIN idOf = 1..(n - 1) /\ n \in Nat
        /\ DOMAIN idOf' = 1..n
        /\ \A b \in 1..(n - 1) : idOf'[b] = idOf[b] /\ idOf[b] \in Nat
        /\ idOf'[n] = id[c] /\ id[c] \in Nat /\ idOf' \in Seq(Nat)
    BY <1>0, <2>1 DEF TypeOK
  <2>3. \A b \in 1..(n - 1) : idOf[b] # id[c]
    BY <1>0, <2>1, <2>2 DEF CounterAhead
  <2>4. TypeOK'
    <3>1. mailboxes' \in [DOMAIN mailboxes' -> DOMAIN idOf'] /\ DOMAIN mailboxes' \subseteq Nat
      BY <1>0, <2>1, <2>2 DEF TypeOK
    <3> QED BY <1>0, <3>1, <2>1, <2>2 DEF TypeOK, Labels
  <2>5. IDsAreUnique'
    <3> SUFFICES ASSUME NEW b \in 1..n, NEW d \in 1..n, idOf'[b] = idOf'[d]
                 PROVE  b = d
      BY <2>2 DEF IDsAreUnique
    <3>1. CASE b = n \/ d = n
      BY <3>1, <2>2, <2>3
    <3>2. CASE b # n /\ d # n
      <4>1. b \in DOMAIN idOf /\ d \in DOMAIN idOf /\ idOf[b] = idOf[d]
        BY <3>2, <2>2
      <4> QED BY <4>1, <1>0 DEF IDsAreUnique
    <3> QED BY <3>1, <3>2
  <2>6. LookupIsExact'
    <3> SUFFICES ASSUME NEW b \in DOMAIN idOf'
                 PROVE  mailboxByID(idOf[b])' = IF b \in open' THEN {b} ELSE {}
      BY DEF LookupIsExact
    <3>0. DOMAIN mailboxes' = DOMAIN mailboxes \cup {id[c]}
      BY <2>1
    <3>1. CASE b = n
      <4>1. idOf'[b] = id[c] /\ mailboxes'[id[c]] = n /\ n \in open'
        BY <3>1, <2>1, <2>2
      <4> QED BY <4>1, <3>1, <3>0 DEF mailboxByID
    <3>2. CASE b # n
      <4>1. /\ b \in DOMAIN idOf /\ idOf'[b] = idOf[b] /\ idOf[b] # id[c]
            /\ b \in open' <=> b \in open
        BY <3>2, <2>1, <2>2, <2>3
      <4>2. /\ idOf[b] \in DOMAIN mailboxes' <=> idOf[b] \in DOMAIN mailboxes
            /\ idOf[b] \in DOMAIN mailboxes => mailboxes'[idOf[b]] = mailboxes[idOf[b]]
        BY <4>1, <3>0, <2>1
      <4>3. mailboxByID(idOf[b])' = mailboxByID(idOf[b])
        BY <4>1, <4>2 DEF mailboxByID
      <4> QED BY <4>1, <4>3, <1>0 DEF LookupIsExact
    <3> QED BY <3>1, <3>2
  <2>7. CounterAhead'
    BY <1>0, <2>1, <2>2 DEF CounterAhead, TypeOK
  <2>8. EntriesAreTrue'
    <3> SUFFICES ASSUME NEW i \in DOMAIN mailboxes' PROVE idOf'[mailboxes'[i]] = i
      BY DEF EntriesAreTrue
    <3>1. CASE i = id[c]
      BY <3>1, <2>1, <2>2
    <3>2. CASE i # id[c]
      <4>1. i \in DOMAIN mailboxes /\ mailboxes'[i] = mailboxes[i] /\ mailboxes[i] \in 1..(n - 1)
        BY <3>2, <2>1, <2>2, <1>0 DEF TypeOK
      <4> QED BY <4>1, <2>2, <1>0 DEF EntriesAreTrue
    <3> QED BY <3>1, <3>2
  <2> QED BY <2>4, <2>5, <2>6, <2>7, <2>8 DEF TableInv
<1>5. ASSUME NEW b \in DOMAIN idOf, Close(b) PROVE TableInv'
  <2>1. TypeOK'
    BY <1>0, <1>5 DEF Close, TypeOK
  <2>2. IDsAreUnique' /\ EntriesAreTrue' /\ CounterAhead'
    BY <1>0, <1>5 DEF Close, IDsAreUnique, EntriesAreTrue, CounterAhead
  <2>3. LookupIsExact'
    BY <1>0, <1>5 DEF Close, TypeOK, LookupIsExact, IDsAreUnique, mailboxByID
  <2> QED BY <2>1, <2>2, <2>3 DEF TableInv
<1>6. CASE UNCHANGED vars
  BY <1>0, <1>6 DEF vars, TableInv, TypeOK, LookupIsExact, IDsAreUnique, EntriesAreTrue, CounterAhead, mailboxByID
<1> QED BY <1>1, <1>2, <1>3, <1>4, <1>5, <1>6 DEF Next, Create

\* The invariant of a node whose creators take turns.
THEOREM TableInvariant ==
  ASSUME Serial
  PROVE  Spec => []TableInv
<1>1. Init => TableInv
  BY TableInit
<1>2. TableInv /\ [Next]_vars => TableInv'
  BY TableStep
<1> QED BY <1>1, <1>2, PTL DEF Spec

\* mailboxByID (mailbox.go:488-502): the ID of an open mailbox leads to it, that
\* of a closed one nowhere, when creators take turns.
THEOREM LookupsAreExact ==
  ASSUME Serial
  PROVE  Spec => []LookupIsExact
<1>1. TableInv => LookupIsExact
  BY DEF TableInv
<1> QED BY <1>1, TableInvariant, PTL

-----------------------------------------------------------------------------
(* Addresses *)

Formats == {"text", "binary", "JSON"}

\* An ID is a counter and a node, and neither gets lost in it.
LEMMA IDIsExact ==
  ASSUME NEW num \in Nat, NEW node \in 0..255
  PROVE  /\ MakeID(num, node) \in Nat
         /\ NodeID(MakeID(num, node)) = node
         /\ mailboxOnlyID(MakeID(num, node)) = num
  BY DEF MakeID, NodeID, mailboxOnlyID

\* The two numbers of the text form make the ID again.
LEMMA IDParts ==
  ASSUME NEW mID \in Nat
  PROVE  /\ NodeID(mID) \in 0..255 /\ mailboxOnlyID(mID) \in Nat
         /\ MakeID(mailboxOnlyID(mID), NodeID(mID)) = mID
  BY DEF MakeID, NodeID, mailboxOnlyID

\* MarshalText, MarshalBinary, MarshalJSON and their inverses (mailbox.go:219-402):
\* every format brings back the ID it was given.
THEOREM EncodingsAreExact ==
  ASSUME NEW mID \in Nat, NEW format \in Formats
  PROVE  UnmarshalledID(mID, format) = mID
  BY IDParts DEF UnmarshalledID, UnmarshalText

\* The IDs of the mailboxes of Home.
LEMMA IDOfMailbox ==
  ASSUME TypeOK, NEW b \in DOMAIN idOf
  PROVE  IDOf(b) \in Nat /\ NodeID(IDOf(b)) = Home /\ mailboxOnlyID(IDOf(b)) = idOf[b]
<1>1. idOf[b] \in Nat /\ Home \in 0..255
  BY AddressesAssumption DEF TypeOK
<1> QED BY <1>1, IDIsExact DEF IDOf

\* What Home finds under an ID has that ID.
LEMMA LookupFinds ==
  ASSUME TableInv, NEW mID \in Nat, NodeID(mID) = Home, NEW b \in Lookup(Home, mID)
  PROVE  /\ b \in DOMAIN idOf /\ IDOf(b) = mID
         /\ Lookup(Home, mID) = {b}
<1>1. mailboxOnlyID(mID) \in DOMAIN mailboxes /\ b = mailboxes[mailboxOnlyID(mID)]
  BY DEF Lookup, mailboxByID
<1>2. b \in DOMAIN idOf /\ idOf[b] = mailboxOnlyID(mID)
  BY <1>1 DEF TableInv, TypeOK, EntriesAreTrue
<1>3. IDOf(b) = mID
  BY <1>2, IDParts DEF IDOf
<1> QED BY <1>1, <1>2, <1>3 DEF Lookup, mailboxByID

\* Home finds exactly the open mailboxes of this execution.
LEMMA LookupOfTarget ==
  ASSUME TableInv, NEW b \in DOMAIN idOf
  PROVE  Lookup(Home, IDOf(b)) = IF b \in open THEN {b} ELSE {}
  BY IDOfMailbox DEF TableInv, LookupIsExact, Lookup

\* A truthful address reaches its mailbox, or nothing when that is closed.
LEMMA TruthfulDelivers ==
  ASSUME TableInv, NEW a \in Addresses, Truthful(a), a.target # 0
  PROVE  Reaches(a) = IF a.target \in open THEN {a.target} ELSE {}
<1>1. a.target \in DOMAIN idOf /\ a.mailboxID = IDOf(a.target) /\ NodeID(a.mailboxID) = Home
  BY IDOfMailbox DEF Truthful, TableInv
<1>2. CASE a.mailbox = "*Mailbox"
  BY <1>1, <1>2 DEF Truthful, Reaches
<1>3. CASE a.mailbox = "*noMailbox"
  BY <1>1, <1>3 DEF Truthful, Reaches
<1>4. CASE a.mailbox \in {"nil", "boundRemoteAddress"}
  BY <1>1, <1>4, LookupOfTarget DEF Reaches
<1>5. a.mailbox # "noMailbox" /\ a.mailbox \in Caches
  BY DEF Truthful, Addresses
<1> QED BY <1>2, <1>3, <1>4, <1>5 DEF Caches

\* getAddress (mailbox.go:109-160) keeps an address truthful.
LEMMA ResolvedIsTruthful ==
  ASSUME TableInv, NEW a \in Addresses, Truthful(a)
  PROVE  /\ Resolved(a) \in Addresses /\ Truthful(Resolved(a))
         /\ Resolved(a).mailbox # "nil"
         /\ Resolved(a).target = a.target /\ Resolved(a).node = a.node
         /\ Resolved(a).mailboxID = a.mailboxID
<1>1. CASE a.mailbox # "nil"
  BY <1>1 DEF Resolved
<1>2. CASE a.mailbox = "nil" /\ NodeID(a.mailboxID) # a.node
  BY <1>2 DEF Resolved, Truthful, Addresses, Caches
<1>3. CASE a.mailbox = "nil" /\ NodeID(a.mailboxID) = a.node /\ Lookup(a.node, a.mailboxID) = {}
  <2>1. Resolved(a) = [a EXCEPT !.mailbox = "*noMailbox"]
    BY <1>3 DEF Resolved
  <2>2. a.target \notin open
    <3>1. CASE a.target = 0
      BY <3>1 DEF TableInv, TypeOK
    <3>2. CASE a.target # 0
      <4>1. a.target \in DOMAIN idOf /\ a.mailboxID = IDOf(a.target)
        BY <3>2 DEF Truthful
      <4>2. a.node = Home
        BY <4>1, <1>3, IDOfMailbox DEF TableInv
      <4> QED BY <4>1, <4>2, <1>3, LookupOfTarget
    <3> QED BY <3>1, <3>2
  <2> QED BY <1>3, <2>1, <2>2 DEF Truthful, Addresses, Caches
<1>4. CASE a.mailbox = "nil" /\ NodeID(a.mailboxID) = a.node /\ Lookup(a.node, a.mailboxID) # {}
  <2> DEFINE b == CHOOSE x \in Lookup(a.node, a.mailboxID) : TRUE
  <2>1. Resolved(a) = [a EXCEPT !.mailbox = "*Mailbox", !.box = b]
    BY <1>4 DEF Resolved
  <2>2. a.node = Home /\ b \in Lookup(Home, a.mailboxID) /\ a.mailboxID \in Nat
    BY <1>4 DEF Lookup, Addresses
  <2> HIDE DEF b
  <2>3. b \in DOMAIN idOf /\ IDOf(b) = a.mailboxID /\ Lookup(Home, a.mailboxID) = {b}
    BY <2>2, <1>4, LookupFinds
  <2>4. a.target \in {0, b}
    <3> SUFFICES ASSUME a.target # 0 PROVE a.target = b
      OBVIOUS
    <3>1. a.target \in DOMAIN idOf /\ a.mailboxID = IDOf(a.target)
      BY DEF Truthful
    <3> QED BY <3>1, <2>3, LookupOfTarget
  <2>5. b \in Nat
    BY <2>3 DEF TableInv, TypeOK
  <2> QED BY <1>4, <2>1, <2>3, <2>4, <2>5 DEF Truthful, Addresses, Caches
<1> QED BY <1>1, <1>2, <1>3, <1>4

-----------------------------------------------------------------------------
IInv == TableInv /\ AddressInv /\ DeadStaysDead

\* At the start all variables hold addresses of nothing.
LEMMA AddressesInit == AddressInit => IInv
<1> SUFFICES ASSUME AddressInit PROVE IInv
  OBVIOUS
<1>1. TableInv
  BY TableInit DEF AddressInit
<1>2. AddressInv
  BY DEF AddressInit, AddressInv, Addresses, Truthful, X, Address, Caches
<1>3. DeadStaysDead
  BY DEF AddressInit, DeadStaysDead
<1> QED BY <1>1, <1>2, <1>3 DEF IInv

\* Mailboxes keep their IDs, and only new ones get open.
MailboxesLast ==
  /\ \A b \in DOMAIN idOf : b \in DOMAIN idOf' /\ idOf'[b] = idOf[b]
  /\ \A b \in open' : b \in open \/ b \notin DOMAIN idOf
  /\ 0 \notin open'

\* Mailboxes come and go: no address gets untrue by that, and none that leads
\* nowhere gets a mailbox.
LEMMA TableStepKeepsAddresses ==
  ASSUME Serial, IInv, Next, UNCHANGED <<held, failed>>
  PROVE  IInv'
<1>0. TableInv /\ AddressInv /\ DeadStaysDead /\ TypeOK
  BY DEF IInv, TableInv
<1>1. TableInv'
  BY <1>0, TableStep
<1>2. MailboxesLast
  <2>1. ASSUME NEW c \in Creators, Create(c) PROVE MailboxesLast
    <3>1. CASE Add(c) \/ Load(c) \/ Store(c)
      BY <3>1, <1>0 DEF Add, Load, Store, TypeOK, MailboxesLast
    <3>2. CASE Register(c)
      <4>1. /\ idOf \in Seq(Nat) /\ id[c] \in Nat
            /\ idOf' = Append(idOf, id[c]) /\ open' = open \cup {Len(idOf) + 1}
            /\ open \subseteq DOMAIN idOf
        BY <3>2, <1>0 DEF Register, TypeOK
      <4>2. /\ DOMAIN idOf = 1..Len(idOf) /\ DOMAIN idOf' = 1..(Len(idOf) + 1) /\ Len(idOf) \in Nat
            /\ \A b \in 1..Len(idOf) : idOf'[b] = idOf[b]
        BY <4>1
      <4> QED BY <4>1, <4>2 DEF MailboxesLast
    <3> QED BY <2>1, <3>1, <3>2 DEF Create
  <2>2. ASSUME NEW b \in DOMAIN idOf, Close(b) PROVE MailboxesLast
    BY <2>2, <1>0 DEF Close, TypeOK, MailboxesLast
  <2> QED BY <2>1, <2>2 DEF Next
<1>3. \A b \in DOMAIN idOf : IDOf(b)' = IDOf(b)
  BY <1>2 DEF IDOf, MailboxesLast
<1>4. ASSUME NEW s \in Slots PROVE Truthful(held[s])'
  <2>1. Truthful(held[s]) /\ held'[s] = held[s]
    BY <1>0 DEF AddressInv
  <2> QED BY <2>1, <1>2, <1>3 DEF Truthful, MailboxesLast
<1>5. AddressInv'
  BY <1>0, <1>4 DEF AddressInv
<1>6. DeadStaysDead'
  <2> SUFFICES ASSUME NEW s \in failed PROVE Reaches(held[s])' = {}
    BY DEF DeadStaysDead
  <2>1. /\ s \in Slots /\ held[s] \in Addresses /\ Truthful(held[s]) /\ Reaches(held[s]) = {}
        /\ held[s].node = Home /\ held[s].mailbox # "nil" /\ held'[s] = held[s]
    BY <1>0 DEF AddressInv, DeadStaysDead
  <2>2. CASE held[s].mailbox = "*Mailbox"
    BY <2>1, <2>2, <1>2 DEF Reaches, Truthful, MailboxesLast
  <2>3. CASE held[s].mailbox \in {"*noMailbox", "noMailbox"}
    BY <2>1, <2>3 DEF Reaches
  <2>4. CASE held[s].mailbox = "boundRemoteAddress"
    BY <2>1, <2>4 DEF Reaches, Truthful
  <2> QED BY <2>1, <2>2, <2>3, <2>4 DEF Addresses, Caches
<1> QED BY <1>1, <1>5, <1>6 DEF IInv

\* An address is put into variable t, and others may be resolved meanwhile.
LEMMA HeldStep ==
  ASSUME IInv, UNCHANGED vars,
         held' \in [Slots -> Addresses], failed' \subseteq Slots,
         \A s \in Slots : Truthful(held'[s]),
         \A s \in failed' : /\ held'[s].node = Home /\ held'[s].mailbox # "nil"
                            /\ Reaches(held'[s]) = {}
  PROVE  IInv'
<1>1. TableInv'
  BY DEF IInv, vars, TableInv, TypeOK, LookupIsExact, IDsAreUnique, EntriesAreTrue, CounterAhead, mailboxByID
<1>2. AddressInv'
  BY DEF vars, AddressInv, Truthful, IDOf
<1>3. DeadStaysDead'
  BY DEF vars, DeadStaysDead, Reaches, Lookup, mailboxByID
<1> QED BY <1>1, <1>2, <1>3 DEF IInv

\* Each of the things a program does with addresses keeps the invariant.
LEMMA HoldKeeps ==
  ASSUME IInv, NEW s \in Slots, NEW b \in DOMAIN idOf, Hold(s, b)
  PROVE  IInv'
<1>0. TableInv /\ AddressInv /\ DeadStaysDead /\ TypeOK
  BY DEF IInv, TableInv
<1> DEFINE a == Address(b, Home, IDOf(b), "*Mailbox", b)
<1>1. a \in Addresses /\ Truthful(a)
  BY <1>0, IDOfMailbox, AddressesAssumption DEF Addresses, Address, Caches, Truthful, TypeOK
<1>2. held' = [held EXCEPT ![s] = a] /\ failed' = failed \ {s} /\ UNCHANGED vars
  BY DEF Hold
<1> HIDE DEF a
<1> QED BY <1>0, <1>1, <1>2, HeldStep DEF AddressInv, DeadStaysDead

LEMMA ReadOldKeeps ==
  ASSUME IInv, NEW s \in Slots, NEW node \in Nodes, NEW mID \in OldIDs, ReadOld(s, node, mID)
  PROVE  IInv'
<1>0. TableInv /\ AddressInv /\ DeadStaysDead
  BY DEF IInv
<1> DEFINE a == Unresolved(0, node, mID)
<1>1. a \in Addresses /\ Truthful(a)
  BY AddressesAssumption DEF Unresolved, Addresses, Address, Caches, Truthful
<1>2. held' = [held EXCEPT ![s] = a] /\ failed' = failed \ {s} /\ UNCHANGED vars
  BY DEF ReadOld
<1> HIDE DEF a
<1> QED BY <1>0, <1>1, <1>2, HeldStep DEF AddressInv, DeadStaysDead

LEMMA UseKeeps ==
  ASSUME IInv, NEW s \in Slots, Use(s)
  PROVE  IInv'
<1>0. TableInv /\ AddressInv /\ DeadStaysDead
  BY DEF IInv
<1> DEFINE a == Resolved(held[s])
<1>1. /\ a \in Addresses /\ Truthful(a)
      /\ a.node = held[s].node /\ a.mailbox # "nil"
      /\ held[s].mailbox # "nil" => a = held[s]
  <2>1. held[s] \in Addresses /\ Truthful(held[s])
    BY <1>0 DEF AddressInv
  <2>2. held[s].mailbox # "nil" => a = held[s]
    BY DEF Resolved
  <2> QED BY <2>1, <2>2, <1>0, ResolvedIsTruthful
<1>2. /\ held' = [held EXCEPT ![s] = a] /\ UNCHANGED vars
      /\ failed' = IF held[s].node = Home /\ Reaches(a) = {} THEN failed \cup {s} ELSE failed
  BY DEF Use
<1> HIDE DEF a
<1>3. ASSUME NEW t \in failed'
      PROVE  held'[t].node = Home /\ held'[t].mailbox # "nil" /\ Reaches(held'[t]) = {}
  <2>1. CASE t = s /\ s \notin failed
    BY <2>1, <1>0, <1>1, <1>2, <1>3 DEF AddressInv
  <2>2. CASE t \in failed
    <3>1. t \in Slots /\ held[t].node = Home /\ held[t].mailbox # "nil" /\ Reaches(held[t]) = {}
      BY <2>2, <1>0 DEF AddressInv, DeadStaysDead
    <3>2. held'[t] = held[t]
      BY <3>1, <1>0, <1>1, <1>2 DEF AddressInv
    <3> QED BY <3>1, <3>2
  <2> QED BY <2>1, <2>2, <1>2, <1>3
<1> QED BY <1>0, <1>1, <1>2, <1>3, HeldStep DEF AddressInv

LEMMA UnmarshalFromIDKeeps ==
  ASSUME IInv, NEW s \in Slots, NEW t \in Slots, UnmarshalFromID(s, t)
  PROVE  IInv'
<1>0. TableInv /\ AddressInv /\ DeadStaysDead
  BY DEF IInv
<1> DEFINE a == Unresolved(held[s].target, held[t].node, held[s].mailboxID)
<1>1. a \in Addresses /\ Truthful(a)
  <2>1. held[s] \in Addresses /\ held[t] \in Addresses /\ Truthful(held[s])
    BY <1>0 DEF AddressInv
  <2> QED BY <2>1 DEF Unresolved, Addresses, Address, Caches, Truthful
<1>2. held' = [held EXCEPT ![t] = a] /\ failed' = failed \ {t} /\ UNCHANGED vars
  BY DEF UnmarshalFromID
<1> HIDE DEF a
<1> QED BY <1>0, <1>1, <1>2, HeldStep DEF AddressInv, DeadStaysDead

LEMMA PassKeeps ==
  ASSUME IInv, NEW s \in Slots, NEW t \in Slots \ {s}, NEW node \in Nodes,
         NEW format \in Formats, Pass(s, t, node, format)
  PROVE  IInv'
<1>0. TableInv /\ AddressInv /\ DeadStaysDead
  BY DEF IInv
<1> DEFINE a == Resolved(held[s])
           copy == IF a.mailbox = "noMailbox" THEN X(node)
                   ELSE Unresolved(a.target, node, UnmarshalledID(MarshalledID(a), format))
<1>1. /\ a \in Addresses /\ Truthful(a)
      /\ held[s].mailbox # "nil" => a = held[s]
  <2>1. held[s] \in Addresses /\ Truthful(held[s])
    BY <1>0 DEF AddressInv
  <2>2. held[s].mailbox # "nil" => a = held[s]
    BY DEF Resolved
  <2> QED BY <2>1, <2>2, <1>0, ResolvedIsTruthful
<1>2. /\ UNCHANGED vars
      /\ \/ held' = [held EXCEPT ![s] = a, ![t] = copy] /\ failed' = failed \ {t}
         \/ held' = [held EXCEPT ![s] = a] /\ failed' = failed
  BY DEF Pass
<1>3. copy \in Addresses /\ Truthful(copy)
  <2> HIDE DEF a
  <2>1. CASE a.mailbox = "noMailbox"
    BY <2>1 DEF X, Address, Addresses, Caches, Truthful
  <2>2. CASE a.mailbox # "noMailbox"
    <3>1. MarshalledID(a) = a.mailboxID /\ a.mailboxID \in Nat
      BY <1>1 DEF MarshalledID, Truthful, Addresses
    <3>2. UnmarshalledID(MarshalledID(a), format) = a.mailboxID
      BY <3>1, EncodingsAreExact
    <3>3. copy = Unresolved(a.target, node, a.mailboxID)
      BY <2>2, <3>2
    <3> QED BY <3>3, <1>1 DEF Unresolved, Address, Addresses, Caches, Truthful
  <2> QED BY <2>1, <2>2
<1> HIDE DEF a, copy
<1>4. ASSUME NEW u \in failed' \ {t} PROVE u \in failed /\ held'[u] = held[u]
  BY <1>0, <1>1, <1>2 DEF AddressInv
<1>5. t \in failed' => t \in failed /\ held'[t] = held[t]
  BY <1>0, <1>2 DEF AddressInv
<1>6. /\ held' \in [Slots -> Addresses] /\ \A u \in Slots : Truthful(held'[u])
      /\ failed' \subseteq Slots
  BY <1>0, <1>1, <1>2, <1>3 DEF AddressInv
<1>7. \A u \in failed' : held'[u].node = Home /\ held'[u].mailbox # "nil" /\ Reaches(held'[u]) = {}
  BY <1>0, <1>4, <1>5 DEF AddressInv, DeadStaysDead
<1> QED BY <1>2, <1>6, <1>7, HeldStep

\* Every step of the table and of its addresses keeps the invariant.
LEMMA AddressesStep ==
  ASSUME Serial
  PROVE  IInv /\ [AddressNext]_avars => IInv'
<1> SUFFICES ASSUME IInv, [AddressNext]_avars PROVE IInv'
  OBVIOUS
<1>1. CASE Next /\ UNCHANGED <<held, failed>>
  BY <1>1, TableStepKeepsAddresses
<1>2. ASSUME NEW s \in Slots, NEW b \in DOMAIN idOf, Hold(s, b) PROVE IInv'
  BY <1>2, HoldKeeps
<1>3. ASSUME NEW s \in Slots, NEW node \in Nodes, NEW mID \in OldIDs, ReadOld(s, node, mID)
      PROVE  IInv'
  BY <1>3, ReadOldKeeps
<1>4. ASSUME NEW s \in Slots, Use(s) PROVE IInv'
  BY <1>4, UseKeeps
<1>5. ASSUME NEW s \in Slots, NEW t \in Slots \ {s}, UnmarshalFromID(s, t) PROVE IInv'
  BY <1>5, UnmarshalFromIDKeeps
<1>6. ASSUME NEW s \in Slots, NEW t \in Slots \ {s}, NEW node \in Nodes,
             NEW format \in Formats, Pass(s, t, node, format)
      PROVE  IInv'
  BY <1>6, PassKeeps
<1>7. CASE UNCHANGED avars
  <2>1. UNCHANGED vars /\ held' = held /\ failed' = failed
    BY <1>7 DEF avars
  <2> QED BY <2>1, HeldStep DEF IInv, AddressInv, DeadStaysDead
<1> QED BY <1>1, <1>2, <1>3, <1>4, <1>5, <1>6, <1>7 DEF AddressNext, Formats

\* The invariant of a node whose creators take turns.
LEMMA AddressesIInv ==
  ASSUME Serial
  PROVE  AddressSpec => []IInv
<1>1. IInv /\ [AddressNext]_avars => IInv'
  BY AddressesStep
<1> QED BY <1>1, AddressesInit, PTL DEF AddressSpec

\* getAddress and the encodings (mailbox.go:109-402): what an address carries and
\* caches is true.
THEOREM AddressesAreTruthful ==
  ASSUME Serial
  PROVE  AddressSpec => []AddressInv
<1>1. IInv => AddressInv
  BY DEF IInv
<1> QED BY <1>1, AddressesIInv, PTL

\* Address.Send (mailbox.go:181): whatever way an address took, a message sent to it
\* arrives at the mailbox it was made for, or nowhere once that is closed.
THEOREM DeliveryExact ==
  ASSUME Serial
  PROVE  AddressSpec => []DeliveryIsExact
<1>1. IInv => DeliveryIsExact
  BY TruthfulDelivers DEF IInv, AddressInv, DeliveryIsExact
<1> QED BY <1>1, AddressesIInv, PTL

\* noMailbox (mailbox.go:819-831): an address that led nowhere stays that way.
THEOREM DeadAddressesStayDead ==
  ASSUME Serial
  PROVE  AddressSpec => []DeadStaysDead
<1>1. IInv => DeadStaysDead
  BY DEF IInv
<1> QED BY <1>1, AddressesIInv, PTL
=============================================================================

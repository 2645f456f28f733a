--------------------------- MODULE RegistryProofs ---------------------------
(***************************************************************************)
(* The invariant of the registry, proved for any number of names,          *)
(* mailboxes, nodes and messages.                                          *)
(*                                                                         *)
(* The count of contested names is exact because registerAll adds the      *)
(* names that become contested, which were not counted, and unregisterAll  *)
(* takes off those that cease to be, which were; the rest of the argument  *)
(* is about sets of names and their cardinalities.                         *)
(***************************************************************************)
EXTENDS Registry, FiniteSetTheorems, SequenceTheorems, TLAPS

\* The names with more than one claimant.
ContestedNames == {name \in Names : Contested(Claimants(name))}

\* The type of the three maps.
MapsOK ==
  /\ DOMAIN claims \subseteq Names
  /\ claims \in [DOMAIN claims -> SUBSET IDs]
  /\ DOMAIN mailboxIDs \subseteq IDs
  /\ mailboxIDs \in [DOMAIN mailboxIDs -> SUBSET Names]
  /\ multipleClaimCount \in Nat

\* Claimants are finitely many mailbox IDs.
LEMMA ClaimantsFinite ==
  ASSUME MapsOK, NEW name
  PROVE  /\ Claimants(name) \in SUBSET IDs
         /\ IsFiniteSet(IDs)
         /\ IsFiniteSet(Claimants(name))
<1>1. IsFiniteSet(IDs)
  BY RegistryAssumption, FS_Union DEF IDs
<1>2. Claimants(name) \in SUBSET IDs
  BY DEF Claimants, MapsOK
<1> QED BY <1>1, <1>2, FS_Subset

\* A set of IDs with a contested subset is contested.
LEMMA ContestedGrows ==
  ASSUME NEW S, NEW T \in SUBSET S, IsFiniteSet(S), Contested(T)
  PROVE  Contested(S)
<1>1. Cardinality(T) <= Cardinality(S) /\ IsFiniteSet(T)
  BY FS_Subset
<1>2. Cardinality(T) \in Nat /\ Cardinality(S) \in Nat
  BY <1>1, FS_CardinalityType
<1> QED BY <1>1, <1>2 DEF Contested

\* Nothing has no two claimants.
LEMMA NobodyContests == ~Contested({})
  BY FS_EmptySet DEF Contested

\* The sizes of sets with nothing in common add up.
LEMMA DisjointSizes ==
  ASSUME NEW S, NEW T, IsFiniteSet(S), IsFiniteSet(T), S \cap T = {}
  PROVE  /\ Cardinality(S \cup T) = Cardinality(S) + Cardinality(T)
         /\ Cardinality(S) \in Nat /\ Cardinality(T) \in Nat
<1>1. Cardinality(S \cup T) = Cardinality(S) + Cardinality(T) - Cardinality(S \cap T)
  BY FS_Union
<1>2. Cardinality(S) \in Nat /\ Cardinality(T) \in Nat
  BY FS_CardinalityType
<1>3. Cardinality(S \cap T) = 0
  BY FS_EmptySet
<1> QED BY <1>1, <1>2, <1>3

\* What registerAll does to the claims and the count (registry.go:600-651).
LEMMA RegisterAllLemma ==
  ASSUME MapsOK, CountIsExact, ClaimsAreIndexed,
         NEW pairs \in SUBSET Pairs, registerAll(pairs)
  PROVE  /\ MapsOK' /\ CountIsExact' /\ ClaimsAreIndexed'
         /\ \A name \in Names : Claimants(name)' = Grown(name, pairs)
<1> DEFINE New == {name \in NamesOf(pairs) :
                     ~Contested(Claimants(name)) /\ Contested(Grown(name, pairs))}
<1>1. NamesOf(pairs) \subseteq Names /\ IDsOf(pairs) \subseteq IDs
  BY DEF NamesOf, IDsOf, Pairs
<1>2. \A name : Grown(name, pairs) \in SUBSET IDs /\ IsFiniteSet(Grown(name, pairs))
               /\ Claimants(name) \subseteq Grown(name, pairs)
  BY ClaimantsFinite, FS_Subset DEF Grown
<1>3. \A name \in Names : name \notin NamesOf(pairs) => Grown(name, pairs) = Claimants(name)
  BY DEF Grown, NamesOf
<1>4. ASSUME NEW name \in Names PROVE Claimants(name)' = Grown(name, pairs)
  <2>1. CASE name \in DOMAIN claims \cup NamesOf(pairs)
    BY <2>1 DEF Claimants, registerAll
  <2>2. CASE name \notin DOMAIN claims \cup NamesOf(pairs)
    <3>1. Claimants(name)' = {} /\ Claimants(name) = {}
      BY <2>2 DEF Claimants, registerAll
    <3> QED BY <3>1, <2>2, <1>3
  <2> QED BY <2>1, <2>2
<1>5. ContestedNames' = ContestedNames \cup New
  <2>1. ContestedNames' = {name \in Names : Contested(Grown(name, pairs))}
    BY <1>4 DEF ContestedNames
  <2>2. \A name \in Names : Contested(Claimants(name)) => Contested(Grown(name, pairs))
    BY <1>2, ContestedGrows
  <2> QED BY <2>1, <2>2, <1>1, <1>3 DEF ContestedNames
<1>6. IsFiniteSet(ContestedNames) /\ IsFiniteSet(New)
  BY <1>1, RegistryAssumption, FS_Subset DEF ContestedNames
<1>7. ContestedNames \cap New = {}
  BY DEF ContestedNames
<1>8. Cardinality(ContestedNames \cup New) = Cardinality(ContestedNames) + Cardinality(New)
  BY <1>6, <1>7, DisjointSizes
<1>9. CountIsExact' /\ multipleClaimCount' \in Nat
  <2>1. multipleClaimCount' = multipleClaimCount + Cardinality(New)
    BY DEF registerAll
  <2>2. multipleClaimCount = Cardinality(ContestedNames)
    BY DEF CountIsExact, ContestedNames
  <2>3. multipleClaimCount' = Cardinality(ContestedNames')
    BY <2>1, <2>2, <1>5, <1>8
  <2> QED BY <2>1, <2>3, <1>6, FS_CardinalityType DEF CountIsExact, ContestedNames, MapsOK
<1>10. MapsOK'
  BY <1>1, <1>2, <1>9 DEF MapsOK, registerAll, Entries
<1>11. ClaimsAreIndexed'
  <2> SUFFICES ASSUME NEW name \in DOMAIN claims'
               PROVE  /\ claims'[name] # {}
                      /\ \A id \in claims'[name] : name \in Entries(id)'
    BY DEF ClaimsAreIndexed
  <2>1. name \in Names /\ claims'[name] = Grown(name, pairs)
    BY <1>1 DEF registerAll, MapsOK
  <2>2. claims'[name] # {}
    <3>1. CASE name \in DOMAIN claims
      BY <3>1, <2>1, <1>2 DEF ClaimsAreIndexed, Claimants
    <3>2. CASE name \in NamesOf(pairs)
      <4>1. PICK p \in pairs : p[1] = name
        BY <3>2 DEF NamesOf
      <4>2. p = <<name, p[2]>> /\ p[2] \in IDs
        BY <4>1 DEF Pairs
      <4> QED BY <4>1, <4>2, <2>1 DEF Grown
    <3> QED BY <3>1, <3>2 DEF registerAll
  <2>3. ASSUME NEW id \in claims'[name] PROVE name \in Entries(id)'
    <3>1. id \in Claimants(name) \/ <<name, id>> \in pairs
      BY <2>1 DEF Grown
    <3>2. CASE id \in Claimants(name)
      <4>1. name \in Entries(id)
        BY <3>2 DEF Claimants, ClaimsAreIndexed
      <4>2. id \in DOMAIN mailboxIDs
        BY <4>1 DEF Entries
      <4> QED BY <4>1, <4>2 DEF registerAll, Entries
    <3>3. CASE <<name, id>> \in pairs
      <4>1. id \in IDsOf(pairs)
        BY <3>3 DEF IDsOf
      <4> QED BY <4>1, <3>3, <2>1 DEF registerAll, Entries
    <3> QED BY <3>1, <3>2, <3>3
  <2> QED BY <2>2, <2>3
<1> QED BY <1>4, <1>9, <1>10, <1>11

\* What unregisterAll does to the claims and the count (registry.go:669-692), when
\* the entries of mailboxes that are claimants afterwards stay.
LEMMA UnregisterAllLemma ==
  ASSUME MapsOK, CountIsExact, ClaimsAreIndexed,
         NEW pairs \in SUBSET Pairs, unregisterAll(pairs),
         DOMAIN mailboxIDs' \subseteq IDs, mailboxIDs' \in [DOMAIN mailboxIDs' -> SUBSET Names],
         \A name \in Names : \A id \in Rest(name, pairs) : Entries(id)' = Entries(id)
  PROVE  /\ MapsOK' /\ CountIsExact' /\ ClaimsAreIndexed'
         /\ \A name \in Names : Claimants(name)' = Rest(name, pairs)
<1> DEFINE Gone == {name \in NamesOf(pairs) \cap DOMAIN claims :
                      Contested(Claimants(name)) /\ ~Contested(Rest(name, pairs))}
<1>1. NamesOf(pairs) \subseteq Names
  BY DEF NamesOf, Pairs
<1>2. \A name : Rest(name, pairs) \in SUBSET Claimants(name)
  BY DEF Rest
<1>3. \A name \in Names : name \notin NamesOf(pairs) => Rest(name, pairs) = Claimants(name)
  BY DEF Rest, NamesOf
<1>4. ASSUME NEW name \in Names PROVE Claimants(name)' = Rest(name, pairs)
  <2>1. CASE name \in DOMAIN claims /\ (name \in NamesOf(pairs) => Rest(name, pairs) # {})
    BY <2>1 DEF Claimants, unregisterAll
  <2>2. CASE name \in DOMAIN claims /\ name \in NamesOf(pairs) /\ Rest(name, pairs) = {}
    BY <2>2 DEF Claimants, unregisterAll
  <2>3. CASE name \notin DOMAIN claims
    <3>1. Claimants(name)' = {} /\ Claimants(name) = {}
      BY <2>3 DEF Claimants, unregisterAll
    <3> QED BY <3>1, <1>2
  <2> QED BY <2>1, <2>2, <2>3
<1>5. ContestedNames = ContestedNames' \cup Gone
  <2>1. ContestedNames' = {name \in Names : Contested(Rest(name, pairs))}
    BY <1>4 DEF ContestedNames
  <2>2. \A name \in Names : Contested(Rest(name, pairs)) => Contested(Claimants(name))
    BY <1>2, ClaimantsFinite, ContestedGrows
  <2>3. \A name \in Names : Contested(Claimants(name)) => name \in DOMAIN claims
    BY NobodyContests DEF Claimants
  <2> QED BY <2>1, <2>2, <2>3, <1>1, <1>3 DEF ContestedNames
<1>6. IsFiniteSet(ContestedNames') /\ IsFiniteSet(Gone)
  <2>1. ContestedNames' \subseteq Names /\ Gone \subseteq Names
    BY <1>1 DEF ContestedNames
  <2> QED BY <2>1, RegistryAssumption, FS_Subset
<1>7. ContestedNames' \cap Gone = {}
  BY <1>1, <1>4 DEF ContestedNames
<1>8. /\ Cardinality(ContestedNames' \cup Gone) = Cardinality(ContestedNames') + Cardinality(Gone)
      /\ Cardinality(ContestedNames') \in Nat /\ Cardinality(Gone) \in Nat
  BY <1>6, <1>7, DisjointSizes
<1>9. CountIsExact' /\ multipleClaimCount' \in Nat
  <2>1. multipleClaimCount' = multipleClaimCount - Cardinality(Gone)
    BY DEF unregisterAll
  <2>2. multipleClaimCount = Cardinality(ContestedNames)
    BY DEF CountIsExact, ContestedNames
  <2>3. multipleClaimCount' = Cardinality(ContestedNames')
    BY <2>1, <2>2, <1>5, <1>8
  <2> QED BY <2>3, <1>8 DEF CountIsExact, ContestedNames
<1>10. MapsOK'
  <2>1. \A name : Rest(name, pairs) \in SUBSET IDs
    BY <1>2, ClaimantsFinite
  <2> QED BY <2>1, <1>9 DEF MapsOK, unregisterAll
<1>11. ClaimsAreIndexed'
  <2> SUFFICES ASSUME NEW name \in DOMAIN claims'
               PROVE  /\ claims'[name] # {}
                      /\ \A id \in claims'[name] : name \in Entries(id)'
    BY DEF ClaimsAreIndexed
  <2>1. /\ name \in DOMAIN claims /\ claims'[name] = Rest(name, pairs)
        /\ name \in NamesOf(pairs) => Rest(name, pairs) # {}
    BY DEF unregisterAll
  <2>2. name \in Names /\ claims[name] # {} /\ Claimants(name) = claims[name]
    BY <2>1 DEF MapsOK, ClaimsAreIndexed, Claimants
  <2>3. claims'[name] # {}
    BY <2>1, <2>2, <1>3
  <2>4. ASSUME NEW id \in claims'[name] PROVE name \in Entries(id)'
    <3>1. id \in claims[name] /\ Entries(id)' = Entries(id)
      BY <2>1, <2>2, <1>2
    <3> QED BY <3>1, <2>1 DEF ClaimsAreIndexed
  <2> QED BY <2>3, <2>4
<1> QED BY <1>4, <1>9, <1>10, <1>11

-----------------------------------------------------------------------------
\* The type of everything but the maps.
QueuesOK ==
  /\ nodeRegistries \subseteq Nodes
  /\ inbox \in Seq(Messages)
  /\ pending \subseteq Broadcasts
  /\ serving \in BOOLEAN
  /\ arriving \in [Nodes -> Seq(Messages \cup Passing)]
  /\ connected \subseteq Nodes
  /\ closed \subseteq Local
  /\ waiting \subseteq Syncers
  /\ warned \subseteq Names \X Local
  /\ lastWord \in [Nodes -> [Names \X Local -> {"none", "RegisterName", "UnregisterName"}]]
  /\ calls \in Nat

LEMMA TypeIsParts == TypeOK <=> MapsOK /\ QueuesOK
  BY DEF TypeOK, MapsOK, QueuesOK

\* The parts of the invariant that are about the maps.
MapsInv == MapsOK /\ CountIsExact /\ ClaimsAreIndexed

LEMMA InvIsParts == RegistryInv <=> MapsInv /\ QueuesOK /\ PendingIsDone /\ LastWordOK
  BY TypeIsParts DEF RegistryInv, MapsInv

\* A step that leaves the maps alone.
LEMMA MapsUnchanged ==
  ASSUME MapsInv, UNCHANGED maps
  PROVE  MapsInv' /\ \A name : Claimants(name)' = Claimants(name)
BY DEF MapsInv, maps, MapsOK, CountIsExact, ClaimsAreIndexed, Claimants, Entries

\* The fields of the messages Serve handles.
LEMMA MessageFields ==
  ASSUME NEW m \in Messages
  PROVE  /\ m.type \in {"RegisterName", "UnregisterName"} =>
              m \in Broadcasts /\ m.name \in Names /\ m.id \in Local
         /\ m.type \in {"RemoteRegisterName", "RemoteUnregisterName"} =>
              m.name \in Names /\ m.id \in Remote
         /\ m.type = "UnregisterMailbox" => m.id \in Local
         /\ m.type = "AllNodeClaims" => m.pairs \subseteq Names \X Remote
BY DEF Messages, Broadcasts

\* Receiving takes a message and leaves a queue.
LEMMA ReceiveLemma ==
  ASSUME QueuesOK, NEW m, NEW type, Receive(m, type)
  PROVE  m \in Messages /\ m.type = type /\ pending = {} /\ Tail(inbox) \in Seq(Messages)
BY HeadTailProperties DEF Receive, QueuesOK

\* A handler whose change to the claims is all about mailboxes of other nodes
\* keeps what is known of the local ones.
LEMMA RemoteOnly ==
  ASSUME LastWordOK, pending = {}, pending' = {},
         nodeRegistries' \subseteq nodeRegistries, lastWord' = lastWord,
         \A name \in Names : Claimants(name)' \cap Local = Claimants(name) \cap Local
  PROVE  PendingIsDone' /\ LastWordOK'
<1>1. PendingIsDone'
  BY DEF PendingIsDone
<1>2. LastWordOK'
  <2> SUFFICES ASSUME NEW n \in nodeRegistries', NEW p \in Names \X Local
               PROVE  /\ lastWord'[n][p] = "RegisterName" => p[2] \in Claimants(p[1])'
                      /\ lastWord'[n][p] = "UnregisterName" => p[2] \notin Claimants(p[1])'
    BY DEF LastWordOK
  <2>1. p[1] \in Names /\ p[2] \in Local
    OBVIOUS
  <2>2. p[2] \in Claimants(p[1])' <=> p[2] \in Claimants(p[1])
    BY <2>1
  <2> QED BY <2>2 DEF LastWordOK
<1> QED BY <1>1, <1>2

\* A handler that owes broadcasts for all it changed about local mailboxes.
LEMMA Owed ==
  ASSUME LastWordOK, pending = {}, UNCHANGED <<nodeRegistries, lastWord>>,
         \A name \in Names, id \in Local :
           \/ \E m \in pending' : m.name = name /\ m.id = id
           \/ id \in Claimants(name)' <=> id \in Claimants(name)
  PROVE  LastWordOK'
<1> SUFFICES ASSUME NEW n \in nodeRegistries', NEW p \in Names \X Local
             PROVE  \/ \E m \in pending' : <<m.name, m.id>> = p
                    \/ /\ lastWord'[n][p] = "RegisterName" => p[2] \in Claimants(p[1])'
                       /\ lastWord'[n][p] = "UnregisterName" => p[2] \notin Claimants(p[1])'
  BY DEF LastWordOK
<1>1. p[1] \in Names /\ p[2] \in Local /\ p = <<p[1], p[2]>>
  OBVIOUS
<1>2. CASE \E m \in pending' : m.name = p[1] /\ m.id = p[2]
  BY <1>1, <1>2
<1>3. CASE p[2] \in Claimants(p[1])' <=> p[2] \in Claimants(p[1])
  BY <1>3 DEF LastWordOK
<1> QED BY <1>1, <1>2, <1>3

\* A step that touches neither the maps nor what the other nodes know.
LEMMA Elsewhere ==
  ASSUME RegistryInv, UNCHANGED <<maps, nodeRegistries, pending, lastWord>>, QueuesOK'
  PROVE  RegistryInv'
<1>1. MapsInv' /\ \A name : Claimants(name)' = Claimants(name)
  BY InvIsParts, MapsUnchanged
<1>2. PendingIsDone' /\ LastWordOK'
  BY <1>1, InvIsParts DEF PendingIsDone, LastWordOK
<1>3. RegistryInv' <=> (MapsInv' /\ QueuesOK' /\ PendingIsDone' /\ LastWordOK')
  BY InvIsParts, PTL
<1> QED BY <1>1, <1>2, <1>3

-----------------------------------------------------------------------------
LEMMA RegistryInit == Init => RegistryInv
<1> SUFFICES ASSUME Init PROVE RegistryInv
  OBVIOUS
<1>1. TypeOK
  BY EmptySeq DEF Init, TypeOK
<1>2. \A name : Claimants(name) = {}
  BY DEF Init, Claimants
<1>3. CountIsExact
  <2>1. {name \in Names : Contested(Claimants(name))} = {}
    BY <1>2, NobodyContests
  <2> QED BY <2>1, FS_EmptySet DEF CountIsExact, Init
<1>4. ClaimsAreIndexed /\ PendingIsDone /\ LastWordOK
  BY DEF Init, ClaimsAreIndexed, PendingIsDone, LastWordOK
<1> QED BY <1>1, <1>3, <1>4 DEF RegistryInv

\* The handlers of Serve.
LEMMA HandleStep ==
  ASSUME RegistryInv, NEW m, Handle(m)
  PROVE  RegistryInv'
<1>0. MapsInv /\ QueuesOK /\ PendingIsDone /\ LastWordOK
  BY InvIsParts
<1>p. RegistryInv' <=> (MapsInv' /\ QueuesOK' /\ PendingIsDone' /\ LastWordOK')
  BY InvIsParts, PTL
<1>1. CASE HandleRegisterName(m)
  <2>1. /\ m \in Messages /\ m.type = "RegisterName" /\ pending = {} /\ Tail(inbox) \in Seq(Messages)
        /\ m \in Broadcasts /\ m.name \in Names /\ m.id \in Local
    BY <1>0, <1>1, ReceiveLemma, MessageFields DEF HandleRegisterName
  <2>2. {<<m.name, m.id>>} \in SUBSET Pairs
    BY <2>1 DEF Pairs, IDs
  <2>3. MapsInv' /\ \A name \in Names : Claimants(name)' = Grown(name, {<<m.name, m.id>>})
    BY <1>0, <1>1, <2>2, RegisterAllLemma DEF HandleRegisterName, MapsInv
  <2>4. QueuesOK'
    BY <1>0, <1>1, <2>1 DEF HandleRegisterName, QueuesOK
  <2>5. PendingIsDone'
    BY <1>1, <2>1, <2>3 DEF HandleRegisterName, PendingIsDone, Grown, IDs
  <2>6. LastWordOK'
    <3>1. ASSUME NEW name \in Names, NEW id \in Local
          PROVE  \/ \E b \in pending' : b.name = name /\ b.id = id
                 \/ id \in Claimants(name)' <=> id \in Claimants(name)
      BY <1>1, <2>1, <2>3 DEF HandleRegisterName, Grown
    <3> QED BY <1>0, <1>1, <2>1, <3>1, Owed DEF HandleRegisterName
  <2> QED BY <2>3, <2>4, <2>5, <2>6, <1>p
<1>2. CASE HandleConflict(m)
  <2>1. /\ m \in Messages /\ m.type = "RegisterName" /\ pending = {} /\ Tail(inbox) \in Seq(Messages)
        /\ m \in Broadcasts /\ m.name \in Names /\ m.id \in Local
    BY <1>0, <1>2, ReceiveLemma, MessageFields DEF HandleConflict
  <2>2. {<<m.name, m.id>>} \in SUBSET Pairs
    BY <2>1 DEF Pairs, IDs
  <2>3. MapsInv' /\ \A name \in Names : Claimants(name)' = Grown(name, {<<m.name, m.id>>})
    BY <1>0, <1>2, <2>2, RegisterAllLemma DEF HandleConflict, MapsInv
  <2>4. inbox' \in Seq(Messages)
    <3> DEFINE dead0 == (Claimants(m.name) \cup {m.id}) \cap closed
    <3>1. PICK dead \in SetToSeqs(dead0) :
            inbox' = Tail(inbox) \o [i \in DOMAIN dead |-> Unregistration(m.name, dead[i])]
      BY <1>2 DEF HandleConflict
    <3>2. /\ DOMAIN dead = 1..Cardinality(dead0)
          /\ \A i \in DOMAIN dead : dead[i] \in Local
      BY <3>1, <1>0 DEF SetToSeqs, QueuesOK
    <3>3. Cardinality(dead0) \in Nat
      <4>1. IsFiniteSet(Claimants(m.name) \cup {m.id})
        BY <1>0, ClaimantsFinite, FS_AddElement DEF MapsInv
      <4>2. dead0 \in SUBSET (Claimants(m.name) \cup {m.id})
        OBVIOUS
      <4>3. IsFiniteSet(dead0)
        BY <4>1, <4>2, FS_Subset
      <4> QED BY <4>3, FS_CardinalityType
    <3>4. \A id \in Local : Unregistration(m.name, id) \in Messages
      BY <2>1 DEF Unregistration, Messages
    <3>5. [i \in DOMAIN dead |-> Unregistration(m.name, dead[i])] \in Seq(Messages)
      <4> DEFINE f == [i \in DOMAIN dead |-> Unregistration(m.name, dead[i])]
                 k == Cardinality(dead0)
      <4>1. f \in [1..k -> Messages] /\ k \in Nat
        BY <3>2, <3>3, <3>4
      <4> HIDE DEF f, k
      <4>2. f \in Seq(Messages)
        BY <4>1
      <4> QED BY <4>2 DEF f
    <3> QED BY <3>1, <3>5, <2>1, ConcatProperties
  <2>5. QueuesOK'
    BY <1>0, <1>2, <2>1, <2>4 DEF HandleConflict, QueuesOK
  <2>6. PendingIsDone'
    BY <1>2, <2>1, <2>3 DEF HandleConflict, PendingIsDone, Grown, IDs
  <2>7. LastWordOK'
    <3>1. ASSUME NEW name \in Names, NEW id \in Local
          PROVE  \/ \E b \in pending' : b.name = name /\ b.id = id
                 \/ id \in Claimants(name)' <=> id \in Claimants(name)
      BY <1>2, <2>1, <2>3 DEF HandleConflict, Grown
    <3> QED BY <1>0, <1>2, <2>1, <3>1, Owed DEF HandleConflict
  <2> QED BY <2>3, <2>5, <2>6, <2>7, <1>p
<1>3. CASE HandleRemoteRegisterName(m)
  <2>1. /\ m \in Messages /\ m.type = "RemoteRegisterName" /\ pending = {} /\ Tail(inbox) \in Seq(Messages)
        /\ m.name \in Names /\ m.id \in Remote
    BY <1>0, <1>3, ReceiveLemma, MessageFields DEF HandleRemoteRegisterName
  <2>2. {<<m.name, m.id>>} \in SUBSET Pairs
    BY <2>1 DEF Pairs, IDs
  <2>3. MapsInv' /\ \A name \in Names : Claimants(name)' = Grown(name, {<<m.name, m.id>>})
    BY <1>0, <1>3, <2>2, RegisterAllLemma DEF HandleRemoteRegisterName, MapsInv
  <2>4. QueuesOK'
    BY <1>0, <1>3, <2>1 DEF HandleRemoteRegisterName, QueuesOK
  <2>5. \A name \in Names : Claimants(name)' \cap Local = Claimants(name) \cap Local
    BY <2>1, <2>3, RegistryAssumption DEF Grown
  <2>6. PendingIsDone' /\ LastWordOK'
    BY <1>0, <1>3, <2>1, <2>5, RemoteOnly DEF HandleRemoteRegisterName
  <2> QED BY <2>3, <2>4, <2>6, <1>p
<1>4. CASE HandleUnregisterName(m)
  <2>1. /\ m \in Messages /\ m.type = "UnregisterName" /\ pending = {} /\ Tail(inbox) \in Seq(Messages)
        /\ m \in Broadcasts /\ m.name \in Names /\ m.id \in Local
    BY <1>0, <1>4, ReceiveLemma, MessageFields DEF HandleUnregisterName
  <2>2. {<<m.name, m.id>>} \in SUBSET Pairs
    BY <2>1 DEF Pairs, IDs
  <2>3. MapsInv' /\ \A name \in Names : Claimants(name)' = Rest(name, {<<m.name, m.id>>})
    <3>1. /\ DOMAIN mailboxIDs' \subseteq IDs /\ mailboxIDs' \in [DOMAIN mailboxIDs' -> SUBSET Names]
          /\ \A id : Entries(id)' = Entries(id)
      BY <1>0, <1>4 DEF HandleUnregisterName, MapsInv, MapsOK, Entries
    <3> QED BY <1>0, <1>4, <2>2, <3>1, UnregisterAllLemma DEF HandleUnregisterName, MapsInv
  <2>4. QueuesOK'
    BY <1>0, <1>4, <2>1 DEF HandleUnregisterName, QueuesOK
  <2>5. PendingIsDone'
    BY <1>4, <2>1, <2>3 DEF HandleUnregisterName, PendingIsDone, Rest, IDs
  <2>6. LastWordOK'
    <3>1. ASSUME NEW name \in Names, NEW id \in Local
          PROVE  \/ \E b \in pending' : b.name = name /\ b.id = id
                 \/ id \in Claimants(name)' <=> id \in Claimants(name)
      BY <1>4, <2>1, <2>3 DEF HandleUnregisterName, Rest
    <3> QED BY <1>0, <1>4, <2>1, <3>1, Owed DEF HandleUnregisterName
  <2> QED BY <2>3, <2>4, <2>5, <2>6, <1>p
<1>5. CASE HandleRemoteUnregisterName(m)
  <2>1. /\ m \in Messages /\ m.type = "RemoteUnregisterName" /\ pending = {} /\ Tail(inbox) \in Seq(Messages)
        /\ m.name \in Names /\ m.id \in Remote
    BY <1>0, <1>5, ReceiveLemma, MessageFields DEF HandleRemoteUnregisterName
  <2>2. {<<m.name, m.id>>} \in SUBSET Pairs
    BY <2>1 DEF Pairs, IDs
  <2>3. MapsInv' /\ \A name \in Names : Claimants(name)' = Rest(name, {<<m.name, m.id>>})
    <3>1. /\ DOMAIN mailboxIDs' \subseteq IDs /\ mailboxIDs' \in [DOMAIN mailboxIDs' -> SUBSET Names]
          /\ \A id : Entries(id)' = Entries(id)
      BY <1>0, <1>5 DEF HandleRemoteUnregisterName, MapsInv, MapsOK, Entries
    <3> QED BY <1>0, <1>5, <2>2, <3>1, UnregisterAllLemma DEF HandleRemoteUnregisterName, MapsInv
  <2>4. QueuesOK'
    BY <1>0, <1>5, <2>1 DEF HandleRemoteUnregisterName, QueuesOK
  <2>5. \A name \in Names : Claimants(name)' \cap Local = Claimants(name) \cap Local
    BY <2>1, <2>3, RegistryAssumption DEF Rest
  <2>6. PendingIsDone' /\ LastWordOK'
    BY <1>0, <1>5, <2>1, <2>5, RemoteOnly DEF HandleRemoteUnregisterName
  <2> QED BY <2>3, <2>4, <2>6, <1>p
<1>6. CASE HandleUnregisterMailbox(m)
  <2> DEFINE its == Entries(m.id) \X {m.id}
  <2>1. /\ m \in Messages /\ m.type = "UnregisterMailbox" /\ pending = {} /\ Tail(inbox) \in Seq(Messages)
        /\ m.id \in Local
    BY <1>0, <1>6, ReceiveLemma, MessageFields DEF HandleUnregisterMailbox
  <2>2. Entries(m.id) \subseteq Names /\ its \in SUBSET Pairs
    BY <1>0, <2>1 DEF Pairs, IDs, MapsInv, MapsOK, Entries
  <2>3. MapsInv' /\ \A name \in Names : Claimants(name)' = Rest(name, its)
    <3>1. DOMAIN mailboxIDs' \subseteq IDs /\ mailboxIDs' \in [DOMAIN mailboxIDs' -> SUBSET Names]
      BY <1>0, <1>6 DEF HandleUnregisterMailbox, MapsInv, MapsOK
    <3>2. \A id : id # m.id => Entries(id)' = Entries(id)
      BY <1>6 DEF HandleUnregisterMailbox, Entries
    <3>3. \A name \in Names : m.id \notin Rest(name, its)
      BY <1>0, <2>1 DEF Rest, Claimants, IDs, MapsInv, ClaimsAreIndexed
    <3>4. \A name \in Names : \A id \in Rest(name, its) : Entries(id)' = Entries(id)
      BY <3>2, <3>3
    <3> QED BY <1>0, <1>6, <2>2, <3>1, <3>4, UnregisterAllLemma DEF HandleUnregisterMailbox, MapsInv
  <2>4. QueuesOK'
    <3>1. \A name \in Names : Unregistration(name, m.id) \in Broadcasts
      BY <2>1 DEF Unregistration, Broadcasts
    <3> QED BY <1>0, <1>6, <2>1, <2>2, <3>1 DEF HandleUnregisterMailbox, QueuesOK
  <2>5. \A b \in pending' : b.type = "UnregisterName" /\ b.name \in Entries(m.id) /\ b.id = m.id
    BY <1>6 DEF HandleUnregisterMailbox, Unregistration
  <2>6. PendingIsDone'
    BY <2>1, <2>2, <2>3, <2>5 DEF PendingIsDone, Rest, IDs
  <2>7. LastWordOK'
    <3>1. ASSUME NEW name \in Names, NEW id \in Local
          PROVE  \/ \E b \in pending' : b.name = name /\ b.id = id
                 \/ id \in Claimants(name)' <=> id \in Claimants(name)
      <4>1. CASE id = m.id /\ name \in Entries(m.id)
        <5>1. Unregistration(name, id) \in pending'
          BY <1>6, <4>1 DEF HandleUnregisterMailbox
        <5>2. Unregistration(name, id).name = name /\ Unregistration(name, id).id = id
          BY DEF Unregistration
        <5> QED BY <5>1, <5>2
      <4>2. CASE ~(id = m.id /\ name \in Entries(m.id))
        BY <4>2, <2>3 DEF Rest
      <4> QED BY <4>1, <4>2
    <3> QED BY <1>0, <1>6, <2>1, <3>1, Owed DEF HandleUnregisterMailbox
  <2> QED BY <2>3, <2>4, <2>6, <2>7, <1>p
<1>7. CASE HandleConnected(m)
  <2>1. QueuesOK'
    BY <1>0, <1>7, ReceiveLemma DEF HandleConnected, QueuesOK
  <2> QED BY <1>7, <2>1, Elsewhere DEF HandleConnected
<1>8. CASE HandleDisconnected(m)
  <2> DEFINE its == {p \in Names \X Remote : p[2] \in Claimants(p[1]) /\ NodeOf[p[2]] = m.node}
  <2>1. pending = {} /\ Tail(inbox) \in Seq(Messages)
    BY <1>0, <1>8, ReceiveLemma DEF HandleDisconnected
  <2>2. its \in SUBSET Pairs
    BY DEF Pairs, IDs
  <2>3. MapsInv' /\ \A name \in Names : Claimants(name)' = Rest(name, its)
    <3>1. /\ DOMAIN mailboxIDs' \subseteq IDs /\ mailboxIDs' \in [DOMAIN mailboxIDs' -> SUBSET Names]
          /\ \A id : Entries(id)' = Entries(id)
      BY <1>0, <1>8 DEF HandleDisconnected, MapsInv, MapsOK, Entries
    <3> QED BY <1>0, <1>8, <2>2, <3>1, UnregisterAllLemma DEF HandleDisconnected, MapsInv
  <2>4. QueuesOK'
    BY <1>0, <1>8, <2>1 DEF HandleDisconnected, QueuesOK
  <2>5. \A name \in Names : Claimants(name)' \cap Local = Claimants(name) \cap Local
    BY <2>3, RegistryAssumption DEF Rest
  <2>6. PendingIsDone' /\ LastWordOK'
    BY <1>0, <1>8, <2>1, <2>5, RemoteOnly DEF HandleDisconnected
  <2> QED BY <2>3, <2>4, <2>6, <1>p
<1>9. CASE HandleAllNodeClaims(m)
  <2> DEFINE its == {p \in m.pairs : NodeOf[p[2]] = m.node}
  <2>1. pending = {} /\ Tail(inbox) \in Seq(Messages) /\ m.pairs \subseteq Names \X Remote
    BY <1>0, <1>9, ReceiveLemma, MessageFields DEF HandleAllNodeClaims
  <2>2. its \in SUBSET Pairs /\ its \subseteq Names \X Remote
    BY <2>1 DEF Pairs, IDs
  <2>3. MapsInv' /\ \A name \in Names : Claimants(name)' = Grown(name, its)
    BY <1>0, <1>9, <2>2, RegisterAllLemma DEF HandleAllNodeClaims, MapsInv
  <2>4. QueuesOK'
    BY <1>0, <1>9, <2>1 DEF HandleAllNodeClaims, QueuesOK
  <2>5. \A name \in Names : Claimants(name)' \cap Local = Claimants(name) \cap Local
    <3>1. \A name \in Names, id \in Local : <<name, id>> \notin its
      BY <2>2, RegistryAssumption
    <3> HIDE DEF its
    <3> QED BY <3>1, <2>3 DEF Grown
  <2>6. PendingIsDone' /\ LastWordOK'
    BY <1>0, <1>9, <2>1, <2>5, RemoteOnly DEF HandleAllNodeClaims
  <2> QED BY <2>3, <2>4, <2>6, <1>p
<1>10. CASE HandleSynchronize(m)
  <2>1. QueuesOK'
    BY <1>0, <1>10, ReceiveLemma DEF HandleSynchronize, QueuesOK
  <2> QED BY <1>10, <2>1, Elsewhere DEF HandleSynchronize
<1>11. CASE HandleStop(m)
  <2>1. QueuesOK'
    BY <1>0, <1>11, ReceiveLemma DEF HandleStop, QueuesOK
  <2> QED BY <1>11, <2>1, Elsewhere DEF HandleStop
<1> QED BY <1>1, <1>2, <1>3, <1>4, <1>5, <1>6, <1>7, <1>8, <1>9, <1>10, <1>11 DEF Handle

\* A broadcast settles what it was about.
LEMMA BroadcastStep ==
  ASSUME RegistryInv, NEW m \in pending, Broadcast(m)
  PROVE  RegistryInv'
<1>0. MapsInv /\ QueuesOK /\ PendingIsDone /\ LastWordOK
  BY InvIsParts
<1>1. MapsInv' /\ \A name : Claimants(name)' = Claimants(name)
  BY <1>0, MapsUnchanged DEF Broadcast
<1>2. m \in Broadcasts
  BY <1>0 DEF QueuesOK
<1>3. m.type \in {"RegisterName", "UnregisterName"} /\ <<m.name, m.id>> \in Names \X Local
  BY <1>2 DEF Broadcasts
<1>4. QueuesOK'
  BY <1>0, <1>3 DEF Broadcast, QueuesOK
<1>5. PendingIsDone'
  BY <1>0, <1>1 DEF Broadcast, PendingIsDone
<1>6. LastWordOK'
  <2> SUFFICES ASSUME NEW n \in nodeRegistries', NEW p \in Names \X Local
               PROVE  \/ \E b \in pending' : <<b.name, b.id>> = p
                      \/ /\ lastWord'[n][p] = "RegisterName" => p[2] \in Claimants(p[1])'
                         /\ lastWord'[n][p] = "UnregisterName" => p[2] \notin Claimants(p[1])'
    BY DEF LastWordOK
  <2>1. n \in nodeRegistries /\ n \in Nodes
    BY <1>0 DEF Broadcast, QueuesOK
  <2>2. CASE p = <<m.name, m.id>>
    <3>1. lastWord'[n][p] = m.type
      BY <1>0, <2>1, <2>2 DEF Broadcast, QueuesOK
    <3>2. p[1] = m.name /\ p[2] = m.id
      BY <2>2
    <3>3. Claimants(p[1])' = Claimants(m.name)
      BY <1>1, <3>2
    <3> QED BY <1>0, <1>3, <3>1, <3>2, <3>3 DEF PendingIsDone
  <2>3. CASE p # <<m.name, m.id>>
    <3>1. lastWord'[n][p] = lastWord[n][p]
      BY <1>0, <2>1, <2>3 DEF Broadcast, QueuesOK
    <3>2. Claimants(p[1])' = Claimants(p[1])
      BY <1>1
    <3>3. CASE \E b \in pending : <<b.name, b.id>> = p
      BY <3>3, <2>3 DEF Broadcast
    <3>4. CASE ~\E b \in pending : <<b.name, b.id>> = p
      BY <1>0, <2>1, <3>1, <3>2, <3>4 DEF LastWordOK
    <3> QED BY <3>3, <3>4
  <2> QED BY <2>2, <2>3
<1>7. RegistryInv' <=> (MapsInv' /\ QueuesOK' /\ PendingIsDone' /\ LastWordOK')
  BY InvIsParts, PTL
<1> QED BY <1>1, <1>4, <1>5, <1>6, <1>7

\* The types of a step that changes neither what is broadcast nor what is known.
LEMMA QueuesStep ==
  ASSUME QueuesOK, UNCHANGED <<nodeRegistries, pending, warned, lastWord>>,
         inbox' \in Seq(Messages), serving' \in BOOLEAN,
         arriving' \in [Nodes -> Seq(Messages \cup Passing)],
         connected' \subseteq Nodes, closed' \subseteq Local, waiting' \subseteq Syncers,
         calls' \in Nat
  PROVE  QueuesOK'
BY DEF QueuesOK

LEMMA CallCounts == ASSUME QueuesOK, Call PROVE serving /\ calls' \in Nat
BY DEF QueuesOK, Call

\* What callers, mailboxes and other nodes do.
LEMMA EnvironmentStep ==
  ASSUME RegistryInv, Callers \/ OtherNodes
  PROVE  RegistryInv'
<1>0. QueuesOK /\ MapsInv /\ LastWordOK /\ PendingIsDone
  BY InvIsParts
<1>1. ASSUME NEW m \in Messages PROVE Append(inbox, m) \in Seq(Messages)
  BY <1>0, AppendProperties DEF QueuesOK
<1>2. ASSUME NEW name \in Names, NEW id \in Local, Register(name, id) PROVE RegistryInv'
  <2>1. [type |-> "RegisterName", name |-> name, id |-> id] \in Messages
    BY DEF Messages
  <2>2. QueuesOK'
    <3>1. inbox' \in Seq(Messages)
      BY <1>1, <1>2, <2>1 DEF Register, Send
    <3>2. calls' \in Nat
      BY <1>0, <1>2, CallCounts DEF Register
    <3> QED BY <1>0, <1>2, <3>1, <3>2, QueuesStep DEF Register, QueuesOK
  <2> QED BY <1>2, <2>2, Elsewhere DEF Register
<1>3. ASSUME NEW name \in Names, NEW id \in Local, Unregister(name, id) PROVE RegistryInv'
  <2>1. Unregistration(name, id) \in Messages
    BY DEF Messages, Unregistration
  <2>2. QueuesOK'
    <3>1. inbox' \in Seq(Messages)
      BY <1>1, <1>3, <2>1 DEF Unregister, Send
    <3>2. calls' \in Nat
      BY <1>0, <1>3, CallCounts DEF Unregister
    <3> QED BY <1>0, <1>3, <3>1, <3>2, QueuesStep DEF Unregister, QueuesOK
  <2> QED BY <1>3, <2>2, Elsewhere DEF Unregister
<1>4. ASSUME NEW c \in Syncers, Sync(c) PROVE RegistryInv'
  <2>1. [type |-> "synchronizeRegistry", caller |-> c] \in Messages
    BY DEF Messages
  <2>2. QueuesOK'
    <3>1. inbox' \in Seq(Messages)
      BY <1>1, <1>4, <2>1 DEF Sync, Send
    <3>2. calls' \in Nat
      BY <1>0, <1>4, CallCounts DEF Sync
    <3> QED BY <1>0, <1>4, <3>1, <3>2, QueuesStep DEF Sync, QueuesOK
  <2> QED BY <1>4, <2>2, Elsewhere DEF Sync
<1>5. ASSUME NEW id \in Local, CloseMailbox(id) PROVE RegistryInv'
  <2>1. QueuesOK'
    <3>1. calls' \in Nat
      BY <1>0, <1>5, CallCounts DEF CloseMailbox
    <3> QED BY <1>0, <1>5, <3>1, QueuesStep DEF CloseMailbox, QueuesOK
  <2> QED BY <1>5, <2>1, Elsewhere DEF CloseMailbox
<1>6. CASE Stop
  <2>1. [type |-> "stopRegistry"] \in Messages
    BY DEF Messages
  <2>2. QueuesOK'
    <3>1. inbox' \in Seq(Messages)
      BY <1>1, <1>6, <2>1 DEF Stop, Send
    <3>2. calls' \in Nat
      BY <1>0, <1>6, CallCounts DEF Stop
    <3> QED BY <1>0, <1>6, <3>1, <3>2, QueuesStep DEF Stop, QueuesOK
  <2> QED BY <1>6, <2>2, Elsewhere DEF Stop
<1>7. CASE Terminate
  <2>1. QueuesOK'
    <3>1. inbox' \in Seq(Messages)
      BY <1>7, EmptySeq DEF Terminate
    <3>2. calls' \in Nat
      BY <1>0, <1>7, CallCounts DEF Terminate
    <3> QED BY <1>0, <1>7, <3>1, <3>2, QueuesStep DEF Terminate, QueuesOK
  <2> QED BY <1>7, <2>1, Elsewhere DEF Terminate
<1>8. ASSUME NEW n \in Nodes, Connect(n) PROVE RegistryInv'
  <2>1. [type |-> "connectionStatus", node |-> n, connected |-> TRUE] \in Messages
    BY DEF Messages
  <2>2. QueuesOK'
    <3>1. inbox' \in Seq(Messages)
      BY <1>1, <1>8, <2>1 DEF Connect, Send
    <3>2. calls' \in Nat
      BY <1>0, <1>8, CallCounts DEF Connect
    <3>3. nodeRegistries' \subseteq Nodes /\ connected' \subseteq Nodes
      BY <1>0, <1>8 DEF Connect, QueuesOK
    <3> QED BY <1>0, <1>8, <3>1, <3>2, <3>3 DEF Connect, QueuesOK
  <2>3. MapsInv' /\ \A name : Claimants(name)' = Claimants(name)
    BY <1>0, <1>8, MapsUnchanged DEF Connect
  <2>4. PendingIsDone'
    BY <1>0, <1>8, <2>3 DEF Connect, PendingIsDone
  <2>5. LastWordOK'
    <3> SUFFICES ASSUME NEW o \in nodeRegistries', NEW p \in Names \X Local
                 PROVE  \/ \E b \in pending' : <<b.name, b.id>> = p
                        \/ /\ lastWord'[o][p] = "RegisterName" => p[2] \in Claimants(p[1])'
                           /\ lastWord'[o][p] = "UnregisterName" => p[2] \notin Claimants(p[1])'
      BY DEF LastWordOK
    <3>1. o \in Nodes
      BY <1>0, <1>8 DEF Connect, QueuesOK
    <3>2. CASE o = n
      BY <1>0, <1>8, <3>1, <3>2 DEF Connect, QueuesOK
    <3>3. CASE o # n
      <4>1. o \in nodeRegistries /\ lastWord'[o] = lastWord[o] /\ pending' = pending
        BY <1>0, <1>8, <3>1, <3>3 DEF Connect, QueuesOK
      <4>2. Claimants(p[1])' = Claimants(p[1])
        BY <2>3
      <4> QED BY <1>0, <4>1, <4>2 DEF LastWordOK
    <3> QED BY <3>2, <3>3
  <2>6. RegistryInv' <=> (MapsInv' /\ QueuesOK' /\ PendingIsDone' /\ LastWordOK')
    BY InvIsParts, PTL
  <2> QED BY <2>2, <2>3, <2>4, <2>5, <2>6
<1>9. ASSUME NEW n \in Nodes, Disconnect(n) PROVE RegistryInv'
  <2>1. [type |-> "connectionStatus", node |-> n, connected |-> FALSE] \in Messages
    BY DEF Messages
  <2>2. QueuesOK'
    <3>1. inbox' \in Seq(Messages)
      BY <1>1, <1>9, <2>1 DEF Disconnect, Send
    <3>2. calls' \in Nat
      BY <1>0, <1>9, CallCounts DEF Disconnect
    <3> QED BY <1>0, <1>9, <3>1, <3>2, QueuesStep DEF Disconnect, QueuesOK
  <2> QED BY <1>9, <2>2, Elsewhere DEF Disconnect
<1>10. ASSUME NEW n \in Nodes, NEW m \in FromNode(n), Arrive(n, m) PROVE RegistryInv'
  <2>1. m \in Messages \cup Passing
    BY DEF FromNode, Messages, Passing
  <2>2. arriving[n] \in Seq(Messages \cup Passing)
    BY <1>0 DEF QueuesOK
  <2>3. Append(arriving[n], m) \in Seq(Messages \cup Passing)
    BY <2>1, <2>2, AppendProperties
  <2>4. QueuesOK'
    <3>1. arriving' \in [Nodes -> Seq(Messages \cup Passing)]
      BY <1>0, <1>10, <2>3 DEF Arrive, QueuesOK
    <3>2. calls' \in Nat
      BY <1>0, <1>10, CallCounts DEF Arrive
    <3> QED BY <1>0, <1>10, <3>1, <3>2, QueuesStep DEF Arrive, QueuesOK
  <2> QED BY <1>10, <2>4, Elsewhere DEF Arrive
<1>11. ASSUME NEW n \in Nodes, Forward(n) PROVE RegistryInv'
  <2> DEFINE m == Head(arriving[n])
  <2>1. arriving[n] \in Seq(Messages \cup Passing) /\ arriving[n] # <<>>
    BY <1>0, <1>11 DEF QueuesOK, Forward
  <2>2. m \in Messages \cup Passing /\ Tail(arriving[n]) \in Seq(Messages \cup Passing)
    BY <2>1, HeadTailProperties
  <2>3. inbox' \in Seq(Messages)
    <3>1. CASE m.type # "IncomingMailboxMessage"
      <4>1. m \in Messages
        BY <2>2, <3>1 DEF Passing
      <4>2. inbox' = Append(inbox, m)
        BY <1>11, <3>1 DEF Forward, Send
      <4> QED BY <4>1, <4>2, <1>1
    <3>2. CASE m.type = "IncomingMailboxMessage" /\ m.target \in closed
      <4>1. [type |-> "UnregisterMailbox", id |-> m.target] \in Messages
        BY <1>0, <3>2 DEF Messages, QueuesOK
      <4>2. inbox' = Append(inbox, [type |-> "UnregisterMailbox", id |-> m.target])
        BY <1>11, <3>2 DEF Forward, Send
      <4> QED BY <4>1, <4>2, <1>1
    <3>3. CASE m.type = "IncomingMailboxMessage" /\ m.target \notin closed
      BY <1>0, <1>11, <3>3 DEF Forward, QueuesOK
    <3> QED BY <3>1, <3>2, <3>3
  <2>4. QueuesOK'
    BY <1>0, <1>11, <2>2, <2>3 DEF Forward, QueuesOK
  <2> QED BY <1>11, <2>4, Elsewhere DEF Forward
<1> QED
  BY <1>2, <1>3, <1>4, <1>5, <1>6, <1>7, <1>8, <1>9, <1>10, <1>11 DEF Callers, OtherNodes

\* The invariant of the registry.
THEOREM RegistryInvariant == Spec => []RegistryInv
<1>1. Init => RegistryInv
  BY RegistryInit
<1>2. RegistryInv /\ [Next]_vars => RegistryInv'
  <2> SUFFICES ASSUME RegistryInv, [Next]_vars PROVE RegistryInv'
    OBVIOUS
  <2>1. CASE Serve
    BY <2>1, HandleStep, BroadcastStep DEF Serve
  <2>2. CASE Callers \/ OtherNodes
    BY <2>2, EnvironmentStep
  <2>3. CASE UNCHANGED vars
    <3>1. UNCHANGED <<maps, nodeRegistries, pending, lastWord>>
      BY <2>3 DEF vars
    <3>2. QueuesOK'
      BY <2>3, InvIsParts DEF vars, QueuesOK
    <3> QED BY <3>1, <3>2, Elsewhere
  <2> QED BY <2>1, <2>2, <2>3 DEF Next
<1> QED BY <1>1, <1>2, PTL DEF Spec

\* multipleClaimCount (registry.go:172) is the number of names with several
\* claimants at every moment another goroutine can read it.
THEOREM GaugeIsExact == Spec => []CountIsExact
<1>1. RegistryInv => CountIsExact
  BY DEF RegistryInv
<1> QED BY <1>1, RegistryInvariant, PTL

\* What toOtherNodes (registry.go:460-468) sent a connected node last about a local
\* claim is true, unless a broadcast is under way.
THEOREM BroadcastsAreTrue == Spec => []LastWordIsTrue
<1>1. RegistryInv => LastWordIsTrue
  BY DEF RegistryInv, LastWordOK, LastWordIsTrue
<1> QED BY <1>1, RegistryInvariant, PTL

\* unregisterMailbox (registry.go:695-716) leaves no name claimed by the mailbox.
THEOREM UnregisterMailboxForgets == Spec => MailboxIsForgotten
<1> DEFINE Forgets == \A m \in Range(inbox) :
             HandleUnregisterMailbox(m) => \A name \in DOMAIN claims' : m.id \notin claims'[name]
<1>1. RegistryInv => Forgets
  <2> SUFFICES ASSUME RegistryInv, NEW m \in Range(inbox), HandleUnregisterMailbox(m),
                      NEW name \in DOMAIN claims'
               PROVE  m.id \notin claims'[name]
    OBVIOUS
  <2> DEFINE its == Entries(m.id) \X {m.id}
  <2>1. name \in DOMAIN claims /\ claims'[name] = Rest(name, its)
    BY DEF HandleUnregisterMailbox, unregisterAll
  <2>2. m \in Messages /\ m.type = "UnregisterMailbox"
    BY InvIsParts, ReceiveLemma DEF HandleUnregisterMailbox
  <2>3. m.id \in IDs
    BY <2>2, MessageFields DEF IDs
  <2>4. m.id \in Claimants(name) => name \in Entries(m.id)
    BY <2>1 DEF RegistryInv, ClaimsAreIndexed, Claimants
  <2> QED BY <2>1, <2>3, <2>4 DEF Rest
<1>2. RegistryInv => [Forgets]_vars
  BY <1>1
<1> QED BY <1>2, RegistryInvariant, PTL DEF MailboxIsForgotten
-----------------------------------------------------------------------------
(* Conflicts *)

\* registerAll adds no claimants but those of its pairs, unregisterAll none at all.
LEMMA ClaimantsAfter ==
  ASSUME NEW pairs, NEW name
  PROVE  /\ registerAll(pairs) => Claimants(name)' \subseteq Grown(name, pairs)
         /\ unregisterAll(pairs) => Claimants(name)' \subseteq Claimants(name)
<1>1. registerAll(pairs) => Claimants(name)' \subseteq Grown(name, pairs)
  BY DEF registerAll, Claimants
<1>2. unregisterAll(pairs) => Claimants(name)' \subseteq Claimants(name)
  BY DEF unregisterAll, Claimants, Rest
<1> QED BY <1>1, <1>2

\* Where no local claimant is new, those that contest the name contested it before.
LEMMA NoNewConflict ==
  ASSUME RegistryInv, LocalConflictIsNotified, warned \subseteq warned', closed \subseteq closed',
         NEW name \in Names, Claimants(name)' \cap Local \subseteq Claimants(name)
  PROVE  Contested((Claimants(name) \cap Local)') =>
           \A id \in (Claimants(name) \cap (Local \ closed))' : <<name, id>> \in warned'
<1> DEFINE here == Claimants(name) \cap Local
           after == (Claimants(name) \cap Local)'
<1>1. IsFiniteSet(here) /\ after \in SUBSET here
  BY InvIsParts, ClaimantsFinite, FS_Subset DEF MapsInv
<1>2. Contested(after) => Contested(here)
  BY <1>1, ContestedGrows
<1> QED BY <1>1, <1>2 DEF LocalConflictIsNotified

\* One step keeps conflicts notified.
LEMMA ConflictStep ==
  ASSUME RegistryInv, LocalConflictIsNotified, [Next]_vars
  PROVE  LocalConflictIsNotified'
<1> DEFINE Kept(name) == Claimants(name)' \cap Local \subseteq Claimants(name)
           Told(name) == Contested((Claimants(name) \cap Local)') =>
                           \A id \in (Claimants(name) \cap (Local \ closed))' : <<name, id>> \in warned'
<1>0. QueuesOK /\ MapsInv
  BY InvIsParts
<1>1. ASSUME warned \subseteq warned', closed \subseteq closed', \A name \in Names : Kept(name)
      PROVE  LocalConflictIsNotified'
  <2>1. \A name \in Names : Told(name)
    BY <1>1, NoNewConflict
  <2> QED BY <2>1 DEF LocalConflictIsNotified
<1>2. ASSUME NEW m, HandleRegisterName(m) PROVE LocalConflictIsNotified'
  <2>1. m.name \in Names /\ m.id \in Local
    BY <1>0, <1>2, ReceiveLemma, MessageFields DEF HandleRegisterName
  <2>2. \A name \in Names : Claimants(name)' \subseteq Grown(name, {<<m.name, m.id>>})
    BY <1>2, ClaimantsAfter DEF HandleRegisterName
  <2>3. ASSUME NEW name \in Names, name # m.name PROVE Told(name)
    <3>1. Kept(name)
      BY <2>2, <2>3 DEF Grown
    <3> QED BY <1>2, <3>1, NoNewConflict DEF HandleRegisterName
  <2>4. Told(m.name)
    <3> DEFINE all == Claimants(m.name) \cup {m.id}
               after == (Claimants(m.name) \cap Local)'
    <3>1. after \in SUBSET all
      BY <2>1, <2>2 DEF Grown
    <3>2. IsFiniteSet(all)
      BY <1>0, ClaimantsFinite, FS_AddElement DEF MapsInv
    <3>3. ~Contested(all)
      BY <1>2 DEF HandleRegisterName
    <3>4. ~Contested(after)
      BY <3>1, <3>2, <3>3, ContestedGrows
    <3> QED BY <3>4
  <2> QED BY <2>3, <2>4 DEF LocalConflictIsNotified
<1>3. ASSUME NEW m, HandleConflict(m) PROVE LocalConflictIsNotified'
  <2>1. m.name \in Names /\ m.id \in Local
    BY <1>0, <1>3, ReceiveLemma, MessageFields DEF HandleConflict
  <2>2. \A name \in Names : Claimants(name)' \subseteq Grown(name, {<<m.name, m.id>>})
    BY <1>3, ClaimantsAfter DEF HandleConflict
  <2>3. ASSUME NEW name \in Names, name # m.name PROVE Told(name)
    <3>1. Kept(name)
      BY <2>2, <2>3 DEF Grown
    <3> QED BY <1>3, <3>1, NoNewConflict DEF HandleConflict
  <2>4. Told(m.name)
    <3> DEFINE open == (Claimants(m.name) \cup {m.id}) \cap (Local \ closed)
    <3>1. (Claimants(m.name) \cap (Local \ closed))' \subseteq open
      <4>1. Claimants(m.name)' \subseteq Claimants(m.name) \cup {m.id}
        BY <2>1, <2>2 DEF Grown
      <4>2. closed' = closed
        BY <1>3 DEF HandleConflict
      <4> QED BY <4>1, <4>2
    <3>2. {m.name} \X open \subseteq warned'
      BY <1>3 DEF HandleConflict
    <3> HIDE DEF open
    <3>3. \A id \in open : <<m.name, id>> \in warned'
      BY <3>2
    <3> QED BY <3>1, <3>3
  <2> QED BY <2>3, <2>4 DEF LocalConflictIsNotified
<1>4. ASSUME NEW m, HandleRemoteRegisterName(m) PROVE LocalConflictIsNotified'
  <2>1. m.id \notin Local
    BY <1>0, <1>4, ReceiveLemma, MessageFields, RegistryAssumption DEF HandleRemoteRegisterName
  <2>2. \A name \in Names : Claimants(name)' \subseteq Grown(name, {<<m.name, m.id>>})
    BY <1>4, ClaimantsAfter DEF HandleRemoteRegisterName
  <2>3. \A name \in Names : Kept(name)
    <3> TAKE name \in Names
    <3>1. \A id \in Grown(name, {<<m.name, m.id>>}) \cap Local : id \in Claimants(name)
      BY <2>1 DEF Grown
    <3> QED BY <2>2, <3>1
  <2> QED BY <1>1, <1>4, <2>3 DEF HandleRemoteRegisterName
<1>5. ASSUME NEW m, HandleUnregisterName(m) PROVE LocalConflictIsNotified'
  BY <1>1, <1>5, ClaimantsAfter DEF HandleUnregisterName
<1>6. ASSUME NEW m, HandleRemoteUnregisterName(m) PROVE LocalConflictIsNotified'
  BY <1>1, <1>6, ClaimantsAfter DEF HandleRemoteUnregisterName
<1>7. ASSUME NEW m, HandleUnregisterMailbox(m) PROVE LocalConflictIsNotified'
  BY <1>1, <1>7, ClaimantsAfter DEF HandleUnregisterMailbox
<1>8. ASSUME NEW m, HandleDisconnected(m) PROVE LocalConflictIsNotified'
  BY <1>1, <1>8, ClaimantsAfter DEF HandleDisconnected
<1>9. ASSUME NEW m, HandleAllNodeClaims(m) PROVE LocalConflictIsNotified'
  <2> DEFINE its == {p \in m.pairs : NodeOf[p[2]] = m.node}
  <2>1. m.pairs \subseteq Names \X Remote
    BY <1>0, <1>9, ReceiveLemma, MessageFields DEF HandleAllNodeClaims
  <2>2. \A name \in Names, id \in Local : <<name, id>> \notin its
    BY <2>1, RegistryAssumption
  <2>3. registerAll(its)
    BY <1>9 DEF HandleAllNodeClaims
  <2> HIDE DEF its
  <2>4. \A name \in Names : Kept(name)
    BY <2>2, <2>3, ClaimantsAfter DEF Grown
  <2> QED BY <1>1, <1>9, <2>4 DEF HandleAllNodeClaims
<1>10. ASSUME UNCHANGED <<claims, warned>>, closed \subseteq closed' PROVE LocalConflictIsNotified'
  <2>1. \A name \in Names : Kept(name)
    BY <1>10 DEF Claimants
  <2> QED BY <1>1, <1>10, <2>1
<1>11. ASSUME NEW m, HandleConnected(m) \/ HandleSynchronize(m) \/ HandleStop(m) \/ Broadcast(m)
       PROVE  LocalConflictIsNotified'
  BY <1>10, <1>11 DEF HandleConnected, HandleSynchronize, HandleStop, Broadcast, maps
<1>12. CASE Serve
  BY <1>2, <1>3, <1>4, <1>5, <1>6, <1>7, <1>8, <1>9, <1>11, <1>12 DEF Serve, Handle
<1>13. CASE Callers \/ OtherNodes
  <2>1. UNCHANGED <<claims, warned>> /\ closed \subseteq closed'
    BY <1>13 DEF Callers, OtherNodes, Register, Unregister, Sync, CloseMailbox, Stop, Terminate,
                 Connect, Disconnect, Arrive, Forward, maps
  <2> QED BY <1>10, <2>1
<1>14. CASE UNCHANGED vars
  BY <1>10, <1>14 DEF vars, maps
<1> QED BY <1>12, <1>13, <1>14 DEF Next

\* registerAll (registry.go:616-644) has sent a MultipleClaim to all open local
\* mailboxes that contest a name, whatever came in between.
THEOREM ConflictsAreNotified == Spec => []LocalConflictIsNotified
<1>1. Init => LocalConflictIsNotified
  <2>1. Init => \A name : Claimants(name) \cap Local = {}
    BY DEF Init, Claimants
  <2> QED BY <2>1, NobodyContests DEF LocalConflictIsNotified
<1>2. RegistryInv /\ LocalConflictIsNotified /\ [Next]_vars => LocalConflictIsNotified'
  BY ConflictStep
<1> QED BY <1>1, <1>2, RegistryInvariant, PTL DEF Spec
=============================================================================
